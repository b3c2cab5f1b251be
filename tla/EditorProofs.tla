---------------------------- MODULE EditorProofs ----------------------------
(***************************************************************************)
(* Theorems about one editor, for any contents and any bounds.             *)
(***************************************************************************)
EXTENDS Editor, SequenceTheorems, TLAPS

USE EditorAssumption

LEMMA Constants ==
    /\ Versions \subseteq Nat /\ 1 \in Versions
    /\ Mounts \subseteq Nat /\ 0 \notin Mounts
    /\ Null \notin Draft
    /\ Draft = [version : Versions, body : Bodies]
  BY SMT DEF Versions, Mounts, Draft, Chain!Entry

(* What is pushed on a stack is all that is new on it.                       *)
LEMMA PushStack ==
    ASSUME NEW S, NEW s \in Seq(S), NEW e \in S
    PROVE  /\ Append(s, e) \in Seq(S)
           /\ \A d \in Range(Append(s, e)) : d \in Range(s) \/ d = e
  BY DEF Range

(* What is popped was on the stack, and so is all that remains.              *)
LEMMA PopStack ==
    ASSUME NEW S, NEW s \in Seq(S), s # <<>>
    PROVE  /\ Front(s) \in Seq(S)
           /\ Last(s) \in S
           /\ Last(s) \in Range(s)
           /\ Range(Front(s)) \subseteq Range(s)
<1> DEFINE n == Len(s) - 1
<1>1. Len(s) \in Nat \ {0} /\ DOMAIN s = 1..Len(s)
  OBVIOUS
<1>2. Front(s) = SubSeq(s, 1, n) /\ n \in Nat
  BY <1>1 DEF Front
<1>3. /\ Front(s) \in Seq(S)
      /\ Len(Front(s)) = n
      /\ \A i \in 1..n : Front(s)[i] = s[i]
  BY <1>1, <1>2, SubSeqProperties
<1>4. DOMAIN Front(s) = 1..n
  BY <1>3
<1>5. Last(s) = s[Len(s)] /\ Len(s) \in DOMAIN s
  BY <1>1 DEF Last
<1>6. Range(Front(s)) \subseteq Range(s)
  BY <1>1, <1>3, <1>4 DEF Range
<1> QED
  BY <1>1, <1>3, <1>5, <1>6 DEF Range

LEMMA EmptyStack == <<>> \in Seq(Draft) /\ Range(<<>>) = {}
  BY DEF Range

-----------------------------------------------------------------------------
(* The types.  A stack holds documents only while one is on screen, so what  *)
(* undo and redo push is a document.  The load of the current mount shows    *)
(* its document on an empty screen, unless one of an earlier mount came      *)
(* first.                                                                    *)

FetchedIsDraft ==
    \A m \in Mounts : load[m].phase = "fetched" => load[m].doc \in Draft

Shows(m) == load[m].phase \in {"reading", "fallback", "fetched"}

EmptyUntilShown == mount \in Mounts /\ foreign = {} /\ Shows(mount) => screen = Null

Shape == TypeOK /\ FetchedIsDraft /\ EmptyUntilShown /\ StacksFitScreen

LEMMA InitShape == Init => Shape
<1> SUFFICES ASSUME Init
             PROVE  Shape
  OBVIOUS
<1>1. Chain!TypeOK
  BY Constants DEF Init, Chain!TypeOK, Draft
<1>2. Range(undoStack) = {} /\ Range(redoStack) = {}
  BY EmptyStack DEF Init
<1>3. request \in [Mounts -> Request] /\ load \in [Mounts -> Load]
  BY DEF Init, Request, Load, NoLoad
<1>4. TypeOK
  BY <1>1, <1>3, EmptyStack DEF Init, TypeOK
<1> QED
  BY <1>2, <1>4
     DEF Init, Shape, FetchedIsDraft, EmptyUntilShown, StacksFitScreen, NoLoad

LEMMA SavesKeepTypes ==
    ASSUME Chain!TypeOK,
           NEW e \in Draft, Chain!Save(e) \/ Chain!Publish(e) \/ Chain!Rollback(e)
    PROVE  Chain!TypeOK'
  BY DEF Draft, Chain!TypeOK, Chain!Save, Chain!Publish, Chain!Rollback,
         Chain!Extend

LEMMA RequestTypes ==
    ASSUME NEW r \in Request
    PROVE  /\ r.phase # "none" => r.doc \in Draft
           /\ \A p \in {"sent", "checked", "ok", "conflict", "error"} :
                r.phase # "none" => [r EXCEPT !.phase = p] \in Request
  BY DEF Request, NoRequest

(* What load() does to the store. *)
LEMMA ResetShape ==
    ASSUME Reset
    PROVE  /\ screen' = Null
           /\ undoStack' \in Seq(Draft) /\ redoStack' \in Seq(Draft)
           /\ saveState' = "clean"
           /\ foreign' \subseteq Mounts
           /\ EmptyUntilShown'
           /\ StacksFitScreen'
  BY EmptyStack DEF Reset, EmptyUntilShown, StacksFitScreen

LEMMA LoadTypes ==
    /\ NoLoad \in Load
    /\ \A b \in BOOLEAN : Begun(b) \in Load /\ Begun(b).phase = "reading"
    /\ \A m \in Mounts, p \in {"open", "error"} :
         Ended(m, p) \in Load /\ Ended(m, p).phase \in {"none", p}
    /\ \A l \in Load, p \in Pending : [l EXCEPT !.phase = p] \in Load
  BY DEF Load, NoLoad, Begun, Ended, Pending

(* One load goes on, and the others are as they were. *)
LEMMA OneLoad ==
    ASSUME load \in [Mounts -> Load], FetchedIsDraft, NEW m \in Mounts,
           NEW l \in Load, load' = [load EXCEPT ![m] = l],
           l.phase = "fetched" => l.doc \in Draft
    PROVE  /\ load' \in [Mounts -> Load]
           /\ load'[m] = l
           /\ \A k \in Mounts \ {m} : load'[k] = load[k]
           /\ FetchedIsDraft'
  BY DEF FetchedIsDraft

(* A reset, whatever becomes of the loads. *)
LEMMA ResetKeepsShape ==
    ASSUME Shape, Reset, load' \in [Mounts -> Load], FetchedIsDraft',
           mount' \in 0..MaxMounts, losses' \in 0..MaxLosses,
           UNCHANGED <<serverVars, request, synced, edits, others>>
    PROVE  Shape'
  BY ResetShape DEF Shape, TypeOK, serverVars, Chain!TypeOK

LEMMA OpenShape == Shape /\ (Open \/ Retry) => Shape'
<1> SUFFICES ASSUME Shape, Open \/ Retry
             PROVE  Shape'
  OBVIOUS
<1>1. load \in [Mounts -> Load] /\ mount \in 0..MaxMounts /\ losses \in 0..MaxLosses
  BY DEF Shape, TypeOK
<1>2. Reset /\ UNCHANGED <<serverVars, request, synced, edits, others, losses>>
  BY DEF Open, Retry, bounds
<1>3. CASE Open
  <2>1. \A m \in Mounts : \/ load'[m] = Begun(FALSE)
                           \/ load'[m] = NoLoad
                           \/ load'[m] = load[m]
    BY <1>3, Zenon DEF Open, Left
  <2>2. load' \in [Mounts -> Load]
    <3>1. \A m \in Mounts : load'[m] \in Load
      BY <1>1, <2>1, LoadTypes
    <3>2. load' = [m \in Mounts |-> load'[m]]
      BY <1>3, Zenon DEF Open
    <3> QED
      BY <3>1, <3>2
  <2>3. FetchedIsDraft'
    <3>1. Begun(FALSE).phase # "fetched" /\ NoLoad.phase # "fetched"
      BY LoadTypes DEF NoLoad
    <3> QED
      BY <2>1, <3>1 DEF Shape, FetchedIsDraft
  <2>4. mount' \in 0..MaxMounts
    <3>1. MaxMounts \in Nat
      OBVIOUS
    <3> QED
      BY <1>1, <1>3, <3>1 DEF Open
  <2> QED
    BY <1>1, <1>2, <2>2, <2>3, <2>4, ResetKeepsShape
<1>4. CASE Retry
  <2>1. mount \in Mounts
    BY <1>1, <1>4 DEF Retry, Mounts
  <2>2. load' \in [Mounts -> Load] /\ FetchedIsDraft'
    BY <1>1, <1>4, <2>1, LoadTypes, OneLoad DEF Retry, Shape
  <2>3. mount' \in 0..MaxMounts
    BY <1>1, <1>4 DEF Retry
  <2> QED
    BY <1>1, <1>2, <2>2, <2>3, ResetKeepsShape
<1> QED
  BY <1>3, <1>4

LEMMA LoadFailsShape ==
    ASSUME Shape, NEW m \in Mounts, LoadFails(m), losses' \in 0..MaxLosses
    PROVE  Shape'
<1>1. load \in [Mounts -> Load] /\ mount \in 0..MaxMounts
  BY DEF Shape, TypeOK
<1>2. Ended(m, "error") \in Load /\ Ended(m, "error").phase # "fetched"
  BY LoadTypes
<1>3. load' \in [Mounts -> Load] /\ FetchedIsDraft'
  BY <1>1, <1>2, OneLoad DEF LoadFails, Shape
<1> QED
  BY <1>1, <1>3, ResetKeepsShape DEF LoadFails

(* A load that does not touch the store. *)
LEMMA LoadGoesOnShape ==
    ASSUME Shape, NEW m \in Mounts, NEW l \in Load, LoadGoesOn(m, l),
           l.phase = "fetched" => l.doc \in Draft,
           l.phase \in {"reading", "fallback", "fetched"} => Shows(m)
    PROVE  Shape'
<1>1. load \in [Mounts -> Load]
  BY DEF Shape, TypeOK
<1>2. /\ load' \in [Mounts -> Load]
      /\ load'[m] = l
      /\ \A k \in Mounts \ {m} : load'[k] = load[k]
      /\ FetchedIsDraft'
  BY <1>1, OneLoad DEF LoadGoesOn, Shape
<1>3. EmptyUntilShown'
  BY <1>2 DEF LoadGoesOn, storeVars, Shape, EmptyUntilShown, Shows
<1> QED
  BY <1>2, <1>3
     DEF LoadGoesOn, Shape, TypeOK, Chain!TypeOK, StacksFitScreen, serverVars,
         storeVars, bounds

LEMMA ReadShape ==
    ASSUME Shape, NEW m \in Mounts, ReadDraft(m) \/ ReadPublished(m) \/ Preview(m)
    PROVE  Shape'
<1>1. load[m] \in Load /\ losses \in 0..MaxLosses
  BY DEF Shape, TypeOK
<1>2. CASE NotFound(m)
  BY <1>1, <1>2, LoadFailsShape DEF NotFound
<1>3. ASSUME Fetch(m, drafts) \/ Fetch(m, published), Shows(m)
      PROVE  Shape'
  <2>1. PICK d \in drafts \cup published :
          LoadGoesOn(m, [load[m] EXCEPT !.phase = "fetched", !.doc = d])
    BY <1>3 DEF Fetch, Chain!Newest
  <2>2. d \in Draft
    BY DEF Shape, TypeOK, Chain!TypeOK, Draft
  <2> DEFINE l == [load[m] EXCEPT !.phase = "fetched", !.doc = d]
  <2>3. l \in Load /\ l.phase = "fetched" /\ l.doc = d
    BY <1>1, <2>2 DEF Load, Pending
  <2> HIDE DEF l
  <2> QED
    BY <1>3, <2>1, <2>2, <2>3, LoadGoesOnShape DEF l
<1>4. ASSUME LoadGoesOn(m, [load[m] EXCEPT !.phase = "fallback"]),
             load[m].phase = "reading"
      PROVE  Shape'
  <2> DEFINE l == [load[m] EXCEPT !.phase = "fallback"]
  <2>1. l \in Load /\ l.phase = "fallback"
    BY <1>1 DEF Load, Pending
  <2>2. Shows(m)
    BY <1>4 DEF Shows
  <2> HIDE DEF l
  <2> QED
    BY <1>4, <2>1, <2>2, LoadGoesOnShape DEF l
<1>5. CASE LoadGoesOn(m, Ended(m, "open"))
  <2>1. Ended(m, "open") \in Load /\ Ended(m, "open").phase \in {"none", "open"}
    BY LoadTypes
  <2> QED
    BY <1>5, <2>1, LoadGoesOnShape
<1>6. CASE ReadDraft(m)
  BY <1>3, <1>4, <1>6 DEF ReadDraft, Shows
<1>7. CASE ReadPublished(m)
  BY <1>2, <1>3, <1>7 DEF ReadPublished, Shows
<1>8. CASE Preview(m)
  BY <1>2, <1>5, <1>8 DEF Preview
<1> QED
  BY <1>6, <1>7, <1>8

LEMMA ShowShape ==
    ASSUME Shape, NEW m \in Mounts, Show(m)
    PROVE  Shape'
<1> DEFINE l == [load[m] EXCEPT !.phase = "previewing", !.doc = Null]
<1>1. load \in [Mounts -> Load] /\ load[m].doc \in Draft /\ load[m] \in Load
  BY DEF Show, Shape, TypeOK, FetchedIsDraft
<1>2. l \in Load /\ l.phase = "previewing"
  BY <1>1 DEF Load, Pending
<1>3. load' = [load EXCEPT ![m] = l]
  BY <1>1 DEF Show
<1> HIDE DEF l
<1>4. /\ load' \in [Mounts -> Load]
      /\ load'[m] = l
      /\ FetchedIsDraft'
  BY <1>1, <1>2, <1>3, OneLoad DEF Shape
<1>5. foreign' \subseteq Mounts /\ (foreign' = {} => foreign = {} /\ m = mount)
  BY DEF Show, Shape, TypeOK
<1>6. EmptyUntilShown'
  BY <1>2, <1>4, <1>5 DEF Show, EmptyUntilShown, Shows
<1>7. ASSUME foreign' = {}
      PROVE  Range(undoStack) = {} /\ Range(redoStack) = {}
  <2>1. screen = Null
    BY <1>5, <1>7 DEF Show, Shape, EmptyUntilShown, Shows
  <2> QED
    BY <2>1 DEF Shape, StacksFitScreen
<1>8. StacksFitScreen'
  <2>1. screen' # Null
    BY <1>1, Constants DEF Show
  <2> QED
    BY <1>7, <2>1 DEF Show, StacksFitScreen
<1>9. synced' \subseteq Draft /\ screen' \in Draft
  BY <1>1 DEF Show, Shape, TypeOK
<1> QED
  BY <1>4, <1>5, <1>6, <1>8, <1>9
     DEF Show, Shape, TypeOK, Chain!TypeOK, serverVars, bounds

LEMMA StepShape == Shape /\ [Next]_vars => Shape'
<1> SUFFICES ASSUME Shape, [Next]_vars
             PROVE  Shape'
  OBVIOUS
<1> USE DEF Shape
<1>1. CASE Open \/ Retry
  BY <1>1, OpenShape
<1>2. ASSUME NEW m \in Mounts, LoseLoad(m)
      PROVE  Shape'
  <2>1. LoadFails(m) /\ losses' \in 0..MaxLosses
    BY <1>2 DEF LoseLoad, TypeOK
  <2> QED
    BY <2>1, LoadFailsShape
<1>3. ASSUME NEW m \in Mounts, ReadDraft(m) \/ ReadPublished(m) \/ Preview(m)
      PROVE  Shape'
  BY <1>3, ReadShape
<1>4. ASSUME NEW m \in Mounts, Show(m)
      PROVE  Shape'
  BY <1>4, ShowShape
<1>5. ASSUME NEW b \in Bodies, Edit(b)
      PROVE  Shape'
  <2>1. screen \in Draft /\ screen' \in Draft /\ screen'.version = screen.version
    BY <1>5, Constants DEF Edit, Editing, TypeOK
  <2>2. undoStack' \in Seq(Draft) /\ \A d \in Range(undoStack') :
                                        d \in Range(undoStack) \/ d = screen
    BY <1>5, <2>1, PushStack DEF Edit, TypeOK
  <2>3. redoStack' \in Seq(Draft) /\ Range(redoStack') = {}
    BY <1>5, EmptyStack DEF Edit
  <2>4. StacksFitScreen' /\ EmptyUntilShown' /\ FetchedIsDraft'
    BY <1>5, <2>1, <2>2, <2>3, Constants
       DEF Edit, Editing, StacksFitScreen, EmptyUntilShown, FetchedIsDraft, Shows
  <2> QED
    BY <1>5, <2>1, <2>2, <2>3, <2>4
       DEF Edit, TypeOK, Chain!TypeOK, serverVars
<1>6. ASSUME NEW from, NEW onto, from \in Seq(Draft), onto \in Seq(Draft),
             NEW pushed, pushed \in {screen, Last(from)}, from # <<>>,
             screen' = Last(from), Move, edits' \in 0..MaxEdits,
             \/ /\ from = undoStack /\ undoStack' = Front(from)
                /\ onto = redoStack /\ redoStack' = Append(onto, pushed)
             \/ /\ from = redoStack /\ redoStack' = Front(from)
                /\ onto = undoStack /\ undoStack' = Append(onto, pushed)
      PROVE  Shape'
  <2>1. /\ screen' \in Draft /\ Last(from) \in Range(from)
        /\ Front(from) \in Seq(Draft) /\ Range(Front(from)) \subseteq Range(from)
    BY <1>6, PopStack
  <2>2. /\ screen # Null
        /\ foreign = {} => \A d \in Range(from) \cup Range(onto) :
                              d.version = screen.version
    BY <1>6, <2>1 DEF StacksFitScreen
  <2>3. pushed \in Draft /\ (foreign = {} => pushed.version = screen.version)
    BY <1>6, <2>1, <2>2, PopStack DEF TypeOK
  <2>4. /\ Append(onto, pushed) \in Seq(Draft)
        /\ \A d \in Range(Append(onto, pushed)) : d \in Range(onto) \/ d = pushed
    BY <1>6, <2>3, PushStack
  <2>5. undoStack' \in Seq(Draft) /\ redoStack' \in Seq(Draft)
    BY <1>6, <2>1, <2>4
  <2>6. screen' # Null /\ (foreign = {} => screen'.version = screen.version)
    BY <1>6, <2>1, <2>2, Constants
  <2>7. StacksFitScreen'
    <3>1. foreign' = foreign
      BY <1>6 DEF Move
    <3> QED
      BY <1>6, <2>1, <2>2, <2>3, <2>4, <2>6, <3>1 DEF StacksFitScreen
  <2>8. edits' \in 0..MaxEdits /\ saveState' = "dirty"
    BY <1>6 DEF Move
  <2>9. UNCHANGED <<published, drafts, foreign, mount, load, request, synced,
                    losses, others>>
    BY <1>6 DEF Move, serverVars
  <2>10. TypeOK'
    BY <2>1, <2>5, <2>8, <2>9 DEF TypeOK, Chain!TypeOK
  <2>11. FetchedIsDraft'
    BY <2>9 DEF FetchedIsDraft
  <2>12. EmptyUntilShown'
    BY <2>2, <2>9 DEF EmptyUntilShown, Shows
  <2> QED
    BY <2>7, <2>10, <2>11, <2>12
<1>7. CASE Undo
  <2>1. undoStack \in Seq(Draft) /\ redoStack \in Seq(Draft)
    BY DEF TypeOK
  <2>2. edits' \in 0..MaxEdits
    BY <1>7 DEF Undo, TypeOK
  <2> QED
    BY <1>6, <1>7, <2>1, <2>2 DEF Undo
<1>8. CASE Redo
  <2>1. undoStack \in Seq(Draft) /\ redoStack \in Seq(Draft)
    BY DEF TypeOK
  <2>2. edits' \in 0..MaxEdits
    BY <1>8 DEF Redo, TypeOK
  <2> QED
    BY <1>6, <1>8, <2>1, <2>2 DEF Redo
<1>9. CASE Tick
  <2>1. request' \in [Mounts -> Request]
    BY <1>9, Constants DEF Tick, TypeOK, Request
  <2> QED
    BY <1>9, <2>1
       DEF Tick, TypeOK, Chain!TypeOK, FetchedIsDraft, EmptyUntilShown, Shows, StacksFitScreen,
           serverVars, bounds
<1>10. ASSUME NEW m \in Mounts, NEW p \in {"sent", "checked", "ok", "conflict", "error"},
              request[m].phase # "none", Becomes(m, p)
       PROVE  request' \in [Mounts -> Request]
  <2>1. [request[m] EXCEPT !.phase = p] \in Request
    BY <1>10, RequestTypes DEF TypeOK
  <2>2. request' = [request EXCEPT ![m] = [request[m] EXCEPT !.phase = p]]
    BY <1>10 DEF Becomes, TypeOK
  <2> QED
    BY <2>1, <2>2 DEF TypeOK
<1>11. ASSUME NEW m \in Mounts, CheckVersion(m)
       PROVE  Shape'
  <2>1. request' \in [Mounts -> Request]
    BY <1>10, <1>11 DEF CheckVersion
  <2> QED
    BY <1>11, <2>1
       DEF CheckVersion, TypeOK, Chain!TypeOK, FetchedIsDraft, EmptyUntilShown,
           Shows, StacksFitScreen, serverVars, storeVars, bounds
<1>12. ASSUME NEW m \in Mounts, WriteDraft(m)
       PROVE  Shape'
  <2>1. request' \in [Mounts -> Request] /\ request[m].doc \in Draft
    BY <1>10, <1>12, RequestTypes DEF WriteDraft, TypeOK
  <2>2. Chain!TypeOK'
    BY <1>12, <2>1, SavesKeepTypes DEF WriteDraft, TypeOK, Chain!TypeOK, serverVars
  <2> QED
    BY <1>12, <2>1, <2>2
       DEF WriteDraft, TypeOK, FetchedIsDraft, EmptyUntilShown, Shows, StacksFitScreen, serverVars,
           storeVars, bounds
<1>13. ASSUME NEW m \in Mounts, Lose(m)
       PROVE  Shape'
  <2>1. request' \in [Mounts -> Request]
    BY <1>10, <1>13 DEF Lose
  <2>2. losses' \in 0..MaxLosses
    BY <1>13 DEF Lose, TypeOK
  <2> QED
    BY <1>13, <2>1, <2>2
       DEF Lose, TypeOK, Chain!TypeOK, FetchedIsDraft, EmptyUntilShown, Shows, StacksFitScreen,
           serverVars, storeVars
<1>14. ASSUME NEW m \in Mounts, Answer(m)
       PROVE  Shape'
  <2>1. request' \in [Mounts -> Request]
    BY <1>14 DEF Answer, TypeOK, Request
  <2>2. saveState' \in {"clean", "dirty", "saving", "conflict"}
    BY <1>14 DEF Answer, Answered, TypeOK
  <2> QED
    BY <1>14, <2>1, <2>2
       DEF Answer, TypeOK, Chain!TypeOK, FetchedIsDraft, EmptyUntilShown, Shows, StacksFitScreen,
           serverVars, bounds
<1>15. ASSUME UNCHANGED <<storeVars, mount, load, request, synced>>,
              Chain!TypeOK', edits' \in 0..MaxEdits, losses' \in 0..MaxLosses,
              others' \in 0..MaxOthers
       PROVE  Shape'
  BY <1>15 DEF TypeOK, FetchedIsDraft, EmptyUntilShown, Shows, StacksFitScreen, storeVars
<1>16. CASE Publish \/ Rollback
  <2>1. PICK e \in Draft : Chain!Publish(e) \/ Chain!Rollback(e)
    BY <1>16, Constants
       DEF Publish, Rollback, Chain!Newest, TypeOK, Chain!TypeOK, Draft
  <2> QED
    BY <1>15, <1>16, <2>1, SavesKeepTypes DEF Publish, Rollback, bounds, TypeOK
<1>17. ASSUME NEW doc \in Draft, OtherSave(doc)
       PROVE  Shape'
  <2>1. Chain!TypeOK' /\ others' \in 0..MaxOthers
    BY <1>17, SavesKeepTypes DEF OtherSave, TypeOK
  <2> QED
    BY <1>15, <1>17, <2>1 DEF OtherSave, TypeOK
<1>18. CASE UNCHANGED vars
  BY <1>15, <1>18 DEF vars, serverVars, bounds, TypeOK, Chain!TypeOK
<1> QED
  BY <1>1, <1>2, <1>3, <1>4, <1>5, <1>7, <1>8, <1>9, <1>11, <1>12, <1>13, <1>14,
     <1>16, <1>17, <1>18 DEF Next

(* The types, and what holds of the stacks. *)
LEMMA ShapeHolds == Spec => []Shape
  BY InitShape, StepShape, PTL DEF Spec

(* Every variable keeps its type, whatever the bounds.                       *)
THEOREM TypeCorrect == Spec => []TypeOK
<1>1. Shape => TypeOK
  BY DEF Shape
<1> QED
  BY <1>1, ShapeHolds, PTL

(* Undo and redo bring back documents of the load on screen only, whatever   *)
(* is published, reopened and retried, unless a retried load outlived its    *)
(* mount and was shown; and where there is no document they do nothing.      *)
THEOREM StacksCorrect == Spec => []StacksFitScreen
<1>1. Shape => StacksFitScreen
  BY DEF Shape
<1> QED
  BY <1>1, ShapeHolds, PTL
-----------------------------------------------------------------------------
(* What a save that is settled rests on: a PUT is answered ok only for a     *)
(* document that was written, and while the state is saving or clean what is *)
(* on screen is synced, or is what the current mount has sent.               *)

OkIsWritten ==
    \A m \in Mounts : request[m].phase = "ok" => request[m].doc \in synced

SentOrSynced ==
    screen # Null /\ saveState \in {"saving", "clean"} =>
        \/ screen \in synced
        \/ mount \in Mounts /\ request[mount] # NoRequest
                            /\ request[mount].doc = screen

Settling == OkIsWritten /\ SentOrSynced

LEMMA InitSettling == Init => Settling
  BY DEF Init, Settling, OkIsWritten, SentOrSynced, NoRequest

LEMMA StepSettling == Shape /\ Settling /\ [Next]_vars => Settling'
<1> SUFFICES ASSUME TypeOK, Settling, [Next]_vars, mount \in Mounts \/ mount = 0
             PROVE  Settling'
  BY DEF Shape, TypeOK, Mounts
<1> USE DEF Settling
<1>1. ASSUME UNCHANGED request, screen' = Null \/ screen' \in synced',
             synced \subseteq synced'
      PROVE  Settling'
  BY <1>1 DEF OkIsWritten, SentOrSynced
<1>2. ASSUME UNCHANGED <<request, synced>>, saveState' = "dirty"
      PROVE  Settling'
  BY <1>2 DEF OkIsWritten, SentOrSynced
<1>3. ASSUME UNCHANGED <<request, synced, screen, saveState, mount>>
      PROVE  Settling'
  BY <1>3 DEF OkIsWritten, SentOrSynced
<1>4. CASE Open \/ Retry \/ \E m \in Mounts : LoadFails(m)
  BY <1>1, <1>4 DEF Open, Retry, LoadFails, Reset
<1>5. ASSUME NEW m \in Mounts,
             LoseLoad(m) \/ ReadDraft(m) \/ ReadPublished(m) \/ Preview(m)
      PROVE  Settling'
  BY <1>3, <1>4, <1>5
     DEF LoseLoad, ReadDraft, ReadPublished, Preview, Fetch, NotFound, LoadGoesOn,
         storeVars
<1>6. ASSUME NEW m \in Mounts, Show(m)
      PROVE  Settling'
  BY <1>1, <1>6 DEF Show
<1>7. ASSUME NEW b \in Bodies, Edit(b)
      PROVE  Settling'
  BY <1>2, <1>7 DEF Edit
<1>8. CASE Undo \/ Redo
  BY <1>2, <1>8 DEF Undo, Redo, Move
<1>9. CASE Tick
  <2>1. mount \in Mounts /\ request'[mount] = [phase |-> "sent", doc |-> screen]
    BY <1>9 DEF Tick, TypeOK
  <2>2. request'[mount] # NoRequest
    BY <2>1 DEF NoRequest
  <2> QED
    BY <1>9, <2>1, <2>2 DEF Tick, TypeOK, OkIsWritten, SentOrSynced
<1>10. ASSUME NEW m \in Mounts, NEW p, p # "none", Becomes(m, p),
              UNCHANGED <<screen, saveState, mount>>, synced \subseteq synced',
              p = "ok" => request[m].doc \in synced'
       PROVE  Settling'
  <2>1. /\ request'[m].phase = p /\ request'[m].doc = request[m].doc
        /\ \A k \in Mounts \ {m} : request'[k] = request[k]
    <3>1. request[m] = [phase |-> request[m].phase, doc |-> request[m].doc]
      BY DEF TypeOK, Request, NoRequest
    <3> QED
      BY <1>10, <3>1 DEF Becomes, TypeOK
  <2>2. request'[m] # NoRequest
    BY <1>10, <2>1 DEF NoRequest
  <2> QED
    BY <1>10, <2>1, <2>2 DEF OkIsWritten, SentOrSynced
<1>11. ASSUME NEW m \in Mounts, CheckVersion(m) \/ WriteDraft(m) \/ Lose(m)
       PROVE  Settling'
  <2>1. UNCHANGED <<screen, saveState, mount>>
    BY <1>11 DEF CheckVersion, WriteDraft, Lose, storeVars
  <2>2. CASE CheckVersion(m)
    BY <1>10, <2>1, <2>2 DEF CheckVersion
  <2>3. CASE WriteDraft(m)
    BY <1>10, <2>1, <2>3 DEF WriteDraft
  <2>4. CASE Lose(m)
    BY <1>10, <2>1, <2>4 DEF Lose
  <2> QED
    BY <1>11, <2>2, <2>3, <2>4
<1>12. ASSUME NEW m \in Mounts, Answer(m)
       PROVE  Settling'
  <2>1. /\ request'[m] = NoRequest
        /\ \A k \in Mounts \ {m} : request'[k] = request[k]
        /\ UNCHANGED <<screen, mount, synced>>
    BY <1>12 DEF Answer, TypeOK
  <2>2. OkIsWritten'
    BY <2>1 DEF OkIsWritten, NoRequest
  <2>3. CASE request[m].phase = "ok"
    <3>1. saveState' \in {"saving", "clean"} => saveState \in {"saving", "clean"}
      BY <1>12, <2>3 DEF Answer, Answered
    <3>2. request[m].doc \in synced
      BY <2>3 DEF OkIsWritten
    <3> QED
      BY <2>1, <2>2, <3>1, <3>2 DEF SentOrSynced
  <2>4. CASE request[m].phase \in {"conflict", "error"}
    <3>1. saveState' \in {"conflict", "dirty"}
      BY <1>12, <2>4 DEF Answer, Answered
    <3> QED
      BY <2>2, <3>1 DEF SentOrSynced
  <2> QED
    BY <1>12, <2>3, <2>4 DEF Answer
<1>13. CASE Publish \/ Rollback
  BY <1>3, <1>13 DEF Publish, Rollback, storeVars
<1>14. ASSUME NEW doc \in Draft, OtherSave(doc)
       PROVE  Settling'
  BY <1>3, <1>14 DEF OtherSave, storeVars
<1>15. CASE UNCHANGED vars
  BY <1>3, <1>15 DEF vars, storeVars
<1> QED
  BY <1>4, <1>5, <1>6, <1>7, <1>8, <1>9, <1>11, <1>12, <1>13, <1>14, <1>15 DEF Next

(* Once no save is under way, "saved" is shown only for what was loaded from *)
(* the service or written to it, whatever was edited and answered when.      *)
THEOREM SavesSettle == Spec => []SettledIsSynced
<1>1. Settling => SettledIsSynced
  BY DEF Settling, SentOrSynced, SettledIsSynced
<1>2. Spec => []Settling
  BY InitSettling, StepSettling, ShapeHolds, PTL DEF Spec
<1> QED
  BY <1>1, <1>2, PTL
-----------------------------------------------------------------------------
(* The versions.                                                             *)

(* The service changes as the chain does. *)
LEMMA ServiceSteps ==
    ASSUME TypeOK, [Next]_vars
    PROVE  [Chain!Next]_(Chain!vars)
<1>1. ASSUME NEW m \in Mounts, WriteDraft(m)
      PROVE  [Chain!Next]_(Chain!vars)
  <2>1. CASE UNCHANGED serverVars
    BY <2>1 DEF serverVars, Chain!vars
  <2>2. CASE Chain!Save(request[m].doc)
    <3>1. request[m] # NoRequest
      BY <1>1 DEF WriteDraft, NoRequest
    <3>2. request[m].doc \in Draft
      BY <3>1 DEF TypeOK, Request
    <3> QED
      BY <2>2, <3>2 DEF Chain!Next, Draft
  <2> QED
    BY <1>1, <2>1, <2>2 DEF WriteDraft
<1>2. CASE Publish
  <2>1. PICK d \in Chain!Newest(drafts) :
          /\ NextVersion(d.version) \in Versions
          /\ Chain!Publish([version |-> NextVersion(d.version), body |-> d.body])
    BY <1>2 DEF Publish
  <2>2. d \in Draft /\ d.body \in Bodies
    BY DEF Chain!Newest, TypeOK, Chain!TypeOK, Draft, Chain!Entry
  <2>3. [version |-> NextVersion(d.version), body |-> d.body] \in Chain!Entry
    BY <2>1, <2>2 DEF Chain!Entry
  <2> QED
    BY <2>1, <2>3 DEF Chain!Next
<1>3. CASE Rollback
  <2>1. PICK p \in published :
          /\ NextVersion(p.version) \in Versions
          /\ Chain!Rollback([version |-> NextVersion(p.version), body |-> p.body])
    BY <1>3 DEF Rollback
  <2>2. p.body \in Bodies
    BY DEF TypeOK, Chain!TypeOK, Chain!Entry
  <2>3. [version |-> NextVersion(p.version), body |-> p.body] \in Chain!Entry
    BY <2>1, <2>2 DEF Chain!Entry
  <2> QED
    BY <2>1, <2>3 DEF Chain!Next
<1>4. ASSUME NEW doc \in Draft, OtherSave(doc)
      PROVE  Chain!Next
  BY <1>4 DEF OtherSave, Chain!Next, Draft
<1>5. CASE UNCHANGED serverVars
  BY <1>5 DEF serverVars, Chain!vars
<1>6. CASE \/ Open \/ Retry
           \/ \E m \in Mounts : \/ LoseLoad(m) \/ ReadDraft(m) \/ ReadPublished(m)
                                \/ Show(m) \/ Preview(m)
           \/ \E b \in Bodies : Edit(b)
           \/ Undo \/ Redo \/ Tick
           \/ \E m \in Mounts : CheckVersion(m) \/ Lose(m) \/ Answer(m)
  <2>1. UNCHANGED serverVars
    BY <1>6
       DEF Open, Retry, LoadFails, LoseLoad, NotFound, LoadGoesOn, ReadDraft,
           ReadPublished, Fetch, Show, Preview, Edit, Undo, Redo, Move, Tick,
           CheckVersion, Lose, Answer
  <2> QED
    BY <1>5, <2>1
<1>7. CASE UNCHANGED vars
  BY <1>5, <1>7 DEF vars
<1> QED
  BY <1>1, <1>2, <1>3, <1>4, <1>6, <1>7 DEF Next

(* A version is a draft or published, not both, and has one body. *)
OneBodyPerVersion ==
    /\ \A e, f \in published \cup drafts : e.version = f.version => e = f
    /\ published \cap drafts = {}

LEMMA ChainKeepsBodies ==
    ASSUME TypeOK, OneBodyPerVersion, [Chain!Next]_(Chain!vars)
    PROVE  OneBodyPerVersion'
<1>1. ASSUME NEW e, Chain!Extend(e), e \in Chain!Entry
      PROVE  \A p \in published : p.version # e.version
  <2>1. \A p \in published : p.version \in Nat /\ p.version < e.version
    BY <1>1, Constants DEF Chain!Extend, TypeOK, Chain!TypeOK, Draft
  <2>2. e.version \in Nat
    BY <1>1, Constants DEF Draft
  <2> QED
    BY <2>1, <2>2
<1>2. ASSUME NEW e \in Chain!Entry, Chain!Save(e)
      PROVE  OneBodyPerVersion'
  BY <1>2 DEF Chain!Save, OneBodyPerVersion
<1>3. ASSUME NEW e \in Chain!Entry, Chain!Publish(e)
      PROVE  OneBodyPerVersion'
  <2>1. \A p \in published : p.version # e.version
    BY <1>1, <1>3 DEF Chain!Publish
  <2> QED
    BY <1>3, <2>1 DEF Chain!Publish, Chain!Extend, OneBodyPerVersion
<1>4. ASSUME NEW e \in Chain!Entry, Chain!Rollback(e)
      PROVE  OneBodyPerVersion'
  <2>1. \A p \in published : p.version # e.version
    BY <1>1, <1>4 DEF Chain!Rollback
  <2> QED
    BY <1>4, <2>1 DEF Chain!Rollback, Chain!Extend, OneBodyPerVersion
<1>5. CASE UNCHANGED Chain!vars
  BY <1>5 DEF Chain!vars, OneBodyPerVersion
<1> QED
  BY <1>2, <1>3, <1>4, <1>5 DEF Chain!Next

(* However many clients save, publish and roll back, no version is both a    *)
(* draft and published, and none has two bodies.                             *)
THEOREM VersionsHaveOneBody == Spec => []OneBodyPerVersion
<1>1. Init => OneBodyPerVersion
  BY DEF Init, OneBodyPerVersion
<1>2. TypeOK /\ OneBodyPerVersion /\ [Next]_vars => OneBodyPerVersion'
  BY ServiceSteps, ChainKeepsBodies
<1> QED
  BY <1>1, <1>2, TypeCorrect, PTL DEF Spec
=============================================================================
