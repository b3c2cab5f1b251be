------------------------- MODULE OrchestratorProofs -------------------------
(***************************************************************************)
(* Theorems about the export queue, for any number of submissions and      *)
(* workers, any channel capacity and any number of restarts.               *)
(***************************************************************************)
EXTENDS Orchestrator, TLAPS, SequenceTheorems, FiniteSetTheorems,
        FunctionTheorems

(* WithStatus gives every entry a state again. *)
LEMMA WithStatusType ==
    ASSUME TypeOK, NEW i, NEW s \in States
    PROVE  WithStatus(i, s) \in [Calls -> States \cup {"none", "lost"}]
  BY DEF WithStatus, TypeOK, States

(* A worker exists once Start was called, and holds an entry exactly while   *)
(* it is in the body of its loop.                                            *)
JobHeld ==
    \A w \in Workers :
        /\ wpc[w] = "absent" <=> ~started
        /\ job[w] = None <=> wpc[w] \in {"absent", "idle"}

LEMMA InitTypes == Init => TypeOK /\ JobHeld
<1> SUFFICES ASSUME Init
             PROVE  TypeOK /\ JobHeld
  OBVIOUS
<1>1. queue \in Seq(Calls) /\ Len(queue) <= QueueCap
  BY EmptySeq, OrchestratorAssumption DEF Init
<1>2. /\ pc \in [Calls -> CallStates]
      /\ wpc \in [Workers -> WorkerStates]
      /\ job \in [Workers -> Calls \cup {None}]
      /\ JobHeld
  BY DEF Init, CallStates, WorkerStates, JobHeld
<1>3. /\ id \in [Calls -> Nat]
      /\ status \in [Calls -> States \cup {"none", "lost"}]
      /\ artifact \in [Calls -> Nat]
      /\ restarts \in 0..MaxRestarts
      /\ disk \subseteq File
  BY OrchestratorAssumption DEF Init
<1> QED
  BY <1>1, <1>2, <1>3 DEF Init, TypeOK

LEMMA StepTypes == TypeOK /\ JobHeld /\ [Next]_vars => TypeOK' /\ JobHeld'
<1> SUFFICES ASSUME TypeOK, JobHeld, [Next]_vars
             PROVE  TypeOK' /\ JobHeld'
  OBVIOUS
<1> USE OrchestratorAssumption
<1>1. ASSUME NEW c \in Calls, Submit(c)
      PROVE  TypeOK' /\ JobHeld'
  <2>1. CASE Scan(c)
    BY <2>1 DEF Scan, TypeOK, JobHeld, CallStates, entryVars, workerVars
  <2>2. CASE Identify(c)
    BY <2>2 DEF Identify, TypeOK, JobHeld, CallStates, entryVars, workerVars
  <2>3. CASE Register(c)
    BY <2>3 DEF Register, TypeOK, JobHeld, CallStates, States, workerVars
  <2>4. CASE Send(c)
    <3>1. /\ queue' \in Seq(Calls)
          /\ Len(queue') = Len(queue) + 1
      BY <2>4, AppendProperties DEF Send, TypeOK
    <3>2. Len(queue') <= QueueCap
      BY <2>4, <3>1, LenProperties DEF Send, TypeOK
    <3> QED
      BY <2>4, <3>1, <3>2
         DEF Send, TypeOK, JobHeld, CallStates, entryVars, workerVars
  <2>5. CASE Start(c)
    <3>1. /\ wpc' \in [Workers -> WorkerStates]
          /\ pc' \in [Calls -> CallStates]
      BY <2>5 DEF Start, TypeOK, CallStates, WorkerStates
    <3>2. JobHeld'
      BY <2>5 DEF Start, TypeOK, JobHeld
    <3> QED
      BY <2>5, <3>1, <3>2 DEF Start, TypeOK, entryVars
  <2> QED
    BY <1>1, <2>1, <2>2, <2>3, <2>4, <2>5 DEF Submit
<1>2. ASSUME NEW w \in Workers, Work(w)
      PROVE  TypeOK' /\ JobHeld'
  <2>1. CASE Take(w)
    <3>1. /\ queue' \in Seq(Calls)
          /\ Len(queue') = Len(queue) - 1
          /\ Head(queue) \in Calls
      BY <2>1, HeadTailProperties DEF Take, TypeOK
    <3>2. Len(queue') <= QueueCap
      BY <3>1, LenProperties DEF TypeOK
    <3> QED
      BY <2>1, <3>1, <3>2
         DEF Take, TypeOK, JobHeld, WorkerStates, callVars, entryVars
  <2>2. CASE Ack(w)
    <3>1. job[w] \in Calls
      BY <2>2 DEF Ack, TypeOK, JobHeld
    <3> QED
      BY <2>2, <3>1 DEF Ack, TypeOK, JobHeld, WorkerStates, callVars
  <2>3. CASE ~Take(w) /\ ~Ack(w)
    <3>1. /\ job[w] \in Calls
          /\ job' = job
          /\ wpc' \in [Workers -> WorkerStates]
          /\ JobHeld'
      BY <1>2, <2>3
         DEF Work, SetRunning, BuildFails, CreateFile, RenderFails,
             RenderAndClose, SetArtifact, SetDone, SetFailed, SetError,
             TypeOK, JobHeld, WorkerStates, workerVars
    <3>2. CASE SetRunning(w) \/ SetDone(w) \/ SetFailed(w)
      BY <3>1, <3>2, WithStatusType
         DEF SetRunning, SetDone, SetFailed, TypeOK, States, callVars
    <3>3. CASE BuildFails(w) \/ RenderFails(w)
      BY <3>1, <3>3 DEF BuildFails, RenderFails, TypeOK, callVars, entryVars
    <3>4. CASE CreateFile(w) \/ RenderAndClose(w)
      <4>1. \A whole \in BOOLEAN : Written(w, whole) \subseteq File
        BY <3>1 DEF Written, File, TypeOK
      <4> QED
        BY <3>1, <3>4, <4>1
           DEF CreateFile, RenderAndClose, TypeOK, callVars, entryVars
    <3>5. CASE SetArtifact(w)
      BY <3>1, <3>5 DEF SetArtifact, TypeOK, callVars
    <3>6. CASE SetError(w)
      BY <3>1, <3>6 DEF SetError, TypeOK, callVars
    <3> QED
      BY <1>2, <2>3, <3>2, <3>3, <3>4, <3>5, <3>6 DEF Work
  <2> QED
    BY <2>1, <2>2, <2>3
<1>3. CASE Restart
  <2>1. queue' \in Seq(Calls) /\ Len(queue') <= QueueCap
    BY <1>3, EmptySeq DEF Restart
  <2>2. /\ pc' \in [Calls -> CallStates]
        /\ status' \in [Calls -> States \cup {"none", "lost"}]
        /\ restarts' \in 0..MaxRestarts
    BY <1>3 DEF Restart, TypeOK, CallStates, States
  <2>3. /\ wpc' \in [Workers -> WorkerStates]
        /\ job' \in [Workers -> Calls \cup {None}]
        /\ JobHeld'
    BY <1>3 DEF Restart, JobHeld, WorkerStates
  <2> QED
    BY <1>3, <2>1, <2>2, <2>3 DEF Restart, TypeOK
<1>4. CASE UNCHANGED vars
  BY <1>4 DEF vars, callVars, entryVars, workerVars, TypeOK, JobHeld
<1> QED
  BY <1>1, <1>2, <1>3, <1>4 DEF Next

(* The variables keep their types: in particular the channel never holds     *)
(* more than its capacity, however many calls of Submit are about to send.   *)
THEOREM TypeCorrect == Spec => []TypeOK
<1>1. Spec => [](TypeOK /\ JobHeld)
  BY InitTypes, StepTypes, PTL DEF Spec
<1> QED
  BY <1>1, PTL
-----------------------------------------------------------------------------
(* Entries and their ids *)

(* The entries that have an id in this life of the process. *)
Numbered == registered \cup {c \in Calls : pc[c] = "identified"}

EntriesKnown ==
    /\ \A c \in registered : /\ pc[c] \in {"registered", "sent", "returned"}
                             /\ status[c] \in States
    /\ \A c \in Calls : pc[c] \in {"registered", "sent"} => c \in registered
    /\ \A c \in Calls :
         pc[c] \in {"idle", "scanned", "identified", "duplicate"} =>
             status[c] = "none"
    /\ \A c \in Calls \ registered : status[c] \in {"none", "lost"}

IdsDiffer ==
    /\ \A c \in Numbered : id[c] \in 1..nextID
    /\ \A c, d \in Numbered : id[c] = id[d] => c = d

LEMMA InitEntries == Init => EntriesKnown /\ IdsDiffer
  BY DEF Init, EntriesKnown, IdsDiffer, Numbered

(* Registering an entry drops no other one. *)
LEMMA RegisterAdds ==
    ASSUME TypeOK, EntriesKnown, IdsDiffer, NEW c \in Calls, Register(c)
    PROVE  /\ c \notin registered
           /\ registered' = registered \cup {c}
  BY DEF Register, TypeOK, EntriesKnown, IdsDiffer, Numbered

LEMMA StepEntries ==
    TypeOK /\ EntriesKnown /\ IdsDiffer /\ [Next]_vars =>
        EntriesKnown' /\ IdsDiffer'
<1> SUFFICES ASSUME TypeOK, EntriesKnown, IdsDiffer, [Next]_vars
             PROVE  EntriesKnown' /\ IdsDiffer'
  OBVIOUS
<1>1. ASSUME NEW c \in Calls, Submit(c)
      PROVE  EntriesKnown' /\ IdsDiffer'
  <2>1. CASE Scan(c)
    BY <2>1 DEF Scan, TypeOK, EntriesKnown, IdsDiffer, Numbered, entryVars
  <2>2. CASE Identify(c)
    <3>1. EntriesKnown'
      BY <2>2 DEF Identify, TypeOK, EntriesKnown, entryVars
    <3>2. Numbered' = Numbered \cup {c} /\ c \notin registered
      BY <2>2 DEF Identify, TypeOK, EntriesKnown, Numbered
    <3> QED
      BY <2>2, <3>1, <3>2 DEF Identify, TypeOK, IdsDiffer, Numbered
  <2>3. CASE Register(c)
    <3>1. registered' = registered \cup {c}
      BY <2>3, RegisterAdds
    <3>2. EntriesKnown'
      BY <2>3, <3>1 DEF Register, TypeOK, EntriesKnown, States
    <3>3. Numbered' = Numbered
      BY <2>3, <3>1 DEF Register, TypeOK, Numbered
    <3> QED
      BY <2>3, <3>2, <3>3 DEF Register, IdsDiffer
  <2>4. CASE Send(c) \/ Start(c)
    <3>1. pc[c] \in {"registered", "sent"} /\ c \in registered
      BY <2>4 DEF Send, Start, EntriesKnown
    <3>2. /\ UNCHANGED <<id, nextID, registered, status>>
          /\ pc'[c] \in {"sent", "returned"}
          /\ \A d \in Calls \ {c} : pc'[d] = pc[d]
      BY <2>4 DEF Send, Start, TypeOK, entryVars
    <3>3. Numbered' = Numbered
      BY <3>1, <3>2 DEF Numbered
    <3> QED
      BY <3>1, <3>2, <3>3 DEF EntriesKnown, IdsDiffer, TypeOK
  <2> QED
    BY <1>1, <2>1, <2>2, <2>3, <2>4 DEF Submit
<1>2. ASSUME NEW w \in Workers, Work(w)
      PROVE  EntriesKnown' /\ IdsDiffer'
  <2>1. UNCHANGED <<callVars, registered>>
    BY <1>2
       DEF Work, Take, SetRunning, BuildFails, CreateFile, RenderFails,
           RenderAndClose, SetArtifact, SetDone, SetFailed, SetError, Ack
  <2>2. /\ \A c \in registered : status'[c] \in States
        /\ \A c \in Calls \ registered : status'[c] = status[c]
    BY <1>2
       DEF Work, Take, SetRunning, BuildFails, CreateFile, RenderFails,
           RenderAndClose, SetArtifact, SetDone, SetFailed, SetError, Ack,
           WithStatus, EntriesKnown, States, TypeOK, entryVars
  <2> QED
    BY <2>1, <2>2 DEF EntriesKnown, IdsDiffer, Numbered, callVars
<1>3. CASE Restart
  BY <1>3 DEF Restart, TypeOK, EntriesKnown, IdsDiffer, Numbered
<1>4. CASE UNCHANGED vars
  BY <1>4 DEF vars, callVars, entryVars, EntriesKnown, IdsDiffer, Numbered
<1> QED
  BY <1>1, <1>2, <1>3, <1>4 DEF Next

LEMMA EntriesInvariant == Spec => [](EntriesKnown /\ IdsDiffer)
<1>1. Spec => []TypeOK
  BY TypeCorrect
<1> QED
  BY <1>1, InitEntries, StepEntries, PTL DEF Spec

(* However many calls of Submit run at once, none drops the entry of another *)
(* one from the map.                                                         *)
THEOREM EntriesAreKept == Spec => EntriesStay
<1>1. TypeOK /\ EntriesKnown /\ IdsDiffer /\ [Next]_vars =>
          [registered \subseteq registered' \/ restarts' # restarts]_vars
  <2> SUFFICES ASSUME TypeOK, EntriesKnown, IdsDiffer, Next
               PROVE  registered \subseteq registered' \/ restarts' # restarts
    OBVIOUS
  <2>1. ASSUME NEW c \in Calls, Register(c)
        PROVE  registered \subseteq registered'
    BY <2>1, RegisterAdds
  <2>2. ASSUME NEW c \in Calls, Submit(c), ~Register(c)
        PROVE  registered' = registered
    BY <2>2 DEF Submit, Scan, Identify, Send, Start
  <2>3. ASSUME NEW w \in Workers, Work(w)
        PROVE  registered' = registered
    BY <2>3
       DEF Work, Take, SetRunning, BuildFails, CreateFile, RenderFails,
           RenderAndClose, SetArtifact, SetDone, SetFailed, SetError, Ack
  <2>4. Restart => restarts' # restarts
    BY DEF Restart, TypeOK
  <2> QED
    BY <2>1, <2>2, <2>3, <2>4 DEF Next
<1> QED
  BY <1>1, TypeCorrect, EntriesInvariant, PTL DEF Spec, EntriesStay
-----------------------------------------------------------------------------
(* Where an entry is: with its call of Submit, in the channel, with a worker *)
(* or acknowledged, in exactly one of these places.                          *)

Waiting(c) == \E i \in 1..Len(queue) : queue[i] = c
Held(c) == \E w \in Workers : job[w] = c

PlacesKnown ==
    /\ \A i \in 1..Len(queue) : queue[i] \in registered
    /\ \A w \in Workers : job[w] # None => job[w] \in registered
    /\ acked \subseteq registered
    /\ \A c \in registered :
         pc[c] = "registered" \/ Waiting(c) \/ Held(c) \/ c \in acked

PlacesDiffer ==
    /\ \A i, j \in 1..Len(queue) : queue[i] = queue[j] => i = j
    /\ \A v, w \in Workers : job[v] = job[w] /\ job[v] # None => v = w
    /\ \A c \in registered :
         /\ pc[c] = "registered" => ~Waiting(c) /\ ~Held(c) /\ c \notin acked
         /\ Waiting(c) => ~Held(c) /\ c \notin acked
         /\ Held(c) => c \notin acked

LEMMA InitPlaces == Init => PlacesKnown /\ PlacesDiffer
<1> SUFFICES ASSUME Init
             PROVE  PlacesKnown /\ PlacesDiffer
  OBVIOUS
<1>1. 1..Len(queue) = {}
  BY EmptySeq DEF Init
<1> QED
  BY <1>1, OrchestratorAssumption DEF Init, PlacesKnown, PlacesDiffer

LEMMA SendPlaces ==
    ASSUME TypeOK, EntriesKnown, PlacesKnown, PlacesDiffer,
           NEW c \in Calls, Send(c)
    PROVE  PlacesKnown' /\ PlacesDiffer'
<1> DEFINE n == Len(queue)
<1>1. c \in registered /\ UNCHANGED <<registered, job, acked>>
  BY DEF Send, EntriesKnown, entryVars, workerVars
<1>2. /\ n \in Nat
      /\ Len(queue') = n + 1
      /\ \A i \in 1..n : queue'[i] = queue[i]
      /\ queue'[n + 1] = c
  BY AppendProperties, LenProperties DEF Send, TypeOK
<1>3. 1..Len(queue') = 1..n \cup {n + 1}
  BY <1>2
<1>4. \A d : Waiting(d)' <=> Waiting(d) \/ d = c
  BY <1>2, <1>3 DEF Waiting
<1>5. \A d : Held(d)' <=> Held(d)
  BY <1>1 DEF Held
<1>6. \A d \in Calls : pc'[d] = IF d = c THEN "sent" ELSE pc[d]
  BY DEF Send, TypeOK
<1>7. ~Waiting(c) /\ ~Held(c) /\ c \notin acked
  BY <1>1 DEF Send, PlacesDiffer
<1>8. PlacesKnown'
  BY <1>1, <1>2, <1>3, <1>4, <1>5, <1>6 DEF PlacesKnown, TypeOK
<1>9. \A i, j \in 1..Len(queue') : queue'[i] = queue'[j] => i = j
  BY <1>2, <1>3, <1>7 DEF Waiting, PlacesDiffer
<1> QED
  BY <1>1, <1>4, <1>5, <1>6, <1>7, <1>8, <1>9 DEF PlacesDiffer, TypeOK

LEMMA TakePlaces ==
    ASSUME TypeOK, JobHeld, EntriesKnown, PlacesKnown, PlacesDiffer,
           NEW w \in Workers, Take(w)
    PROVE  /\ PlacesKnown' /\ PlacesDiffer'
           /\ Waiting(job'[w])
           /\ \A d : Waiting(d)' => Waiting(d)
<1> DEFINE n == Len(queue)
           c == Head(queue)
<1>1. /\ n \in Nat \ {0}
      /\ Len(queue') = n - 1
      /\ \A i \in 1..(n - 1) : queue'[i] = queue[i + 1]
      /\ c = queue[1]
  BY HeadTailProperties, EmptySeq DEF Take, TypeOK
<1>2. \A i \in 1..n : i = 1 \/ (i - 1 \in 1..(n - 1) /\ queue'[i - 1] = queue[i])
  BY <1>1
<1>3. 1 \in 1..n /\ \A i \in 1..(n - 1) : i + 1 \in 1..n
  BY <1>1
<1>4. /\ job[w] = None
      /\ job' = [job EXCEPT ![w] = c]
      /\ c \in registered /\ c # None
      /\ UNCHANGED <<pc, registered, acked>>
  BY <1>1, <1>3, OrchestratorAssumption
     DEF Take, JobHeld, PlacesKnown, TypeOK, callVars, entryVars
<1>5. Waiting(c) /\ ~Held(c) /\ pc[c] # "registered" /\ c \notin acked
  BY <1>1, <1>3, <1>4 DEF Waiting, PlacesDiffer
<1>6. \A d : Waiting(d) <=> Waiting(d)' \/ d = c
  BY <1>1, <1>2, <1>3 DEF Waiting
<1>7. \A d : Waiting(d)' => d # c
  <2>1. \A i \in 1..(n - 1) : i + 1 # 1 /\ queue[i + 1] # queue[1]
    BY <1>1, <1>3 DEF PlacesDiffer
  <2> QED
    BY <1>1, <2>1 DEF Waiting
<1>8. \A d \in Calls : Held(d)' <=> Held(d) \/ d = c
  BY <1>4, OrchestratorAssumption DEF Held, TypeOK
<1>9. PlacesKnown'
  BY <1>1, <1>3, <1>4, <1>6, <1>8 DEF PlacesKnown, TypeOK
<1>10. /\ \A i, j \in 1..Len(queue') : queue'[i] = queue'[j] => i = j
       /\ \A u, v \in Workers : job'[u] = job'[v] /\ job'[u] # None => u = v
  <2>1. \A i, j \in 1..Len(queue') : queue'[i] = queue'[j] => i = j
    BY <1>1, <1>3 DEF PlacesDiffer
  <2>2. \A u, v \in Workers : job'[u] = job'[v] /\ job'[u] # None => u = v
    BY <1>4, <1>5 DEF Held, PlacesDiffer, TypeOK
  <2> QED
    BY <2>1, <2>2
<1>11. ASSUME NEW d \in registered
       PROVE  /\ pc[d] = "registered" =>
                     ~Waiting(d)' /\ ~Held(d)' /\ d \notin acked
              /\ Waiting(d)' => ~Held(d)' /\ d \notin acked
              /\ Held(d)' => d \notin acked
  <2>1. /\ pc[d] = "registered" => ~Waiting(d) /\ ~Held(d) /\ d \notin acked
        /\ Waiting(d) => ~Held(d) /\ d \notin acked
        /\ Held(d) => d \notin acked
    BY <1>11 DEF PlacesDiffer
  <2>2. d \in Calls
    BY <1>11 DEF TypeOK
  <2> QED
    BY <2>1, <2>2, <1>5, <1>6, <1>7, <1>8
<1>12. PlacesDiffer'
  BY <1>4, <1>10, <1>11 DEF PlacesDiffer
<1> QED
  BY <1>4, <1>5, <1>6, <1>9, <1>12 DEF TypeOK

LEMMA StepPlaces ==
    /\ TypeOK /\ JobHeld /\ EntriesKnown /\ IdsDiffer
    /\ PlacesKnown /\ PlacesDiffer
    /\ [Next]_vars
    => PlacesKnown' /\ PlacesDiffer'
<1> SUFFICES ASSUME TypeOK, JobHeld, EntriesKnown, IdsDiffer,
                    PlacesKnown, PlacesDiffer, [Next]_vars
             PROVE  PlacesKnown' /\ PlacesDiffer'
  OBVIOUS
<1>1. ASSUME NEW c \in Calls, Submit(c)
      PROVE  PlacesKnown' /\ PlacesDiffer'
  <2>1. CASE Scan(c) \/ Identify(c)
    <3>1. c \notin registered /\ UNCHANGED <<registered, queue, job, acked>>
      BY <2>1 DEF Scan, Identify, EntriesKnown, entryVars, workerVars
    <3>2. \A d \in registered : pc'[d] = pc[d]
      BY <2>1, <3>1 DEF Scan, Identify, TypeOK
    <3> QED
      BY <3>1, <3>2 DEF PlacesKnown, PlacesDiffer, Waiting, Held
  <2>2. CASE Register(c)
    <3>1. c \notin registered /\ registered' = registered \cup {c}
      BY <2>2, RegisterAdds
    <3>2. ~Waiting(c) /\ ~Held(c) /\ c \notin acked
      BY <3>1, OrchestratorAssumption DEF PlacesKnown, Waiting, Held
    <3>3. /\ UNCHANGED <<queue, job, acked>>
          /\ \A d \in Calls : pc'[d] = IF d = c THEN "registered" ELSE pc[d]
      BY <2>2 DEF Register, TypeOK, workerVars
    <3> QED
      BY <3>1, <3>2, <3>3 DEF PlacesKnown, PlacesDiffer, Waiting, Held, TypeOK
  <2>3. CASE Send(c)
    BY <2>3, SendPlaces
  <2>4. CASE Start(c)
    <3>1. /\ UNCHANGED <<registered, queue, job, acked>>
          /\ \A d \in Calls : pc'[d] = "registered" <=> pc[d] = "registered"
      BY <2>4 DEF Start, TypeOK, entryVars
    <3> QED
      BY <3>1 DEF PlacesKnown, PlacesDiffer, Waiting, Held, TypeOK
  <2> QED
    BY <1>1, <2>1, <2>2, <2>3, <2>4 DEF Submit
<1>2. ASSUME NEW w \in Workers, Work(w)
      PROVE  PlacesKnown' /\ PlacesDiffer'
  <2>1. CASE Take(w)
    BY <2>1, TakePlaces
  <2>2. CASE Ack(w)
    <3>1. /\ job[w] \in registered /\ job[w] # None
          /\ job' = [job EXCEPT ![w] = None]
          /\ acked' = acked \cup {job[w]}
          /\ UNCHANGED <<pc, registered, queue>>
      BY <2>2 DEF Ack, JobHeld, PlacesKnown, callVars
    <3>2. \A d : Waiting(d)' <=> Waiting(d)
      BY <3>1 DEF Waiting
    <3>3. \A d \in registered : Held(d)' <=> Held(d) /\ d # job[w]
      BY <3>1, OrchestratorAssumption DEF Held, PlacesDiffer, TypeOK
    <3>4. PlacesKnown'
      BY <3>1, <3>2, <3>3 DEF PlacesKnown, TypeOK
    <3>5. Held(job[w])
      BY DEF Held
    <3> QED
      BY <3>1, <3>2, <3>3, <3>4, <3>5 DEF PlacesDiffer, TypeOK
  <2>3. CASE ~Take(w) /\ ~Ack(w)
    <3>1. UNCHANGED <<pc, registered, queue, job, acked>>
      BY <1>2, <2>3
         DEF Work, SetRunning, BuildFails, CreateFile, RenderFails,
             RenderAndClose, SetArtifact, SetDone, SetFailed, SetError,
             callVars, entryVars
    <3> QED
      BY <3>1 DEF PlacesKnown, PlacesDiffer, Waiting, Held
  <2> QED
    BY <2>1, <2>2, <2>3
<1>3. CASE Restart
  <2>1. 1..Len(queue') = {}
    BY <1>3, EmptySeq DEF Restart
  <2> QED
    BY <1>3, <2>1 DEF Restart, PlacesKnown, PlacesDiffer
<1>4. CASE UNCHANGED vars
  BY <1>4 DEF vars, callVars, entryVars, workerVars, PlacesKnown,
              PlacesDiffer, Waiting, Held
<1> QED
  BY <1>1, <1>2, <1>3, <1>4 DEF Next

LEMMA PlacesInvariant ==
    Spec => [](JobHeld /\ PlacesKnown /\ PlacesDiffer)
<1>1. Spec => [](TypeOK /\ JobHeld)
  BY InitTypes, StepTypes, PTL DEF Spec
<1> QED
  BY <1>1, EntriesInvariant, InitPlaces, StepPlaces, PTL DEF Spec
-----------------------------------------------------------------------------
(* The state a task shows is where it is *)

Executing == {"running", "rendering", "rendered", "stored", "failing"}

StatusFits ==
    /\ \A c \in registered :
         pc[c] = "registered" \/ Waiting(c) => status[c] = "queued"
    /\ \A w \in Workers :
         /\ wpc[w] = "taken" => status[job[w]] = "queued"
         /\ wpc[w] \in Executing => status[job[w]] = "running"
         /\ wpc[w] = "errored" => status[job[w]] = "failed"
         /\ wpc[w] = "finishing" =>
              \/ status[job[w]] = "done"
              \/ status[job[w]] = "failed" /\ job[w] \in error
    /\ AckedIsFinal

Known ==
    TypeOK /\ JobHeld /\ EntriesKnown /\ IdsDiffer /\ PlacesKnown /\ PlacesDiffer

LEMMA KnownInvariant == Spec => []Known
  BY TypeCorrect, EntriesInvariant, PlacesInvariant, PTL DEF Known

(* setStatus finds the entry it is called for. *)
LEMMA WithStatusOfJob ==
    ASSUME Known, NEW w \in Workers, wpc[w] \notin {"absent", "idle"}, NEW s
    PROVE  /\ job[w] \in registered /\ job[w] \in Calls
           /\ WithStatus(id[job[w]], s) = [status EXCEPT ![job[w]] = s]
<1>1. job[w] \in registered /\ job[w] \in Calls
  BY DEF Known, JobHeld, PlacesKnown, TypeOK
<1>2. \A c \in registered : id[c] = id[job[w]] => c = job[w]
  BY <1>1 DEF Known, IdsDiffer, Numbered
<1> QED
  BY <1>1, <1>2 DEF WithStatus, Known, TypeOK

(* No one else holds what a worker holds. *)
LEMMA JobIsAlone ==
    ASSUME Known, NEW w \in Workers, wpc[w] \notin {"absent", "idle"}
    PROVE  /\ job[w] \in registered /\ job[w] \in Calls
           /\ pc[job[w]] # "registered" /\ ~Waiting(job[w])
           /\ job[w] \notin acked
           /\ \A v \in Workers : v # w => job[v] # job[w]
<1>1. job[w] \in registered /\ job[w] \in Calls /\ Held(job[w])
  BY DEF Known, JobHeld, PlacesKnown, TypeOK, Held
<1> QED
  BY <1>1, OrchestratorAssumption DEF Known, PlacesDiffer, JobHeld

LEMMA InitStatus == Init => StatusFits
  BY DEF Init, StatusFits, AckedIsFinal, Executing

LEMMA StepStatus == Known /\ StatusFits /\ [Next]_vars => StatusFits'
<1> SUFFICES ASSUME Known, StatusFits, [Next]_vars
             PROVE  StatusFits'
  OBVIOUS
<1>1. ASSUME NEW c \in Calls, Submit(c)
      PROVE  StatusFits'
  <2>1. CASE Scan(c) \/ Identify(c)
    <3>1. /\ c \notin registered
          /\ UNCHANGED <<registered, queue, status, error, acked, wpc, job>>
      BY <2>1 DEF Scan, Identify, Known, EntriesKnown, entryVars, workerVars
    <3>2. \A d \in registered : pc'[d] = pc[d]
      BY <2>1, <3>1 DEF Scan, Identify, Known, TypeOK
    <3> QED
      BY <3>1, <3>2 DEF StatusFits, Waiting, AckedIsFinal
  <2>2. CASE Register(c)
    <3>1. c \notin registered /\ registered' = registered \cup {c}
      BY <2>2, RegisterAdds DEF Known
    <3>2. /\ UNCHANGED <<queue, error, acked, wpc, job>>
          /\ \A d \in Calls : /\ status'[d] = IF d = c THEN "queued" ELSE status[d]
                              /\ d # c => pc'[d] = pc[d]
      BY <2>2 DEF Register, Known, TypeOK, workerVars
    <3>3. \A w \in Workers : wpc[w] \notin {"absent", "idle"} =>
             job[w] \in Calls /\ job[w] # c
      BY <3>1, JobIsAlone
    <3>4. \A w \in Workers : wpc[w] \in Executing \cup {"taken", "errored", "finishing"}
             => status'[job[w]] = status[job[w]]
      BY <3>2, <3>3 DEF Executing
    <3>5. AckedIsFinal'
      BY <3>1, <3>2 DEF StatusFits, AckedIsFinal, Known, PlacesKnown, TypeOK
    <3>6. \A d \in registered' :
             pc'[d] = "registered" \/ Waiting(d)' => status'[d] = "queued"
      BY <3>1, <3>2 DEF StatusFits, Waiting, Known, TypeOK
    <3> QED
      BY <3>2, <3>4, <3>5, <3>6 DEF StatusFits
  <2>3. CASE Send(c)
    <3>1. /\ c \in registered /\ status[c] = "queued"
          /\ UNCHANGED <<registered, status, error, acked, wpc, job>>
      BY <2>3 DEF Send, Known, EntriesKnown, StatusFits, entryVars, workerVars
    <3>2. \A d : Waiting(d)' => Waiting(d) \/ d = c
      <4>1. /\ Len(queue) \in Nat
            /\ Len(queue') = Len(queue) + 1
            /\ \A i \in 1..Len(queue) : queue'[i] = queue[i]
            /\ queue'[Len(queue) + 1] = c
        BY <2>3, AppendProperties, LenProperties DEF Send, Known, TypeOK
      <4> QED
        BY <4>1 DEF Waiting
    <3>3. \A d \in Calls : pc'[d] = "registered" => pc[d] = "registered"
      BY <2>3 DEF Send, Known, TypeOK
    <3> QED
      BY <3>1, <3>2, <3>3 DEF StatusFits, AckedIsFinal, Known, TypeOK
  <2>4. CASE Start(c)
    <3>1. /\ UNCHANGED <<registered, queue, status, error, acked, job>>
          /\ \A d \in Calls : pc'[d] = "registered" => pc[d] = "registered"
          /\ \A w \in Workers : wpc'[w] = wpc[w] \/ wpc'[w] = "idle"
      BY <2>4 DEF Start, Known, TypeOK, entryVars
    <3>2. \A d \in registered' :
             pc'[d] = "registered" \/ Waiting(d)' => status'[d] = "queued"
      BY <3>1 DEF StatusFits, Waiting, Known, TypeOK
    <3>3. \A w \in Workers : wpc'[w] # "idle" => wpc'[w] = wpc[w]
      BY <3>1
    <3>4. AckedIsFinal'
      BY <3>1 DEF StatusFits, AckedIsFinal
    <3> QED
      BY <3>1, <3>2, <3>3, <3>4 DEF StatusFits, Executing
  <2> QED
    BY <1>1, <2>1, <2>2, <2>3, <2>4 DEF Submit
<1>2. ASSUME NEW w \in Workers, Work(w)
      PROVE  StatusFits'
  <2>1. CASE Take(w)
    <3>1. Waiting(job'[w]) /\ \A d : Waiting(d)' => Waiting(d)
      BY <2>1, TakePlaces DEF Known
    <3>2. /\ UNCHANGED <<pc, registered, status, error, acked>>
          /\ wpc' = [wpc EXCEPT ![w] = "taken"]
          /\ \A v \in Workers \ {w} : job'[v] = job[v]
      BY <2>1 DEF Take, callVars, entryVars, Known, TypeOK
    <3>3. status[job'[w]] = "queued"
      BY <3>1 DEF StatusFits, Waiting, Known, PlacesKnown
    <3> QED
      BY <3>1, <3>2, <3>3 DEF StatusFits, AckedIsFinal, Executing, Known, TypeOK
  <2>2. CASE SetRunning(w) \/ SetDone(w) \/ SetFailed(w)
    <3>1. PICK s \in States :
             /\ status' = [status EXCEPT ![job[w]] = s]
             /\ \/ wpc' = [wpc EXCEPT ![w] = "running"] /\ s = "running"
                \/ wpc' = [wpc EXCEPT ![w] = "errored"] /\ s = "failed"
                \/ wpc' = [wpc EXCEPT ![w] = "finishing"] /\ s = "done"
      BY <2>2, WithStatusOfJob DEF SetRunning, SetDone, SetFailed, States
    <3>2. /\ UNCHANGED <<pc, registered, queue, error, acked, job>>
          /\ wpc[w] \notin {"absent", "idle"}
      BY <2>2 DEF SetRunning, SetDone, SetFailed, callVars
    <3>3. /\ status'[job[w]] = s
          /\ \A d \in Calls : d # job[w] => status'[d] = status[d]
      BY <3>1, <3>2, JobIsAlone DEF Known, TypeOK
    <3>4. \A v \in Workers \ {w} :
             wpc'[v] = wpc[v] /\
             (wpc[v] \notin {"absent", "idle"} => status'[job[v]] = status[job[v]])
      BY <3>1, <3>2, <3>3, JobIsAlone DEF Known, TypeOK
    <3>5. wpc'[w] \in {"running", "errored", "finishing"}
      BY <3>1 DEF Known, TypeOK
    <3>6. \A v \in Workers :
             /\ wpc'[v] = "taken" => status'[job[v]] = "queued"
             /\ wpc'[v] \in Executing => status'[job[v]] = "running"
             /\ wpc'[v] = "errored" => status'[job[v]] = "failed"
             /\ wpc'[v] = "finishing" =>
                  \/ status'[job[v]] = "done"
                  \/ status'[job[v]] = "failed" /\ job[v] \in error
      <4>1. CASE wpc'[w] = "running" /\ s = "running"
        BY <4>1, <3>3, <3>4 DEF StatusFits, Executing
      <4>2. CASE wpc'[w] = "errored" /\ s = "failed"
        BY <4>2, <3>3, <3>4 DEF StatusFits, Executing
      <4>3. CASE wpc'[w] = "finishing" /\ s = "done"
        BY <4>3, <3>3, <3>4 DEF StatusFits, Executing
      <4> QED
        BY <3>1, <4>1, <4>2, <4>3 DEF Known, TypeOK
    <3>7. \A d \in registered : pc[d] = "registered" \/ Waiting(d) => d # job[w]
      BY <3>2, JobIsAlone
    <3>8. AckedIsFinal'
      BY <3>2, <3>3, JobIsAlone DEF StatusFits, AckedIsFinal, Known, TypeOK
    <3> QED
      BY <3>2, <3>3, <3>6, <3>7, <3>8 DEF StatusFits, Waiting, Known, TypeOK
  <2>3. CASE BuildFails(w) \/ CreateFile(w) \/ RenderFails(w)
              \/ RenderAndClose(w) \/ SetArtifact(w)
    <3>1. /\ UNCHANGED <<pc, registered, queue, status, error, acked, job>>
          /\ wpc[w] \in Executing /\ wpc'[w] \in Executing
          /\ \A v \in Workers \ {w} : wpc'[v] = wpc[v]
      BY <2>3
         DEF BuildFails, CreateFile, RenderFails, RenderAndClose, SetArtifact,
             callVars, entryVars, Executing, Known, TypeOK
    <3> QED
      BY <3>1 DEF StatusFits, AckedIsFinal, Waiting, Executing
  <2>4. CASE SetError(w)
    <3>1. /\ UNCHANGED <<pc, registered, queue, status, acked, job>>
          /\ wpc[w] = "errored" /\ wpc'[w] = "finishing"
          /\ error' = error \cup {job[w]}
          /\ \A v \in Workers \ {w} : wpc'[v] = wpc[v]
      BY <2>4 DEF SetError, callVars, Known, TypeOK
    <3> QED
      BY <3>1 DEF StatusFits, AckedIsFinal, Waiting, Executing
  <2>5. CASE Ack(w)
    <3>1. /\ UNCHANGED <<pc, registered, queue, status, error>>
          /\ wpc[w] = "finishing" /\ wpc'[w] = "idle"
          /\ acked' = acked \cup {job[w]}
          /\ \A v \in Workers \ {w} : wpc'[v] = wpc[v] /\ job'[v] = job[v]
      BY <2>5 DEF Ack, callVars, Known, TypeOK
    <3> QED
      BY <3>1 DEF StatusFits, AckedIsFinal, Waiting, Executing
  <2> QED
    BY <1>2, <2>1, <2>2, <2>3, <2>4, <2>5 DEF Work
<1>3. CASE Restart
  BY <1>3 DEF Restart, StatusFits, AckedIsFinal, Executing
<1>4. CASE UNCHANGED vars
  BY <1>4 DEF vars, callVars, entryVars, workerVars, StatusFits, AckedIsFinal,
              Waiting
<1> QED
  BY <1>1, <1>2, <1>3, <1>4 DEF Next

LEMMA StatusInvariant == Spec => []StatusFits
  BY KnownInvariant, InitStatus, StepStatus, PTL DEF Spec

(* When Wait returns, the task is done, or has failed and has its error      *)
(* text: nothing changes the status of an acknowledged entry.                *)
THEOREM AckedTasksAreFinal == Spec => []AckedIsFinal
<1>1. StatusFits => AckedIsFinal
  BY DEF StatusFits
<1> QED
  BY <1>1, StatusInvariant, PTL
-----------------------------------------------------------------------------
(* The files *)

FilesOf(c) == {f \in disk : f.name = id[c]}

FilesFit ==
    /\ \A w \in Workers :
         /\ wpc[w] \in {"rendered", "stored"} =>
              FilesOf(job[w]) = {WorkbookOf(job[w])}
         /\ wpc[w] = "stored" => artifact[job[w]] = id[job[w]]
    /\ DoneIsWhole

LEMMA InitFiles == Init => FilesFit
  BY DEF Init, FilesFit, DoneIsWhole

(* A worker writes its own task's file and no other entry's. *)
LEMMA WrittenFiles ==
    ASSUME Known, NEW w \in Workers, wpc[w] \notin {"absent", "idle"},
           NEW whole \in BOOLEAN
    PROVE  /\ {f \in Written(w, TRUE) : f.name = id[job[w]]}
                = {WorkbookOf(job[w])}
           /\ \A c \in registered : c # job[w] =>
                {f \in Written(w, whole) : f.name = id[c]} = FilesOf(c)
<1>1. {f \in Written(w, TRUE) : f.name = id[job[w]]} = {WorkbookOf(job[w])}
  BY DEF Written, WorkbookOf
<1>2. \A c \in registered : c # job[w] => id[c] # id[job[w]]
  BY JobIsAlone DEF Known, IdsDiffer, Numbered
<1>3. \A c \in registered : c # job[w] =>
         {f \in Written(w, whole) : f.name = id[c]} = FilesOf(c)
  BY <1>2 DEF Written, FilesOf
<1> QED
  BY <1>1, <1>3

LEMMA StepFiles == Known /\ StatusFits /\ FilesFit /\ [Next]_vars => FilesFit'
<1> SUFFICES ASSUME Known, StatusFits, FilesFit, [Next]_vars
             PROVE  FilesFit'
  OBVIOUS
<1>1. ASSUME NEW c \in Calls, Submit(c)
      PROVE  FilesFit'
  <2>1. UNCHANGED <<artifact, disk, job>>
    BY <1>1 DEF Submit, Scan, Identify, Register, Send, Start, entryVars,
                workerVars
  <2>2. \A d \in registered : id'[d] = id[d]
    BY <1>1 DEF Submit, Scan, Identify, Register, Send, Start, entryVars,
                Known, EntriesKnown, TypeOK
  <2>3. \A w \in Workers : wpc'[w] # wpc[w] => wpc'[w] = "idle"
    BY <1>1 DEF Submit, Scan, Identify, Register, Send, Start, workerVars,
                Known, TypeOK
  <2>4. \A d \in registered' :
           status'[d] = "done" => d \in registered /\ status[d] = "done"
    <3>1. CASE Register(c)
      BY <3>1, RegisterAdds DEF Register, Known, TypeOK
    <3>2. CASE ~Register(c)
      BY <1>1, <3>2 DEF Submit, Scan, Identify, Send, Start, entryVars
    <3> QED
      BY <3>1, <3>2
  <2>5. \A d \in registered : FilesOf(d)' = FilesOf(d)
                                /\ WorkbookOf(d)' = WorkbookOf(d)
    BY <2>1, <2>2 DEF FilesOf, WorkbookOf
  <2>6. DoneIsWhole'
    BY <2>1, <2>2, <2>4, <2>5 DEF FilesFit, DoneIsWhole, FilesOf
  <2>7. \A w \in Workers : wpc'[w] \in {"rendered", "stored"} =>
           wpc'[w] = wpc[w] /\ job[w] \in registered
    BY <2>3 DEF Known, JobHeld, PlacesKnown
  <2> QED
    BY <2>1, <2>2, <2>5, <2>6, <2>7 DEF FilesFit, FilesOf, WorkbookOf
<1>2. ASSUME NEW w \in Workers, Work(w)
      PROVE  FilesFit'
  <2>1. UNCHANGED <<id, registered>>
    BY <1>2 DEF Work, Take, SetRunning, BuildFails, CreateFile, RenderFails,
                RenderAndClose, SetArtifact, SetDone, SetFailed, SetError, Ack,
                callVars
  <2>2. \A v \in Workers \ {w} : wpc'[v] = wpc[v] /\ job'[v] = job[v]
    BY <1>2 DEF Work, Take, SetRunning, BuildFails, CreateFile, RenderFails,
                RenderAndClose, SetArtifact, SetDone, SetFailed, SetError, Ack,
                Known, TypeOK
  <2>3. CASE Take(w) \/ Ack(w) \/ SetError(w) \/ BuildFails(w) \/ RenderFails(w)
    <3>1. /\ UNCHANGED <<status, artifact, disk>>
          /\ wpc'[w] \notin {"rendered", "stored"}
      BY <2>3 DEF Take, Ack, SetError, BuildFails, RenderFails, entryVars,
                  Known, TypeOK
    <3> QED
      BY <2>1, <2>2, <3>1 DEF FilesFit, DoneIsWhole, FilesOf, WorkbookOf
  <2>4. CASE CreateFile(w) \/ RenderAndClose(w)
    <3>1. /\ UNCHANGED <<status, artifact, job>>
          /\ wpc[w] \in Executing
      BY <2>4 DEF CreateFile, RenderAndClose, entryVars, Executing
    <3> PICK whole \in BOOLEAN :
            /\ disk' = Written(w, whole)
            /\ wpc'[w] = IF whole THEN "rendered" ELSE "rendering"
      BY <2>4 DEF CreateFile, RenderAndClose, Known, TypeOK
    <3>2. /\ job[w] \in registered /\ status[job[w]] = "running"
          /\ \A v \in Workers \ {w} : job[v] # job[w]
      BY <3>1, JobIsAlone DEF StatusFits, Executing
    <3>3. \A c \in registered \ {job[w]} : FilesOf(c)' = FilesOf(c)
      <4>1. \A c \in registered \ {job[w]} :
               {f \in Written(w, whole) : f.name = id[c]} = FilesOf(c)
        BY <3>1, WrittenFiles DEF Executing
      <4> QED
        BY <2>1, <4>1 DEF FilesOf
    <3>4. wpc'[w] = "rendered" => FilesOf(job[w])' = {WorkbookOf(job[w])}
      <4>1. {f \in Written(w, TRUE) : f.name = id[job[w]]} = {WorkbookOf(job[w])}
        BY <3>1, WrittenFiles DEF Executing
      <4> QED
        BY <2>1, <3>1, <4>1 DEF FilesOf
    <3>5. DoneIsWhole'
      BY <2>1, <3>1, <3>2, <3>3 DEF FilesFit, DoneIsWhole, FilesOf, WorkbookOf
    <3>6. \A v \in Workers \ {w} : wpc[v] \in {"rendered", "stored"} =>
             job[v] \in registered
      BY DEF Known, JobHeld, PlacesKnown
    <3>7. wpc'[w] \in {"rendering", "rendered"}
      OBVIOUS
    <3> QED
      BY <2>1, <2>2, <3>1, <3>2, <3>3, <3>4, <3>5, <3>6, <3>7
         DEF FilesFit, WorkbookOf, FilesOf
  <2>5. CASE SetArtifact(w)
    <3>1. /\ UNCHANGED <<status, disk, job>>
          /\ wpc[w] = "rendered" /\ wpc'[w] = "stored"
          /\ artifact'[job[w]] = id[job[w]]
          /\ \A c \in Calls \ {job[w]} : artifact'[c] = artifact[c]
      BY <2>5, JobIsAlone DEF SetArtifact, Known, TypeOK
    <3>2. DoneIsWhole'
      BY <2>1, <3>1
         DEF FilesFit, DoneIsWhole, FilesOf, WorkbookOf, Known, TypeOK
    <3>3. \A v \in Workers \ {w} : wpc[v] = "stored" =>
             job[v] \in Calls \ {job[w]}
      BY <3>1, JobIsAlone
    <3> QED
      BY <2>1, <2>2, <3>1, <3>2, <3>3 DEF FilesFit, FilesOf, WorkbookOf
  <2>6. CASE SetRunning(w) \/ SetDone(w) \/ SetFailed(w)
    <3>1. /\ UNCHANGED <<artifact, disk, job>>
          /\ wpc[w] \notin {"absent", "idle"}
          /\ wpc'[w] \notin {"rendered", "stored"}
      BY <2>6 DEF SetRunning, SetDone, SetFailed, Known, TypeOK
    <3>2. \A c \in Calls : status'[c] = "done" =>
             status[c] = "done" \/ (c = job[w] /\ wpc[w] = "stored")
      <4>1. \A s \in States :
               WithStatus(id[job[w]], s) = [status EXCEPT ![job[w]] = s]
        BY <3>1, WithStatusOfJob
      <4>2. CASE SetDone(w)
        BY <4>1, <4>2 DEF SetDone, States, Known, TypeOK
      <4>3. CASE SetRunning(w) \/ SetFailed(w)
        <5>1. \/ status' = [status EXCEPT ![job[w]] = "running"]
              \/ status' = [status EXCEPT ![job[w]] = "failed"]
          BY <4>1, <4>3 DEF SetRunning, SetFailed, States
        <5>2. status \in [Calls -> States \cup {"none", "lost"}]
          BY DEF Known, TypeOK
        <5> QED
          BY <5>1, <5>2
      <4> QED
        BY <2>6, <4>2, <4>3
    <3>3. DoneIsWhole'
      BY <2>1, <3>1, <3>2
         DEF FilesFit, DoneIsWhole, FilesOf, WorkbookOf, Known, TypeOK
    <3> QED
      BY <2>1, <2>2, <3>1, <3>3 DEF FilesFit, FilesOf, WorkbookOf
  <2> QED
    BY <1>2, <2>3, <2>4, <2>5, <2>6 DEF Work
<1>3. CASE Restart
  BY <1>3 DEF Restart, FilesFit, DoneIsWhole
<1>4. CASE UNCHANGED vars
  BY <1>4 DEF vars, callVars, entryVars, workerVars, FilesFit, DoneIsWhole,
              FilesOf, WorkbookOf
<1> QED
  BY <1>1, <1>2, <1>3, <1>4 DEF Next

LEMMA FilesInvariant == Spec => []FilesFit
  BY KnownInvariant, StatusInvariant, InitFiles, StepFiles, PTL DEF Spec

(* A task is reported done only while its own whole workbook is under its    *)
(* artifact path, whatever other workers write, fail to write and overwrite. *)
THEOREM DoneTasksAreWhole == Spec => []DoneIsWhole
<1>1. FilesFit => DoneIsWhole
  BY DEF FilesFit
<1> QED
  BY <1>1, FilesInvariant, PTL
-----------------------------------------------------------------------------
(* The channel is drained *)

Served == queue # <<>> => started \/ \E c \in Calls : pc[c] = "sent"

LEMMA StepServed == TypeOK /\ Served /\ [Next]_vars => Served'
<1> SUFFICES ASSUME TypeOK, Served, [Next]_vars
             PROVE  Served'
  OBVIOUS
<1>1. ASSUME NEW c \in Calls, Submit(c)
      PROVE  Served'
  <2>1. CASE Scan(c) \/ Identify(c) \/ Register(c)
    <3>1. UNCHANGED <<queue, started>> /\ pc[c] # "sent"
      BY <2>1 DEF Scan, Identify, Register
    <3>2. \A d \in Calls : pc[d] = "sent" => pc'[d] = "sent"
      BY <2>1, <3>1 DEF Scan, Identify, Register, TypeOK
    <3> QED
      BY <3>1, <3>2 DEF Served
  <2>2. CASE Send(c)
    BY <2>2 DEF Send, Served, TypeOK
  <2>3. CASE Start(c)
    BY <2>3 DEF Start, Served
  <2> QED
    BY <1>1, <2>1, <2>2, <2>3 DEF Submit
<1>2. ASSUME NEW w \in Workers, Work(w)
      PROVE  Served'
  <2>1. UNCHANGED <<pc, started>> /\ (queue' = queue \/ queue # <<>>)
    BY <1>2 DEF Work, Take, SetRunning, BuildFails, CreateFile, RenderFails,
                RenderAndClose, SetArtifact, SetDone, SetFailed, SetError, Ack,
                callVars
  <2> QED
    BY <2>1 DEF Served
<1>3. CASE Restart
  BY <1>3 DEF Restart, Served
<1>4. CASE UNCHANGED vars
  BY <1>4 DEF vars, callVars, Served
<1> QED
  BY <1>1, <1>2, <1>3, <1>4 DEF Next

(* No deadlock of the submissions: whoever waits in the channel has workers, *)
(* or a call of Submit that has only Start left to do.                       *)
THEOREM QueueIsServed == Spec => []WorkIsServed
<1>1. Init => Served
  BY DEF Init, Served
<1>2. JobHeld /\ Served => WorkIsServed
  BY OrchestratorAssumption DEF JobHeld, Served, WorkIsServed
<1> QED
  BY <1>1, <1>2, TypeCorrect, StepServed, PlacesInvariant, PTL DEF Spec
-----------------------------------------------------------------------------
(* One place for each entry *)

(* Every task that was accepted is in exactly one place: it is neither lost  *)
(* nor executed twice, however many wait for room in the channel.            *)
THEOREM TasksAreInOnePlace == Spec => []InOnePlace
<1>1. Known => InOnePlace
  <2> SUFFICES ASSUME Known, NEW c \in registered
               PROVE  \E p : Places(c) = {p}
    BY FS_Singleton DEF InOnePlace
  <2>1. /\ pc[c] = "registered" \/ Waiting(c) \/ Held(c) \/ c \in acked
        /\ pc[c] = "registered" => ~Waiting(c) /\ ~Held(c) /\ c \notin acked
        /\ Waiting(c) => ~Held(c) /\ c \notin acked
        /\ Held(c) => c \notin acked
    BY DEF Known, PlacesKnown, PlacesDiffer
  <2>2. CASE pc[c] = "registered"
    <3>1. Places(c) = {<<"submit">>}
      BY <2>1, <2>2 DEF Places, Waiting, Held
    <3> QED
      BY <3>1
  <2>3. CASE Waiting(c)
    <3>1. PICK i \in 1..Len(queue) : queue[i] = c
      BY <2>3 DEF Waiting
    <3>2. {j \in 1..Len(queue) : queue[j] = c} = {i}
      BY <3>1 DEF Known, PlacesDiffer
    <3>3. Places(c) = {<<"queue", i>>}
      BY <2>1, <2>3, <3>2 DEF Places, Held
    <3> QED
      BY <3>3
  <2>4. CASE Held(c)
    <3>1. PICK w \in Workers : job[w] = c
      BY <2>4 DEF Held
    <3>2. c # None
      BY OrchestratorAssumption DEF Known, TypeOK
    <3>3. {v \in Workers : job[v] = c} = {w}
      BY <3>1, <3>2 DEF Known, PlacesDiffer
    <3>4. Places(c) = {<<"worker", w>>}
      BY <2>1, <2>4, <3>3 DEF Places, Waiting
    <3> QED
      BY <3>4
  <2>5. CASE c \in acked
    <3>1. Places(c) = {<<"finished">>}
      BY <2>1, <2>5 DEF Places, Waiting, Held
    <3> QED
      BY <3>1
  <2> QED
    BY <2>1, <2>2, <2>3, <2>4, <2>5
<1> QED
  BY <1>1, KnownInvariant, PTL
-----------------------------------------------------------------------------
(* The queue implements TaskLifecycle *)

Delivered == {c \in registered : status[c] = "done" /\ WorkbookOf(c) \in disk}
Done == {c \in registered : status[c] = "done"}

LEMMA DoneIsDelivered == FilesFit => Delivered = Done
<1> SUFFICES ASSUME FilesFit, NEW c \in registered, status[c] = "done"
             PROVE  WorkbookOf(c) \in disk
  BY DEF Delivered, Done
<1>1. WorkbookOf(c) \in {f \in disk : f.name = id[c]}
  BY DEF FilesFit, DoneIsWhole
<1> QED
  BY <1>1

(* While a worker is about to run its task another worker runs each of the   *)
(* running tasks, so there is room for one more.                             *)
LEMMA RoomForOneMore ==
    ASSUME Known, StatusFits, NEW w \in Workers, wpc[w] = "taken"
    PROVE  Cardinality({c \in Calls : status[c] = "running"} \cup {job[w]})
             <= Cardinality(Workers)
<1> DEFINE R == {c \in Calls : status[c] = "running"}
           V == Workers \ {w}
           f == [c \in R |-> CHOOSE v \in V : job[v] = c]
<1>1. ASSUME NEW c \in R
      PROVE  \E v \in V : job[v] = c
  <2>1. c \in registered
    BY DEF Known, EntriesKnown, States
  <2>2. Held(c)
    BY <2>1 DEF StatusFits, AckedIsFinal, Known, PlacesKnown
  <2>3. job[w] # c
    BY DEF StatusFits
  <2> QED
    BY <2>2, <2>3 DEF Held
<1>2. \A c \in R : f[c] \in V /\ job[f[c]] = c
  BY <1>1
<1>3. f \in Injection(R, V)
  <2>1. f \in [R -> V]
    BY <1>2
  <2>2. \A c, d \in R : f[c] = f[d] => c = d
    BY <1>2
  <2> QED
    BY <2>1, <2>2 DEF Injection, IsInjective
<1>4. IsFiniteSet(V) /\ Cardinality(V) = Cardinality(Workers) - 1
  BY OrchestratorAssumption, FS_RemoveElement
<1>5. IsFiniteSet(R) /\ Cardinality(R) <= Cardinality(V)
  BY <1>3, <1>4, FS_Injection
<1>6. Cardinality(Workers) \in Nat /\ Cardinality(R) \in Nat
  BY <1>5, OrchestratorAssumption, FS_CardinalityType
<1>7. Cardinality(R \cup {job[w]}) <= Cardinality(R) + 1
  <2>1. Cardinality(R \cup {job[w]})
          = IF job[w] \in R THEN Cardinality(R) ELSE Cardinality(R) + 1
    BY <1>5, FS_AddElement
  <2> QED
    BY <1>6, <2>1
<1>8. IsFiniteSet(R \cup {job[w]}) /\ Cardinality(R \cup {job[w]}) \in Nat
  BY <1>5, FS_AddElement, FS_CardinalityType
<1> QED
  BY <1>4, <1>5, <1>6, <1>7, <1>8

LEMMA DoneIsDeliveredNext == (FilesFit => Delivered = Done)'
  BY DoneIsDelivered, PTL

LEMMA InitLifecycle == Init => Lifecycle!Init
  BY DEF Init, Lifecycle!Init

LEMMA StepLifecycle ==
    Known /\ StatusFits /\ FilesFit /\ FilesFit' /\ [Next]_vars =>
        [Lifecycle!Next]_(Lifecycle!vars)
<1> SUFFICES ASSUME Known, StatusFits, FilesFit, FilesFit', [Next]_vars
             PROVE  \/ Lifecycle!Next
                    \/ status' = status /\ Delivered' = Delivered
  BY DEF Lifecycle!vars, Delivered
<1>1. Delivered = Done /\ Delivered' = Done'
  BY DoneIsDelivered, DoneIsDeliveredNext
<1>2. ASSUME NEW c \in Calls, Submit(c)
      PROVE  \/ Lifecycle!Next
             \/ status' = status /\ Delivered' = Delivered
  <2>1. CASE Register(c)
    <3>1. status[c] = "none" /\ status' = [status EXCEPT ![c] = "queued"]
      BY <2>1 DEF Register, Known, EntriesKnown
    <3>2. c \notin registered /\ registered' = registered \cup {c}
      BY <2>1, RegisterAdds DEF Known
    <3>3. Done' = Done
      BY <3>1, <3>2 DEF Done, Known, TypeOK
    <3>4. Lifecycle!Accept(c)
      BY <1>1, <3>1, <3>3 DEF Lifecycle!Accept, Delivered
    <3> QED
      BY <3>4 DEF Lifecycle!Next
  <2>2. CASE ~Register(c)
    BY <1>1, <1>2, <2>2 DEF Submit, Scan, Identify, Send, Start, entryVars, Done
  <2> QED
    BY <2>1, <2>2
<1>3. ASSUME NEW w \in Workers, Work(w)
      PROVE  \/ Lifecycle!Next
             \/ status' = status /\ Delivered' = Delivered
  <2>1. registered' = registered
    BY <1>3 DEF Work, Take, SetRunning, BuildFails, CreateFile, RenderFails,
                RenderAndClose, SetArtifact, SetDone, SetFailed, SetError, Ack
  <2>2. CASE SetRunning(w) \/ SetDone(w) \/ SetFailed(w)
    <3> DEFINE c == job[w]
    <3>1. wpc[w] \notin {"absent", "idle"}
      BY <2>2 DEF SetRunning, SetDone, SetFailed
    <3>2. /\ c \in registered /\ c \in Calls
          /\ \A s \in States : WithStatus(id[c], s) = [status EXCEPT ![c] = s]
      BY <3>1, WithStatusOfJob
    <3> HIDE DEF c
    <3>6. Lifecycle!Begin(c) \/ Lifecycle!Succeed(c) \/ Lifecycle!Fail(c)
             => Lifecycle!Next
      BY <3>2 DEF Lifecycle!Next, Lifecycle!Succeed
    <3> USE DEF c
    <3>3. CASE SetRunning(w)
      <4>1. status[c] = "queued" /\ status' = [status EXCEPT ![c] = "running"]
        BY <3>2, <3>3 DEF SetRunning, StatusFits, States
      <4>2. Done' = Done
        BY <2>1, <3>2, <4>1 DEF Done, Known, TypeOK
      <4>3. Cardinality(Lifecycle!RunningTasks \cup {c}) <= Cardinality(Workers)
        BY <3>3, RoomForOneMore DEF SetRunning, Lifecycle!RunningTasks
      <4>4. Lifecycle!RunningTasks \cup {c} \in SUBSET Calls
        BY <3>2 DEF Lifecycle!RunningTasks
      <4>5. Lifecycle!Begin(c)
        BY <1>1, <4>1, <4>2, <4>3, <4>4 DEF Lifecycle!Begin, Delivered
      <4> QED
        BY <3>6, <4>5
    <3>4. CASE SetDone(w)
      <4>1. status[c] = "running" /\ status' = [status EXCEPT ![c] = "done"]
        BY <3>2, <3>4 DEF SetDone, StatusFits, States, Executing
      <4>2. Done' = Done \cup {c}
        BY <2>1, <3>2, <4>1 DEF Done, Known, TypeOK
      <4>3. Lifecycle!Succeed(c)
        BY <1>1, <4>1, <4>2 DEF Lifecycle!Succeed, Delivered
      <4> QED
        BY <3>6, <4>3
    <3>5. CASE SetFailed(w)
      <4>1. status[c] = "running" /\ status' = [status EXCEPT ![c] = "failed"]
        BY <3>2, <3>5 DEF SetFailed, StatusFits, States, Executing
      <4>2. Done' = Done
        BY <2>1, <3>2, <4>1 DEF Done, Known, TypeOK
      <4>3. Lifecycle!Fail(c)
        BY <1>1, <4>1, <4>2 DEF Lifecycle!Fail, Delivered
      <4> QED
        BY <3>6, <4>3
    <3> QED
      BY <2>2, <3>3, <3>4, <3>5
  <2>3. CASE ~SetRunning(w) /\ ~SetDone(w) /\ ~SetFailed(w)
    <3>1. status' = status
      BY <1>3, <2>3 DEF Work, Take, BuildFails, CreateFile, RenderFails,
                RenderAndClose, SetArtifact, SetError, Ack, entryVars
    <3> QED
      BY <1>1, <2>1, <3>1 DEF Done
  <2> QED
    BY <2>2, <2>3
<1>4. CASE Restart
  <2>1. Done' = {}
    BY <1>4 DEF Restart, Done
  <2>2. Lifecycle!Forget
    BY <1>1, <1>4, <2>1 DEF Restart, Lifecycle!Forget, Delivered
  <2> QED
    BY <2>2 DEF Lifecycle!Next
<1>5. CASE UNCHANGED vars
  BY <1>1, <1>5 DEF vars, callVars, entryVars, Done
<1> QED
  BY <1>2, <1>3, <1>4, <1>5 DEF Next

(* Every behaviour of the queue, crashes included, is a life of its tasks as *)
(* TaskLifecycle promises it, with as many running at a time as there are    *)
(* workers.                                                                  *)
THEOREM QueueImplementsLifecycle == Spec => ImplementsLifecycle
<1>1. Spec => [][Lifecycle!Next]_(Lifecycle!vars)
  BY KnownInvariant, StatusInvariant, FilesInvariant, StepLifecycle, PTL DEF Spec
<1> QED
  BY <1>1, InitLifecycle, PTL DEF Spec, ImplementsLifecycle, Lifecycle!Spec
=============================================================================
