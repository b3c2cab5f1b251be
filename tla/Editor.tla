------------------------------- MODULE Editor -------------------------------
(***************************************************************************)
(* One browser that edits one report: the store of web/src/store/editor.ts *)
(* with its undo and redo stacks, the autosave hook, and the loading and   *)
(* publishing of EditorLayout, against the service, whose other clients    *)
(* save, publish and roll back as well.  The service keeps the version     *)
(* chain that DefinitionStore implements; a PUT of a draft is its version  *)
(* check and its upsert, two steps, and an answer that may get lost.       *)
(*                                                                         *)
(* A draft is its version and its body; baseVersion is always the draft's  *)
(* version, which every edit keeps.  JavaScript runs each callback to its  *)
(* end, so each one is an action.  Leaving the editor unmounts the hook    *)
(* but not the store: the answer to an older mount's PUT still comes, and  *)
(* so do those of a load that the retry button began, which nothing        *)
(* cancels.                                                                *)
(***************************************************************************)
EXTENDS Naturals, Sequences, SequencesExt

CONSTANTS
    Bodies,       \* the contents a definition can have
    MaxVersion,   \* bound on the version numbers
    MaxMounts,    \* bound on how often the editor is opened
    MaxEdits,     \* bound on the user's edits and undos
    MaxLosses,    \* bound on the calls that fail without an answer
    MaxOthers,    \* bound on the saves of other clients
    Null          \* no draft

ASSUME EditorAssumption ==
    /\ {MaxVersion, MaxMounts, MaxEdits, MaxLosses, MaxOthers} \subseteq Nat
    /\ MaxVersion >= 1
    /\ Null \notin [version : Nat, body : Bodies]

VARIABLES
    published,    \* the service's published versions
    drafts,       \* the service's drafts
    screen,       \* draft: the document on screen, or Null
    undoStack,    \* the drafts of the undo stack, newest last
    redoStack,    \* those of the redo stack
    saveState,    \* the SaveState
    foreign,      \* the earlier mounts whose loads were shown since the last reset
    mount,        \* the number of the current mount of the editor
    load,         \* load[m]: how far the load() of mount m is
    request,      \* request[m]: the PUT of mount m's hook
    synced,       \* what this editor has loaded from or written to the service
    edits, losses, others

serverVars == <<published, drafts>>
storeVars == <<screen, undoStack, redoStack, saveState, foreign>>
bounds == <<edits, losses, others>>
vars == <<serverVars, storeVars, mount, load, request, synced, bounds>>

Versions == 1..MaxVersion
Mounts == 1..MaxMounts

Chain == INSTANCE VersionChain

Draft == Chain!Entry
Pending == {"reading", "fallback", "fetched", "previewing"}
Load == [phase : Pending \cup {"none", "open", "error"}, doc : Draft \cup {Null},
         retried : BOOLEAN]
NoLoad == [phase |-> "none", doc |-> Null, retried |-> FALSE]
NoRequest == [phase |-> "none", doc |-> Null]
Request == {NoRequest}
             \cup [phase : {"sent", "checked", "ok", "conflict", "error"},
                   doc : Draft]

TypeOK ==
    /\ Chain!TypeOK
    /\ screen \in Draft \cup {Null}
    /\ undoStack \in Seq(Draft)
    /\ redoStack \in Seq(Draft)
    /\ saveState \in {"clean", "dirty", "saving", "conflict"}
    /\ foreign \subseteq Mounts
    /\ mount \in 0..MaxMounts
    /\ load \in [Mounts -> Load]
    /\ request \in [Mounts -> Request]
    /\ synced \subseteq Draft
    /\ edits \in 0..MaxEdits
    /\ losses \in 0..MaxLosses
    /\ others \in 0..MaxOthers

(* The console creates no report: a client of the API has stored a draft, or *)
(* has stored one without a version number, that was published as version 1. *)
Init ==
    /\ \E b \in Bodies :
         LET first == {[version |-> 1, body |-> b]}
         IN \/ drafts = first /\ published = {}
            \/ drafts = {} /\ published = first
    /\ screen = Null
    /\ undoStack = <<>>
    /\ redoStack = <<>>
    /\ saveState = "clean"
    /\ foreign = {}
    /\ mount = 0
    /\ load = [m \in Mounts |-> NoLoad]
    /\ request = [m \in Mounts |-> NoRequest]
    /\ synced = {}
    /\ edits = 0 /\ losses = 0 /\ others = 0
-----------------------------------------------------------------------------
(* load() of EditorLayout *)

(* Fault: the stacks outlive the document they belong to. *)
ResetDocument ==
    /\ screen' = Null
    /\ saveState' = "clean"
    /\ foreign' = {}
    /\ UNCHANGED <<undoStack, redoStack>>

Reset ==
    /\ screen' = Null
    /\ undoStack' = <<>>
    /\ redoStack' = <<>>
    /\ saveState' = "clean"
    /\ foreign' = {}

Begun(retried) == [NoLoad EXCEPT !.phase = "reading", !.retried = retried]

(* What an unmount leaves of a load: the effect's is cancelled, the function *)
(* that would cancel the retry button's is dropped.                          *)
Left(l) == IF l.retried THEN l ELSE NoLoad

(* The error, and that the load has ended, are the component's: an unmounted *)
(* one has neither.                                                          *)
Ended(m, phase) == IF m = mount THEN [NoLoad EXCEPT !.phase = phase] ELSE NoLoad

(* The editor is left, if it was open, and opened. *)
Open ==
    /\ mount < MaxMounts
    /\ mount' = mount + 1
    /\ Reset
    /\ load' = [m \in Mounts |-> IF m = mount + 1 THEN Begun(FALSE) ELSE Left(load[m])]
    /\ UNCHANGED <<serverVars, request, synced, bounds>>

Retry ==
    /\ mount # 0
    /\ load[mount].phase = "error"
    /\ Reset
    /\ load' = [load EXCEPT ![mount] = Begun(TRUE)]
    /\ UNCHANGED <<serverVars, mount, request, synced, bounds>>

(* The catch of load(): whatever was shown, and edited, is gone, also when   *)
(* the editor was opened again since.                                        *)
LoadFails(m) ==
    /\ Reset
    /\ load' = [load EXCEPT ![m] = Ended(m, "error")]
    /\ UNCHANGED <<serverVars, mount, request, synced, edits, others>>

(* The connection breaks, or the service fails. *)
LoseLoad(m) ==
    /\ load[m].phase \in Pending
    /\ losses < MaxLosses
    /\ losses' = losses + 1
    /\ LoadFails(m)

NotFound(m) == LoadFails(m) /\ UNCHANGED losses

LoadGoesOn(m, l) ==
    /\ load' = [load EXCEPT ![m] = l]
    /\ UNCHANGED <<serverVars, storeVars, mount, request, synced, bounds>>

Fetch(m, docs) ==
    \E d \in Chain!Newest(docs) :
        LoadGoesOn(m, [load[m] EXCEPT !.phase = "fetched", !.doc = d])

(* getDraft; a 404 falls back to the published version. *)
ReadDraft(m) ==
    /\ load[m].phase = "reading"
    /\ \/ Fetch(m, drafts)
       \/ drafts = {} /\ LoadGoesOn(m, [load[m] EXCEPT !.phase = "fallback"])

ReadPublished(m) ==
    /\ load[m].phase = "fallback"
    /\ \/ Fetch(m, published)
       \/ published = {} /\ NotFound(m)

(* setDraft, which leaves the stacks alone: a load that nothing cancelled    *)
(* puts its document under those of a later one.                             *)
Show(m) ==
    /\ load[m].phase = "fetched"
    /\ screen' = load[m].doc
    /\ saveState' = "clean"
    /\ foreign' = foreign \cup ({m} \ {mount})
    /\ load' = [load EXCEPT ![m].phase = "previewing", ![m].doc = Null]
    /\ synced' = synced \cup {load[m].doc}
    /\ UNCHANGED <<serverVars, undoStack, redoStack, mount, request, bounds>>

(* The preview renders the published version; without one it is a 404. *)
Preview(m) ==
    /\ load[m].phase = "previewing"
    /\ \/ published # {} /\ LoadGoesOn(m, Ended(m, "open"))
       \/ published = {} /\ NotFound(m)
-----------------------------------------------------------------------------
(* The user *)

(* The error page of the current mount has none of these buttons. *)
Editing == screen # Null /\ load[mount].phase # "error"

(* checkpoint and mutateDraft: every panel calls one after the other. *)
Edit(b) ==
    /\ Editing
    /\ screen.body # b
    /\ edits < MaxEdits
    /\ edits' = edits + 1
    /\ undoStack' = Append(undoStack, screen)
    /\ redoStack' = <<>>
    /\ screen' = [screen EXCEPT !.body = b]
    /\ saveState' = "dirty"
    /\ UNCHANGED <<serverVars, foreign, mount, load, request, synced, losses, others>>

(* What undo and redo do besides. *)
Move ==
    /\ Editing
    /\ saveState' = "dirty"
    /\ UNCHANGED <<serverVars, foreign, mount, load, request, synced, losses, others>>

Undo ==
    /\ undoStack # <<>>
    /\ edits < MaxEdits
    /\ edits' = edits + 1
    /\ screen' = Last(undoStack)
    /\ undoStack' = Front(undoStack)
    /\ redoStack' = Append(redoStack, screen)
    /\ Move

(* The redone draft goes on the undo stack, not the one it replaces.  There  *)
(* is no more to redo than was undone, so this needs no bound.               *)
Redo ==
    /\ redoStack # <<>>
    /\ UNCHANGED edits
    /\ screen' = Last(redoStack)
    /\ undoStack' = Append(undoStack, Last(redoStack))
    /\ redoStack' = Front(redoStack)
    /\ Move
-----------------------------------------------------------------------------
(* useAutosave *)

(* Fault: the hook does not look whether there is a draft. *)
TickWithoutDraft ==
    /\ mount # 0
    /\ saveState = "dirty"
    /\ request[mount] = NoRequest
    /\ saveState' = "saving"
    /\ request' = [request EXCEPT ![mount] = [phase |-> "sent", doc |-> screen]]
    /\ UNCHANGED <<serverVars, screen, undoStack, redoStack, foreign, mount, load,
                   synced, bounds>>

(* The interval of the current mount sends the draft, one PUT at a time. *)
Tick ==
    /\ mount # 0
    /\ saveState = "dirty"
    /\ screen # Null
    /\ request[mount] = NoRequest
    /\ saveState' = "saving"
    /\ request' = [request EXCEPT ![mount] = [phase |-> "sent", doc |-> screen]]
    /\ UNCHANGED <<serverVars, screen, undoStack, redoStack, foreign, mount, load,
                   synced, bounds>>

Becomes(m, phase) == request' = [request EXCEPT ![m].phase = phase]

(* Fault: any answer to a PUT that succeeded makes the draft clean. *)
AnsweredClean(phase) ==
    CASE phase = "ok"       -> "clean"
      [] phase = "conflict" -> "conflict"
      [] phase = "error"    -> "dirty"

(* Fault: a call that failed leaves the state at saving. *)
AnsweredUnlessFailed(phase) ==
    CASE phase = "ok"       -> IF saveState = "saving" THEN "clean" ELSE saveState
      [] phase = "conflict" -> "conflict"
      [] phase = "error"    -> saveState

(* The save state after an answer, to whichever mount's PUT. *)
Answered(phase) ==
    CASE phase = "ok"       -> IF saveState = "saving" THEN "clean" ELSE saveState
      [] phase = "conflict" -> "conflict"
      [] phase = "error"    -> "dirty"

Answer(m) ==
    /\ request[m].phase \in {"ok", "conflict", "error"}
    /\ saveState' = Answered(request[m].phase)
    /\ request' = [request EXCEPT ![m] = NoRequest]
    /\ UNCHANGED <<serverVars, screen, undoStack, redoStack, foreign, mount, load,
                   synced, bounds>>
-----------------------------------------------------------------------------
(* The service *)

IsOutdated(v) == \E d \in drafts : d.version > v
IsPublished(v) == \E p \in published : p.version = v

CheckVersion(m) ==
    /\ request[m].phase = "sent"
    /\ Becomes(m, IF IsOutdated(request[m].doc.version) THEN "conflict"
                  ELSE "checked")
    /\ UNCHANGED <<serverVars, storeVars, mount, load, synced, bounds>>

(* A draft whose version is published is refused with a 400. *)
WriteDraft(m) ==
    LET doc == request[m].doc
    IN /\ request[m].phase = "checked"
       /\ \/ /\ Chain!Save(doc)
             /\ synced' = synced \cup {doc}
             /\ Becomes(m, "ok")
          \/ /\ IsPublished(doc.version)
             /\ Becomes(m, "error")
             /\ UNCHANGED <<serverVars, synced>>
       /\ UNCHANGED <<storeVars, mount, load, bounds>>

(* The connection breaks, before or after the service has done its part. *)
Lose(m) ==
    /\ request[m].phase \in {"sent", "checked", "ok", "conflict"}
    /\ losses < MaxLosses
    /\ losses' = losses + 1
    /\ Becomes(m, "error")
    /\ UNCHANGED <<serverVars, storeVars, mount, load, synced, edits, others>>

NextVersion(base) ==
    IF published = {} THEN base + 1
    ELSE (CHOOSE p \in Chain!Newest(published) : TRUE).version + 1

(* The publish button, and anybody else's. *)
Publish ==
    /\ \E d \in Chain!Newest(drafts) :
         /\ NextVersion(d.version) \in Versions
         /\ Chain!Publish([version |-> NextVersion(d.version), body |-> d.body])
    /\ UNCHANGED <<storeVars, mount, load, request, synced, bounds>>

(* The version drawer's button; the editor does not load again. *)
Rollback ==
    /\ \E p \in published :
         /\ NextVersion(p.version) \in Versions
         /\ Chain!Rollback([version |-> NextVersion(p.version), body |-> p.body])
    /\ UNCHANGED <<storeVars, mount, load, request, synced, bounds>>

(* Another client of the API saves a draft. *)
OtherSave(doc) ==
    /\ others < MaxOthers
    /\ others' = others + 1
    /\ ~IsOutdated(doc.version)
    /\ Chain!Save(doc)
    /\ UNCHANGED <<storeVars, mount, load, request, synced, edits, losses>>
-----------------------------------------------------------------------------
Next ==
    \/ Open \/ Retry
    \/ \E m \in Mounts :
         LoseLoad(m) \/ ReadDraft(m) \/ ReadPublished(m) \/ Show(m) \/ Preview(m)
    \/ \E b \in Bodies : Edit(b)
    \/ Undo \/ Redo \/ Tick
    \/ \E m \in Mounts : CheckVersion(m) \/ WriteDraft(m) \/ Lose(m) \/ Answer(m)
    \/ Publish \/ Rollback
    \/ \E doc \in Draft : OtherSave(doc)

Spec == Init /\ [][Next]_vars

(* The interval ticks and every call is answered or fails; no user acts.     *)
Fairness ==
    /\ \A m \in Mounts :
         /\ WF_vars(ReadDraft(m) \/ ReadPublished(m) \/ Show(m) \/ Preview(m))
         /\ WF_vars(CheckVersion(m) \/ WriteDraft(m) \/ Answer(m))
    /\ WF_vars(Tick)

FairSpec == Spec /\ Fairness
-----------------------------------------------------------------------------
(* Properties *)

(* "Saved" is shown, and no save is under way, only for a document that this *)
(* editor has loaded or written: no edit, undo or redo made while a PUT was  *)
(* under way, and no answer out of time, is taken for a save.                *)
SettledIsSynced ==
    screen # Null /\ saveState = "clean" /\ request[mount] = NoRequest =>
        screen \in synced

(* Undo and redo lead to documents of the load on screen only: whatever was  *)
(* published, rolled back or loaded again since, a document with the version *)
(* number of an earlier load cannot come back and be saved.  A load that a   *)
(* retry began and a later mount outlived can put its document under the     *)
(* stacks, so this is about screens that no such load has reached; even then *)
(* nothing is left to undo where there is no document.                       *)
StacksFitScreen ==
    \A d \in Range(undoStack) \cup Range(redoStack) :
        /\ screen # Null
        /\ foreign = {} => d.version = screen.version

(* When the user stops, the edits are saved or a conflict is shown, unless   *)
(* the draft's version has been published, and no save of it can succeed.    *)
(* Edits that a reload discards are not counted, nor those that a retried    *)
(* load of an earlier mount replaces: setDraft makes its document clean.     *)
EditsGetSaved ==
    <>[](\/ screen = Null
         \/ saveState \in {"clean", "conflict"}
         \/ IsPublished(screen.version))

(* Without a draft the published version is loaded "as the base for editing" *)
(* (EditorLayout), so its edits should be saved as well.  Refuted: they are  *)
(* sent with the published version's number, and refused, for ever.          *)
BaseCanBeEdited == <>[](screen = Null \/ saveState \in {"clean", "conflict"})

(* "Saves carry base_version, a conflict does not silently overwrite" (design *)
(* document): a save replaces only a draft that this editor has seen.        *)
(* Refuted: equal versions do not conflict.                                  *)
NoSilentOverwrite ==
    [][\A m \in Mounts : WriteDraft(m) =>
         \A d \in drafts : d \in drafts' \/ d \in synced]_vars
=============================================================================
