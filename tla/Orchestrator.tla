---------------------------- MODULE Orchestrator ----------------------------
(***************************************************************************)
(* The export queue of dynamic-report/internal/orchestrator: Submit called *)
(* by concurrent HTTP handlers, the bounded channel, the worker goroutines *)
(* and the artifact files they write.                                      *)
(*                                                                         *)
(* A call c of Submit stands for the taskEntry it creates.  o.tasks is the *)
(* set `registered` of the entries the map holds, indexed by their id; an  *)
(* entry's status record is the functions status, error, artifact and      *)
(* acked.  Each region between two lock operations, and each channel       *)
(* operation, is one action.  ExportRequest.ID and ArtifactName, which no  *)
(* caller sets, are left out: ids are task-1, task-2, ... (the number),    *)
(* and the file of a task is named after its id.                           *)
(***************************************************************************)
EXTENDS Naturals, Sequences, FiniteSets

CONSTANTS
    Calls,        \* the calls of Submit, each by its own goroutine
    Workers,      \* the worker goroutines, o.concurrency of them
    NoKey,        \* the empty idempotency key
    KeyOf,        \* KeyOf[c]: the idempotency key of call c, or NoKey
    QueueCap,     \* the capacity of the channel (64 in the code)
    MaxRestarts,  \* bound on the restarts of the process
    None          \* no task

ASSUME OrchestratorAssumption ==
    /\ None \notin Calls
    /\ IsFiniteSet(Workers)
    /\ Workers # {}
    /\ QueueCap \in Nat \ {0}
    /\ MaxRestarts \in Nat
    /\ DOMAIN KeyOf = Calls

VARIABLES
    pc,           \* pc[c]: how far call c is in Submit
    id,           \* id[c]: the number N of its task id task-N, 0 before it has one
    registered,   \* o.tasks: the entries in the map
    queue,        \* o.queue
    started,      \* o.started
    nextID,       \* o.nextID
    status,       \* status[c]: the State of entry c
    error,        \* the entries whose Error text is set
    artifact,     \* artifact[c]: the number in its ArtifactPath, 0 when unset
    acked,        \* the entries whose acked channel is closed
    wpc,          \* wpc[w]: how far worker w is in its loop
    job,          \* job[w]: the entry worker w holds
    disk,         \* the artifact files: name, who wrote it, whether it is whole
    restarts      \* how often the process was restarted

callVars == <<pc, id, nextID>>
entryVars == <<status, error, artifact, acked>>
workerVars == <<wpc, job>>
vars == <<callVars, registered, queue, started, entryVars, workerVars, disk,
          restarts>>

States == {"queued", "running", "done", "failed"}
CallStates == {"idle", "scanned", "identified", "registered", "sent",
               "returned", "duplicate", "lost"}
WorkerStates == {"absent", "idle", "taken", "running", "rendering", "rendered",
                 "stored", "failing", "errored", "finishing"}
File == [name : Nat, by : Calls, whole : BOOLEAN]

TypeOK ==
    /\ pc \in [Calls -> CallStates]
    /\ id \in [Calls -> Nat]
    /\ registered \subseteq Calls
    /\ queue \in Seq(Calls)
    /\ Len(queue) <= QueueCap
    /\ started \in BOOLEAN
    /\ nextID \in Nat
    /\ status \in [Calls -> States \cup {"none", "lost"}]
    /\ error \subseteq Calls
    /\ artifact \in [Calls -> Nat]
    /\ acked \subseteq Calls
    /\ wpc \in [Workers -> WorkerStates]
    /\ job \in [Workers -> Calls \cup {None}]
    /\ disk \subseteq File
    /\ restarts \in 0..MaxRestarts

Init ==
    /\ pc = [c \in Calls |-> "idle"]
    /\ id = [c \in Calls |-> 0]
    /\ registered = {}
    /\ queue = <<>>
    /\ started = FALSE
    /\ nextID = 0
    /\ status = [c \in Calls |-> "none"]
    /\ error = {}
    /\ artifact = [c \in Calls |-> 0]
    /\ acked = {}
    /\ wpc = [w \in Workers |-> "absent"]
    /\ job = [w \in Workers |-> None]
    /\ disk = {}
    /\ restarts = 0
-----------------------------------------------------------------------------
(* Submit *)

SameKey(c) == {d \in registered : KeyOf[d] = KeyOf[c]}

(* The scan of o.tasks for the key, under the lock, which is then released. *)
Scan(c) ==
    /\ pc[c] = "idle"
    /\ pc' = [pc EXCEPT ![c] = IF KeyOf[c] # NoKey /\ SameKey(c) # {}
                               THEN "duplicate" ELSE "scanned"]
    /\ UNCHANGED <<id, nextID, registered, queue, started, entryVars,
                   workerVars, disk, restarts>>

(* Fault: the id is taken from the size of the map instead of the counter. *)
IdentifyFromMapSize(c) ==
    /\ pc[c] = "scanned"
    /\ nextID' = nextID
    /\ id' = [id EXCEPT ![c] = Cardinality(registered) + 1]
    /\ pc' = [pc EXCEPT ![c] = "identified"]
    /\ UNCHANGED <<registered, queue, started, entryVars, workerVars, disk,
                   restarts>>

(* req.ID = task-N with the atomic counter. *)
Identify(c) ==
    /\ pc[c] = "scanned"
    /\ nextID' = nextID + 1
    /\ id' = [id EXCEPT ![c] = nextID + 1]
    /\ pc' = [pc EXCEPT ![c] = "identified"]
    /\ UNCHANGED <<registered, queue, started, entryVars, workerVars, disk,
                   restarts>>

(* o.tasks[req.ID] = ent, which drops an entry the map held under this id. *)
Register(c) ==
    /\ pc[c] = "identified"
    /\ registered' = {d \in registered : id[d] # id[c]} \cup {c}
    /\ status' = [status EXCEPT ![c] = "queued"]
    /\ pc' = [pc EXCEPT ![c] = "registered"]
    /\ UNCHANGED <<id, nextID, queue, started, error, artifact, acked,
                   workerVars, disk, restarts>>

(* Fault: a select with a default case drops the task of a full channel. *)
SendOrDrop(c) ==
    /\ pc[c] = "registered"
    /\ queue' = IF Len(queue) < QueueCap THEN Append(queue, c) ELSE queue
    /\ pc' = [pc EXCEPT ![c] = "sent"]
    /\ UNCHANGED <<id, nextID, registered, started, entryVars, workerVars,
                   disk, restarts>>

(* Fault: the channel grows without a limit. *)
SendUnbounded(c) ==
    /\ pc[c] = "registered"
    /\ queue' = Append(queue, c)
    /\ pc' = [pc EXCEPT ![c] = "sent"]
    /\ UNCHANGED <<id, nextID, registered, started, entryVars, workerVars,
                   disk, restarts>>

(* o.queue <- ent blocks while the channel is full. *)
Send(c) ==
    /\ pc[c] = "registered"
    /\ Len(queue) < QueueCap
    /\ queue' = Append(queue, c)
    /\ pc' = [pc EXCEPT ![c] = "sent"]
    /\ UNCHANGED <<id, nextID, registered, started, entryVars, workerVars,
                   disk, restarts>>

(* o.Start(), which launches the workers once, and the return of Submit. *)
Start(c) ==
    /\ pc[c] = "sent"
    /\ started' = TRUE
    /\ wpc' = IF started THEN wpc ELSE [w \in Workers |-> "idle"]
    /\ pc' = [pc EXCEPT ![c] = "returned"]
    /\ UNCHANGED <<id, nextID, registered, queue, entryVars, job, disk,
                   restarts>>

Submit(c) == Scan(c) \/ Identify(c) \/ Register(c) \/ Send(c) \/ Start(c)
-----------------------------------------------------------------------------
(* The worker loop *)

(* setStatus updates the entry the map holds under the id, if there is one. *)
WithStatus(i, s) ==
    [c \in Calls |-> IF c \in registered /\ id[c] = i THEN s ELSE status[c]]

Take(w) ==
    /\ wpc[w] = "idle"
    /\ queue # <<>>
    /\ job' = [job EXCEPT ![w] = Head(queue)]
    /\ queue' = Tail(queue)
    /\ wpc' = [wpc EXCEPT ![w] = "taken"]
    /\ UNCHANGED <<callVars, registered, started, entryVars, disk, restarts>>

SetRunning(w) ==
    /\ wpc[w] = "taken"
    /\ status' = WithStatus(id[job[w]], "running")
    /\ wpc' = [wpc EXCEPT ![w] = "running"]
    /\ UNCHANGED <<callVars, registered, queue, started, error, artifact,
                   acked, job, disk, restarts>>

(* Fault: the file is named after the newest id, not after the task's. *)
WrittenUnderNewestID(w, whole) ==
    {f \in disk : f.name # nextID}
      \cup {[name |-> nextID, by |-> job[w], whole |-> whole]}

(* Parsing, BuildReport or os.Create returns an error: no file is touched. *)
BuildFails(w) ==
    /\ wpc[w] = "running"
    /\ wpc' = [wpc EXCEPT ![w] = "failing"]
    /\ UNCHANGED <<callVars, registered, queue, started, entryVars, job, disk,
                   restarts>>

Written(w, whole) ==
    LET c == job[w]
    IN {f \in disk : f.name # id[c]}
         \cup {[name |-> id[c], by |-> c, whole |-> whole]}

(* os.Create truncates a file of that name. *)
CreateFile(w) ==
    /\ wpc[w] = "running"
    /\ disk' = Written(w, FALSE)
    /\ wpc' = [wpc EXCEPT ![w] = "rendering"]
    /\ UNCHANGED <<callVars, registered, queue, started, entryVars, job,
                   restarts>>

(* Fault: the error of Render is not looked at. *)
RenderErrorIgnored(w) ==
    /\ wpc[w] = "rendering"
    /\ wpc' = [wpc EXCEPT ![w] = "rendered"]
    /\ UNCHANGED <<callVars, registered, queue, started, entryVars, job, disk,
                   restarts>>

(* Render or Close returns an error: the partial file stays on disk. *)
RenderFails(w) ==
    /\ wpc[w] = "rendering"
    /\ wpc' = [wpc EXCEPT ![w] = "failing"]
    /\ UNCHANGED <<callVars, registered, queue, started, entryVars, job, disk,
                   restarts>>

RenderAndClose(w) ==
    /\ wpc[w] = "rendering"
    /\ disk' = Written(w, TRUE)
    /\ wpc' = [wpc EXCEPT ![w] = "rendered"]
    /\ UNCHANGED <<callVars, registered, queue, started, entryVars, job,
                   restarts>>

SetArtifact(w) ==
    /\ wpc[w] = "rendered"
    /\ artifact' = [artifact EXCEPT ![job[w]] = id[job[w]]]
    /\ wpc' = [wpc EXCEPT ![w] = "stored"]
    /\ UNCHANGED <<callVars, registered, queue, started, status, error, acked,
                   job, disk, restarts>>

SetDone(w) ==
    /\ wpc[w] = "stored"
    /\ status' = WithStatus(id[job[w]], "done")
    /\ wpc' = [wpc EXCEPT ![w] = "finishing"]
    /\ UNCHANGED <<callVars, registered, queue, started, error, artifact,
                   acked, job, disk, restarts>>

(* Fault: the error text is never stored. *)
SetFailedOnly(w) ==
    /\ wpc[w] = "failing"
    /\ status' = WithStatus(id[job[w]], "failed")
    /\ wpc' = [wpc EXCEPT ![w] = "finishing"]
    /\ UNCHANGED <<callVars, registered, queue, started, error, artifact,
                   acked, job, disk, restarts>>

SetFailed(w) ==
    /\ wpc[w] = "failing"
    /\ status' = WithStatus(id[job[w]], "failed")
    /\ wpc' = [wpc EXCEPT ![w] = "errored"]
    /\ UNCHANGED <<callVars, registered, queue, started, error, artifact,
                   acked, job, disk, restarts>>

(* Fault: a failure ends the worker's loop. *)
SetErrorAndExit(w) ==
    /\ wpc[w] = "errored"
    /\ error' = error \cup {job[w]}
    /\ job' = [job EXCEPT ![w] = None]
    /\ wpc' = [wpc EXCEPT ![w] = "absent"]
    /\ UNCHANGED <<callVars, registered, queue, started, status, artifact,
                   acked, disk, restarts>>

(* The error text is set in a second locked region. *)
SetError(w) ==
    /\ wpc[w] = "errored"
    /\ error' = error \cup {job[w]}
    /\ wpc' = [wpc EXCEPT ![w] = "finishing"]
    /\ UNCHANGED <<callVars, registered, queue, started, status, artifact,
                   acked, job, disk, restarts>>

Ack(w) ==
    /\ wpc[w] = "finishing"
    /\ acked' = acked \cup {job[w]}
    /\ job' = [job EXCEPT ![w] = None]
    /\ wpc' = [wpc EXCEPT ![w] = "idle"]
    /\ UNCHANGED <<callVars, registered, queue, started, status, error,
                   artifact, disk, restarts>>

Work(w) ==
    \/ Take(w) \/ SetRunning(w) \/ BuildFails(w) \/ CreateFile(w)
    \/ RenderFails(w) \/ RenderAndClose(w) \/ SetArtifact(w) \/ SetDone(w)
    \/ SetFailed(w) \/ SetError(w) \/ Ack(w)
-----------------------------------------------------------------------------
(* Fault: the started flag outlives the workers it stands for. *)
RestartStarted ==
    /\ restarts < MaxRestarts
    /\ restarts' = restarts + 1
    /\ pc' = [c \in Calls |-> IF pc[c] \in {"idle", "returned", "duplicate"}
                              THEN pc[c] ELSE "lost"]
    /\ status' = [c \in Calls |-> IF status[c] = "none" THEN "none" ELSE "lost"]
    /\ registered' = {}
    /\ queue' = <<>>
    /\ nextID' = 0
    /\ error' = {}
    /\ artifact' = [c \in Calls |-> 0]
    /\ acked' = {}
    /\ wpc' = [w \in Workers |-> "absent"]
    /\ job' = [w \in Workers |-> None]
    /\ UNCHANGED <<id, started, disk>>

(* The process dies and NewOrchestrator runs again: only the files stay. *)
Restart ==
    /\ restarts < MaxRestarts
    /\ restarts' = restarts + 1
    /\ pc' = [c \in Calls |-> IF pc[c] \in {"idle", "returned", "duplicate"}
                              THEN pc[c] ELSE "lost"]
    /\ status' = [c \in Calls |-> IF status[c] = "none" THEN "none" ELSE "lost"]
    /\ registered' = {}
    /\ queue' = <<>>
    /\ started' = FALSE
    /\ nextID' = 0
    /\ error' = {}
    /\ artifact' = [c \in Calls |-> 0]
    /\ acked' = {}
    /\ wpc' = [w \in Workers |-> "absent"]
    /\ job' = [w \in Workers |-> None]
    /\ UNCHANGED <<id, disk>>

Next ==
    \/ \E c \in Calls : Submit(c)
    \/ \E w \in Workers : Work(w)
    \/ Restart

Spec == Init /\ [][Next]_vars

(* The Go scheduler runs every goroutine that can run. *)
Fairness ==
    /\ \A c \in Calls : WF_vars(Submit(c))
    /\ \A w \in Workers : WF_vars(Work(w))

FairSpec == Spec /\ Fairness
-----------------------------------------------------------------------------
(* Properties *)

WorkbookOf(c) == [name |-> id[c], by |-> c, whole |-> TRUE]

(* A task reported done has an ArtifactPath, and the file there is the whole *)
(* workbook of this very task: exportDownload serves it without looking      *)
(* again, while other workers create, truncate and abandon files.            *)
DoneIsWhole ==
    \A c \in registered : status[c] = "done" =>
        /\ artifact[c] = id[c]
        /\ {f \in disk : f.name = id[c]} = {WorkbookOf(c)}

(* Wait returns the status it finds once acked is closed: that status is     *)
(* final and a failure carries its error text, although state and text are   *)
(* written in two locked regions.                                            *)
AckedIsFinal ==
    \A c \in acked :
        \/ status[c] = "done"
        \/ status[c] = "failed" /\ c \in error

Places(c) ==
    {<<"submit">> : x \in {TRUE} \cap {pc[c] = "registered"}}
      \cup {<<"queue", i>> : i \in {j \in 1..Len(queue) : queue[j] = c}}
      \cup {<<"worker", w>> : w \in {v \in Workers : job[v] = c}}
      \cup {<<"finished">> : x \in {c} \cap acked}

(* Every accepted task is in exactly one place: with the Submit call about   *)
(* to send it, once in the channel, with one worker, or finished.  None is   *)
(* lost when the channel is full, none is executed twice.                    *)
InOnePlace == \A c \in registered : Cardinality(Places(c)) = 1

(* Submit sends before it calls Start.  Whenever a task waits in the channel *)
(* there are workers, or a Submit that will launch them: a full channel can  *)
(* never leave every Submit blocked with no worker to drain it.              *)
WorkIsServed ==
    queue # <<>> =>
        \/ \E w \in Workers : wpc[w] # "absent"
        \/ \E c \in Calls : pc[c] = "sent"

(* Two concurrent calls of Submit never get the same task id, so neither     *)
(* drops the other's entry from the map: an entry stays until the process    *)
(* ends.                                                                     *)
EntriesStay == [][registered \subseteq registered' \/ restarts' # restarts]_vars

Lifecycle ==
    INSTANCE TaskLifecycle WITH
        Tasks <- Calls,
        Loads <- {S \in SUBSET Calls : Cardinality(S) <= Cardinality(Workers)},
        state <- status,
        delivered <- {c \in registered : /\ status[c] = "done"
                                         /\ WorkbookOf(c) \in disk}

(* The queue and its workers implement the promised life of a task.          *)
ImplementsLifecycle == Lifecycle!Spec

(* Unless the process restarts, every call of Submit that passed the scan    *)
(* has its task executed and acknowledged, even when it first blocks on a    *)
(* full channel, even when tasks before it fail, and in a restarted process  *)
(* as in the first.                                                          *)
EventuallyAcked ==
    \A c \in Calls, n \in 0..MaxRestarts :
        (pc[c] = "scanned" /\ restarts = n) ~> (c \in acked \/ restarts > n)

(* A poller may see a failed task without its error text, but not for ever,  *)
(* unless a restart forgets the task.                                        *)
FailureIsExplained ==
    \A c \in Calls :
        status[c] = "failed" ~> (c \in error \/ status[c] = "lost")

(* The idempotency key keeps a report from being exported twice (design      *)
(* document, section 15).  Refuted: the scan and the insertion are two       *)
(* locked regions.                                                           *)
OneTaskPerKey ==
    \A c, d \in registered : KeyOf[c] = KeyOf[d] /\ KeyOf[c] # NoKey => c = d
=============================================================================
