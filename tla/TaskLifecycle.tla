--------------------------- MODULE TaskLifecycle ---------------------------
(***************************************************************************)
(* What the export service promises about a task, whatever its queue and   *)
(* its workers do: a task is accepted once, begins once, ends once, never  *)
(* leaves its final state while the process lives, only so many tasks run  *)
(* at a time, and a task reported done has its own whole workbook on disk. *)
(* A restart of the process forgets every task.  Orchestrator implements   *)
(* this specification.                                                     *)
(***************************************************************************)
CONSTANTS
    Tasks,      \* the export tasks
    Loads       \* the sets of tasks that may run at the same time

VARIABLES
    state,      \* state[t]: where task t is in its life
    delivered   \* the tasks whose whole workbook a client can download

vars == <<state, delivered>>

TaskStates == {"none", "queued", "running", "done", "failed", "lost"}

RunningTasks == {t \in Tasks : state[t] = "running"}

TypeOK ==
    /\ state \in [Tasks -> TaskStates]
    /\ delivered \subseteq {t \in Tasks : state[t] = "done"}

Init ==
    /\ state = [t \in Tasks |-> "none"]
    /\ delivered = {}

Accept(t) ==
    /\ state[t] = "none"
    /\ state' = [state EXCEPT ![t] = "queued"]
    /\ UNCHANGED delivered

Begin(t) ==
    /\ state[t] = "queued"
    /\ RunningTasks \cup {t} \in Loads
    /\ state' = [state EXCEPT ![t] = "running"]
    /\ UNCHANGED delivered

Succeed(t) ==
    /\ state[t] = "running"
    /\ state' = [state EXCEPT ![t] = "done"]
    /\ delivered' = delivered \cup {t}

Fail(t) ==
    /\ state[t] = "running"
    /\ state' = [state EXCEPT ![t] = "failed"]
    /\ UNCHANGED delivered

Forget ==
    /\ state' = [t \in Tasks |-> IF state[t] = "none" THEN "none" ELSE "lost"]
    /\ delivered' = {}

Next ==
    \/ \E t \in Tasks : Accept(t) \/ Begin(t) \/ Succeed(t) \/ Fail(t)
    \/ Forget

Spec == Init /\ [][Next]_vars
=============================================================================
