---------------------------- MODULE ExportService ----------------------------
(***************************************************************************)
(* Exports from end to end: the export buttons of the editor               *)
(* (web/src/components/ExportButton.tsx) against the export handlers of    *)
(* internal/httpapi, which take the published definition from the cache    *)
(* and hand it to the queue.  The queue is TaskLifecycle, the              *)
(* specification that Orchestrator implements; the cache answers with any  *)
(* version that was published (PublishedCache).                            *)
(*                                                                         *)
(* A button submits an export and polls its status with an interval timer. *)
(* Submissions, status requests and their answers take their time and may  *)
(* be lost; the server may restart, forgets its tasks and counts their ids *)
(* from 1 again; other clients publish and export.                         *)
(***************************************************************************)
EXTENDS Integers, FiniteSets

CONSTANTS
    Buttons,      \* the mounted export buttons
    MaxClicks,    \* bound on the clicks on each
    Others,       \* the exports of other clients
    Workers,      \* the number of workers
    MaxVersion,   \* bound on the versions published
    MaxRestarts   \* bound on the restarts of the server

Clicks == Buttons \X (1..MaxClicks)
Exports == Clicks \cup Others

ASSUME ExportServiceAssumption ==
    /\ MaxClicks \in Nat /\ MaxVersion \in Nat \ {0} /\ MaxRestarts \in Nat
    /\ Workers \in Nat \ {0}
    /\ Clicks \cap Others = {}

VARIABLES
    published,    \* the newest published version
    task,         \* the state of each export in the queue
    delivered,    \* the exports whose workbook can be downloaded
    id,           \* the task id of each export, 0 before it is accepted
    version,      \* the version that each click's export was bound to
    book,         \* the version that its workbook was built from
    count,        \* the number of task ids given by this process
    restarts,     \* how often the server was restarted
    call,         \* the submission of each click
    mounted,      \* the buttons on a page; ~cancelledRef
    taskId,       \* the button's taskId, 0 for null
    progress,     \* whether its progress is not null
    state,        \* its state
    timer,        \* the task its interval polls, 0 when it has none
    polling,      \* pollingRef
    status,       \* its status request: <<how far, task id or answer>>
    overlapped    \* history: buttons clicked before they settled

queueVars == <<task, delivered>>
serverVars == <<published, queueVars, id, version, book, count, restarts>>
buttonVars == <<mounted, taskId, progress, state, timer, polling, status, overlapped>>
vars == <<serverVars, call, buttonVars>>

Queue == INSTANCE TaskLifecycle
         WITH Tasks <- Exports, state <- task,
              Loads <- {S \in SUBSET Exports : Cardinality(S) <= Workers}

Final == {"done", "failed"}
NoRequest == <<"none", 0>>

Requests ==
    {NoRequest} \cup ({"asked"} \X Nat) \cup ({"told"} \X (Queue!TaskStates \cup {"missing"}))

ServerTypes ==
    /\ task \in [Exports -> Queue!TaskStates]
    /\ delivered \subseteq Exports
    /\ published \in Nat /\ count \in Nat /\ restarts \in Nat
    /\ id \in [Exports -> Nat]
    /\ version \in [Clicks -> Nat]
    /\ book \in [Clicks -> Nat]

ButtonTypes ==
    /\ mounted \subseteq Buttons
    /\ taskId \in [Buttons -> Nat]
    /\ progress \in [Buttons -> BOOLEAN]
    /\ state \in [Buttons -> {""} \cup Queue!TaskStates]
    /\ timer \in [Buttons -> Nat]
    /\ polling \in [Buttons -> BOOLEAN]
    /\ status \in [Buttons -> Requests]
    /\ overlapped \subseteq Buttons

TypeOK ==
    /\ ServerTypes
    /\ call \in [Clicks -> {"idle", "sent", "accepted", "refused", "answered"}]
    /\ ButtonTypes

Init ==
    /\ published = 1
    /\ Queue!Init
    /\ id = [e \in Exports |-> 0]
    /\ version = [c \in Clicks |-> 0]
    /\ book = [c \in Clicks |-> 0]
    /\ count = 0
    /\ restarts = 0
    /\ call = [c \in Clicks |-> "idle"]
    /\ mounted = Buttons
    /\ taskId = [b \in Buttons |-> 0]
    /\ progress = [b \in Buttons |-> FALSE]
    /\ state = [b \in Buttons |-> ""]
    /\ timer = [b \in Buttons |-> 0]
    /\ polling = [b \in Buttons |-> FALSE]
    /\ status = [b \in Buttons |-> NoRequest]
    /\ overlapped = {}
-----------------------------------------------------------------------------
(* The server *)

(* The export whose task has this id in the running process. *)
Named(i) == {e \in Exports : id[e] = i /\ i > 0 /\ task[e] \notin {"none", "lost"}}

(* Submit: the next id of this process. *)
Accept(e) ==
    /\ Queue!Accept(e)
    /\ count' = count + 1
    /\ id' = [id EXCEPT ![e] = count + 1]
    /\ UNCHANGED <<published, book, restarts>>

(* loadDef: a version that is or was the newest, the cache may be behind. *)
Loadable == 1..published

(* export: the definition, its version and the task are fixed together. *)
Export(c) ==
    /\ call[c] = "sent"
    /\ Accept(c)
    /\ \E v \in Loadable : version' = [version EXCEPT ![c] = v]
    /\ call' = [call EXCEPT ![c] = "accepted"]
    /\ UNCHANGED buttonVars

(* Another client's export, which takes an id and a worker. *)
OtherExport ==
    /\ \E e \in Others : Accept(e)
    /\ UNCHANGED <<version, call, buttonVars>>

Begin(e) ==
    /\ Queue!Begin(e)
    /\ UNCHANGED <<published, id, version, book, count, restarts, call, buttonVars>>

(* Fault: the definition is looked up when the task runs. *)
NewestDefinition(c) == published

(* The definition that the request carries. *)
RequestedDefinition(c) == version[c]

End(e) ==
    /\ \/ /\ Queue!Succeed(e)
          /\ book' = [c \in Clicks |-> IF c = e THEN RequestedDefinition(c) ELSE book[c]]
       \/ Queue!Fail(e) /\ UNCHANGED book
    /\ UNCHANGED <<published, id, version, count, restarts, call, buttonVars>>

Publish ==
    /\ published < MaxVersion
    /\ published' = published + 1
    /\ UNCHANGED <<queueVars, id, version, book, count, restarts, call, buttonVars>>

Restart ==
    /\ restarts < MaxRestarts
    /\ restarts' = restarts + 1
    /\ Queue!Forget
    /\ count' = 0
    /\ version' = [c \in Clicks |-> 0]
    /\ book' = [c \in Clicks |-> 0]
    /\ UNCHANGED <<published, id, call, buttonVars>>

(* exportStatus *)
Status(b) ==
    /\ status[b][1] = "asked"
    /\ status' = [status EXCEPT ![b] =
         <<"told", IF Named(@[2]) = {} THEN "missing"
                   ELSE task[CHOOSE e \in Named(@[2]) : TRUE]>>]
    /\ UNCHANGED <<serverVars, call, mounted, taskId, progress, state, timer, polling,
                   overlapped>>
-----------------------------------------------------------------------------
(* The network: a fetch that fails is an exception in the page. *)

(* Lost before or after the handler ran, or refused by it. *)
LoseSubmission(c) ==
    /\ call[c] \in {"sent", "accepted"}
    /\ call' = [call EXCEPT ![c] = "refused"]
    /\ UNCHANGED <<serverVars, buttonVars>>

LoseStatus(b) ==
    /\ status[b][1] \in {"asked", "told"}
    /\ status[b] # <<"told", "missing">>
    /\ status' = [status EXCEPT ![b] = <<"told", "missing">>]
    /\ UNCHANGED <<serverVars, call, mounted, taskId, progress, state, timer, polling,
                   overlapped>>
-----------------------------------------------------------------------------
(* The button *)

Busy(b) == progress[b] /\ state[b] \notin Final

Pending(b) == {c \in Clicks : c[1] = b /\ call[c] \in {"sent", "accepted", "refused"}}

(* No submission, interval or status request of the button is under way. *)
Settled(b) == Pending(b) = {} /\ timer[b] = 0 /\ status[b] = NoRequest

(* start, up to the request.  A button is not busy before its submission is  *)
(* answered, nor after it as long as it still says what became of its last   *)
(* export, so that it can be clicked again.                                  *)
Click(b, n) ==
    /\ b \in mounted
    /\ ~Busy(b)
    /\ call[<<b, n>>] = "idle"
    /\ \A m \in 1..n - 1 : call[<<b, m>>] # "idle"
    /\ call' = [call EXCEPT ![<<b, n>>] = "sent"]
    /\ overlapped' = IF Settled(b) THEN overlapped ELSE overlapped \cup {b}
    /\ UNCHANGED <<serverVars, mounted, taskId, progress, state, timer, polling, status>>

(* Fault: the polling begins although the page is gone. *)
SubmittedUnchecked(c) ==
    LET b == c[1]
    IN /\ call[c] = "accepted"
       /\ call' = [call EXCEPT ![c] = "answered"]
       /\ taskId' = [taskId EXCEPT ![b] = id[c]]
       /\ progress' = [progress EXCEPT ![b] = TRUE]
       /\ timer' = [timer EXCEPT ![b] = id[c]]
       /\ UNCHANGED <<serverVars, mounted, state, polling, status, overlapped>>

(* Fault: the polling begins only while no export is done. *)
SubmittedOnce(c) ==
    LET b == c[1]
    IN /\ call[c] = "accepted"
       /\ call' = [call EXCEPT ![c] = "answered"]
       /\ IF b \in mounted
          THEN /\ taskId' = [taskId EXCEPT ![b] = id[c]]
               /\ progress' = [progress EXCEPT ![b] = TRUE]
               /\ timer' = IF state[b] = "done" THEN timer
                           ELSE [timer EXCEPT ![b] = id[c]]
          ELSE UNCHANGED <<taskId, progress, timer>>
       /\ UNCHANGED <<serverVars, mounted, state, polling, status, overlapped>>

(* start, after the answer: the interval is set anew, the state stays.       *)
Submitted(c) ==
    LET b == c[1]
    IN /\ call[c] = "accepted"
       /\ call' = [call EXCEPT ![c] = "answered"]
       /\ IF b \in mounted
          THEN /\ taskId' = [taskId EXCEPT ![b] = id[c]]
               /\ progress' = [progress EXCEPT ![b] = TRUE]
               /\ timer' = [timer EXCEPT ![b] = id[c]]
          ELSE UNCHANGED <<taskId, progress, timer>>
       /\ UNCHANGED <<serverVars, mounted, state, polling, status, overlapped>>

(* An interval of an earlier export goes on. *)
SubmitFails(c) ==
    LET b == c[1]
    IN /\ call[c] = "refused"
       /\ call' = [call EXCEPT ![c] = "answered"]
       /\ state' = IF b \in mounted THEN [state EXCEPT ![b] = "failed"] ELSE state
       /\ UNCHANGED <<serverVars, mounted, taskId, progress, timer, polling, status,
                      overlapped>>

(* The interval: one request at a time. *)
Tick(b) ==
    /\ timer[b] # 0
    /\ ~polling[b]
    /\ polling' = [polling EXCEPT ![b] = TRUE]
    /\ status' = [status EXCEPT ![b] = <<"asked", timer[b]>>]
    /\ UNCHANGED <<serverVars, call, mounted, taskId, progress, state, timer, overlapped>>

(* Fault: the guard is not released while the task goes on. *)
PolledOnce(b) ==
    LET st == IF status[b][2] = "missing" THEN "failed" ELSE status[b][2]
    IN /\ status[b][1] = "told"
       /\ status' = [status EXCEPT ![b] = NoRequest]
       /\ polling' = [polling EXCEPT ![b] = st \notin Final]
       /\ IF b \in mounted
          THEN /\ state' = [state EXCEPT ![b] = st]
               /\ progress' = [progress EXCEPT ![b] = @ \/ status[b][2] # "missing"]
               /\ timer' = IF st \in Final THEN [timer EXCEPT ![b] = 0] ELSE timer
          ELSE UNCHANGED <<state, progress, timer>>
       /\ UNCHANGED <<serverVars, call, mounted, taskId, overlapped>>

(* An answer, of whichever task was polled when it was asked.                *)
Polled(b) ==
    LET st == IF status[b][2] = "missing" THEN "failed" ELSE status[b][2]
    IN /\ status[b][1] = "told"
       /\ status' = [status EXCEPT ![b] = NoRequest]
       /\ polling' = [polling EXCEPT ![b] = FALSE]
       /\ IF b \in mounted
          THEN /\ state' = [state EXCEPT ![b] = st]
               /\ progress' = [progress EXCEPT ![b] = @ \/ status[b][2] # "missing"]
               /\ timer' = IF st \in Final THEN [timer EXCEPT ![b] = 0] ELSE timer
          ELSE UNCHANGED <<state, progress, timer>>
       /\ UNCHANGED <<serverVars, call, mounted, taskId, overlapped>>

Unmount(b) ==
    /\ b \in mounted
    /\ mounted' = mounted \ {b}
    /\ timer' = [timer EXCEPT ![b] = 0]
    /\ UNCHANGED <<serverVars, call, taskId, progress, state, polling, status, overlapped>>
-----------------------------------------------------------------------------
Next ==
    \/ \E c \in Clicks : Export(c) \/ LoseSubmission(c) \/ Submitted(c) \/ SubmitFails(c)
    \/ OtherExport
    \/ \E e \in Exports : Begin(e) \/ End(e)
    \/ Publish \/ Restart
    \/ \E b \in Buttons :
         \/ Status(b) \/ LoseStatus(b) \/ Tick(b) \/ Polled(b) \/ Unmount(b)
         \/ \E n \in 1..MaxClicks : Click(b, n)

(* The queue runs what it accepted, the intervals fire, and every request    *)
(* is answered or fails.                                                     *)
Fairness ==
    /\ \A e \in Exports : WF_vars(Begin(e)) /\ WF_vars(End(e))
    /\ \A b \in Buttons : WF_vars(Tick(b)) /\ WF_vars(Status(b)) /\ WF_vars(Polled(b))

Spec == Init /\ [][Next]_vars /\ Fairness
-----------------------------------------------------------------------------
(* The export a button's link leads to while the server runs that accepted   *)
(* it; after a restart the id may be nobody's or another client's.           *)
Current(b) == {c \in Clicks : c[1] = b /\ c \in Named(taskId[b])}

(* What a button downloads is its own export and nobody else's, built from   *)
(* the version that was answered when it was submitted, whatever is          *)
(* published while the task waits.  Only a restart can give its id away.     *)
OwnWorkbook ==
    \A b \in Buttons :
        /\ taskId[b] # 0 /\ restarts = 0 => Named(taskId[b]) = Current(b)
        /\ \A c \in Current(b) : task[c] = "done" => book[c] = version[c]

(* When a button has settled, a link it shows works: the task it leads to is *)
(* done, provided the server was not restarted and the button was never      *)
(* clicked before it had settled (then an answer about the first export can  *)
(* stop the polling of the second).                                          *)
SettledLinkWorks ==
    \A b \in mounted \ overlapped :
        (/\ restarts = 0
         /\ state[b] = "done" /\ taskId[b] # 0
         /\ Settled(b)) =>
            Named(taskId[b]) \subseteq delivered

(* No interval survives its button, not even when the page is left while     *)
(* the submission or a status request is under way.                          *)
NoTimerLeaks == \A b \in Buttons : timer[b] # 0 => b \in mounted

(* A button does not stay busy: its export ends, fails, or is found missing  *)
(* after a restart, and the polling finds out.                               *)
BusyEnds == \A b \in Buttons : Busy(b) ~> (~Busy(b) \/ b \notin mounted)
=============================================================================
