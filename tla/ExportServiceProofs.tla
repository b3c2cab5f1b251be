------------------------ MODULE ExportServiceProofs ------------------------
(***************************************************************************)
(* Theorems about ExportService, for any number of buttons, clicks, other  *)
(* clients, versions and restarts.                                         *)
(***************************************************************************)
EXTENDS ExportService, TLAPS

LEMMA ClicksAreExports ==
    /\ Clicks \subseteq Exports
    /\ \A c \in Clicks : c[1] \in Buttons
  BY DEF Exports, Clicks

CallStates == {"idle", "sent", "accepted", "refused", "answered"}

LEMMA ServerTypesStay ==
    ASSUME ServerTypes, [Next]_vars
    PROVE  ServerTypes'
  <1>1. ASSUME NEW c \in Clicks, Export(c)
        PROVE  ServerTypes'
    <2>1. PICK v \in 1..published : version' = [version EXCEPT ![c] = v]
      BY <1>1 DEF Export, Loadable
    <2>2. version' \in [Clicks -> Nat]
      BY <2>1 DEF ServerTypes
    <2> QED
      BY <1>1, <2>2, ClicksAreExports
      DEF Export, Accept, Queue!Accept, Queue!TaskStates, ServerTypes
  <1>2. ASSUME NEW e \in Others, Accept(e), version' = version
        PROVE  ServerTypes'
    <2>1. e \in Exports
      BY DEF Exports
    <2> QED
      BY <1>2, <2>1 DEF Accept, Queue!Accept, Queue!TaskStates, ServerTypes
  <1>3. ASSUME NEW e \in Exports, Begin(e)
        PROVE  ServerTypes'
    BY <1>3 DEF Begin, Queue!Begin, Queue!TaskStates, ServerTypes
  <1>4. ASSUME NEW e \in Exports, End(e)
        PROVE  ServerTypes'
    <2>1. book' \in [Clicks -> Nat]
      BY <1>4 DEF End, RequestedDefinition, ServerTypes
    <2>2. task' \in [Exports -> Queue!TaskStates] /\ delivered' \subseteq Exports
      BY <1>4 DEF End, Queue!Succeed, Queue!Fail, Queue!TaskStates, ServerTypes
    <2> QED  BY <1>4, <2>1, <2>2 DEF End, ServerTypes
  <1>5. CASE Publish
    BY <1>5 DEF Publish, queueVars, ServerTypes
  <1>6. CASE Restart
    BY <1>6 DEF Restart, Queue!Forget, Queue!TaskStates, ServerTypes
  <1>7. CASE UNCHANGED serverVars
    BY <1>7 DEF serverVars, queueVars, ServerTypes
  <1>8. ASSUME NEW c \in Clicks, LoseSubmission(c) \/ Submitted(c) \/ SubmitFails(c)
        PROVE  UNCHANGED serverVars
    BY <1>8 DEF LoseSubmission, Submitted, SubmitFails
  <1>9. ASSUME NEW b \in Buttons,
               \/ Status(b) \/ LoseStatus(b) \/ Tick(b) \/ Polled(b) \/ Unmount(b)
               \/ \E n \in 1..MaxClicks : Click(b, n)
        PROVE  UNCHANGED serverVars
    BY <1>9 DEF Status, LoseStatus, Tick, Polled, Unmount, Click
  <1>10. UNCHANGED vars => UNCHANGED serverVars
    BY DEF vars
  <1> QED
    BY <1>1, <1>2, <1>3, <1>4, <1>5, <1>6, <1>7, <1>8, <1>9, <1>10 DEF Next, OtherExport

LEMMA CallTypesStay ==
    ASSUME call \in [Clicks -> CallStates], [Next]_vars
    PROVE  call' \in [Clicks -> CallStates]
  <1>1. ASSUME NEW c \in Clicks, Export(c) \/ LoseSubmission(c) \/ Submitted(c) \/ SubmitFails(c)
        PROVE  call' \in [Clicks -> CallStates]
    BY <1>1 DEF Export, LoseSubmission, Submitted, SubmitFails, CallStates
  <1>2. ASSUME NEW b \in Buttons, NEW n \in 1..MaxClicks, Click(b, n)
        PROVE  call' \in [Clicks -> CallStates]
    BY <1>2 DEF Click, CallStates
  <1>3. ASSUME NEW b \in Buttons,
               Status(b) \/ LoseStatus(b) \/ Tick(b) \/ Polled(b) \/ Unmount(b)
        PROVE  call' = call
    BY <1>3 DEF Status, LoseStatus, Tick, Polled, Unmount
  <1>4. ASSUME NEW e \in Exports, Begin(e) \/ End(e)
        PROVE  call' = call
    BY <1>4 DEF Begin, End
  <1>5. ASSUME OtherExport \/ Publish \/ Restart \/ UNCHANGED vars
        PROVE  call' = call
    BY <1>5 DEF OtherExport, Publish, Restart, vars
  <1> QED  BY <1>1, <1>2, <1>3, <1>4, <1>5 DEF Next

LEMMA ButtonTypesStay ==
    ASSUME ServerTypes, ButtonTypes, [Next]_vars
    PROVE  ButtonTypes'
  <1>1. ASSUME NEW c \in Clicks, Submitted(c)
        PROVE  ButtonTypes'
    <2>1. c[1] \in Buttons /\ id[c] \in Nat
      BY ClicksAreExports DEF ServerTypes
    <2>2. taskId' \in [Buttons -> Nat] /\ timer' \in [Buttons -> Nat]
      BY <1>1, <2>1 DEF Submitted, ButtonTypes
    <2>3. progress' \in [Buttons -> BOOLEAN]
      BY <1>1 DEF Submitted, ButtonTypes
    <2> QED  BY <1>1, <2>2, <2>3 DEF Submitted, ButtonTypes
  <1>2. ASSUME NEW c \in Clicks, SubmitFails(c)
        PROVE  ButtonTypes'
    <2>1. state' \in [Buttons -> {""} \cup Queue!TaskStates]
      BY <1>2 DEF SubmitFails, Queue!TaskStates, ButtonTypes
    <2> QED  BY <1>2, <2>1 DEF SubmitFails, ButtonTypes
  <1>3. ASSUME NEW b \in Buttons, Polled(b)
        PROVE  ButtonTypes'
    <2> DEFINE st == IF status[b][2] = "missing" THEN "failed" ELSE status[b][2]
    <2>1. status[b] \in {"told"} \X (Queue!TaskStates \cup {"missing"})
      <3>1. status[b] \in Requests /\ status[b][1] = "told"
        BY <1>3 DEF Polled, ButtonTypes
      <3> QED  BY <3>1 DEF Requests, NoRequest
    <2>2. st \in Queue!TaskStates
      BY <2>1 DEF Queue!TaskStates
    <2>3. state' = IF b \in mounted THEN [state EXCEPT ![b] = st] ELSE state
      BY <1>3 DEF Polled
    <2> HIDE DEF st
    <2>4. state' \in [Buttons -> {""} \cup Queue!TaskStates]
      BY <2>2, <2>3 DEF ButtonTypes
    <2>5. status' \in [Buttons -> Requests]
      BY <1>3 DEF Polled, Requests, ButtonTypes
    <2>6. progress' \in [Buttons -> BOOLEAN] /\ polling' \in [Buttons -> BOOLEAN]
      <3>1. polling' \in [Buttons -> BOOLEAN]
        BY <1>3 DEF Polled, ButtonTypes
      <3>2. progress' = IF b \in mounted
                        THEN [progress EXCEPT ![b] = @ \/ status[b][2] # "missing"]
                        ELSE progress
        BY <1>3 DEF Polled
      <3>3. [progress EXCEPT ![b] = @ \/ status[b][2] # "missing"] \in [Buttons -> BOOLEAN]
        BY Zenon DEF ButtonTypes
      <3> QED  BY <3>1, <3>2, <3>3 DEF ButtonTypes
    <2>7. timer' \in [Buttons -> Nat]
      <3>1. timer' = timer \/ timer' = [timer EXCEPT ![b] = 0]
        BY <1>3, Zenon DEF Polled
      <3>2. timer \in [Buttons -> Nat]
        BY DEF ButtonTypes
      <3>3. 0 \in Nat
        OBVIOUS
      <3> QED  BY <3>1, <3>2, <3>3, Zenon
    <2>8. UNCHANGED <<mounted, taskId, overlapped>>
      BY <1>3 DEF Polled
    <2> QED  BY <2>4, <2>5, <2>6, <2>7, <2>8 DEF ButtonTypes
  <1>4. ASSUME NEW b \in Buttons, Status(b)
         PROVE  ButtonTypes'
    <2> DEFINE i == status[b][2]
               answer == IF Named(i) = {} THEN "missing"
                         ELSE task[CHOOSE e \in Named(i) : TRUE]
    <2>1. status' = [status EXCEPT ![b] = <<"told", answer>>]
      BY <1>4 DEF Status
    <2>2. answer \in Queue!TaskStates \cup {"missing"}
      <3>1. Named(i) # {} => (CHOOSE e \in Named(i) : TRUE) \in Exports
        BY DEF Named
      <3> QED  BY <3>1 DEF ServerTypes
    <2> HIDE DEF answer
    <2>3. status' \in [Buttons -> Requests]
      BY <2>1, <2>2 DEF ButtonTypes, Requests
    <2> QED  BY <1>4, <2>3 DEF Status, ButtonTypes
  <1>5. ASSUME NEW b \in Buttons, LoseStatus(b) \/ Tick(b)
         PROVE  ButtonTypes'
    <2>1. status' \in [Buttons -> Requests]
      <3>1. <<"told", "missing">> \in Requests /\ <<"asked", timer[b]>> \in Requests
        BY DEF Requests, ButtonTypes
      <3>2. \/ status' = [status EXCEPT ![b] = <<"told", "missing">>]
            \/ status' = [status EXCEPT ![b] = <<"asked", timer[b]>>]
        BY <1>5 DEF LoseStatus, Tick
      <3> QED  BY <3>1, <3>2 DEF ButtonTypes
    <2>2. polling' \in [Buttons -> BOOLEAN]
      BY <1>5 DEF LoseStatus, Tick, ButtonTypes
    <2> QED
      BY <1>5, <2>1, <2>2 DEF LoseStatus, Tick, ButtonTypes
  <1>6. ASSUME NEW b \in Buttons, Unmount(b) \/ \E n \in 1..MaxClicks : Click(b, n)
         PROVE  ButtonTypes'
    <2>1. CASE Unmount(b)
      BY <2>1 DEF Unmount, ButtonTypes
    <2>2. ASSUME NEW n \in 1..MaxClicks, Click(b, n)
          PROVE  ButtonTypes'
      BY <2>2 DEF Click, ButtonTypes
    <2> QED  BY <1>6, <2>1, <2>2
  <1>7. CASE UNCHANGED buttonVars
    BY <1>7 DEF buttonVars, ButtonTypes
  <1>8. ASSUME NEW c \in Clicks, Export(c) \/ LoseSubmission(c)
        PROVE  UNCHANGED buttonVars
    BY <1>8 DEF Export, LoseSubmission
  <1>9. ASSUME NEW e \in Exports, Begin(e) \/ End(e)
        PROVE  UNCHANGED buttonVars
    BY <1>9 DEF Begin, End
  <1>10. ASSUME OtherExport \/ Publish \/ Restart \/ UNCHANGED vars
         PROVE  UNCHANGED buttonVars
    BY <1>10 DEF OtherExport, Publish, Restart, vars
  <1> QED
    BY <1>1, <1>2, <1>3, <1>4, <1>5, <1>6, <1>7, <1>8, <1>9, <1>10 DEF Next

LEMMA TypesStay ==
    ASSUME TypeOK, [Next]_vars
    PROVE  TypeOK'
  BY ServerTypesStay, CallTypesStay, ButtonTypesStay DEF TypeOK, CallStates
-----------------------------------------------------------------------------
(* No interval outlives its button.                                          *)

LEMMA TimersStayMounted ==
    ASSUME TypeOK, NoTimerLeaks, [Next]_vars
    PROVE  NoTimerLeaks'
  <1>1. ASSUME NEW c \in Clicks, Submitted(c)
        PROVE  NoTimerLeaks'
    <2>1. c[1] \in Buttons
      BY ClicksAreExports
    <2> QED  BY <1>1, <2>1 DEF Submitted, TypeOK, ServerTypes, ButtonTypes, NoTimerLeaks
  <1>2. ASSUME NEW b \in Buttons, Polled(b) \/ Unmount(b)
        PROVE  NoTimerLeaks'
    BY <1>2 DEF Polled, Unmount, TypeOK, ServerTypes, ButtonTypes, NoTimerLeaks
  <1>3. CASE UNCHANGED <<timer, mounted>>
    BY <1>3 DEF NoTimerLeaks
  <1>4. ASSUME NEW c \in Clicks, Export(c) \/ LoseSubmission(c) \/ SubmitFails(c)
        PROVE  UNCHANGED <<timer, mounted>>
    BY <1>4 DEF Export, LoseSubmission, SubmitFails, buttonVars
  <1>5. ASSUME NEW e \in Exports, Begin(e) \/ End(e)
        PROVE  UNCHANGED <<timer, mounted>>
    BY <1>5 DEF Begin, End, buttonVars
  <1>6. ASSUME OtherExport \/ Publish \/ Restart \/ UNCHANGED vars
        PROVE  UNCHANGED <<timer, mounted>>
    BY <1>6 DEF OtherExport, Publish, Restart, vars, buttonVars
  <1>7. ASSUME NEW b \in Buttons,
               Status(b) \/ LoseStatus(b) \/ Tick(b) \/ \E n \in 1..MaxClicks : Click(b, n)
        PROVE  UNCHANGED <<timer, mounted>>
    BY <1>7 DEF Status, LoseStatus, Tick, Click
  <1> QED
    BY <1>1, <1>2, <1>3, <1>4, <1>5, <1>6, <1>7 DEF Next
-----------------------------------------------------------------------------
(* A button's link leads to its own export.                                  *)

(* While the process lives no two exports share an id, an export that was    *)
(* not accepted has none, and a button's id is that of one of its clicks.    *)
OwnIds ==
    restarts = 0 =>
        /\ \A e \in Exports : id[e] <= count
        /\ \A e \in Exports : task[e] = "none" => id[e] = 0
        /\ \A e, f \in Exports : id[e] = id[f] /\ id[e] # 0 => e = f
        /\ \A b \in Buttons : taskId[b] # 0 =>
             \E c \in Clicks : c[1] = b /\ id[c] = taskId[b]

(* A finished workbook was built from the version the export was bound to.   *)
OwnVersion == \A c \in Clicks : task[c] = "done" => book[c] = version[c]

LEMMA AcceptKeepsOwnIds ==
    ASSUME TypeOK, OwnIds, NEW e \in Exports, Accept(e), UNCHANGED taskId
    PROVE  OwnIds'
  <1>1. /\ task[e] = "none"
        /\ task' = [task EXCEPT ![e] = "queued"]
        /\ count' = count + 1 /\ restarts' = restarts
        /\ id' = [id EXCEPT ![e] = count + 1]
    BY DEF Accept, Queue!Accept
  <1> SUFFICES ASSUME restarts = 0
               PROVE  OwnIds'
    BY <1>1 DEF OwnIds
  <1>2. id[e] = 0 /\ \A f \in Exports : id[f] <= count /\ id[f] \in Nat
    BY <1>1 DEF OwnIds, TypeOK, ServerTypes, ButtonTypes
  <1>3. id'[e] = count + 1 /\ \A f \in Exports \ {e} : id'[f] = id[f]
    BY <1>1 DEF TypeOK, ServerTypes, ButtonTypes
  <1>4. count \in Nat
    BY DEF TypeOK, ServerTypes, ButtonTypes
  <1>5. \A f \in Exports : id'[f] <= count'
    BY <1>1, <1>2, <1>3, <1>4
  <1>6. \A f \in Exports : task'[f] = "none" => id'[f] = 0
    BY <1>1, <1>3 DEF OwnIds, TypeOK, ServerTypes, ButtonTypes
  <1>7. \A f, g \in Exports : id'[f] = id'[g] /\ id'[f] # 0 => f = g
    <2> SUFFICES ASSUME NEW f \in Exports, NEW g \in Exports,
                        id'[f] = id'[g], id'[f] # 0, f # g
                 PROVE  FALSE
      OBVIOUS
    <2>1. CASE f # e /\ g # e
      BY <2>1, <1>3 DEF OwnIds
    <2>2. CASE f = e \/ g = e
      BY <2>2, <1>2, <1>3, <1>4
    <2> QED  BY <2>1, <2>2
  <1>8. ASSUME NEW b \in Buttons, taskId'[b] # 0
        PROVE  \E c \in Clicks : c[1] = b /\ id'[c] = taskId'[b]
    <2>1. PICK c \in Clicks : c[1] = b /\ id[c] = taskId[b]
      BY <1>8 DEF OwnIds
    <2>2. c # e /\ c \in Exports
      BY <1>2, <1>8, <2>1, ClicksAreExports
    <2> QED  BY <2>1, <2>2, <1>3
  <1> QED  BY <1>5, <1>6, <1>7, <1>8 DEF OwnIds

LEMMA OwnIdsStep ==
    ASSUME TypeOK, OwnIds, [Next]_vars
    PROVE  OwnIds'
  <1>1. ASSUME NEW c \in Clicks, Export(c)
        PROVE  OwnIds'
    BY <1>1, AcceptKeepsOwnIds, ClicksAreExports DEF Export, buttonVars
  <1>2. CASE OtherExport
    BY <1>2, AcceptKeepsOwnIds DEF OtherExport, Exports, buttonVars
  <1>3. ASSUME NEW e \in Exports, Begin(e) \/ End(e)
        PROVE  OwnIds'
    <2>1. UNCHANGED <<id, count, restarts, taskId>>
      BY <1>3 DEF Begin, End, buttonVars
    <2>2. \A f \in Exports : task'[f] = "none" => task[f] = "none"
      BY <1>3 DEF Begin, End, Queue!Begin, Queue!Succeed, Queue!Fail, TypeOK, ServerTypes
    <2> QED  BY <2>1, <2>2 DEF OwnIds
  <1>4. CASE Restart
    <2>1. restarts' = restarts + 1 /\ restarts \in Nat
      BY <1>4 DEF Restart, TypeOK, ServerTypes
    <2> QED  BY <2>1 DEF OwnIds
  <1>5. ASSUME NEW c \in Clicks, Submitted(c)
        PROVE  OwnIds'
    <2>1. UNCHANGED <<id, count, restarts, task>>
      BY <1>5 DEF Submitted, serverVars, queueVars
    <2>2. \A b \in Buttons : taskId'[b] = taskId[b] \/ (b = c[1] /\ taskId'[b] = id[c])
      <3>1. taskId' = taskId \/ taskId' = [taskId EXCEPT ![c[1]] = id[c]]
        BY <1>5 DEF Submitted
      <3>2. taskId \in [Buttons -> Nat]
        BY DEF TypeOK, ButtonTypes
      <3> QED  BY <3>1, <3>2
    <2> QED  BY <2>1, <2>2 DEF OwnIds
  <1>6. CASE UNCHANGED <<id, count, restarts, task, taskId>>
    BY <1>6 DEF OwnIds
  <1>7. ASSUME NEW c \in Clicks, LoseSubmission(c) \/ SubmitFails(c)
        PROVE  UNCHANGED <<id, count, restarts, task, taskId>>
    BY <1>7 DEF LoseSubmission, SubmitFails, serverVars, queueVars, buttonVars
  <1>8. ASSUME Publish \/ UNCHANGED vars
        PROVE  UNCHANGED <<id, count, restarts, task, taskId>>
    BY <1>8 DEF Publish, vars, serverVars, queueVars, buttonVars
  <1>9. ASSUME NEW b \in Buttons,
               \/ Status(b) \/ LoseStatus(b) \/ Tick(b) \/ Polled(b) \/ Unmount(b)
               \/ \E n \in 1..MaxClicks : Click(b, n)
        PROVE  UNCHANGED <<id, count, restarts, task, taskId>>
    BY <1>9 DEF Status, LoseStatus, Tick, Polled, Unmount, Click, serverVars, queueVars
  <1> QED
    BY <1>1, <1>2, <1>3, <1>4, <1>5, <1>6, <1>7, <1>8, <1>9 DEF Next

LEMMA OwnVersionStep ==
    ASSUME TypeOK, OwnVersion, [Next]_vars
    PROVE  OwnVersion'
  <1>1. ASSUME NEW c \in Clicks, Export(c)
        PROVE  OwnVersion'
    <2>1. /\ task' = [task EXCEPT ![c] = "queued"] /\ book' = book
          /\ \E v \in Loadable : version' = [version EXCEPT ![c] = v]
      BY <1>1 DEF Export, Accept, Queue!Accept
    <2>2. \A d \in Clicks : task'[d] = "done" => task[d] = "done" /\ d # c
      BY <2>1, ClicksAreExports DEF TypeOK, ServerTypes, ButtonTypes
    <2>3. \A d \in Clicks \ {c} : version'[d] = version[d]
      BY <2>1 DEF TypeOK, ServerTypes, ButtonTypes
    <2> QED  BY <2>1, <2>2, <2>3 DEF OwnVersion
  <1>2. CASE OtherExport
    <2>1. \A d \in Clicks : task'[d] = "done" => task[d] = "done"
      BY <1>2, ClicksAreExports DEF OtherExport, Accept, Queue!Accept, TypeOK, ServerTypes
    <2> QED  BY <1>2, <2>1 DEF OtherExport, Accept, OwnVersion
  <1>3. ASSUME NEW e \in Exports, Begin(e)
        PROVE  OwnVersion'
    <2>1. \A d \in Clicks : task'[d] = "done" => task[d] = "done"
      BY <1>3, ClicksAreExports DEF Begin, Queue!Begin, TypeOK, ServerTypes, ButtonTypes
    <2> QED  BY <1>3, <2>1 DEF Begin, OwnVersion
  <1>4. ASSUME NEW e \in Exports, End(e)
        PROVE  OwnVersion'
    <2>1. version' = version
      BY <1>4 DEF End
    <2>2. CASE Queue!Fail(e) /\ UNCHANGED book
      <3>1. \A d \in Clicks : task'[d] = "done" => task[d] = "done"
        BY <2>2, ClicksAreExports DEF Queue!Fail, TypeOK, ServerTypes, ButtonTypes
      <3> QED  BY <2>1, <2>2, <3>1 DEF OwnVersion
    <2>3. CASE /\ Queue!Succeed(e)
               /\ book' = [c \in Clicks |-> IF c = e THEN RequestedDefinition(c) ELSE book[c]]
      <3>1. \A d \in Clicks : task'[d] = "done" => task[d] = "done" \/ d = e
        BY <2>3, ClicksAreExports DEF Queue!Succeed, TypeOK, ServerTypes, ButtonTypes
      <3> QED  BY <2>1, <2>3, <3>1 DEF OwnVersion, RequestedDefinition
    <2> QED  BY <1>4, <2>2, <2>3 DEF End
  <1>5. CASE Restart
    BY <1>5, ClicksAreExports DEF Restart, Queue!Forget, OwnVersion
  <1>6. CASE UNCHANGED <<task, version, book>>
    BY <1>6 DEF OwnVersion
  <1>7. ASSUME NEW c \in Clicks, LoseSubmission(c) \/ SubmitFails(c) \/ Submitted(c)
        PROVE  UNCHANGED <<task, version, book>>
    BY <1>7 DEF LoseSubmission, SubmitFails, Submitted, serverVars, queueVars
  <1>8. ASSUME Publish \/ UNCHANGED vars
        PROVE  UNCHANGED <<task, version, book>>
    BY <1>8 DEF Publish, vars, serverVars, queueVars
  <1>9. ASSUME NEW b \in Buttons,
               \/ Status(b) \/ LoseStatus(b) \/ Tick(b) \/ Polled(b) \/ Unmount(b)
               \/ \E n \in 1..MaxClicks : Click(b, n)
        PROVE  UNCHANGED <<task, version, book>>
    BY <1>9 DEF Status, LoseStatus, Tick, Polled, Unmount, Click, serverVars, queueVars
  <1> QED
    BY <1>1, <1>2, <1>3, <1>4, <1>5, <1>6, <1>7, <1>8, <1>9 DEF Next
-----------------------------------------------------------------------------
(* A link that a button settles on works.                                    *)

LinkWorks(b) == Named(taskId[b]) \subseteq delivered

DoneIsDelivered == \A e \in Exports : task[e] = "done" => e \in delivered

AcceptedHaveIds == \A c \in Clicks : call[c] = "accepted" => id[c] # 0

(* The buttons that were only clicked when they had settled. *)
Orderly == mounted \ overlapped

(* Such a button waits for one submission or polls its task, never both, and *)
(* what it is told is about the task its link leads to.                      *)
ButtonFits(b) ==
    /\ \A c, d \in Pending(b) : c = d
    /\ Pending(b) = {} \/ (timer[b] = 0 /\ status[b] = NoRequest)
    /\ timer[b] # 0 => timer[b] = taskId[b]
    /\ status[b][1] = "asked" => status[b][2] = taskId[b]
    /\ status[b] = <<"told", "done">> => LinkWorks(b)
    /\ state[b] = "done" /\ taskId[b] # 0 /\ Settled(b) => LinkWorks(b)

LinksFit == restarts = 0 => \A b \in Orderly : ButtonFits(b)

LEMMA NothingAsked == NoRequest[1] = "none" /\ NoRequest # <<"told", "done">>
  BY DEF NoRequest

LEMMA DoneStaysDelivered ==
    ASSUME TypeOK, DoneIsDelivered, [Next]_vars
    PROVE  DoneIsDelivered'
  <1> USE DEF TypeOK, ServerTypes
  <1>1. ASSUME NEW e \in Exports, Queue!Accept(e) \/ Queue!Begin(e) \/ Queue!Succeed(e) \/ Queue!Fail(e)
        PROVE  DoneIsDelivered'
    BY <1>1 DEF Queue!Accept, Queue!Begin, Queue!Succeed, Queue!Fail, DoneIsDelivered
  <1>2. ASSUME Queue!Forget
        PROVE  DoneIsDelivered'
    BY <1>2 DEF Queue!Forget, DoneIsDelivered
  <1>3. CASE UNCHANGED queueVars
    BY <1>3 DEF queueVars, DoneIsDelivered
  <1>4. \/ \E e \in Exports : Queue!Accept(e) \/ Queue!Begin(e) \/ Queue!Succeed(e) \/ Queue!Fail(e)
        \/ Queue!Forget
        \/ UNCHANGED queueVars
    BY ClicksAreExports
    DEF Next, vars, serverVars, Exports, Accept, Export, OtherExport, Begin, End, Publish, Restart,
        LoseSubmission, Submitted, SubmitFails, Status, LoseStatus, Tick, Polled, Unmount, Click
  <1> QED  BY <1>1, <1>2, <1>3, <1>4

LEMMA AcceptedKeepIds ==
    ASSUME TypeOK, AcceptedHaveIds, [Next]_vars
    PROVE  AcceptedHaveIds'
  <1>1. ASSUME NEW c \in Clicks, Export(c)
        PROVE  AcceptedHaveIds'
    <2>1. /\ id' = [id EXCEPT ![c] = count + 1]
          /\ call' = [call EXCEPT ![c] = "accepted"]
          /\ count + 1 # 0
      BY <1>1 DEF Export, Accept, TypeOK, ServerTypes
    <2> QED  BY <2>1, ClicksAreExports DEF AcceptedHaveIds, TypeOK, ServerTypes
  <1>2. CASE OtherExport
    <2>1. PICK e \in Others : id' = [id EXCEPT ![e] = count + 1] /\ call' = call
      BY <1>2 DEF OtherExport, Accept
    <2>2. e \in Exports /\ count + 1 # 0
      BY DEF Exports, TypeOK, ServerTypes
    <2> QED  BY <2>1, <2>2, ClicksAreExports DEF AcceptedHaveIds, TypeOK, ServerTypes
  <1>3. CASE id' = id /\ \A c \in Clicks : call'[c] = "accepted" => call[c] = "accepted"
    BY <1>3 DEF AcceptedHaveIds
  <1>4. ASSUME NEW c \in Clicks, LoseSubmission(c) \/ Submitted(c) \/ SubmitFails(c)
        PROVE  id' = id /\ \A d \in Clicks : call'[d] = "accepted" => call[d] = "accepted"
    BY <1>4 DEF LoseSubmission, Submitted, SubmitFails, serverVars, TypeOK
  <1>5. ASSUME NEW b \in Buttons, NEW n \in 1..MaxClicks, Click(b, n)
        PROVE  id' = id /\ \A d \in Clicks : call'[d] = "accepted" => call[d] = "accepted"
    BY <1>5 DEF Click, serverVars, TypeOK
  <1>6. ASSUME NEW b \in Buttons,
               Status(b) \/ LoseStatus(b) \/ Tick(b) \/ Polled(b) \/ Unmount(b)
        PROVE  id' = id /\ call' = call
    BY <1>6 DEF Status, LoseStatus, Tick, Polled, Unmount, serverVars
  <1>7. ASSUME NEW e \in Exports, Begin(e) \/ End(e)
        PROVE  id' = id /\ call' = call
    BY <1>7 DEF Begin, End
  <1>8. ASSUME Publish \/ Restart \/ UNCHANGED vars
        PROVE  id' = id /\ call' = call
    BY <1>8 DEF Publish, Restart, vars, serverVars
  <1> QED  BY <1>1, <1>2, <1>3, <1>4, <1>5, <1>6, <1>7, <1>8 DEF Next

(* A link that works goes on to work while the process lives.                *)
LEMMA LinksKeepWorking ==
    ASSUME TypeOK, OwnIds, [Next]_vars, restarts' = 0,
           NEW b \in Buttons, taskId'[b] = taskId[b], LinkWorks(b)
    PROVE  LinkWorks(b)'
  <1>1. ASSUME NEW e \in Exports, Accept(e)
        PROVE  LinkWorks(b)'
    <2>1. /\ task' = [task EXCEPT ![e] = "queued"] /\ delivered' = delivered
          /\ id' = [id EXCEPT ![e] = count + 1] /\ restarts = 0
      BY <1>1 DEF Accept, Queue!Accept
    <2>2. taskId[b] # 0 => taskId[b] # count + 1
      <3> SUFFICES ASSUME taskId[b] # 0 PROVE taskId[b] # count + 1
        OBVIOUS
      <3>1. PICK c \in Clicks : id[c] = taskId[b]
        BY <2>1 DEF OwnIds
      <3>2. id[c] <= count /\ id[c] \in Nat /\ count \in Nat
        BY <2>1, ClicksAreExports DEF OwnIds, TypeOK, ServerTypes
      <3> QED  BY <3>1, <3>2
    <2>3. \A f \in Exports \ {e} : task'[f] = task[f] /\ id'[f] = id[f]
      BY <2>1 DEF TypeOK, ServerTypes
    <2>4. id'[e] = count + 1
      BY <2>1 DEF TypeOK, ServerTypes
    <2>5. ASSUME NEW f \in Named(taskId[b])'
          PROVE  f \in Named(taskId[b])
      <3>1. f \in Exports /\ id'[f] = taskId[b] /\ taskId[b] > 0 /\ task'[f] \notin {"none", "lost"}
        BY <2>5 DEF Named
      <3>2. f # e
        BY <2>2, <2>4, <3>1
      <3> QED  BY <2>3, <3>1, <3>2 DEF Named
    <2> QED  BY <2>1, <2>5 DEF LinkWorks
  <1>2. ASSUME NEW e \in Exports, Begin(e) \/ End(e)
        PROVE  LinkWorks(b)'
    <2>1. id' = id /\ delivered \subseteq delivered'
      BY <1>2 DEF Begin, End, Queue!Begin, Queue!Succeed, Queue!Fail
    <2>2. \A f \in Exports : task'[f] \notin {"none", "lost"} => task[f] \notin {"none", "lost"}
      BY <1>2 DEF Begin, End, Queue!Begin, Queue!Succeed, Queue!Fail, TypeOK, ServerTypes
    <2>3. Named(taskId[b])' \subseteq Named(taskId[b])
      BY <2>1, <2>2 DEF Named
    <2> QED  BY <2>1, <2>3 DEF LinkWorks
  <1>3. CASE UNCHANGED <<id, task, delivered>>
    BY <1>3 DEF LinkWorks, Named
  <1>4. ~Restart
    <2>1. restarts + 1 # 0
      BY DEF TypeOK, ServerTypes
    <2> QED  BY <2>1 DEF Restart
  <1>5. ASSUME NEW c \in Clicks, LoseSubmission(c) \/ Submitted(c) \/ SubmitFails(c)
        PROVE  UNCHANGED <<id, task, delivered>>
    BY <1>5 DEF LoseSubmission, Submitted, SubmitFails, serverVars, queueVars
  <1>6. ASSUME NEW a \in Buttons,
               \/ Status(a) \/ LoseStatus(a) \/ Tick(a) \/ Polled(a) \/ Unmount(a)
               \/ \E n \in 1..MaxClicks : Click(a, n)
        PROVE  UNCHANGED <<id, task, delivered>>
    BY <1>6 DEF Status, LoseStatus, Tick, Polled, Unmount, Click, serverVars, queueVars
  <1>7. ASSUME Publish \/ UNCHANGED vars
        PROVE  UNCHANGED <<id, task, delivered>>
    BY <1>7 DEF Publish, vars, serverVars, queueVars
  <1>8. ASSUME NEW c \in Clicks, Export(c)
        PROVE  LinkWorks(b)'
    BY <1>1, <1>8, ClicksAreExports DEF Export
  <1>9. CASE OtherExport
    BY <1>1, <1>9 DEF OtherExport, Exports
  <1> QED  BY <1>2, <1>3, <1>4, <1>5, <1>6, <1>7, <1>8, <1>9 DEF Next

(* A step that leaves a button alone, but for the calls it waits for.        *)
LEMMA ButtonUntouched ==
    ASSUME TypeOK, OwnIds, [Next]_vars, restarts' = 0, NEW b \in Buttons, ButtonFits(b),
           timer'[b] = timer[b], taskId'[b] = taskId[b], state'[b] = state[b],
           status'[b] = status[b], Pending(b)' = Pending(b)
    PROVE  ButtonFits(b)'
  <1>1. LinkWorks(b) => LinkWorks(b)'
    BY LinksKeepWorking
  <1> QED  BY <1>1 DEF ButtonFits, Settled

LEMMA ButtonsStayFit ==
    ASSUME TypeOK, OwnIds, DoneIsDelivered, AcceptedHaveIds, [Next]_vars, restarts' = 0,
           NEW b \in Orderly', b \in Buttons, ButtonFits(b)
    PROVE  ButtonFits(b)'
  <1>1. ASSUME UNCHANGED buttonVars, Pending(b)' = Pending(b)
        PROVE  ButtonFits(b)'
    BY <1>1, ButtonUntouched DEF buttonVars
  <1>2. ASSUME NEW c \in Clicks, Export(c) \/ LoseSubmission(c)
        PROVE  ButtonFits(b)'
    <2>1. UNCHANGED buttonVars
      BY <1>2 DEF Export, LoseSubmission
    <2>2. Pending(b)' = Pending(b)
      BY <1>2 DEF Export, LoseSubmission, Pending, TypeOK
    <2> QED  BY <2>1, <2>2, <1>1
  <1>3. ASSUME NEW e \in Exports, Begin(e) \/ End(e)
        PROVE  ButtonFits(b)'
    BY <1>3, <1>1 DEF Begin, End, Pending
  <1>4. CASE OtherExport \/ Publish \/ Restart \/ UNCHANGED vars
    BY <1>4, <1>1 DEF OtherExport, Publish, Restart, vars, Pending
  <1>5. ASSUME NEW a \in Buttons, NEW n \in 1..MaxClicks, Click(a, n)
        PROVE  ButtonFits(b)'
    <2>1. /\ call' = [call EXCEPT ![<<a, n>>] = "sent"] /\ <<a, n>> \in Clicks
          /\ UNCHANGED <<timer, taskId, state, status>>
          /\ overlapped' = IF Settled(a) THEN overlapped ELSE overlapped \cup {a}
      BY <1>5 DEF Click, Clicks
    <2>2. CASE b # a
      <3>1. <<a, n>>[1] = a
        OBVIOUS
      <3>2. Pending(b)' = Pending(b)
        BY <2>1, <2>2, <3>1 DEF Pending, TypeOK
      <3> QED  BY <2>1, <3>2, ButtonUntouched
    <2>3. CASE b = a
      <3>1. Settled(b)
        BY <2>1, <2>3 DEF Orderly
      <3>2. Pending(b)' = {<<a, n>>}
        <4>1. Pending(b) = {} /\ <<a, n>>[1] = b
          BY <2>3, <3>1 DEF Settled
        <4> QED  BY <2>1, <4>1 DEF Pending, TypeOK
      <3>3. timer'[b] = 0 /\ status'[b] = NoRequest
        BY <2>1, <3>1 DEF Settled
      <3> QED  BY <3>2, <3>3, NothingAsked DEF ButtonFits, Settled
    <2> QED  BY <2>2, <2>3
  <1>6. ASSUME NEW c \in Clicks, Submitted(c) \/ SubmitFails(c)
        PROVE  ButtonFits(b)'
    <2>1. /\ call' = [call EXCEPT ![c] = "answered"] /\ call[c] \in {"accepted", "refused"}
          /\ UNCHANGED <<status, mounted>>
      BY <1>6 DEF Submitted, SubmitFails
    <2>2. CASE b # c[1]
      <3>1. Pending(b)' = Pending(b)
        BY <2>1, <2>2 DEF Pending, TypeOK
      <3>2. /\ timer'[b] = timer[b] /\ taskId'[b] = taskId[b] /\ state'[b] = state[b]
            /\ status'[b] = status[b]
        BY <1>6, <2>2 DEF Submitted, SubmitFails, TypeOK, ButtonTypes
      <3> QED  BY <3>1, <3>2, ButtonUntouched
    <2>3. CASE b = c[1]
      <3>1. Pending(b) = {c}
        BY <2>1, <2>3 DEF Pending, ButtonFits
      <3>2. Pending(b)' = {}
        BY <2>1, <2>3, <3>1 DEF Pending, TypeOK
      <3>3. timer[b] = 0 /\ status[b] = NoRequest /\ b \in mounted
        BY <2>1, <3>1 DEF ButtonFits, Orderly
      <3>4. status'[b] = NoRequest /\ status'[b][1] = "none" /\ NoRequest # <<"told", "done">>
        BY <2>1, <3>3, NothingAsked
      <3>5. CASE Submitted(c)
        <4>1. timer'[b] = id[c] /\ taskId'[b] = id[c] /\ id[c] # 0
          BY <2>3, <3>3, <3>5 DEF Submitted, TypeOK, ButtonTypes, AcceptedHaveIds
        <4> QED  BY <3>2, <3>4, <4>1 DEF ButtonFits, Settled
      <3>6. CASE SubmitFails(c)
        <4>1. timer'[b] = 0 /\ state'[b] = "failed"
          BY <2>3, <3>3, <3>6 DEF SubmitFails, TypeOK, ButtonTypes
        <4> QED  BY <3>2, <3>4, <4>1 DEF ButtonFits, Settled
      <3> QED  BY <1>6, <3>5, <3>6
    <2> QED  BY <2>2, <2>3
  <1>7. ASSUME NEW a \in Buttons, a # b,
               Status(a) \/ LoseStatus(a) \/ Tick(a) \/ Polled(a) \/ Unmount(a)
        PROVE  ButtonFits(b)'
    <2>1. call' = call
      BY <1>7 DEF Status, LoseStatus, Tick, Polled, Unmount
    <2>2. /\ timer'[b] = timer[b] /\ taskId'[b] = taskId[b] /\ state'[b] = state[b]
          /\ status'[b] = status[b]
      BY <1>7 DEF Status, LoseStatus, Tick, Polled, Unmount, TypeOK, ButtonTypes
    <2>3. Pending(b)' = Pending(b)
      BY <2>1 DEF Pending
    <2> QED  BY <2>2, <2>3, ButtonUntouched
  <1>8. CASE Tick(b)
    <2>1. /\ UNCHANGED <<call, taskId, timer, state>> /\ timer[b] # 0
          /\ status' = [status EXCEPT ![b] = <<"asked", timer[b]>>]
      BY <1>8 DEF Tick
    <2>2. status'[b] = <<"asked", timer[b]>>
      BY <2>1 DEF TypeOK, ButtonTypes
    <2>3. Pending(b) = {} /\ timer[b] = taskId[b] /\ Pending(b)' = Pending(b)
      BY <2>1 DEF ButtonFits, Pending
    <2> QED  BY <2>1, <2>2, <2>3 DEF ButtonFits, Settled
  <1>9. CASE Status(b) \/ LoseStatus(b)
    <2>1. UNCHANGED <<call, taskId, timer, state, serverVars>> /\ status[b][1] \in {"asked", "told"}
      BY <1>9 DEF Status, LoseStatus
    <2>2. Pending(b) = {} /\ Pending(b)' = Pending(b)
      BY <2>1 DEF ButtonFits, Pending, NoRequest
    <2> DEFINE i == status[b][2]
               answer == IF Named(i) = {} THEN "missing"
                         ELSE task[CHOOSE f \in Named(i) : TRUE]
    <2>3. DOMAIN status = Buttons
      BY DEF TypeOK, ButtonTypes
    <2>4. Status(b) => status'[b] = <<"told", answer>>
      BY <2>3 DEF Status
    <2>5. LoseStatus(b) => status'[b] = <<"told", "missing">>
      BY <2>3 DEF LoseStatus
    <2> HIDE DEF answer, i
    <2>6. status'[b] = <<"told", status'[b][2]>>
      BY <1>9, <2>4, <2>5
    <2>7. ASSUME status'[b] = <<"told", "done">>
          PROVE  LinkWorks(b)
      <3> DEFINE e == CHOOSE f \in Named(i) : TRUE
      <3>1. Status(b)
        BY <1>9, <2>5, <2>7
      <3>2. status[b][1] = "asked" /\ i = taskId[b]
        BY <3>1 DEF Status, ButtonFits, i
      <3>3. Named(i) # {} /\ task[e] = "done"
        BY <2>4, <2>7, <3>1 DEF answer
      <3>4. e \in Named(i)
        BY <3>3
      <3> HIDE DEF e
      <3>5. e \in delivered
        BY <3>3, <3>4 DEF Named, DoneIsDelivered
      <3>6. restarts = 0
        BY <2>1 DEF serverVars
      <3>7. \A f \in Named(i) : f = e
        BY <3>4, <3>6 DEF Named, OwnIds
      <3> QED  BY <3>2, <3>5, <3>7 DEF LinkWorks
    <2>8. LinkWorks(b) => LinkWorks(b)'
      BY <2>1 DEF LinkWorks, Named, serverVars, queueVars
    <2>9. status'[b][1] = "told" /\ status'[b] # NoRequest
      BY <2>6 DEF NoRequest
    <2> QED  BY <2>1, <2>2, <2>7, <2>8, <2>9 DEF ButtonFits, Settled
  <1>10. CASE Polled(b)
    <2>1. UNCHANGED <<call, taskId, serverVars, mounted>> /\ status[b][1] = "told"
          /\ status' = [status EXCEPT ![b] = NoRequest]
      BY <1>10 DEF Polled
    <2>2. Pending(b) = {} /\ Pending(b)' = {}
      BY <2>1 DEF ButtonFits, Pending, NoRequest
    <2>3. status'[b] = NoRequest /\ status'[b][1] = "none" /\ NoRequest # <<"told", "done">>
      BY <2>1 DEF TypeOK, ButtonTypes, NoRequest
    <2>4. timer'[b] = 0 \/ timer'[b] = timer[b]
      BY <1>10 DEF Polled, TypeOK, ButtonTypes
    <2>5. state'[b] = "done" => status[b] = <<"told", "done">>
      <3>1. state'[b] = IF status[b][2] = "missing" THEN "failed" ELSE status[b][2]
        <4>1. b \in mounted
          BY <2>1 DEF Orderly
        <4> QED  BY <1>10, <4>1 DEF Polled, TypeOK, ButtonTypes
      <3>2. status[b] = <<"told", status[b][2]>>
        <4>1. status[b] \in Requests
          BY DEF TypeOK, ButtonTypes
        <4> QED  BY <2>1, <4>1 DEF Requests, NoRequest
      <3> QED  BY <3>1, <3>2
    <2>6. LinkWorks(b) => LinkWorks(b)'
      BY <2>1 DEF LinkWorks, Named, serverVars, queueVars
    <2> QED  BY <2>1, <2>2, <2>3, <2>4, <2>5, <2>6 DEF ButtonFits
  <1>11. ~Unmount(b)
    BY DEF Unmount, Orderly
  <1> QED
    BY <1>2, <1>3, <1>4, <1>5, <1>6, <1>7, <1>8, <1>9, <1>10, <1>11 DEF Next

LEMMA LinksStayFit ==
    ASSUME TypeOK, OwnIds, DoneIsDelivered, AcceptedHaveIds, LinksFit, [Next]_vars
    PROVE  LinksFit'
  <1> SUFFICES ASSUME restarts' = 0, NEW b \in Orderly'
               PROVE  ButtonFits(b)'
    BY DEF LinksFit
  <1>1. restarts = 0
    <2>1. restarts' \in {restarts, restarts + 1}
      BY DEF Next, vars, serverVars, Export, Accept, OtherExport, Begin, End, Publish, Restart,
         LoseSubmission, Submitted, SubmitFails, Status, LoseStatus, Tick, Polled, Unmount, Click
    <2> QED  BY <2>1 DEF TypeOK, ServerTypes
  <1>2. mounted' \subseteq mounted /\ overlapped \subseteq overlapped'
    BY DEF Next, vars, buttonVars, Export, OtherExport, Begin, End, Publish, Restart,
       LoseSubmission, Submitted, SubmitFails, Status, LoseStatus, Tick, Polled, Unmount, Click
  <1>3. b \in Orderly /\ b \in Buttons
    BY <1>2 DEF Orderly, TypeOK, ButtonTypes
  <1> QED  BY <1>1, <1>3, ButtonsStayFit DEF LinksFit
-----------------------------------------------------------------------------
IInv ==
    /\ TypeOK
    /\ NoTimerLeaks
    /\ OwnIds
    /\ OwnVersion
    /\ DoneIsDelivered
    /\ AcceptedHaveIds
    /\ LinksFit

LEMMA IInvHolds == Spec => []IInv
  <1>1. ASSUME Init PROVE IInv
    <2>1. TypeOK
      <3>1. /\ task \in [Exports -> Queue!TaskStates]
            /\ id \in [Exports -> Nat]
        BY <1>1 DEF Init, Queue!Init, Queue!TaskStates
      <3>2. /\ version \in [Clicks -> Nat] /\ book \in [Clicks -> Nat]
            /\ taskId \in [Buttons -> Nat] /\ timer \in [Buttons -> Nat]
        BY <1>1 DEF Init
      <3>3. count \in Nat /\ restarts \in Nat /\ published \in Nat
        BY <1>1 DEF Init
      <3>4. /\ delivered \subseteq Exports
            /\ call \in [Clicks -> {"idle", "sent", "accepted", "refused", "answered"}]
        BY <1>1 DEF Init, Queue!Init
      <3>5. /\ mounted \subseteq Buttons /\ overlapped \subseteq Buttons
            /\ progress \in [Buttons -> BOOLEAN] /\ polling \in [Buttons -> BOOLEAN]
            /\ state \in [Buttons -> {""} \cup Queue!TaskStates]
        BY <1>1 DEF Init
      <3>6. status \in [Buttons -> Requests]
        BY <1>1 DEF Init, Requests
      <3> QED  BY <3>1, <3>2, <3>3, <3>4, <3>5, <3>6 DEF TypeOK, ServerTypes, ButtonTypes
    <2>2. NoTimerLeaks /\ OwnIds /\ OwnVersion
      <3>1. /\ \A e \in Exports : id[e] = 0
            /\ \A b \in Buttons : taskId[b] = 0 /\ timer[b] = 0
            /\ count = 0
        BY <1>1 DEF Init
      <3>2. \A c \in Clicks : book[c] = 0 /\ version[c] = 0
        BY <1>1 DEF Init
      <3>3. NoTimerLeaks /\ OwnIds
        BY <3>1 DEF NoTimerLeaks, OwnIds
      <3>4. OwnVersion
        BY <3>2 DEF OwnVersion
      <3> QED  BY <3>3, <3>4
    <2>3. DoneIsDelivered /\ AcceptedHaveIds /\ LinksFit
      <3>1. /\ \A e \in Exports : task[e] = "none"
            /\ \A c \in Clicks : call[c] = "idle"
            /\ \A b \in Buttons : /\ timer[b] = 0 /\ taskId[b] = 0 /\ state[b] = ""
                                 /\ status[b] = NoRequest
        BY <1>1 DEF Init, Queue!Init
      <3>2. \A b \in Buttons : Pending(b) = {}
        BY <3>1 DEF Pending
      <3>3. ASSUME NEW b \in Buttons PROVE ButtonFits(b)
        BY <3>1, <3>2, NothingAsked DEF ButtonFits
      <3>4. LinksFit
        BY <2>1, <3>3 DEF LinksFit, Orderly, TypeOK, ButtonTypes
      <3> QED  BY <3>1, <3>4 DEF DoneIsDelivered, AcceptedHaveIds
    <2> QED  BY <2>1, <2>2, <2>3 DEF IInv
  <1>2. ASSUME IInv, [Next]_vars PROVE IInv'
    BY <1>2, TypesStay, TimersStayMounted, OwnIdsStep, OwnVersionStep, DoneStaysDelivered,
       AcceptedKeepIds, LinksStayFit DEF IInv
  <1> QED  BY <1>1, <1>2, PTL DEF Spec

(* Every variable keeps to its type, over any number of restarts.            *)
THEOREM ExportTypes == Spec => []TypeOK
  BY IInvHolds, PTL DEF IInv

(* The interval of a button ends with it, whenever its page is left.         *)
THEOREM TimersEndWithButtons == Spec => []NoTimerLeaks
  BY IInvHolds, PTL DEF IInv

(* A button downloads its own export, built from the version it was bound to *)
(* when it was submitted.                                                    *)
THEOREM LinksLeadToOwnWorkbooks == Spec => []OwnWorkbook
  <1>1. ASSUME IInv PROVE OwnWorkbook
    <2>1. ASSUME NEW b \in Buttons, taskId[b] # 0, restarts = 0
          PROVE  Named(taskId[b]) = Current(b)
      <3>1. PICK c \in Clicks : c[1] = b /\ id[c] = taskId[b]
        BY <1>1, <2>1 DEF IInv, OwnIds
      <3>2. \A e \in Named(taskId[b]) : e = c
        BY <1>1, <2>1, <3>1, ClicksAreExports DEF IInv, OwnIds, Named
      <3> QED  BY <3>1, <3>2 DEF Current
    <2>2. ASSUME NEW b \in Buttons, NEW c \in Current(b), task[c] = "done"
          PROVE  book[c] = version[c]
      BY <1>1, <2>2 DEF Current, IInv, OwnVersion
    <2> QED  BY <2>1, <2>2 DEF OwnWorkbook
  <1> QED  BY <1>1, IInvHolds, PTL

(* A button that was only clicked when it had settled settles on a link that *)
(* works.                                                                    *)
THEOREM SettledLinksWork == Spec => []SettledLinkWorks
  <1>1. ASSUME IInv PROVE SettledLinkWorks
    BY <1>1 DEF IInv, LinksFit, Orderly, ButtonFits, LinkWorks, SettledLinkWorks
  <1> QED  BY <1>1, IInvHolds, PTL
=============================================================================
