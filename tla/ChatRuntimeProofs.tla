-------------------------- MODULE ChatRuntimeProofs --------------------------
(***************************************************************************)
(* Theorems of ChatRuntime, for every value of its constants: its types,   *)
(* that every step of the service is a step of ChatStore, who owns a       *)
(* reservation, what an interrupt survives, that a client's request starts *)
(* one turn, and what becomes of the requests of the app server.           *)
(***************************************************************************)
EXTENDS ChatRuntime, ChatStoreProofs

\* Where the handler of an operation can be.
LabelsOf(op) ==
  CASE op = "StartChatRun" ->
         {"reserve", "reserveCapacity", "startThread", "sendTurn", "awaitTurn", "recover",
          "install", "markRunning", "announceRun", "complete", "release", "releaseBoth",
          "releaseCapacity", "remember", "done"}
    [] op = "RunChatTurn" ->
         {"reserve", "resume", "reconcile", "reconcileAppend", "reconcileComplete",
          "startRun", "sendTurn", "awaitTurn", "abandon", "bind", "markRunning",
          "announceRun", "release", "status", "remember", "done"}
    [] op = "InterruptChatRun" ->
         {"reserve", "lookRun", "sendInterrupt", "markInterrupting", "announceInterrupt",
          "release", "status", "remember", "done"}
    [] op = "RespondChatPending" ->
         {"reserve", "lookPending", "claim", "write", "finish", "unclaim", "resolve",
          "restore", "announceResolved", "release", "status", "remember", "done"}
    [] op = "GetChatStatus" ->
         {"readThread", "reconcile", "reconcileAppend", "reconcileComplete", "status", "done"}
    [] op = "Idle" -> {"done"}

\* Where a handler knows its chat and has chosen the run it works on, where it
\* has chosen a state to store, and where it has not sent a turn/start yet.
OnRun    == {"reconcileAppend", "reconcileComplete", "install", "complete", "bind",
             "markRunning", "announceRun", "claim", "write", "finish", "unclaim",
             "resolve", "restore", "announceResolved"}
OnChat   == OnRun \cup {"sendTurn", "awaitTurn", "recover"}
Ending   == {"reconcileAppend", "reconcileComplete", "complete"}
Storing  == {"install", "bind", "markRunning", "announceRun"}
Unstarted == {"reserve", "reserveCapacity", "startThread", "resume", "readThread", "reconcile",
              "reconcileAppend", "reconcileComplete", "startRun"}

\* The locals of a handler agree with its command and its program counter.
Agrees(x) ==
  /\ Validated(x.cmd) /\ ScopedOperation(x.cmd) \in Operations
  /\ x.pc \in LabelsOf(x.cmd.op)
  /\ x.cmd.op # "StartChatRun" => x.chat = x.cmd.chat
  /\ x.cmd.op = "InterruptChatRun" => x.run = x.cmd.run
  /\ x.pc \in OnChat => x.chat \in Chats
  /\ x.pc \in OnRun => x.run \in Runs
  /\ x.pc \in Ending => x.state \in TerminalStates
  /\ x.pc \in Storing => x.state \in RunStates
  /\ x.pc \in Unstarted => x.attempt = 0
  /\ x.pc = "sendTurn" => /\ x.attempt \in {0, 1}
                          /\ x.cmd.op = "RunChatTurn" => x.attempt = 0

\* A thread the app server knows: every turn of it has been started.
Known(c) == /\ threads[c] \in Seq(Turns)
            /\ \A i \in 1..Len(threads[c]) : turns[threads[c][i]] \in TurnRecords

\* The thread of a StartChatRun that has sent its turn/start is known.
OnThread(x) == x.cmd.op = "StartChatRun" /\ x.pc \in {"sendTurn", "awaitTurn", "recover"}
                 => Known(x.chat)

HandlersAgree == \A h \in Handlers : Agrees(handlers[h]) /\ OnThread(handlers[h])

\* What the service has from the app server is about turns that were started.
CodexAgrees ==
  /\ \A c \in Chats : c \in loaded \/ threads[c] # Null => Known(c)
  /\ \A i \in 1..Len(notifications) : turns[notifications[i].run] \in TurnRecords
  /\ \A r \in PendingIds : requests[r].state # "unsent" =>
       requests[r].turn \in Turns /\ turns[requests[r].turn] \in TurnRecords
  /\ consumer.pc # "idle" => /\ consumer.notification \in Notifications
                             /\ turns[consumer.notification.run] \in TurnRecords
  /\ consumer.pc = "complete" => consumer.notification.kind \in Terminals
  /\ hook.pc # "idle" => /\ hook.request \in PendingIds
                         /\ requests[hook.request].state # "unsent"

RuntimeInv == RuntimeTypeOK /\ HandlersAgree /\ CodexAgrees
-----------------------------------------------------------------------------
\* What a step of a handler does to the handlers: only its own record changes,
\* it keeps its command and its locals still agree.
HandlerMoves(h) ==
  /\ handlers' = [handlers EXCEPT ![h] = handlers'[h]]
  /\ handlers'[h] \in HandlerRecords
  /\ handlers'[h].cmd = handlers[h].cmd
  /\ Agrees(handlers'[h])

\* The record of a handler on its way out, and of one that goes on.
LEMMA GotoEffect ==
  ASSUME handlers \in [Handlers -> HandlerRecords], NEW h \in Handlers,
         NEW pc \in HandlerLabels, Goto(h, pc)
  PROVE  /\ handlers' = [handlers EXCEPT ![h] = handlers'[h]]
         /\ handlers'[h] = IF pc \in Leaving
                           THEN [FreshHandler(handlers[h].cmd) EXCEPT !.pc = pc]
                           ELSE [handlers[h] EXCEPT !.pc = pc]
BY DEF Goto

\* A handler on its way out agrees with anything.
LEMMA LeaveMove ==
  ASSUME handlers \in [Handlers -> HandlerRecords], NEW h \in Handlers,
         Agrees(handlers[h]), NEW pc \in Leaving, pc \in LabelsOf(handlers[h].cmd.op),
         Goto(h, pc)
  PROVE  HandlerMoves(h) /\ handlers'[h].pc = pc
<1>1. pc \in HandlerLabels
  BY DEF Leaving, HandlerLabels
<1>2. /\ handlers' = [handlers EXCEPT ![h] = handlers'[h]]
      /\ handlers'[h] = [FreshHandler(handlers[h].cmd) EXCEPT !.pc = pc]
  BY <1>1, GotoEffect
<1>3. handlers[h].cmd \in Commands
  BY DEF HandlerRecords
<1> DEFINE x == handlers'[h]
<1>4. /\ x.cmd = handlers[h].cmd /\ x.pc = pc
      /\ x.chat = x.cmd.chat /\ x.run = x.cmd.run
  BY <1>2 DEF FreshHandler
<1>5. x \in HandlerRecords
  <2> DEFINE c == handlers[h].cmd
  <2>1. x = [cmd |-> c, pc |-> pc, chat |-> c.chat, run |-> c.run, state |-> Null,
             lifecycle |-> Null, attempt |-> 0, answer |-> Null, reads |-> 0,
             confirmedEmpty |-> FALSE, written |-> FALSE]
    BY <1>2 DEF FreshHandler
  <2>2. c \in Commands /\ c.chat \in Chats \cup {Null} /\ c.run \in Runs \cup {Null}
    BY <1>3, RunsCover DEF Commands
  <2> HIDE DEF c, x
  <2> QED BY <1>1, <2>1, <2>2 DEF HandlerRecords
<1>6. Agrees(x)
  BY <1>4 DEF Agrees, Leaving, OnChat, OnRun, Ending, Storing, Unstarted
<1> QED BY <1>2, <1>4, <1>5, <1>6 DEF HandlerMoves

\* A handler that goes on changes its program counter only.
LEMMA GoMove ==
  ASSUME handlers \in [Handlers -> HandlerRecords], NEW h \in Handlers,
         NEW pc \in HandlerLabels, pc \notin Leaving, Goto(h, pc)
  PROVE  /\ handlers' = [handlers EXCEPT ![h] = handlers'[h]]
         /\ handlers'[h] \in HandlerRecords
         /\ handlers'[h].pc = pc
         /\ handlers'[h].cmd = handlers[h].cmd /\ handlers'[h].chat = handlers[h].chat
         /\ handlers'[h].run = handlers[h].run /\ handlers'[h].state = handlers[h].state
         /\ handlers'[h].attempt = handlers[h].attempt
         /\ handlers'[h].written = handlers[h].written
<1>1. /\ handlers' = [handlers EXCEPT ![h] = handlers'[h]]
      /\ handlers'[h] = [handlers[h] EXCEPT !.pc = pc]
  BY GotoEffect
<1>2. handlers[h] \in HandlerRecords
  OBVIOUS
<1> QED BY <1>1, <1>2 DEF HandlerRecords
-----------------------------------------------------------------------------
(* The calls a handler makes are operations of the store                   *)

LEMMA AppendIsNext ==
  ASSUME NEW s \in RunScopes, NEW kind \in EventKinds, AppendEvent(s, kind, 1)
  PROVE  Next
BY OneSize DEF Next, EventOperation

LEMMA RunCallIsNext ==
  ASSUME NEW s \in RunScopes,
         \/ StartRun(s) \/ RestoreRunStateAfterPending(s)
         \/ \E state \in RunStates : UpdateRunState(s, state)
         \/ \E run \in Runs : BindRunID(s, run)
         \/ \E state \in TerminalStates : CompleteRun(s, state)
  PROVE  Next
BY DEF Next, RunOperation

LEMMA ReservationCallIsNext ==
  ASSUME NEW i \in IdempotencyScopes,
         \/ ReserveActiveRunCapacity(i) \/ ReleaseActiveRunCapacity(i)
         \/ \E s \in RunScopes : StartRunWithReservation(i, s)
         \/ ReserveIdempotency(i) \/ CompleteIdempotency(i) \/ ReleaseIdempotency(i)
  PROVE  Next
BY DEF Next, RunOperation, IdempotencyOperation

LEMMA PendingCallIsNext ==
  ASSUME NEW k \in PendingKeys,
         \/ RegisterPendingForActiveRun(k[1], k[2]) \/ ClaimPendingResolution(k)
         \/ ReleasePendingResolutionClaim(k) \/ ResolvePending(k)
  PROVE  Next
<1>1. k = <<k[1], k[2]>> /\ k[1] \in RunScopes /\ k[2] \in PendingIds
  BY DEF PendingKeys
<1> QED BY <1>1 DEF Next, PendingOperation

\* What the invariant says of one handler.
LEMMA HandlerFacts ==
  ASSUME RuntimeInv, NEW h \in Handlers
  PROVE  /\ handlers \in [Handlers -> HandlerRecords]
         /\ handlers[h] \in HandlerRecords /\ Agrees(handlers[h]) /\ OnThread(handlers[h])
         /\ handlers[h].cmd.op \in Ops /\ handlers[h].pc \in LabelsOf(handlers[h].cmd.op)
         /\ handlers[h].cmd.op \notin {"GetChatStatus", "Idle"} => Scope(h) \in IdempotencyScopes
         /\ handlers[h].pc \in OnRun => RunScope(h) \in RunScopes
         /\ handlers[h].cmd.op = "RunChatTurn" => Provisional(h) \in RunScopes
         /\ handlers[h].cmd.op = "RespondChatPending" /\ handlers[h].pc \in OnRun
              => PendingKey(h) \in PendingKeys
<1>1. /\ handlers \in [Handlers -> HandlerRecords]
      /\ handlers[h] \in HandlerRecords /\ Agrees(handlers[h]) /\ OnThread(handlers[h])
  BY DEF RuntimeInv, RuntimeTypeOK, HandlersAgree
<1>2. handlers[h].cmd \in Commands
  BY <1>1 DEF HandlerRecords
<1>3. handlers[h].cmd.op \in Ops /\ handlers[h].cmd.chat \in Chats \cup {Null}
  BY <1>2 DEF Commands
<1>4. handlers[h].cmd.op \notin {"GetChatStatus", "Idle"} => Scope(h) \in IdempotencyScopes
  BY <1>1, <1>3 DEF Agrees, Validated, Scope, IdempotencyScopes
<1>5. handlers[h].pc \in OnRun => RunScope(h) \in RunScopes
  BY <1>1 DEF Agrees, OnChat, RunScope, RunScopes
<1>6. handlers[h].cmd.op = "RunChatTurn" => Provisional(h) \in RunScopes
  BY <1>1, RunsCover DEF Agrees, Validated, Provisional, RunScopes
<1>7. handlers[h].cmd.op = "RespondChatPending" /\ handlers[h].pc \in OnRun
        => PendingKey(h) \in PendingKeys
  BY <1>1, <1>5 DEF Agrees, Validated, PendingKey, PendingKeys
<1> QED BY <1>1, <1>3, <1>4, <1>5, <1>6, <1>7 DEF Agrees

-----------------------------------------------------------------------------
(* Each step of a handler: its record and the store                        *)

Advances(h) == HandlerMoves(h) /\ OnThread(handlers'[h]) /\ [Next]_vars

\* A handler on its way out has no thread to know.
LEMMA LeaveAdvance ==
  ASSUME RuntimeInv, NEW h \in Handlers, NEW pc \in Leaving,
         pc \in LabelsOf(handlers[h].cmd.op), Goto(h, pc), [Next]_vars
  PROVE  Advances(h)
<1>1. HandlerMoves(h) /\ handlers'[h].pc = pc
  BY HandlerFacts, LeaveMove
<1> QED BY <1>1 DEF Advances, OnThread, Leaving

\* A handler that goes on agrees when the new place asks no more of its locals.
LEMMA GoAdvance ==
  ASSUME RuntimeInv, NEW h \in Handlers, NEW pc \in HandlerLabels, pc \notin Leaving,
         pc \in LabelsOf(handlers[h].cmd.op), Goto(h, pc), [Next]_vars,
         pc \in OnChat => handlers[h].chat \in Chats,
         pc \in OnRun => handlers[h].run \in Runs,
         pc \in Ending => handlers[h].state \in TerminalStates,
         pc \in Storing => handlers[h].state \in RunStates,
         pc \in Unstarted => handlers[h].attempt = 0,
         pc = "sendTurn" => /\ handlers[h].attempt \in {0, 1}
                            /\ handlers[h].cmd.op = "RunChatTurn" => handlers[h].attempt = 0,
         handlers[h].cmd.op = "StartChatRun" /\ pc \in {"sendTurn", "awaitTurn", "recover"}
           => Known(handlers[h].chat)
  PROVE  Advances(h)
<1>1. Agrees(handlers[h]) /\ handlers \in [Handlers -> HandlerRecords]
  BY HandlerFacts
<1>2. /\ handlers' = [handlers EXCEPT ![h] = handlers'[h]]
      /\ handlers'[h] \in HandlerRecords
      /\ handlers'[h].pc = pc
      /\ handlers'[h].cmd = handlers[h].cmd /\ handlers'[h].chat = handlers[h].chat
      /\ handlers'[h].run = handlers[h].run /\ handlers'[h].state = handlers[h].state
      /\ handlers'[h].attempt = handlers[h].attempt
  BY <1>1, GoMove
<1>3. Agrees(handlers'[h])
  BY <1>1, <1>2 DEF Agrees
<1> QED BY <1>2, <1>3 DEF Advances, HandlerMoves, OnThread

\* Steps that look, or are refused, and go on.
LEMMA LooksIsNext ==
  ASSUME Refused \/ UNCHANGED vars
  PROVE  [Next]_vars
BY DEF Next

LEMMA KeyAdvances ==
  ASSUME RuntimeInv, NEW h \in Handlers,
         ReserveKey(h) \/ ReleaseKey(h) \/ RememberResult(h)
  PROVE  Advances(h)
<1>1. handlers[h].cmd.op \in Ops /\ handlers[h].pc \in LabelsOf(handlers[h].cmd.op)
  BY HandlerFacts
<1>2. /\ handlers[h].cmd.op \in {"StartChatRun", "RunChatTurn", "InterruptChatRun",
                                 "RespondChatPending"}
      /\ Scope(h) \in IdempotencyScopes
  <2>1. handlers[h].pc \in {"reserve", "release", "releaseBoth", "remember"}
    BY DEF ReserveKey, ReleaseKey, RememberResult
  <2>2. handlers[h].cmd.op \notin {"GetChatStatus", "Idle"}
    BY <1>1, <2>1 DEF LabelsOf
  <2> QED BY <1>1, <2>2, HandlerFacts DEF Ops
<1>3. CASE ReserveKey(h)
  <2>1. CASE ReserveIdempotency(Scope(h)) /\ Goto(h, FirstStep(handlers[h].cmd.op))
    <3> DEFINE pc == FirstStep(handlers[h].cmd.op)
    <3>1. pc \in HandlerLabels /\ pc \notin Leaving /\ pc \in LabelsOf(handlers[h].cmd.op)
      BY <1>2 DEF FirstStep, HandlerLabels, Leaving, LabelsOf
    <3>2. pc \in {"reserveCapacity", "resume", "lookRun", "lookPending"}
      BY <1>2 DEF FirstStep
    <3>3. handlers[h].attempt = 0
      BY <1>3, HandlerFacts DEF ReserveKey, Agrees, Unstarted
    <3>4. [Next]_vars
      BY <1>2, <2>1, ReservationCallIsNext
    <3> HIDE DEF pc
    <3> QED BY <2>1, <3>1, <3>2, <3>3, <3>4, GoAdvance
               DEF pc, OnChat, OnRun, Ending, Storing
  <2>2. CASE Refused /\ Goto(h, "done")
    <3>1. "done" \in Leaving /\ "done" \in LabelsOf(handlers[h].cmd.op)
      BY <1>2 DEF Leaving, LabelsOf
    <3> QED BY <2>2, <3>1, LooksIsNext, LeaveAdvance
  <2> QED BY <1>3, <2>1, <2>2 DEF ReserveKey
<1>4. CASE ReleaseKey(h)
  <2>1. PICK pc \in {"done", "releaseCapacity"} :
          Goto(h, pc) /\ (pc = "releaseCapacity" => handlers[h].pc = "releaseBoth")
    BY <1>4 DEF ReleaseKey
  <2>2. pc \in Leaving /\ pc \in LabelsOf(handlers[h].cmd.op)
    BY <1>1, <1>2, <2>1 DEF Leaving, LabelsOf
  <2>3. [Next]_vars
    BY <1>2, <1>4, ReservationCallIsNext DEF ReleaseKey
  <2> QED BY <2>1, <2>2, <2>3, LeaveAdvance
<1>5. CASE RememberResult(h)
  <2>1. "done" \in Leaving /\ "done" \in LabelsOf(handlers[h].cmd.op)
    BY <1>2 DEF Leaving, LabelsOf
  <2>2. [Next]_vars
    BY <1>2, <1>5, ReservationCallIsNext DEF RememberResult
  <2> QED BY <1>5, <2>1, <2>2, LeaveAdvance DEF RememberResult
<1> QED BY <1>3, <1>4, <1>5

LEMMA ReportStatusAdvances ==
  ASSUME RuntimeInv, NEW h \in Handlers, ReportStatus(h)
  PROVE  Advances(h)
<1>1. /\ handlers[h].cmd.op \in Ops /\ handlers[h].pc = "status"
      /\ handlers[h].pc \in LabelsOf(handlers[h].cmd.op)
  BY HandlerFacts DEF ReportStatus
<1>2. [Next]_vars
  BY LooksIsNext DEF ReportStatus, DropStaleRecords
<1>3. PICK pc \in {"done", "remember"} :
        Goto(h, pc) /\ (pc = "remember" => handlers[h].cmd.op # "GetChatStatus")
  BY DEF ReportStatus
<1>4. pc \in Leaving /\ pc \in LabelsOf(handlers[h].cmd.op)
  BY <1>1, <1>3 DEF Leaving, LabelsOf, Ops
<1> QED BY <1>2, <1>3, <1>4, LeaveAdvance

\* A run that CompleteRun or a reconciliation finds has its chat's record.
LEMMA ActiveRunFacts ==
  ASSUME RuntimeInv, NEW c \in Chats, HasActiveRun(c)
  PROVE  activeRuns[c] \in RunRecords /\ activeRuns[c].run \in Runs
BY DEF RuntimeInv, RuntimeTypeOK, TypeOK, HasActiveRun, RunRecords

LEMMA ReconcileAdvances ==
  ASSUME RuntimeInv, NEW h \in Handlers, Reconcile(h)
  PROVE  Advances(h)
<1>1. /\ handlers[h].cmd.op \in {"RunChatTurn", "GetChatStatus"}
      /\ handlers[h].pc = "reconcile" /\ Agrees(handlers[h])
      /\ handlers[h] \in HandlerRecords /\ handlers \in [Handlers -> HandlerRecords]
  BY HandlerFacts DEF Reconcile, LabelsOf, Ops
<1>2. handlers[h].chat \in Chats /\ handlers[h].attempt = 0
  BY <1>1 DEF Agrees, Validated, Unstarted
<1>3. [Next]_vars
  BY LooksIsNext DEF Reconcile
<1>4. CASE Goto(h, "startRun") /\ handlers[h].cmd.op = "RunChatTurn"
  <2>1. "startRun" \in LabelsOf(handlers[h].cmd.op) /\ "startRun" \in HandlerLabels
    BY <1>4 DEF LabelsOf, HandlerLabels
  <2> QED BY <1>2, <1>3, <1>4, <2>1, GoAdvance DEF Leaving, OnChat, OnRun, Ending, Storing
<1>5. CASE Goto(h, "status") /\ handlers[h].cmd.op = "GetChatStatus"
  <2>1. "status" \in LabelsOf(handlers[h].cmd.op) /\ "status" \in Leaving
    BY <1>5 DEF LabelsOf, Leaving
  <2> QED BY <1>3, <1>5, <2>1, LeaveAdvance
<1>6. CASE /\ HasActiveRun(handlers[h].chat)
           /\ \E state \in {"failed", "completed"} :
                handlers' = [handlers EXCEPT ![h] =
                  [@ EXCEPT !.pc = "reconcileAppend", !.run = activeRuns[handlers[h].chat].run,
                            !.state = state]]
  <2>1. PICK state \in {"failed", "completed"} :
          handlers' = [handlers EXCEPT ![h] =
            [@ EXCEPT !.pc = "reconcileAppend", !.run = activeRuns[handlers[h].chat].run,
                      !.state = state]]
    BY <1>6
  <2>2. activeRuns[handlers[h].chat].run \in Runs
    BY <1>2, <1>6, ActiveRunFacts
  <2>3. /\ handlers' = [handlers EXCEPT ![h] = handlers'[h]]
        /\ handlers'[h] \in HandlerRecords
        /\ handlers'[h].pc = "reconcileAppend" /\ handlers'[h].cmd = handlers[h].cmd
        /\ handlers'[h].chat = handlers[h].chat /\ handlers'[h].run \in Runs
        /\ handlers'[h].state = state /\ handlers'[h].attempt = handlers[h].attempt
    BY <1>1, <2>1, <2>2, ZenonT(30) DEF HandlerRecords, HandlerLabels, RunStates, TerminalStates
  <2>4. Agrees(handlers'[h])
    BY <1>1, <1>2, <2>3
       DEF Agrees, LabelsOf, OnChat, OnRun, Ending, Storing, Unstarted, TerminalStates
  <2> QED BY <1>3, <2>3, <2>4 DEF Advances, HandlerMoves, OnThread
<1> QED BY <1>1, <1>4, <1>5, <1>6 DEF Reconcile, AfterReconcile

\* The status events carry states that have a kind.
LEMMA StatusKinds ==
  /\ \A s \in RunStates : <<"status", s>> \in EventKinds
  /\ \A r \in PendingIds : /\ <<"pending_resolved", r>> \in EventKinds
                           /\ <<"pending_created", r>> \in EventKinds
  /\ TerminalStates \subseteq RunStates /\ LiveStates \subseteq RunStates
BY KindsCover DEF Statuses, Resolutions, Creations, RunStates

LEMMA ReconcileAppendAdvances ==
  ASSUME RuntimeInv, NEW h \in Handlers, ReconcileAppend(h)
  PROVE  Advances(h)
<1>1. /\ handlers[h].cmd.op \in {"RunChatTurn", "GetChatStatus"}
      /\ handlers[h].pc = "reconcileAppend" /\ Agrees(handlers[h])
      /\ RunScope(h) \in RunScopes
  BY HandlerFacts DEF ReconcileAppend, LabelsOf, Ops, OnRun
<1>2. /\ handlers[h].chat \in Chats /\ handlers[h].run \in Runs /\ handlers[h].attempt = 0
      /\ handlers[h].state \in TerminalStates
  BY <1>1 DEF Agrees, OnChat, OnRun, Ending, Unstarted
<1>3. [Next]_vars
  BY <1>1, <1>2, StatusKinds, AppendIsNext DEF ReconcileAppend
<1>4. /\ "reconcileComplete" \in LabelsOf(handlers[h].cmd.op)
      /\ "reconcileComplete" \in HandlerLabels /\ "reconcileComplete" \notin Leaving
  BY <1>1 DEF LabelsOf, HandlerLabels, Leaving
<1> QED BY <1>2, <1>3, <1>4, GoAdvance DEF ReconcileAppend, Storing

LEMMA ReconcileCompleteAdvances ==
  ASSUME RuntimeInv, NEW h \in Handlers, ReconcileComplete(h)
  PROVE  Advances(h)
<1>1. /\ handlers[h].cmd.op \in {"RunChatTurn", "GetChatStatus"}
      /\ handlers[h].pc = "reconcileComplete" /\ Agrees(handlers[h])
      /\ RunScope(h) \in RunScopes
  BY HandlerFacts DEF ReconcileComplete, LabelsOf, Ops, OnRun
<1>2. /\ handlers[h].chat \in Chats /\ handlers[h].attempt = 0
      /\ handlers[h].state \in TerminalStates
  BY <1>1 DEF Agrees, OnChat, OnRun, Ending, Unstarted
<1>3. [Next]_vars
  BY <1>1, <1>2, RunCallIsNext, LooksIsNext DEF ReconcileComplete
<1>4. CASE Goto(h, "startRun") /\ handlers[h].cmd.op = "RunChatTurn"
  <2>1. "startRun" \in LabelsOf(handlers[h].cmd.op) /\ "startRun" \in HandlerLabels
    BY <1>4 DEF LabelsOf, HandlerLabels
  <2> QED BY <1>2, <1>3, <1>4, <2>1, GoAdvance DEF Leaving, OnChat, OnRun, Ending, Storing
<1>5. CASE \E pc \in {"status", "release", "done"} :
             Goto(h, pc) /\ pc \in LabelsOf(handlers[h].cmd.op)
  BY <1>3, <1>5, LeaveAdvance DEF Leaving
<1> QED BY <1>1, <1>4, <1>5 DEF ReconcileComplete, AfterReconcile, LabelsOf

LEMMA ReadThreadAdvances ==
  ASSUME RuntimeInv, NEW h \in Handlers, ReadThread(h)
  PROVE  Advances(h)
<1>1. /\ handlers[h].cmd.op = "GetChatStatus" /\ handlers[h].pc = "readThread"
      /\ Agrees(handlers[h]) /\ handlers[h] \in HandlerRecords
      /\ handlers \in [Handlers -> HandlerRecords]
  BY HandlerFacts DEF ReadThread, LabelsOf, Ops
<1>2. handlers[h].chat \in Chats
  BY <1>1 DEF Agrees, Validated
<1>3. [Next]_vars
  BY LooksIsNext DEF ReadThread
<1>4. CASE Goto(h, "done")
  <2>1. "done" \in LabelsOf(handlers[h].cmd.op) /\ "done" \in Leaving
    BY <1>1 DEF LabelsOf, Leaving
  <2> QED BY <1>3, <1>4, <2>1, LeaveAdvance
<1>5. CASE handlers' = [handlers EXCEPT ![h] =
             [@ EXCEPT !.pc = "reconcile", !.lifecycle = Lifecycle(handlers[h].chat)]]
  <2>1. Lifecycle(handlers[h].chat) \in Lifecycles
    BY DEF Lifecycle, Lifecycles
  <2>2. /\ handlers' = [handlers EXCEPT ![h] = handlers'[h]]
        /\ handlers'[h] \in HandlerRecords
        /\ handlers'[h].pc = "reconcile" /\ handlers'[h].cmd = handlers[h].cmd
        /\ handlers'[h].chat = handlers[h].chat /\ handlers'[h].run = handlers[h].run
        /\ handlers'[h].attempt = handlers[h].attempt
    BY <1>1, <1>5, <2>1, ZenonT(30) DEF HandlerRecords, HandlerLabels
  <2>3. Agrees(handlers'[h])
    BY <1>1, <1>2, <2>2 DEF Agrees, LabelsOf, OnChat, OnRun, Ending, Storing, Unstarted
  <2> QED BY <1>3, <2>2, <2>3 DEF Advances, HandlerMoves, OnThread
<1> QED BY <1>4, <1>5 DEF ReadThread

LEMMA TurnAnsweredAdvances ==
  ASSUME RuntimeInv, NEW h \in Handlers, TurnAnswered(h)
  PROVE  Advances(h)
<1>1. /\ handlers[h].cmd.op \in {"StartChatRun", "RunChatTurn"}
      /\ handlers[h].pc = "awaitTurn" /\ Agrees(handlers[h])
      /\ handlers[h] \in HandlerRecords /\ handlers \in [Handlers -> HandlerRecords]
  BY HandlerFacts DEF TurnAnswered, LabelsOf, Ops
<1>2. handlers[h].chat \in Chats /\ handlers[h].answer \in Turns
  BY <1>1 DEF Agrees, OnChat, TurnAnswered, HandlerRecords
<1>3. [Next]_vars
  BY LooksIsNext DEF TurnAnswered
<1> DEFINE pc == IF handlers[h].cmd.op = "StartChatRun" THEN "install" ELSE "bind"
<1>4. pc \in LabelsOf(handlers[h].cmd.op) /\ pc \in HandlerLabels /\ pc \in {"install", "bind"}
  BY <1>1 DEF LabelsOf, HandlerLabels
<1>5. handlers' = [handlers EXCEPT ![h] =
        [@ EXCEPT !.pc = pc, !.run = handlers[h].answer, !.state = "running", !.answer = Null]]
  BY DEF TurnAnswered
<1> HIDE DEF pc
<1>6. handlers[h].answer \in Runs /\ "running" \in RunStates
  BY <1>2, RunsCover DEF RunStates, LiveStates
<1>7. /\ handlers' = [handlers EXCEPT ![h] = handlers'[h]]
      /\ handlers'[h] \in HandlerRecords
      /\ handlers'[h].pc = pc /\ handlers'[h].cmd = handlers[h].cmd
      /\ handlers'[h].chat = handlers[h].chat /\ handlers'[h].run \in Runs
      /\ handlers'[h].state = "running"
  BY <1>1, <1>4, <1>5, <1>6 DEF HandlerRecords
<1>8. Agrees(handlers'[h])
  BY <1>1, <1>2, <1>4, <1>6, <1>7 DEF Agrees, Ending, Unstarted
<1> QED BY <1>3, <1>4, <1>7, <1>8 DEF Advances, HandlerMoves, OnThread

LEMMA TurnFailsAdvances ==
  ASSUME RuntimeInv, NEW h \in Handlers, TurnFails(h)
  PROVE  Advances(h)
<1>1. /\ handlers[h].cmd.op \in {"StartChatRun", "RunChatTurn"}
      /\ handlers[h].pc = "awaitTurn" /\ Agrees(handlers[h]) /\ OnThread(handlers[h])
      /\ handlers[h] \in HandlerRecords /\ handlers \in [Handlers -> HandlerRecords]
  BY HandlerFacts DEF TurnFails, LabelsOf, Ops
<1>2. handlers[h].chat \in Chats
  BY <1>1 DEF Agrees, OnChat
<1>3. [Next]_vars
  BY LooksIsNext DEF TurnFails
<1> DEFINE pc == IF handlers[h].cmd.op = "StartChatRun" THEN "recover" ELSE "abandon"
<1>4. pc \in LabelsOf(handlers[h].cmd.op) /\ pc \in HandlerLabels /\ pc \in {"recover", "abandon"}
  BY <1>1 DEF LabelsOf, HandlerLabels
<1>5. handlers' = [handlers EXCEPT ![h] =
        [@ EXCEPT !.pc = pc, !.answer = Null, !.reads = 0, !.confirmedEmpty = FALSE]]
  BY DEF TurnFails
<1> HIDE DEF pc
<1>6. /\ handlers' = [handlers EXCEPT ![h] = handlers'[h]]
      /\ handlers'[h] \in HandlerRecords
      /\ handlers'[h].pc = pc /\ handlers'[h].cmd = handlers[h].cmd
      /\ handlers'[h].chat = handlers[h].chat /\ handlers'[h].run = handlers[h].run
  BY <1>1, <1>4, <1>5 DEF HandlerRecords
<1>7. Agrees(handlers'[h])
  BY <1>1, <1>2, <1>4, <1>6 DEF Agrees, OnRun, Ending, Storing, Unstarted
<1> QED BY <1>1, <1>3, <1>4, <1>6, <1>7 DEF Advances, HandlerMoves, OnThread

\* Reservations: taken, used up by the run or given back.
LEMMA CapacityAdvances ==
  ASSUME RuntimeInv, NEW h \in Handlers,
         ReserveCapacity(h) \/ ReleaseCapacity(h) \/ InstallRun(h)
  PROVE  Advances(h)
<1>1. /\ handlers[h].cmd.op = "StartChatRun" /\ Agrees(handlers[h])
      /\ handlers[h].pc \in {"reserveCapacity", "releaseCapacity", "install"}
  BY HandlerFacts DEF ReserveCapacity, ReleaseCapacity, InstallRun, LabelsOf, Ops
<1>2. Scope(h) \in IdempotencyScopes
  BY <1>1, HandlerFacts
<1>3. CASE ReserveCapacity(h)
  <2>1. [Next]_vars
    BY <1>2, <1>3, ReservationCallIsNext, LooksIsNext DEF ReserveCapacity
  <2>2. CASE Goto(h, "startThread")
    <3>1. "startThread" \in LabelsOf(handlers[h].cmd.op) /\ "startThread" \in HandlerLabels
      BY <1>1 DEF LabelsOf, HandlerLabels
    <3>2. handlers[h].attempt = 0
      BY <1>1, <1>3 DEF ReserveCapacity, Agrees, Unstarted
    <3> QED BY <2>1, <2>2, <3>1, <3>2, GoAdvance DEF Leaving, OnChat, OnRun, Ending, Storing
  <2>3. CASE Goto(h, "release")
    <3>1. "release" \in LabelsOf(handlers[h].cmd.op) /\ "release" \in Leaving
      BY <1>1 DEF LabelsOf, Leaving
    <3> QED BY <2>1, <2>3, <3>1, LeaveAdvance
  <2> QED BY <1>3, <2>2, <2>3 DEF ReserveCapacity
<1>4. CASE ReleaseCapacity(h)
  <2>1. [Next]_vars
    BY <1>2, <1>4, ReservationCallIsNext DEF ReleaseCapacity
  <2>2. "done" \in LabelsOf(handlers[h].cmd.op) /\ "done" \in Leaving
    BY <1>1 DEF LabelsOf, Leaving
  <2> QED BY <1>4, <2>1, <2>2, LeaveAdvance DEF ReleaseCapacity
<1>5. CASE InstallRun(h)
  <2>1. RunScope(h) \in RunScopes /\ handlers[h].chat \in Chats /\ handlers[h].run \in Runs
        /\ handlers[h].state \in RunStates
    BY <1>1, <1>5, HandlerFacts DEF InstallRun, OnRun, OnChat, Storing, Agrees
  <2>2. [Next]_vars
    BY <1>2, <1>5, <2>1, ReservationCallIsNext, LooksIsNext DEF InstallRun
  <2>3. CASE Goto(h, "markRunning")
    <3>1. "markRunning" \in LabelsOf(handlers[h].cmd.op) /\ "markRunning" \in HandlerLabels
      BY <1>1 DEF LabelsOf, HandlerLabels
    <3> QED BY <2>1, <2>2, <2>3, <3>1, GoAdvance DEF Leaving, Ending, Unstarted
  <2>4. CASE Goto(h, "releaseCapacity")
    <3>1. "releaseCapacity" \in LabelsOf(handlers[h].cmd.op) /\ "releaseCapacity" \in Leaving
      BY <1>1 DEF LabelsOf, Leaving
    <3> QED BY <2>2, <2>4, <3>1, LeaveAdvance
  <2> QED BY <1>5, <2>3, <2>4 DEF InstallRun
<1> QED BY <1>3, <1>4, <1>5

LEMMA RecoverReadAdvances ==
  ASSUME RuntimeInv, NEW h \in Handlers, RecoverRead(h)
  PROVE  Advances(h)
<1>1. /\ handlers[h].cmd.op = "StartChatRun" /\ handlers[h].pc = "recover"
      /\ Agrees(handlers[h]) /\ OnThread(handlers[h])
      /\ handlers[h] \in HandlerRecords /\ handlers \in [Handlers -> HandlerRecords]
  BY HandlerFacts DEF RecoverRead, LabelsOf, Ops
<1>2. handlers[h].chat \in Chats /\ Known(handlers[h].chat) /\ handlers[h].reads \in Nat
  BY <1>1 DEF Agrees, OnChat, OnThread, HandlerRecords
<1>3. [Next]_vars
  BY LooksIsNext DEF RecoverRead
<1>4. CASE \/ handlers' = [handlers EXCEPT ![h].reads = @ + 1]
           \/ handlers' = [handlers EXCEPT ![h].reads = @ + 1, ![h].confirmedEmpty = TRUE]
  <2> DEFINE x == handlers[h]
             reads == x.reads + 1
  <2>1. reads \in Nat /\ x \in HandlerRecords
    BY <1>1, <1>2
  <2>2. /\ handlers' = [handlers EXCEPT ![h] = handlers'[h]]
        /\ \/ handlers'[h] = [x EXCEPT !.reads = reads]
           \/ handlers'[h] = [x EXCEPT !.reads = reads, !.confirmedEmpty = TRUE]
    <3>1. CASE handlers' = [handlers EXCEPT ![h].reads = @ + 1]
      BY <1>1, <3>1
    <3>2. CASE handlers' = [handlers EXCEPT ![h].reads = @ + 1, ![h].confirmedEmpty = TRUE]
      BY <1>1, <3>2
    <3> QED BY <1>4, <3>1, <3>2
  <2> HIDE DEF reads, x
  <2>3. /\ handlers'[h] \in HandlerRecords
        /\ handlers'[h].pc = x.pc /\ handlers'[h].cmd = x.cmd /\ handlers'[h].chat = x.chat
        /\ handlers'[h].run = x.run
    BY <2>1, <2>2 DEF HandlerRecords
  <2>4. Agrees(handlers'[h])
    BY <1>1, <2>3 DEF Agrees, OnRun, Ending, Storing, Unstarted, x
  <2> QED BY <1>1, <1>3, <2>2, <2>3, <2>4 DEF Advances, HandlerMoves, OnThread, x
<1>5. CASE /\ threads[handlers[h].chat] # <<>>
           /\ LET ts == threads[handlers[h].chat]
                  t == ts[Len(ts)]
                  state == IF t \in LiveTurns THEN "running" ELSE turns[t].state
              IN  handlers' = [handlers EXCEPT ![h] =
                    [@ EXCEPT !.pc = "install", !.run = t, !.state = state]]
  <2> DEFINE ts == threads[handlers[h].chat]
             t == ts[Len(ts)]
             state == IF t \in LiveTurns THEN "running" ELSE turns[t].state
  <2>1. ts \in Seq(Turns) /\ ts # <<>> /\ \A i \in 1..Len(ts) : turns[ts[i]] \in TurnRecords
    BY <1>2, <1>5 DEF Known
  <2>2. t \in Turns /\ turns[t] \in TurnRecords
    BY <2>1
  <2>3. state \in RunStates
    BY <2>2, NullIsNothing DEF LiveTurns, TurnRecords, TurnStates, RunStates, LiveStates
  <2>4. handlers' = [handlers EXCEPT ![h] =
          [@ EXCEPT !.pc = "install", !.run = t, !.state = state]]
    BY <1>5
  <2> HIDE DEF t, state
  <2>5. t \in Runs
    BY <2>2, RunsCover
  <2>6. /\ handlers' = [handlers EXCEPT ![h] = handlers'[h]]
        /\ handlers'[h] = [handlers[h] EXCEPT !.pc = "install", !.run = t, !.state = state]
    BY <1>1, <2>4
  <2>7. /\ handlers'[h] \in HandlerRecords
        /\ handlers'[h].pc = "install" /\ handlers'[h].cmd = handlers[h].cmd
        /\ handlers'[h].chat = handlers[h].chat /\ handlers'[h].run = t
        /\ handlers'[h].state = state
    BY <1>1, <2>3, <2>5, <2>6, ZenonT(30) DEF HandlerRecords, HandlerLabels
  <2>8. "install" \in LabelsOf("StartChatRun")
    BY DEF LabelsOf
  <2>9. Agrees(handlers'[h])
    BY <1>1, <1>2, <2>3, <2>5, <2>7, <2>8 DEF Agrees, Ending, Unstarted
  <2> QED BY <1>3, <2>6, <2>7, <2>9 DEF Advances, HandlerMoves, OnThread
<1> QED BY <1>4, <1>5 DEF RecoverRead

LEMMA RecoverGivesUpAdvances ==
  ASSUME RuntimeInv, NEW h \in Handlers, RecoverGivesUp(h)
  PROVE  Advances(h)
<1>1. /\ handlers[h].cmd.op = "StartChatRun" /\ handlers[h].pc = "recover"
      /\ Agrees(handlers[h]) /\ OnThread(handlers[h])
  BY HandlerFacts DEF RecoverGivesUp, LabelsOf, Ops
<1>2. handlers[h].chat \in Chats /\ Known(handlers[h].chat)
  BY <1>1 DEF Agrees, OnChat, OnThread
<1>3. [Next]_vars
  BY LooksIsNext DEF RecoverGivesUp
<1>4. CASE Goto(h, "sendTurn") /\ handlers[h].attempt = 1
  <2>1. "sendTurn" \in LabelsOf(handlers[h].cmd.op) /\ "sendTurn" \in HandlerLabels
    BY <1>1 DEF LabelsOf, HandlerLabels
  <2> QED BY <1>1, <1>2, <1>3, <1>4, <2>1, GoAdvance
             DEF Leaving, OnRun, Ending, Storing, Unstarted
<1>5. CASE Goto(h, "releaseCapacity")
  <2>1. "releaseCapacity" \in LabelsOf(handlers[h].cmd.op) /\ "releaseCapacity" \in Leaving
    BY <1>1 DEF LabelsOf, Leaving
  <2> QED BY <1>3, <1>5, <2>1, LeaveAdvance
<1> QED BY <1>4, <1>5 DEF RecoverGivesUp

\* The run of a StartChatRun or a RunChatTurn, from its start to its announcement.
LEMMA RunAdvances ==
  ASSUME RuntimeInv, NEW h \in Handlers,
         \/ StartProvisionalRun(h) \/ AbandonRun(h) \/ BindRun(h)
         \/ MarkRunning(h) \/ AnnounceRun(h) \/ CompleteRecovered(h)
  PROVE  Advances(h)
<1>1. /\ handlers[h].cmd.op \in {"StartChatRun", "RunChatTurn"}
      /\ Agrees(handlers[h]) /\ handlers[h].pc \in LabelsOf(handlers[h].cmd.op)
      /\ handlers[h].pc \in OnRun => RunScope(h) \in RunScopes
      /\ handlers[h].cmd.op = "RunChatTurn" => Provisional(h) \in RunScopes
      /\ handlers[h] \in HandlerRecords
  BY HandlerFacts DEF StartProvisionalRun, AbandonRun, BindRun, MarkRunning, AnnounceRun,
                      CompleteRecovered, LabelsOf, Ops
<1>2. /\ handlers[h].pc \in {"startRun", "abandon"} => handlers[h].cmd.op = "RunChatTurn"
      /\ handlers[h].pc = "bind" => handlers[h].cmd.op = "RunChatTurn"
      /\ handlers[h].pc = "complete" => handlers[h].cmd.op = "StartChatRun"
  BY <1>1 DEF LabelsOf
<1>3. CASE StartProvisionalRun(h)
  <2>1. /\ handlers[h].cmd.op = "RunChatTurn" /\ handlers[h].attempt = 0
        /\ handlers[h].chat \in Chats
    BY <1>1, <1>2, <1>3 DEF StartProvisionalRun, Agrees, Validated, Unstarted
  <2>2. [Next]_vars
    BY <1>1, <1>3, <2>1, RunCallIsNext, LooksIsNext DEF StartProvisionalRun
  <2>3. CASE Goto(h, "sendTurn")
    <3>1. "sendTurn" \in LabelsOf(handlers[h].cmd.op) /\ "sendTurn" \in HandlerLabels
      BY <2>1 DEF LabelsOf, HandlerLabels
    <3> QED BY <2>1, <2>2, <2>3, <3>1, GoAdvance
               DEF Leaving, OnRun, Ending, Storing, Unstarted
  <2>4. CASE Goto(h, "release")
    <3>1. "release" \in LabelsOf(handlers[h].cmd.op) /\ "release" \in Leaving
      BY <2>1 DEF LabelsOf, Leaving
    <3> QED BY <2>2, <2>4, <3>1, LeaveAdvance
  <2> QED BY <1>3, <2>3, <2>4 DEF StartProvisionalRun
<1>4. CASE AbandonRun(h)
  <2>1. [Next]_vars
    BY <1>1, <1>2, <1>4, RunCallIsNext, LooksIsNext DEF AbandonRun, TerminalStates
  <2>2. "done" \in LabelsOf(handlers[h].cmd.op) /\ "done" \in Leaving
    BY <1>1 DEF LabelsOf, Leaving
  <2> QED BY <1>4, <2>1, <2>2, LeaveAdvance DEF AbandonRun
<1>5. CASE BindRun(h)
  <2>1. handlers[h].chat \in Chats /\ handlers[h].run \in Runs /\ handlers[h].state \in RunStates
    BY <1>1, <1>5 DEF BindRun, Agrees, OnChat, OnRun, Storing
  <2>2. [Next]_vars
    BY <1>1, <1>2, <1>5, <2>1, RunCallIsNext, LooksIsNext DEF BindRun
  <2>3. CASE Goto(h, "markRunning")
    <3>1. "markRunning" \in LabelsOf(handlers[h].cmd.op) /\ "markRunning" \in HandlerLabels
      BY <1>1 DEF LabelsOf, HandlerLabels
    <3> QED BY <2>1, <2>2, <2>3, <3>1, GoAdvance DEF Leaving, Ending, Unstarted
  <2>4. CASE Goto(h, "done")
    <3>1. "done" \in LabelsOf(handlers[h].cmd.op) /\ "done" \in Leaving
      BY <1>1 DEF LabelsOf, Leaving
    <3> QED BY <2>2, <2>4, <3>1, LeaveAdvance
  <2> QED BY <1>5, <2>3, <2>4 DEF BindRun
<1>6. CASE MarkRunning(h)
  <2>1. /\ handlers[h].chat \in Chats /\ handlers[h].run \in Runs
        /\ handlers[h].state \in RunStates /\ RunScope(h) \in RunScopes
    BY <1>1, <1>6 DEF MarkRunning, Agrees, OnChat, OnRun, Storing
  <2>2. [Next]_vars
    BY <1>6, <2>1, RunCallIsNext, LooksIsNext DEF MarkRunning
  <2>3. CASE Goto(h, "announceRun")
    <3>1. "announceRun" \in LabelsOf(handlers[h].cmd.op) /\ "announceRun" \in HandlerLabels
      BY <1>1 DEF LabelsOf, HandlerLabels
    <3> QED BY <2>1, <2>2, <2>3, <3>1, GoAdvance DEF Leaving, Ending, Unstarted
  <2>4. CASE Goto(h, "done")
    <3>1. "done" \in LabelsOf(handlers[h].cmd.op) /\ "done" \in Leaving
      BY <1>1 DEF LabelsOf, Leaving
    <3> QED BY <2>2, <2>4, <3>1, LeaveAdvance
  <2> QED BY <1>6, <2>3, <2>4 DEF MarkRunning
<1>7. CASE AnnounceRun(h)
  <2>1. /\ handlers[h].chat \in Chats /\ handlers[h].run \in Runs
        /\ handlers[h].state \in RunStates /\ RunScope(h) \in RunScopes
    BY <1>1, <1>7 DEF AnnounceRun, Agrees, OnChat, OnRun, Storing
  <2>2. [Next]_vars
    BY <1>7, <2>1, AppendIsNext, StatusKinds DEF AnnounceRun
  <2>3. CASE /\ Goto(h, "complete") /\ handlers[h].cmd.op = "StartChatRun"
             /\ handlers[h].state \in TerminalStates
    <3>1. "complete" \in LabelsOf(handlers[h].cmd.op) /\ "complete" \in HandlerLabels
      BY <2>3 DEF LabelsOf, HandlerLabels
    <3> QED BY <2>1, <2>2, <2>3, <3>1, GoAdvance DEF Leaving, Storing, Unstarted
  <2>4. CASE \E pc \in {"status", "remember"} :
               Goto(h, pc) /\ pc \in LabelsOf(handlers[h].cmd.op)
    BY <2>2, <2>4, LeaveAdvance DEF Leaving
  <2> QED BY <1>1, <1>7, <2>3, <2>4 DEF AnnounceRun, LabelsOf
<1>8. CASE CompleteRecovered(h)
  <2>1. handlers[h].state \in TerminalStates /\ RunScope(h) \in RunScopes
    BY <1>1, <1>8 DEF CompleteRecovered, Agrees, OnRun, Ending
  <2>2. [Next]_vars
    BY <1>8, <2>1, RunCallIsNext, LooksIsNext DEF CompleteRecovered
  <2>3. PICK pc \in {"remember", "done"} : Goto(h, pc)
    BY <1>8 DEF CompleteRecovered
  <2>4. pc \in LabelsOf(handlers[h].cmd.op) /\ pc \in Leaving
    BY <1>1 DEF LabelsOf, Leaving
  <2> QED BY <2>2, <2>3, <2>4, LeaveAdvance
<1> QED BY <1>3, <1>4, <1>5, <1>6, <1>7, <1>8

LEMMA InterruptAdvances ==
  ASSUME RuntimeInv, NEW h \in Handlers,
         LookRun(h) \/ MarkInterrupting(h) \/ AnnounceInterrupt(h)
  PROVE  Advances(h)
<1>1. /\ handlers[h].cmd.op = "InterruptChatRun" /\ Agrees(handlers[h])
  BY HandlerFacts DEF LookRun, MarkInterrupting, AnnounceInterrupt, LabelsOf, Ops
<1>2. RunScope(h) \in RunScopes
  BY <1>1, RunsCover DEF Agrees, Validated, RunScope, RunScopes
<1>3. CASE LookRun(h)
  <2>1. [Next]_vars
    BY <1>3, LooksIsNext DEF LookRun
  <2>2. CASE Goto(h, "sendInterrupt")
    <3>1. "sendInterrupt" \in LabelsOf(handlers[h].cmd.op) /\ "sendInterrupt" \in HandlerLabels
      BY <1>1 DEF LabelsOf, HandlerLabels
    <3> QED BY <1>1, <2>1, <2>2, <3>1, GoAdvance
               DEF Leaving, OnChat, OnRun, Ending, Storing, Unstarted
  <2>3. CASE \E pc \in {"release", "status"} : Goto(h, pc)
    <3>1. \A pc \in {"release", "status"} : pc \in LabelsOf(handlers[h].cmd.op) /\ pc \in Leaving
      BY <1>1 DEF LabelsOf, Leaving
    <3> QED BY <2>1, <2>3, <3>1, LeaveAdvance
  <2> QED BY <1>3, <2>2, <2>3 DEF LookRun
<1>4. CASE MarkInterrupting(h)
  <2>1. [Next]_vars
    BY <1>2, <1>4, RunCallIsNext, LooksIsNext DEF MarkInterrupting, RunStates, LiveStates
  <2>2. "announceInterrupt" \in LabelsOf(handlers[h].cmd.op)
        /\ "announceInterrupt" \in HandlerLabels
    BY <1>1 DEF LabelsOf, HandlerLabels
  <2> QED BY <1>1, <1>4, <2>1, <2>2, GoAdvance
             DEF MarkInterrupting, Leaving, OnChat, OnRun, Ending, Storing, Unstarted
<1>5. CASE AnnounceInterrupt(h)
  <2>1. [Next]_vars
    BY <1>2, <1>5, AppendIsNext, StatusKinds DEF AnnounceInterrupt, RunStates, LiveStates
  <2>2. "status" \in LabelsOf(handlers[h].cmd.op) /\ "status" \in Leaving
    BY <1>1 DEF LabelsOf, Leaving
  <2> QED BY <1>5, <2>1, <2>2, LeaveAdvance DEF AnnounceInterrupt
<1> QED BY <1>3, <1>4, <1>5

\* Between its claim and its end a RespondChatPending keeps its chat and its run.
Delivering == {"write", "finish", "unclaim", "resolve", "restore", "announceResolved"}

LEMMA RespondGoes ==
  ASSUME RuntimeInv, NEW h \in Handlers, NEW pc,
         \/ pc \in Delivering /\ handlers[h].pc \in OnRun
         \/ pc \in {"release", "status", "remember", "done"},
         handlers[h].cmd.op = "RespondChatPending", Goto(h, pc), [Next]_vars
  PROVE  Advances(h) /\ handlers'[h].pc = pc
<1>1. Agrees(handlers[h]) /\ pc \in LabelsOf(handlers[h].cmd.op)
      /\ handlers \in [Handlers -> HandlerRecords]
  BY HandlerFacts DEF LabelsOf, Delivering
<1>2. CASE pc \in Delivering /\ handlers[h].pc \in OnRun
  <2>1. handlers[h].chat \in Chats /\ handlers[h].run \in Runs
    BY <1>1, <1>2 DEF Agrees, OnChat
  <2>2. pc \in HandlerLabels /\ pc \notin Leaving
        /\ pc \notin Ending /\ pc \notin Storing /\ pc \notin Unstarted /\ pc # "sendTurn"
    BY <1>2 DEF Delivering, HandlerLabels, Leaving, Ending, Storing, Unstarted
  <2> QED BY <1>1, <2>1, <2>2, GoAdvance, GoMove
<1>3. CASE pc \in {"release", "status", "remember", "done"}
  BY <1>1, <1>3, LeaveAdvance, LeaveMove DEF Leaving
<1> QED BY <1>2, <1>3

LEMMA LookPendingAdvances ==
  ASSUME RuntimeInv, NEW h \in Handlers, LookPending(h)
  PROVE  Advances(h)
<1>1. /\ handlers[h].cmd.op = "RespondChatPending" /\ Agrees(handlers[h])
      /\ handlers[h].pc = "lookPending"
      /\ handlers[h] \in HandlerRecords /\ handlers \in [Handlers -> HandlerRecords]
  BY HandlerFacts DEF LookPending, LabelsOf, Ops
<1>2. handlers[h].chat \in Chats
  BY <1>1 DEF Agrees, Validated
<1>3. [Next]_vars
  BY LooksIsNext DEF LookPending
<1>4. CASE /\ HasActiveRun(handlers[h].chat)
           /\ handlers' = [handlers EXCEPT ![h] =
                [@ EXCEPT !.pc = "claim", !.run = activeRuns[handlers[h].chat].run]]
  <2> DEFINE run == activeRuns[handlers[h].chat].run
  <2>1. run \in Runs
    BY <1>2, <1>4, ActiveRunFacts
  <2>2. /\ handlers' = [handlers EXCEPT ![h] = handlers'[h]]
        /\ handlers'[h] = [handlers[h] EXCEPT !.pc = "claim", !.run = run]
    BY <1>1, <1>4
  <2> HIDE DEF run
  <2>3. /\ handlers'[h] \in HandlerRecords
        /\ handlers'[h].pc = "claim" /\ handlers'[h].cmd = handlers[h].cmd
        /\ handlers'[h].chat = handlers[h].chat /\ handlers'[h].run = run
    BY <1>1, <2>1, <2>2, ZenonT(30) DEF HandlerRecords, HandlerLabels
  <2>4. "claim" \in LabelsOf("RespondChatPending")
    BY DEF LabelsOf
  <2>5. Agrees(handlers'[h])
    BY <1>1, <1>2, <2>1, <2>3, <2>4 DEF Agrees, Ending, Storing, Unstarted
  <2> QED BY <1>1, <1>3, <2>2, <2>3, <2>5 DEF Advances, HandlerMoves, OnThread
<1>5. CASE Goto(h, "release")
  BY <1>1, <1>3, <1>5, RespondGoes
<1> QED BY <1>4, <1>5 DEF LookPending

\* The delivery of a response: claimed, written, and the claim settled.
LEMMA RespondAdvances ==
  ASSUME RuntimeInv, NEW h \in Handlers,
         \/ ClaimPending(h) \/ FinishResponse(h) \/ ReleaseClaim(h)
         \/ ResolveRequest(h) \/ RestoreRun(h) \/ AnnounceResolved(h)
  PROVE  Advances(h)
<1>1. /\ handlers[h].cmd.op = "RespondChatPending" /\ handlers[h].pc \in OnRun
      /\ Agrees(handlers[h])
  BY HandlerFacts DEF ClaimPending, FinishResponse, ReleaseClaim, ResolveRequest, RestoreRun,
                      AnnounceResolved, LabelsOf, Ops, OnRun
<1>2. PendingKey(h) \in PendingKeys /\ RunScope(h) \in RunScopes
  BY <1>1, HandlerFacts
<1>3. [Next]_vars
  <2>1. CASE ClaimPending(h)
    BY <1>2, <2>1, PendingCallIsNext, LooksIsNext DEF ClaimPending, RefuseResponse
  <2>2. CASE FinishResponse(h)
    BY <2>2, LooksIsNext DEF FinishResponse
  <2>3. CASE ReleaseClaim(h) \/ ResolveRequest(h)
    BY <1>2, <2>3, PendingCallIsNext, LooksIsNext DEF ReleaseClaim, ResolveRequest
  <2>4. CASE RestoreRun(h)
    BY <1>2, <2>4, RunCallIsNext, LooksIsNext DEF RestoreRun
  <2>5. CASE AnnounceResolved(h)
    <3>1. handlers[h].cmd.request \in PendingIds
      BY <1>1 DEF Agrees, Validated
    <3> QED BY <1>2, <2>5, <3>1, AppendIsNext, StatusKinds DEF AnnounceResolved
  <2> QED BY <2>1, <2>2, <2>3, <2>4, <2>5
<1>4. \E pc \in Delivering \cup {"release", "status", "done"} : Goto(h, pc)
  <2>1. CASE ClaimPending(h)
    BY <2>1 DEF ClaimPending, RefuseResponse, Delivering
  <2>2. CASE FinishResponse(h)
    BY <2>2 DEF FinishResponse, Delivering
  <2>3. CASE ReleaseClaim(h) \/ ResolveRequest(h) \/ RestoreRun(h) \/ AnnounceResolved(h)
    BY <2>3 DEF ReleaseClaim, ResolveRequest, RestoreRun, AnnounceResolved, Delivering
  <2> QED BY <2>1, <2>2, <2>3
<1> QED BY <1>1, <1>3, <1>4, RespondGoes

\* Sending turn/start or turn/interrupt, writing a response, resuming a thread.
LEMMA SendAdvances ==
  ASSUME RuntimeInv, NEW h \in Handlers, SendTurn(h)
  PROVE  /\ Advances(h) /\ handlers'[h].pc = "awaitTurn"
         /\ calls' \subseteq Calls
<1>1. /\ handlers[h].cmd.op \in {"StartChatRun", "RunChatTurn"}
      /\ handlers[h].pc = "sendTurn" /\ Agrees(handlers[h]) /\ OnThread(handlers[h])
      /\ handlers[h] \in HandlerRecords /\ handlers \in [Handlers -> HandlerRecords]
  BY HandlerFacts DEF SendTurn, LabelsOf, Ops
<1> DEFINE n == handlers[h].attempt + 1
<1>2. handlers[h].chat \in Chats /\ n \in {1, 2}
  BY <1>1 DEF Agrees, OnChat
<1>3. /\ calls' = calls \cup {[handler |-> h, attempt |-> n, chat |-> handlers[h].chat]}
      /\ handlers' = [handlers EXCEPT ![h] =
           [@ EXCEPT !.pc = "awaitTurn", !.attempt = n, !.answer = Null]]
  BY DEF SendTurn
<1> HIDE DEF n
<1>4. calls' \subseteq Calls
  BY <1>2, <1>3 DEF RuntimeInv, RuntimeTypeOK, Calls
<1>5. /\ handlers' = [handlers EXCEPT ![h] = handlers'[h]]
      /\ handlers'[h] = [handlers[h] EXCEPT !.pc = "awaitTurn", !.attempt = n, !.answer = Null]
  BY <1>1, <1>3
<1>6. /\ handlers'[h] \in HandlerRecords
      /\ handlers'[h].pc = "awaitTurn" /\ handlers'[h].cmd = handlers[h].cmd
      /\ handlers'[h].chat = handlers[h].chat /\ handlers'[h].run = handlers[h].run
  BY <1>1, <1>2, <1>5 DEF HandlerRecords, HandlerLabels
<1>7. "awaitTurn" \in LabelsOf(handlers[h].cmd.op)
  BY <1>1 DEF LabelsOf
<1>8. Agrees(handlers'[h])
  BY <1>1, <1>2, <1>6, <1>7 DEF Agrees, OnRun, Ending, Storing, Unstarted
<1>9. [Next]_vars
  BY LooksIsNext DEF SendTurn
<1> QED BY <1>1, <1>4, <1>5, <1>6, <1>8, <1>9 DEF Advances, HandlerMoves, OnThread

LEMMA SendInterruptAdvances ==
  ASSUME RuntimeInv, NEW h \in Handlers, SendInterrupt(h)
  PROVE  Advances(h) /\ interrupts' \subseteq Turns
<1>1. handlers[h].cmd.op = "InterruptChatRun" /\ Agrees(handlers[h])
  BY HandlerFacts DEF SendInterrupt, LabelsOf, Ops
<1>2. [Next]_vars
  BY LooksIsNext DEF SendInterrupt
<1>3. interrupts' \subseteq Turns
  BY <1>1 DEF SendInterrupt, RuntimeInv, RuntimeTypeOK, Agrees, Validated
<1>4. CASE Goto(h, "markInterrupting")
  <2>1. "markInterrupting" \in LabelsOf(handlers[h].cmd.op) /\ "markInterrupting" \in HandlerLabels
    BY <1>1 DEF LabelsOf, HandlerLabels
  <2> QED BY <1>1, <1>2, <1>3, <1>4, <2>1, GoAdvance
             DEF Leaving, OnChat, OnRun, Ending, Storing, Unstarted
<1>5. CASE \E pc \in {"release", "done"} : Goto(h, pc)
  <2>1. \A pc \in {"release", "done"} : pc \in LabelsOf(handlers[h].cmd.op) /\ pc \in Leaving
    BY <1>1 DEF LabelsOf, Leaving
  <2> QED BY <1>2, <1>3, <1>5, <2>1, LeaveAdvance
<1> QED BY <1>4, <1>5 DEF SendInterrupt

LEMMA WriteAdvances ==
  ASSUME RuntimeInv, NEW h \in Handlers, WriteResponse(h)
  PROVE  /\ Advances(h)
         /\ handlers'[h].pc = "finish" /\ handlers'[h].cmd = handlers[h].cmd
         /\ handlers'[h].chat = handlers[h].chat /\ handlers'[h].run = handlers[h].run
         /\ handlers'[h].written => requests[handlers[h].cmd.request].state = "hooked"
         /\ requests' = IF requests[handlers[h].cmd.request].state # "hooked" THEN requests
                        ELSE [requests EXCEPT ![handlers[h].cmd.request].state =
                                IF handlers'[h].written THEN "answered" ELSE "broken"]
<1>1. /\ handlers[h].cmd.op = "RespondChatPending" /\ handlers[h].pc = "write"
      /\ Agrees(handlers[h]) /\ handlers[h] \in HandlerRecords
      /\ handlers \in [Handlers -> HandlerRecords]
  BY HandlerFacts DEF WriteResponse, LabelsOf, Ops
<1> DEFINE r == handlers[h].cmd.request
<1>2. PICK written \in {requests[r].state = "hooked", FALSE} :
        /\ handlers' = [handlers EXCEPT ![h] =
                          [@ EXCEPT !.pc = "finish", !.written = written]]
        /\ requests' = IF requests[r].state # "hooked" THEN requests
                       ELSE [requests EXCEPT ![r].state =
                               IF written THEN "answered" ELSE "broken"]
  BY DEF WriteResponse
<1>3. written \in BOOLEAN /\ (written => requests[r].state = "hooked")
  BY <1>2
<1>4. /\ handlers' = [handlers EXCEPT ![h] = handlers'[h]]
      /\ handlers'[h] = [handlers[h] EXCEPT !.pc = "finish", !.written = written]
  BY <1>1, <1>2
<1>5. /\ handlers'[h] \in HandlerRecords
      /\ handlers'[h].pc = "finish" /\ handlers'[h].cmd = handlers[h].cmd
      /\ handlers'[h].chat = handlers[h].chat /\ handlers'[h].run = handlers[h].run
      /\ handlers'[h].written = written
  BY <1>1, <1>3, <1>4, ZenonT(30) DEF HandlerRecords, HandlerLabels
<1>6. "finish" \in LabelsOf("RespondChatPending")
  BY DEF LabelsOf
<1>7. Agrees(handlers'[h])
  BY <1>1, <1>5, <1>6 DEF Agrees, OnChat, OnRun, Ending, Storing, Unstarted
<1>8. [Next]_vars
  BY LooksIsNext DEF WriteResponse
<1> QED BY <1>1, <1>2, <1>3, <1>4, <1>5, <1>7, <1>8 DEF Advances, HandlerMoves, OnThread

LEMMA ResumeThreadAdvances ==
  ASSUME RuntimeInv, NEW h \in Handlers, ResumeThread(h)
  PROVE  /\ Advances(h)
         /\ loaded' \subseteq Chats
         /\ \A c \in loaded' : c \in loaded \/ threads[c] # Null
<1>1. /\ handlers[h].cmd.op = "RunChatTurn" /\ handlers[h].pc = "resume"
      /\ Agrees(handlers[h]) /\ handlers[h] \in HandlerRecords
      /\ handlers \in [Handlers -> HandlerRecords]
  BY HandlerFacts DEF ResumeThread, LabelsOf, Ops
<1>2. handlers[h].chat \in Chats /\ handlers[h].attempt = 0
  BY <1>1 DEF Agrees, Validated, Unstarted
<1>3. loaded' \subseteq Chats /\ \A c \in loaded' : c \in loaded \/ threads[c] # Null
  BY <1>2 DEF ResumeThread, RuntimeInv, RuntimeTypeOK
<1>4. [Next]_vars
  BY LooksIsNext DEF ResumeThread
<1>5. CASE Goto(h, "release")
  <2>1. "release" \in LabelsOf(handlers[h].cmd.op) /\ "release" \in Leaving
    BY <1>1 DEF LabelsOf, Leaving
  <2> QED BY <1>3, <1>4, <1>5, <2>1, LeaveAdvance
<1>6. CASE handlers' = [handlers EXCEPT ![h] =
             [@ EXCEPT !.pc = "reconcile", !.lifecycle = "idle"]]
  <2>1. /\ handlers' = [handlers EXCEPT ![h] = handlers'[h]]
        /\ handlers'[h] = [handlers[h] EXCEPT !.pc = "reconcile", !.lifecycle = "idle"]
    BY <1>1, <1>6
  <2>2. /\ handlers'[h] \in HandlerRecords
        /\ handlers'[h].pc = "reconcile" /\ handlers'[h].cmd = handlers[h].cmd
        /\ handlers'[h].chat = handlers[h].chat /\ handlers'[h].run = handlers[h].run
        /\ handlers'[h].attempt = handlers[h].attempt
    BY <1>1, <2>1, ZenonT(30) DEF HandlerRecords, HandlerLabels, Lifecycles
  <2>3. "reconcile" \in LabelsOf("RunChatTurn")
    BY DEF LabelsOf
  <2>4. Agrees(handlers'[h])
    BY <1>1, <1>2, <2>2, <2>3 DEF Agrees, OnChat, OnRun, Ending, Storing
  <2> QED BY <1>1, <1>3, <1>4, <2>1, <2>2, <2>4 DEF Advances, HandlerMoves, OnThread
<1> QED BY <1>5, <1>6 DEF ResumeThread

-----------------------------------------------------------------------------
(* The invariant is inductive                                              *)

\* A step of a handler in which every thread that is known stays known keeps
\* the handlers' part of the invariant.
LEMMA HandlersKeep ==
  ASSUME RuntimeInv, NEW h \in Handlers, HandlerMoves(h),
         \A c \in Chats : Known(c) => Known(c)',
         OnThread(handlers[h])'
  PROVE  HandlersAgree' /\ handlers' \in [Handlers -> HandlerRecords]
<1>1. handlers \in [Handlers -> HandlerRecords] /\ HandlersAgree
  BY DEF RuntimeInv, RuntimeTypeOK
<1>2. handlers' \in [Handlers -> HandlerRecords] /\ Agrees(handlers[h])'
  BY <1>1 DEF HandlerMoves, Agrees
<1>3. ASSUME NEW g \in Handlers, g # h
      PROVE  Agrees(handlers[g])' /\ OnThread(handlers[g])'
  <2>1. handlers'[g] = handlers[g] /\ Agrees(handlers[g]) /\ OnThread(handlers[g])
    BY <1>1, <1>3 DEF HandlerMoves, HandlersAgree
  <2>2. Agrees(handlers[g])'
    BY <2>1 DEF Agrees
  <2>3. handlers[g].pc \in {"sendTurn", "awaitTurn", "recover"} => handlers[g].chat \in Chats
    BY <2>1 DEF Agrees, OnChat
  <2> QED BY <2>1, <2>2, <2>3 DEF OnThread
<1> QED BY <1>2, <1>3 DEF HandlersAgree

\* A step of a handler that leaves the app server, the consumer and the hook alone.
LEMMA LocalKeeps ==
  ASSUME RuntimeInv, NEW h \in Handlers, Advances(h), UNCHANGED <<consumer, hook>>, Unseen,
         pendingRecords' \in [PendingKeys -> TrackedRecords \cup {Null}]
  PROVE  RuntimeInv'
<1>1. TypeOK'
  BY TypeStep DEF RuntimeInv, RuntimeTypeOK, Advances
<1>2. \A c \in Chats : Known(c)' <=> Known(c)
  BY DEF Unseen, codexVars, Known
<1>3. OnThread(handlers[h])'
  BY DEF Advances, OnThread, Unseen, codexVars, Known
<1>4. HandlersAgree' /\ handlers' \in [Handlers -> HandlerRecords]
  BY <1>2, <1>3, HandlersKeep DEF Advances
<1>5. CodexAgrees'
  BY DEF RuntimeInv, CodexAgrees, Unseen, codexVars, Known
<1>6. RuntimeTypeOK'
  BY <1>1, <1>4 DEF RuntimeInv, RuntimeTypeOK, Unseen, codexVars
<1> QED BY <1>4, <1>5, <1>6 DEF RuntimeInv

\* The steps that only touch the store and the handler's own locals.
LocalStep(h) ==
  \/ ReserveKey(h) \/ ReleaseKey(h) \/ RememberResult(h)
  \/ Reconcile(h) \/ ReconcileAppend(h) \/ ReconcileComplete(h) \/ ReadThread(h)
  \/ TurnAnswered(h) \/ TurnFails(h)
  \/ ReserveCapacity(h) \/ ReleaseCapacity(h)
  \/ RecoverRead(h) \/ RecoverGivesUp(h) \/ InstallRun(h) \/ CompleteRecovered(h)
  \/ StartProvisionalRun(h) \/ AbandonRun(h) \/ BindRun(h) \/ MarkRunning(h) \/ AnnounceRun(h)
  \/ LookRun(h) \/ MarkInterrupting(h) \/ AnnounceInterrupt(h)
  \/ LookPending(h) \/ ReleaseClaim(h) \/ ResolveRequest(h) \/ RestoreRun(h)
  \/ AnnounceResolved(h)

LEMMA LocalStepFrame ==
  ASSUME NEW h \in Handlers, LocalStep(h)
  PROVE  Local
BY DEF LocalStep, ReserveKey, ReleaseKey, RememberResult, Reconcile, ReconcileAppend,
       ReconcileComplete, ReadThread, TurnAnswered, TurnFails, ReserveCapacity,
       ReleaseCapacity, RecoverRead, RecoverGivesUp, InstallRun, CompleteRecovered,
       StartProvisionalRun, AbandonRun, BindRun, MarkRunning, AnnounceRun, LookRun,
       MarkInterrupting, AnnounceInterrupt, LookPending, ReleaseClaim, ResolveRequest,
       RestoreRun, AnnounceResolved

LEMMA LocalStepAdvances ==
  ASSUME RuntimeInv, NEW h \in Handlers, LocalStep(h)
  PROVE  Advances(h)
BY KeyAdvances, ReconcileAdvances, ReconcileAppendAdvances, ReconcileCompleteAdvances,
   ReadThreadAdvances, TurnAnsweredAdvances, TurnFailsAdvances, CapacityAdvances,
   RecoverReadAdvances, RecoverGivesUpAdvances, RunAdvances, InterruptAdvances,
   LookPendingAdvances, RespondAdvances
   DEF LocalStep

LEMMA LocalStepInv ==
  ASSUME RuntimeInv, NEW h \in Handlers, LocalStep(h)
  PROVE  RuntimeInv'
<1>1. Advances(h) /\ Local
  BY LocalStepAdvances, LocalStepFrame
<1>2. pendingRecords' \in [PendingKeys -> TrackedRecords \cup {Null}]
  BY <1>1 DEF Local, RuntimeInv, RuntimeTypeOK
<1> QED BY <1>1, <1>2, LocalKeeps DEF Local

\* cleanupStalePendingRecordsLocked keeps the types of what it keeps.
LEMMA DropStaleType ==
  ASSUME RuntimeInv, DropStaleRecords
  PROVE  pendingRecords' \in [PendingKeys -> TrackedRecords \cup {Null}]
BY DEF RuntimeInv, RuntimeTypeOK, DropStaleRecords

\* The steps under Service.mu that change the tracked requests.
LEMMA TrackedStepInv ==
  ASSUME RuntimeInv, NEW h \in Handlers,
         ReportStatus(h) \/ ClaimPending(h) \/ FinishResponse(h)
  PROVE  RuntimeInv'
<1>1. Advances(h)
  BY ReportStatusAdvances, RespondAdvances
<1>2. UNCHANGED <<consumer, hook>> /\ Unseen
  BY DEF ReportStatus, ClaimPending, FinishResponse
<1>3. pendingRecords \in [PendingKeys -> TrackedRecords \cup {Null}]
  BY DEF RuntimeInv, RuntimeTypeOK
<1>4. pendingRecords' \in [PendingKeys -> TrackedRecords \cup {Null}]
  <2>1. CASE ReportStatus(h)
    BY <1>3, <2>1, DropStaleType DEF ReportStatus
  <2>2. CASE ClaimPending(h) \/ FinishResponse(h)
    <3> DEFINE k == PendingKey(h)
    <3>1. /\ handlers[h].cmd.op = "RespondChatPending" /\ handlers[h].pc \in OnRun
          /\ Agrees(handlers[h])
      BY <2>2, HandlerFacts DEF ClaimPending, FinishResponse, LabelsOf, Ops, OnRun
    <3>2. k \in PendingKeys /\ handlers[h].cmd.message \in Messages
      BY <3>1, HandlerFacts DEF Agrees, Validated
    <3>3. CASE ClaimPending(h)
      <4>1. \/ pendingRecords' = pendingRecords
            \/ pendingRecords' = [pendingRecords EXCEPT ![k] = Null]
            \/ /\ pendingRecords[k] # Null
               /\ pendingRecords' = [pendingRecords EXCEPT ![k] =
                    [inFlight |-> h,
                     responses |-> pendingRecords[k].responses \cup {handlers[h].cmd.message}]]
        BY <3>3 DEF ClaimPending, RefuseResponse
      <4>2. pendingRecords[k] # Null =>
              [inFlight |-> h,
               responses |-> pendingRecords[k].responses \cup {handlers[h].cmd.message}]
                \in TrackedRecords
        BY <1>3, <3>2 DEF TrackedRecords
      <4> HIDE DEF k
      <4> QED BY <1>3, <4>1, <4>2
    <3>4. CASE FinishResponse(h)
      <4>1. \/ pendingRecords' = pendingRecords
            \/ pendingRecords' = [pendingRecords EXCEPT ![k] = Null]
            \/ /\ pendingRecords[k] # Null
               /\ pendingRecords' = [pendingRecords EXCEPT ![k].inFlight = Null]
        BY <3>4 DEF FinishResponse
      <4>2. pendingRecords[k] # Null =>
              [pendingRecords[k] EXCEPT !.inFlight = Null] \in TrackedRecords
        BY <1>3, <3>2 DEF TrackedRecords
      <4> HIDE DEF k
      <4> QED BY <1>3, <4>1, <4>2
    <3> QED BY <2>2, <3>3, <3>4
  <2> QED BY <2>1, <2>2
<1> QED BY <1>1, <1>2, <1>4, LocalKeeps

\* The steps by which a handler sends something to the app server.
LEMMA SendStepInv ==
  ASSUME RuntimeInv, NEW h \in Handlers,
         SendTurn(h) \/ SendInterrupt(h) \/ WriteResponse(h)
  PROVE  RuntimeInv'
<1>1. Advances(h)
  BY SendAdvances, SendInterruptAdvances, WriteAdvances
<1>2. UNCHANGED <<vars, pendingRecords, consumer, hook, threads, turns, loaded,
                  notifications, restarts>>
  BY DEF SendTurn, SendInterrupt, WriteResponse
<1>3. calls' \subseteq Calls /\ interrupts' \subseteq Turns
  <2>1. calls \subseteq Calls /\ interrupts \subseteq Turns
    BY DEF RuntimeInv, RuntimeTypeOK
  <2>2. CASE SendTurn(h)
    BY <2>1, <2>2, SendAdvances DEF SendTurn
  <2>3. CASE SendInterrupt(h)
    BY <2>1, <2>3, SendInterruptAdvances DEF SendInterrupt
  <2>4. CASE WriteResponse(h)
    BY <2>1, <2>4 DEF WriteResponse
  <2> QED BY <2>2, <2>3, <2>4
<1>4. /\ requests' \in [PendingIds -> Requests]
      /\ \A r \in PendingIds : requests'[r].turn = requests[r].turn
      /\ \A r \in PendingIds : requests'[r].state = "unsent" <=> requests[r].state = "unsent"
  <2>1. requests \in [PendingIds -> Requests]
    BY DEF RuntimeInv, RuntimeTypeOK
  <2>2. CASE requests' = requests
    BY <2>1, <2>2
  <2>3. CASE WriteResponse(h) /\ requests' # requests
    <3> DEFINE r == handlers[h].cmd.request
    <3>1. PICK state \in {"answered", "broken"} :
            /\ requests[r].state = "hooked"
            /\ requests' = [requests EXCEPT ![r].state = state]
      <4>1. /\ requests[r].state = "hooked"
            /\ requests' = [requests EXCEPT ![r].state =
                              IF handlers'[h].written THEN "answered" ELSE "broken"]
        BY <2>3, WriteAdvances
      <4> HIDE DEF r
      <4> QED BY <4>1
    <3>2. \A q \in PendingIds :
            /\ requests'[q] = IF q = r THEN [requests[q] EXCEPT !.state = state] ELSE requests[q]
            /\ requests[q] \in Requests
      BY <2>1, <3>1
    <3>3. /\ \A q \in PendingIds : requests'[q] \in Requests
          /\ \A q \in PendingIds : requests'[q].turn = requests[q].turn
          /\ \A q \in PendingIds : requests'[q].state # requests[q].state
               => q = r /\ requests'[q].state = state
      <4> HIDE DEF r
      <4>1. state \in RequestStates
        BY DEF RequestStates
      <4> QED BY <3>2, <4>1 DEF Requests
    <3>4. requests[r].state # "unsent" /\ state # "unsent"
      BY <3>1
    <3>5. \A q \in PendingIds : requests'[q].state = "unsent" <=> requests[q].state = "unsent"
      <4> HIDE DEF r
      <4> QED BY <3>3, <3>4
    <3>6. requests' \in [PendingIds -> Requests]
      BY <2>1, <3>1, <3>3
    <3> QED BY <3>3, <3>5, <3>6
  <2> QED BY <2>2, <2>3 DEF SendTurn, SendInterrupt
<1>5. \A c \in Chats : Known(c)' <=> Known(c)
  BY <1>2 DEF Known
<1>6. OnThread(handlers[h])'
  BY <1>1, <1>2 DEF Advances, OnThread, Known
<1>7. HandlersAgree' /\ handlers' \in [Handlers -> HandlerRecords]
  BY <1>1, <1>5, <1>6, HandlersKeep DEF Advances
<1>8. CodexAgrees'
  BY <1>2, <1>4, <1>5 DEF RuntimeInv, RuntimeTypeOK, CodexAgrees
<1>9. TypeOK'
  BY <1>1, TypeStep DEF RuntimeInv, RuntimeTypeOK, Advances
<1>10. RuntimeTypeOK'
  BY <1>2, <1>3, <1>4, <1>7, <1>9 DEF RuntimeInv, RuntimeTypeOK
<1> QED BY <1>7, <1>8, <1>10 DEF RuntimeInv

LEMMA ResumeThreadInv ==
  ASSUME RuntimeInv, NEW h \in Handlers, ResumeThread(h)
  PROVE  RuntimeInv'
<1>1. /\ Advances(h) /\ loaded' \subseteq Chats
      /\ \A c \in loaded' : c \in loaded \/ threads[c] # Null
  BY ResumeThreadAdvances
<1>2. UNCHANGED <<vars, pendingRecords, consumer, hook, threads, turns, calls,
                  interrupts, requests, notifications, restarts>>
  BY DEF ResumeThread
<1>3. \A c \in Chats : Known(c)' <=> Known(c)
  BY <1>2 DEF Known
<1>4. OnThread(handlers[h])'
  BY <1>1, <1>2 DEF Advances, OnThread, Known
<1>5. HandlersAgree' /\ handlers' \in [Handlers -> HandlerRecords]
  BY <1>1, <1>3, <1>4, HandlersKeep DEF Advances
<1>6. CodexAgrees'
  BY <1>1, <1>2, <1>3 DEF RuntimeInv, CodexAgrees
<1>7. TypeOK'
  BY <1>1, TypeStep DEF RuntimeInv, RuntimeTypeOK, Advances
<1>8. RuntimeTypeOK'
  BY <1>1, <1>2, <1>5, <1>7 DEF RuntimeInv, RuntimeTypeOK
<1> QED BY <1>5, <1>6, <1>8 DEF RuntimeInv

\* A new thread has no turns yet.
LEMMA StartThreadMoves ==
  ASSUME RuntimeInv, NEW h \in Handlers, StartThread(h)
  PROVE  /\ HandlerMoves(h) /\ OnThread(handlers[h])'
         /\ loaded' \subseteq Chats
         /\ threads' \in [Chats -> Seq(Turns) \cup {Null}]
         /\ \A c \in Chats : Known(c) => Known(c)'
         /\ \A c \in Chats : c \in loaded' \/ threads'[c] # Null => Known(c)'
         /\ handlers'[h].pc \in {"releaseBoth", "releaseCapacity", "sendTurn"}
<1>1. /\ handlers[h].cmd.op = "StartChatRun" /\ handlers[h].pc = "startThread"
      /\ Agrees(handlers[h]) /\ handlers[h] \in HandlerRecords
      /\ handlers \in [Handlers -> HandlerRecords]
  BY HandlerFacts DEF StartThread, LabelsOf, Ops
<1>2. /\ threads \in [Chats -> Seq(Turns) \cup {Null}] /\ loaded \subseteq Chats
      /\ \A c \in Chats : c \in loaded \/ threads[c] # Null => Known(c)
  BY DEF RuntimeInv, RuntimeTypeOK, CodexAgrees
<1>3. turns' = turns
  BY DEF StartThread
<1>4. CASE (\E pc \in {"releaseBoth", "releaseCapacity"} : Goto(h, pc))
           /\ UNCHANGED <<threads, loaded>>
  <2>1. PICK pc \in {"releaseBoth", "releaseCapacity"} : Goto(h, pc)
    BY <1>4
  <2>2. pc \in Leaving /\ pc \in LabelsOf(handlers[h].cmd.op)
    BY <1>1 DEF Leaving, LabelsOf
  <2>3. HandlerMoves(h) /\ handlers'[h].pc = pc
    BY <1>1, <2>1, <2>2, LeaveMove
  <2>4. \A c \in Chats : Known(c)' <=> Known(c)
    BY <1>3, <1>4 DEF Known
  <2> QED BY <1>2, <1>4, <2>1, <2>3, <2>4 DEF OnThread
<1>5. CASE \E c \in Chats :
             /\ threads[c] = Null
             /\ threads' = [threads EXCEPT ![c] = <<>>]
             /\ loaded' = loaded \cup {c}
             /\ handlers' = [handlers EXCEPT ![h] = [@ EXCEPT !.pc = "sendTurn", !.chat = c]]
  <2>1. PICK c \in Chats :
             /\ threads[c] = Null
             /\ threads' = [threads EXCEPT ![c] = <<>>]
             /\ loaded' = loaded \cup {c}
             /\ handlers' = [handlers EXCEPT ![h] = [@ EXCEPT !.pc = "sendTurn", !.chat = c]]
    BY <1>5
  <2>2. /\ handlers' = [handlers EXCEPT ![h] = handlers'[h]]
        /\ handlers'[h] = [handlers[h] EXCEPT !.pc = "sendTurn", !.chat = c]
    BY <1>1, <2>1
  <2>3. /\ handlers'[h] \in HandlerRecords
        /\ handlers'[h].pc = "sendTurn" /\ handlers'[h].cmd = handlers[h].cmd
        /\ handlers'[h].chat = c /\ handlers'[h].attempt = handlers[h].attempt
    BY <1>1, <2>2, ZenonT(30) DEF HandlerRecords, HandlerLabels
  <2>4. "sendTurn" \in LabelsOf("StartChatRun")
    BY DEF LabelsOf
  <2>5. Agrees(handlers'[h])
    BY <1>1, <2>3, <2>4 DEF Agrees, OnRun, Ending, Storing, Unstarted
  <2>6. threads' \in [Chats -> Seq(Turns) \cup {Null}] /\ threads'[c] = <<>>
    BY <1>2, <2>1
  <2>7. Known(c)'
    BY <2>6 DEF Known
  <2>8. \A d \in Chats : d # c => (Known(d)' <=> Known(d)) /\ threads'[d] = threads[d]
    BY <1>2, <1>3, <2>1 DEF Known
  <2>9. \A d \in Chats : Known(d) => Known(d)'
    BY <2>7, <2>8
  <2>10. \A d \in Chats : d \in loaded' \/ threads'[d] # Null => Known(d)'
    BY <1>2, <2>1, <2>7, <2>8
  <2> QED BY <1>2, <2>1, <2>2, <2>3, <2>5, <2>6, <2>7, <2>9, <2>10
             DEF HandlerMoves, OnThread
<1> QED BY <1>4, <1>5 DEF StartThread

LEMMA StartThreadInv ==
  ASSUME RuntimeInv, NEW h \in Handlers, StartThread(h)
  PROVE  RuntimeInv' /\ [Next]_vars
<1>1. /\ HandlerMoves(h) /\ OnThread(handlers[h])'
      /\ loaded' \subseteq Chats
      /\ threads' \in [Chats -> Seq(Turns) \cup {Null}]
      /\ \A c \in Chats : Known(c) => Known(c)'
      /\ \A c \in Chats : c \in loaded' \/ threads'[c] # Null => Known(c)'
  BY StartThreadMoves
<1>2. UNCHANGED <<vars, pendingRecords, consumer, hook, turns, calls, interrupts,
                  requests, notifications, restarts>>
  BY DEF StartThread
<1>3. HandlersAgree' /\ handlers' \in [Handlers -> HandlerRecords]
  BY <1>1, HandlersKeep
<1>4. CodexAgrees'
  BY <1>1, <1>2 DEF RuntimeInv, CodexAgrees
<1>5. [Next]_vars
  BY <1>2
<1>6. TypeOK'
  BY <1>5, TypeStep DEF RuntimeInv, RuntimeTypeOK
<1>7. RuntimeTypeOK'
  BY <1>1, <1>2, <1>3, <1>6 DEF RuntimeInv, RuntimeTypeOK
<1> QED BY <1>3, <1>4, <1>5, <1>7 DEF RuntimeInv

\* Every step of a handler keeps the invariant and is a step of the store.
LEMMA HandlerStepInv ==
  ASSUME RuntimeInv, NEW h \in Handlers, HandlerStep(h)
  PROVE  RuntimeInv' /\ [Next]_vars
<1>1. CASE LocalStep(h)
  BY <1>1, LocalStepInv, LocalStepAdvances DEF Advances
<1>2. CASE ReportStatus(h) \/ ClaimPending(h) \/ FinishResponse(h)
  BY <1>2, TrackedStepInv, ReportStatusAdvances, RespondAdvances DEF Advances
<1>3. CASE SendTurn(h) \/ SendInterrupt(h) \/ WriteResponse(h)
  BY <1>3, SendStepInv, SendAdvances, SendInterruptAdvances, WriteAdvances DEF Advances
<1>4. CASE ResumeThread(h)
  BY <1>4, ResumeThreadInv, ResumeThreadAdvances DEF Advances
<1>5. CASE StartThread(h)
  BY <1>5, StartThreadInv
<1> QED BY <1>1, <1>2, <1>3, <1>4, <1>5 DEF HandlerStep, LocalStep

-----------------------------------------------------------------------------
(* The app server                                                          *)

\* A turn that was started keeps its chat and the handler it was started for.
TurnsKept ==
  \A t \in Turns : turns[t] \in TurnRecords =>
    /\ turns'[t] \in TurnRecords
    /\ turns'[t].chat = turns[t].chat /\ turns'[t].handler = turns[t].handler

\* Threads only grow by turns that were started.
LEMMA KnownKept ==
  ASSUME TurnsKept, NEW c, Known(c), threads'[c] = threads[c]
  PROVE  Known(c)'
BY DEF Known, TurnsKept

\* Notifications are about turns that were started.
LEMMA NotifyKeeps ==
  ASSUME RuntimeInv, TurnsKept, NEW t \in Turns, turns[t] \in TurnRecords,
         NEW kind \in Deltas \cup Terminals, Notify(t, kind)
  PROVE  /\ notifications' \in Seq(Notifications)
         /\ \A i \in 1..Len(notifications') : turns'[notifications'[i].run] \in TurnRecords
<1> DEFINE n == [run |-> t, kind |-> kind]
<1>1. /\ notifications \in Seq(Notifications) /\ n \in Notifications
      /\ \A i \in 1..Len(notifications) : turns[notifications[i].run] \in TurnRecords
  BY DEF RuntimeInv, RuntimeTypeOK, CodexAgrees, Notifications
<1>2. notifications' = Append(notifications, n) /\ n.run = t
  BY DEF Notify
<1> HIDE DEF n
<1>3. \A i \in 1..Len(notifications') :
        \/ notifications'[i] = n
        \/ i \in 1..Len(notifications) /\ notifications'[i] = notifications[i]
  BY <1>1, <1>2
<1>4. \A m \in Notifications : m.run \in Turns
  BY DEF Notifications
<1>5. \A i \in 1..Len(notifications) : notifications[i] \in Notifications
  BY <1>1
<1> QED BY <1>1, <1>2, <1>3, <1>4, <1>5 DEF TurnsKept

\* A step of the app server in which turns and threads are kept.
LEMMA CodexKeeps ==
  ASSUME RuntimeInv, UNCHANGED <<vars, pendingRecords, consumer, hook>>, TurnsKept,
         turns' \in [Turns -> TurnRecords \cup {Null}],
         threads' \in [Chats -> Seq(Turns) \cup {Null}],
         loaded' \subseteq loaded, calls' \subseteq calls, interrupts' \subseteq interrupts,
         \A c \in Chats : Known(c) => Known(c)',
         \A c \in Chats : threads[c] # threads'[c] => Known(c),
         notifications' \in Seq(Notifications),
         \A i \in 1..Len(notifications') : turns'[notifications'[i].run] \in TurnRecords,
         requests' \in [PendingIds -> Requests],
         \A r \in PendingIds :
           \/ requests'[r].turn = requests[r].turn
              /\ (requests[r].state = "unsent" <=> requests'[r].state = "unsent")
           \/ /\ requests[r].state = "unsent"
              /\ requests'[r].turn \in Turns /\ turns[requests'[r].turn] \in TurnRecords,
         restarts' \in 0..MaxRestarts,
         handlers' \in [Handlers -> HandlerRecords],
         \A h \in Handlers : \/ handlers'[h] = handlers[h]
                             \/ \E t : handlers'[h] = [handlers[h] EXCEPT !.answer = t]
  PROVE  RuntimeInv' /\ [Next]_vars /\ TurnsKept
<1>1. HandlersAgree'
  <2> SUFFICES ASSUME NEW h \in Handlers
               PROVE  Agrees(handlers[h])' /\ OnThread(handlers[h])'
    BY DEF HandlersAgree
  <2>1. Agrees(handlers[h]) /\ OnThread(handlers[h]) /\ handlers[h] \in HandlerRecords
    BY HandlerFacts
  <2>2. /\ handlers'[h].cmd = handlers[h].cmd /\ handlers'[h].pc = handlers[h].pc
        /\ handlers'[h].chat = handlers[h].chat /\ handlers'[h].run = handlers[h].run
        /\ handlers'[h].state = handlers[h].state
        /\ handlers'[h].attempt = handlers[h].attempt
    BY <2>1 DEF HandlerRecords
  <2>3. Agrees(handlers[h])'
    BY <2>1, <2>2 DEF Agrees
  <2>4. handlers[h].pc \in {"sendTurn", "awaitTurn", "recover"} => handlers[h].chat \in Chats
    BY <2>1 DEF Agrees, OnChat
  <2>5. OnThread(handlers[h])'
    BY <2>1, <2>2, <2>4 DEF OnThread
  <2> QED BY <2>3, <2>5
<1>2. CodexAgrees'
  <2>1. \A c \in Chats : c \in loaded' \/ threads'[c] # Null => Known(c)'
    BY DEF RuntimeInv, CodexAgrees
  <2>2. \A r \in PendingIds : requests'[r].state # "unsent" =>
          requests'[r].turn \in Turns /\ turns'[requests'[r].turn] \in TurnRecords
    BY DEF RuntimeInv, CodexAgrees, TurnsKept
  <2>3. consumer.pc # "idle" => /\ consumer.notification \in Notifications
                                /\ turns'[consumer.notification.run] \in TurnRecords
    BY DEF RuntimeInv, CodexAgrees, TurnsKept, Notifications
  <2>4. hook.pc # "idle" => /\ hook.request \in PendingIds
                            /\ requests'[hook.request].state # "unsent"
    <3>1. requests' \in [PendingIds -> Requests]
      OBVIOUS
    <3> QED BY <3>1 DEF RuntimeInv, CodexAgrees
  <2> QED BY <2>1, <2>2, <2>3, <2>4 DEF RuntimeInv, CodexAgrees
<1>3. [Next]_vars
  OBVIOUS
<1>4. TypeOK'
  BY <1>3, TypeStep DEF RuntimeInv, RuntimeTypeOK
<1>5. RuntimeTypeOK'
  BY <1>4 DEF RuntimeInv, RuntimeTypeOK
<1> QED BY <1>1, <1>2, <1>3, <1>5 DEF RuntimeInv

\* What the invariant says of the app server.
LEMMA CodexFacts ==
  ASSUME RuntimeInv
  PROVE  /\ threads \in [Chats -> Seq(Turns) \cup {Null}]
         /\ turns \in [Turns -> TurnRecords \cup {Null}]
         /\ loaded \subseteq Chats /\ calls \subseteq Calls /\ interrupts \subseteq Turns
         /\ requests \in [PendingIds -> Requests] /\ notifications \in Seq(Notifications)
         /\ \A i \in 1..Len(notifications) : turns[notifications[i].run] \in TurnRecords
         /\ restarts \in 0..MaxRestarts
         /\ handlers \in [Handlers -> HandlerRecords]
         /\ \A c \in loaded : c \in Chats /\ Known(c)
         /\ \A t \in LiveTurns : t \in Turns /\ turns[t] \in TurnRecords
BY DEF RuntimeInv, RuntimeTypeOK, CodexAgrees, LiveTurns

LEMMA CodexRejectsTurnInv ==
  ASSUME RuntimeInv, CodexRejectsTurn
  PROVE  RuntimeInv' /\ [Next]_vars /\ TurnsKept
<1>1. TurnsKept /\ \A c \in Chats : Known(c)' <=> Known(c)
  BY DEF CodexRejectsTurn, TurnsKept, Known
<1> QED BY <1>1, CodexFacts, CodexKeeps DEF CodexRejectsTurn, gatewayVars

\* A step that changes one turn that was started.
LEMMA OneTurnKept ==
  ASSUME RuntimeInv, NEW t \in Turns, NEW x \in TurnRecords, turns[t] \in TurnRecords,
         x.chat = turns[t].chat, x.handler = turns[t].handler,
         turns' = [turns EXCEPT ![t] = x], threads' = threads
  PROVE  /\ TurnsKept /\ turns' \in [Turns -> TurnRecords \cup {Null}]
         /\ \A c \in Chats : Known(c) => Known(c)'
<1>1. turns \in [Turns -> TurnRecords \cup {Null}]
  BY CodexFacts
<1>2. TurnsKept
  BY <1>1 DEF TurnsKept
<1>3. \A c \in Chats : Known(c) => Known(c)'
  BY <1>2, KnownKept
<1> QED BY <1>1, <1>2, <1>3

LEMMA CodexStreamsInv ==
  ASSUME RuntimeInv, CodexStreams
  PROVE  RuntimeInv' /\ [Next]_vars /\ TurnsKept
<1>1. PICK t \in LiveTurns :
        /\ turns' = [turns EXCEPT ![t].deltas = @ + 1]
        /\ Notify(t, <<"assistant_delta", Null>>)
  BY DEF CodexStreams
<1>2. UNCHANGED <<vars, gatewayVars, threads, loaded, calls, interrupts, requests, restarts>>
  BY DEF CodexStreams
<1>3. t \in Turns /\ turns[t] \in TurnRecords
  BY CodexFacts
<1> DEFINE x == [turns[t] EXCEPT !.deltas = @ + 1]
<1>4. x \in TurnRecords /\ x.chat = turns[t].chat /\ x.handler = turns[t].handler
  BY <1>3 DEF TurnRecords
<1>5. turns' = [turns EXCEPT ![t] = x]
  BY <1>1, CodexFacts
<1> HIDE DEF x
<1>6. /\ TurnsKept /\ turns' \in [Turns -> TurnRecords \cup {Null}]
      /\ \A c \in Chats : Known(c) => Known(c)'
  BY <1>2, <1>3, <1>4, <1>5, OneTurnKept
<1>7. /\ notifications' \in Seq(Notifications)
      /\ \A i \in 1..Len(notifications') : turns'[notifications'[i].run] \in TurnRecords
  BY <1>1, <1>3, <1>6, NotifyKeeps DEF Deltas
<1> QED BY <1>2, <1>6, <1>7, CodexFacts, CodexKeeps DEF gatewayVars

LEMMA EndTurnKeeps ==
  ASSUME RuntimeInv, NEW t \in LiveTurns, NEW state \in TerminalStates, EndTurn(t, state),
         threads' = threads
  PROVE  /\ TurnsKept /\ turns' \in [Turns -> TurnRecords \cup {Null}]
         /\ \A c \in Chats : Known(c) => Known(c)'
         /\ notifications' \in Seq(Notifications)
         /\ \A i \in 1..Len(notifications') : turns'[notifications'[i].run] \in TurnRecords
<1>1. t \in Turns /\ turns[t] \in TurnRecords
  BY CodexFacts
<1> DEFINE x == [turns[t] EXCEPT !.state = state]
<1>2. x \in TurnRecords /\ x.chat = turns[t].chat /\ x.handler = turns[t].handler
  BY <1>1 DEF TurnRecords, TurnStates
<1>3. turns' = [turns EXCEPT ![t] = x] /\ Notify(t, <<"terminal", state>>)
  BY CodexFacts DEF EndTurn
<1> HIDE DEF x
<1>4. /\ TurnsKept /\ turns' \in [Turns -> TurnRecords \cup {Null}]
      /\ \A c \in Chats : Known(c) => Known(c)'
  BY <1>1, <1>2, <1>3, OneTurnKept
<1> QED BY <1>1, <1>3, <1>4, NotifyKeeps DEF Terminals

LEMMA CodexEndsTurnInv ==
  ASSUME RuntimeInv, CodexEndsTurn
  PROVE  RuntimeInv' /\ [Next]_vars /\ TurnsKept
<1>1. PICK t \in LiveTurns, state \in TurnEnds : EndTurn(t, state)
  BY DEF CodexEndsTurn
<1>2. UNCHANGED <<vars, gatewayVars, threads, loaded, calls, interrupts, requests, restarts>>
  BY DEF CodexEndsTurn
<1>3. state \in TerminalStates
  BY RuntimeBounds
<1> QED BY <1>1, <1>2, <1>3, EndTurnKeeps, CodexFacts, CodexKeeps DEF gatewayVars

LEMMA CodexInterruptsInv ==
  ASSUME RuntimeInv, CodexInterrupts
  PROVE  RuntimeInv' /\ [Next]_vars /\ TurnsKept
<1>1. PICK t \in interrupts : IF t \in LiveTurns THEN EndTurn(t, "interrupted")
                                                 ELSE UNCHANGED <<turns, notifications>>
  BY DEF CodexInterrupts
<1>2. interrupts' \subseteq interrupts
      /\ UNCHANGED <<vars, gatewayVars, threads, loaded, calls, requests, restarts>>
  BY DEF CodexInterrupts
<1>3. CASE t \in LiveTurns
  <2>1. "interrupted" \in TerminalStates
    BY DEF TerminalStates
  <2> QED BY <1>1, <1>2, <1>3, <2>1, EndTurnKeeps, CodexFacts, CodexKeeps DEF gatewayVars
<1>4. CASE t \notin LiveTurns
  <2>1. TurnsKept /\ \A c \in Chats : Known(c)' <=> Known(c)
    BY <1>1, <1>2, <1>4 DEF TurnsKept, Known
  <2> QED BY <1>1, <1>2, <1>4, <2>1, CodexFacts, CodexKeeps DEF gatewayVars
<1> QED BY <1>3, <1>4

LEMMA CodexAsksInv ==
  ASSUME RuntimeInv, CodexAsks
  PROVE  RuntimeInv' /\ [Next]_vars /\ TurnsKept
<1>1. PICK t \in LiveTurns, r \in PendingIds :
        /\ requests[r].state = "unsent"
        /\ requests' = [requests EXCEPT ![r] = [state |-> "sent", turn |-> t]]
  BY DEF CodexAsks
<1>2. UNCHANGED <<vars, gatewayVars, threads, turns, loaded, calls, interrupts,
                  notifications, restarts>>
  BY DEF CodexAsks
<1>3. TurnsKept /\ \A c \in Chats : Known(c)' <=> Known(c)
  BY <1>2 DEF TurnsKept, Known
<1>4. t \in Turns /\ turns[t] \in TurnRecords
  BY CodexFacts
<1>5. requests' \in [PendingIds -> Requests]
  BY <1>1, <1>4, CodexFacts DEF Requests, RequestStates
<1>6. \A q \in PendingIds :
        \/ requests'[q].turn = requests[q].turn
           /\ (requests[q].state = "unsent" <=> requests'[q].state = "unsent")
        \/ /\ requests[q].state = "unsent"
           /\ requests'[q].turn \in Turns /\ turns[requests'[q].turn] \in TurnRecords
  BY <1>1, <1>4, CodexFacts
<1> QED BY <1>2, <1>3, <1>5, <1>6, CodexFacts, CodexKeeps DEF gatewayVars

\* A restart ends every turn and forgets what is under way.
LEMMA CodexRestartsInv ==
  ASSUME RuntimeInv, CodexRestarts
  PROVE  RuntimeInv' /\ [Next]_vars /\ TurnsKept
<1>1. /\ restarts < MaxRestarts /\ restarts' = restarts + 1
      /\ turns' = [t \in Turns |-> IF t \in LiveTurns
                                   THEN [turns[t] EXCEPT !.state = "interrupted"]
                                   ELSE turns[t]]
      /\ loaded' = {} /\ calls' = {} /\ interrupts' = {}
      /\ requests' = [r \in PendingIds |->
                        IF requests[r].state \in {"sent", "hooked"}
                        THEN [requests[r] EXCEPT !.state = "broken"] ELSE requests[r]]
      /\ UNCHANGED <<vars, gatewayVars, threads>>
  BY DEF CodexRestarts
<1>2. PICK n \in 0..Len(notifications) : notifications' = SubSeq(notifications, 1, n)
  BY DEF CodexRestarts
<1>3. \A t \in Turns : turns[t] \in TurnRecords =>
        /\ [turns[t] EXCEPT !.state = "interrupted"] \in TurnRecords
        /\ [turns[t] EXCEPT !.state = "interrupted"].chat = turns[t].chat
        /\ [turns[t] EXCEPT !.state = "interrupted"].handler = turns[t].handler
  BY DEF TurnRecords, TurnStates, TerminalStates
<1>4. TurnsKept
  BY <1>1, <1>3 DEF TurnsKept
<1>5. turns' \in [Turns -> TurnRecords \cup {Null}]
  BY <1>1, <1>3, CodexFacts
<1>6. \A c \in Chats : Known(c) => Known(c)'
  BY <1>1, <1>4, KnownKept
<1>7. /\ notifications' \in Seq(Notifications)
      /\ Len(notifications') = n
      /\ \A i \in 1..n : /\ notifications'[i] = notifications[i]
                         /\ i \in 1..Len(notifications)
                         /\ notifications[i].run \in Turns
  <2>1. notifications \in Seq(Notifications)
    BY CodexFacts
  <2>2. /\ notifications' \in Seq(Notifications) /\ Len(notifications') = n
        /\ \A i \in 1..n : notifications'[i] = notifications[i]
    BY <1>2, <2>1
  <2>3. \A i \in 1..n : i \in 1..Len(notifications) /\ notifications[i] \in Notifications
    BY <1>2, <2>1
  <2> QED BY <2>2, <2>3 DEF Notifications
<1>8. \A i \in 1..Len(notifications') : turns'[notifications'[i].run] \in TurnRecords
  BY <1>4, <1>7, CodexFacts DEF TurnsKept
<1>9. \A r \in PendingIds :
        /\ requests'[r] \in Requests /\ requests'[r].turn = requests[r].turn
        /\ (requests[r].state = "unsent" <=> requests'[r].state = "unsent")
  BY <1>1, CodexFacts DEF Requests, RequestStates
<1>10. requests' \in [PendingIds -> Requests]
  BY <1>1, <1>9
<1>11. restarts' \in 0..MaxRestarts
  BY <1>1, RuntimeBounds, CodexFacts
<1> QED BY <1>1, <1>4, <1>5, <1>6, <1>7, <1>8, <1>9, <1>10, <1>11, CodexFacts, CodexKeeps
           DEF gatewayVars

\* A turn that is started is new: its thread grows by it.
LEMMA CodexStartsTurnFacts ==
  ASSUME RuntimeInv, CodexStartsTurn
  PROVE  \E call \in calls, t \in Turns, x \in TurnRecords :
           /\ call.handler \in Handlers /\ call.chat \in Chats
           /\ turns[t] = Null
           /\ x.chat = call.chat /\ x.handler = call.handler /\ x.state = "inProgress"
           /\ turns' = [turns EXCEPT ![t] = x]
           /\ Known(call.chat)
           /\ threads' = [threads EXCEPT ![call.chat] = Append(@, t)]
           /\ calls' = calls \ {call}
           /\ \/ handlers' = handlers
              \/ /\ handlers[call.handler].pc = "awaitTurn"
                 /\ handlers' = [handlers EXCEPT ![call.handler].answer = t]
           /\ UNCHANGED <<vars, pendingRecords, consumer, hook, loaded, interrupts, requests,
                          notifications, restarts>>
<1>1. PICK call \in calls :
        /\ FreshTurns # {}
        /\ call.chat \in loaded
        /\ turns' = [turns EXCEPT ![NewTurn] =
                       [chat |-> call.chat, state |-> "inProgress",
                        handler |-> call.handler, deltas |-> 0]]
        /\ threads' = [threads EXCEPT ![call.chat] = Append(@, NewTurn)]
        /\ \/ handlers' = handlers
           \/ /\ handlers[call.handler].pc = "awaitTurn"
              /\ handlers' = [handlers EXCEPT ![call.handler].answer = NewTurn]
        /\ calls' = calls \ {call}
        /\ UNCHANGED <<vars, pendingRecords, consumer, hook, loaded, interrupts, requests,
                       notifications, restarts>>
  BY DEF CodexStartsTurn
<1> DEFINE t == NewTurn
<1>2. t \in Turns /\ turns[t] = Null
  BY <1>1 DEF NewTurn, FreshTurns
<1> HIDE DEF t
<1>3. call \in Calls /\ Known(call.chat) /\ call.chat \in Chats
  BY <1>1, CodexFacts
<1> DEFINE x == [chat |-> call.chat, state |-> "inProgress", handler |-> call.handler,
                 deltas |-> 0]
<1>4. /\ x \in TurnRecords /\ x.chat = call.chat /\ x.handler = call.handler
      /\ call.handler \in Handlers /\ x.state = "inProgress"
  BY <1>3 DEF Calls, TurnRecords, TurnStates
<1>5. turns' = [turns EXCEPT ![t] = x] /\ threads' = [threads EXCEPT ![call.chat] = Append(@, t)]
  BY <1>1 DEF t
<1>6. \/ handlers' = handlers
      \/ /\ handlers[call.handler].pc = "awaitTurn"
         /\ handlers' = [handlers EXCEPT ![call.handler].answer = t]
  BY <1>1 DEF t
<1> HIDE DEF x
<1> QED BY <1>1, <1>2, <1>3, <1>4, <1>5, <1>6

LEMMA CodexStartsTurnInv ==
  ASSUME RuntimeInv, CodexStartsTurn
  PROVE  RuntimeInv' /\ [Next]_vars /\ TurnsKept
<1>1. PICK call \in calls, t \in Turns, x \in TurnRecords :
           /\ call.handler \in Handlers /\ call.chat \in Chats
           /\ turns[t] = Null
           /\ x.chat = call.chat /\ x.handler = call.handler /\ x.state = "inProgress"
           /\ turns' = [turns EXCEPT ![t] = x]
           /\ Known(call.chat)
           /\ threads' = [threads EXCEPT ![call.chat] = Append(@, t)]
           /\ calls' = calls \ {call}
           /\ \/ handlers' = handlers
              \/ /\ handlers[call.handler].pc = "awaitTurn"
                 /\ handlers' = [handlers EXCEPT ![call.handler].answer = t]
           /\ UNCHANGED <<vars, pendingRecords, consumer, hook, loaded, interrupts, requests,
                          notifications, restarts>>
  BY CodexStartsTurnFacts
<1>2. /\ turns' \in [Turns -> TurnRecords \cup {Null}]
      /\ turns'[t] = x /\ \A u \in Turns : u # t => turns'[u] = turns[u]
  BY <1>1, CodexFacts
<1>3. TurnsKept
  BY <1>1, <1>2, NullIsNothing DEF TurnsKept
<1>4. /\ threads' \in [Chats -> Seq(Turns) \cup {Null}]
      /\ threads'[call.chat] = Append(threads[call.chat], t)
      /\ \A c \in Chats : c # call.chat => threads'[c] = threads[c]
  BY <1>1, CodexFacts DEF Known
<1>5. \A c \in Chats : Known(c) => Known(c)'
  <2> TAKE c \in Chats
  <2>1. CASE c # call.chat
    BY <1>3, <1>4, <2>1, KnownKept
  <2>2. CASE c = call.chat
    <3>1. threads[c] \in Seq(Turns) /\ \A i \in 1..Len(threads[c]) : turns[threads[c][i]] \in TurnRecords
      BY <1>1, <2>2 DEF Known
    <3>2. threads'[c] \in Seq(Turns)
      BY <1>4, <2>2, <3>1, SMTT(30)
    <3>3. \A i \in 1..Len(threads'[c]) :
            \/ threads'[c][i] = t
            \/ i \in 1..Len(threads[c]) /\ threads'[c][i] = threads[c][i]
      BY <1>4, <2>2, <3>1, SMTT(30)
    <3>4. \A i \in 1..Len(threads[c]) : threads[c][i] \in Turns
      BY <3>1
    <3>5. \A i \in 1..Len(threads'[c]) : turns'[threads'[c][i]] \in TurnRecords
      BY <1>2, <1>3, <3>1, <3>3, <3>4 DEF TurnsKept
    <3> QED BY <3>2, <3>5 DEF Known
  <2> QED BY <2>1, <2>2
<1>6. \A i \in 1..Len(notifications') : turns'[notifications'[i].run] \in TurnRecords
  <2>1. notifications' = notifications /\ notifications \in Seq(Notifications)
    BY <1>1, CodexFacts
  <2>2. \A i \in 1..Len(notifications) : notifications[i] \in Notifications
    BY <2>1
  <2>3. \A i \in 1..Len(notifications) : notifications[i].run \in Turns
    BY <2>2 DEF Notifications
  <2> QED BY <1>3, <2>1, <2>3, CodexFacts DEF TurnsKept
<1>7. \A c \in Chats : threads[c] # threads'[c] => Known(c)
  BY <1>1, <1>4
<1>8. /\ handlers' \in [Handlers -> HandlerRecords]
      /\ \A h \in Handlers : \/ handlers'[h] = handlers[h]
                             \/ \E u : handlers'[h] = [handlers[h] EXCEPT !.answer = u]
  <2>1. handlers \in [Handlers -> HandlerRecords]
    BY CodexFacts
  <2>2. CASE handlers' = [handlers EXCEPT ![call.handler].answer = t]
    <3>1. [handlers[call.handler] EXCEPT !.answer = t] \in HandlerRecords
      BY <1>1, <2>1 DEF HandlerRecords
    <3>2. \A h \in Handlers : handlers'[h] = IF h = call.handler
                                            THEN [handlers[h] EXCEPT !.answer = t]
                                            ELSE handlers[h]
      BY <1>1, <2>1, <2>2
    <3>3. handlers' \in [Handlers -> HandlerRecords]
      BY <2>1, <2>2, <3>1
    <3> QED BY <3>2, <3>3
  <2> QED BY <1>1, <2>1, <2>2
<1> QED BY <1>1, <1>2, <1>3, <1>4, <1>5, <1>6, <1>7, <1>8, CodexFacts, CodexKeeps

-----------------------------------------------------------------------------
(* The consumer of the notifications, the hook and the clock               *)

\* A step that leaves the handlers, the turns and the threads alone.
LEMMA ServiceKeeps ==
  ASSUME RuntimeInv, [Next]_vars,
         UNCHANGED <<handlers, threads, turns, loaded, calls, interrupts, restarts>>,
         pendingRecords' \in [PendingKeys -> TrackedRecords \cup {Null}],
         consumer' \in [pc : {"idle", "append", "complete"}, notification : Notifications \cup {Null}],
         hook' \in [pc : {"idle", "register", "announce", "track"}, request : PendingIds \cup {Null}],
         notifications' \in Seq(Notifications),
         \A i \in 1..Len(notifications') : turns[notifications'[i].run] \in TurnRecords,
         requests' \in [PendingIds -> Requests],
         \A r \in PendingIds : /\ requests'[r].turn = requests[r].turn
                               /\ requests'[r].state # "unsent" => requests[r].state # "unsent",
         consumer'.pc # "idle" => /\ consumer'.notification \in Notifications
                                  /\ turns[consumer'.notification.run] \in TurnRecords,
         consumer'.pc = "complete" => consumer'.notification.kind \in Terminals,
         hook'.pc # "idle" => /\ hook'.request \in PendingIds
                              /\ requests'[hook'.request].state # "unsent"
  PROVE  RuntimeInv'
<1>1. TypeOK'
  BY TypeStep DEF RuntimeInv, RuntimeTypeOK
<1>2. RuntimeTypeOK'
  BY <1>1 DEF RuntimeInv, RuntimeTypeOK
<1>3. \A c \in Chats : Known(c)' <=> Known(c)
  BY DEF Known
<1>4. HandlersAgree'
  <2> SUFFICES ASSUME NEW h \in Handlers
               PROVE  Agrees(handlers[h])' /\ OnThread(handlers[h])'
    BY DEF HandlersAgree
  <2>1. Agrees(handlers[h]) /\ OnThread(handlers[h]) /\ handlers' = handlers
    BY HandlerFacts
  <2>2. Agrees(handlers[h])'
    BY <2>1 DEF Agrees
  <2>3. OnThread(handlers[h])'
    BY <2>1 DEF OnThread, Known
  <2> QED BY <2>2, <2>3
<1>5. CodexAgrees'
  <2>1. \A c \in Chats : c \in loaded' \/ threads'[c] # Null => Known(c)'
    BY <1>3 DEF RuntimeInv, CodexAgrees
  <2>2. \A r \in PendingIds : requests'[r].state # "unsent" =>
          requests'[r].turn \in Turns /\ turns'[requests'[r].turn] \in TurnRecords
    BY DEF RuntimeInv, CodexAgrees
  <2> QED BY <2>1, <2>2 DEF CodexAgrees
<1> QED BY <1>2, <1>4, <1>5 DEF RuntimeInv

\* What the invariant says of the service itself.
LEMMA ServiceFacts ==
  ASSUME RuntimeInv
  PROVE  /\ pendingRecords \in [PendingKeys -> TrackedRecords \cup {Null}]
         /\ consumer \in [pc : {"idle", "append", "complete"},
                          notification : Notifications \cup {Null}]
         /\ hook \in [pc : {"idle", "register", "announce", "track"},
                      request : PendingIds \cup {Null}]
         /\ consumer.pc # "idle" => /\ consumer.notification \in Notifications
                                    /\ turns[consumer.notification.run] \in TurnRecords
                                    /\ ConsumerScope \in RunScopes
         /\ consumer.pc = "complete" => consumer.notification.kind \in Terminals
         /\ hook.pc # "idle" => /\ hook.request \in PendingIds
                                /\ requests[hook.request].state # "unsent"
         /\ \A r \in PendingIds : requests[r].state # "unsent" =>
              /\ requests[r].turn \in Turns /\ turns[requests[r].turn] \in TurnRecords
              /\ RequestScope(r) \in RunScopes
<1>1. /\ pendingRecords \in [PendingKeys -> TrackedRecords \cup {Null}]
      /\ consumer \in [pc : {"idle", "append", "complete"},
                       notification : Notifications \cup {Null}]
      /\ hook \in [pc : {"idle", "register", "announce", "track"},
                   request : PendingIds \cup {Null}]
      /\ consumer.pc # "idle" => /\ consumer.notification \in Notifications
                                 /\ turns[consumer.notification.run] \in TurnRecords
      /\ consumer.pc = "complete" => consumer.notification.kind \in Terminals
      /\ hook.pc # "idle" => /\ hook.request \in PendingIds
                             /\ requests[hook.request].state # "unsent"
      /\ \A r \in PendingIds : requests[r].state # "unsent" =>
           requests[r].turn \in Turns /\ turns[requests[r].turn] \in TurnRecords
  BY DEF RuntimeInv, RuntimeTypeOK, CodexAgrees
<1>2. \A x \in TurnRecords : x.chat \in Chats
  BY DEF TurnRecords
<1>3. \A n \in Notifications : n.run \in Turns
  BY DEF Notifications
<1>4. consumer.pc # "idle" => ConsumerScope \in RunScopes
  BY <1>1, <1>2, <1>3, RunsCover DEF ConsumerScope, RunScopes
<1>5. \A r \in PendingIds : requests[r].state # "unsent" => RequestScope(r) \in RunScopes
  BY <1>1, <1>2, RunsCover DEF RequestScope, RunScopes
<1> QED BY <1>1, <1>4, <1>5

LEMMA ConsumerStepInv ==
  ASSUME RuntimeInv, ConsumerStep
  PROVE  RuntimeInv' /\ [Next]_vars
<1> USE DEF NoNotification
<1>1. UNCHANGED <<handlers, pendingRecords, hook, threads, turns, loaded, calls, interrupts,
                  requests, restarts>>
  BY DEF ConsumerStep, ConsumeNotification, AppendNotification, CompleteNotifiedRun, Unseen,
         codexVars
<1>2. CASE ConsumeNotification
  <2>1. notifications # <<>> /\ notifications \in Seq(Notifications)
    BY <1>2, CodexFacts DEF ConsumeNotification
  <2>2. /\ notifications' = Tail(notifications) /\ UNCHANGED vars
        /\ \/ consumer' = consumer
           \/ consumer' = [pc |-> "append", notification |-> Head(notifications)]
    BY <1>2 DEF ConsumeNotification
  <2>3. /\ Tail(notifications) \in Seq(Notifications)
        /\ Head(notifications) = notifications[1] /\ 1 \in 1..Len(notifications)
        /\ Head(notifications) \in Notifications
        /\ \A i \in 1..Len(Tail(notifications)) :
             i + 1 \in 1..Len(notifications) /\ Tail(notifications)[i] = notifications[i + 1]
    BY <2>1
  <2>4. /\ \A i \in 1..Len(notifications') : turns[notifications'[i].run] \in TurnRecords
        /\ turns[Head(notifications).run] \in TurnRecords
    BY <2>2, <2>3, CodexFacts
  <2> QED BY <1>1, <2>2, <2>3, <2>4, ServiceFacts, CodexFacts, ServiceKeeps
<1>3. CASE AppendNotification
  <2>1. /\ consumer.pc = "append" /\ AppendEvent(ConsumerScope, consumer.notification.kind, 1)
        /\ \/ consumer.notification.kind \in Terminals
              /\ consumer' = [consumer EXCEPT !.pc = "complete"]
           \/ consumer' = [pc |-> "idle", notification |-> Null]
        /\ notifications' = notifications
    BY <1>3 DEF AppendNotification, Unseen, codexVars
  <2>2. consumer.notification \in Notifications /\ ConsumerScope \in RunScopes
    BY <2>1, ServiceFacts
  <2>3. consumer.notification.kind \in EventKinds
    BY <2>2, KindsCover DEF Notifications
  <2>4. Next
    BY <2>1, <2>2, <2>3, AppendIsNext
  <2> QED BY <1>1, <2>1, <2>2, <2>4, ServiceFacts, CodexFacts, ServiceKeeps
<1>4. CASE CompleteNotifiedRun
  <2>1. /\ consumer.pc = "complete" /\ notifications' = notifications
        /\ consumer' = [pc |-> "idle", notification |-> Null]
        /\ CompleteRun(ConsumerScope, consumer.notification.kind[2]) \/ UNCHANGED vars
    BY <1>4 DEF CompleteNotifiedRun, Unseen, codexVars
  <2>2. consumer.notification.kind[2] \in TerminalStates /\ ConsumerScope \in RunScopes
    BY <2>1, ServiceFacts DEF Terminals
  <2>3. [Next]_vars
    BY <2>1, <2>2, RunCallIsNext
  <2> QED BY <1>1, <2>1, <2>3, ServiceFacts, CodexFacts, ServiceKeeps
<1> QED BY <1>2, <1>3, <1>4 DEF ConsumerStep

\* A request of the app server that was sent stays sent, about the same turn.
LEMMA RequestMoves ==
  ASSUME RuntimeInv, NEW r \in PendingIds, NEW state \in RequestStates \ {"unsent"},
         requests[r].state # "unsent",
         requests' = [requests EXCEPT ![r].state = state]
  PROVE  /\ requests' \in [PendingIds -> Requests]
         /\ \A q \in PendingIds : /\ requests'[q].turn = requests[q].turn
                                  /\ requests'[q].state # "unsent" => requests[q].state # "unsent"
         /\ requests'[r].state = state
         /\ \A q \in PendingIds : q # r => requests'[q] = requests[q]
BY CodexFacts DEF Requests

LEMMA HookStepInv ==
  ASSUME RuntimeInv, HookStep
  PROVE  RuntimeInv' /\ [Next]_vars
<1> USE DEF NoRequest
<1>1. UNCHANGED <<handlers, consumer, threads, turns, loaded, calls, interrupts,
                  notifications, restarts>>
  BY DEF HookStep, HookLooks, HookRegisters, HookAnnounces, HookTracks, Unseen, codexVars
<1>2. CASE HookLooks
  <2>1. PICK r \in PendingIds :
          /\ requests[r].state = "sent" /\ DropStaleRecords /\ hook.pc = "idle"
          /\ \/ /\ requests' = [requests EXCEPT ![r].state = "hooked"]
                /\ hook' = [pc |-> "register", request |-> r]
             \/ requests' = [requests EXCEPT ![r].state = "refused"] /\ hook' = hook
    BY <1>2 DEF HookLooks
  <2>2. PICK state \in {"hooked", "refused"} : requests' = [requests EXCEPT ![r].state = state]
    BY <2>1
  <2>3. state \in RequestStates \ {"unsent"}
    BY DEF RequestStates
  <2>4. /\ requests' \in [PendingIds -> Requests]
        /\ \A q \in PendingIds : /\ requests'[q].turn = requests[q].turn
                                 /\ requests'[q].state # "unsent" => requests[q].state # "unsent"
        /\ requests'[r].state # "unsent"
    BY <2>1, <2>2, <2>3, RequestMoves
  <2>5. [Next]_vars
    BY <2>1, LooksIsNext DEF DropStaleRecords
  <2>6. /\ hook' \in [pc : {"idle", "register", "announce", "track"},
                      request : PendingIds \cup {Null}]
        /\ hook'.pc # "idle" => hook'.request = r
    BY <2>1, ServiceFacts
  <2> QED BY <1>1, <2>1, <2>4, <2>5, <2>6, DropStaleType, ServiceFacts, CodexFacts, ServiceKeeps
<1>3. CASE HookRegisters
  <2> DEFINE r == hook.request
  <2>1. /\ hook.pc = "register" /\ r \in PendingIds /\ requests[r].state # "unsent"
        /\ RequestScope(r) \in RunScopes
    BY <1>3, ServiceFacts DEF HookRegisters
  <2>2. CASE RegisterPendingForActiveRun(RequestScope(r), r)
             /\ hook' = [hook EXCEPT !.pc = "announce"] /\ UNCHANGED requests
    <3>1. [Next]_vars
      BY <2>1, <2>2 DEF Next, PendingOperation
    <3>2. hook' \in [pc : {"idle", "register", "announce", "track"},
                     request : PendingIds \cup {Null}] /\ hook'.request = r
      BY <2>2, ServiceFacts
    <3>3. pendingRecords' = pendingRecords
      BY <1>3 DEF HookRegisters
    <3> QED BY <1>1, <2>1, <2>2, <3>1, <3>2, <3>3, ServiceFacts, CodexFacts, ServiceKeeps
  <2>3. CASE /\ Refused /\ hook' = [pc |-> "idle", request |-> Null]
             /\ requests' = [requests EXCEPT ![r].state = IF @ = "hooked" THEN "refused" ELSE @]
    <3> DEFINE state == IF requests[r].state = "hooked" THEN "refused" ELSE requests[r].state
    <3>1. requests' = [requests EXCEPT ![r].state = state]
      BY <2>3, CodexFacts
    <3>2. state \in RequestStates \ {"unsent"}
      BY <2>1, CodexFacts DEF Requests, RequestStates
    <3> HIDE DEF state
    <3>3. /\ requests' \in [PendingIds -> Requests]
          /\ \A q \in PendingIds : /\ requests'[q].turn = requests[q].turn
                                   /\ requests'[q].state # "unsent" => requests[q].state # "unsent"
      BY <2>1, <3>1, <3>2, RequestMoves
    <3>4. pendingRecords' = pendingRecords /\ [Next]_vars
      BY <1>3, <2>3, LooksIsNext DEF HookRegisters
    <3> QED BY <1>1, <2>3, <3>3, <3>4, ServiceFacts, CodexFacts, ServiceKeeps
  <2> QED BY <1>3, <2>2, <2>3 DEF HookRegisters
<1>4. CASE HookAnnounces
  <2> DEFINE r == hook.request
  <2>1. /\ hook.pc = "announce" /\ r \in PendingIds /\ requests[r].state # "unsent"
        /\ RequestScope(r) \in RunScopes
        /\ AppendEvent(RequestScope(r), <<"pending_created", r>>, 1)
        /\ hook' = [hook EXCEPT !.pc = "track"]
        /\ UNCHANGED <<pendingRecords, requests>>
    BY <1>4, ServiceFacts DEF HookAnnounces, Unseen, codexVars
  <2>2. <<"pending_created", r>> \in EventKinds
    BY <2>1, KindsCover DEF Creations
  <2>3. Next
    BY <2>1, <2>2, AppendIsNext
  <2>4. hook' \in [pc : {"idle", "register", "announce", "track"},
                   request : PendingIds \cup {Null}] /\ hook'.request = r
    BY <2>1, ServiceFacts
  <2> QED BY <1>1, <2>1, <2>3, <2>4, ServiceFacts, CodexFacts, ServiceKeeps
<1>5. CASE HookTracks
  <2>1. /\ hook' = [pc |-> "idle", request |-> Null]
        /\ UNCHANGED vars /\ UNCHANGED requests
        /\ pendingRecords' = [pendingRecords EXCEPT ![HookKey] =
                                [inFlight |-> Null, responses |-> {}]]
    BY <1>5 DEF HookTracks, Unseen, codexVars
  <2>2. pendingRecords' \in [PendingKeys -> TrackedRecords \cup {Null}]
    <3> DEFINE x == [inFlight |-> Null, responses |-> {}]
    <3>1. x \in TrackedRecords
      BY DEF TrackedRecords
    <3> HIDE DEF x
    <3> QED BY <2>1, <3>1, ServiceFacts DEF x
  <2> QED BY <1>1, <2>1, <2>2, ServiceFacts, CodexFacts, ServiceKeeps
<1> QED BY <1>2, <1>3, <1>4, <1>5 DEF HookStep

LEMMA TimePassesInv ==
  ASSUME RuntimeInv, TimePasses
  PROVE  RuntimeInv' /\ [Next]_vars
<1>1. [Next]_vars /\ UNCHANGED <<gatewayVars, codexVars>>
  BY DEF TimePasses, Next
<1> QED BY <1>1, ServiceFacts, CodexFacts, ServiceKeeps DEF gatewayVars, codexVars

-----------------------------------------------------------------------------
(* The theorems about types and the store                                  *)

\* Every handler starts with a command that was validated, before its first step.
LEMMA FreshAgrees ==
  ASSUME NEW c \in Commands, Validated(c), ScopedOperation(c) \in Operations
  PROVE  /\ FreshHandler(c) \in HandlerRecords
         /\ Agrees(FreshHandler(c)) /\ OnThread(FreshHandler(c))
<1> DEFINE x == FreshHandler(c)
<1>1. /\ x.cmd = c /\ x.pc = FirstLabel(c.op) /\ x.chat = c.chat /\ x.run = c.run
      /\ x.attempt = 0
      /\ x = [cmd |-> c, pc |-> FirstLabel(c.op), chat |-> c.chat, run |-> c.run, state |-> Null,
              lifecycle |-> Null, attempt |-> 0, answer |-> Null, reads |-> 0,
              confirmedEmpty |-> FALSE, written |-> FALSE]
  BY DEF FreshHandler
<1>2. /\ c.op \in Ops /\ c.chat \in Chats \cup {Null} /\ c.run \in Runs \cup {Null}
  BY RunsCover DEF Commands
<1>3. /\ FirstLabel(c.op) \in LabelsOf(c.op)
      /\ FirstLabel(c.op) \in {"readThread", "done", "reserve"}
  BY <1>2 DEF FirstLabel, LabelsOf, Ops
<1>4. FirstLabel(c.op) \in HandlerLabels
  BY <1>3 DEF HandlerLabels
<1> HIDE DEF x
<1>5. x \in HandlerRecords
  BY <1>1, <1>2, <1>4 DEF HandlerRecords
<1>6. Agrees(x) /\ OnThread(x)
  BY <1>1, <1>2, <1>3 DEF Agrees, OnThread, OnChat, OnRun, Ending, Storing, Unstarted
<1> QED BY <1>5, <1>6 DEF x

LEMMA InitInv ==
  ASSUME RuntimeInit
  PROVE  RuntimeInv
<1>1. PICK f \in Assignments : handlers = [h \in Handlers |-> FreshHandler(f[h])]
  BY DEF RuntimeInit
<1>2. ASSUME NEW h \in Handlers
      PROVE  /\ handlers[h] = FreshHandler(f[h])
             /\ FreshHandler(f[h]) \in HandlerRecords
             /\ Agrees(handlers[h]) /\ OnThread(handlers[h])
  <2>1. f[h] \in Commands /\ Validated(f[h]) /\ ScopedOperation(f[h]) \in Operations
    BY AssignmentsAreCommands, CommandsAreValidated, OperationsCover
  <2> QED BY <1>1, <2>1, FreshAgrees
<1>3. handlers \in [Handlers -> HandlerRecords] /\ HandlersAgree
  BY <1>1, <1>2 DEF HandlersAgree
<1>4. /\ TypeOK
      /\ pendingRecords \in [PendingKeys -> TrackedRecords \cup {Null}]
      /\ consumer \in [pc : {"idle", "append", "complete"},
                       notification : Notifications \cup {Null}]
      /\ hook \in [pc : {"idle", "register", "announce", "track"},
                   request : PendingIds \cup {Null}]
      /\ loaded \subseteq Chats /\ calls \subseteq Calls /\ interrupts \subseteq Turns
      /\ notifications \in Seq(Notifications)
  BY InitType DEF RuntimeInit
<1>5. /\ threads \in [Chats -> Seq(Turns) \cup {Null}]
      /\ turns \in [Turns -> TurnRecords \cup {Null}]
      /\ requests \in [PendingIds -> Requests]
  BY DEF RuntimeInit, Requests, RequestStates
<1>6. restarts \in 0..MaxRestarts
  BY RuntimeBounds DEF RuntimeInit
<1>7. CodexAgrees
  <2>1. \A c \in Chats : threads[c] # Null => threads[c] = <<>>
    BY DEF RuntimeInit
  <2>2. \A c \in Chats : threads[c] = <<>> => Known(c)
    BY DEF Known
  <2> QED BY <2>1, <2>2 DEF RuntimeInit, CodexAgrees
<1> QED BY <1>3, <1>4, <1>5, <1>6, <1>7 DEF RuntimeInv, RuntimeTypeOK

LEMMA RuntimeStep ==
  ASSUME RuntimeInv, [RuntimeNext]_runtimeVars
  PROVE  RuntimeInv' /\ [Next]_vars
<1>1. CASE RuntimeNext
  BY <1>1, HandlerStepInv, ConsumerStepInv, HookStepInv, CodexStartsTurnInv,
     CodexRejectsTurnInv, CodexStreamsInv, CodexEndsTurnInv, CodexInterruptsInv,
     CodexAsksInv, CodexRestartsInv, TimePassesInv
     DEF RuntimeNext, CodexStep
<1>2. CASE UNCHANGED runtimeVars
  <2>1. UNCHANGED <<vars, gatewayVars, codexVars>>
    BY <1>2 DEF runtimeVars
  <2>2. [Next]_vars
    BY <2>1
  <2> QED BY <2>1, <2>2, ServiceFacts, CodexFacts, ServiceKeeps DEF gatewayVars, codexVars
<1> QED BY <1>1, <1>2

\* Whatever the handlers, the consumer, the hook and the app server do, in any
\* order, the service keeps RuntimeInv: its state is well formed, the locals of
\* every handler agree with its command and where it is, and what the service
\* holds of the app server is about turns that were started.
THEOREM RuntimeInvHolds == RuntimeSpec => []RuntimeInv
<1>1. RuntimeInit => RuntimeInv
  BY InitInv
<1>2. RuntimeInv /\ [RuntimeNext]_runtimeVars => RuntimeInv'
  BY RuntimeStep
<1> QED BY <1>1, <1>2, PTL DEF RuntimeSpec

\* Handlers, tracked requests and what the app server is asked stay well formed.
THEOREM RuntimeTypeCorrect == RuntimeSpec => []RuntimeTypeOK
<1>1. RuntimeInv => RuntimeTypeOK
  BY DEF RuntimeInv
<1> QED BY <1>1, RuntimeInvHolds, PTL

\* The chat service uses the store as its interface allows: every step of a
\* handler, the consumer, the hook, the app server or the clock is an operation
\* of ChatStore with arguments of the right types, or leaves the store alone.
THEOREM RuntimeImplementsStore == RuntimeSpec => Spec
<1>1. RuntimeInit => Init
  BY DEF RuntimeInit
<1>2. RuntimeInv /\ [RuntimeNext]_runtimeVars => [Next]_vars
  BY RuntimeStep
<1> QED BY <1>1, <1>2, RuntimeInvHolds, PTL DEF RuntimeSpec, Spec

\* What is proved of the store holds in the service: the runs and the capacity
\* reserved for runs to come never exceed the limit.
THEOREM RuntimeCapacityHeld == RuntimeSpec => []ActiveRunCapacityHeld
BY RuntimeImplementsStore, ActiveRunCapacity, PTL

\* So does what the store promises to streams: a replay that succeeds leaves no
\* gap, and an open subscriber has every event.
THEOREM RuntimeStreamsAreGapless ==
  RuntimeSpec => [](ReplayHasNoSilentGap /\ OpenSubscriberMissesNothing)
BY RuntimeImplementsStore, ReplayIsGapless, SubscriberMissesNothing, PTL

\* And what it promises to retries: a success is remembered for ReplayTTL.
THEOREM RuntimeSuccessRemembered == RuntimeSpec => SuccessIsRemembered
BY RuntimeImplementsStore, SuccessRemembered

-----------------------------------------------------------------------------
(* Who moves                                                               *)

LEMMA HandlerStepMoves ==
  ASSUME RuntimeInv, NEW h \in Handlers, HandlerStep(h)
  PROVE  /\ HandlerMoves(h) /\ handlers'[h].cmd = handlers[h].cmd
         /\ \A g \in Handlers : g # h => handlers'[g] = handlers[g]
<1>1. HandlerMoves(h)
  BY LocalStepAdvances, ReportStatusAdvances, RespondAdvances, SendAdvances,
     SendInterruptAdvances, WriteAdvances, ResumeThreadAdvances, StartThreadMoves
     DEF HandlerStep, LocalStep, Advances
<1>2. handlers \in [Handlers -> HandlerRecords]
  BY HandlerFacts
<1> QED BY <1>1, <1>2 DEF HandlerMoves

\* The steps of the app server and of the rest of the gateway.
CodexMoves  == CodexStep \/ CodexAsks \/ CodexRestarts
ServiceMoves == ConsumerStep \/ HookStep \/ TimePasses

LEMMA NextMoves == RuntimeNext <=> \/ \E h \in Handlers : HandlerStep(h)
                                   \/ CodexMoves \/ ServiceMoves
BY DEF RuntimeNext, CodexMoves, ServiceMoves

\* The locals of a handler but for the answer it waits for.
SameButAnswer(g) ==
  /\ handlers'[g].cmd = handlers[g].cmd /\ handlers'[g].pc = handlers[g].pc
  /\ handlers'[g].chat = handlers[g].chat /\ handlers'[g].run = handlers[g].run
  /\ handlers'[g].state = handlers[g].state /\ handlers'[g].attempt = handlers[g].attempt
  /\ handlers'[g].written = handlers[g].written

\* The app server touches nothing of the gateway but the answer of a handler.
LEMMA CodexFrame ==
  ASSUME RuntimeInv, CodexMoves
  PROVE  /\ UNCHANGED <<vars, pendingRecords, consumer, hook>>
         /\ \A g \in Handlers : SameButAnswer(g)
<1>1. CASE CodexStartsTurn
  <2>1. PICK g \in Handlers, t \in Turns :
          /\ \/ handlers' = handlers
             \/ handlers' = [handlers EXCEPT ![g].answer = t]
          /\ UNCHANGED <<vars, pendingRecords, consumer, hook>>
    BY <1>1, CodexStartsTurnFacts
  <2>2. ASSUME NEW f \in Handlers
        PROVE  \/ handlers'[f] = handlers[f]
               \/ handlers'[f] = [handlers[f] EXCEPT !.answer = t]
    BY <2>1, HandlerFacts
  <2>3. ASSUME NEW f \in Handlers PROVE SameButAnswer(f)
    <3>1. handlers[f] \in HandlerRecords
      BY HandlerFacts
    <3> QED BY <2>2, <3>1 DEF SameButAnswer, HandlerRecords
  <2> QED BY <2>1, <2>3
<1>2. CASE CodexRejectsTurn \/ CodexStreams \/ CodexEndsTurn \/ CodexInterrupts \/ CodexAsks
           \/ CodexRestarts
  BY <1>2 DEF CodexRejectsTurn, CodexStreams, CodexEndsTurn, CodexInterrupts, CodexAsks,
              CodexRestarts, gatewayVars, SameButAnswer
<1> QED BY <1>1, <1>2 DEF CodexMoves, CodexStep

\* The consumer, the hook and the clock do not touch the handlers.
LEMMA ServiceFrame ==
  ASSUME ServiceMoves
  PROVE  handlers' = handlers /\ turns' = turns
BY DEF ServiceMoves, ConsumerStep, ConsumeNotification, AppendNotification,
       CompleteNotifiedRun, HookStep, HookLooks, HookRegisters, HookAnnounces, HookTracks,
       TimePasses, gatewayVars, codexVars, Unseen

\* A handler keeps its command for ever.
LEMMA CommandsKept ==
  ASSUME RuntimeInv, [RuntimeNext]_runtimeVars, NEW g \in Handlers
  PROVE  handlers'[g].cmd = handlers[g].cmd /\ Scope(g)' = Scope(g)
<1>1. handlers'[g].cmd = handlers[g].cmd
  BY NextMoves, HandlerStepMoves, CodexFrame, ServiceFrame
     DEF SameButAnswer, runtimeVars, gatewayVars
<1> QED BY <1>1 DEF Scope, ScopedOperation

-----------------------------------------------------------------------------
(* Reservations                                                            *)

Owning == {"startThread", "sendTurn", "awaitTurn", "recover", "install", "releaseBoth",
           "releaseCapacity"}

\* A StartChatRun goes on owning its reservation, or it is gone.
LEMMA OwnerKept ==
  ASSUME RuntimeInv, NEW h \in Handlers, HandlerStep(h),
         handlers[h].cmd.op = "StartChatRun", handlers[h].pc \in Owning
  PROVE  handlers'[h].pc \in Owning \/ Scope(h) \notin reservations'
<1>1. handlers \in [Handlers -> HandlerRecords] /\ handlers[h] \in HandlerRecords
  BY HandlerFacts
<1>2. CASE ReleaseKey(h)
  BY <1>1, <1>2 DEF ReleaseKey, Goto, Owning, FreshHandler, Leaving
<1>3. CASE StartThread(h) \/ SendTurn(h) \/ TurnAnswered(h) \/ TurnFails(h)
  <2>1. CASE StartThread(h)
    BY <2>1, StartThreadMoves DEF Owning
  <2>2. CASE SendTurn(h)
    BY <2>2, SendAdvances DEF Owning
  <2>3. CASE TurnAnswered(h)
    BY <1>1, <2>3 DEF TurnAnswered, Owning, HandlerRecords
  <2>4. CASE TurnFails(h)
    BY <1>1, <2>4 DEF TurnFails, Owning, HandlerRecords
  <2> QED BY <1>3, <2>1, <2>2, <2>3, <2>4
<1>4. CASE RecoverRead(h) \/ RecoverGivesUp(h)
  <2>1. CASE RecoverRead(h)
    <3>1. \/ handlers' = [handlers EXCEPT ![h].reads = @ + 1]
          \/ handlers' = [handlers EXCEPT ![h].reads = @ + 1, ![h].confirmedEmpty = TRUE]
          \/ \E t, state : handlers' = [handlers EXCEPT ![h] =
                            [@ EXCEPT !.pc = "install", !.run = t, !.state = state]]
      BY <2>1, Zenon DEF RecoverRead
    <3>2. ASSUME NEW t, NEW state,
                 handlers' = [handlers EXCEPT ![h] =
                   [@ EXCEPT !.pc = "install", !.run = t, !.state = state]]
          PROVE  handlers'[h].pc = "install"
      BY <1>1, <3>2 DEF HandlerRecords
    <3>3. ASSUME \/ handlers' = [handlers EXCEPT ![h].reads = @ + 1]
                 \/ handlers' = [handlers EXCEPT ![h].reads = @ + 1, ![h].confirmedEmpty = TRUE]
          PROVE  handlers'[h].pc = handlers[h].pc
      BY <1>1, <3>3 DEF HandlerRecords
    <3>4. CASE \E t, state : handlers' = [handlers EXCEPT ![h] =
                 [@ EXCEPT !.pc = "install", !.run = t, !.state = state]]
      <4>1. handlers'[h].pc = "install"
        BY <3>2, <3>4, Zenon
      <4> QED BY <4>1 DEF Owning
    <3> QED BY <3>1, <3>3, <3>4, Zenon
  <2>2. CASE RecoverGivesUp(h)
    <3>1. Goto(h, "sendTurn") \/ Goto(h, "releaseCapacity")
      BY <2>2, Zenon DEF RecoverGivesUp
    <3> QED BY <1>1, <3>1 DEF Goto, Owning, FreshHandler, Leaving, HandlerRecords
  <2> QED BY <1>4, <2>1, <2>2
<1>5. CASE InstallRun(h) \/ ReleaseCapacity(h)
  BY <1>1, <1>5 DEF InstallRun, ReleaseCapacity, ReleaseActiveRunCapacity,
                    StartRunWithReservation, Goto, Owning, FreshHandler, Leaving
<1>6. ReleaseKey(h) \/ StartThread(h) \/ SendTurn(h) \/ TurnAnswered(h) \/ TurnFails(h)
      \/ RecoverRead(h) \/ RecoverGivesUp(h) \/ InstallRun(h) \/ ReleaseCapacity(h)
  BY DEF HandlerStep, Owning, ReserveKey, RememberResult, ReportStatus, Reconcile,
         ReconcileAppend, ReconcileComplete, ReadThread, ReserveCapacity, CompleteRecovered,
         ResumeThread, StartProvisionalRun, AbandonRun, BindRun, MarkRunning, AnnounceRun,
         LookRun, SendInterrupt, MarkInterrupting, AnnounceInterrupt, LookPending,
         ClaimPending, WriteResponse, FinishResponse, ReleaseClaim, ResolveRequest,
         RestoreRun, AnnounceResolved
<1> QED BY <1>2, <1>3, <1>4, <1>5, <1>6

\* Only ReserveCapacity adds a reservation, its own.
LEMMA ReservationsMove ==
  ASSUME RuntimeInv, NEW h \in Handlers, HandlerStep(h)
  PROVE  \/ reservations' \subseteq reservations
         \/ /\ reservations' = reservations \cup {Scope(h)}
            /\ handlers[h].cmd.op = "StartChatRun" /\ handlers'[h].pc = "startThread"
<1>1. handlers \in [Handlers -> HandlerRecords]
  BY HandlerFacts
<1>2. CASE ReserveCapacity(h)
  <2>1. handlers[h].cmd.op = "StartChatRun"
    BY <1>2, HandlerFacts DEF ReserveCapacity, LabelsOf, Ops
  <2>2. CASE ReserveActiveRunCapacity(Scope(h)) /\ Goto(h, "startThread")
    BY <1>1, <2>1, <2>2 DEF ReserveActiveRunCapacity, Goto, Leaving, HandlerRecords
  <2> QED BY <1>2, <2>2 DEF ReserveCapacity, Refused, runVars
<1>3. CASE InstallRun(h) \/ ReleaseCapacity(h)
  BY <1>3 DEF InstallRun, ReleaseCapacity, ReleaseActiveRunCapacity, StartRunWithReservation,
              Refused, runVars
<1>4. CASE ReserveKey(h) \/ ReleaseKey(h) \/ RememberResult(h) \/ ReportStatus(h)
  BY <1>4 DEF ReserveKey, ReleaseKey, RememberResult, ReportStatus, DropStaleRecords, Refused,
              ReserveIdempotency, ReleaseIdempotency, CompleteIdempotency, UpdateIdempotency,
              runVars, vars
<1>5. CASE Reconcile(h) \/ ReconcileAppend(h) \/ ReconcileComplete(h) \/ ReadThread(h)
  BY <1>5 DEF Reconcile, ReconcileAppend, ReconcileComplete, ReadThread, AppendEvent,
              CompleteRun, runVars, vars
<1>6. CASE SendTurn(h) \/ TurnAnswered(h) \/ TurnFails(h) \/ StartThread(h) \/ RecoverRead(h)
           \/ RecoverGivesUp(h) \/ ResumeThread(h) \/ LookRun(h) \/ SendInterrupt(h)
           \/ LookPending(h) \/ WriteResponse(h) \/ FinishResponse(h)
  BY <1>6 DEF SendTurn, TurnAnswered, TurnFails, StartThread, RecoverRead, RecoverGivesUp,
              ResumeThread, LookRun, SendInterrupt, LookPending, WriteResponse,
              FinishResponse, vars
<1>7. CASE CompleteRecovered(h) \/ StartProvisionalRun(h) \/ AbandonRun(h) \/ BindRun(h)
           \/ MarkRunning(h) \/ AnnounceRun(h) \/ MarkInterrupting(h) \/ AnnounceInterrupt(h)
           \/ RestoreRun(h) \/ AnnounceResolved(h)
  BY <1>7 DEF CompleteRecovered, StartProvisionalRun, AbandonRun, BindRun, MarkRunning,
              AnnounceRun, MarkInterrupting, AnnounceInterrupt, RestoreRun, AnnounceResolved,
              CompleteRun, StartRun, BindRunID, UpdateRunState, RestoreRunStateAfterPending,
              AppendEvent, Refused, runVars, vars
<1>8. CASE ClaimPending(h) \/ ReleaseClaim(h) \/ ResolveRequest(h)
  BY <1>8 DEF ClaimPending, ReleaseClaim, ResolveRequest, RefuseResponse,
              ClaimPendingResolution, ReleasePendingResolutionClaim, ResolvePending,
              UpdatePending, Refused, runVars, vars
<1> QED BY <1>2, <1>3, <1>4, <1>5, <1>6, <1>7, <1>8 DEF HandlerStep

LEMMA OwnerStep ==
  ASSUME RuntimeInv, ReservationHasOwner, [RuntimeNext]_runtimeVars
  PROVE  ReservationHasOwner'
<1> SUFFICES ASSUME NEW i \in reservations'
             PROVE  \E h \in Handlers : /\ handlers'[h].cmd.op = "StartChatRun"
                                        /\ Scope(h)' = i /\ handlers'[h].pc \in Owning
  BY DEF ReservationHasOwner, Owning
<1>1. \A j \in reservations : \E g \in Handlers : /\ handlers[g].cmd.op = "StartChatRun"
                                                  /\ Scope(g) = j /\ handlers[g].pc \in Owning
  BY DEF ReservationHasOwner, Owning
<1>2. CASE \E h \in Handlers : HandlerStep(h)
  <2>1. PICK h \in Handlers : HandlerStep(h)
    BY <1>2
  <2>2. CASE i \in reservations
    <3>1. PICK g \in Handlers : /\ handlers[g].cmd.op = "StartChatRun"
                                /\ Scope(g) = i /\ handlers[g].pc \in Owning
      BY <1>1, <2>2
    <3>2. handlers'[g].cmd = handlers[g].cmd /\ Scope(g)' = i
      BY <3>1, CommandsKept
    <3>3. handlers'[g].pc \in Owning
      BY <2>1, <3>1, OwnerKept, HandlerStepMoves
    <3> QED BY <3>1, <3>2, <3>3
  <2>3. CASE i \notin reservations
    BY <2>1, <2>3, ReservationsMove, CommandsKept DEF Owning
  <2> QED BY <2>2, <2>3
<1>3. CASE CodexMoves \/ ServiceMoves \/ UNCHANGED runtimeVars
  <2>1. reservations' = reservations
    BY <1>3, CodexFrame DEF ServiceMoves, ConsumerStep, ConsumeNotification,
       AppendNotification, CompleteNotifiedRun, HookStep, HookLooks, HookRegisters,
       HookAnnounces, HookTracks, TimePasses, Tick, AppendEvent, CompleteRun,
       RegisterPendingForActiveRun, DropStaleRecords, Refused, runVars, vars, runtimeVars
  <2>2. \A g \in Handlers : handlers'[g].pc = handlers[g].pc
    BY <1>3, CodexFrame, ServiceFrame DEF SameButAnswer, runtimeVars, gatewayVars
  <2> QED BY <1>1, <2>1, <2>2, CommandsKept
<1> QED BY <1>2, <1>3, NextMoves

\* No capacity leaks: whatever fails between the reservation and the run, and
\* whatever other handlers do with the same key, a reservation belongs to a
\* StartChatRun that is still at work on it and has its release before it.
THEOREM ReservationOwned == RuntimeSpec => []ReservationHasOwner
<1>1. RuntimeInit => ReservationHasOwner
  BY DEF RuntimeInit, Init, ReservationHasOwner
<1>2. RuntimeInv /\ ReservationHasOwner /\ [RuntimeNext]_runtimeVars => ReservationHasOwner'
  BY OwnerStep
<1> QED BY <1>1, <1>2, RuntimeInvHolds, PTL DEF RuntimeSpec

-----------------------------------------------------------------------------
(* Interrupts                                                              *)

\* The operations of the store that do not touch the runs of chats.
LEMMA RunsLeftAlone ==
  ASSUME \/ Refused \/ UNCHANGED vars
         \/ \E s, kind : AppendEvent(s, kind, 1)
         \/ \E i : \/ ReserveActiveRunCapacity(i) \/ ReleaseActiveRunCapacity(i)
                   \/ ReserveIdempotency(i) \/ CompleteIdempotency(i) \/ ReleaseIdempotency(i)
         \/ \E k : \/ ClaimPendingResolution(k) \/ ReleasePendingResolutionClaim(k)
                   \/ ResolvePending(k)
  PROVE  activeRuns' = activeRuns
BY DEF Refused, AppendEvent, ReserveActiveRunCapacity, ReleaseActiveRunCapacity,
       ReserveIdempotency, CompleteIdempotency, ReleaseIdempotency, UpdateIdempotency,
       ClaimPendingResolution, ReleasePendingResolutionClaim, ResolvePending, UpdatePending,
       runVars, vars

\* The others: what each of them does to a run that is interrupting.
LEMMA InterruptingRun ==
  ASSUME TypeOK, NEW c \in Chats, activeRuns[c] # Null, activeRuns[c].state = "interrupting",
         NEW s \in RunScopes,
         \/ StartRun(s) \/ RestoreRunStateAfterPending(s)
         \/ UpdateRunState(s, "interrupting")
         \/ \E i : StartRunWithReservation(i, s)
         \/ \E run : BindRunID(s, run)
         \/ \E state : CompleteRun(s, state)
         \/ \E r : RegisterPendingForActiveRun(s, r)
  PROVE  activeRuns'[c] = Null \/ activeRuns'[c].state = "interrupting"
<1>1. activeRuns \in [Chats -> RunRecords \cup {Null}] /\ s[1] \in Chats
  BY DEF TypeOK, RunScopes
<1>2. activeRuns[c] \in RunRecords
  BY <1>1
<1>3. CASE StartRun(s) \/ \E i : StartRunWithReservation(i, s)
  <2>1. s[1] # c
    BY <1>3 DEF StartRun, StartRunWithReservation, HasActiveRun, LiveStates
  <2> QED BY <1>1, <1>3, <2>1 DEF StartRun, StartRunWithReservation
<1>4. CASE RestoreRunStateAfterPending(s) \/ UpdateRunState(s, "interrupting")
  BY <1>1, <1>2, <1>4 DEF RestoreRunStateAfterPending, UpdateRunState, RunRecords
<1>5. CASE \E run : BindRunID(s, run)
  BY <1>1, <1>2, <1>5 DEF BindRunID, RunRecords
<1>6. CASE \E state : CompleteRun(s, state)
  BY <1>1, <1>6 DEF CompleteRun
<1>7. CASE \E r : RegisterPendingForActiveRun(s, r)
  <2>1. s[1] # c
    BY <1>7 DEF RegisterPendingForActiveRun, AcceptsPending
  <2> QED BY <1>1, <1>7, <2>1 DEF RegisterPendingForActiveRun
<1> QED BY <1>3, <1>4, <1>5, <1>6, <1>7

LEMMA HandlerInterrupts ==
  ASSUME RuntimeInv, NEW h \in Handlers, HandlerStep(h),
         NEW c \in Chats, activeRuns[c] # Null, activeRuns[c].state = "interrupting"
  PROVE  \/ activeRuns'[c] = Null \/ activeRuns'[c].state = "interrupting"
         \/ handlers[h].pc = "markRunning" /\ handlers'[h].pc = "announceRun"
<1>1. /\ TypeOK /\ handlers \in [Handlers -> HandlerRecords]
      /\ handlers[h].pc \in OnRun => RunScope(h) \in RunScopes
      /\ handlers[h].cmd.op = "RunChatTurn" => Provisional(h) \in RunScopes
  BY HandlerFacts DEF RuntimeInv, RuntimeTypeOK
<1>2. handlers[h].pc \in {"startRun", "abandon", "bind"} => Provisional(h) \in RunScopes
  BY <1>1, HandlerFacts DEF LabelsOf, Ops
<1>3. CASE StartProvisionalRun(h) \/ AbandonRun(h) \/ BindRun(h)
  BY <1>1, <1>2, <1>3, RunsLeftAlone, InterruptingRun
     DEF StartProvisionalRun, AbandonRun, BindRun
<1>4. CASE InstallRun(h) \/ ReconcileComplete(h) \/ CompleteRecovered(h)
  BY <1>1, <1>4, RunsLeftAlone, InterruptingRun
     DEF InstallRun, ReconcileComplete, CompleteRecovered, OnRun
<1>5. CASE RestoreRun(h)
  BY <1>1, <1>5, RunsLeftAlone, InterruptingRun DEF RestoreRun, OnRun
<1>6. CASE MarkInterrupting(h)
  <2>1. handlers[h].chat \in Chats
    <3>1. handlers[h].cmd.op = "InterruptChatRun" /\ Agrees(handlers[h])
      BY <1>6, HandlerFacts DEF MarkInterrupting, LabelsOf, Ops
    <3> QED BY <3>1 DEF Agrees, Validated
  <2>2. handlers[h].run \in Runs
    <3>1. handlers[h].cmd.op = "InterruptChatRun" /\ Agrees(handlers[h])
      BY <1>6, HandlerFacts DEF MarkInterrupting, LabelsOf, Ops
    <3> QED BY <3>1, RunsCover DEF Agrees, Validated
  <2>3. RunScope(h) \in RunScopes
    BY <2>1, <2>2 DEF RunScope, RunScopes
  <2> QED BY <1>1, <1>6, <2>3, RunsLeftAlone, InterruptingRun DEF MarkInterrupting
<1>7. CASE MarkRunning(h)
  BY <1>1, <1>7, RunsLeftAlone DEF MarkRunning, Goto, Leaving, HandlerRecords
<1>8. CASE \/ ReserveKey(h) \/ ReleaseKey(h) \/ RememberResult(h) \/ ReserveCapacity(h)
           \/ ReleaseCapacity(h) \/ ReconcileAppend(h) \/ AnnounceRun(h)
           \/ AnnounceInterrupt(h) \/ AnnounceResolved(h) \/ ReleaseClaim(h)
           \/ ResolveRequest(h)
  BY <1>8, RunsLeftAlone
     DEF ReserveKey, ReleaseKey, RememberResult, ReserveCapacity, ReleaseCapacity,
         ReconcileAppend, AnnounceRun, AnnounceInterrupt, AnnounceResolved, ReleaseClaim,
         ResolveRequest
<1>9. CASE ReportStatus(h) \/ ClaimPending(h)
  BY <1>9, RunsLeftAlone DEF ReportStatus, ClaimPending, DropStaleRecords, RefuseResponse, vars
<1>10. CASE \/ Reconcile(h) \/ ReadThread(h) \/ SendTurn(h) \/ TurnAnswered(h) \/ TurnFails(h)
            \/ StartThread(h) \/ RecoverRead(h) \/ RecoverGivesUp(h) \/ ResumeThread(h)
            \/ LookRun(h) \/ SendInterrupt(h) \/ LookPending(h) \/ WriteResponse(h)
            \/ FinishResponse(h)
  BY <1>10 DEF Reconcile, ReadThread, SendTurn, TurnAnswered, TurnFails, StartThread,
               RecoverRead, RecoverGivesUp, ResumeThread, LookRun, SendInterrupt, LookPending,
               WriteResponse, FinishResponse, vars
<1> QED BY <1>3, <1>4, <1>5, <1>6, <1>7, <1>8, <1>9, <1>10 DEF HandlerStep

LEMMA ServiceInterrupts ==
  ASSUME RuntimeInv, ServiceMoves,
         NEW c \in Chats, activeRuns[c] # Null, activeRuns[c].state = "interrupting"
  PROVE  activeRuns'[c] = Null \/ activeRuns'[c].state = "interrupting"
<1>1. TypeOK
  BY DEF RuntimeInv, RuntimeTypeOK
<1>2. CASE CompleteNotifiedRun
  <2>1. ConsumerScope \in RunScopes
    BY <1>2, ServiceFacts DEF CompleteNotifiedRun
  <2> QED BY <1>1, <1>2, <2>1, RunsLeftAlone, InterruptingRun DEF CompleteNotifiedRun
<1>3. CASE HookRegisters
  <2>1. RequestScope(hook.request) \in RunScopes
    BY <1>3, ServiceFacts DEF HookRegisters
  <2> QED BY <1>1, <1>3, <2>1, RunsLeftAlone, InterruptingRun DEF HookRegisters
<1>4. CASE \/ ConsumeNotification \/ AppendNotification \/ HookLooks \/ HookAnnounces
           \/ HookTracks \/ TimePasses
  BY <1>4, RunsLeftAlone
     DEF ConsumeNotification, AppendNotification, HookLooks, HookAnnounces, HookTracks,
         DropStaleRecords, TimePasses, Tick, runVars, vars
<1> QED BY <1>2, <1>3, <1>4 DEF ServiceMoves, ConsumerStep, HookStep

\* A client that interrupts a run is not overruled by another one that answers
\* a pending request of the run, by a new request or by a notification: only the
\* handler that started the run stores another live state over interrupting.
THEOREM InterruptSurvives == RuntimeSpec => InterruptSurvivesResponse
<1> DEFINE Survives(c) ==
      activeRuns[c] # Null /\ activeRuns[c].state = "interrupting"
        => \/ activeRuns'[c] = Null \/ activeRuns'[c].state = "interrupting"
           \/ \E h \in Handlers : /\ handlers[h].pc = "markRunning"
                                 /\ handlers'[h].pc = "announceRun"
<1>1. RuntimeInv /\ [RuntimeNext]_runtimeVars => [\A c \in Chats : Survives(c)]_runtimeVars
  <2> SUFFICES ASSUME RuntimeInv, RuntimeNext, NEW c \in Chats,
                      activeRuns[c] # Null, activeRuns[c].state = "interrupting"
               PROVE  \/ activeRuns'[c] = Null \/ activeRuns'[c].state = "interrupting"
                      \/ \E h \in Handlers : /\ handlers[h].pc = "markRunning"
                                             /\ handlers'[h].pc = "announceRun"
    OBVIOUS
  <2>1. CASE \E h \in Handlers : HandlerStep(h)
    BY <2>1, HandlerInterrupts
  <2>2. CASE CodexMoves
    BY <2>2, CodexFrame DEF vars
  <2>3. CASE ServiceMoves
    BY <2>3, ServiceInterrupts
  <2> QED BY <2>1, <2>2, <2>3, NextMoves
<1> QED BY <1>1, RuntimeInvHolds, PTL DEF RuntimeSpec, InterruptSurvivesResponse

-----------------------------------------------------------------------------
(* One turn for one request                                                *)

IsRun(h) == handlers[h].cmd.op = "RunChatTurn"

\* Where a RunChatTurn has not asked for its turn, and never will from "release".
Before == {"reserve", "resume", "reconcile", "reconcileAppend", "reconcileComplete",
           "startRun", "sendTurn", "release"}

CallsOf(h) == {call \in calls : call.handler = h}
TurnsOf(h) == {t \in Turns : turns[t] # Null /\ turns[t].handler = h}
TurnSent(h) == CallsOf(h) # {} \/ TurnsOf(h) # {}

\* A RunChatTurn whose key must be known, as its turn may be started or was.
Committed(h) == IsRun(h) /\ (handlers[h].pc \notin {"reserve", "done"} \/ TurnSent(h))

SentOnce(h) ==
  /\ handlers[h].pc \in Before => ~TurnSent(h)
  /\ CallsOf(h) = {} \/ TurnsOf(h) = {}
  /\ \A a, b \in CallsOf(h) : a = b
  /\ \A t, u \in TurnsOf(h) : t = u

\* The key of a request is known, and one handler at most has it.
KeyKnown(h) == /\ idempotency[StoreKey(Scope(h))] # Null
               /\ idempotency[StoreKey(Scope(h))].scope = Scope(h)
KeysHeld == /\ \A h \in Handlers : Committed(h) => KeyKnown(h)
            /\ \A g, h \in Handlers :
                 Committed(g) /\ Committed(h) /\ Scope(g) = Scope(h) => g = h

TurnInv == /\ \A h \in Handlers : IsRun(h) => SentOnce(h)
           /\ now <= ReplayTTL => KeysHeld

\* The operations of the store that are not about a key leave the entries as
\* they are, or as cleanup leaves them.
LEMMA EntriesLeftAlone ==
  ASSUME \/ Refused \/ UNCHANGED vars
         \/ \E s, kind : AppendEvent(s, kind, 1)
         \/ \E i : \/ ReserveActiveRunCapacity(i) \/ ReleaseActiveRunCapacity(i)
                   \/ \E s : StartRunWithReservation(i, s)
         \/ \E s : \/ StartRun(s) \/ RestoreRunStateAfterPending(s)
                   \/ \E x : \/ UpdateRunState(s, x) \/ BindRunID(s, x) \/ CompleteRun(s, x)
                             \/ RegisterPendingForActiveRun(s, x)
         \/ \E k : \/ ClaimPendingResolution(k) \/ ReleasePendingResolutionClaim(k)
                   \/ ResolvePending(k)
  PROVE  now' = now /\ idempotency' \in {idempotency, CleanedIdempotency}
BY DEF Refused, AppendEvent, ReserveActiveRunCapacity, ReleaseActiveRunCapacity,
       StartRunWithReservation, StartRun, RestoreRunStateAfterPending, UpdateRunState,
       BindRunID, CompleteRun, RegisterPendingForActiveRun, ClaimPendingResolution,
       ReleasePendingResolutionClaim, ResolvePending, UpdatePending, Cleanup,
       CleanupIdempotency, runVars, cleanedVars, vars

\* What a step of a handler does to the entries.
LEMMA HandlerEntries ==
  ASSUME NEW h \in Handlers, HandlerStep(h)
  PROVE  /\ now' = now
         /\ \/ idempotency' \in {idempotency, CleanedIdempotency}
            \/ ReserveKey(h) /\ ReserveIdempotency(Scope(h))
            \/ ReleaseKey(h) \/ RememberResult(h)
<1>1. CASE ReserveKey(h)
  <2>1. CASE ReserveIdempotency(Scope(h))
    BY <1>1, <2>1 DEF ReserveIdempotency, UpdateIdempotency
  <2>2. CASE Refused
    BY <2>2, EntriesLeftAlone
  <2> QED BY <1>1, <2>1, <2>2 DEF ReserveKey
<1>2. CASE ReleaseKey(h) \/ RememberResult(h)
  BY <1>2 DEF ReleaseKey, RememberResult, ReleaseIdempotency, CompleteIdempotency,
              UpdateIdempotency
<1>3. CASE \/ StartProvisionalRun(h) \/ AbandonRun(h) \/ BindRun(h) \/ MarkRunning(h)
           \/ AnnounceRun(h) \/ CompleteRecovered(h) \/ InstallRun(h) \/ ReconcileComplete(h)
           \/ ReconcileAppend(h) \/ ReserveCapacity(h) \/ ReleaseCapacity(h)
  BY <1>3, EntriesLeftAlone
     DEF StartProvisionalRun, AbandonRun, BindRun, MarkRunning, AnnounceRun,
         CompleteRecovered, InstallRun, ReconcileComplete, ReconcileAppend, ReserveCapacity,
         ReleaseCapacity
<1>4. CASE \/ MarkInterrupting(h) \/ AnnounceInterrupt(h) \/ RestoreRun(h)
           \/ AnnounceResolved(h) \/ ReleaseClaim(h) \/ ResolveRequest(h)
  BY <1>4, EntriesLeftAlone
     DEF MarkInterrupting, AnnounceInterrupt, RestoreRun, AnnounceResolved, ReleaseClaim,
         ResolveRequest
<1>5. CASE ReportStatus(h) \/ ClaimPending(h)
  BY <1>5, EntriesLeftAlone DEF ReportStatus, ClaimPending, DropStaleRecords, RefuseResponse, vars
<1>6. CASE \/ Reconcile(h) \/ ReadThread(h) \/ SendTurn(h) \/ TurnAnswered(h) \/ TurnFails(h)
           \/ StartThread(h) \/ RecoverRead(h) \/ RecoverGivesUp(h) \/ ResumeThread(h)
           \/ LookRun(h) \/ SendInterrupt(h) \/ LookPending(h) \/ WriteResponse(h)
           \/ FinishResponse(h)
  BY <1>6 DEF Reconcile, ReadThread, SendTurn, TurnAnswered, TurnFails, StartThread,
              RecoverRead, RecoverGivesUp, ResumeThread, LookRun, SendInterrupt, LookPending,
              WriteResponse, FinishResponse, vars
<1> QED BY <1>1, <1>2, <1>3, <1>4, <1>5, <1>6 DEF HandlerStep

\* Only SendTurn asks for a turn, and no handler starts one itself.
LEMMA HandlerCalls ==
  ASSUME NEW h \in Handlers, HandlerStep(h)
  PROVE  turns' = turns /\ (calls' = calls \/ SendTurn(h))
<1>1. CASE LocalStep(h)
  BY <1>1, LocalStepFrame DEF Local, Unseen, codexVars
<1>2. CASE \/ ReportStatus(h) \/ ClaimPending(h) \/ FinishResponse(h) \/ SendTurn(h)
           \/ SendInterrupt(h) \/ WriteResponse(h) \/ ResumeThread(h) \/ StartThread(h)
  BY <1>2 DEF ReportStatus, ClaimPending, FinishResponse, SendTurn, SendInterrupt,
              WriteResponse, ResumeThread, StartThread, Unseen, codexVars
<1> QED BY <1>1, <1>2 DEF HandlerStep, LocalStep

\* The way of a RunChatTurn through its labels.
LEMMA RunLabels ==
  ASSUME RuntimeInv, NEW h \in Handlers, HandlerStep(h), IsRun(h)
  PROVE  /\ handlers[h].pc # "done" /\ handlers'[h].pc # "reserve"
         /\ handlers'[h].pc \in Before => handlers[h].pc \in Before
         /\ handlers[h].pc = "reserve" =>
              /\ ReserveKey(h)
              /\ handlers'[h].pc # "done" => ReserveIdempotency(Scope(h))
         /\ ReleaseKey(h) => handlers[h].pc = "release" /\ handlers'[h].pc = "done"
         /\ SendTurn(h) => handlers[h].pc = "sendTurn" /\ handlers'[h].pc \notin Before
<1>1. /\ handlers \in [Handlers -> HandlerRecords] /\ handlers[h] \in HandlerRecords
      /\ handlers[h].pc \in LabelsOf("RunChatTurn") /\ handlers[h].cmd.op = "RunChatTurn"
  BY HandlerFacts DEF IsRun
<1>2. ASSUME NEW pc \in HandlerLabels, Goto(h, pc)
      PROVE  handlers'[h].pc = pc
  <2>1. FreshHandler(handlers[h].cmd).pc \in {"readThread", "done", "reserve"}
        /\ [FreshHandler(handlers[h].cmd) EXCEPT !.pc = pc].pc = pc
    BY <1>1 DEF FreshHandler, FirstLabel
  <2>2. [handlers[h] EXCEPT !.pc = pc].pc = pc
    BY <1>1 DEF HandlerRecords
  <2> QED BY <1>1, <1>2, <2>1, <2>2, GotoEffect
<1>3. CASE ReserveKey(h) \/ ReleaseKey(h) \/ RememberResult(h) \/ ReportStatus(h)
  <2>1. FirstStep(handlers[h].cmd.op) = "resume"
    BY <1>1 DEF FirstStep
  <2> QED BY <1>1, <1>2, <1>3, <2>1
             DEF ReserveKey, ReleaseKey, RememberResult, ReportStatus, SendTurn, Before,
                 LabelsOf, HandlerLabels
<1>4. CASE Reconcile(h) \/ ReconcileAppend(h) \/ ReconcileComplete(h) \/ ResumeThread(h)
  <2>1. handlers[h].pc \in Before \ {"reserve", "release", "sendTurn"}
    BY <1>4 DEF Reconcile, ReconcileAppend, ReconcileComplete, ResumeThread, Before
  <2>2. handlers'[h].pc # "reserve"
    <3>1. AfterReconcile(h) = "startRun"
      BY <1>1 DEF AfterReconcile
    <3>2. CASE Reconcile(h)
      <4>1. \/ Goto(h, "startRun")
            \/ \E run, state : handlers' = [handlers EXCEPT ![h] =
                 [@ EXCEPT !.pc = "reconcileAppend", !.run = run, !.state = state]]
        BY <3>1, <3>2 DEF Reconcile
      <4>2. CASE Goto(h, "startRun")
        BY <1>2, <4>2 DEF HandlerLabels
      <4>3. ASSUME NEW run, NEW state,
                   handlers' = [handlers EXCEPT ![h] =
                     [@ EXCEPT !.pc = "reconcileAppend", !.run = run, !.state = state]]
            PROVE  handlers'[h].pc = "reconcileAppend"
        BY <1>1, <4>3 DEF HandlerRecords
      <4> QED BY <4>1, <4>2, <4>3
    <3>3. CASE ReconcileAppend(h) \/ ReconcileComplete(h)
      BY <1>1, <1>2, <3>1, <3>3 DEF ReconcileAppend, ReconcileComplete, HandlerLabels
    <3>4. CASE ResumeThread(h)
      BY <1>1, <1>2, <3>4, ZenonT(30) DEF ResumeThread, HandlerLabels, HandlerRecords
    <3> QED BY <1>4, <3>2, <3>3, <3>4
  <2> QED BY <2>1, <2>2 DEF Before, ReleaseKey, SendTurn
<1>5. CASE StartProvisionalRun(h)
  BY <1>1, <1>2, <1>5 DEF StartProvisionalRun, HandlerLabels, Before, ReleaseKey, SendTurn
<1>6. CASE SendTurn(h)
  <2>1. handlers[h].pc = "sendTurn" /\ handlers'[h].pc = "awaitTurn"
    BY <1>6, SendAdvances DEF SendTurn
  <2> QED BY <2>1 DEF Before, ReleaseKey
<1>7. CASE TurnAnswered(h) \/ TurnFails(h)
  <2>1. handlers[h].pc = "awaitTurn" /\ handlers'[h].pc \in {"bind", "abandon"}
    <3>1. CASE TurnAnswered(h)
      BY <1>1, <3>1 DEF TurnAnswered, HandlerRecords
    <3>2. CASE TurnFails(h)
      BY <1>1, <3>2 DEF TurnFails, HandlerRecords
    <3> QED BY <1>7, <3>1, <3>2
  <2> QED BY <2>1 DEF Before, ReleaseKey, SendTurn
<1>8. CASE AbandonRun(h) \/ BindRun(h) \/ MarkRunning(h) \/ AnnounceRun(h)
  <2>1. handlers[h].pc \in {"abandon", "bind", "markRunning", "announceRun"}
    BY <1>8 DEF AbandonRun, BindRun, MarkRunning, AnnounceRun
  <2>2. handlers'[h].pc \in {"done", "markRunning", "announceRun", "status"}
    BY <1>1, <1>2, <1>8 DEF AbandonRun, BindRun, MarkRunning, AnnounceRun, HandlerLabels
  <2> QED BY <2>1, <2>2 DEF Before, ReleaseKey, SendTurn
<1>9. \/ ReserveKey(h) \/ ReleaseKey(h) \/ RememberResult(h) \/ ReportStatus(h)
      \/ Reconcile(h) \/ ReconcileAppend(h) \/ ReconcileComplete(h) \/ ResumeThread(h)
      \/ StartProvisionalRun(h) \/ SendTurn(h) \/ TurnAnswered(h) \/ TurnFails(h)
      \/ AbandonRun(h) \/ BindRun(h) \/ MarkRunning(h) \/ AnnounceRun(h)
  BY <1>1 DEF HandlerStep, LabelsOf, ReadThread, ReserveCapacity, StartThread, ReleaseCapacity,
     RecoverRead, RecoverGivesUp, InstallRun, CompleteRecovered, LookRun, SendInterrupt,
     MarkInterrupting, AnnounceInterrupt, LookPending, ClaimPending, WriteResponse,
     FinishResponse, ReleaseClaim, ResolveRequest, RestoreRun, AnnounceResolved
<1> QED BY <1>3, <1>4, <1>5, <1>6, <1>7, <1>8, <1>9

\* A step of a handler sends at most one turn/start for itself, and only from sendTurn.
LEMMA HandlerSends ==
  ASSUME RuntimeInv, TurnInv, NEW h \in Handlers, HandlerStep(h),
         NEW g \in Handlers, IsRun(g)
  PROVE  /\ IsRun(g)' /\ SentOnce(g)'
         /\ TurnSent(g)' => TurnSent(g) \/ (g = h /\ handlers[g].pc = "sendTurn")
<1>1. SentOnce(g) /\ handlers'[g].cmd = handlers[g].cmd /\ turns' = turns
  BY HandlerCalls, HandlerStepMoves DEF TurnInv
<1>2. TurnsOf(g)' = TurnsOf(g) /\ IsRun(g)'
  BY <1>1 DEF TurnsOf, IsRun
<1>3. CASE g # h
  <2>1. handlers'[g] = handlers[g]
    BY <1>3, HandlerStepMoves
  <2>2. CallsOf(g)' = CallsOf(g)
    <3>1. calls' = calls \/ \E n, c : calls' = calls \cup {[handler |-> h, attempt |-> n, chat |-> c]}
      BY HandlerCalls DEF SendTurn
    <3> QED BY <1>3, <3>1 DEF CallsOf
  <2> QED BY <1>1, <1>2, <2>1, <2>2 DEF SentOnce, TurnSent
<1>4. CASE g = h
  <2>1. handlers'[g].pc \in Before => handlers[g].pc \in Before
    BY <1>4, RunLabels
  <2>2. CASE calls' = calls
    <3>1. CallsOf(g)' = CallsOf(g)
      BY <2>2 DEF CallsOf
    <3> QED BY <1>1, <1>2, <2>1, <3>1 DEF SentOnce, TurnSent
  <2>3. CASE SendTurn(h)
    <3>1. handlers[g].pc = "sendTurn" /\ handlers'[g].pc \notin Before
      BY <1>4, <2>3, RunLabels
    <3>2. CallsOf(g) = {} /\ TurnsOf(g) = {}
      BY <1>1, <3>1 DEF SentOnce, TurnSent, Before
    <3>3. \A a, b \in CallsOf(g)' : a = b
      BY <1>4, <2>3, <3>2 DEF CallsOf, SendTurn
    <3> QED BY <1>2, <1>4, <3>1, <3>2, <3>3 DEF SentOnce
  <2> QED BY <2>2, <2>3, HandlerCalls
<1> QED BY <1>3, <1>4

\* A turn that was started stays what it is, whatever happens.
LEMMA TurnsAreKept ==
  ASSUME RuntimeInv, [RuntimeNext]_runtimeVars
  PROVE  TurnsKept
<1>1. CASE \E h \in Handlers : HandlerStep(h)
  BY <1>1, HandlerCalls DEF TurnsKept
<1>2. CASE CodexMoves
  BY <1>2, CodexStartsTurnInv, CodexRejectsTurnInv, CodexStreamsInv, CodexEndsTurnInv,
     CodexInterruptsInv, CodexAsksInv, CodexRestartsInv
     DEF CodexMoves, CodexStep
<1>3. CASE ServiceMoves \/ UNCHANGED runtimeVars
  BY <1>3, ServiceFrame DEF TurnsKept, runtimeVars, codexVars
<1> QED BY <1>1, <1>2, <1>3, NextMoves

\* What the app server does with the turn/starts and the turns of a handler.
LEMMA CodexTurns ==
  ASSUME RuntimeInv, CodexMoves, ~CodexStartsTurn
  PROVE  /\ calls' \subseteq calls
         /\ \A t \in Turns : /\ turns'[t] = Null <=> turns[t] = Null
                             /\ turns[t] # Null => turns'[t].handler = turns[t].handler
<1>1. /\ turns \in [Turns -> TurnRecords \cup {Null}]
      /\ \A t \in LiveTurns : t \in Turns /\ turns[t] # Null
  BY CodexFacts DEF LiveTurns
<1>2. TurnsKept
  BY TurnsAreKept, NextMoves
<1>3. calls' \subseteq calls
  BY DEF CodexMoves, CodexStep, CodexRejectsTurn, CodexStreams, CodexEndsTurn,
         CodexInterrupts, CodexAsks, CodexRestarts
<1>4. ASSUME NEW t \in Turns, turns[t] = Null
      PROVE  turns'[t] = Null
  <2>1. t \notin LiveTurns
    BY <1>1, <1>4
  <2>2. CASE CodexRejectsTurn \/ CodexAsks
    BY <1>4, <2>2 DEF CodexRejectsTurn, CodexAsks
  <2>3. CASE CodexStreams \/ CodexEndsTurn \/ CodexInterrupts
    <3>1. \/ turns' = turns
          \/ \E u \in LiveTurns : \/ turns' = [turns EXCEPT ![u].deltas = @ + 1]
                                  \/ \E s : turns' = [turns EXCEPT ![u].state = s]
      BY <2>3 DEF CodexStreams, CodexEndsTurn, CodexInterrupts, EndTurn
    <3> QED BY <1>1, <1>4, <2>1, <3>1
  <2>4. CASE CodexRestarts
    BY <1>4, <2>1, <2>4 DEF CodexRestarts
  <2> QED BY <2>2, <2>3, <2>4 DEF CodexMoves, CodexStep
<1> QED BY <1>1, <1>2, <1>3, <1>4, NullIsNothing DEF TurnsKept

\* The app server starts a turn for a turn/start that was sent, and no other.
LEMMA CodexSends ==
  ASSUME RuntimeInv, TurnInv, CodexMoves, NEW g \in Handlers, IsRun(g)
  PROVE  IsRun(g)' /\ SentOnce(g)' /\ (TurnSent(g)' => TurnSent(g))
<1>1. /\ SentOnce(g) /\ handlers'[g].cmd = handlers[g].cmd /\ handlers'[g].pc = handlers[g].pc
      /\ IsRun(g)'
  BY CodexFrame DEF TurnInv, SameButAnswer, IsRun
<1>2. CASE ~CodexStartsTurn
  <2>1. CallsOf(g)' \subseteq CallsOf(g) /\ TurnsOf(g)' = TurnsOf(g)
    BY <1>2, CodexTurns DEF CallsOf, TurnsOf
  <2> QED BY <1>1, <2>1 DEF SentOnce, TurnSent
<1>3. CASE CodexStartsTurn
  <2>1. PICK call \in calls, t \in Turns, x \in TurnRecords :
          /\ turns[t] = Null /\ x.handler = call.handler
          /\ turns' = [turns EXCEPT ![t] = x] /\ calls' = calls \ {call}
    BY <1>3, CodexStartsTurnFacts
  <2>2. turns'[t] = x /\ x # Null /\ \A u \in Turns : u # t => turns'[u] = turns[u]
    BY <2>1, CodexFacts, NullIsNothing
  <2>3. CASE call.handler = g
    <3>1. call \in CallsOf(g) /\ TurnsOf(g) = {} /\ CallsOf(g)' = {}
      BY <1>1, <2>1, <2>3 DEF CallsOf, SentOnce
    <3>2. TurnsOf(g)' = {t}
      BY <2>1, <2>2, <2>3, <3>1 DEF TurnsOf
    <3>3. TurnSent(g) /\ handlers[g].pc \notin Before
      BY <1>1, <3>1 DEF TurnSent, SentOnce
    <3> QED BY <1>1, <3>1, <3>2, <3>3 DEF SentOnce
  <2>4. CASE call.handler # g
    <3>1. CallsOf(g)' = CallsOf(g)
      BY <2>1, <2>4 DEF CallsOf
    <3>2. TurnsOf(g)' = TurnsOf(g)
      BY <2>1, <2>2, <2>4 DEF TurnsOf
    <3> QED BY <1>1, <3>1, <3>2 DEF SentOnce, TurnSent
  <2> QED BY <2>3, <2>4
<1> QED BY <1>2, <1>3

\* What is remembered of a key cannot have expired yet.
LEMMA NothingExpires ==
  ASSUME RuntimeInv, now <= ReplayTTL
  PROVE  CleanedIdempotency = idempotency
<1>1. idempotency \in [StoreKeys -> IdempotencyEntries \cup {Null}] /\ now \in Nat
  BY DEF RuntimeInv, RuntimeTypeOK, TypeOK
<1>2. \A e \in IdempotencyEntries : ~(now > e.updatedAt + ReplayTTL)
  BY <1>1, LimitsPositive DEF IdempotencyEntries
<1> QED BY <1>1, <1>2 DEF CleanedIdempotency, CleanedIdempotencyEntry

\* The key of a RunChatTurn is given back by the handler that has it.
LEMMA HandlerKeys ==
  ASSUME RuntimeInv, TurnInv, KeysHeld, now <= ReplayTTL, NEW h \in Handlers, HandlerStep(h)
  PROVE  KeysHeld'
<1>1. /\ CleanedIdempotency = idempotency
      /\ idempotency \in [StoreKeys -> IdempotencyEntries \cup {Null}]
  BY NothingExpires DEF RuntimeInv, RuntimeTypeOK, TypeOK
<1>2. \A g \in Handlers : /\ Scope(g)' = Scope(g) /\ IsRun(g)' = IsRun(g)
                          /\ g # h => handlers'[g] = handlers[g]
  BY CommandsKept, HandlerStepMoves, NextMoves DEF IsRun
<1>3. \A g \in Handlers : IsRun(g) =>
        /\ Scope(g) \in IdempotencyScopes /\ StoreKey(Scope(g)) \in StoreKeys
        /\ TurnSent(g)' => TurnSent(g) \/ (g = h /\ handlers[g].pc = "sendTurn")
  <2> SUFFICES ASSUME NEW g \in Handlers, IsRun(g)
               PROVE  /\ Scope(g) \in IdempotencyScopes /\ StoreKey(Scope(g)) \in StoreKeys
                      /\ TurnSent(g)' => TurnSent(g) \/ (g = h /\ handlers[g].pc = "sendTurn")
    OBVIOUS
  <2>1. Scope(g) \in IdempotencyScopes
    BY HandlerFacts DEF IsRun
  <2>2. StoreKey(Scope(g)) \in StoreKeys
    BY <2>1 DEF IdempotencyScopes, StoreKey, StoreKeys
  <2> QED BY <2>1, <2>2, HandlerSends
<1> DEFINE new == IsRun(h) /\ handlers[h].pc = "reserve" /\ ReserveIdempotency(Scope(h))
<1>4. ASSUME NEW g \in Handlers, Committed(g)'
      PROVE  Committed(g) \/ (g = h /\ new)
  <2>1. CASE g # h
    BY <1>2, <1>3, <1>4, <2>1 DEF Committed
  <2>2. CASE g = h
    BY <1>2, <1>3, <1>4, <2>2, RunLabels DEF Committed
  <2> QED BY <2>1, <2>2
<1>5. CASE new
  <2>1. EntryOf(Scope(h)) = Null /\ StoreKey(Scope(h)) \in StoreKeys
    BY <1>3, <1>5 DEF ReserveIdempotency
  <2>2. \A g \in Handlers : Committed(g) => StoreKey(Scope(g)) # StoreKey(Scope(h))
    BY <1>1, <2>1 DEF KeysHeld, KeyKnown, EntryOf
  <2>3. idempotency' = [idempotency EXCEPT ![StoreKey(Scope(h))] =
                          [scope |-> Scope(h), state |-> "in_flight", updatedAt |-> now]]
    BY <1>1, <1>5 DEF ReserveIdempotency, UpdateIdempotency
  <2>4. KeyKnown(h)'
    <3> DEFINE e == [scope |-> Scope(h), state |-> "in_flight", updatedAt |-> now]
    <3>1. e \in IdempotencyEntries
      BY <1>3, <1>5 DEF IdempotencyEntries, RuntimeInv, RuntimeTypeOK, TypeOK
    <3>2. idempotency'[StoreKey(Scope(h))] = e /\ e.scope = Scope(h)
      BY <1>1, <2>1, <2>3
    <3>3. e # Null
      BY <3>1, NullIsNoRecord
    <3> HIDE DEF e
    <3> QED BY <1>2, <3>2, <3>3 DEF KeyKnown
  <2>5. \A g \in Handlers : Committed(g) => KeyKnown(g)'
    BY <1>1, <1>2, <1>3, <2>2, <2>3 DEF KeysHeld, KeyKnown, Committed
  <2>6. \A g \in Handlers : Committed(g) => Scope(g) # Scope(h)
    BY <2>2
  <2> QED BY <1>2, <1>4, <2>4, <2>5, <2>6 DEF KeysHeld
<1>6. CASE ~new
  <2>1. \A g \in Handlers : Committed(g)' => Committed(g)
    BY <1>4, <1>6
  <2>2. \A f, g \in Handlers :
          Committed(f)' /\ Committed(g)' /\ Scope(f)' = Scope(g)' => f = g
    BY <1>2, <2>1 DEF KeysHeld
  <2> SUFFICES ASSUME NEW g \in Handlers, Committed(g)'
               PROVE  KeyKnown(g)'
    BY <2>2 DEF KeysHeld
  <2>3. /\ Committed(g) /\ KeyKnown(g) /\ IsRun(g) /\ Scope(g)' = Scope(g)
        /\ StoreKey(Scope(g)) \in StoreKeys
    BY <1>2, <1>3, <2>1 DEF KeysHeld, Committed
  <2>4. CASE idempotency' = idempotency
    BY <2>3, <2>4 DEF KeyKnown
  <2>5. CASE ReserveKey(h) /\ ReserveIdempotency(Scope(h))
    <3>1. EntryOf(Scope(h)) = Null
      BY <2>5 DEF ReserveIdempotency
    <3>2. StoreKey(Scope(g)) # StoreKey(Scope(h))
      BY <1>1, <2>3, <3>1 DEF KeyKnown, EntryOf
    <3>3. idempotency'[StoreKey(Scope(g))] = idempotency[StoreKey(Scope(g))]
      BY <1>1, <2>3, <2>5, <3>2 DEF ReserveIdempotency, UpdateIdempotency
    <3> QED BY <2>3, <3>3 DEF KeyKnown
  <2>6. CASE RememberResult(h)
    <3> DEFINE e == [scope |-> Scope(h), state |-> "succeeded", updatedAt |-> now]
    <3>1. /\ idempotency[StoreKey(Scope(h))].scope = Scope(h)
          /\ idempotency' = [idempotency EXCEPT ![StoreKey(Scope(h))] = e]
      BY <1>1, <2>6 DEF RememberResult, CompleteIdempotency, UpdateIdempotency,
                        HasIdempotency, EntryOf
    <3>2. CASE StoreKey(Scope(g)) # StoreKey(Scope(h))
      BY <1>1, <2>3, <3>1, <3>2 DEF KeyKnown
    <3>3. CASE StoreKey(Scope(g)) = StoreKey(Scope(h))
      <4>1. Scope(g) = Scope(h)
        BY <2>3, <3>1, <3>3 DEF KeyKnown
      <4>2. e \in IdempotencyEntries
        BY <1>3, <2>3, <4>1 DEF IdempotencyEntries, RuntimeInv, RuntimeTypeOK, TypeOK
      <4>3. idempotency'[StoreKey(Scope(g))] = e /\ e.scope = Scope(g)
        BY <1>1, <2>3, <3>1, <3>3, <4>1
      <4>4. e # Null
        BY <4>2, NullIsNoRecord
      <4> HIDE DEF e
      <4> QED BY <2>3, <4>3, <4>4 DEF KeyKnown
    <3> QED BY <3>2, <3>3
  <2>7. CASE ReleaseKey(h)
    <3>1. /\ idempotency[StoreKey(Scope(h))].scope = Scope(h)
          /\ idempotency' = [idempotency EXCEPT ![StoreKey(Scope(h))] = Null]
      BY <1>1, <2>7 DEF ReleaseKey, ReleaseIdempotency, UpdateIdempotency,
                        HasIdempotency, EntryOf
    <3>2. CASE StoreKey(Scope(g)) # StoreKey(Scope(h))
      BY <1>1, <2>3, <3>1, <3>2 DEF KeyKnown
    <3>3. CASE StoreKey(Scope(g)) = StoreKey(Scope(h))
      <4>1. Scope(g) = Scope(h)
        BY <2>3, <3>1, <3>3 DEF KeyKnown
      <4>2. handlers[g].cmd.op = handlers[h].cmd.op
        BY <4>1 DEF Scope, ScopedOperation
      <4>3. IsRun(h)
        BY <2>3, <4>2 DEF IsRun
      <4>4. handlers[h].pc = "release" /\ handlers'[h].pc = "done"
        BY <2>7, <4>3, RunLabels
      <4>5. Committed(h)
        BY <4>3, <4>4 DEF Committed
      <4>6. g = h
        BY <2>3, <4>1, <4>5 DEF KeysHeld
      <4>7. ~TurnSent(h) /\ ~TurnSent(h)'
        BY <1>3, <4>3, <4>4 DEF TurnInv, SentOnce, Before
      <4>8. ~Committed(g)'
        BY <4>4, <4>6, <4>7 DEF Committed
      <4> QED BY <4>8
    <3> QED BY <3>2, <3>3
  <2> QED BY <1>1, <2>4, <2>5, <2>6, <2>7, HandlerEntries
<1> QED BY <1>5, <1>6

LEMMA TurnStep ==
  ASSUME RuntimeInv, TurnInv, [RuntimeNext]_runtimeVars
  PROVE  TurnInv'
<1>1. CASE \E h \in Handlers : HandlerStep(h)
  <2>1. PICK h \in Handlers : HandlerStep(h)
    BY <1>1
  <2>2. \A g \in Handlers : IsRun(g)' => SentOnce(g)'
    BY <2>1, HandlerSends, HandlerStepMoves DEF IsRun
  <2>3. now' <= ReplayTTL => KeysHeld'
    BY <2>1, HandlerEntries, HandlerKeys DEF TurnInv
  <2> QED BY <2>2, <2>3 DEF TurnInv
<1>2. ASSUME CodexMoves \/ ServiceMoves \/ UNCHANGED runtimeVars, NEW g \in Handlers
      PROVE  /\ IsRun(g)' <=> IsRun(g)
             /\ IsRun(g) => SentOnce(g)' /\ (Committed(g)' => Committed(g))
             /\ Scope(g)' = Scope(g)
  <2>1. Scope(g)' = Scope(g) /\ (IsRun(g)' <=> IsRun(g))
    BY <1>2, CommandsKept, NextMoves DEF IsRun
  <2>2. CASE CodexMoves
    BY <2>1, <2>2, CodexSends, CodexFrame DEF Committed, SameButAnswer
  <2>3. CASE ServiceMoves \/ UNCHANGED runtimeVars
    <3>1. UNCHANGED <<handlers, turns, calls>>
      BY <2>3, ServiceFrame DEF ServiceMoves, ConsumerStep, ConsumeNotification,
         AppendNotification, CompleteNotifiedRun, HookStep, HookLooks, HookRegisters,
         HookAnnounces, HookTracks, TimePasses, Unseen, codexVars, gatewayVars, runtimeVars
    <3>2. CallsOf(g)' = CallsOf(g) /\ TurnsOf(g)' = TurnsOf(g)
      BY <3>1 DEF CallsOf, TurnsOf
    <3> QED BY <2>1, <3>1, <3>2 DEF TurnInv, SentOnce, TurnSent, Committed
  <2> QED BY <1>2, <2>1, <2>2, <2>3
<1>3. CASE CodexMoves \/ ServiceMoves \/ UNCHANGED runtimeVars
  <2>1. now <= now' /\ idempotency' \in {idempotency, CleanedIdempotency}
    <3>1. now \in Nat
      BY DEF RuntimeInv, RuntimeTypeOK, TypeOK
    <3>2. CASE CodexMoves \/ UNCHANGED runtimeVars
      BY <3>1, <3>2, CodexFrame DEF vars, runtimeVars
    <3>3. CASE ConsumerStep
      <4>1. \/ UNCHANGED vars
            \/ \E s, kind : AppendEvent(s, kind, 1)
            \/ \E s, x : CompleteRun(s, x)
        BY <3>3 DEF ConsumerStep, ConsumeNotification, AppendNotification, CompleteNotifiedRun
      <4> QED BY <3>1, <4>1, EntriesLeftAlone
    <3>4. CASE HookStep
      <4>1. \/ Refused \/ UNCHANGED vars
            \/ \E s, kind : AppendEvent(s, kind, 1)
            \/ \E s, x : RegisterPendingForActiveRun(s, x)
        BY <3>4 DEF HookStep, HookLooks, HookRegisters, HookAnnounces, HookTracks,
                    DropStaleRecords
      <4> QED BY <3>1, <4>1, EntriesLeftAlone
    <3>5. CASE TimePasses
      BY <3>1, <3>5 DEF TimePasses, Tick, cleanedVars
    <3> QED BY <1>3, <3>2, <3>3, <3>4, <3>5 DEF ServiceMoves
  <2>2. ASSUME now' <= ReplayTTL PROVE KeysHeld'
    <3>1. now <= ReplayTTL
      BY <2>1, <2>2, RuntimeStep, LimitsPositive DEF RuntimeInv, RuntimeTypeOK, TypeOK
    <3>2. idempotency' = idempotency /\ KeysHeld
      BY <2>1, <3>1, NothingExpires DEF TurnInv
    <3>3. \A g \in Handlers : Committed(g)' => Committed(g) /\ Scope(g)' = Scope(g)
      BY <1>2, <1>3 DEF Committed
    <3> QED BY <3>2, <3>3 DEF KeysHeld, KeyKnown
  <2> QED BY <1>2, <1>3, <2>2 DEF TurnInv
<1> QED BY <1>1, <1>3, NextMoves

LEMMA OneTurn ==
  ASSUME RuntimeInv, TurnInv, now <= ReplayTTL
  PROVE  OneTurnPerRequest
<1> SUFFICES ASSUME NEW t \in Turns, NEW u \in Turns, turns[t] # Null, turns[u] # Null,
                    handlers[turns[t].handler].cmd.op = "RunChatTurn",
                    Scope(turns[t].handler) = Scope(turns[u].handler)
             PROVE  t = u
  BY DEF OneTurnPerRequest
<1> DEFINE g == turns[t].handler
           h == turns[u].handler
<1>1. g \in Handlers /\ h \in Handlers
  BY CodexFacts DEF TurnRecords
<1>2. handlers[h].cmd.op = handlers[g].cmd.op
  BY DEF Scope, ScopedOperation
<1>3. t \in TurnsOf(g) /\ u \in TurnsOf(h)
  BY DEF TurnsOf
<1>4. Committed(g) /\ Committed(h)
  BY <1>2, <1>3 DEF Committed, TurnSent, IsRun
<1>5. g = h
  BY <1>1, <1>4 DEF TurnInv, KeysHeld
<1> QED BY <1>1, <1>3, <1>5 DEF TurnInv, SentOnce, IsRun

\* However often a client repeats a RunChatTurn with its key, and whatever became
\* of the attempts, the app server is made to start at most one turn for it.  A
\* result is remembered for ReplayTTL after it is stored; the theorem is about the
\* time before the first one can have expired, after that the key is free again.
THEOREM OneTurnForOneRequest == RuntimeSpec => [](now <= ReplayTTL => OneTurnPerRequest)
<1>1. RuntimeInit => TurnInv
  <2> SUFFICES ASSUME RuntimeInit PROVE TurnInv
    OBVIOUS
  <2>1. \A g \in Handlers : CallsOf(g) = {} /\ TurnsOf(g) = {}
    BY DEF RuntimeInit, CallsOf, TurnsOf
  <2>2. \A g \in Handlers : IsRun(g) => handlers[g].pc = "reserve"
    <3>1. PICK f \in Assignments : handlers = [h \in Handlers |-> FreshHandler(f[h])]
      BY DEF RuntimeInit
    <3>2. \A g \in Handlers : /\ handlers[g].cmd = f[g]
                              /\ handlers[g].pc = FirstLabel(handlers[g].cmd.op)
      BY <3>1 DEF FreshHandler
    <3>3. FirstLabel("RunChatTurn") = "reserve"
      BY DEF FirstLabel
    <3> QED BY <3>2, <3>3 DEF IsRun
  <2> QED BY <2>1, <2>2 DEF TurnInv, SentOnce, KeysHeld, Committed, TurnSent
<1>2. RuntimeInv /\ TurnInv /\ [RuntimeNext]_runtimeVars => TurnInv'
  BY TurnStep
<1>3. RuntimeInv /\ TurnInv => (now <= ReplayTTL => OneTurnPerRequest)
  BY OneTurn
<1> QED BY <1>1, <1>2, <1>3, RuntimeInvHolds, PTL DEF RuntimeSpec

-----------------------------------------------------------------------------
(* The requests of the app server and the responses to them                *)

\* A request that has reached the hook, and where the hook is with it.
Asked(r)        == requests[r].state \notin {"unsent", "sent"}
HookAt(r, pcs)  == hook.pc \in pcs /\ hook.request = r

\* Where the clients of the run were told of a request, and that it is resolved.
Created(k)  == Positions(k[1], <<"pending_created", k[2]>>)
Resolved(k) == Positions(k[1], <<"pending_resolved", k[2]>>)

Seen(k)    == k[1] = RequestScope(k[2]) /\ Asked(k[2])
Offered(k) == /\ Seen(k) /\ Created(k) # {}
              /\ ~HookAt(k[2], {"register", "announce", "track"})

\* A handler that has claimed a request, that is still writing its response,
\* that is past the write, and whose response reached the app server.
Responds(g)  == handlers[g].pc \in Delivering
Writes(g)    == handlers[g].pc \in {"write", "finish"}
PastWrite(g) == handlers[g].pc \in Delivering \ {"write"}
Answers(g)   == \/ handlers[g].pc \in {"resolve", "restore", "announceResolved"}
                \/ handlers[g].pc = "finish" /\ handlers[g].written
RequestOf(g) == handlers[g].cmd.request

\* What the store, the log, Service.pendingRecords and the handlers know of a
\* request is about one the hook has seen, and follows the hook step by step.
SeenInv ==
  /\ \A k \in PendingKeys : pending[k] # Null => Seen(k) /\ ~HookAt(k[2], {"register"})
  /\ \A k \in PendingKeys :
       Created(k) # {} => Seen(k) /\ ~HookAt(k[2], {"register", "announce"})
  /\ \A k \in PendingKeys : pendingRecords[k] # Null => Offered(k)
  /\ \A g \in Handlers, k \in PendingKeys : Responds(g) /\ PendingKey(g) = k => Offered(k)
  /\ hook.pc # "idle" => Asked(hook.request)
  /\ \A k \in PendingKeys : hook.pc = "track" /\ HookKey = k => Created(k) # {}

\* A request is answered once, and its resolution is announced by who answered it.
AnsweredInv ==
  /\ \A g \in Handlers : Answers(g) => requests[RequestOf(g)].state = "answered"
  /\ \A g \in Handlers : PastWrite(g) => requests[RequestOf(g)].state # "hooked"
  /\ \A f, g \in Handlers : Answers(f) /\ Answers(g) /\ RequestOf(f) = RequestOf(g) => f = g
  /\ \A k \in PendingKeys : Resolved(k) # {} =>
       /\ requests[k[2]].state = "answered"
       /\ \A g \in Handlers : Answers(g) => RequestOf(g) # k[2]
       /\ \A i, j \in Resolved(k) : i = j
       /\ \A j \in Resolved(k) : \E i \in Created(k) : i < j

\* A claim of the store belongs to a response under way: the record names the
\* handler that writes it, until that handler releases or resolves the claim.
Owns(g, k) == /\ PendingKey(g) = k
              /\ \/ handlers[g].pc \in {"unclaim", "resolve"}
                 \/ Writes(g) /\ pendingRecords[k] # Null
Claimed(k) == pending[k] # Null /\ pending[k].status = "claimed" /\ HasPending(k)
ClaimInv ==
  /\ \A g \in Handlers, k \in PendingKeys :
       Writes(g) /\ PendingKey(g) = k /\ pendingRecords[k] # Null => pendingRecords[k].inFlight = g
  /\ \A k \in PendingKeys : Claimed(k) => \E g \in Handlers : Owns(g, k)
  /\ AnnouncedRequestIsAnswerable

RequestInv == SeenInv /\ AnsweredInv /\ ClaimInv

-----------------------------------------------------------------------------
\* The way of a request, and what a step does to it.
RequestGoes(r) ==
  \/ requests'[r] = requests[r]
  \/ requests[r].state = "unsent" /\ requests'[r].state = "sent"
  \/ /\ requests'[r].turn = requests[r].turn
     /\ \/ requests[r].state = "sent" /\ requests'[r].state \in {"hooked", "refused", "broken"}
        \/ requests[r].state = "hooked" /\ requests'[r].state \in {"answered", "refused", "broken"}

\* The request a step is about moves on, the others stay.
LEMMA OneRequestGoes ==
  ASSUME RuntimeInv, NEW r \in PendingIds, NEW state,
         requests' = [requests EXCEPT ![r].state = state],
         \/ requests[r].state = "sent" /\ state \in {"hooked", "refused", "broken"}
         \/ requests[r].state = "hooked" /\ state \in {"answered", "refused", "broken"}
  PROVE  \A q \in PendingIds : RequestGoes(q)
<1>1. requests \in [PendingIds -> Requests]
  BY CodexFacts
<1>2. /\ requests'[r].state = state /\ requests'[r].turn = requests[r].turn
      /\ \A q \in PendingIds : q # r => requests'[q] = requests[q]
  BY <1>1 DEF Requests
<1> QED BY <1>2 DEF RequestGoes

\* Every step takes a request along its way, or leaves it.
LEMMA RequestsGo ==
  ASSUME RuntimeInv, [RuntimeNext]_runtimeVars
  PROVE  \A r \in PendingIds : RequestGoes(r)
<1>1. requests \in [PendingIds -> Requests]
  BY CodexFacts
<1>2. requests' = requests => \A r \in PendingIds : RequestGoes(r)
  BY DEF RequestGoes
<1>3. ASSUME NEW h \in Handlers, HandlerStep(h)
      PROVE  \A r \in PendingIds : RequestGoes(r)
  <2>1. CASE LocalStep(h)
    BY <1>2, <2>1, LocalStepFrame DEF Local, Unseen, codexVars
  <2>2. CASE \/ ReportStatus(h) \/ ClaimPending(h) \/ FinishResponse(h) \/ SendTurn(h)
             \/ SendInterrupt(h) \/ ResumeThread(h) \/ StartThread(h)
    BY <1>2, <2>2 DEF ReportStatus, ClaimPending, FinishResponse, SendTurn, SendInterrupt,
                ResumeThread, StartThread, Unseen, codexVars
  <2>3. CASE WriteResponse(h)
    <3>1. handlers[h].cmd.request \in PendingIds
      BY <2>3, HandlerFacts DEF WriteResponse, LabelsOf, Ops, Agrees, Validated
    <3> QED BY <1>2, <2>3, <3>1, WriteAdvances, OneRequestGoes
  <2> QED BY <1>3, <2>1, <2>2, <2>3 DEF HandlerStep, LocalStep
<1>4. CASE CodexMoves
  <2>1. CASE CodexStep
    BY <1>2, <2>1 DEF CodexStep, CodexStartsTurn, CodexRejectsTurn, CodexStreams, CodexEndsTurn,
                      CodexInterrupts
  <2>2. CASE CodexAsks
    BY <1>1, <2>2 DEF CodexAsks, RequestGoes
  <2>3. CASE CodexRestarts
    <3> SUFFICES ASSUME NEW r \in PendingIds PROVE RequestGoes(r)
      OBVIOUS
    <3>1. requests'[r] = IF requests[r].state \in {"sent", "hooked"}
                         THEN [requests[r] EXCEPT !.state = "broken"] ELSE requests[r]
      BY <2>3 DEF CodexRestarts
    <3>2. requests[r] \in Requests
      BY <1>1
    <3> QED BY <3>1, <3>2 DEF RequestGoes, Requests
  <2> QED BY <1>4, <2>1, <2>2, <2>3 DEF CodexMoves
<1>5. CASE HookStep
  <2>1. CASE HookLooks
    BY <2>1, OneRequestGoes DEF HookLooks
  <2>2. CASE HookRegisters
    <3>1. hook.request \in PendingIds
      BY <2>2, ServiceFacts DEF HookRegisters
    <3>2. \/ requests' = requests
          \/ requests' = [requests EXCEPT ![hook.request].state =
                            IF @ = "hooked" THEN "refused" ELSE @]
      BY <2>2 DEF HookRegisters
    <3>3. CASE requests[hook.request].state = "hooked" /\ requests' # requests
      BY <3>1, <3>2, <3>3, OneRequestGoes
    <3>4. CASE requests[hook.request].state # "hooked"
      BY <1>1, <3>1, <3>2, <3>4 DEF Requests, RequestGoes
    <3> QED BY <1>2, <3>3, <3>4
  <2>3. CASE HookAnnounces \/ HookTracks
    BY <1>2, <2>3 DEF HookAnnounces, HookTracks, Unseen, codexVars
  <2> QED BY <1>5, <2>1, <2>2, <2>3 DEF HookStep
<1>6. CASE ConsumerStep \/ TimePasses \/ UNCHANGED runtimeVars
  BY <1>2, <1>6 DEF ConsumerStep, ConsumeNotification, AppendNotification,
                    CompleteNotifiedRun, TimePasses, Unseen, runtimeVars, codexVars
<1> QED BY <1>3, <1>4, <1>5, <1>6, NextMoves DEF ServiceMoves

\* A request that was seen stays seen, by the same run; an answer stays an answer.
LEMMA RequestsKept ==
  ASSUME RuntimeInv, [RuntimeNext]_runtimeVars, NEW r \in PendingIds
  PROVE  /\ Asked(r) => Asked(r)' /\ RequestScope(r)' = RequestScope(r)
         /\ requests[r].state = "answered" => requests'[r].state = "answered"
<1>1. RequestGoes(r) /\ TurnsKept
  BY RequestsGo, TurnsAreKept
<1>2. Asked(r) => requests[r].turn \in Turns /\ turns[requests[r].turn] \in TurnRecords
  BY ServiceFacts DEF Asked
<1> QED BY <1>1, <1>2 DEF RequestGoes, Asked, RequestScope, TurnsKept

\* What was seen of a request stays true.
LEMMA SeenStays ==
  ASSUME RuntimeInv, [RuntimeNext]_runtimeVars, NEW k \in PendingKeys, Seen(k)
  PROVE  Seen(k)'
<1>1. k[2] \in PendingIds
  BY DEF PendingKeys
<1> QED BY <1>1, RequestsKept DEF Seen

\* A handler that delivers a response has a request to answer.
LEMMA RespondsFacts ==
  ASSUME RuntimeInv, NEW g \in Handlers, Responds(g)
  PROVE  /\ handlers[g].cmd.op = "RespondChatPending"
         /\ PendingKey(g) \in PendingKeys /\ PendingKey(g)[2] = RequestOf(g)
         /\ RequestOf(g) \in PendingIds
<1>1. handlers[g].cmd.op = "RespondChatPending" /\ handlers[g].pc \in OnRun
  BY HandlerFacts DEF Responds, Delivering, LabelsOf, Ops, OnRun
<1>2. RequestOf(g) \in PendingIds
  BY <1>1, HandlerFacts DEF Agrees, Validated, RequestOf
<1> QED BY <1>1, <1>2, HandlerFacts DEF PendingKey, RequestOf

\* The labels of a response and what they say about it.
LEMMA Labels ==
  ASSUME NEW g \in Handlers
  PROVE  /\ Writes(g) \/ PastWrite(g) \/ Answers(g) => Responds(g)
         /\ Answers(g) => PastWrite(g)
         /\ \A k : Owns(g, k) => Responds(g) /\ k = PendingKey(g)
BY DEF Writes, PastWrite, Answers, Responds, Owns, Delivering

\* While the hook rests, what is known of requests can only be forgotten.
LEMMA SeenKept ==
  ASSUME RuntimeInv, SeenInv, [RuntimeNext]_runtimeVars, hook' = hook,
         \A k \in PendingKeys : /\ Created(k)' = Created(k)
                                /\ pending'[k] # Null => pending[k] # Null
                                /\ pendingRecords'[k] # Null => pendingRecords[k] # Null,
         \A g \in Handlers : Responds(g)' =>
           /\ PendingKey(g)' = PendingKey(g)
           /\ \/ Responds(g)
              \/ PendingKey(g) \in PendingKeys /\ pendingRecords[PendingKey(g)] # Null
  PROVE  SeenInv'
<1>1. \A k \in PendingKeys : Seen(k) => Seen(k)'
  BY SeenStays
<1>2. \A r, pcs : HookAt(r, pcs)' <=> HookAt(r, pcs)
  BY DEF HookAt
<1>3. \A k \in PendingKeys : Offered(k) => Offered(k)'
  BY <1>1, <1>2 DEF Offered
<1>4. \A k \in PendingKeys : pending'[k] # Null => Seen(k)' /\ ~HookAt(k[2], {"register"})'
  BY <1>1, <1>2 DEF SeenInv
<1>5. \A k \in PendingKeys :
        Created(k)' # {} => Seen(k)' /\ ~HookAt(k[2], {"register", "announce"})'
  BY <1>1, <1>2 DEF SeenInv
<1>6. \A k \in PendingKeys : pendingRecords'[k] # Null => Offered(k)'
  BY <1>3 DEF SeenInv
<1>7. ASSUME NEW g \in Handlers, NEW k \in PendingKeys, Responds(g)', PendingKey(g)' = k
      PROVE  Offered(k)'
  BY <1>3, <1>7 DEF SeenInv
<1>8. hook'.pc # "idle" => Asked(hook.request)'
  BY ServiceFacts, RequestsKept DEF SeenInv
<1>9. ASSUME NEW k \in PendingKeys, hook'.pc = "track", HookKey' = k
      PROVE  Created(k)' # {}
  <2>1. HookKey' = HookKey
    BY <1>9, ServiceFacts, RequestsKept DEF HookKey, SeenInv
  <2> QED BY <1>9, <2>1 DEF SeenInv
<1> QED BY <1>4, <1>5, <1>6, <1>7, <1>8, <1>9 DEF SeenInv

\* A step in which no response is written and no resolution announced.
LEMMA AnsweredKept ==
  ASSUME RuntimeInv, AnsweredInv, [RuntimeNext]_runtimeVars,
         \A g \in Handlers : /\ Answers(g)' => Answers(g)
                             /\ PastWrite(g)' =>
                                  /\ PastWrite(g)
                                  /\ requests'[RequestOf(g)].state = "hooked"
                                       => requests[RequestOf(g)].state = "hooked",
         \A k \in PendingKeys : Resolved(k)' = Resolved(k) /\ Created(k) \subseteq Created(k)'
  PROVE  AnsweredInv'
<1>1. \A g \in Handlers : RequestOf(g)' = RequestOf(g)
  BY CommandsKept DEF RequestOf
<1>2. \A g \in Handlers : Answers(g) => RequestOf(g) \in PendingIds
  BY Labels, RespondsFacts
<1>3. \A g \in Handlers : Answers(g)' => requests'[RequestOf(g)].state = "answered"
  BY <1>2, RequestsKept DEF AnsweredInv
<1>4. \A k \in PendingKeys : k[2] \in PendingIds
  BY DEF PendingKeys
<1>5. ASSUME NEW k \in PendingKeys, Resolved(k)' # {}
      PROVE  /\ requests'[k[2]].state = "answered"
             /\ \A g \in Handlers : Answers(g)' => RequestOf(g)' # k[2]
             /\ \A i, j \in Resolved(k)' : i = j
             /\ \A j \in Resolved(k)' : \E i \in Created(k)' : i < j
  <2>1. Resolved(k)' = Resolved(k) /\ Created(k) \subseteq Created(k)'
    OBVIOUS
  <2>2. requests[k[2]].state = "answered"
    BY <1>5, <2>1 DEF AnsweredInv
  <2> QED BY <1>1, <1>4, <1>5, <2>1, <2>2, RequestsKept DEF AnsweredInv
<1>6. \A g \in Handlers : PastWrite(g)' => requests'[RequestOf(g)'].state # "hooked"
  BY <1>1 DEF AnsweredInv
<1>7. \A f, g \in Handlers :
        Answers(f)' /\ Answers(g)' /\ RequestOf(f)' = RequestOf(g)' => f = g
  BY <1>1 DEF AnsweredInv
<1> QED BY <1>1, <1>3, <1>5, <1>6, <1>7 DEF AnsweredInv

\* Cleanup and the clock only ever end the wait for an answer.
LEMMA PendingFades ==
  ASSUME TypeOK, NEW k \in PendingKeys, now' \in Nat, now <= now',
         pending'[k] = pending[k] \/ pending'[k] = CleanedPending[k]
  PROVE  /\ HasPending(k)' => HasPending(k) /\ pending'[k] = pending[k]
         /\ pending'[k] # Null => pending[k] # Null
<1> DEFINE p == pending[k]
<1>1. /\ CleanedPending[k] = CleanedPendingRecord(p)
      /\ CleanedPending'[k] = CleanedPendingRecord(pending[k])'
  BY DEF CleanedPending
<1>2. p \in PendingRecords \cup {Null}
  BY DEF TypeOK
<1>3. CleanedPendingRecord(p) \in {p, Null}
  BY DEF CleanedPendingRecord
<1>4. pending'[k] = p \/ pending'[k] = Null
  BY <1>1, <1>3
<1>5. pending'[k] = Null => CleanedPending'[k] = Null
  BY <1>1 DEF CleanedPendingRecord
<1>6. ASSUME pending'[k] = p, p # Null, CleanedPending'[k] # Null
      PROVE  CleanedPending[k] = p /\ CleanedPending'[k] = p
  <2>1. /\ p.expiresAt \in Nat /\ p.resolvedAt \in Nat /\ now \in Nat /\ PendingTTL \in Nat
    BY <1>2, <1>6, LimitsPositive DEF PendingRecords, TypeOK
  <2>2. CleanedPending'[k] = p
    BY <1>1, <1>6 DEF CleanedPendingRecord
  <2>3. \/ p.status \in Unresolved /\ now' <= p.expiresAt
        \/ now' <= RetainUntil(p)
    BY <1>1, <1>6, <2>1 DEF CleanedPendingRecord, RetainUntil
  <2>4. RetainUntil(p) \in Nat
    BY <2>1 DEF RetainUntil
  <2>5. \/ p.status \in Unresolved /\ now <= p.expiresAt
        \/ now <= RetainUntil(p)
    BY <2>1, <2>3, <2>4
  <2> QED BY <1>1, <1>6, <2>1, <2>2, <2>4, <2>5 DEF CleanedPendingRecord
<1>7. HasPending(k)' => HasPending(k) /\ pending'[k] = p
  BY <1>4, <1>5, <1>6 DEF HasPending
<1> QED BY <1>4, <1>7, <1>3, <1>1 DEF CleanedPendingRecord

\* Where no request is claimed or offered anew, claims keep their owners.
LEMMA ClaimsKept ==
  ASSUME RuntimeInv, ClaimInv, [RuntimeNext]_runtimeVars,
         \A k \in PendingKeys : Claimed(k)' => Claimed(k),
         \A g \in Handlers, k \in PendingKeys : Owns(g, k) /\ Claimed(k)' => Owns(g, k)'
  PROVE  \A k \in PendingKeys : Claimed(k)' => \E g \in Handlers : Owns(g, k)'
BY DEF ClaimInv

\* What AnnouncedRequestIsAnswerable says of one key, in a state and after a step.
LEMMA AnswerableNow ==
  ASSUME AnnouncedRequestIsAnswerable, NEW k \in PendingKeys,
         requests[k[2]].state = "hooked", Created(k) # {}, HasPending(k)
  PROVE  pendingRecords[k] # Null \/ hook = [pc |-> "track", request |-> k[2]]
<1>1. k[1] \in RunScopes /\ k[2] \in PendingIds /\ k = <<k[1], k[2]>>
  BY DEF PendingKeys
<1>2. Positions(k[1], <<"pending_created", k[2]>>) # {}
  BY DEF Created
<1>3. HasPending(<<k[1], k[2]>>)
  BY <1>1
<1> QED BY <1>1, <1>2, <1>3 DEF AnnouncedRequestIsAnswerable

LEMMA AnswerableAfter ==
  ASSUME \A k \in PendingKeys :
           requests'[k[2]].state = "hooked" /\ Created(k)' # {} /\ HasPending(k)' =>
             pendingRecords'[k] # Null \/ hook' = [pc |-> "track", request |-> k[2]]
  PROVE  AnnouncedRequestIsAnswerable'
<1> SUFFICES ASSUME NEW s \in RunScopes, NEW r \in PendingIds,
                    requests'[r].state = "hooked",
                    Positions(s, <<"pending_created", r>>)' # {},
                    HasPending(<<s, r>>)'
             PROVE  pendingRecords'[<<s, r>>] # Null \/ hook' = [pc |-> "track", request |-> r]
  BY DEF AnnouncedRequestIsAnswerable
<1> DEFINE k == <<s, r>>
<1>1. k \in PendingKeys /\ k[1] = s /\ k[2] = r
  BY DEF PendingKeys
<1>2. Created(k)' # {}
  BY <1>1 DEF Created
<1> QED BY <1>1, <1>2

\* Where the hook announces nothing, what can be answered stays so, as a record
\* is dropped only for a request that awaits no answer any more.
LEMMA AnswerableKept ==
  ASSUME RuntimeInv, ClaimInv, hook' = hook,
         \A k \in PendingKeys :
           /\ Created(k)' = Created(k)
           /\ HasPending(k)' => HasPending(k)
           /\ requests'[k[2]].state = "hooked" => requests[k[2]].state = "hooked"
           /\ pendingRecords[k] # Null /\ pendingRecords'[k] = Null
                => ~HasPending(k) \/ requests'[k[2]].state # "hooked"
  PROVE  AnnouncedRequestIsAnswerable'
<1> SUFFICES ASSUME NEW k \in PendingKeys, requests'[k[2]].state = "hooked",
                    Created(k)' # {}, HasPending(k)'
             PROVE  pendingRecords'[k] # Null \/ hook' = [pc |-> "track", request |-> k[2]]
  BY AnswerableAfter
<1>1. pendingRecords[k] # Null \/ hook = [pc |-> "track", request |-> k[2]]
  BY AnswerableNow DEF ClaimInv
<1> QED BY <1>1

-----------------------------------------------------------------------------
\* The locals of a handler that deliver a response are what they were.
SameDelivery(g) ==
  /\ handlers'[g].cmd = handlers[g].cmd /\ handlers'[g].pc = handlers[g].pc
  /\ handlers'[g].chat = handlers[g].chat /\ handlers'[g].run = handlers[g].run
  /\ handlers'[g].written = handlers[g].written

\* A step that forgets at most what nobody awaits any more.
Quiet ==
  /\ hook' = hook /\ now' \in Nat /\ now <= now'
  /\ \A r \in PendingIds : requests'[r].state = "hooked" => requests[r].state = "hooked"
  /\ \A k \in PendingKeys :
       /\ pending'[k] = pending[k] \/ pending'[k] = CleanedPending[k]
       /\ \/ pendingRecords'[k] = pendingRecords[k]
          \/ pendingRecords'[k] = Null /\ ~HasPending(k)
       /\ Created(k)' = Created(k) /\ Resolved(k)' = Resolved(k)
  /\ \A g \in Handlers :
       \/ SameDelivery(g)
       \/ /\ ~Responds(g)'
          /\ \A k \in PendingKeys : Owns(g, k) => ~HasPending(k)

\* A step that tells, registers and answers nothing keeps what is known of requests.
LEMMA QuietStep ==
  ASSUME RuntimeInv, RequestInv, [RuntimeNext]_runtimeVars, Quiet
  PROVE  RequestInv'
<1>1. ASSUME NEW k \in PendingKeys
      PROVE  /\ HasPending(k)' => HasPending(k) /\ pending'[k] = pending[k]
             /\ pending'[k] # Null => pending[k] # Null
  <2>1. TypeOK
    BY DEF RuntimeInv, RuntimeTypeOK
  <2> QED BY <2>1, PendingFades DEF Quiet
<1>2. ASSUME NEW g \in Handlers, SameDelivery(g)
      PROVE  /\ PendingKey(g)' = PendingKey(g) /\ RequestOf(g)' = RequestOf(g)
             /\ Responds(g)' <=> Responds(g)
             /\ Writes(g)' <=> Writes(g)
             /\ PastWrite(g)' <=> PastWrite(g)
             /\ Answers(g)' <=> Answers(g)
  BY <1>2 DEF SameDelivery, PendingKey, RunScope, RequestOf, Responds, Writes, PastWrite, Answers
<1>3. ASSUME NEW g \in Handlers, ~Responds(g)'
      PROVE  ~Writes(g)' /\ ~PastWrite(g)' /\ ~Answers(g)'
  BY <1>3 DEF Responds, Writes, PastWrite, Answers, Delivering
<1>4. SeenInv'
  <2>1. \A k \in PendingKeys : /\ Created(k)' = Created(k)
                               /\ pending'[k] # Null => pending[k] # Null
                               /\ pendingRecords'[k] # Null => pendingRecords[k] # Null
    BY <1>1 DEF Quiet
  <2>2. \A g \in Handlers : Responds(g)' => PendingKey(g)' = PendingKey(g) /\ Responds(g)
    BY <1>2 DEF Quiet
  <2> QED BY <2>1, <2>2, SeenKept DEF Quiet, RequestInv
<1>5. AnsweredInv'
  <2>1. \A g \in Handlers : /\ Answers(g)' => Answers(g)
                            /\ PastWrite(g)' => PastWrite(g)
    BY <1>2, <1>3 DEF Quiet
  <2>2. \A g \in Handlers : PastWrite(g) => RequestOf(g) \in PendingIds
    BY Labels, RespondsFacts
  <2>3. \A g \in Handlers : PastWrite(g)' =>
          /\ PastWrite(g)
          /\ requests'[RequestOf(g)].state = "hooked" => requests[RequestOf(g)].state = "hooked"
    BY <2>1, <2>2 DEF Quiet
  <2> QED BY <2>1, <2>3, AnsweredKept DEF Quiet, RequestInv
<1>6. ClaimInv'
  <2>1. ASSUME NEW g \in Handlers, NEW k \in PendingKeys, Writes(g)', PendingKey(g)' = k,
               pendingRecords'[k] # Null
        PROVE  pendingRecords'[k].inFlight = g
    <3>1. Writes(g) /\ PendingKey(g) = k
      BY <1>2, <1>3, <2>1 DEF Quiet
    <3> QED BY <2>1, <3>1 DEF Quiet, RequestInv, ClaimInv
  <2>2. \A k \in PendingKeys : Claimed(k)' => Claimed(k)
    BY <1>1 DEF Claimed
  <2>3. ASSUME NEW g \in Handlers, NEW k \in PendingKeys, Owns(g, k), Claimed(k)'
        PROVE  Owns(g, k)'
    <3>1. HasPending(k)
      BY <2>2, <2>3 DEF Claimed
    <3>2. SameDelivery(g) /\ pendingRecords'[k] = pendingRecords[k]
      BY <2>3, <3>1 DEF Quiet
    <3> QED BY <1>2, <2>3, <3>2 DEF Owns, SameDelivery
  <2>4. \A k \in PendingKeys : Claimed(k)' => \E g \in Handlers : Owns(g, k)'
    BY <2>2, <2>3, ClaimsKept DEF RequestInv
  <2>5. AnnouncedRequestIsAnswerable'
    <3>1. \A k \in PendingKeys : k[2] \in PendingIds
      BY DEF PendingKeys
    <3>2. hook' = hook
      BY DEF Quiet
    <3>3. \A k \in PendingKeys :
           /\ Created(k)' = Created(k)
           /\ HasPending(k)' => HasPending(k)
           /\ requests'[k[2]].state = "hooked" => requests[k[2]].state = "hooked"
           /\ pendingRecords[k] # Null /\ pendingRecords'[k] = Null
                => ~HasPending(k) \/ requests'[k[2]].state # "hooked"
      BY <1>1, <3>1 DEF Quiet
    <3> QED BY <3>2, <3>3, AnswerableKept DEF RequestInv
  <2> QED BY <2>1, <2>4, <2>5 DEF ClaimInv
<1> QED BY <1>4, <1>5, <1>6 DEF RequestInv

-----------------------------------------------------------------------------
\* An event is appended behind all the others of its run.
LEMMA AppendPositions ==
  ASSUME TypeOK, NEW s \in RunScopes, NEW kind, AppendEvent(s, kind, 1),
         NEW q \in RunScopes, NEW what
  PROVE  /\ \A i \in Positions(q, what) : i \in Nat /\ i < Len(log[q]) + 1
         /\ ~(q = s /\ what = kind) => Positions(q, what)' = Positions(q, what)
         /\ q = s /\ what = kind
              => Positions(q, what)' = Positions(q, what) \cup {Len(log[q]) + 1}
<1> DEFINE e == [id |-> nextEventID + 1, kind |-> kind, at |-> now, size |-> 1]
<1>1. log \in [RunScopes -> Seq(Events)] /\ log' = [log EXCEPT ![s] = Append(@, e)]
  BY DEF TypeOK, AppendEvent
<1>2. e.kind = kind
  OBVIOUS
<1> HIDE DEF e
<1>3. log[q] \in Seq(Events) /\ DOMAIN log[q] = 1..Len(log[q]) /\ Len(log[q]) \in Nat
  BY <1>1
<1>4. CASE q # s
  <2>1. log'[q] = log[q]
    BY <1>1, <1>4
  <2> QED BY <1>3, <1>4, <2>1 DEF Positions
<1>5. CASE q = s
  <2> DEFINE n == Len(log[q]) + 1
  <2>1. log'[q] = Append(log[q], e)
    BY <1>1, <1>5
  <2>2. /\ DOMAIN log'[q] = 1..n /\ log'[q][n] = e
        /\ \A i \in 1..Len(log[q]) : log'[q][i] = log[q][i]
    BY <1>3, <2>1
  <2>3. /\ \A i \in 1..n : i \in 1..Len(log[q]) \/ i = n
        /\ \A i \in 1..Len(log[q]) : i \in 1..n /\ i < n
    BY <1>3
  <2>4. Positions(q, what) = {i \in 1..Len(log[q]) : log[q][i].kind = what}
    BY <1>3 DEF Positions
  <2>5. Positions(q, what)' = {i \in 1..n : log'[q][i].kind = what}
    BY <2>2 DEF Positions
  <2>6. n \in 1..n /\ n \notin 1..Len(log[q])
    BY <1>3
  <2> HIDE DEF n
  <2>7. CASE what = kind
    <3>1. Positions(q, what)' = Positions(q, what) \cup {n}
      BY <1>2, <2>2, <2>3, <2>4, <2>5, <2>6, <2>7
    <3> QED BY <1>5, <2>3, <2>4, <2>7, <3>1 DEF n
  <2>8. CASE what # kind
    <3>1. Positions(q, what)' = Positions(q, what)
      BY <1>2, <2>2, <2>3, <2>4, <2>5, <2>6, <2>8
    <3> QED BY <2>3, <2>4, <2>8, <3>1 DEF n
  <2> QED BY <2>7, <2>8
<1> QED BY <1>4, <1>5

\* The operations that tell clients nothing about requests.
LEMMA NothingToldOfRequests ==
  ASSUME RuntimeInv,
         \/ log' = log
         \/ \E s \in RunScopes, kind \in Deltas \cup Statuses \cup Terminals :
              AppendEvent(s, kind, 1)
  PROVE  \A k \in PendingKeys : Created(k)' = Created(k) /\ Resolved(k)' = Resolved(k)
<1>1. CASE log' = log
  BY <1>1 DEF Created, Resolved, Positions
<1>2. ASSUME NEW s \in RunScopes, NEW kind \in Deltas \cup Statuses \cup Terminals,
             AppendEvent(s, kind, 1)
      PROVE  \A k \in PendingKeys : Created(k)' = Created(k) /\ Resolved(k)' = Resolved(k)
  <2>1. \A r : kind # <<"pending_created", r>> /\ kind # <<"pending_resolved", r>>
    BY DEF Deltas, Statuses, Terminals
  <2>2. \A k \in PendingKeys : k[1] \in RunScopes
    BY DEF PendingKeys
  <2>3. TypeOK
    BY DEF RuntimeInv, RuntimeTypeOK
  <2> QED BY <1>2, <2>1, <2>2, <2>3, AppendPositions DEF Created, Resolved
<1> QED BY <1>1, <1>2

\* The operations of the store that leave the pending requests as they are, or
\* as cleanup leaves them.
LEMMA RequestsLeftAlone ==
  ASSUME \/ Refused \/ UNCHANGED vars
         \/ \E s, kind : AppendEvent(s, kind, 1)
         \/ \E i : \/ ReserveActiveRunCapacity(i) \/ ReleaseActiveRunCapacity(i)
                   \/ ReserveIdempotency(i) \/ CompleteIdempotency(i) \/ ReleaseIdempotency(i)
                   \/ \E s : StartRunWithReservation(i, s)
         \/ \E s : \/ StartRun(s) \/ RestoreRunStateAfterPending(s)
                   \/ \E x : \/ UpdateRunState(s, x) \/ BindRunID(s, x) \/ CompleteRun(s, x)
  PROVE  now' = now /\ pending' \in {pending, CleanedPending}
BY DEF Refused, AppendEvent, ReserveActiveRunCapacity, ReleaseActiveRunCapacity,
       ReserveIdempotency, CompleteIdempotency, ReleaseIdempotency, UpdateIdempotency,
       StartRunWithReservation, StartRun, RestoreRunStateAfterPending, UpdateRunState,
       BindRunID, CompleteRun, Cleanup, CleanupPending, runVars, cleanedVars, vars

\* The steps that deliver a response.
Responding(h) == \/ ClaimPending(h) \/ WriteResponse(h) \/ FinishResponse(h)
                 \/ ReleaseClaim(h) \/ ResolveRequest(h) \/ RestoreRun(h) \/ AnnounceResolved(h)

\* What the other steps of a handler do to the pending requests and the log.
LEMMA OtherStepsStore ==
  ASSUME RuntimeInv, NEW h \in Handlers, HandlerStep(h), ~Responding(h)
  PROVE  /\ now' = now /\ pending' \in {pending, CleanedPending}
         /\ \A k \in PendingKeys : Created(k)' = Created(k) /\ Resolved(k)' = Resolved(k)
<1>1. CASE AnnounceRun(h) \/ ReconcileAppend(h) \/ AnnounceInterrupt(h)
  <2>1. PICK kind \in Statuses : AppendEvent(RunScope(h), kind, 1) /\ RunScope(h) \in RunScopes
    <3>1. RunScope(h) \in RunScopes
      <4>1. handlers[h].pc \in OnRun \/ handlers[h].cmd.op = "InterruptChatRun"
        BY <1>1, HandlerFacts DEF AnnounceRun, ReconcileAppend, AnnounceInterrupt, OnRun,
                                  LabelsOf, Ops
      <4>2. handlers[h].cmd.op = "InterruptChatRun" => RunScope(h) \in RunScopes
        BY HandlerFacts, RunsCover DEF Agrees, Validated, RunScope, RunScopes
      <4> QED BY <4>1, <4>2, HandlerFacts
    <3>2. CASE AnnounceRun(h) \/ ReconcileAppend(h)
      <4>1. handlers[h].state \in RunStates
        BY <3>2, HandlerFacts DEF AnnounceRun, ReconcileAppend, Agrees, Storing, Ending, RunStates
      <4> QED BY <3>1, <3>2, <4>1 DEF AnnounceRun, ReconcileAppend, Statuses
    <3>3. CASE AnnounceInterrupt(h)
      BY <3>1, <3>3 DEF AnnounceInterrupt, Statuses, RunStates, LiveStates
    <3> QED BY <1>1, <3>2, <3>3
  <2> QED BY <2>1, RequestsLeftAlone, NothingToldOfRequests
<1>2. CASE \/ ReserveKey(h) \/ ReleaseKey(h) \/ RememberResult(h) \/ ReserveCapacity(h)
           \/ ReleaseCapacity(h) \/ InstallRun(h)
  <2>1. now' = now /\ pending' \in {pending, CleanedPending}
    BY <1>2, RequestsLeftAlone DEF ReserveKey, ReleaseKey, RememberResult, ReserveCapacity,
                                   ReleaseCapacity, InstallRun
  <2>2. log' = log
    BY <1>2 DEF ReserveKey, ReleaseKey, RememberResult, ReserveCapacity, ReleaseCapacity,
                InstallRun, ReserveIdempotency, ReleaseIdempotency, CompleteIdempotency,
                UpdateIdempotency, ReserveActiveRunCapacity, ReleaseActiveRunCapacity,
                StartRunWithReservation, Refused, eventVars
  <2> QED BY <2>1, <2>2, NothingToldOfRequests
<1>3. CASE \/ ReconcileComplete(h) \/ CompleteRecovered(h) \/ StartProvisionalRun(h)
           \/ AbandonRun(h) \/ BindRun(h) \/ MarkRunning(h) \/ MarkInterrupting(h)
  <2>1. now' = now /\ pending' \in {pending, CleanedPending}
    BY <1>3, RequestsLeftAlone DEF ReconcileComplete, CompleteRecovered, StartProvisionalRun,
                                   AbandonRun, BindRun, MarkRunning, MarkInterrupting
  <2>2. log' = log
    BY <1>3 DEF ReconcileComplete, CompleteRecovered, StartProvisionalRun, AbandonRun, BindRun,
                MarkRunning, MarkInterrupting, CompleteRun, StartRun, BindRunID, UpdateRunState,
                Refused, eventVars, vars
  <2> QED BY <2>1, <2>2, NothingToldOfRequests
<1>4. CASE \/ ReportStatus(h) \/ Reconcile(h) \/ ReadThread(h) \/ SendTurn(h)
           \/ TurnAnswered(h) \/ TurnFails(h) \/ StartThread(h) \/ RecoverRead(h)
           \/ RecoverGivesUp(h) \/ ResumeThread(h) \/ LookRun(h) \/ SendInterrupt(h)
           \/ LookPending(h)
  <2>1. Refused \/ UNCHANGED vars
    BY <1>4 DEF ReportStatus, DropStaleRecords, Reconcile, ReadThread, SendTurn, TurnAnswered,
                TurnFails, StartThread, RecoverRead, RecoverGivesUp, ResumeThread, LookRun,
                SendInterrupt, LookPending, vars
  <2>2. log' = log
    BY <2>1 DEF Refused, eventVars, vars
  <2> QED BY <2>1, <2>2, RequestsLeftAlone, NothingToldOfRequests
<1> QED BY <1>1, <1>2, <1>3, <1>4 DEF HandlerStep, Responding

\* Nor do they touch the hook, the requests or the way of any response.
LEMMA OtherStepsQuiet ==
  ASSUME RuntimeInv, NEW h \in Handlers, HandlerStep(h), ~Responding(h)
  PROVE  Quiet
<1>1. /\ hook' = hook /\ requests' = requests
      /\ pendingRecords' = pendingRecords \/ DropStaleRecords
  <2>1. CASE LocalStep(h)
    BY <2>1, LocalStepFrame DEF Local, Unseen, codexVars
  <2>2. CASE \/ ReportStatus(h) \/ SendTurn(h) \/ SendInterrupt(h) \/ ResumeThread(h)
             \/ StartThread(h)
    BY <2>2 DEF ReportStatus, SendTurn, SendInterrupt, ResumeThread, StartThread, Unseen,
                codexVars
  <2> QED BY <2>1, <2>2 DEF HandlerStep, LocalStep, Responding
<1>2. \A k \in PendingKeys : \/ pendingRecords'[k] = pendingRecords[k]
                             \/ pendingRecords'[k] = Null /\ ~HasPending(k)
  BY <1>1 DEF DropStaleRecords
<1>3. ~Responds(h) /\ ~Responds(h)'
  <2>1. /\ handlers[h].pc \in LabelsOf(handlers[h].cmd.op) /\ handlers[h].cmd.op \in Ops
        /\ handlers'[h].pc \in LabelsOf(handlers[h].cmd.op)
        /\ handlers \in [Handlers -> HandlerRecords]
    BY HandlerFacts, HandlerStepMoves DEF HandlerMoves, Agrees
  <2>2. CASE handlers[h].cmd.op # "RespondChatPending"
    BY <2>1, <2>2 DEF Responds, Delivering, LabelsOf, Ops
  <2>3. CASE handlers[h].cmd.op = "RespondChatPending"
    <3>1. \/ ReserveKey(h) \/ ReleaseKey(h) \/ RememberResult(h) \/ ReportStatus(h)
          \/ LookPending(h)
      BY <2>1, <2>3 DEF HandlerStep, Responding, LabelsOf, Reconcile, ReconcileAppend,
           ReconcileComplete, ReadThread, SendTurn, TurnAnswered, TurnFails, ReserveCapacity,
           StartThread, ReleaseCapacity, RecoverRead, RecoverGivesUp, InstallRun,
           CompleteRecovered, ResumeThread, StartProvisionalRun, AbandonRun, BindRun,
           MarkRunning, AnnounceRun, LookRun, SendInterrupt, MarkInterrupting,
           AnnounceInterrupt
    <3>2. ~Responds(h)
      BY <3>1 DEF ReserveKey, ReleaseKey, RememberResult, ReportStatus, LookPending, Responds,
                  Delivering
    <3>3. CASE LookPending(h)
      <4>1. \/ Goto(h, "release")
            \/ \E run : handlers' = [handlers EXCEPT ![h] = [@ EXCEPT !.pc = "claim", !.run = run]]
        BY <3>3 DEF LookPending
      <4>2. handlers'[h].pc \in {"release", "claim"}
        BY <2>1, <4>1, ZenonT(30) DEF Goto, Leaving, FreshHandler, HandlerRecords
      <4> QED BY <3>2, <4>2 DEF Responds, Delivering
    <3>4. CASE ReserveKey(h) \/ ReleaseKey(h) \/ RememberResult(h) \/ ReportStatus(h)
      <4>1. \E pc \in {"lookPending", "done", "releaseCapacity", "remember"} : Goto(h, pc)
        BY <2>3, <3>4 DEF ReserveKey, ReleaseKey, RememberResult, ReportStatus, FirstStep
      <4>2. handlers'[h].pc \in {"lookPending", "done", "releaseCapacity", "remember"}
        BY <2>1, <4>1 DEF Goto, Leaving, FreshHandler, HandlerRecords
      <4> QED BY <3>2, <4>2 DEF Responds, Delivering
    <3> QED BY <3>1, <3>3, <3>4
  <2> QED BY <2>2, <2>3
<1>4. \A g \in Handlers : \/ SameDelivery(g)
                          \/ ~Responds(g)' /\ \A k \in PendingKeys : Owns(g, k) => ~HasPending(k)
  BY <1>3, HandlerStepMoves, Labels DEF SameDelivery
<1>5. now \in Nat
  BY DEF RuntimeInv, RuntimeTypeOK, TypeOK
<1> QED BY <1>1, <1>2, <1>4, <1>5, OtherStepsStore DEF Quiet

\* The app server, the consumer and the clock.
LEMMA OthersQuiet ==
  ASSUME RuntimeInv, CodexMoves \/ ConsumerStep \/ TimePasses \/ UNCHANGED runtimeVars
  PROVE  Quiet
<1>1. now \in Nat /\ TypeOK
  BY DEF RuntimeInv, RuntimeTypeOK, TypeOK
<1>2. \A r \in PendingIds : requests'[r].state = "hooked" => requests[r].state = "hooked"
  <2>1. CASE CodexAsks
    <3>1. requests \in [PendingIds -> Requests]
      BY CodexFacts
    <3> QED BY <2>1, <3>1 DEF CodexAsks
  <2>2. CASE CodexRestarts
    <3> SUFFICES ASSUME NEW r \in PendingIds PROVE requests'[r].state # "hooked"
      OBVIOUS
    <3>1. /\ requests'[r] = IF requests[r].state \in {"sent", "hooked"}
                            THEN [requests[r] EXCEPT !.state = "broken"] ELSE requests[r]
          /\ requests[r] \in Requests
      BY <2>2, CodexFacts DEF CodexRestarts
    <3> QED BY <3>1 DEF Requests
  <2>3. CASE CodexStep \/ ConsumerStep \/ TimePasses \/ UNCHANGED runtimeVars
    BY <2>3 DEF CodexStep, CodexStartsTurn, CodexRejectsTurn, CodexStreams, CodexEndsTurn,
         CodexInterrupts, ConsumerStep, ConsumeNotification, AppendNotification,
         CompleteNotifiedRun, TimePasses, Unseen, codexVars, runtimeVars
  <2> QED BY <2>1, <2>2, <2>3 DEF CodexMoves
<1>3. CASE CodexMoves
  <2>1. /\ UNCHANGED vars /\ pendingRecords' = pendingRecords /\ hook' = hook
        /\ \A g \in Handlers : SameButAnswer(g)
    BY <1>3, CodexFrame
  <2> QED BY <1>1, <1>2, <2>1, NothingToldOfRequests DEF Quiet, SameButAnswer, SameDelivery, vars
<1>4. CASE ConsumerStep
  <2>1. handlers' = handlers /\ hook' = hook /\ pendingRecords' = pendingRecords
    BY <1>4 DEF ConsumerStep, ConsumeNotification, AppendNotification, CompleteNotifiedRun
  <2>2. now' = now /\ pending' \in {pending, CleanedPending}
    BY <1>4, RequestsLeftAlone DEF ConsumerStep, ConsumeNotification, AppendNotification,
                                   CompleteNotifiedRun
  <2>3. \A k \in PendingKeys : Created(k)' = Created(k) /\ Resolved(k)' = Resolved(k)
    <3>1. CASE AppendNotification
      <4>1. ConsumerScope \in RunScopes /\ consumer.notification.kind \in Deltas \cup Terminals
        BY <3>1, ServiceFacts DEF AppendNotification, Notifications
      <4> QED BY <3>1, <4>1, NothingToldOfRequests DEF AppendNotification
    <3>2. CASE ConsumeNotification \/ CompleteNotifiedRun
      BY <3>2, NothingToldOfRequests DEF ConsumeNotification, CompleteNotifiedRun, CompleteRun,
                                         vars
    <3> QED BY <1>4, <3>1, <3>2 DEF ConsumerStep
  <2> QED BY <1>1, <1>2, <2>1, <2>2, <2>3 DEF Quiet, SameDelivery
<1>5. CASE TimePasses \/ UNCHANGED runtimeVars
  <2>1. /\ UNCHANGED <<handlers, hook, pendingRecords, pending, log>>
        /\ now' = now + 1 \/ now' = now
    BY <1>5 DEF TimePasses, Tick, gatewayVars, eventVars, cleanedVars, runtimeVars, vars
  <2> QED BY <1>1, <1>2, <2>1, NothingToldOfRequests DEF Quiet, SameDelivery
<1> QED BY <1>3, <1>4, <1>5

-----------------------------------------------------------------------------
(* The delivery of a response                                              *)

\* A response that is refused, or ends before it is announced, leaves nothing.
LEMMA EndsQuietly ==
  ASSUME RuntimeInv, NEW h \in Handlers, Responding(h), HandlerMoves(h),
         handlers'[h].pc \notin Delivering,
         \A k \in PendingKeys : Owns(h, k) => ~HasPending(k),
         hook' = hook, requests' = requests, Refused \/ UNCHANGED vars,
         \A k \in PendingKeys : \/ pendingRecords'[k] = pendingRecords[k]
                                \/ pendingRecords'[k] = Null /\ ~HasPending(k)
  PROVE  Quiet
<1>1. now \in Nat
  BY DEF RuntimeInv, RuntimeTypeOK, TypeOK
<1>2. now' = now /\ pending' \in {pending, CleanedPending} /\ log' = log
  BY RequestsLeftAlone DEF Refused, eventVars, vars
<1>3. \A g \in Handlers : g # h => SameDelivery(g)
  BY HandlerFacts DEF HandlerMoves, SameDelivery
<1>4. ~Responds(h)'
  BY DEF Responds
<1> QED BY <1>1, <1>2, <1>3, <1>4, NothingToldOfRequests DEF Quiet

\* What every step of a delivery leaves alone.
LEMMA ResponseFrame ==
  ASSUME RuntimeInv, NEW h \in Handlers, Responding(h)
  PROVE  /\ hook' = hook /\ HandlerStep(h)
         /\ handlers[h].cmd.op = "RespondChatPending"
         /\ handlers[h].pc \in Delivering \cup {"claim"} /\ handlers[h].pc \in OnRun
         /\ PendingKey(h) \in PendingKeys /\ PendingKey(h)[2] = RequestOf(h)
         /\ RequestOf(h) \in PendingIds
         /\ HandlerMoves(h) /\ \A g \in Handlers : g # h => SameDelivery(g)
<1>1. hook' = hook /\ HandlerStep(h)
  BY LocalStepFrame DEF Responding, LocalStep, Local, ClaimPending, WriteResponse, FinishResponse,
                        HandlerStep
<1>2. /\ handlers[h].cmd.op = "RespondChatPending" /\ handlers[h].pc \in OnRun
      /\ handlers[h].pc \in Delivering \cup {"claim"}
  BY HandlerFacts DEF Responding, ClaimPending, WriteResponse, FinishResponse, ReleaseClaim,
                      ResolveRequest, RestoreRun, AnnounceResolved, LabelsOf, Ops, OnRun,
                      Delivering
<1>3. RequestOf(h) \in PendingIds
  BY <1>2, HandlerFacts DEF Agrees, Validated, RequestOf
<1>4. HandlerMoves(h) /\ \A g \in Handlers : g # h => SameDelivery(g)
  BY <1>1, HandlerStepMoves DEF SameDelivery
<1> QED BY <1>1, <1>2, <1>3, <1>4, HandlerFacts DEF PendingKey, RequestOf

\* A handler that goes on with its delivery keeps the key of its request.
LEMMA DeliveryGoes ==
  ASSUME RuntimeInv, NEW h \in Handlers, Responding(h), NEW pc \in Delivering, Goto(h, pc)
  PROVE  /\ handlers'[h].pc = pc /\ handlers'[h].written = handlers[h].written
         /\ PendingKey(h)' = PendingKey(h) /\ RequestOf(h)' = RequestOf(h)
<1>1. pc \in HandlerLabels /\ pc \notin Leaving
  BY DEF Delivering, HandlerLabels, Leaving
<1>2. handlers \in [Handlers -> HandlerRecords]
  BY HandlerFacts
<1> QED BY <1>1, <1>2, GoMove DEF PendingKey, RunScope, RequestOf

\* The other handlers keep where they are with theirs.
LEMMA OthersDeliver ==
  ASSUME NEW g \in Handlers, SameDelivery(g)
  PROVE  /\ PendingKey(g)' = PendingKey(g) /\ RequestOf(g)' = RequestOf(g)
         /\ Responds(g)' <=> Responds(g)
         /\ Writes(g)' <=> Writes(g)
         /\ PastWrite(g)' <=> PastWrite(g)
         /\ Answers(g)' <=> Answers(g)
BY DEF SameDelivery, PendingKey, RunScope, RequestOf, Responds, Writes, PastWrite, Answers

\* An operation of the store on one request.
LEMMA UpdateEffect ==
  ASSUME RuntimeInv, NEW k \in PendingKeys, HasPending(k), NEW p, UpdatePending(k, p)
  PROVE  /\ log' = log /\ pending'[k] = p
         /\ \A q \in PendingKeys :
              /\ Created(q)' = Created(q) /\ Resolved(q)' = Resolved(q)
              /\ pending'[q] # Null => pending[q] # Null
              /\ HasPending(q)' => HasPending(q)
              /\ q # k /\ Claimed(q)' => Claimed(q)
<1>1. TypeOK /\ now \in Nat
  BY DEF RuntimeInv, RuntimeTypeOK, TypeOK
<1>2. /\ log' = log /\ now' = now /\ pending'[k] = p
      /\ \A q \in PendingKeys : q # k => pending'[q] = CleanedPending[q]
  BY DEF UpdatePending, eventVars, CleanedPending
<1>3. \A q \in PendingKeys : q # k =>
        /\ HasPending(q)' => HasPending(q) /\ pending'[q] = pending[q]
        /\ pending'[q] # Null => pending[q] # Null
  BY <1>1, <1>2, PendingFades
<1>4. pending[k] # Null
  BY DEF HasPending, CleanedPending, CleanedPendingRecord
<1> QED BY <1>2, <1>3, <1>4, NothingToldOfRequests DEF Claimed

\* While neither the pending requests nor the clock nor the log change.
LEMMA SamePending ==
  ASSUME RuntimeInv, UNCHANGED <<pending, now, log>>
  PROVE  \A k \in PendingKeys : /\ Created(k)' = Created(k) /\ Resolved(k)' = Resolved(k)
                                /\ pending'[k] = pending[k]
                                /\ HasPending(k)' = HasPending(k) /\ Claimed(k)' = Claimed(k)
BY NothingToldOfRequests
   DEF HasPending, Claimed, CleanedPending, CleanedPendingRecord, RetainUntil

\* A response is claimed: nobody else writes one to this request.
LEMMA ClaimStep ==
  ASSUME RuntimeInv, RequestInv, [RuntimeNext]_runtimeVars, NEW h \in Handlers,
         Responding(h), handlers[h].pc = "claim", requests' = requests,
         pendingRecords[PendingKey(h)] # Null,
         pendingRecords[PendingKey(h)].inFlight = Null,
         ClaimPendingResolution(PendingKey(h)), Goto(h, "write"),
         NEW responses,
         pendingRecords' = [pendingRecords EXCEPT ![PendingKey(h)] =
                              [inFlight |-> h, responses |-> responses]],
         pendingRecords'[PendingKey(h)] # Null
  PROVE  RequestInv'
<1> DEFINE k == PendingKey(h)
<1>1. k \in PendingKeys /\ hook' = hook /\ \A g \in Handlers : g # h => SameDelivery(g)
  BY ResponseFrame
<1>2. handlers'[h].pc = "write" /\ PendingKey(h)' = k /\ RequestOf(h)' = RequestOf(h)
  BY DeliveryGoes DEF Delivering
<1>3. HasPending(k) /\ \E p : UpdatePending(k, p)
  BY DEF ClaimPendingResolution, HasPending, Unresolved
<1>4. \A q \in PendingKeys :
        /\ Created(q)' = Created(q) /\ Resolved(q)' = Resolved(q)
        /\ pending'[q] # Null => pending[q] # Null
        /\ HasPending(q)' => HasPending(q)
        /\ q # k /\ Claimed(q)' => Claimed(q)
  BY <1>1, <1>3, UpdateEffect
<1>5. pendingRecords \in [PendingKeys -> TrackedRecords \cup {Null}]
  BY ServiceFacts
<1>6. /\ pendingRecords'[k].inFlight = h /\ pendingRecords'[k] # Null
      /\ \A q \in PendingKeys : q # k => pendingRecords'[q] = pendingRecords[q]
  BY <1>1, <1>5
<1>7. SeenInv'
  <2>1. \A g \in Handlers : Responds(g)' =>
          /\ PendingKey(g)' = PendingKey(g)
          /\ \/ Responds(g)
             \/ PendingKey(g) \in PendingKeys /\ pendingRecords[PendingKey(g)] # Null
    BY <1>1, <1>2, OthersDeliver
  <2> QED BY <1>1, <1>4, <1>6, <2>1, SeenKept DEF RequestInv
<1>8. AnsweredInv'
  <2>1. ~Answers(h)' /\ ~PastWrite(h)'
    BY <1>2 DEF Answers, PastWrite, Delivering
  <2>2. \A g \in Handlers : (Answers(g)' => Answers(g)) /\ (PastWrite(g)' => PastWrite(g))
    BY <1>1, <2>1, OthersDeliver
  <2> QED BY <1>4, <2>2, AnsweredKept DEF RequestInv
<1>9. ClaimInv'
  <2>1. ASSUME NEW g \in Handlers, NEW q \in PendingKeys, Writes(g)', PendingKey(g)' = q,
               pendingRecords'[q] # Null
        PROVE  pendingRecords'[q].inFlight = g
    <3>1. CASE g = h
      BY <1>2, <1>6, <2>1, <3>1
    <3>2. CASE g # h
      <4>1. Writes(g) /\ PendingKey(g) = q
        BY <1>1, <2>1, <3>2, OthersDeliver
      <4>2. q # k
        BY <4>1, NullIsNothing DEF RequestInv, ClaimInv
      <4> QED BY <1>6, <2>1, <4>1, <4>2 DEF RequestInv, ClaimInv
    <3> QED BY <3>1, <3>2
  <2>2. ASSUME NEW q \in PendingKeys, Claimed(q)'
        PROVE  \E g \in Handlers : Owns(g, q)'
    <3>1. CASE q = k
      BY <1>2, <1>6, <3>1 DEF Owns, Writes
    <3>2. CASE q # k
      <4>1. PICK g \in Handlers : Owns(g, q)
        BY <1>4, <2>2, <3>2 DEF RequestInv, ClaimInv
      <4>2. g # h
        BY <4>1 DEF Owns, Writes
      <4> QED BY <1>1, <1>6, <3>2, <4>1, <4>2, OthersDeliver DEF Owns, SameDelivery
    <3> QED BY <3>1, <3>2
  <2>3. AnnouncedRequestIsAnswerable'
    BY <1>1, <1>4, <1>6, AnswerableKept DEF RequestInv
  <2> QED BY <2>1, <2>2, <2>3 DEF ClaimInv
<1> QED BY <1>7, <1>8, <1>9 DEF RequestInv

\* A step of a delivery that changes no record and no claim for the better, is
\* not about the write and not about the announcement.
LEMMA PlainStep ==
  ASSUME RuntimeInv, RequestInv, [RuntimeNext]_runtimeVars, NEW h \in Handlers,
         Responding(h),
         \A k \in PendingKeys :
           /\ Created(k)' = Created(k) /\ Resolved(k)' = Resolved(k)
           /\ pending'[k] # Null => pending[k] # Null
           /\ HasPending(k)' => HasPending(k)
           /\ Claimed(k)' => Claimed(k)
           /\ pendingRecords'[k] # Null => pendingRecords[k] # Null
           /\ pendingRecords[k] # Null /\ pendingRecords'[k] = Null
                => /\ ~HasPending(k) \/ requests[k[2]].state # "hooked"
                   /\ \A g \in Handlers : g # h => ~(Writes(g) /\ PendingKey(g) = k),
         \A g \in Handlers, k \in PendingKeys :
           Writes(g)' /\ PendingKey(g)' = k /\ pendingRecords'[k] # Null
             => pendingRecords'[k].inFlight = g,
         requests' = requests,
         \/ ~Responds(h)'
         \/ Responds(h) /\ PendingKey(h)' = PendingKey(h),
         Answers(h)' => Answers(h), PastWrite(h)' => PastWrite(h),
         \A k \in PendingKeys : Owns(h, k) /\ Claimed(k)' => Owns(h, k)'
  PROVE  RequestInv'
<1>1. hook' = hook /\ \A g \in Handlers : g # h => SameDelivery(g)
  BY ResponseFrame
<1>2. SeenInv'
  <2>1. \A g \in Handlers : Responds(g)' => PendingKey(g)' = PendingKey(g) /\ Responds(g)
    BY <1>1, OthersDeliver
  <2> QED BY <1>1, <2>1, SeenKept DEF RequestInv
<1>3. AnsweredInv'
  <2>1. \A g \in Handlers : (Answers(g)' => Answers(g)) /\ (PastWrite(g)' => PastWrite(g))
    BY <1>1, OthersDeliver
  <2> QED BY <2>1, AnsweredKept DEF RequestInv
<1>4. ClaimInv'
  <2>1. ASSUME NEW g \in Handlers, NEW k \in PendingKeys, Owns(g, k), Claimed(k)'
        PROVE  Owns(g, k)'
    <3>1. CASE g = h
      BY <2>1, <3>1
    <3>2. CASE g # h
      <4>1. PendingKey(g)' = k /\ (Writes(g)' <=> Writes(g)) /\ handlers'[g].pc = handlers[g].pc
        BY <1>1, <2>1, <3>2, OthersDeliver DEF Owns, SameDelivery
      <4>2. Writes(g) /\ pendingRecords[k] # Null => pendingRecords'[k] # Null
        BY <2>1, <3>2 DEF Owns
      <4> QED BY <2>1, <4>1, <4>2 DEF Owns
    <3> QED BY <3>1, <3>2
  <2>2. \A k \in PendingKeys : Claimed(k)' => \E g \in Handlers : Owns(g, k)'
    BY <2>1, ClaimsKept DEF RequestInv
  <2>3. AnnouncedRequestIsAnswerable'
    BY <1>1, AnswerableKept DEF RequestInv
  <2> QED BY <2>2, <2>3 DEF ClaimInv
<1> QED BY <1>2, <1>3, <1>4 DEF RequestInv

\* Only one handler writes a response to a request that is tracked.
LEMMA OneWriter ==
  ASSUME RequestInv, NEW h \in Handlers, NEW g \in Handlers, NEW k \in PendingKeys,
         Writes(g), PendingKey(g) = k, pendingRecords[k] # Null,
         \/ Writes(h) /\ PendingKey(h) = k
         \/ pendingRecords[k].inFlight = h
  PROVE  g = h
BY DEF RequestInv, ClaimInv

\* The claim is the first writer of its record.
LEMMA ClaimPendingStep ==
  ASSUME RuntimeInv, RequestInv, [RuntimeNext]_runtimeVars, NEW h \in Handlers, ClaimPending(h)
  PROVE  RequestInv'
<1> DEFINE k == PendingKey(h)
           record == pendingRecords[k]
<1>1. /\ Responding(h) /\ handlers[h].pc = "claim" /\ requests' = requests
  BY DEF Responding, ClaimPending, Unseen, codexVars
<1>2. /\ k \in PendingKeys /\ hook' = hook /\ HandlerMoves(h)
      /\ \A g \in Handlers : g # h => SameDelivery(g)
  BY <1>1, ResponseFrame
<1>3. pendingRecords \in [PendingKeys -> TrackedRecords \cup {Null}]
      /\ handlers \in [Handlers -> HandlerRecords]
  BY ServiceFacts, HandlerFacts
<1>4. /\ ~Responds(h) /\ \A q : ~Owns(h, q)
  BY <1>1 DEF Responds, Owns, Writes, Delivering
<1>5. Goto(h, "release") => handlers'[h].pc = "release"
  BY <1>3 DEF Goto, Leaving, FreshHandler
<1>6. CASE Goto(h, "release") /\ (UNCHANGED vars \/ Refused) /\ pendingRecords' = pendingRecords
  BY <1>1, <1>2, <1>4, <1>5, <1>6, EndsQuietly, QuietStep DEF Delivering
<1>7. CASE /\ record # Null /\ record.inFlight = Null
           /\ ~(CleanedPending[k] # Null /\ CleanedPending[k].status = "active")
           /\ Refused /\ pendingRecords' = [pendingRecords EXCEPT ![k] = Null]
           /\ Goto(h, "release")
  <2>1. pendingRecords'[k] = Null /\ \A q \in PendingKeys : q # k => pendingRecords'[q] = pendingRecords[q]
    BY <1>2, <1>3, <1>7
  <2>2. CASE ~HasPending(k)
    <3>1. \A q \in PendingKeys : \/ pendingRecords'[q] = pendingRecords[q]
                                 \/ pendingRecords'[q] = Null /\ ~HasPending(q)
      BY <2>1, <2>2
    <3>2. handlers'[h].pc \notin Delivering
      BY <1>5, <1>7 DEF Delivering
    <3>3. Quiet
      BY <1>1, <1>2, <1>4, <1>7, <3>1, <3>2, EndsQuietly
    <3> QED BY <3>3, QuietStep
  <2>3. CASE HasPending(k)
    <3>1. Claimed(k)
      <4>1. CleanedPending[k] # Null /\ CleanedPending[k].status = "claimed"
        BY <1>7, <2>3 DEF HasPending, Unresolved
      <4>2. CleanedPending[k] = CleanedPendingRecord(pending[k])
        BY <1>2 DEF CleanedPending
      <4>3. CleanedPending[k] = pending[k]
        BY <4>1, <4>2 DEF CleanedPendingRecord
      <4> QED BY <2>3, <4>1, <4>3 DEF Claimed
    <3>2. \A g \in Handlers : ~(Writes(g) /\ PendingKey(g) = k)
      BY <1>2, <1>7, NullIsNothing DEF RequestInv, ClaimInv
    <3>3. requests[k[2]].state # "hooked"
      <4>1. PICK g \in Handlers : Owns(g, k)
        BY <1>2, <3>1 DEF RequestInv, ClaimInv
      <4>2. PastWrite(g) /\ PendingKey(g) = k
        BY <3>2, <4>1 DEF Owns, PastWrite, Delivering
      <4>3. k[2] = RequestOf(g)
        BY <4>2 DEF PendingKey, RequestOf
      <4> QED BY <4>2, <4>3 DEF RequestInv, AnsweredInv
    <3>4. /\ \A q \in PendingKeys :
               /\ Created(q)' = Created(q) /\ Resolved(q)' = Resolved(q)
               /\ pending'[q] # Null => pending[q] # Null
               /\ HasPending(q)' => HasPending(q)
               /\ Claimed(q)' => Claimed(q)
      <4>1. TypeOK /\ now' = now /\ now \in Nat /\ log' = log
            /\ \A q \in PendingKeys : pending'[q] = pending[q] \/ pending'[q] = CleanedPending[q]
        BY <1>7, RequestsLeftAlone DEF RuntimeInv, RuntimeTypeOK, TypeOK, Refused, eventVars
      <4> QED BY <4>1, PendingFades, NothingToldOfRequests DEF Claimed
    <3>5. ~Responds(h)' /\ ~Answers(h)' /\ ~PastWrite(h)' /\ ~Writes(h)'
      BY <1>5, <1>7 DEF Responds, Answers, PastWrite, Writes, Delivering
    <3>6. ASSUME NEW g \in Handlers, NEW q \in PendingKeys, Writes(g)', PendingKey(g)' = q,
                 pendingRecords'[q] # Null
          PROVE  pendingRecords'[q].inFlight = g
      <4>1. Writes(g) /\ PendingKey(g) = q
        BY <1>2, <3>5, <3>6, OthersDeliver
      <4> QED BY <2>1, <3>6, <4>1 DEF RequestInv, ClaimInv
    <3> QED BY <1>1, <1>4, <2>1, <3>2, <3>3, <3>4, <3>5, <3>6, PlainStep
  <2> QED BY <2>2, <2>3
<1>8. CASE /\ record # Null /\ record.inFlight = Null
           /\ ClaimPendingResolution(k) /\ Goto(h, "write")
           /\ pendingRecords' = [pendingRecords EXCEPT ![k] =
                [inFlight |-> h, responses |-> record.responses \cup {handlers[h].cmd.message}]]
  <2> DEFINE new == [inFlight |-> h,
                     responses |-> record.responses \cup {handlers[h].cmd.message}]
  <2>1. new # Null
    <3>1. handlers[h].cmd.message \in Messages /\ record \in TrackedRecords
      <4>1. handlers[h].cmd.op = "RespondChatPending"
        BY <1>1, ResponseFrame
      <4> QED BY <1>2, <1>3, <1>8, <4>1, HandlerFacts DEF Agrees, Validated
    <3>2. new \in TrackedRecords
      BY <3>1 DEF TrackedRecords
    <3> HIDE DEF new
    <3> QED BY <3>2, NullIsNothing
  <2>2. pendingRecords'[k] = new
    BY <1>2, <1>3, <1>8
  <2> QED BY <1>1, <1>8, <2>1, <2>2, ClaimStep
<1> QED BY <1>6, <1>7, <1>8 DEF ClaimPending, RefuseResponse

\* The write: the app server gets one answer to a request, from one handler.
LEMMA WriteStep ==
  ASSUME RuntimeInv, RequestInv, [RuntimeNext]_runtimeVars, NEW h \in Handlers,
         WriteResponse(h)
  PROVE  RequestInv'
<1> DEFINE r == RequestOf(h)
<1>1. /\ Responding(h) /\ handlers[h].pc = "write" /\ UNCHANGED vars
      /\ pendingRecords' = pendingRecords
  BY DEF Responding, WriteResponse
<1>2. /\ hook' = hook /\ r \in PendingIds /\ PendingKey(h) \in PendingKeys
      /\ \A g \in Handlers : g # h => SameDelivery(g)
  BY <1>1, ResponseFrame
<1>3. /\ handlers'[h].pc = "finish" /\ RequestOf(h)' = r /\ PendingKey(h)' = PendingKey(h)
      /\ handlers'[h].written => requests[r].state = "hooked"
      /\ \/ requests[r].state # "hooked" /\ requests' = requests
         \/ requests' = [requests EXCEPT ![r].state =
                           IF handlers'[h].written THEN "answered" ELSE "broken"]
  BY WriteAdvances DEF RequestOf, PendingKey, RunScope
<1>4. /\ requests'[r].state # "hooked"
      /\ handlers'[h].written => requests'[r].state = "answered"
      /\ \A q \in PendingIds : q # r => requests'[q] = requests[q]
  <2>1. requests \in [PendingIds -> Requests]
    BY CodexFacts
  <2> QED BY <1>2, <1>3, <2>1 DEF Requests
<1>5. \A q \in PendingIds : requests'[q].state = "hooked" => requests[q].state = "hooked"
  BY <1>4
<1>6. \A k \in PendingKeys : /\ Created(k)' = Created(k) /\ Resolved(k)' = Resolved(k)
                             /\ HasPending(k)' = HasPending(k) /\ Claimed(k)' = Claimed(k)
  BY <1>1, SamePending DEF vars
<1>7. Responds(h) /\ ~Answers(h) /\ ~PastWrite(h) /\ Writes(h) /\ Writes(h)'
      /\ (Answers(h)' => handlers'[h].written)
  BY <1>1, <1>3 DEF Responds, Answers, PastWrite, Writes, Delivering
<1>8. SeenInv'
  <2>1. \A g \in Handlers : Responds(g)' => PendingKey(g)' = PendingKey(g) /\ Responds(g)
    BY <1>2, <1>3, <1>7, OthersDeliver
  <2> QED BY <1>1, <1>2, <1>6, <2>1, SeenKept DEF RequestInv, vars
<1>9. AnsweredInv'
  <2>1. \A g \in Handlers : RequestOf(g)' = RequestOf(g)
    BY CommandsKept DEF RequestOf
  <2>2. ASSUME NEW g \in Handlers, Answers(g)'
        PROVE  /\ requests'[RequestOf(g)].state = "answered"
               /\ g = h => requests[r].state = "hooked"
               /\ g # h => Answers(g)
    <3>1. CASE g = h
      BY <1>3, <1>4, <1>7, <2>2, <3>1
    <3>2. CASE g # h
      <4>1. Answers(g)
        BY <1>2, <2>2, <3>2, OthersDeliver
      <4>2. RequestOf(g) \in PendingIds
        BY <4>1, Labels, RespondsFacts
      <4> QED BY <3>2, <4>1, <4>2, RequestsKept DEF RequestInv, AnsweredInv
    <3> QED BY <3>1, <3>2
  <2>3. ASSUME NEW g \in Handlers, PastWrite(g)'
        PROVE  requests'[RequestOf(g)].state # "hooked"
    <3>1. CASE g = h
      BY <1>4, <3>1
    <3>2. CASE g # h
      <4>1. PastWrite(g)
        BY <1>2, <2>3, <3>2, OthersDeliver
      <4>2. RequestOf(g) \in PendingIds
        BY <4>1, Labels, RespondsFacts
      <4> QED BY <1>5, <4>1, <4>2 DEF RequestInv, AnsweredInv
    <3> QED BY <3>1, <3>2
  <2>4. ASSUME NEW f \in Handlers, NEW g \in Handlers, Answers(f)', Answers(g)',
               RequestOf(f) = RequestOf(g)
        PROVE  f = g
    BY <2>2, <2>4 DEF RequestInv, AnsweredInv
  <2>5. ASSUME NEW k \in PendingKeys, Resolved(k) # {}
        PROVE  /\ requests'[k[2]].state = "answered"
               /\ \A g \in Handlers : Answers(g)' => RequestOf(g) # k[2]
    <3>1. k[2] \in PendingIds /\ requests[k[2]].state = "answered"
          /\ \A g \in Handlers : Answers(g) => RequestOf(g) # k[2]
      BY <2>5 DEF RequestInv, AnsweredInv, PendingKeys
    <3> QED BY <2>2, <3>1, RequestsKept
  <2>6. \A k \in PendingKeys : Resolved(k)' # {} =>
          /\ \A i, j \in Resolved(k)' : i = j
          /\ \A j \in Resolved(k)' : \E i \in Created(k)' : i < j
    BY <1>6 DEF RequestInv, AnsweredInv
  <2> QED BY <1>6, <2>1, <2>2, <2>3, <2>4, <2>5, <2>6 DEF AnsweredInv
<1>10. ClaimInv'
  <2>1. ASSUME NEW g \in Handlers
        PROVE  /\ PendingKey(g)' = PendingKey(g) /\ (Writes(g)' <=> Writes(g))
               /\ handlers'[g].pc \in {"unclaim", "resolve"}
                    <=> handlers[g].pc \in {"unclaim", "resolve"}
    BY <1>1, <1>2, <1>3, <1>7, OthersDeliver DEF SameDelivery
  <2>2. \A g \in Handlers, k \in PendingKeys : Owns(g, k) => Owns(g, k)'
    BY <1>1, <2>1 DEF Owns
  <2>3. \A k \in PendingKeys : Claimed(k)' => \E g \in Handlers : Owns(g, k)'
    BY <1>6, <2>2, ClaimsKept DEF RequestInv
  <2>4. AnnouncedRequestIsAnswerable'
    <3>1. \A k \in PendingKeys : k[2] \in PendingIds
      BY DEF PendingKeys
    <3> QED BY <1>1, <1>2, <1>5, <1>6, <3>1, AnswerableKept DEF RequestInv
  <2> QED BY <1>1, <2>1, <2>3, <2>4 DEF RequestInv, ClaimInv
<1> QED BY <1>8, <1>9, <1>10 DEF RequestInv

\* A written response leads to the resolution, any other gives the claim back.
LEMMA FinishStep ==
  ASSUME RuntimeInv, RequestInv, [RuntimeNext]_runtimeVars, NEW h \in Handlers,
         FinishResponse(h)
  PROVE  RequestInv'
<1> DEFINE k == PendingKey(h)
           record == pendingRecords[k]
<1>1. /\ Responding(h) /\ handlers[h].pc = "finish" /\ requests' = requests /\ UNCHANGED vars
  BY DEF Responding, FinishResponse, Unseen, codexVars
<1>2. /\ k \in PendingKeys /\ k[2] = RequestOf(h) /\ hook' = hook /\ HandlerMoves(h)
      /\ \A g \in Handlers : g # h => SameDelivery(g)
  BY <1>1, ResponseFrame
<1>3. pendingRecords \in [PendingKeys -> TrackedRecords \cup {Null}]
      /\ handlers \in [Handlers -> HandlerRecords]
  BY ServiceFacts, HandlerFacts
<1>4. \A q \in PendingKeys :
        /\ Created(q)' = Created(q) /\ Resolved(q)' = Resolved(q) /\ pending'[q] = pending[q]
        /\ HasPending(q)' = HasPending(q) /\ Claimed(q)' = Claimed(q)
  BY <1>1, SamePending DEF vars
<1>5. Writes(h) /\ Responds(h) /\ PastWrite(h)
  BY <1>1 DEF Writes, Responds, PastWrite, Delivering
<1>6. CASE record = Null /\ Goto(h, "done") /\ UNCHANGED pendingRecords
  <2>1. handlers'[h].pc = "done"
    BY <1>3, <1>6 DEF Goto, Leaving, FreshHandler
  <2>2. \A q \in PendingKeys : ~Owns(h, q)
    BY <1>1, <1>6 DEF Owns
  <2> QED BY <1>1, <1>2, <1>6, <2>1, <2>2, EndsQuietly, QuietStep DEF Delivering
<1>7. CASE /\ record # Null
           /\ \/ /\ handlers[h].written /\ Goto(h, "resolve")
                 /\ pendingRecords' = [pendingRecords EXCEPT ![k] = Null]
              \/ /\ ~handlers[h].written /\ Goto(h, "unclaim")
                 /\ pendingRecords' = [pendingRecords EXCEPT ![k].inFlight = Null]
  <2>1. /\ handlers'[h].pc = IF handlers[h].written THEN "resolve" ELSE "unclaim"
        /\ PendingKey(h)' = k /\ RequestOf(h)' = RequestOf(h)
    BY <1>1, <1>7, DeliveryGoes DEF Delivering
  <2>2. /\ ~Writes(h)' /\ (Answers(h)' => Answers(h))
        /\ \A q \in PendingKeys : Owns(h, q) => Owns(h, q)'
    BY <1>1, <2>1 DEF Writes, Answers, Owns
  <2>3. \A g \in Handlers : g # h => ~(Writes(g) /\ PendingKey(g) = k)
    BY <1>2, <1>5, <1>7, OneWriter
  <2>4. \A q \in PendingKeys : q # k => pendingRecords'[q] = pendingRecords[q]
    BY <1>2, <1>3, <1>7
  <2>5. pendingRecords'[k] = Null => handlers[h].written
    <3> SUFFICES ASSUME ~handlers[h].written PROVE pendingRecords'[k] # Null
      OBVIOUS
    <3>1. pendingRecords'[k] = [record EXCEPT !.inFlight = Null] /\ record \in TrackedRecords
      BY <1>2, <1>3, <1>7
    <3>2. pendingRecords'[k] \in TrackedRecords
      BY <3>1 DEF TrackedRecords
    <3> QED BY <3>2, NullIsNothing
  <2>6. pendingRecords'[k] = Null => requests[k[2]].state # "hooked"
    BY <1>2, <1>5 DEF RequestInv, AnsweredInv
  <2>7. ASSUME NEW g \in Handlers, NEW q \in PendingKeys, Writes(g)', PendingKey(g)' = q,
               pendingRecords'[q] # Null
        PROVE  pendingRecords'[q].inFlight = g
    <3>1. g # h /\ Writes(g) /\ PendingKey(g) = q
      BY <1>2, <2>2, <2>7, OthersDeliver
    <3>2. q # k
      BY <2>3, <3>1
    <3> QED BY <2>4, <2>7, <3>1, <3>2 DEF RequestInv, ClaimInv
  <2>8. \A q \in PendingKeys :
          /\ pendingRecords'[q] # Null => pendingRecords[q] # Null
          /\ pendingRecords[q] # Null /\ pendingRecords'[q] = Null
                => /\ requests[q[2]].state # "hooked"
                   /\ \A g \in Handlers : g # h => ~(Writes(g) /\ PendingKey(g) = q)
    BY <1>7, <2>3, <2>4, <2>6
  <2> QED BY <1>1, <1>4, <1>5, <2>1, <2>2, <2>7, <2>8, PlainStep
<1> QED BY <1>6, <1>7 DEF FinishResponse

\* A step after the records are settled: it goes on, or leaves the delivery.
LEMMA SettledStep ==
  ASSUME RuntimeInv, RequestInv, [RuntimeNext]_runtimeVars, NEW h \in Handlers,
         Responding(h), handlers[h].pc \in {"unclaim", "resolve", "restore"},
         \/ Goto(h, "done")
         \/ handlers[h].pc # "unclaim" /\ \E pc \in {"restore", "announceResolved"} : Goto(h, pc),
         pendingRecords' = pendingRecords, requests' = requests,
         \A k \in PendingKeys :
           /\ Created(k)' = Created(k) /\ Resolved(k)' = Resolved(k)
           /\ pending'[k] # Null => pending[k] # Null
           /\ HasPending(k)' => HasPending(k)
           /\ Claimed(k)' => Claimed(k)
           /\ Owns(h, k) => ~Claimed(k)'
  PROVE  RequestInv'
<1>1. handlers \in [Handlers -> HandlerRecords] /\ \A g \in Handlers : g # h => SameDelivery(g)
  BY HandlerFacts, ResponseFrame
<1>2. Responds(h)
  BY DEF Responds, Delivering
<1>3. /\ ~Writes(h)'
      /\ ~Responds(h)' \/ PendingKey(h)' = PendingKey(h)
      /\ Answers(h)' => Answers(h)
      /\ PastWrite(h)' => PastWrite(h)
  <2>1. CASE Goto(h, "done")
    <3>1. handlers'[h].pc = "done"
      BY <1>1, <2>1 DEF Goto, Leaving, FreshHandler
    <3> QED BY <3>1 DEF Responds, Writes, Answers, PastWrite, Delivering
  <2>2. ASSUME NEW pc \in {"restore", "announceResolved"}, Goto(h, pc), handlers[h].pc # "unclaim"
        PROVE  /\ ~Writes(h)' /\ PendingKey(h)' = PendingKey(h)
               /\ Answers(h) /\ PastWrite(h)
    <3>1. handlers'[h].pc = pc /\ PendingKey(h)' = PendingKey(h)
      BY <2>2, DeliveryGoes DEF Delivering
    <3> QED BY <2>2, <3>1 DEF Writes, Answers, PastWrite, Delivering
  <2> QED BY <2>1, <2>2
<1>4. ASSUME NEW g \in Handlers, NEW k \in PendingKeys, Writes(g)', PendingKey(g)' = k,
             pendingRecords'[k] # Null
      PROVE  pendingRecords'[k].inFlight = g
  <2>1. g # h /\ Writes(g) /\ PendingKey(g) = k
    BY <1>1, <1>3, <1>4, OthersDeliver
  <2> QED BY <1>4, <2>1 DEF RequestInv, ClaimInv
<1> QED BY <1>2, <1>3, <1>4, PlainStep

\* The store gives the claim back or resolves it, as the handler says.
LEMMA SettleStep ==
  ASSUME RuntimeInv, RequestInv, [RuntimeNext]_runtimeVars, NEW h \in Handlers,
         ReleaseClaim(h) \/ ResolveRequest(h) \/ RestoreRun(h)
  PROVE  RequestInv'
<1> DEFINE k == PendingKey(h)
<1>1. /\ Responding(h) /\ requests' = requests /\ pendingRecords' = pendingRecords
      /\ handlers[h].pc \in {"unclaim", "resolve", "restore"}
  BY DEF Responding, ReleaseClaim, ResolveRequest, RestoreRun, Local, Unseen, codexVars
<1>2. k \in PendingKeys /\ hook' = hook /\ HandlerMoves(h)
  BY <1>1, ResponseFrame
<1>3. \A q : Owns(h, q) => q = k
  BY DEF Owns
<1>4. handlers \in [Handlers -> HandlerRecords]
  BY HandlerFacts
<1>5. CASE (Refused \/ UNCHANGED vars) /\ Goto(h, "done") /\ \A q \in PendingKeys : Owns(h, q) => ~HasPending(q)
  <2>1. handlers'[h].pc = "done"
    BY <1>4, <1>5 DEF Goto, Leaving, FreshHandler
  <2> QED BY <1>1, <1>2, <1>5, <2>1, EndsQuietly, QuietStep DEF Delivering
<1>6. CASE CleanedPending[k] # Null /\ ReleasePendingResolutionClaim(k) /\ Goto(h, "done")
  <2>1. PICK p : UpdatePending(k, p) /\ p.status = "active"
    <3>1. CleanedPending[k] \in PendingRecords
      <4>1. pending[k] \in PendingRecords \cup {Null}
        BY <1>2 DEF RuntimeInv, RuntimeTypeOK, TypeOK
      <4> QED BY <1>2, <1>6, <4>1 DEF CleanedPending, CleanedPendingRecord
    <3>2. [CleanedPending[k] EXCEPT !.status = "active"].status = "active"
      BY <3>1 DEF PendingRecords
    <3> QED BY <1>6, <3>2 DEF ReleasePendingResolutionClaim
  <2>2. HasPending(k)
    BY <1>6 DEF ReleasePendingResolutionClaim, HasPending, Unresolved
  <2>3. /\ pending'[k] = p
        /\ \A q \in PendingKeys :
              /\ Created(q)' = Created(q) /\ Resolved(q)' = Resolved(q)
              /\ pending'[q] # Null => pending[q] # Null
              /\ HasPending(q)' => HasPending(q)
              /\ q # k /\ Claimed(q)' => Claimed(q)
    BY <1>2, <2>1, <2>2, UpdateEffect
  <2>4. \A q \in PendingKeys : q = k => ~Claimed(q)'
    BY <2>1, <2>3 DEF Claimed
  <2> QED BY <1>1, <1>3, <1>6, <2>3, <2>4, SettledStep
<1>7. CASE /\ handlers[h].pc = "resolve" /\ CleanedPending[k] # Null
           /\ ResolvePending(k) /\ Goto(h, "restore")
  <2>1. PICK p : UpdatePending(k, p) /\ p.status = "resolved"
    <3>1. CleanedPending[k] \in PendingRecords
      <4>1. pending[k] \in PendingRecords \cup {Null}
        BY <1>2 DEF RuntimeInv, RuntimeTypeOK, TypeOK
      <4> QED BY <1>2, <1>7, <4>1 DEF CleanedPending, CleanedPendingRecord
    <3>2. [CleanedPending[k] EXCEPT !.status = "resolved", !.resolvedAt = now].status = "resolved"
      BY <3>1 DEF PendingRecords
    <3> QED BY <1>7, <3>2 DEF ResolvePending
  <2>2. HasPending(k)
    BY <1>7 DEF ResolvePending, HasPending
  <2>3. /\ pending'[k] = p
        /\ \A q \in PendingKeys :
              /\ Created(q)' = Created(q) /\ Resolved(q)' = Resolved(q)
              /\ pending'[q] # Null => pending[q] # Null
              /\ HasPending(q)' => HasPending(q)
              /\ q # k /\ Claimed(q)' => Claimed(q)
    BY <1>2, <2>1, <2>2, UpdateEffect
  <2>4. \A q \in PendingKeys : q = k => ~Claimed(q)'
    BY <2>1, <2>3 DEF Claimed
  <2> QED BY <1>1, <1>3, <1>7, <2>3, <2>4, SettledStep
<1>8. CASE /\ handlers[h].pc = "restore" /\ RestoreRunStateAfterPending(RunScope(h))
           /\ Goto(h, "announceResolved")
  <2>1. UNCHANGED <<pending, now, log>>
    BY <1>8 DEF RestoreRunStateAfterPending, eventVars, cleanedVars
  <2>2. \A q : ~Owns(h, q)
    BY <1>8 DEF Owns, Writes
  <2> QED BY <1>1, <1>8, <2>1, <2>2, SamePending, SettledStep
<1>9. CASE ReleaseClaim(h) \/ ResolveRequest(h)
  <2>1. CleanedPending[k] = Null => \A q \in PendingKeys : Owns(h, q) => ~HasPending(q)
    BY <1>3 DEF HasPending
  <2> QED BY <1>5, <1>6, <1>7, <1>9, <2>1 DEF ReleaseClaim, ResolveRequest
<1>10. CASE RestoreRun(h)
  <2>1. \A q : ~Owns(h, q)
    BY <1>10 DEF RestoreRun, Owns, Writes
  <2> QED BY <1>5, <1>8, <1>10, <2>1 DEF RestoreRun
<1> QED BY <1>9, <1>10

\* The announcement: the only one for this request, by who answered it.
LEMMA AnnounceStep ==
  ASSUME RuntimeInv, RequestInv, [RuntimeNext]_runtimeVars, NEW h \in Handlers,
         AnnounceResolved(h)
  PROVE  RequestInv'
<1> DEFINE k == PendingKey(h)
           r == RequestOf(h)
<1>1. /\ Responding(h) /\ requests' = requests /\ pendingRecords' = pendingRecords
      /\ handlers[h].pc = "announceResolved" /\ Goto(h, "status")
      /\ AppendEvent(RunScope(h), <<"pending_resolved", r>>, 1)
  BY DEF Responding, AnnounceResolved, Local, Unseen, codexVars, RequestOf
<1>2. /\ k \in PendingKeys /\ k[1] = RunScope(h) /\ k[2] = r /\ k[1] \in RunScopes
      /\ r \in PendingIds /\ hook' = hook
      /\ \A g \in Handlers : g # h => SameDelivery(g)
  BY <1>1, ResponseFrame DEF PendingKey, PendingKeys
<1>3. handlers \in [Handlers -> HandlerRecords] /\ TypeOK /\ now \in Nat
  BY HandlerFacts DEF RuntimeInv, RuntimeTypeOK, TypeOK
<1>4. handlers'[h].pc = "status"
  BY <1>1, <1>3 DEF Goto, Leaving, FreshHandler
<1>5. ~Responds(h)' /\ ~Writes(h)' /\ ~Answers(h)' /\ ~PastWrite(h)'
  BY <1>4 DEF Responds, Writes, Answers, PastWrite, Delivering
<1>6. Responds(h) /\ Answers(h) /\ \A q : ~Owns(h, q)
  BY <1>1 DEF Responds, Answers, Owns, Writes, Delivering
<1>7. /\ \A q \in PendingKeys :
           /\ HasPending(q)' => HasPending(q)
           /\ pending'[q] # Null => pending[q] # Null
           /\ Claimed(q)' => Claimed(q)
  <2>1. now' = now /\ \A q \in PendingKeys : pending'[q] = pending[q] \/ pending'[q] = CleanedPending[q]
    BY <1>1, RequestsLeftAlone
  <2> QED BY <1>3, <2>1, PendingFades DEF Claimed
<1> DEFINE n == Len(log[k[1]]) + 1
<1>8. /\ \A q \in PendingKeys : /\ Created(q)' = Created(q)
                                /\ q # k => Resolved(q)' = Resolved(q)
      /\ \A q \in PendingKeys : q = k => Resolved(q)' = Resolved(q) \cup {n}
      /\ \A i \in Created(k) : i < n
  <2>1. \A q \in PendingKeys : q[1] \in RunScopes /\ q = <<q[1], q[2]>>
    BY DEF PendingKeys
  <2>2. \A x, y : <<"pending_created", x>> # <<"pending_resolved", y>>
    OBVIOUS
  <2>3. \A q \in PendingKeys : Created(q)' = Created(q)
    BY <1>1, <1>2, <1>3, <2>1, <2>2, AppendPositions DEF Created
  <2>4. \A q \in PendingKeys : q # k => Resolved(q)' = Resolved(q)
    BY <1>1, <1>2, <1>3, <2>1, AppendPositions DEF Resolved
  <2>5. \A q \in PendingKeys : q = k => Resolved(q)' = Resolved(q) \cup {n}
    BY <1>1, <1>2, <1>3, AppendPositions DEF Resolved
  <2>6. \A i \in Created(k) : i < n
    BY <1>1, <1>2, <1>3, AppendPositions DEF Created
  <2> QED BY <2>3, <2>4, <2>5, <2>6
<1> HIDE DEF n
<1>9. Resolved(k) = {} /\ Created(k) # {} /\ requests[r].state = "answered"
  BY <1>2, <1>6 DEF RequestInv, AnsweredInv, SeenInv, Offered
<1>10. SeenInv'
  <2>1. \A g \in Handlers : Responds(g)' => PendingKey(g)' = PendingKey(g) /\ Responds(g)
    BY <1>2, <1>5, OthersDeliver
  <2> QED BY <1>1, <1>2, <1>7, <1>8, <2>1, SeenKept DEF RequestInv
<1>11. AnsweredInv'
  <2>1. \A g \in Handlers : RequestOf(g)' = RequestOf(g)
    BY CommandsKept DEF RequestOf
  <2>2. \A g \in Handlers : /\ Answers(g)' => Answers(g) /\ g # h
                            /\ PastWrite(g)' => PastWrite(g)
    BY <1>2, <1>5, OthersDeliver
  <2>3. ASSUME NEW q \in PendingKeys, Resolved(q)' # {}
        PROVE  /\ requests[q[2]].state = "answered"
               /\ \A g \in Handlers : Answers(g)' => RequestOf(g) # q[2]
               /\ \A i, j \in Resolved(q)' : i = j
               /\ \A j \in Resolved(q)' : \E i \in Created(q)' : i < j
    <3>1. CASE q = k
      <4>1. Resolved(q)' = Resolved(q) \cup {n} /\ Resolved(q) = {}
            /\ Created(q)' = Created(q) /\ q[2] = r
        BY <1>2, <1>8, <1>9, <3>1
      <4>2. \A g \in Handlers : Answers(g)' => RequestOf(g) # r
        BY <1>6, <2>2 DEF RequestInv, AnsweredInv
      <4> QED BY <1>8, <1>9, <3>1, <4>1, <4>2
    <3>2. CASE q # k
      BY <1>8, <2>2, <2>3, <3>2 DEF RequestInv, AnsweredInv
    <3> QED BY <3>1, <3>2
  <2> QED BY <1>1, <2>1, <2>2, <2>3 DEF RequestInv, AnsweredInv
<1>12. ClaimInv'
  <2>1. ASSUME NEW g \in Handlers, NEW q \in PendingKeys, Writes(g)', PendingKey(g)' = q,
               pendingRecords'[q] # Null
        PROVE  pendingRecords'[q].inFlight = g
    <3>1. Writes(g) /\ PendingKey(g) = q
      BY <1>2, <1>5, <2>1, OthersDeliver
    <3> QED BY <1>1, <2>1, <3>1 DEF RequestInv, ClaimInv
  <2>2. ASSUME NEW g \in Handlers, NEW q \in PendingKeys, Owns(g, q)
        PROVE  Owns(g, q)'
    BY <1>1, <1>2, <1>6, <2>2, OthersDeliver DEF Owns, SameDelivery
  <2>3. \A q \in PendingKeys : Claimed(q)' => \E g \in Handlers : Owns(g, q)'
    BY <1>7, <2>2, ClaimsKept DEF RequestInv
  <2>4. AnnouncedRequestIsAnswerable'
    BY <1>1, <1>2, <1>7, <1>8, AnswerableKept DEF RequestInv
  <2> QED BY <2>1, <2>3, <2>4 DEF ClaimInv
<1> QED BY <1>10, <1>11, <1>12 DEF RequestInv

-----------------------------------------------------------------------------
(* The hook                                                                *)

\* The hook touches no handler, and none delivers a response to its request.
LEMMA HookFrame ==
  ASSUME RuntimeInv, SeenInv, HookStep
  PROVE  /\ handlers' = handlers /\ turns' = turns
         /\ \A g \in Handlers : SameDelivery(g)
         /\ hook.pc # "idle" => /\ hook.request \in PendingIds
                                /\ Seen(HookKey) /\ HookKey \in PendingKeys
                                /\ HookKey[2] = hook.request
                                /\ \A k \in PendingKeys : Seen(k) /\ k[2] = hook.request
                                                            => k = HookKey
         /\ \A g \in Handlers : Responds(g) => /\ PendingKey(g) \in PendingKeys
                                               /\ PendingKey(g)[2] = RequestOf(g)
                                               /\ RequestOf(g) \in PendingIds
                                               /\ Offered(PendingKey(g))
<1>1. handlers' = handlers /\ turns' = turns
  BY ServiceFrame DEF ServiceMoves
<1>2. \A g \in Handlers : SameDelivery(g)
  BY <1>1 DEF SameDelivery
<1>3. ASSUME hook.pc # "idle"
      PROVE  /\ hook.request \in PendingIds
             /\ Seen(HookKey) /\ HookKey \in PendingKeys /\ HookKey[2] = hook.request
             /\ \A k \in PendingKeys : Seen(k) /\ k[2] = hook.request => k = HookKey
  <2>1. hook.request \in PendingIds /\ Asked(hook.request)
    BY <1>3, ServiceFacts DEF SeenInv
  <2>2. RequestScope(hook.request) \in RunScopes
    BY <2>1, ServiceFacts DEF Asked
  <2>3. \A k \in PendingKeys : k = <<k[1], k[2]>>
    BY DEF PendingKeys
  <2> QED BY <2>1, <2>2, <2>3 DEF HookKey, Seen, PendingKeys
<1>4. \A g \in Handlers : Responds(g) => /\ PendingKey(g) \in PendingKeys
                                         /\ PendingKey(g)[2] = RequestOf(g)
                                         /\ RequestOf(g) \in PendingIds
                                         /\ Offered(PendingKey(g))
  BY RespondsFacts DEF SeenInv
<1> QED BY <1>1, <1>2, <1>3, <1>4

\* A claim keeps its owner, and a record the handler that writes for it.
LEMMA HookKeepsClaims ==
  ASSUME RuntimeInv, RequestInv, [RuntimeNext]_runtimeVars, HookStep,
         \A k \in PendingKeys :
           /\ Claimed(k)' => Claimed(k)
           /\ \/ pendingRecords'[k] = pendingRecords[k]
              \/ pendingRecords'[k] = Null /\ ~HasPending(k)
              \/ /\ pendingRecords'[k] # Null
                 /\ \A g \in Handlers : ~(Writes(g) /\ PendingKey(g) = k),
         AnnouncedRequestIsAnswerable'
  PROVE  ClaimInv'
<1>1. \A g \in Handlers : SameDelivery(g)
  BY HookFrame DEF RequestInv
<1>2. ASSUME NEW g \in Handlers, NEW k \in PendingKeys, Writes(g)', PendingKey(g)' = k,
             pendingRecords'[k] # Null
      PROVE  pendingRecords'[k].inFlight = g
  <2>1. Writes(g) /\ PendingKey(g) = k
    BY <1>1, <1>2, OthersDeliver
  <2> QED BY <1>2, <2>1 DEF RequestInv, ClaimInv
<1>3. ASSUME NEW g \in Handlers, NEW k \in PendingKeys, Owns(g, k), Claimed(k)'
      PROVE  Owns(g, k)'
  <2>1. HasPending(k)
    BY <1>3 DEF Claimed
  <2>2. pendingRecords[k] # Null => pendingRecords'[k] # Null
    BY <2>1
  <2> QED BY <1>1, <1>3, <2>2, OthersDeliver DEF Owns, SameDelivery
<1>4. \A k \in PendingKeys : Claimed(k)' => \E g \in Handlers : Owns(g, k)'
  BY <1>3, ClaimsKept DEF RequestInv
<1> QED BY <1>2, <1>4 DEF ClaimInv

\* The hook answers no request for a client.
LEMMA HookKeepsAnswers ==
  ASSUME RuntimeInv, RequestInv, [RuntimeNext]_runtimeVars, HookStep,
         \A g \in Handlers : PastWrite(g) =>
           (requests'[RequestOf(g)].state = "hooked" => requests[RequestOf(g)].state = "hooked"),
         \A k \in PendingKeys : Resolved(k)' = Resolved(k) /\ Created(k) \subseteq Created(k)'
  PROVE  AnsweredInv'
<1>1. \A g \in Handlers : (Answers(g)' => Answers(g)) /\ (PastWrite(g)' => PastWrite(g))
  BY HookFrame, OthersDeliver DEF RequestInv
<1> QED BY <1>1, AnsweredKept DEF RequestInv

\* A request that arrives is new to everybody.
LEMMA HookLooksStep ==
  ASSUME RuntimeInv, RequestInv, [RuntimeNext]_runtimeVars, HookLooks
  PROVE  RequestInv'
<1>1. PICK r \in PendingIds :
        /\ hook.pc = "idle" /\ requests[r].state = "sent" /\ DropStaleRecords
        /\ \/ /\ requests' = [requests EXCEPT ![r].state = "hooked"]
              /\ hook' = [pc |-> "register", request |-> r]
           \/ requests' = [requests EXCEPT ![r].state = "refused"] /\ hook' = hook
  BY DEF HookLooks
<1>2. /\ requests \in [PendingIds -> Requests] /\ TypeOK /\ now \in Nat
      /\ HookStep
  BY CodexFacts DEF RuntimeInv, RuntimeTypeOK, TypeOK, HookStep
<1>3. /\ now' = now /\ log' = log
      /\ \A k \in PendingKeys :
           /\ pending'[k] = pending[k] \/ pending'[k] = CleanedPending[k]
           /\ \/ pendingRecords'[k] = pendingRecords[k]
              \/ pendingRecords'[k] = Null /\ ~HasPending(k)
  BY <1>1, RequestsLeftAlone DEF DropStaleRecords, Refused, eventVars, vars
<1>4. \A k \in PendingKeys : Created(k)' = Created(k) /\ Resolved(k)' = Resolved(k)
  BY <1>3, NothingToldOfRequests
<1>5. \A q \in PendingIds : q # r => requests'[q] = requests[q]
  BY <1>1, <1>2
<1>6. \A g \in Handlers : SameDelivery(g)
  BY <1>2, HookFrame DEF RequestInv
<1>7. CASE requests' = [requests EXCEPT ![r].state = "refused"] /\ hook' = hook
  <2>1. \A q \in PendingIds : requests'[q].state = "hooked" => requests[q].state = "hooked"
    BY <1>2, <1>5, <1>7 DEF Requests
  <2>2. Quiet
    BY <1>2, <1>3, <1>4, <1>6, <1>7, <2>1 DEF Quiet
  <2> QED BY <2>2, QuietStep
<1>8. CASE /\ requests' = [requests EXCEPT ![r].state = "hooked"]
           /\ hook' = [pc |-> "register", request |-> r]
  <2>1. \A k \in PendingKeys : Seen(k) => Seen(k)' /\ k[2] # r
    BY <1>1, SeenStays DEF Seen, Asked
  <2>2. \A q, pcs : q # r => ~HookAt(q, pcs)'
    BY <1>8 DEF HookAt
  <2>3. \A k \in PendingKeys : Offered(k) => Offered(k)'
    BY <1>4, <2>1, <2>2 DEF Offered
  <2>4. \A k \in PendingKeys : /\ HasPending(k)' => HasPending(k)
                               /\ pending'[k] # Null => pending[k] # Null
                               /\ Claimed(k)' => Claimed(k)
    BY <1>2, <1>3, PendingFades DEF Claimed
  <2>5. SeenInv'
    <3>1. \A k \in PendingKeys : pending'[k] # Null => Seen(k)' /\ ~HookAt(k[2], {"register"})'
      BY <2>1, <2>2, <2>4 DEF RequestInv, SeenInv
    <3>2. \A k \in PendingKeys :
            Created(k)' # {} => Seen(k)' /\ ~HookAt(k[2], {"register", "announce"})'
      BY <1>4, <2>1, <2>2 DEF RequestInv, SeenInv
    <3>3. \A k \in PendingKeys : pendingRecords'[k] # Null => Offered(k)'
      BY <1>3, <2>3 DEF RequestInv, SeenInv
    <3>4. \A g \in Handlers, k \in PendingKeys : Responds(g)' /\ PendingKey(g)' = k => Offered(k)'
      BY <1>6, <2>3, OthersDeliver DEF RequestInv, SeenInv
    <3>5. hook'.pc = "register" /\ Asked(hook.request)'
      BY <1>2, <1>8 DEF Asked, Requests
    <3> QED BY <3>1, <3>2, <3>3, <3>4, <3>5 DEF SeenInv
  <2>6. AnsweredInv'
    <3>1. ASSUME NEW g \in Handlers, PastWrite(g)
          PROVE  RequestOf(g) \in PendingIds /\ RequestOf(g) # r
      BY <1>2, <2>1, <3>1, HookFrame, Labels DEF RequestInv, Offered
    <3> QED BY <1>2, <1>4, <1>5, <3>1, HookKeepsAnswers
  <2>7. AnnouncedRequestIsAnswerable'
    <3> SUFFICES ASSUME NEW k \in PendingKeys, requests'[k[2]].state = "hooked",
                        Created(k)' # {}, HasPending(k)'
                 PROVE  pendingRecords'[k] # Null
      BY AnswerableAfter
    <3>1. Created(k) # {} /\ k[2] # r
      BY <1>4, <2>1 DEF RequestInv, SeenInv
    <3>2. requests[k[2]].state = "hooked" /\ HasPending(k)
      BY <1>5, <2>4, <3>1 DEF PendingKeys
    <3>3. pendingRecords[k] # Null
      BY <1>1, <3>1, <3>2, AnswerableNow DEF RequestInv, ClaimInv
    <3> QED BY <1>3, <3>2, <3>3
  <2>8. ClaimInv'
    BY <1>2, <1>3, <2>4, <2>7, HookKeepsClaims
  <2> QED BY <2>5, <2>6, <2>8 DEF RequestInv
<1> QED BY <1>1, <1>7, <1>8

\* The request is registered before it is announced and announced before it is
\* tracked: what follows the hook has not met it yet.
LEMMA HookSeenStep ==
  ASSUME RuntimeInv, RequestInv, [RuntimeNext]_runtimeVars, HookStep, hook.pc # "idle",
         hook'.pc # "register",
         hook' = [hook EXCEPT !.pc = hook'.pc] \/ hook'.pc = "idle",
         \A k \in PendingKeys :
           /\ pending'[k] # Null => pending[k] # Null \/ k = HookKey
           /\ Created(k) \subseteq Created(k)'
           /\ Created(k)' # {} =>
                \/ Created(k) # {}
                \/ k = HookKey /\ hook.pc = "announce" /\ hook'.pc = "track"
           /\ pendingRecords'[k] # Null =>
                \/ pendingRecords[k] # Null
                \/ k = HookKey /\ hook.pc = "track" /\ hook'.pc = "idle",
         hook'.pc = "announce" => hook.pc = "register",
         hook'.pc = "track" =>
           /\ hook.pc = "announce"
           /\ \A k \in PendingKeys : k = HookKey => Created(k)' # {}
  PROVE  SeenInv'
<1>1. /\ handlers' = handlers /\ turns' = turns /\ \A g \in Handlers : SameDelivery(g)
      /\ hook.request \in PendingIds /\ Seen(HookKey) /\ HookKey \in PendingKeys
      /\ HookKey[2] = hook.request
      /\ \A k \in PendingKeys : Seen(k) /\ k[2] = hook.request => k = HookKey
  BY HookFrame DEF RequestInv
<1>2. \A k \in PendingKeys : Seen(k) => Seen(k)'
  BY SeenStays
<1>3. hook'.pc # "idle" => hook'.request = hook.request
  BY ServiceFacts
<1>4. \A q, pcs : q # hook.request => (HookAt(q, pcs)' => hook'.pc = "idle")
  BY <1>3 DEF HookAt
<1>5. \A k \in PendingKeys : pending'[k] # Null => Seen(k)' /\ ~HookAt(k[2], {"register"})'
  BY <1>1, <1>2 DEF RequestInv, SeenInv, HookAt
<1>6. ASSUME NEW k \in PendingKeys, Created(k)' # {}
      PROVE  Seen(k)' /\ ~HookAt(k[2], {"register", "announce"})'
  <2>1. Seen(k)
    BY <1>1, <1>6 DEF RequestInv, SeenInv
  <2>2. CASE hook'.pc = "announce"
    <3>1. hook.pc = "register" /\ Created(k) # {}
      BY <1>6, <2>2
    <3>2. k[2] # hook.request
      BY <3>1 DEF RequestInv, SeenInv, HookAt
    <3> QED BY <1>2, <1>3, <2>1, <2>2, <3>2 DEF HookAt
  <2>3. CASE hook'.pc # "announce"
    BY <1>2, <2>1, <2>3 DEF HookAt
  <2> QED BY <2>2, <2>3
<1>7. ASSUME NEW k \in PendingKeys, Offered(k)
      PROVE  Offered(k)'
  <2>1. hook.pc \in {"register", "announce", "track"}
    BY ServiceFacts
  <2>2. k[2] # hook.request
    BY <1>7, <2>1 DEF Offered, HookAt
  <2>3. Created(k)' # {} /\ Seen(k)'
    BY <1>2, <1>7 DEF Offered
  <2>4. ~HookAt(k[2], {"register", "announce", "track"})'
    BY <1>3, <2>2 DEF HookAt
  <2> QED BY <2>3, <2>4 DEF Offered
<1>8. ASSUME NEW k \in PendingKeys, pendingRecords'[k] # Null
      PROVE  Offered(k)'
  <2>1. CASE pendingRecords[k] # Null
    BY <1>7, <2>1 DEF RequestInv, SeenInv
  <2>2. CASE k = HookKey /\ hook.pc = "track" /\ hook'.pc = "idle"
    <3>1. Created(k)' # {} /\ Seen(k)'
      BY <1>1, <1>2, <2>2 DEF RequestInv, SeenInv
    <3> QED BY <2>2, <3>1 DEF Offered, HookAt
  <2> QED BY <1>8, <2>1, <2>2
<1>9. \A g \in Handlers, k \in PendingKeys : Responds(g)' /\ PendingKey(g)' = k => Offered(k)'
  BY <1>1, <1>7, OthersDeliver DEF RequestInv, SeenInv
<1>10. hook'.pc # "idle" => Asked(hook.request)'
  BY <1>1, <1>3, RequestsKept DEF Seen, HookKey, Asked
<1>11. ASSUME NEW k \in PendingKeys, hook'.pc = "track", HookKey' = k
       PROVE  Created(k)' # {}
  <2>1. RequestScope(hook.request)' = RequestScope(hook.request)
    BY <1>1, <1>3, <1>11, RequestsKept DEF Seen, HookKey, RequestScope
  <2> QED BY <1>3, <1>11, <2>1 DEF HookKey
<1> QED BY <1>5, <1>6, <1>8, <1>9, <1>10, <1>11 DEF SeenInv

\* The request becomes known to the store, or is refused.
LEMMA HookRegistersStep ==
  ASSUME RuntimeInv, RequestInv, [RuntimeNext]_runtimeVars, HookRegisters
  PROVE  RequestInv'
<1> DEFINE r == hook.request
<1>1. /\ HookStep /\ TypeOK /\ requests \in [PendingIds -> Requests] /\ now \in Nat
      /\ hook.pc = "register" /\ pendingRecords' = pendingRecords
  BY CodexFacts DEF RuntimeInv, RuntimeTypeOK, TypeOK, HookStep, HookRegisters
<1>2. /\ r \in PendingIds /\ HookKey \in PendingKeys /\ HookKey[2] = r
      /\ \A k \in PendingKeys : Created(k) # {} => k[2] # r
  BY <1>1, HookFrame DEF RequestInv, SeenInv, HookAt
<1>3. /\ now' = now /\ log' = log
      /\ \/ /\ requests' = requests /\ hook' = [hook EXCEPT !.pc = "announce"]
            /\ pending' = RegisteredPending(RequestScope(r), r)
         \/ /\ hook' = NoRequest
            /\ requests' = [requests EXCEPT ![r].state = IF @ = "hooked" THEN "refused" ELSE @]
            /\ pending' \in {pending, CleanedPending}
  BY RequestsLeftAlone DEF HookRegisters, RegisterPendingForActiveRun, Refused, eventVars
<1>4. \A k \in PendingKeys : Created(k)' = Created(k) /\ Resolved(k)' = Resolved(k)
  BY <1>3, NothingToldOfRequests
<1>5. ASSUME NEW k \in PendingKeys
      PROVE  \/ pending'[k] = pending[k] \/ pending'[k] = CleanedPending[k]
             \/ k = HookKey /\ pending'[k].status = "active"
  <2>1. CASE pending' = RegisteredPending(RequestScope(r), r)
    <3>1. CASE k = HookKey
      BY <1>2, <2>1, <3>1 DEF RegisteredPending, CleanedPending, HookKey
    <3>2. CASE k # HookKey
      BY <2>1, <3>2 DEF RegisteredPending, CleanedPending, HookKey
    <3> QED BY <3>1, <3>2
  <2> QED BY <1>3, <2>1
<1>6. \A k \in PendingKeys : /\ Claimed(k)' => Claimed(k)
                             /\ k # HookKey => /\ HasPending(k)' => HasPending(k)
                                               /\ pending'[k] # Null => pending[k] # Null
  <2> SUFFICES ASSUME NEW k \in PendingKeys
               PROVE  /\ Claimed(k)' => Claimed(k)
                      /\ k # HookKey => /\ HasPending(k)' => HasPending(k)
                                        /\ pending'[k] # Null => pending[k] # Null
    OBVIOUS
  <2>1. CASE pending'[k] = pending[k] \/ pending'[k] = CleanedPending[k]
    BY <1>1, <1>3, <2>1, PendingFades DEF Claimed
  <2>2. CASE k = HookKey /\ pending'[k].status = "active"
    BY <2>2 DEF Claimed
  <2> QED BY <1>5, <2>1, <2>2
<1>7. \A q \in PendingIds : requests'[q].state = "hooked" => requests[q].state = "hooked"
  <2>1. CASE requests' = requests
    BY <2>1
  <2>2. CASE requests' = [requests EXCEPT ![r].state = IF @ = "hooked" THEN "refused" ELSE @]
    BY <1>1, <1>2, <2>2 DEF Requests
  <2> QED BY <1>3, <2>1, <2>2
<1>8. /\ hook'.pc \in {"announce", "idle"}
      /\ hook' = [hook EXCEPT !.pc = hook'.pc] \/ hook'.pc = "idle"
  <2>1. hook \in [pc : {"idle", "register", "announce", "track"},
                  request : PendingIds \cup {Null}]
    BY ServiceFacts
  <2> QED BY <1>3, <2>1 DEF NoRequest
<1>9. SeenInv'
  BY <1>1, <1>4, <1>6, <1>8, HookSeenStep
<1>10. AnsweredInv'
  <2>1. \A g \in Handlers : PastWrite(g) => RequestOf(g) \in PendingIds
    BY Labels, RespondsFacts
  <2> QED BY <1>1, <1>4, <1>7, <2>1, HookKeepsAnswers
<1>11. AnnouncedRequestIsAnswerable'
  <2> SUFFICES ASSUME NEW k \in PendingKeys, requests'[k[2]].state = "hooked",
                      Created(k)' # {}, HasPending(k)'
               PROVE  pendingRecords'[k] # Null
    BY AnswerableAfter
  <2>1. k[2] \in PendingIds /\ Created(k) # {} /\ k # HookKey
    BY <1>2, <1>4 DEF PendingKeys
  <2>2. pendingRecords[k] # Null \/ hook = [pc |-> "track", request |-> k[2]]
    BY <1>6, <1>7, <2>1, AnswerableNow DEF RequestInv, ClaimInv
  <2> QED BY <1>1, <2>2
<1>12. ClaimInv'
  BY <1>1, <1>6, <1>11, HookKeepsClaims
<1> QED BY <1>9, <1>10, <1>12 DEF RequestInv

\* The clients are told; the record follows before the hook looks at another.
LEMMA HookAnnouncesStep ==
  ASSUME RuntimeInv, RequestInv, [RuntimeNext]_runtimeVars, HookAnnounces
  PROVE  RequestInv'
<1> DEFINE r == hook.request
           s == RequestScope(r)
           kind == <<"pending_created", r>>
<1>1. /\ HookStep /\ TypeOK /\ now \in Nat /\ hook.pc = "announce"
      /\ pendingRecords' = pendingRecords /\ requests' = requests
      /\ hook' = [hook EXCEPT !.pc = "track"] /\ AppendEvent(s, kind, 1)
      /\ hook \in [pc : {"idle", "register", "announce", "track"},
                   request : PendingIds \cup {Null}]
  BY ServiceFacts DEF RuntimeInv, RuntimeTypeOK, TypeOK, HookStep, HookAnnounces,
                      Unseen, codexVars
<1>2. /\ r \in PendingIds /\ s \in RunScopes
      /\ HookKey \in PendingKeys /\ HookKey[1] = s /\ HookKey[2] = r
      /\ hook'.pc = "track" /\ hook'.request = r
  BY <1>1, ServiceFacts, HookFrame DEF RequestInv, SeenInv, HookKey
<1>3. now' = now /\ pending' \in {pending, CleanedPending}
  BY <1>1, RequestsLeftAlone
<1>4. ASSUME NEW k \in PendingKeys
      PROVE  /\ Created(k) \subseteq Created(k)' /\ Resolved(k)' = Resolved(k)
             /\ k # HookKey => Created(k)' = Created(k)
             /\ k = HookKey => Created(k)' # {}
  <2>1. k[1] \in RunScopes /\ k = <<k[1], k[2]>>
    BY DEF PendingKeys
  <2>2. Resolved(k)' = Resolved(k)
    BY <1>1, <1>2, <2>1, AppendPositions DEF Resolved
  <2>3. CASE k = HookKey
    <3>1. Created(k)' = Created(k) \cup {Len(log[s]) + 1}
      BY <1>1, <1>2, <2>3, AppendPositions DEF Created
    <3> QED BY <2>2, <2>3, <3>1
  <2>4. CASE k # HookKey
    <3>1. ~(k[1] = s /\ <<"pending_created", k[2]>> = kind)
      BY <2>1, <2>4 DEF HookKey
    <3>2. Created(k)' = Created(k)
      BY <1>1, <1>2, <2>1, <3>1, AppendPositions DEF Created
    <3> QED BY <2>2, <2>4, <3>2
  <2> QED BY <2>3, <2>4
<1>5. \A k \in PendingKeys : /\ HasPending(k)' => HasPending(k)
                             /\ pending'[k] # Null => pending[k] # Null
                             /\ Claimed(k)' => Claimed(k)
  BY <1>1, <1>3, PendingFades DEF Claimed
<1> HIDE DEF r, s, kind
<1>6. SeenInv'
  BY <1>1, <1>2, <1>4, <1>5, HookSeenStep
<1>7. AnsweredInv'
  BY <1>1, <1>4, HookKeepsAnswers
<1>8. AnnouncedRequestIsAnswerable'
  <2> SUFFICES ASSUME NEW k \in PendingKeys, requests'[k[2]].state = "hooked",
                      Created(k)' # {}, HasPending(k)'
               PROVE  pendingRecords'[k] # Null \/ hook' = [pc |-> "track", request |-> k[2]]
    BY AnswerableAfter
  <2>1. CASE k = HookKey
    BY <1>1, <1>2, <2>1
  <2>2. CASE k # HookKey
    <3>1. pendingRecords[k] # Null \/ hook = [pc |-> "track", request |-> k[2]]
      BY <1>1, <1>4, <1>5, <2>2, AnswerableNow DEF RequestInv, ClaimInv
    <3> QED BY <1>1, <3>1
  <2> QED BY <2>1, <2>2
<1>9. ClaimInv'
  BY <1>1, <1>5, <1>8, HookKeepsClaims
<1> QED BY <1>6, <1>7, <1>9 DEF RequestInv

\* The record is new: no response to the request was under way.
LEMMA HookTracksStep ==
  ASSUME RuntimeInv, RequestInv, [RuntimeNext]_runtimeVars, HookTracks
  PROVE  RequestInv'
<1>1. /\ HookStep /\ hook.pc = "track" /\ hook' = NoRequest
      /\ UNCHANGED vars /\ requests' = requests
      /\ pendingRecords \in [PendingKeys -> TrackedRecords \cup {Null}]
  BY ServiceFacts DEF HookStep, HookTracks, Unseen, codexVars
<1>2. /\ HookKey \in PendingKeys /\ HookKey[2] = hook.request
      /\ \A k \in PendingKeys : Created(k) # {} /\ k[2] = hook.request => k = HookKey
  BY <1>1, HookFrame DEF RequestInv, SeenInv
<1>3. /\ pendingRecords'[HookKey] # Null
      /\ \A k \in PendingKeys : k # HookKey => pendingRecords'[k] = pendingRecords[k]
  <2>1. [inFlight |-> Null, responses |-> {}] # Null
    BY NullIsNothing DEF TrackedRecords
  <2> QED BY <1>1, <1>2, <2>1 DEF HookTracks
<1>4. \A k \in PendingKeys : /\ Created(k)' = Created(k) /\ Resolved(k)' = Resolved(k)
                             /\ pending'[k] = pending[k]
                             /\ HasPending(k)' <=> HasPending(k)
  BY <1>1 DEF vars, runVars, eventVars, cleanedVars, Created, Resolved, Positions, HasPending,
              CleanedPending, CleanedPendingRecord
<1>5. ASSUME NEW g \in Handlers PROVE ~(Writes(g) /\ PendingKey(g) = HookKey)
  <2>1. Writes(g) => Offered(PendingKey(g))
    BY Labels, HookFrame, <1>1 DEF RequestInv
  <2> QED BY <1>1, <1>2, <2>1 DEF Offered, HookAt
<1>6. SeenInv'
  BY <1>1, <1>3, <1>4, HookSeenStep DEF NoRequest
<1>7. AnsweredInv'
  BY <1>1, <1>4, HookKeepsAnswers
<1>8. AnnouncedRequestIsAnswerable'
  <2> SUFFICES ASSUME NEW k \in PendingKeys, requests'[k[2]].state = "hooked",
                      Created(k)' # {}, HasPending(k)'
               PROVE  pendingRecords'[k] # Null
    BY AnswerableAfter
  <2>1. pendingRecords[k] # Null \/ hook = [pc |-> "track", request |-> k[2]]
    BY <1>1, <1>4, AnswerableNow DEF RequestInv, ClaimInv
  <2>2. hook = [pc |-> "track", request |-> k[2]] => k = HookKey
    BY <1>2, <1>4
  <2> QED BY <1>3, <2>1, <2>2
<1>9. ClaimInv'
  <2>1. \A k \in PendingKeys : Claimed(k)' => Claimed(k)
    BY <1>4 DEF Claimed
  <2>2. \A k \in PendingKeys : \/ pendingRecords'[k] = pendingRecords[k]
                               \/ /\ pendingRecords'[k] # Null
                                  /\ \A g \in Handlers : ~(Writes(g) /\ PendingKey(g) = k)
    BY <1>3, <1>5
  <2> QED BY <1>1, <1>8, <2>1, <2>2, HookKeepsClaims
<1> QED BY <1>6, <1>7, <1>9 DEF RequestInv

-----------------------------------------------------------------------------
(* What the runtime promises about requests                                *)

\* Every step of the runtime keeps what is known of requests.
LEMMA RequestStep ==
  ASSUME RuntimeInv, RequestInv, [RuntimeNext]_runtimeVars
  PROVE  RequestInv'
<1>1. ASSUME NEW h \in Handlers, HandlerStep(h)
      PROVE  RequestInv'
  <2>1. CASE ~Responding(h)
    BY <1>1, <2>1, OtherStepsQuiet, QuietStep
  <2>2. CASE Responding(h)
    BY <2>2, ClaimPendingStep, WriteStep, FinishStep, SettleStep, AnnounceStep DEF Responding
  <2> QED BY <2>1, <2>2
<1>2. CASE HookStep
  BY <1>2, HookLooksStep, HookRegistersStep, HookAnnouncesStep, HookTracksStep DEF HookStep
<1>3. CASE CodexMoves \/ ConsumerStep \/ TimePasses \/ UNCHANGED runtimeVars
  BY <1>3, OthersQuiet, QuietStep
<1> QED BY <1>1, <1>2, <1>3, NextMoves DEF ServiceMoves

\* Nothing is known of requests at first.
LEMMA RequestInit ==
  ASSUME RuntimeInit
  PROVE  RequestInv
<1>1. /\ hook.pc = "idle"
      /\ \A k \in PendingKeys : /\ pending[k] = Null /\ pendingRecords[k] = Null
                                /\ Created(k) = {} /\ Resolved(k) = {}
  BY DEF RuntimeInit, Init, PendingKeys, Created, Resolved, Positions
<1>2. ASSUME NEW g \in Handlers
      PROVE  ~Responds(g) /\ ~Writes(g) /\ ~PastWrite(g) /\ ~Answers(g)
  <2>1. PICK f \in Assignments : handlers = [h \in Handlers |-> FreshHandler(f[h])]
    BY DEF RuntimeInit
  <2>2. handlers[g].pc \in {"readThread", "done", "reserve"}
    BY <2>1 DEF FreshHandler, FirstLabel
  <2> QED BY <2>2 DEF Responds, Writes, PastWrite, Answers, Delivering
<1>3. SeenInv
  BY <1>1, <1>2 DEF SeenInv
<1>4. AnsweredInv
  BY <1>1, <1>2 DEF AnsweredInv
<1>5. AnnouncedRequestIsAnswerable
  <2>1. \A s \in RunScopes, r \in PendingIds : Positions(s, <<"pending_created", r>>) = {}
    BY DEF RuntimeInit, Init, Positions
  <2> QED BY <2>1 DEF AnnouncedRequestIsAnswerable
<1>6. ClaimInv
  BY <1>1, <1>2, <1>5 DEF ClaimInv, Claimed
<1> QED BY <1>3, <1>4, <1>6 DEF RequestInv

\* The three invariants below are one argument: each step of the hook, of a
\* response and of cleanup keeps what all of them say.
THEOREM RequestInvHolds == RuntimeSpec => []RequestInv
<1>1. RuntimeInit => RequestInv
  BY RequestInit
<1>2. RuntimeInv /\ RequestInv /\ [RuntimeNext]_runtimeVars => RequestInv'
  BY RequestStep
<1> QED BY <1>1, <1>2, RuntimeInvHolds, PTL DEF RuntimeSpec

\* A claim is never stuck: while its deadline lasts, the response that claimed
\* a request is still being delivered, so nobody is refused for a dead one.
THEOREM ClaimsOwned == RuntimeSpec => []ClaimHasOwner
<1>1. ASSUME RuntimeInv, RequestInv
      PROVE  ClaimHasOwner
  <2> SUFFICES ASSUME NEW k \in PendingKeys, pending[k] # Null,
                      pending[k].status = "claimed", now <= pending[k].expiresAt
               PROVE  \E h \in Handlers :
                        /\ handlers[h].pc \in {"write", "finish", "unclaim", "resolve"}
                        /\ PendingKey(h) = k
    BY DEF ClaimHasOwner
  <2>1. pending[k] \in PendingRecords /\ now \in Nat
    BY <1>1 DEF RuntimeInv, RuntimeTypeOK, TypeOK
  <2>2. CleanedPending[k] = pending[k]
    BY <2>1 DEF CleanedPending, CleanedPendingRecord, PendingRecords, Unresolved
  <2>3. Claimed(k)
    BY <2>2 DEF Claimed, HasPending, Unresolved
  <2> QED BY <1>1, <2>3 DEF RequestInv, ClaimInv, Owns, Writes
<1> QED BY <1>1, RuntimeInvHolds, RequestInvHolds, PTL

\* Clients are told that a request is resolved at most once, after they were
\* told of the request, and only if the app server really got the answer.
THEOREM ResolutionsAnswered == RuntimeSpec => []ResolvedMeansAnswered
<1>1. ASSUME RequestInv
      PROVE  ResolvedMeansAnswered
  <2> SUFFICES ASSUME NEW s \in RunScopes, NEW r \in PendingIds,
                      Positions(s, <<"pending_resolved", r>>) # {}
               PROVE  /\ requests[r].state = "answered"
                      /\ Cardinality(Positions(s, <<"pending_resolved", r>>)) = 1
                      /\ \A j \in Positions(s, <<"pending_resolved", r>>) :
                           \E i \in Positions(s, <<"pending_created", r>>) : i < j
    BY DEF ResolvedMeansAnswered
  <2> DEFINE k == <<s, r>>
  <2>1. k \in PendingKeys /\ k[1] = s /\ k[2] = r
    BY DEF PendingKeys
  <2>2. /\ Resolved(k) = Positions(s, <<"pending_resolved", r>>)
        /\ Created(k) = Positions(s, <<"pending_created", r>>)
    BY <2>1 DEF Resolved, Created
  <2>3. /\ requests[r].state = "answered"
        /\ \A i, j \in Resolved(k) : i = j
        /\ \A j \in Resolved(k) : \E i \in Created(k) : i < j
    BY <1>1, <2>1, <2>2 DEF RequestInv, AnsweredInv
  <2>4. PICK i : Resolved(k) = {i}
    BY <2>2, <2>3
  <2> QED BY <2>2, <2>3, <2>4, FS_Singleton
<1> QED BY <1>1, RequestInvHolds, PTL

\* A request clients know of and the app server still waits for can be answered:
\* the store and Service.pendingRecords, under different locks, agree on it.
THEOREM RequestsAnswerable == RuntimeSpec => []AnnouncedRequestIsAnswerable
<1>1. RequestInv => AnnouncedRequestIsAnswerable
  BY DEF RequestInv, ClaimInv
<1> QED BY <1>1, RequestInvHolds, PTL
=============================================================================
