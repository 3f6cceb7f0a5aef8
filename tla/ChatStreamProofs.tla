--------------------------- MODULE ChatStreamProofs ---------------------------
(***************************************************************************)
(* Theorems of ChatStream, for every value of its constants: what a stream *)
(* has sent is a segment of its run's log, whatever came through the       *)
(* replay and what through the channel, and a stream that ended by itself  *)
(* says why.                                                               *)
(***************************************************************************)
EXTENDS ChatStream, ChatRuntimeProofs

LogOf(i) == log[streams[i].scope]

\* A part of a log: what it has before it.
SitsAt(part, events, n) ==
  /\ n + Len(part) <= Len(events)
  /\ \A j \in 1..Len(part) : part[j] = events[n + j]

\* The log says how the run ended.
Ended(s) == \E j \in DOMAIN log[s] : Ends(log[s][j])

\* Whoever is about to complete a run has said so in its log.
Telling  == {"reconcileComplete", "complete"}
EndsTold == /\ \A h \in Handlers : handlers[h].pc \in Telling => Ended(RunScope(h))
            /\ consumer.pc = "complete" => Ended(ConsumerScope)

-----------------------------------------------------------------------------
(* What the chat service does to the logs and the subscribers              *)

AppendsAnEvent  == \E s \in RunScopes, kind \in EventKinds : AppendEvent(s, kind, 1)
CompletesARun   == \E s, state : /\ CompleteRun(s, state)
                                 /\ s[2] \in Turns => Ended(s)
LeavesLogsAlone == UNCHANGED <<subscribers, log, nextEventID>>

\* The service subscribes nobody: it appends events, completes runs, or leaves
\* logs and subscribers alone.
StoresForStreams == AppendsAnEvent \/ CompletesARun \/ LeavesLogsAlone

\* The operations of the store that leave logs and subscribers alone.
LEMMA LogsLeftAlone ==
  ASSUME \/ Refused \/ UNCHANGED vars
         \/ \E i : \/ ReserveActiveRunCapacity(i) \/ ReleaseActiveRunCapacity(i)
                   \/ ReserveIdempotency(i) \/ CompleteIdempotency(i) \/ ReleaseIdempotency(i)
                   \/ \E s : StartRunWithReservation(i, s)
         \/ \E s : \/ StartRun(s) \/ RestoreRunStateAfterPending(s)
                   \/ \E x : \/ UpdateRunState(s, x) \/ BindRunID(s, x)
                             \/ RegisterPendingForActiveRun(s, x)
         \/ \E k : \/ ClaimPendingResolution(k) \/ ReleasePendingResolutionClaim(k)
                   \/ ResolvePending(k)
  PROVE  LeavesLogsAlone
BY DEF Refused, ReserveActiveRunCapacity, ReleaseActiveRunCapacity, ReserveIdempotency,
       CompleteIdempotency, ReleaseIdempotency, UpdateIdempotency, StartRunWithReservation,
       StartRun, RestoreRunStateAfterPending, UpdateRunState, BindRunID,
       RegisterPendingForActiveRun, ClaimPendingResolution, ReleasePendingResolutionClaim,
       ResolvePending, UpdatePending, eventVars, vars, LeavesLogsAlone

\* A handler that appends an event appends it to the log of its run.
LEMMA AppendingHandler ==
  ASSUME RuntimeInv, NEW h \in Handlers,
         AnnounceRun(h) \/ ReconcileAppend(h) \/ AnnounceInterrupt(h) \/ AnnounceResolved(h)
  PROVE  AppendsAnEvent /\ RunScope(h) \in RunScopes
<1>1. RunScope(h) \in RunScopes
  <2>1. handlers[h].pc \in OnRun \/ handlers[h].cmd.op = "InterruptChatRun"
    BY HandlerFacts DEF AnnounceRun, ReconcileAppend, AnnounceInterrupt, AnnounceResolved,
                        OnRun, LabelsOf, Ops
  <2>2. handlers[h].cmd.op = "InterruptChatRun" => RunScope(h) \in RunScopes
    BY HandlerFacts, RunsCover DEF Agrees, Validated, RunScope, RunScopes
  <2> QED BY <2>1, <2>2, HandlerFacts
<1>2. CASE AnnounceRun(h) \/ ReconcileAppend(h)
  <2>1. handlers[h].state \in RunStates
    BY <1>2, HandlerFacts DEF AnnounceRun, ReconcileAppend, Agrees, Storing, Ending, RunStates
  <2>2. <<"status", handlers[h].state>> \in EventKinds
    BY <2>1, KindsCover DEF Statuses
  <2> QED BY <1>1, <1>2, <2>2 DEF AnnounceRun, ReconcileAppend, AppendsAnEvent
<1>3. CASE AnnounceInterrupt(h)
  <2>1. <<"status", "interrupting">> \in EventKinds
    BY KindsCover DEF Statuses, RunStates, LiveStates
  <2> QED BY <1>1, <1>3, <2>1 DEF AnnounceInterrupt, AppendsAnEvent
<1>4. CASE AnnounceResolved(h)
  <2>1. handlers[h].cmd.op = "RespondChatPending"
    BY <1>4, HandlerFacts DEF AnnounceResolved, LabelsOf, Ops
  <2>2. handlers[h].cmd.request \in PendingIds
    BY <2>1, HandlerFacts DEF Agrees, Validated
  <2>3. <<"pending_resolved", handlers[h].cmd.request>> \in EventKinds
    BY <2>2, KindsCover DEF Resolutions
  <2> QED BY <1>1, <1>4, <2>3 DEF AnnounceResolved, AppendsAnEvent
<1> QED BY <1>2, <1>3, <1>4

\* A handler that completes a run has said so, unless the run has no turn yet.
LEMMA CompletingHandler ==
  ASSUME RuntimeInv, EndsTold, NEW h \in Handlers,
         ReconcileComplete(h) \/ CompleteRecovered(h) \/ AbandonRun(h)
  PROVE  CompletesARun \/ LeavesLogsAlone
<1>1. CASE ReconcileComplete(h) \/ CompleteRecovered(h)
  <2>1. Ended(RunScope(h))
    BY <1>1 DEF EndsTold, Telling, ReconcileComplete, CompleteRecovered
  <2>2. \/ CompleteRun(RunScope(h), handlers[h].state)
        \/ UNCHANGED vars
    BY <1>1 DEF ReconcileComplete, CompleteRecovered
  <2> QED BY <2>1, <2>2, LogsLeftAlone DEF CompletesARun
<1>2. CASE AbandonRun(h)
  <2>1. handlers[h].cmd.op = "RunChatTurn"
    BY <1>2, HandlerFacts DEF AbandonRun, LabelsOf, Ops
  <2>2. handlers[h].cmd.key \in Keys
    BY <2>1, HandlerFacts DEF Agrees, Validated
  <2>3. Provisional(h)[2] \notin Turns
    BY <2>2, RunsCover DEF Provisional
  <2>4. CompleteRun(Provisional(h), "failed") \/ UNCHANGED vars
    BY <1>2 DEF AbandonRun
  <2> QED BY <2>3, <2>4, LogsLeftAlone DEF CompletesARun
<1> QED BY <1>1, <1>2

LEMMA HandlerStores ==
  ASSUME RuntimeInv, EndsTold, NEW h \in Handlers, HandlerStep(h)
  PROVE  StoresForStreams
<1>1. CASE \/ AnnounceRun(h) \/ ReconcileAppend(h) \/ AnnounceInterrupt(h)
           \/ AnnounceResolved(h)
  BY <1>1, AppendingHandler DEF StoresForStreams
<1>2. CASE ReconcileComplete(h) \/ CompleteRecovered(h) \/ AbandonRun(h)
  BY <1>2, CompletingHandler DEF StoresForStreams
<1>3. CASE \/ ReserveKey(h) \/ ReleaseKey(h) \/ RememberResult(h) \/ ReserveCapacity(h)
           \/ ReleaseCapacity(h) \/ InstallRun(h)
  BY <1>3, LogsLeftAlone DEF ReserveKey, ReleaseKey, RememberResult, ReserveCapacity,
                             ReleaseCapacity, InstallRun, StoresForStreams
<1>4. CASE \/ StartProvisionalRun(h) \/ BindRun(h) \/ MarkRunning(h) \/ MarkInterrupting(h)
           \/ RestoreRun(h)
  BY <1>4, LogsLeftAlone DEF StartProvisionalRun, BindRun, MarkRunning, MarkInterrupting,
                             RestoreRun, StoresForStreams
<1>5. CASE ClaimPending(h) \/ ReleaseClaim(h) \/ ResolveRequest(h)
  BY <1>5, LogsLeftAlone DEF ClaimPending, RefuseResponse, ReleaseClaim, ResolveRequest,
                             StoresForStreams
<1>6. CASE \/ ReportStatus(h) \/ Reconcile(h) \/ ReadThread(h) \/ SendTurn(h)
           \/ TurnAnswered(h) \/ TurnFails(h) \/ StartThread(h) \/ RecoverRead(h)
           \/ RecoverGivesUp(h) \/ ResumeThread(h) \/ LookRun(h) \/ SendInterrupt(h)
           \/ LookPending(h) \/ WriteResponse(h) \/ FinishResponse(h)
  <2>1. Refused \/ UNCHANGED vars
    BY <1>6 DEF ReportStatus, DropStaleRecords, Reconcile, ReadThread, SendTurn, TurnAnswered,
                TurnFails, StartThread, RecoverRead, RecoverGivesUp, ResumeThread, LookRun,
                SendInterrupt, LookPending, WriteResponse, FinishResponse, vars
  <2> QED BY <2>1, LogsLeftAlone DEF StoresForStreams
<1> QED BY <1>1, <1>2, <1>3, <1>4, <1>5, <1>6 DEF HandlerStep

LEMMA RuntimeStores ==
  ASSUME RuntimeInv, EndsTold, [RuntimeNext]_runtimeVars
  PROVE  StoresForStreams
<1>1. CASE \E h \in Handlers : HandlerStep(h)
  BY <1>1, HandlerStores
<1>2. CASE CodexMoves
  BY <1>2, CodexFrame DEF vars, LeavesLogsAlone, StoresForStreams
<1>3. CASE ConsumerStep
  <2>1. CASE ConsumeNotification
    BY <2>1, LogsLeftAlone DEF ConsumeNotification, StoresForStreams
  <2>2. CASE AppendNotification
    <3>1. ConsumerScope \in RunScopes /\ consumer.notification \in Notifications
      BY <2>2, ServiceFacts DEF AppendNotification
    <3>2. consumer.notification.kind \in EventKinds
      BY <3>1, KindsCover DEF Notifications
    <3> QED BY <2>2, <3>1, <3>2 DEF AppendNotification, AppendsAnEvent, StoresForStreams
  <2>3. CASE CompleteNotifiedRun
    <3>1. Ended(ConsumerScope)
      BY <2>3 DEF CompleteNotifiedRun, EndsTold
    <3>2. \/ CompleteRun(ConsumerScope, consumer.notification.kind[2])
          \/ UNCHANGED vars
      BY <2>3 DEF CompleteNotifiedRun
    <3> QED BY <3>1, <3>2, LogsLeftAlone DEF CompletesARun, StoresForStreams
  <2> QED BY <1>3, <2>1, <2>2, <2>3 DEF ConsumerStep
<1>4. CASE HookStep
  <2>1. CASE HookLooks
    BY <2>1, LogsLeftAlone DEF HookLooks, DropStaleRecords, StoresForStreams
  <2>2. CASE HookRegisters
    BY <2>2, LogsLeftAlone DEF HookRegisters, StoresForStreams
  <2>3. CASE HookAnnounces
    <3>1. RequestScope(hook.request) \in RunScopes /\ hook.request \in PendingIds
      BY <2>3, ServiceFacts DEF HookAnnounces
    <3>2. <<"pending_created", hook.request>> \in EventKinds
      BY <3>1, KindsCover DEF Creations
    <3> QED BY <2>3, <3>1, <3>2 DEF HookAnnounces, AppendsAnEvent, StoresForStreams
  <2>4. CASE HookTracks
    BY <2>4, LogsLeftAlone DEF HookTracks, StoresForStreams
  <2> QED BY <1>4, <2>1, <2>2, <2>3, <2>4 DEF HookStep
<1>5. CASE TimePasses \/ UNCHANGED runtimeVars
  BY <1>5 DEF TimePasses, Tick, eventVars, runtimeVars, vars, LeavesLogsAlone,
              StoresForStreams
<1> QED BY <1>1, <1>2, <1>3, <1>4, <1>5, NextMoves DEF ServiceMoves

-----------------------------------------------------------------------------
(* Logs only grow                                                          *)

\* The log of a run is as it was, or goes on with events that are new.
Grows(q) ==
  /\ log[q] \in Seq(Events) /\ log'[q] \in Seq(Events)
  /\ Len(log[q]) <= Len(log'[q])
  /\ \A j \in 1..Len(log[q]) : log'[q][j] = log[q][j]
  /\ \A j \in (Len(log[q]) + 1)..Len(log'[q]) : log'[q][j].id > nextEventID

\* What AppendEvent does to a log.
LEMMA AppendedLog ==
  ASSUME TypeOK, NEW s \in RunScopes, NEW kind \in EventKinds, AppendEvent(s, kind, 1)
  PROVE  \E e \in Events :
           /\ e.id = nextEventID + 1 /\ e.kind = kind
           /\ subscribers' = Published(s, e)
           /\ log[s] \in Seq(Events) /\ log'[s] = Append(log[s], e)
           /\ \A q \in RunScopes : q # s => log'[q] = log[q]
<1> DEFINE e == [id |-> nextEventID + 1, kind |-> kind, at |-> now, size |-> 1]
<1>1. nextEventID \in Nat /\ now \in Nat /\ log \in [RunScopes -> Seq(Events)]
  BY DEF TypeOK
<1>2. e \in Events /\ e.id = nextEventID + 1 /\ e.kind = kind
  BY <1>1, OneSize DEF Events
<1>3. subscribers' = Published(s, e) /\ log' = [log EXCEPT ![s] = Append(@, e)]
  BY DEF AppendEvent
<1> HIDE DEF e
<1> QED BY <1>1, <1>2, <1>3

LEMMA LogsGrow ==
  ASSUME TypeOK, AppendsAnEvent \/ log' = log, NEW q \in RunScopes
  PROVE  Grows(q)
<1>1. log[q] \in Seq(Events) /\ nextEventID \in Nat
  BY DEF TypeOK
<1>2. CASE log'[q] = log[q]
  BY <1>1, <1>2 DEF Grows
<1>3. CASE AppendsAnEvent
  <2>1. PICK s \in RunScopes, kind \in EventKinds : AppendEvent(s, kind, 1)
    BY <1>3 DEF AppendsAnEvent
  <2>2. PICK e \in Events :
          /\ e.id = nextEventID + 1
          /\ log'[s] = Append(log[s], e)
          /\ q # s => log'[q] = log[q]
    BY <2>1, AppendedLog
  <2>3. CASE q = s
    <3>1. log'[q] = Append(log[q], e)
      BY <2>2, <2>3
    <3>2. /\ log'[q] \in Seq(Events) /\ Len(log'[q]) = Len(log[q]) + 1
          /\ log'[q][Len(log[q]) + 1] = e
          /\ \A j \in 1..Len(log[q]) : log'[q][j] = log[q][j]
      BY <1>1, <3>1
    <3>3. \A j \in (Len(log[q]) + 1)..Len(log'[q]) : j = Len(log[q]) + 1
      BY <1>1, <3>2
    <3> QED BY <1>1, <2>2, <3>2, <3>3 DEF Grows
  <2> QED BY <1>2, <2>2, <2>3
<1> QED BY <1>2, <1>3

\* What a log says of the end of its run it says for ever.
LEMMA EndedStays ==
  ASSUME NEW q \in RunScopes, Grows(q), Ended(q)
  PROVE  Ended(q)'
<1>1. PICK j \in DOMAIN log[q] : Ends(log[q][j])
  BY DEF Ended
<1>2. j \in 1..Len(log[q]) /\ j \in 1..Len(log'[q])
  BY <1>1 DEF Grows
<1>3. log'[q][j] = log[q][j] /\ j \in DOMAIN log'[q]
  BY <1>2 DEF Grows
<1> QED BY <1>1, <1>3 DEF Ended, Ends

\* An event that says so is appended.
LEMMA EndIsTold ==
  ASSUME TypeOK, NEW s \in RunScopes, NEW kind \in EventKinds, AppendEvent(s, kind, 1),
         kind \in Terminals \/ \E state \in TerminalStates : kind = <<"status", state>>
  PROVE  Ended(s)'
<1>1. PICK e \in Events : e.kind = kind /\ log[s] \in Seq(Events) /\ log'[s] = Append(log[s], e)
  BY AppendedLog
<1>2. Len(log[s]) + 1 \in DOMAIN log'[s] /\ log'[s][Len(log[s]) + 1] = e
  BY <1>1
<1>3. Ends(e)
  BY <1>1 DEF Ends
<1> QED BY <1>2, <1>3 DEF Ended, Ends

-----------------------------------------------------------------------------
(* Before a run is completed its log says so                               *)

\* Where a handler goes that jumps.
LEMMA GoesTo ==
  ASSUME RuntimeInv, NEW h \in Handlers, NEW pc \in HandlerLabels, Goto(h, pc)
  PROVE  handlers'[h].pc = pc
<1>1. handlers \in [Handlers -> HandlerRecords] /\ handlers[h] \in HandlerRecords
  BY HandlerFacts
<1>2. [FreshHandler(handlers[h].cmd) EXCEPT !.pc = pc].pc = pc
  BY DEF FreshHandler
<1>3. [handlers[h] EXCEPT !.pc = pc].pc = pc
  BY <1>1 DEF HandlerRecords
<1> QED BY <1>1, <1>2, <1>3, GotoEffect

\* Only two steps lead to where a handler completes a run.
LEMMA WhoTells ==
  ASSUME RuntimeInv, NEW h \in Handlers, HandlerStep(h), handlers'[h].pc \in Telling
  PROVE  ReconcileAppend(h) \/ AnnounceRun(h)
<1>1. /\ handlers \in [Handlers -> HandlerRecords] /\ handlers[h] \in HandlerRecords
      /\ handlers[h].cmd.op \in Ops /\ handlers[h].pc \in LabelsOf(handlers[h].cmd.op)
  BY HandlerFacts
<1>2. ASSUME NEW pc \in HandlerLabels \ Telling, Goto(h, pc) PROVE FALSE
  BY <1>2, GoesTo
<1>3. ASSUME NEW pc \in HandlerLabels \ Telling,
             handlers'[h].pc = pc PROVE FALSE
  BY <1>3
<1>4. ASSUME ReserveKey(h) \/ ReleaseKey(h) \/ RememberResult(h) \/ ReportStatus(h)
      PROVE  FALSE
  <2>1. handlers[h].pc = "reserve" => FirstStep(handlers[h].cmd.op) \in
          {"reserveCapacity", "resume", "lookRun", "lookPending"}
    BY <1>1 DEF LabelsOf, Ops, FirstStep
  <2>2. \E pc \in {"reserveCapacity", "resume", "lookRun", "lookPending", "done",
                   "releaseCapacity", "remember"} : Goto(h, pc)
    BY <1>4, <2>1 DEF ReserveKey, ReleaseKey, RememberResult, ReportStatus
  <2> QED BY <1>2, <2>2 DEF Telling, HandlerLabels
<1>5. ASSUME \/ ReconcileComplete(h) \/ ReserveCapacity(h) \/ ReleaseCapacity(h)
             \/ RecoverGivesUp(h) \/ InstallRun(h) \/ CompleteRecovered(h)
             \/ StartProvisionalRun(h) \/ AbandonRun(h) \/ BindRun(h) \/ MarkRunning(h)
             \/ LookRun(h) \/ SendInterrupt(h) \/ MarkInterrupting(h) \/ AnnounceInterrupt(h)
      PROVE  FALSE
  <2>1. \E pc \in {"startRun", "status", "release", "done", "startThread", "releaseCapacity",
                   "sendTurn", "markRunning", "remember", "announceRun", "sendInterrupt",
                   "markInterrupting", "announceInterrupt"} : Goto(h, pc)
    BY <1>5 DEF ReconcileComplete, AfterReconcile, ReserveCapacity, ReleaseCapacity,
                RecoverGivesUp, InstallRun, CompleteRecovered, StartProvisionalRun, AbandonRun,
                BindRun, MarkRunning, LookRun, SendInterrupt, MarkInterrupting,
                AnnounceInterrupt
  <2> QED BY <1>2, <2>1 DEF Telling, HandlerLabels
<1>6. ASSUME \/ ClaimPending(h) \/ FinishResponse(h) \/ ReleaseClaim(h)
             \/ ResolveRequest(h) \/ RestoreRun(h) \/ AnnounceResolved(h)
      PROVE  FALSE
  <2>1. \E pc \in {"release", "write", "done", "resolve", "unclaim", "restore",
                   "announceResolved", "status"} : Goto(h, pc)
    BY <1>6 DEF ClaimPending, RefuseResponse, FinishResponse, ReleaseClaim, ResolveRequest,
                RestoreRun, AnnounceResolved
  <2> QED BY <1>2, <2>1 DEF Telling, HandlerLabels
<1>7. ASSUME Reconcile(h) \/ ReadThread(h) \/ LookPending(h) \/ ResumeThread(h) \/ StartThread(h)
      PROVE  FALSE
  <2>1. \/ \E pc \in {"startRun", "status", "done", "release", "releaseBoth",
                      "releaseCapacity"} : Goto(h, pc)
        \/ \E run, state : handlers' = [handlers EXCEPT ![h] =
             [@ EXCEPT !.pc = "reconcileAppend", !.run = run, !.state = state]]
        \/ \E cycle : handlers' = [handlers EXCEPT ![h] =
             [@ EXCEPT !.pc = "reconcile", !.lifecycle = cycle]]
        \/ \E run : handlers' = [handlers EXCEPT ![h] = [@ EXCEPT !.pc = "claim", !.run = run]]
        \/ \E c : handlers' = [handlers EXCEPT ![h] = [@ EXCEPT !.pc = "sendTurn", !.chat = c]]
    BY <1>7 DEF Reconcile, AfterReconcile, ReadThread, LookPending, ResumeThread, StartThread
  <2>2. CASE \E pc \in {"startRun", "status", "done", "release", "releaseBoth",
                        "releaseCapacity"} : Goto(h, pc)
    BY <1>2, <2>2 DEF Telling, HandlerLabels
  <2>3. handlers'[h].pc \in {"reconcileAppend", "reconcile", "claim", "sendTurn"}
    BY <1>1, <2>1, <2>2, ZenonT(30) DEF HandlerRecords
  <2> QED BY <2>3 DEF Telling
<1>8. ASSUME \/ SendTurn(h) \/ TurnAnswered(h) \/ TurnFails(h) \/ RecoverRead(h)
             \/ WriteResponse(h)
      PROVE  FALSE
  <2>1. handlers'[h].pc \in {"awaitTurn", "install", "bind", "recover", "abandon", "finish"}
    <3>0. CASE SendTurn(h)
      BY <3>0, SendAdvances DEF SendTurn
    <3>1. CASE TurnAnswered(h) \/ TurnFails(h)
      <4>1. \/ \E pc \in {"install", "bind"} : \E run, state : handlers' = [handlers EXCEPT ![h] =
                 [@ EXCEPT !.pc = pc, !.run = run, !.state = state, !.answer = Null]]
            \/ \E pc \in {"recover", "abandon"} : handlers' = [handlers EXCEPT ![h] =
                 [@ EXCEPT !.pc = pc, !.answer = Null, !.reads = 0, !.confirmedEmpty = FALSE]]
        BY <3>1 DEF TurnAnswered, TurnFails
      <4> QED BY <1>1, <4>1, ZenonT(30) DEF HandlerRecords
    <3>2. CASE WriteResponse(h)
      BY <1>1, <3>2 DEF WriteResponse, HandlerRecords
    <3>3. CASE RecoverRead(h)
      <4>1. \/ \E n, b : handlers' = [handlers EXCEPT ![h] =
                 [@ EXCEPT !.reads = n, !.confirmedEmpty = b]]
            \/ \E n : handlers' = [handlers EXCEPT ![h] = [@ EXCEPT !.reads = n]]
            \/ \E t, state : handlers' = [handlers EXCEPT ![h] =
                 [@ EXCEPT !.pc = "install", !.run = t, !.state = state]]
        BY <3>3, ZenonT(30) DEF RecoverRead
      <4>2. handlers[h].pc = "recover"
        BY <3>3 DEF RecoverRead
      <4> QED BY <1>1, <4>1, <4>2, ZenonT(30) DEF HandlerRecords
    <3> QED BY <1>8, <3>0, <3>1, <3>2, <3>3
  <2> QED BY <2>1 DEF Telling
<1> QED BY <1>4, <1>5, <1>6, <1>7, <1>8 DEF HandlerStep

\* The handler that goes there has said how the run ended.
LEMMA HandlerTells ==
  ASSUME RuntimeInv, NEW h \in Handlers, ReconcileAppend(h) \/ AnnounceRun(h),
         handlers'[h].pc \in Telling
  PROVE  Ended(RunScope(h))' /\ RunScope(h)' = RunScope(h)
<1>1. /\ handlers \in [Handlers -> HandlerRecords] /\ handlers[h] \in HandlerRecords
      /\ Agrees(handlers[h]) /\ TypeOK
  BY HandlerFacts DEF RuntimeInv, RuntimeTypeOK
<1>2. PICK pc \in {"reconcileComplete", "complete", "status", "remember"} :
        /\ Goto(h, pc)
        /\ pc = "complete" => handlers[h].state \in TerminalStates
        /\ pc = "reconcileComplete" => handlers[h].pc = "reconcileAppend"
  BY DEF ReconcileAppend, AnnounceRun
<1>3. pc \in Telling
  BY <1>2, GoesTo DEF HandlerLabels
<1>4. handlers[h].state \in TerminalStates
  BY <1>1, <1>2, <1>3 DEF Telling, Agrees, Ending
<1>5. RunScope(h)' = RunScope(h)
  <2>1. handlers'[h] = [handlers[h] EXCEPT !.pc = pc]
    BY <1>1, <1>2, <1>3, GotoEffect DEF Telling, Leaving, HandlerLabels
  <2> QED BY <1>1, <2>1 DEF RunScope, HandlerRecords
<1>6. AppendEvent(RunScope(h), <<"status", handlers[h].state>>, 1)
  BY DEF ReconcileAppend, AnnounceRun
<1>7. <<"status", handlers[h].state>> \in EventKinds
  BY <1>4, KindsCover DEF Statuses, RunStates
<1>8. Ended(RunScope(h))'
  <2> DEFINE s == RunScope(h)
  <2>1. s \in RunScopes
    BY AppendingHandler
  <2>2. \A q \in RunScopes : q = s => Ended(q)'
    <3> HIDE DEF s
    <3> SUFFICES ASSUME NEW q \in RunScopes, q = s PROVE Ended(q)'
      OBVIOUS
    <3>1. AppendEvent(q, <<"status", handlers[h].state>>, 1)
      BY <1>6 DEF s
    <3> QED BY <1>1, <1>4, <1>7, <3>1, EndIsTold
  <2>3. \A q \in RunScopes : q = RunScope(h)' => Ended(q)'
    BY <1>5, <2>2
  <2>4. RunScope(h)' \in RunScopes
    BY <1>5, <2>1
  <2> QED BY <2>3, <2>4 DEF Ended
<1> QED BY <1>5, <1>8

\* No handler touches what the consumer has in hand.
LEMMA ConsumerLeftAlone ==
  ASSUME NEW h \in Handlers, HandlerStep(h)
  PROVE  consumer' = consumer
<1>1. CASE LocalStep(h)
  BY <1>1, LocalStepFrame DEF Local
<1>2. CASE \/ ReportStatus(h) \/ SendTurn(h) \/ StartThread(h) \/ ResumeThread(h)
           \/ SendInterrupt(h) \/ ClaimPending(h) \/ WriteResponse(h) \/ FinishResponse(h)
  BY <1>2 DEF ReportStatus, SendTurn, StartThread, ResumeThread, SendInterrupt, ClaimPending,
              WriteResponse, FinishResponse
<1> QED BY <1>1, <1>2 DEF HandlerStep, LocalStep

\* Whoever completes a run has appended to its log how it ended.
LEMMA EndsToldStep ==
  ASSUME RuntimeInv, EndsTold, [RuntimeNext]_runtimeVars
  PROVE  EndsTold'
<1>1. TypeOK /\ \A q \in RunScopes : Grows(q)
  <2>1. TypeOK
    BY DEF RuntimeInv, RuntimeTypeOK
  <2>2. AppendsAnEvent \/ log' = log
    BY RuntimeStores DEF StoresForStreams, CompletesARun, CompleteRun, LeavesLogsAlone
  <2> QED BY <2>1, <2>2, LogsGrow
<1>2. ASSUME NEW g \in Handlers, handlers'[g].pc \in Telling
      PROVE  Ended(RunScope(g))'
  <2>1. CASE HandlerStep(g)
    BY <1>2, <2>1, WhoTells, HandlerTells
  <2>2. CASE ~HandlerStep(g)
    <3>1. /\ handlers'[g].pc = handlers[g].pc /\ handlers'[g].chat = handlers[g].chat
          /\ handlers'[g].run = handlers[g].run
      BY <2>2, NextMoves, HandlerStepMoves, CodexFrame, ServiceFrame
         DEF SameButAnswer, runtimeVars, gatewayVars
    <3>2. RunScope(g)' = RunScope(g)
      BY <3>1 DEF RunScope
    <3>3. RunScope(g) \in RunScopes /\ Ended(RunScope(g))
      BY <1>2, <3>1, HandlerFacts DEF EndsTold, Telling, OnRun
    <3>4. PICK q \in RunScopes : q = RunScope(g)
      BY <3>3
    <3>5. Ended(q)'
      BY <1>1, <3>3, <3>4, EndedStays
    <3> QED BY <3>2, <3>4, <3>5 DEF Ended
  <2> QED BY <2>1, <2>2
<1>3. ASSUME consumer'.pc = "complete"
      PROVE  Ended(ConsumerScope)'
  <2>1. CASE AppendNotification
    <3>1. /\ ConsumerScope \in RunScopes /\ consumer.notification \in Notifications
          /\ consumer \in [pc : {"idle", "append", "complete"},
                           notification : Notifications \cup {Null}]
      BY <2>1, ServiceFacts DEF AppendNotification
    <3>2. /\ AppendEvent(ConsumerScope, consumer.notification.kind, 1)
          /\ consumer.notification.kind \in Terminals
          /\ consumer' = [consumer EXCEPT !.pc = "complete"]
          /\ turns' = turns
      BY <1>3, <2>1 DEF AppendNotification, NoNotification, Unseen, codexVars
    <3>3. ConsumerScope' = ConsumerScope
      BY <3>1, <3>2 DEF ConsumerScope
    <3>4. consumer.notification.kind \in EventKinds
      BY <3>1, KindsCover DEF Notifications
    <3>5. PICK q \in RunScopes : q = ConsumerScope
      BY <3>1
    <3>6. Ended(q)'
      BY <1>1, <3>2, <3>4, <3>5, EndIsTold
    <3> QED BY <3>3, <3>5, <3>6 DEF Ended
  <2>2. CASE ~AppendNotification
    <3>1. consumer' = consumer
      <4>1. CASE ConsumerStep
        BY <1>3, <2>2, <4>1 DEF ConsumerStep, ConsumeNotification, CompleteNotifiedRun,
                                NoNotification
      <4>2. CASE HookStep \/ TimePasses
        BY <4>2 DEF HookStep, HookLooks, HookRegisters, HookAnnounces, HookTracks, TimePasses,
                    gatewayVars
      <4>3. CASE UNCHANGED runtimeVars
        BY <4>3 DEF runtimeVars, gatewayVars
      <4> QED BY <4>1, <4>2, <4>3, NextMoves, ConsumerLeftAlone, CodexFrame DEF ServiceMoves
    <3>2. /\ ConsumerScope \in RunScopes /\ Ended(ConsumerScope)
          /\ consumer.notification.run \in Turns
          /\ turns[consumer.notification.run] \in TurnRecords
      BY <1>3, <3>1, ServiceFacts DEF EndsTold, Notifications
    <3>3. ConsumerScope' = ConsumerScope
      BY <3>1, <3>2, TurnsAreKept DEF TurnsKept, ConsumerScope
    <3>4. PICK q \in RunScopes : q = ConsumerScope
      BY <3>2
    <3>5. Ended(q)'
      BY <1>1, <3>2, <3>4, EndedStays
    <3> QED BY <3>3, <3>4, <3>5 DEF Ended
  <2> QED BY <2>1, <2>2
<1> QED BY <1>2, <1>3 DEF EndsTold

-----------------------------------------------------------------------------
(* Where a stream is in the log of its run                                 *)

\* The channel of stream i holds the events that follow the c-th of the log, up to
\* the last one while it is open, and events newer than the subscription only.
QueueAt(i, c) ==
  LET x == subscribers[i] IN
  /\ x # Null /\ x.scope = streams[i].scope
  /\ SitsAt(x.queue, LogOf(i), c)
  /\ x.open => c + Len(x.queue) = Len(LogOf(i))
  /\ \A j \in (c + 1)..Len(LogOf(i)) : LogOf(i)[j].id > streams[i].from

\* What it has sent and what is left of the replay follow the a-th event, which is
\* where its cursor is, or it has announced a gap.
SegmentAt(i, a) ==
  LET x == streams[i] IN
  /\ SitsAt(x.got, LogOf(i), a)
  /\ SitsAt(x.replay, LogOf(i), a + Len(x.got))
  /\ \A j \in (a + 1)..Len(LogOf(i)) : LogOf(i)[j].id > x.after
  /\ x.notice = Null => \A j \in 1..a : LogOf(i)[j].id <= x.after

SentUpTo(i, a) == a + Len(streams[i].got) + Len(streams[i].replay)

\* The channel begins at the end of what was replayed, or before.
FollowsAt(i, a, c) ==
  /\ SegmentAt(i, a)
  /\ streams[i].live => /\ QueueAt(i, c)
                        /\ c <= SentUpTo(i, a)
                        /\ SentUpTo(i, a) = a => c = a

\* Where a stream has not asked for its events, and where it sends them.
Unplaced == {"new", "subscribe"}
Unsent   == {"replay", "unsubscribe", "failed"}
Sending  == {"read", "close", "eof", "closed"}

InPlace(i) == \E a, c \in 0..Len(LogOf(i)) : FollowsAt(i, a, c)

StreamFollows(i) ==
  LET x == streams[i] IN
  /\ x.pc = "new" => x.scope = Null
  /\ x.pc \notin {"new", "eof"} \/ x.live => x.scope \in RunScopes
  /\ x.pc \in Unplaced => ~x.live
  /\ x.pc \in Unplaced \cup Unsent \/ x.scope \notin RunScopes
       => x.got = <<>> /\ x.replay = <<>>
  /\ x.live => x.from <= nextEventID /\ \E c \in 0..Len(LogOf(i)) : QueueAt(i, c)
  /\ x.after # NeverIssued => /\ x.after <= nextEventID
                              /\ x.live => x.after <= x.from
  /\ x.pc \in Sending /\ x.after # NeverIssued /\ x.scope \in RunScopes => InPlace(i)

\* More events were appended since a stream subscribed than its channel holds.
Overtaken(i) ==
  Cardinality({j \in DOMAIN LogOf(i) : LogOf(i)[j].id > streams[i].from}) > SubscriberQueue

\* A channel that was closed, not given up, was overtaken, or its run has ended.
EndExplained(i) ==
  LET x == streams[i] IN
  /\ x.live /\ x.pc = "eof" => ~subscribers[i].open
  /\ x.live /\ x.pc \notin {"failed", "closed"} /\ x.scope[2] \in Turns /\ ~subscribers[i].open
       => Ended(x.scope) \/ Overtaken(i)

StreamsTypeOK == streams \in [SubscriberIds -> StreamRecords]

StreamInv ==
  /\ RuntimeInv /\ ReplayInv /\ EndsTold /\ StreamsTypeOK
  /\ \A i \in SubscriberIds : StreamFollows(i) /\ EndExplained(i)

-----------------------------------------------------------------------------
(* Parts of a log                                                          *)

\* A part stays where it is when the log goes on.
LEMMA SitsStill ==
  ASSUME NEW q \in RunScopes, Grows(q), NEW part \in Seq(Events), NEW n \in Nat,
         SitsAt(part, log[q], n)
  PROVE  SitsAt(part, log'[q], n)
<1>1. /\ Len(part) \in Nat /\ Len(log[q]) \in Nat /\ Len(log'[q]) \in Nat
      /\ Len(log[q]) <= Len(log'[q])
  BY DEF Grows
<1>2. \A j \in 1..Len(part) : n + j \in 1..Len(log[q])
  BY <1>1 DEF SitsAt
<1> QED BY <1>1, <1>2 DEF SitsAt, Grows

\* So it does when the log and the part go on with the same event.
LEMMA SitsOn ==
  ASSUME NEW part \in Seq(Events), NEW events \in Seq(Events), NEW n \in Nat,
         SitsAt(part, events, n), n + Len(part) < Len(events)
  PROVE  SitsAt(Append(part, events[n + Len(part) + 1]), events, n)
<1> DEFINE e == events[n + Len(part) + 1]
           longer == Append(part, e)
<1>1. Len(part) \in Nat /\ Len(events) \in Nat /\ Len(longer) = Len(part) + 1
  OBVIOUS
<1>2. \A j \in 1..Len(part) : longer[j] = part[j]
  OBVIOUS
<1>3. longer[Len(part) + 1] = e
  OBVIOUS
<1> HIDE DEF longer
<1>4. \A j \in 1..Len(longer) : j \in 1..Len(part) \/ j = Len(part) + 1
  BY <1>1
<1>5. e = events[n + (Len(part) + 1)]
  BY <1>1
<1> HIDE DEF e
<1>6. n + Len(longer) <= Len(events)
  BY <1>1
<1>7. \A j \in 1..Len(longer) : longer[j] = events[n + j]
  BY <1>2, <1>3, <1>4, <1>5 DEF SitsAt
<1> QED BY <1>6, <1>7 DEF SitsAt, longer, e

\* The rest of a part sits behind its first event.
LEMMA RestSits ==
  ASSUME NEW part \in Seq(Events), NEW events \in Seq(Events), NEW n \in Nat,
         SitsAt(part, events, n), part # <<>>
  PROVE  /\ SitsAt(Tail(part), events, n + 1) /\ Len(Tail(part)) = Len(part) - 1
         /\ Tail(part) \in Seq(Events) /\ Head(part) \in Events /\ Len(part) \in Nat \ {0}
         /\ n + 1 \in 1..Len(events) /\ Head(part) = events[n + 1]
<1>1. /\ Len(part) \in Nat \ {0} /\ Len(events) \in Nat /\ Len(Tail(part)) = Len(part) - 1
      /\ Tail(part) \in Seq(Events) /\ Head(part) = part[1] /\ Head(part) \in Events
      /\ \A j \in 1..(Len(part) - 1) : Tail(part)[j] = part[j + 1] /\ j + 1 \in 1..Len(part)
  OBVIOUS
<1>2. 1 \in 1..Len(part) /\ n + Len(part) <= Len(events)
  BY <1>1 DEF SitsAt
<1>3. \A j \in 1..(Len(part) - 1) : part[j + 1] = events[n + (j + 1)]
  BY <1>1 DEF SitsAt
<1>4. \A j \in 1..(Len(part) - 1) : n + (j + 1) = (n + 1) + j
  BY <1>1
<1>5. SitsAt(Tail(part), events, n + 1)
  <2> DEFINE rest == Tail(part)
  <2>1. Len(rest) = Len(part) - 1 /\ \A j \in 1..(Len(part) - 1) : rest[j] = events[(n + 1) + j]
    BY <1>1, <1>3, <1>4
  <2>2. (n + 1) + (Len(part) - 1) <= Len(events)
    BY <1>1, <1>2
  <2> HIDE DEF rest
  <2> QED BY <2>1, <2>2 DEF SitsAt, rest
<1> QED BY <1>1, <1>2, <1>5 DEF SitsAt

-----------------------------------------------------------------------------
(* What a step does to the channel of a stream                             *)

\* The channel of stream i goes with the log of run q: it stays as it is, and so
\* does the log while it is open; or it is closed; or both get the same event.
Carried(i, q) ==
  \/ /\ subscribers'[i] = subscribers[i]
     /\ subscribers[i].open => log'[q] = log[q]
  \/ subscribers'[i] = [subscribers[i] EXCEPT !.open = FALSE]
  \/ \E e \in Events : /\ subscribers'[i] = [subscribers[i] EXCEPT !.queue = Append(@, e)]
                       /\ log'[q] = Append(log[q], e) /\ subscribers[i].open

\* A channel is closed for a reason: its reader gave it up, the run was completed
\* and its log says so, or an event did not fit.
Overflows(i, q) == /\ Len(subscribers[i].queue) >= SubscriberQueue
                   /\ Len(log'[q]) = Len(log[q]) + 1
ClosedFor(i, q) == subscribers[i].open /\ ~subscribers'[i].open =>
                     (q[2] \in Turns => Ended(q)) \/ Overflows(i, q)

LEMMA SubscriberFacts ==
  ASSUME TypeOK, NEW i \in SubscriberIds, subscribers[i] # Null
  PROVE  /\ subscribers[i] \in SubscriberRecords
         /\ Len(subscribers[i].queue) <= SubscriberQueue
         /\ subscribers \in [SubscriberIds -> SubscriberRecords \cup {Null}]
BY DEF TypeOK

LEMMA StoresCarry ==
  ASSUME TypeOK, StoresForStreams, NEW i \in SubscriberIds, NEW q \in RunScopes,
         subscribers[i] # Null, subscribers[i].scope = q
  PROVE  Carried(i, q) /\ ClosedFor(i, q)
<1>1. /\ subscribers[i] \in SubscriberRecords
      /\ subscribers \in [SubscriberIds -> SubscriberRecords \cup {Null}]
  BY SubscriberFacts
<1>2. CASE LeavesLogsAlone
  BY <1>2 DEF LeavesLogsAlone, Carried, ClosedFor
<1>3. CASE CompletesARun
  <2>1. PICK s, state : CompleteRun(s, state) /\ (s[2] \in Turns => Ended(s))
    BY <1>3 DEF CompletesARun
  <2>2. log' = log /\ subscribers' = ClosedSubscribers(s)
    BY <2>1 DEF CompleteRun
  <2>3. subscribers'[i] = IF q = s THEN [subscribers[i] EXCEPT !.open = FALSE]
                                   ELSE subscribers[i]
    BY <2>2 DEF ClosedSubscribers
  <2>4. CASE q = s
    <3>1. q[2] \in Turns => Ended(q)
      BY <2>1, <2>4
    <3>2. subscribers'[i] = [subscribers[i] EXCEPT !.open = FALSE]
      BY <2>3, <2>4
    <3> QED BY <3>1, <3>2 DEF Carried, ClosedFor
  <2>5. CASE q # s
    BY <2>2, <2>3, <2>5 DEF Carried, ClosedFor
  <2> QED BY <2>4, <2>5
<1>4. CASE AppendsAnEvent
  <2>1. PICK s \in RunScopes, kind \in EventKinds : AppendEvent(s, kind, 1)
    BY <1>4 DEF AppendsAnEvent
  <2>2. PICK e \in Events :
          /\ subscribers' = Published(s, e)
          /\ log[s] \in Seq(Events) /\ log'[s] = Append(log[s], e)
          /\ \A p \in RunScopes : p # s => log'[p] = log[p]
    BY <2>1, AppendedLog
  <2>3. subscribers'[i] =
          IF ~subscribers[i].open \/ q # s THEN subscribers[i]
          ELSE IF Len(subscribers[i].queue) < SubscriberQueue
               THEN [subscribers[i] EXCEPT !.queue = Append(@, e)]
               ELSE [subscribers[i] EXCEPT !.open = FALSE]
    BY <2>2 DEF Published
  <2>4. CASE ~subscribers[i].open \/ q # s
    BY <2>2, <2>3, <2>4 DEF Carried, ClosedFor
  <2>5. ASSUME subscribers[i].open, q = s, Len(subscribers[i].queue) < SubscriberQueue
        PROVE  Carried(i, q) /\ ClosedFor(i, q)
    <3>1. /\ subscribers'[i] = [subscribers[i] EXCEPT !.queue = Append(@, e)]
          /\ log'[q] = Append(log[q], e)
      BY <2>2, <2>3, <2>5
    <3>2. subscribers'[i].open
      BY <1>1, <2>5, <3>1 DEF SubscriberRecords
    <3> QED BY <2>5, <3>1, <3>2 DEF Carried, ClosedFor
  <2>6. ASSUME subscribers[i].open, q = s, ~(Len(subscribers[i].queue) < SubscriberQueue)
        PROVE  Carried(i, q) /\ ClosedFor(i, q)
    <3>1. subscribers'[i] = [subscribers[i] EXCEPT !.open = FALSE]
      BY <2>3, <2>6
    <3>2. Len(subscribers[i].queue) \in Nat /\ SubscriberQueue \in Nat
      BY <1>1, LimitsPositive DEF SubscriberRecords
    <3>3. Len(log'[q]) = Len(log[q]) + 1
      BY <2>2, <2>6
    <3> QED BY <2>6, <3>1, <3>2, <3>3 DEF Carried, ClosedFor, Overflows
  <2> QED BY <2>4, <2>5, <2>6
<1> QED BY <1>2, <1>3, <1>4 DEF StoresForStreams

\* The reader of one channel leaves the others and the logs alone.
LEMMA ReadersCarry ==
  ASSUME TypeOK, NEW j \in SubscriberIds,
         \/ \E s : Subscribe(j, s) \/ Replay(s)
         \/ Unsubscribe(j) \/ Receive(j) \/ UNCHANGED vars,
         NEW i \in SubscriberIds, i # j, NEW q \in RunScopes
  PROVE  Carried(i, q) /\ ClosedFor(i, q)
<1>1. log' = log /\ subscribers'[i] = subscribers[i]
  BY DEF TypeOK, Subscribe, Replay, Unsubscribe, Receive, vars
<1> QED BY <1>1 DEF Carried, ClosedFor

\* A stream of a run that keeps its run, its cursor and its subscription.
SameSubscription(i, q) ==
  /\ streams[i].scope = q /\ streams'[i].scope = q
  /\ streams'[i].from = streams[i].from /\ streams'[i].live = streams[i].live

LEMMA CarriedFacts ==
  ASSUME TypeOK, NEW i \in SubscriberIds, NEW q \in RunScopes, Carried(i, q),
         subscribers[i] # Null, subscribers[i].scope = q, subscribers'[i] # Null
  PROVE  /\ subscribers'[i].scope = q
         /\ subscribers'[i].open => subscribers[i].open
         /\ \/ /\ subscribers'[i].queue = subscribers[i].queue
               /\ subscribers'[i].open => log'[q] = log[q]
            \/ \E e \in Events : /\ subscribers'[i].queue = Append(subscribers[i].queue, e)
                                 /\ log'[q] = Append(log[q], e)
                                 /\ subscribers[i].open
<1>1. subscribers[i] \in SubscriberRecords
  BY SubscriberFacts
<1>2. CASE /\ subscribers'[i] = subscribers[i]
           /\ subscribers[i].open => log'[q] = log[q]
  BY <1>2
<1>3. CASE subscribers'[i] = [subscribers[i] EXCEPT !.open = FALSE]
  BY <1>1, <1>3 DEF SubscriberRecords
<1>4. ASSUME NEW e \in Events,
             subscribers'[i] = [subscribers[i] EXCEPT !.queue = Append(@, e)],
             log'[q] = Append(log[q], e)
      PROVE  /\ subscribers'[i].scope = q
             /\ subscribers'[i].open = subscribers[i].open
             /\ subscribers'[i].queue = Append(subscribers[i].queue, e)
  BY <1>1, <1>4 DEF SubscriberRecords
<1> QED BY <1>2, <1>3, <1>4 DEF Carried

\* A part and a log that both go on with the same event.
LEMMA SitsWith ==
  ASSUME NEW part \in Seq(Events), NEW events \in Seq(Events), NEW n \in Nat, NEW e \in Events,
         SitsAt(part, events, n), n + Len(part) = Len(events)
  PROVE  /\ SitsAt(Append(part, e), Append(events, e), n)
         /\ n + Len(Append(part, e)) = Len(Append(events, e))
<1> DEFINE longer == Append(part, e)
           log2 == Append(events, e)
<1>1. /\ Len(part) \in Nat /\ Len(events) \in Nat /\ Len(longer) = Len(part) + 1
      /\ Len(log2) = Len(events) + 1
  OBVIOUS
<1>2. /\ \A j \in 1..Len(part) : longer[j] = part[j]
      /\ longer[Len(part) + 1] = e
  OBVIOUS
<1>3. /\ \A j \in 1..Len(events) : log2[j] = events[j]
      /\ log2[Len(events) + 1] = e
  OBVIOUS
<1> HIDE DEF longer, log2
<1>4. n + Len(longer) = Len(log2)
  BY <1>1
<1>5. ASSUME NEW j \in 1..Len(longer)
      PROVE  longer[j] = log2[n + j]
  <2>1. CASE j \in 1..Len(part)
    <3>1. n + j \in 1..Len(events)
      BY <1>1, <2>1
    <3> QED BY <1>2, <1>3, <2>1, <3>1 DEF SitsAt
  <2>2. CASE j = Len(part) + 1
    <3>1. n + j = Len(events) + 1
      BY <1>1, <2>2
    <3> QED BY <1>2, <1>3, <2>2, <3>1
  <2> QED BY <1>1, <2>1, <2>2
<1>6. n + Len(longer) <= Len(log2)
  BY <1>1
<1> QED BY <1>4, <1>5, <1>6 DEF SitsAt, longer, log2

LEMMA QueueCarried ==
  ASSUME TypeOK, NEW i \in SubscriberIds, NEW q \in RunScopes, Grows(q),
         Carried(i, q), SameSubscription(i, q), streams[i].from \in Nat,
         streams[i].from <= nextEventID, subscribers'[i] # Null,
         NEW c \in 0..Len(log[q]), QueueAt(i, c)
  PROVE  QueueAt(i, c)'
<1>1. /\ subscribers[i] # Null /\ subscribers[i].scope = q
      /\ SitsAt(subscribers[i].queue, log[q], c)
      /\ subscribers[i].open => c + Len(subscribers[i].queue) = Len(log[q])
      /\ \A j \in (c + 1)..Len(log[q]) : log[q][j].id > streams[i].from
  BY DEF QueueAt, LogOf, SameSubscription
<1>2. /\ log[q] \in Seq(Events) /\ log'[q] \in Seq(Events) /\ c \in Nat /\ nextEventID \in Nat
      /\ Len(log[q]) \in Nat /\ Len(log'[q]) \in Nat /\ Len(log[q]) <= Len(log'[q])
  BY DEF Grows, TypeOK
<1>3. subscribers[i].queue \in Seq(Events)
  BY <1>1, SubscriberFacts DEF SubscriberRecords
<1>4. \A j \in (c + 1)..Len(log'[q]) : log'[q][j].id > streams[i].from
  <2> SUFFICES ASSUME NEW j \in (c + 1)..Len(log'[q]) PROVE log'[q][j].id > streams[i].from
    OBVIOUS
  <2>1. CASE j <= Len(log[q])
    <3>1. j \in (c + 1)..Len(log[q]) /\ j \in 1..Len(log[q])
      BY <1>2, <2>1
    <3> QED BY <1>1, <3>1 DEF Grows
  <2>2. CASE ~(j <= Len(log[q]))
    <3>1. j \in (Len(log[q]) + 1)..Len(log'[q]) /\ j \in 1..Len(log'[q])
      BY <1>2, <2>2
    <3>2. log'[q][j].id > nextEventID
      BY <3>1 DEF Grows
    <3>3. log'[q][j] \in Events
      BY <1>2, <3>1
    <3>4. log'[q][j].id \in Nat
      BY <3>3 DEF Events
    <3> QED BY <1>2, <3>2, <3>4
  <2> QED BY <2>1, <2>2
<1>5. /\ subscribers'[i].scope = q
      /\ SitsAt(subscribers'[i].queue, log'[q], c)
      /\ subscribers'[i].open => c + Len(subscribers'[i].queue) = Len(log'[q])
  <2>1. CASE /\ subscribers'[i].queue = subscribers[i].queue
             /\ subscribers'[i].open => log'[q] = log[q]
    BY <1>1, <1>2, <1>3, <2>1, CarriedFacts, SitsStill
  <2>2. ASSUME NEW e \in Events,
               subscribers'[i].queue = Append(subscribers[i].queue, e),
               log'[q] = Append(log[q], e),
               subscribers[i].open
        PROVE  <1>5!:
    <3>1. subscribers'[i].scope = q
      BY <1>1, CarriedFacts
    <3>2. /\ SitsAt(Append(subscribers[i].queue, e), Append(log[q], e), c)
          /\ c + Len(Append(subscribers[i].queue, e)) = Len(Append(log[q], e))
      BY <1>1, <1>2, <1>3, <2>2, SitsWith, ZenonT(30)
    <3> QED BY <2>2, <3>1, <3>2
  <2> QED BY <1>1, <2>1, <2>2, CarriedFacts
<1> QED BY <1>4, <1>5 DEF QueueAt, LogOf, SameSubscription

LEMMA SegmentCarried ==
  ASSUME TypeOK, NEW i \in SubscriberIds, NEW q \in RunScopes, Grows(q),
         streams[i] \in StreamRecords, streams[i].scope = q, streams'[i].scope = q,
         streams'[i].got = streams[i].got, streams'[i].replay = streams[i].replay,
         streams'[i].after = streams[i].after, streams'[i].notice = streams[i].notice,
         streams[i].after <= nextEventID,
         NEW a \in 0..Len(log[q]), SegmentAt(i, a)
  PROVE  SegmentAt(i, a)'
<1> DEFINE x == streams[i]
<1>1. /\ x.got \in Seq(Events) /\ x.replay \in Seq(Events) /\ x.after \in Nat
      /\ Len(x.got) \in Nat /\ Len(x.replay) \in Nat
  BY DEF StreamRecords
<1>2. /\ log[q] \in Seq(Events) /\ log'[q] \in Seq(Events) /\ a \in Nat /\ nextEventID \in Nat
      /\ Len(log[q]) \in Nat /\ Len(log'[q]) \in Nat /\ Len(log[q]) <= Len(log'[q])
  BY DEF Grows, TypeOK
<1>3. /\ SitsAt(x.got, log[q], a) /\ SitsAt(x.replay, log[q], a + Len(x.got))
      /\ \A j \in (a + 1)..Len(log[q]) : log[q][j].id > x.after
      /\ x.notice = Null => \A j \in 1..a : log[q][j].id <= x.after
  BY DEF SegmentAt, LogOf
<1> HIDE DEF x
<1>4. SitsAt(x.got, log'[q], a) /\ SitsAt(x.replay, log'[q], a + Len(x.got))
  <2>1. a + Len(x.got) \in Nat
    BY <1>1, <1>2
  <2> QED BY <1>1, <1>2, <1>3, <2>1, SitsStill
<1>5. ASSUME NEW j \in (a + 1)..Len(log'[q])
      PROVE  log'[q][j].id > x.after
  <2>1. CASE j <= Len(log[q])
    <3>1. j \in (a + 1)..Len(log[q]) /\ j \in 1..Len(log[q])
      BY <1>2, <2>1
    <3> QED BY <1>3, <3>1 DEF Grows
  <2>2. CASE ~(j <= Len(log[q]))
    <3>1. j \in (Len(log[q]) + 1)..Len(log'[q]) /\ j \in 1..Len(log'[q])
      BY <1>2, <2>2
    <3>2. log'[q][j].id > nextEventID
      BY <3>1 DEF Grows
    <3>3. log'[q][j] \in Events
      BY <1>2, <3>1
    <3>4. log'[q][j].id \in Nat
      BY <3>3 DEF Events
    <3>5. x.after <= nextEventID
      BY DEF x
    <3> QED BY <1>1, <1>2, <3>2, <3>4, <3>5
  <2> QED BY <2>1, <2>2
<1>6. x.notice = Null => \A j \in 1..a : log'[q][j].id <= x.after
  <2>1. \A j \in 1..a : j \in 1..Len(log[q])
    BY <1>2
  <2> QED BY <1>3, <2>1 DEF Grows
<1> QED BY <1>4, <1>5, <1>6 DEF SegmentAt, LogOf, x

\* A step that at most moves the stream from where it sends to where it ends, and
\* from where it gives up to where it has failed.
PcMoves(i) ==
  \E pc \in StreamLabels :
     /\ streams'[i] = [streams[i] EXCEPT !.pc = pc]
     /\ \/ pc = streams[i].pc
        \/ streams[i].pc = "unsubscribe" /\ pc = "failed"
        \/ streams[i].pc = "read" /\ pc \in {"eof", "close"}
        \/ streams[i].pc = "close" /\ pc = "closed"

LEMMA PcMovesFacts ==
  ASSUME NEW i \in SubscriberIds, streams[i] \in StreamRecords, PcMoves(i)
  PROVE  /\ streams'[i] \in StreamRecords
         /\ streams'[i].scope = streams[i].scope /\ streams'[i].after = streams[i].after
         /\ streams'[i].live = streams[i].live /\ streams'[i].from = streams[i].from
         /\ streams'[i].replay = streams[i].replay /\ streams'[i].notice = streams[i].notice
         /\ streams'[i].got = streams[i].got
         /\ \/ streams'[i].pc = streams[i].pc
            \/ streams[i].pc = "unsubscribe" /\ streams'[i].pc = "failed"
            \/ streams[i].pc = "read" /\ streams'[i].pc \in {"eof", "close"}
            \/ streams[i].pc = "close" /\ streams'[i].pc = "closed"
<1>1. PICK pc \in StreamLabels :
        /\ streams'[i] = [streams[i] EXCEPT !.pc = pc]
        /\ \/ pc = streams[i].pc
           \/ streams[i].pc = "unsubscribe" /\ pc = "failed"
           \/ streams[i].pc = "read" /\ pc \in {"eof", "close"}
           \/ streams[i].pc = "close" /\ pc = "closed"
  BY DEF PcMoves
<1> DEFINE r == [streams[i] EXCEPT !.pc = pc]
<1>2. /\ r \in StreamRecords /\ r.pc = pc
      /\ r.scope = streams[i].scope /\ r.after = streams[i].after
      /\ r.live = streams[i].live /\ r.from = streams[i].from
      /\ r.replay = streams[i].replay /\ r.notice = streams[i].notice /\ r.got = streams[i].got
  BY DEF StreamRecords
<1>3. streams'[i] = r
  BY <1>1
<1> HIDE DEF r
<1> QED BY <1>1, <1>2, <1>3

\* What a step that moves stream i at most so does to logs and channels.
CarriesStream(i) ==
  /\ PcMoves(i)
  /\ nextEventID' \in Nat /\ nextEventID <= nextEventID'
  /\ \A q \in RunScopes :
       /\ Grows(q)
       /\ subscribers[i] # Null /\ subscribers[i].scope = q
            => subscribers'[i] # Null /\ Carried(i, q)

LEMMA FollowingCarried ==
  ASSUME TypeOK, NEW i \in SubscriberIds, streams[i] \in StreamRecords, StreamFollows(i),
         CarriesStream(i)
  PROVE  StreamFollows(i)'
<1> DEFINE x == streams[i]
           y == streams'[i]
           q == x.scope
<1>1. /\ y \in StreamRecords /\ y.scope = q /\ y.after = x.after /\ y.live = x.live
      /\ y.from = x.from /\ y.replay = x.replay /\ y.notice = x.notice /\ y.got = x.got
      /\ \/ y.pc = x.pc
         \/ x.pc = "unsubscribe" /\ y.pc = "failed"
         \/ x.pc = "read" /\ y.pc \in {"eof", "close"}
         \/ x.pc = "close" /\ y.pc = "closed"
  BY PcMovesFacts DEF CarriesStream
<1>2. /\ x.pc = "new" => q = Null
      /\ x.pc \notin {"new", "eof"} \/ x.live => q \in RunScopes
      /\ x.pc \in Unplaced => ~x.live
      /\ x.pc \in Unplaced \cup Unsent \/ q \notin RunScopes => x.got = <<>> /\ x.replay = <<>>
      /\ x.live => x.from <= nextEventID /\ \E c \in 0..Len(LogOf(i)) : QueueAt(i, c)
      /\ x.after # NeverIssued => /\ x.after <= nextEventID
                                  /\ x.live => x.after <= x.from
      /\ x.pc \in Sending /\ x.after # NeverIssued /\ q \in RunScopes => InPlace(i)
  BY DEF StreamFollows
<1>3. x.after \in Nat /\ x.from \in Nat /\ nextEventID \in Nat /\ nextEventID' \in Nat
      /\ nextEventID <= nextEventID'
  BY DEF StreamRecords, TypeOK, CarriesStream
<1>4. ASSUME q \in RunScopes
      PROVE  /\ Grows(q) /\ Len(log[q]) \in Nat /\ Len(log'[q]) \in Nat
             /\ 0..Len(log[q]) \subseteq 0..Len(log'[q])
             /\ LogOf(i) = log[q] /\ LogOf(i)' = log'[q]
  <2>1. Grows(q)
    BY <1>4 DEF CarriesStream
  <2>2. Len(log[q]) \in Nat /\ Len(log'[q]) \in Nat /\ Len(log[q]) <= Len(log'[q])
    BY <2>1 DEF Grows
  <2>3. LogOf(i) = log[q] /\ LogOf(i)' = log'[q]
    BY <1>1 DEF LogOf
  <2> QED BY <2>1, <2>2, <2>3
<1>5. ASSUME x.live, NEW c \in 0..Len(log[q]), QueueAt(i, c)
      PROVE  QueueAt(i, c)'
  <2>1. q \in RunScopes /\ subscribers[i] # Null /\ subscribers[i].scope = q
    BY <1>2, <1>5 DEF QueueAt
  <2>2. Carried(i, q) /\ subscribers'[i] # Null
    BY <2>1 DEF CarriesStream
  <2>3. SameSubscription(i, q)
    BY <1>1 DEF SameSubscription
  <2>4. x.from <= nextEventID
    BY <1>2, <1>5
  <2> QED BY <1>3, <1>4, <1>5, <2>1, <2>2, <2>3, <2>4, QueueCarried
<1>6. y.live => y.from <= nextEventID' /\ \E c \in 0..Len(LogOf(i)') : QueueAt(i, c)'
  <2> SUFFICES ASSUME x.live PROVE y.from <= nextEventID' /\ \E c \in 0..Len(LogOf(i)') : QueueAt(i, c)'
    BY <1>1
  <2>1. q \in RunScopes /\ x.from <= nextEventID
    BY <1>2
  <2>2. PICK c \in 0..Len(log[q]) : QueueAt(i, c)
    BY <1>2, <1>4, <2>1
  <2>3. c \in 0..Len(LogOf(i)') /\ QueueAt(i, c)'
    BY <1>4, <1>5, <2>1, <2>2
  <2>4. y.from <= nextEventID'
    BY <1>1, <1>3, <2>1
  <2> QED BY <2>3, <2>4
<1>7. ASSUME y.pc \in Sending, y.after # NeverIssued, q \in RunScopes
      PROVE  InPlace(i)'
  <2>1. x.pc \in Sending /\ x.after # NeverIssued
    BY <1>1, <1>7 DEF Sending
  <2>2. PICK a \in 0..Len(log[q]), c \in 0..Len(log[q]) : FollowsAt(i, a, c)
    BY <1>2, <1>4, <1>7, <2>1 DEF InPlace
  <2>3. SegmentAt(i, a)'
    <3>1. SegmentAt(i, a) /\ x.after <= nextEventID
      BY <1>2, <2>1, <2>2 DEF FollowsAt
    <3> QED BY <1>1, <1>4, <1>7, <3>1, SegmentCarried
  <2>4. SentUpTo(i, a)' = SentUpTo(i, a)
    BY <1>1 DEF SentUpTo
  <2>5. y.live => /\ QueueAt(i, c)'
                  /\ c <= SentUpTo(i, a)'
                  /\ SentUpTo(i, a)' = a => c = a
    BY <1>1, <1>5, <2>2, <2>4 DEF FollowsAt
  <2>6. FollowsAt(i, a, c)'
    BY <2>3, <2>5 DEF FollowsAt
  <2> QED BY <1>4, <1>7, <2>2, <2>6 DEF InPlace
<1>8. /\ y.pc = "new" => y.scope = Null
      /\ y.pc \notin {"new", "eof"} \/ y.live => y.scope \in RunScopes
      /\ y.pc \in Unplaced => ~y.live
      /\ y.pc \in Unplaced \cup Unsent \/ y.scope \notin RunScopes => y.got = <<>> /\ y.replay = <<>>
  BY <1>1, <1>2 DEF Unplaced, Unsent
<1>9. y.after # NeverIssued => /\ y.after <= nextEventID'
                               /\ y.live => y.after <= y.from
  BY <1>1, <1>2, <1>3
<1> HIDE DEF x, y
<1> QED BY <1>1, <1>6, <1>7, <1>8, <1>9 DEF StreamFollows, x, y

\* A set of places of a log with n of them in a row has at least n elements.
LEMMA RowCounts ==
  ASSUME NEW N \in Nat, NEW P, NEW m \in Nat, NEW S, S \subseteq 1..N,
         \A j \in (m + 1)..N : j \in S, N - m > P, P \in Nat
  PROVE  Cardinality(S) > P
<1>1. IsFiniteSet(1..N)
  BY FS_Interval
<1>2. IsFiniteSet(S)
  BY <1>1, FS_Subset
<1>3. Cardinality((m + 1)..N) <= Cardinality(S)
  BY <1>2, FS_Subset
<1>4. Cardinality((m + 1)..N) = N - m
  <2>1. m + 1 \in Int /\ N \in Int /\ ~(m + 1 > N)
    OBVIOUS
  <2>2. Cardinality((m + 1)..N) = N - (m + 1) + 1
    BY <2>1, FS_Interval
  <2> QED BY <2>2
<1>5. Cardinality(S) \in Nat
  BY <1>2, FS_CardinalityType
<1> QED BY <1>3, <1>4, <1>5

\* Who was overtaken stays so.
LEMMA OvertakenStays ==
  ASSUME NEW i \in SubscriberIds, NEW q \in RunScopes, Grows(q),
         streams[i].scope = q, streams'[i].scope = q, streams'[i].from = streams[i].from,
         Overtaken(i)
  PROVE  Overtaken(i)'
<1> DEFINE S == {j \in DOMAIN log[q] : log[q][j].id > streams[i].from}
           T == {j \in DOMAIN log'[q] : log'[q][j].id > streams[i].from}
<1>1. /\ DOMAIN log[q] = 1..Len(log[q]) /\ DOMAIN log'[q] = 1..Len(log'[q])
      /\ Len(log[q]) \in Nat /\ Len(log'[q]) \in Nat /\ Len(log[q]) <= Len(log'[q])
  BY DEF Grows
<1>2. IsFiniteSet(T)
  <2>1. IsFiniteSet(1..Len(log'[q])) /\ T \subseteq 1..Len(log'[q])
    BY <1>1, FS_Interval
  <2> HIDE DEF T
  <2> QED BY <2>1, FS_Subset
<1>3. S \subseteq T
  <2> SUFFICES ASSUME NEW j \in S PROVE j \in T
    OBVIOUS
  <2>1. j \in 1..Len(log[q]) /\ j \in 1..Len(log'[q]) /\ log[q][j].id > streams[i].from
    BY <1>1
  <2>2. log'[q][j] = log[q][j]
    BY <2>1 DEF Grows
  <2> QED BY <1>1, <2>1, <2>2
<1>4. IsFiniteSet(S) /\ Cardinality(S) <= Cardinality(T)
  BY <1>2, <1>3, FS_Subset
<1>5. Cardinality(S) \in Nat /\ Cardinality(T) \in Nat
  BY <1>2, <1>4, FS_CardinalityType
<1>6. Cardinality(S) > SubscriberQueue
  BY DEF Overtaken, LogOf
<1> HIDE DEF S, T
<1>7. Cardinality(T) > SubscriberQueue
  BY <1>4, <1>5, <1>6, LimitsPositive
<1>8. Overtaken(i)' <=> Cardinality(T) > SubscriberQueue
  BY DEF Overtaken, LogOf, T
<1> QED BY <1>7, <1>8

\* An event that did not fit overtakes the stream.
LEMMA OverflowOvertakes ==
  ASSUME TypeOK, NEW i \in SubscriberIds, NEW q \in RunScopes, Grows(q),
         streams[i].scope = q, streams'[i].scope = q, streams'[i].from = streams[i].from,
         streams[i].from \in Nat, streams[i].from <= nextEventID,
         NEW c \in 0..Len(log[q]), QueueAt(i, c), subscribers[i].open, Overflows(i, q)
  PROVE  Overtaken(i)'
<1>1. /\ subscribers[i] # Null /\ c + Len(subscribers[i].queue) = Len(log[q])
      /\ \A j \in (c + 1)..Len(log[q]) : log[q][j].id > streams[i].from
  BY DEF QueueAt, LogOf
<1>2. subscribers[i].queue \in Seq(Events)
  BY <1>1, SubscriberFacts DEF SubscriberRecords
<1>3. /\ log[q] \in Seq(Events) /\ log'[q] \in Seq(Events) /\ Len(log[q]) \in Nat
      /\ DOMAIN log'[q] = 1..Len(log'[q]) /\ Len(log'[q]) = Len(log[q]) + 1
      /\ Len(subscribers[i].queue) \in Nat /\ c \in Nat /\ SubscriberQueue \in Nat
      /\ Len(subscribers[i].queue) >= SubscriberQueue /\ nextEventID \in Nat
  BY <1>2, LimitsPositive DEF Grows, Overflows, TypeOK
<1> DEFINE T == {j \in DOMAIN log'[q] : log'[q][j].id > streams[i].from}
           N == Len(log[q]) + 1
<1>4. \A j \in (c + 1)..N : j \in T
  <2> SUFFICES ASSUME NEW j \in (c + 1)..N PROVE log'[q][j].id > streams[i].from
    BY <1>3
  <2>1. CASE j <= Len(log[q])
    <3>1. j \in (c + 1)..Len(log[q]) /\ j \in 1..Len(log[q])
      BY <1>3, <2>1
    <3> QED BY <1>1, <3>1 DEF Grows
  <2>2. CASE ~(j <= Len(log[q]))
    <3>1. j \in (Len(log[q]) + 1)..Len(log'[q]) /\ j \in 1..Len(log'[q])
      BY <1>3, <2>2
    <3>2. log'[q][j].id > nextEventID
      BY <3>1 DEF Grows
    <3>3. log'[q][j] \in Events
      BY <1>3, <3>1
    <3>4. log'[q][j].id \in Nat
      BY <3>3 DEF Events
    <3> QED BY <1>3, <3>2, <3>4
  <2> QED BY <2>1, <2>2
<1>5. T \subseteq 1..N /\ N \in Nat /\ N - c > SubscriberQueue
  BY <1>1, <1>3, SMTT(30)
<1>6. Overtaken(i)' <=> Cardinality(T) > SubscriberQueue
  BY DEF Overtaken, LogOf
<1> HIDE DEF T, N
<1> QED BY <1>3, <1>4, <1>5, <1>6, RowCounts

LEMMA ExplanationCarried ==
  ASSUME TypeOK, NEW i \in SubscriberIds, streams[i] \in StreamRecords,
         StreamFollows(i), EndExplained(i), CarriesStream(i),
         streams'[i].pc = "eof" /\ streams'[i].live => ~subscribers'[i].open,
         \/ streams'[i].pc \in {"failed", "closed"}
         \/ \A q \in RunScopes : subscribers[i] # Null /\ subscribers[i].scope = q
                                   => ClosedFor(i, q)
  PROVE  EndExplained(i)'
<1> DEFINE x == streams[i]
           y == streams'[i]
           q == x.scope
<1>1. /\ y.scope = q /\ y.live = x.live /\ y.from = x.from
      /\ y.pc \notin {"failed", "closed"} => x.pc \notin {"failed", "closed"}
  BY PcMovesFacts DEF CarriesStream
<1> SUFFICES ASSUME y.live, y.pc \notin {"failed", "closed"}, q[2] \in Turns,
                    ~subscribers'[i].open
             PROVE  Ended(streams[i].scope)' \/ Overtaken(i)'
  BY <1>1 DEF EndExplained
<1>2. /\ x.live /\ x.pc \notin {"failed", "closed"} /\ q \in RunScopes
      /\ x.from <= nextEventID /\ x.from \in Nat
  BY <1>1 DEF StreamFollows, StreamRecords
<1>3. PICK p \in RunScopes : p = q
  BY <1>2
<1>4. Grows(p) /\ LogOf(i) = log[p]
  BY <1>3 DEF CarriesStream, LogOf
<1>5. PICK c \in 0..Len(log[p]) : QueueAt(i, c)
  BY <1>2, <1>4 DEF StreamFollows
<1>6. subscribers[i] # Null /\ subscribers[i].scope = p
  BY <1>3, <1>5 DEF QueueAt
<1>7. CASE ~subscribers[i].open
  <2>1. Ended(p) \/ Overtaken(i)
    BY <1>2, <1>3, <1>7 DEF EndExplained
  <2>2. Ended(p) => Ended(p)'
    BY <1>4, EndedStays
  <2>3. Overtaken(i) => Overtaken(i)'
    BY <1>1, <1>3, <1>4, OvertakenStays
  <2> QED BY <1>1, <1>3, <2>1, <2>2, <2>3 DEF Ended
<1>8. CASE subscribers[i].open
  <2>1. Ended(p) \/ Overflows(i, p)
    BY <1>3, <1>6, <1>8 DEF ClosedFor
  <2>2. Ended(p) => Ended(p)'
    BY <1>4, EndedStays
  <2>3. Overflows(i, p) => Overtaken(i)'
    BY <1>1, <1>2, <1>3, <1>4, <1>5, <1>8, OverflowOvertakes
  <2> QED BY <1>1, <1>3, <2>1, <2>2, <2>3 DEF Ended
<1> QED BY <1>7, <1>8

LEMMA CarriedStays ==
  ASSUME TypeOK, NEW i \in SubscriberIds, NEW q \in RunScopes, Carried(i, q),
         subscribers[i] # Null
  PROVE  subscribers'[i] # Null
<1>1. subscribers[i] \in SubscriberRecords
  BY SubscriberFacts
<1>2. subscribers'[i] \in SubscriberRecords
  <2>1. ASSUME NEW e \in Events,
               subscribers'[i] = [subscribers[i] EXCEPT !.queue = Append(@, e)]
        PROVE  subscribers'[i] \in SubscriberRecords
    <3>1. subscribers[i].queue \in Seq(Events)
      BY <1>1 DEF SubscriberRecords
    <3>2. Append(subscribers[i].queue, e) \in Seq(Events)
      BY <3>1
    <3> QED BY <1>1, <2>1, <3>2 DEF SubscriberRecords
  <2>2. CASE subscribers'[i] = [subscribers[i] EXCEPT !.open = FALSE]
    BY <1>1, <2>2 DEF SubscriberRecords
  <2> QED BY <1>1, <2>1, <2>2 DEF Carried
<1> QED BY <1>2, NullIsNoStreamValue

\* A stream that is not touched has its place carried along.
LEMMA Untouched ==
  ASSUME TypeOK, StreamsTypeOK, NEW i \in SubscriberIds, StreamFollows(i), EndExplained(i),
         streams'[i] = streams[i],
         nextEventID' \in Nat, nextEventID <= nextEventID',
         \A q \in RunScopes :
           /\ Grows(q)
           /\ subscribers[i] # Null /\ subscribers[i].scope = q => Carried(i, q) /\ ClosedFor(i, q)
  PROVE  StreamFollows(i)' /\ EndExplained(i)'
<1>1. streams[i] \in StreamRecords
  BY DEF StreamsTypeOK
<1>2. PcMoves(i)
  <2>1. streams[i].pc \in StreamLabels /\ streams'[i] = [streams[i] EXCEPT !.pc = streams[i].pc]
    BY <1>1 DEF StreamRecords
  <2> QED BY <2>1 DEF PcMoves
<1>3. CarriesStream(i)
  BY <1>2, CarriedStays DEF CarriesStream
<1>4. streams'[i].pc = "eof" /\ streams'[i].live => ~subscribers'[i].open
  <2> SUFFICES ASSUME streams[i].pc = "eof", streams[i].live PROVE ~subscribers'[i].open
    OBVIOUS
  <2>1. ~subscribers[i].open
    BY DEF EndExplained
  <2>2. streams[i].scope \in RunScopes /\ \E c \in 0..Len(LogOf(i)) : QueueAt(i, c)
    BY DEF StreamFollows
  <2>3. PICK p \in RunScopes : p = streams[i].scope
    BY <2>2
  <2>4. subscribers[i] # Null /\ subscribers[i].scope = p
    BY <2>2, <2>3 DEF QueueAt
  <2>5. Carried(i, p) /\ subscribers'[i] # Null
    BY <2>4, CarriedStays
  <2> QED BY <2>1, <2>4, <2>5, CarriedFacts
<1> QED BY <1>1, <1>3, <1>4, FollowingCarried, ExplanationCarried

-----------------------------------------------------------------------------
(* Steps of the chat service and of other streams                          *)

LEMMA EventIdsGrow ==
  ASSUME TypeOK, StoresForStreams
  PROVE  nextEventID' \in Nat /\ nextEventID <= nextEventID'
<1>1. nextEventID \in Nat
  BY DEF TypeOK
<1>2. nextEventID' \in {nextEventID, nextEventID + 1}
  <2>1. CASE AppendsAnEvent
    BY <2>1 DEF AppendsAnEvent, AppendEvent
  <2>2. CASE CompletesARun
    BY <2>2 DEF CompletesARun, CompleteRun
  <2>3. CASE LeavesLogsAlone
    BY <2>3 DEF LeavesLogsAlone
  <2> QED BY <2>1, <2>2, <2>3 DEF StoresForStreams
<1> QED BY <1>1, <1>2

LEMMA RuntimeKeepsStreams ==
  ASSUME StreamInv, [RuntimeNext]_runtimeVars, UNCHANGED streams, NEW i \in SubscriberIds
  PROVE  StreamFollows(i)' /\ EndExplained(i)'
<1>1. TypeOK /\ StreamsTypeOK /\ StreamFollows(i) /\ EndExplained(i)
  BY DEF StreamInv, RuntimeInv, RuntimeTypeOK
<1>2. StoresForStreams
  BY RuntimeStores DEF StreamInv
<1>3. AppendsAnEvent \/ log' = log
  BY <1>2 DEF StoresForStreams, CompletesARun, CompleteRun, LeavesLogsAlone
<1>4. \A q \in RunScopes : Grows(q)
  BY <1>1, <1>3, LogsGrow
<1>5. \A q \in RunScopes : subscribers[i] # Null /\ subscribers[i].scope = q
                             => Carried(i, q) /\ ClosedFor(i, q)
  BY <1>1, <1>2, StoresCarry
<1> QED BY <1>1, <1>2, <1>4, <1>5, EventIdsGrow, Untouched

\* What the store does in a step of a stream.
StoreStepOf(j) == \/ \E s \in RunScopes : Subscribe(j, s) \/ Replay(s)
                  \/ Unsubscribe(j) \/ Receive(j) \/ UNCHANGED vars

StreamStep(j) == OpenStream(j) \/ Serve(j) \/ CancelStream(j)

LEMMA StoreStepFrame ==
  ASSUME TypeOK, NEW j \in SubscriberIds, StoreStepOf(j)
  PROVE  /\ UNCHANGED <<log, nextEventID>> /\ nextEventID \in Nat
         /\ \A q \in RunScopes : Grows(q)
         /\ \A i \in SubscriberIds : i # j => \A q \in RunScopes : Carried(i, q) /\ ClosedFor(i, q)
<1>1. UNCHANGED <<log, nextEventID>> /\ nextEventID \in Nat
  BY DEF StoreStepOf, TypeOK, Subscribe, Replay, Unsubscribe, Receive, vars
<1>2. \A q \in RunScopes : Grows(q)
  BY <1>1, LogsGrow
<1>3. \A i \in SubscriberIds : i # j => \A q \in RunScopes : Carried(i, q) /\ ClosedFor(i, q)
  BY ReadersCarry DEF StoreStepOf
<1> QED BY <1>1, <1>2, <1>3

\* A step of a stream changes the store in one call, and nothing else but itself.
LEMMA StreamStepFrame ==
  ASSUME TypeOK, StreamsTypeOK, NEW j \in SubscriberIds, StreamFollows(j), StreamStep(j)
  PROVE  /\ StoreStepOf(j) /\ Alone
         /\ \A i \in SubscriberIds : i # j => streams'[i] = streams[i]
<1>0. streams \in [SubscriberIds -> StreamRecords]
  BY DEF StreamsTypeOK
<1>1. streams[j].pc \in {"subscribe", "replay"} => streams[j].scope \in RunScopes
  BY DEF StreamFollows
<1>2. CASE OpenStream(j)
  BY <1>0, <1>2 DEF OpenStream, StoreStepOf
<1>3. CASE SubscribeStream(j)
  BY <1>0, <1>1, <1>3 DEF SubscribeStream, StoreStepOf
<1>4. CASE ReplayStream(j)
  BY <1>0, <1>1, <1>4 DEF ReplayStream, StoreStepOf
<1>5. CASE RefuseStream(j) \/ CloseStream(j)
  BY <1>0, <1>5 DEF RefuseStream, CloseStream, StoreStepOf
<1>6. CASE NextReplayed(j) \/ EndStream(j) \/ CancelStream(j)
  BY <1>0, <1>6 DEF NextReplayed, EndStream, CancelStream, StoreStepOf
<1>7. CASE NextLive(j)
  <2>1. Receive(j) /\ Alone
    BY <1>7 DEF NextLive
  <2>2. streams' = streams \/ streams' = Sent(j, Head(subscribers[j].queue))
    BY <1>7 DEF NextLive
  <2>3. \A i \in SubscriberIds : i # j => streams'[i] = streams[i]
    BY <1>0, <2>2 DEF Sent
  <2> QED BY <2>1, <2>3 DEF StoreStepOf
<1> QED BY <1>2, <1>3, <1>4, <1>5, <1>6, <1>7 DEF StreamStep, Serve

\* The other streams are not touched by it.
LEMMA OtherStreamsKept ==
  ASSUME StreamInv, NEW j \in SubscriberIds, StreamStep(j), NEW i \in SubscriberIds, i # j
  PROVE  StreamFollows(i)' /\ EndExplained(i)'
<1>1. /\ TypeOK /\ StreamsTypeOK /\ StreamFollows(i) /\ EndExplained(i)
      /\ StreamFollows(j)
  BY DEF StreamInv, RuntimeInv, RuntimeTypeOK
<1>2. StoreStepOf(j) /\ streams'[i] = streams[i]
  BY <1>1, StreamStepFrame
<1>3. /\ nextEventID' \in Nat /\ nextEventID <= nextEventID'
      /\ \A q \in RunScopes : Grows(q) /\ Carried(i, q) /\ ClosedFor(i, q)
  BY <1>1, <1>2, StoreStepFrame
<1> QED BY <1>1, <1>2, <1>3, Untouched

-----------------------------------------------------------------------------
(* Where a stream only moves on                                            *)

\* Giving a subscription up closes the channel and leaves the log alone.
LEMMA GivesUp ==
  ASSUME TypeOK, NEW i \in SubscriberIds, Unsubscribe(i) \/ UNCHANGED vars,
         NEW q \in RunScopes
  PROVE  Carried(i, q)
<1>1. CASE Unsubscribe(i)
  <2>1. subscribers \in [SubscriberIds -> SubscriberRecords \cup {Null}]
    BY DEF TypeOK
  <2>2. subscribers'[i] = [subscribers[i] EXCEPT !.open = FALSE]
    BY <1>1, <2>1 DEF Unsubscribe
  <2> QED BY <2>2 DEF Carried
<1>2. CASE UNCHANGED vars
  BY <1>2 DEF vars, Carried
<1> QED BY <1>1, <1>2

LEMMA MovingOn ==
  ASSUME TypeOK, StreamsTypeOK, NEW i \in SubscriberIds, StreamFollows(i), EndExplained(i),
         RefuseStream(i) \/ EndStream(i) \/ CancelStream(i) \/ CloseStream(i)
  PROVE  streams'[i] \in StreamRecords /\ StreamFollows(i)' /\ EndExplained(i)'
<1>1. streams \in [SubscriberIds -> StreamRecords] /\ streams[i] \in StreamRecords
  BY DEF StreamsTypeOK
<1>2. StoreStepOf(i) /\ (Unsubscribe(i) \/ UNCHANGED vars)
  BY DEF RefuseStream, EndStream, CancelStream, CloseStream, StoreStepOf
<1>3. PcMoves(i)
  BY <1>1 DEF RefuseStream, EndStream, CancelStream, CloseStream, PcMoves, StreamLabels
<1>4. CarriesStream(i)
  <2>1. /\ nextEventID' \in Nat /\ nextEventID <= nextEventID'
        /\ \A q \in RunScopes : Grows(q)
    BY <1>2, StoreStepFrame
  <2>2. \A q \in RunScopes : Carried(i, q)
    BY <1>2, GivesUp
  <2> QED BY <1>3, <2>1, <2>2, CarriedStays DEF CarriesStream
<1>5. /\ streams'[i] \in StreamRecords
      /\ streams'[i].live = streams[i].live
      /\ \/ streams'[i].pc = streams[i].pc
         \/ streams[i].pc = "unsubscribe" /\ streams'[i].pc = "failed"
         \/ streams[i].pc = "read" /\ streams'[i].pc \in {"eof", "close"}
         \/ streams[i].pc = "close" /\ streams'[i].pc = "closed"
  BY <1>1, <1>3, PcMovesFacts
<1>6. streams'[i].pc = "eof" /\ streams'[i].live => ~subscribers'[i].open
  <2>1. CASE EndStream(i)
    BY <1>5, <2>1 DEF EndStream, vars
  <2>2. CASE RefuseStream(i) \/ CancelStream(i) \/ CloseStream(i)
    BY <1>1, <2>2 DEF RefuseStream, CancelStream, CloseStream, StreamRecords
  <2> QED BY <2>1, <2>2
<1>7. \/ streams'[i].pc \in {"failed", "closed"}
      \/ \A q \in RunScopes : subscribers[i] # Null /\ subscribers[i].scope = q
                                => ClosedFor(i, q)
  <2>1. CASE EndStream(i) \/ CancelStream(i)
    BY <2>1 DEF EndStream, CancelStream, ClosedFor, vars
  <2>2. CASE RefuseStream(i) \/ CloseStream(i)
    BY <1>1, <2>2 DEF RefuseStream, CloseStream, StreamRecords
  <2> QED BY <2>1, <2>2
<1> QED BY <1>1, <1>4, <1>5, <1>6, <1>7, FollowingCarried, ExplanationCarried

-----------------------------------------------------------------------------
(* A stream opens, and subscribes                                          *)

LEMMA OpenStreamStep ==
  ASSUME StreamInv, NEW i \in SubscriberIds, OpenStream(i)
  PROVE  streams'[i] \in StreamRecords /\ StreamFollows(i)' /\ EndExplained(i)'
<1>1. /\ streams \in [SubscriberIds -> StreamRecords] /\ streams[i] \in StreamRecords
      /\ TypeOK /\ nextEventID \in Nat /\ nextEventID' = nextEventID
      /\ streams[i].pc = "new"
  BY DEF StreamInv, StreamsTypeOK, RuntimeInv, RuntimeTypeOK, TypeOK, OpenStream, vars
<1>2. /\ streams[i].scope = Null /\ ~streams[i].live
      /\ streams[i].got = <<>> /\ streams[i].replay = <<>>
      /\ streams[i].after # NeverIssued => streams[i].after <= nextEventID
  BY <1>1 DEF StreamInv, StreamFollows, Unplaced
<1> DEFINE Followed(c, run, after, pc) ==
             streams' = [streams EXCEPT ![i] =
               [@ EXCEPT !.pc = pc, !.scope = <<c, run>>, !.after = after]]
<1>3. CASE streams' = [streams EXCEPT ![i].pc = "eof"]
  <2> DEFINE y == [streams[i] EXCEPT !.pc = "eof"]
  <2>1. /\ y \in StreamRecords /\ y.pc = "eof" /\ y.scope = Null /\ ~y.live
        /\ y.got = <<>> /\ y.replay = <<>> /\ y.after = streams[i].after
    BY <1>1, <1>2 DEF StreamRecords, StreamLabels
  <2>2. streams'[i] = y
    BY <1>1, <1>3
  <2>3. Null \notin RunScopes
    BY NullIsNoStreamValue
  <2> HIDE DEF y
  <2> QED BY <1>1, <1>2, <2>1, <2>2, <2>3
          DEF StreamFollows, EndExplained, Unplaced, Unsent, Sending
<1>4. ASSUME NEW c \in FollowedChats, NEW run \in Runs,
             NEW after \in 0..nextEventID \cup {NeverIssued}, NEW pc \in {"subscribe", "replay"},
             Followed(c, run, after, pc)
      PROVE  streams'[i] \in StreamRecords /\ StreamFollows(i)' /\ EndExplained(i)'
  <2> DEFINE s == <<c, run>>
             y == [streams[i] EXCEPT !.pc = pc, !.scope = s, !.after = after]
  <2>1. s \in RunScopes
    BY FollowedChatsAreChats DEF RunScopes
  <2>2. after \in Nat /\ (after # NeverIssued => after <= nextEventID)
    BY <1>1, BoundsNat DEF NeverIssued
  <2>3. streams'[i] = y
    BY <1>1, <1>4
  <2> HIDE DEF s
  <2>4. /\ y \in StreamRecords /\ y.pc = pc /\ y.scope = s /\ ~y.live
        /\ y.got = <<>> /\ y.replay = <<>> /\ y.after = after
    BY <1>1, <1>2, <2>1, <2>2 DEF StreamRecords, StreamLabels
  <2> HIDE DEF y
  <2> QED BY <1>1, <2>1, <2>2, <2>3, <2>4
          DEF StreamFollows, EndExplained, Unplaced, Unsent, Sending
<1>5. \/ streams' = [streams EXCEPT ![i].pc = "eof"]
      \/ \E c \in FollowedChats, run \in Runs, after \in 0..nextEventID \cup {NeverIssued},
            pc \in {"subscribe", "replay"} : Followed(c, run, after, pc)
  <2>1. PICK c \in FollowedChats :
          LET active == IF HasActiveRun(c) THEN activeRuns[c].run ELSE Null
              follow(run, after) ==
                streams' = [streams EXCEPT ![i] =
                  [@ EXCEPT !.pc = IF run = active THEN "subscribe" ELSE "replay",
                            !.scope = <<c, run>>, !.after = after]] IN
          \/ active = Null /\ streams' = [streams EXCEPT ![i].pc = "eof"]
          \/ /\ active # Null
             /\ \E after \in 0..nextEventID \cup {NeverIssued} : follow(active, after)
          \/ \E run \in Runs : \E id \in EventIdsOf(<<c, run>>) : follow(run, id)
    BY DEF OpenStream
  <2> DEFINE active == IF HasActiveRun(c) THEN activeRuns[c].run ELSE Null
  <2>2. c \in Chats
    BY FollowedChatsAreChats
  <2>3. active # Null => active \in Runs
    BY <1>1, <2>2 DEF HasActiveRun, TypeOK, RunRecords
  <2>4. ASSUME NEW run \in Runs PROVE EventIdsOf(<<c, run>>) \subseteq 0..nextEventID
    <3>1. <<c, run>> \in RunScopes
      BY <2>2 DEF RunScopes
    <3>2. PICK s \in RunScopes : s = <<c, run>>
      BY <3>1
    <3>3. log[s] \in Seq(Events) /\ LogGrows(s)
      BY <1>1, <3>2 DEF StreamInv, ReplayInv, TypeOK
    <3>4. EventIdsOf(s) \subseteq 0..nextEventID
      BY <1>1, <3>3 DEF EventIdsOf, LogGrows
    <3> QED BY <3>2, <3>4
  <2>5. \/ streams' = [streams EXCEPT ![i].pc = "eof"]
        \/ /\ active # Null
           /\ \E after \in 0..nextEventID \cup {NeverIssued}, pc \in {"subscribe", "replay"} :
                Followed(c, active, after, pc)
        \/ \E run \in Runs : \E id \in EventIdsOf(<<c, run>>), pc \in {"subscribe", "replay"} :
             Followed(c, run, id, pc)
    BY <2>1
  <2> HIDE DEF active, Followed
  <2> QED BY <2>3, <2>4, <2>5
<1> HIDE DEF Followed
<1> QED BY <1>3, <1>4, <1>5

LEMMA SubscribeStreamStep ==
  ASSUME StreamInv, NEW i \in SubscriberIds, SubscribeStream(i)
  PROVE  streams'[i] \in StreamRecords /\ StreamFollows(i)' /\ EndExplained(i)'
<1> DEFINE x == streams[i]
           y == streams'[i]
           q == x.scope
<1>1. /\ streams \in [SubscriberIds -> StreamRecords] /\ x \in StreamRecords
      /\ TypeOK /\ x.pc = "subscribe" /\ StreamFollows(i)
  BY DEF StreamInv, StreamsTypeOK, RuntimeInv, RuntimeTypeOK, SubscribeStream
<1>2. /\ q \in RunScopes /\ x.got = <<>> /\ x.replay = <<>>
      /\ x.after # NeverIssued => x.after <= nextEventID
  BY <1>1 DEF StreamFollows, Unplaced
<1>3. log[q] \in Seq(Events) /\ nextEventID \in Nat
  BY <1>1, <1>2 DEF TypeOK
<1>4. log' = log /\ nextEventID' = nextEventID
  BY DEF SubscribeStream, Subscribe, vars
<1>5. y = [x EXCEPT !.pc = "replay", !.live = IsActive(q), !.from = nextEventID]
  BY <1>1 DEF SubscribeStream
<1>6. IsActive(q) \in BOOLEAN
  BY DEF IsActive
<1>7. /\ y \in StreamRecords /\ y.pc = "replay" /\ y.scope = q /\ y.after = x.after
      /\ y.live = IsActive(q) /\ y.from = nextEventID /\ y.got = <<>> /\ y.replay = <<>>
  BY <1>1, <1>2, <1>3, <1>5, <1>6 DEF StreamRecords, StreamLabels
<1> HIDE DEF x, y
<1> PICK N \in Nat : N = Len(log[q])
  BY <1>3
<1>8. ASSUME y.live
      PROVE  QueueAt(i, N)' /\ subscribers'[i].open
  <2>1. Subscribe(i, q)
    BY <1>7, <1>8 DEF SubscribeStream, x
  <2>2. subscribers'[i] = [scope |-> q, queue |-> <<>>, open |-> TRUE]
    BY <1>1, <2>1 DEF Subscribe, TypeOK
  <2>3. subscribers'[i] # Null
    <3>1. [scope |-> q, queue |-> <<>>, open |-> TRUE] \in SubscriberRecords
      BY <1>2 DEF SubscriberRecords
    <3> QED BY <2>2, <3>1, NullIsNoStreamValue
  <2>4. LogOf(i)' = log[q] /\ Len(log[q]) \in Nat
    BY <1>3, <1>4, <1>7 DEF LogOf, y
  <2>5. /\ SitsAt(<<>>, log[q], N) /\ N + Len(<<>>) = Len(log[q])
        /\ \A j \in (N + 1)..Len(log[q]) : FALSE
    BY <2>4 DEF SitsAt
  <2>6. streams'[i].scope = q
    BY <1>7 DEF y
  <2>7. /\ subscribers'[i].scope = q /\ subscribers'[i].queue = <<>> /\ subscribers'[i].open
    BY <2>2
  <2> QED BY <1>4, <2>3, <2>4, <2>5, <2>6, <2>7 DEF QueueAt
<1>9. y.live => \E c \in 0..Len(LogOf(i)') : QueueAt(i, c)'
  <2>1. LogOf(i)' = log[q] /\ N \in 0..Len(log[q])
    BY <1>3, <1>4, <1>7 DEF LogOf, y
  <2> QED BY <1>8, <2>1
<1>10. StreamFollows(i)'
  <2>1. y.after \in Nat /\ y.from <= nextEventID'
    BY <1>3, <1>4, <1>7 DEF StreamRecords
  <2> QED BY <1>2, <1>4, <1>7, <1>9, <2>1 DEF StreamFollows, Unplaced, Unsent, Sending, y
<1>11. EndExplained(i)'
  BY <1>7, <1>8 DEF EndExplained, y
<1> QED BY <1>7, <1>10, <1>11 DEF y

-----------------------------------------------------------------------------
(* A stream asks for the replay                                            *)

\* The events the loop of Replay picks are events.
LEMMA EventsAfterType ==
  ASSUME NEW events \in Seq(Events), NEW after
  PROVE  EventsAfter(events, after) \in Seq(Events)
<1> DEFINE N == Len(events)
           f == CHOOSE f : IsPicked(f, events, after, N)
           wrong == {n \in 0..N : f[n] \notin Seq(Events)}
<1>1. EventsAfter(events, after) = f[N] /\ N \in Nat
  BY DEF EventsAfter, IsPicked, PicksNext
<1>2. IsPicked(f, events, after, N)
  BY LoopPicks
<1> HIDE DEF f
<1>3. \A n \in 0..N : f[n] = PicksNext(f, events, after, n)
  BY <1>2 DEF IsPicked
<1> SUFFICES ASSUME wrong # {} PROVE FALSE
  BY <1>1
<1>4. PICK n \in wrong : \A i \in wrong : n <= i
  <2>1. wrong \subseteq Nat
    OBVIOUS
  <2> HIDE DEF wrong
  <2> QED BY <2>1, LeastNumber
<1>5. n \in 0..N /\ f[n] \notin Seq(Events) /\ \A i \in 0..N : i < n => f[i] \in Seq(Events)
  BY <1>4
<1> HIDE DEF wrong
<1>6. n # 0
  <2>1. 0 \in 0..N /\ <<>> \in Seq(Events)
    BY <1>1
  <2>2. f[0] = <<>>
    BY <1>3, <2>1 DEF PicksNext
  <2> QED BY <1>5, <2>1, <2>2
<1>7. n - 1 \in 0..N /\ n - 1 < n /\ events[n] \in Events
  BY <1>1, <1>5, <1>6
<1>8. f[n - 1] \in Seq(Events)
  BY <1>5, <1>7
<1>9. f[n] = f[n - 1] \/ f[n] = Append(f[n - 1], events[n])
  BY <1>3, <1>5, <1>6 DEF PicksNext
<1>10. ASSUME NEW g \in Seq(Events), NEW e \in Events PROVE Append(g, e) \in Seq(Events)
  OBVIOUS
<1> QED BY <1>5, <1>7, <1>8, <1>9, <1>10

LEMMA ReplayResultType ==
  ASSUME TypeOK, NEW s \in RunScopes, NEW after \in Nat
  PROVE  LET result == ReplayResult(s, after) IN
         /\ result.events \in Seq(Events)
         /\ NoticeFor(result, after) \in Notices \cup {Null} \/ result.outcome = "out_of_range"
         /\ result.outcome \notin {"ok", "out_of_range"}
              => result.events = <<>> /\ NoticeFor(result, after) # Null
<1> DEFINE buffer == EnforceReplayLimits(replay[s])
           result == ReplayResult(s, after)
<1>1. CASE replay[s] = Null \/ buffer.events = <<>>
  <2>1. result = [outcome |-> "unavailable", events |-> <<>>, evictedBefore |-> 0]
    BY <1>1 DEF ReplayResult
  <2>2. result.outcome = "unavailable" /\ result.events = <<>> /\ <<>> \in Seq(Events)
    BY <2>1
  <2>3. NoticeFor(result, after) = "unavailable"
    BY <2>2 DEF NoticeFor
  <2> QED BY <2>2, <2>3, NullIsNoStreamValue DEF Notices
<1>2. CASE ~(replay[s] = Null \/ buffer.events = <<>>)
  <2>1. replay[s] \in ReplayBuffers
    BY <1>2 DEF TypeOK
  <2>2. buffer.events \in Seq(Events) /\ buffer.evictedBefore \in Nat
    BY <2>1, EnforceReplayLimitsType DEF ReplayBuffers
  <2>3. \/ result = [outcome |-> "cursor_evicted", events |-> <<>>,
                     evictedBefore |-> buffer.evictedBefore]
        \/ result = [outcome |-> "out_of_range", events |-> <<>>,
                     evictedBefore |-> buffer.evictedBefore]
        \/ result = [outcome |-> "ok", events |-> EventsAfter(buffer.events, after),
                     evictedBefore |-> buffer.evictedBefore]
    BY <1>2 DEF ReplayResult
  <2>0. <<>> \in Seq(Events)
    OBVIOUS
  <2> HIDE DEF buffer
  <2>4. EventsAfter(buffer.events, after) \in Seq(Events) /\ <<>> \in Seq(Events)
    BY <2>0, <2>2, EventsAfterType
  <2>5. /\ result.outcome \in {"cursor_evicted", "out_of_range", "ok"}
        /\ result.events \in Seq(Events)
        /\ result.outcome = "cursor_evicted" => result.events = <<>>
    <3> HIDE DEF result
    <3>1. CASE result = [outcome |-> "cursor_evicted", events |-> <<>>,
                         evictedBefore |-> buffer.evictedBefore]
      BY <2>4, <3>1
    <3>2. CASE result = [outcome |-> "out_of_range", events |-> <<>>,
                         evictedBefore |-> buffer.evictedBefore]
      BY <2>4, <3>2
    <3>3. CASE result = [outcome |-> "ok", events |-> EventsAfter(buffer.events, after),
                         evictedBefore |-> buffer.evictedBefore]
      BY <2>4, <3>3
    <3> QED BY <2>3, <3>1, <3>2, <3>3
  <2> HIDE DEF result
  <2>6. result.outcome = "cursor_evicted" => NoticeFor(result, after) = "cursor_evicted"
    BY DEF NoticeFor
  <2>7. result.outcome = "ok" => NoticeFor(result, after) \in {"start_evicted", Null}
    BY DEF NoticeFor
  <2>8. "cursor_evicted" # Null
    BY NullIsNoStreamValue DEF Notices
  <2> QED BY <2>5, <2>6, <2>7, <2>8 DEF Notices, result
<1> QED BY <1>1, <1>2

\* What is replayed ends with the log, and what comes before is behind the cursor,
\* or the stream announces a gap.
LEMMA ReplayPlaces ==
  ASSUME TypeOK, ReplayInv, NEW s \in RunScopes, NEW after \in 0..nextEventID,
         ReplayResult(s, after).outcome = "ok"
  PROVE  LET result == ReplayResult(s, after) IN
         \E a \in 0..Len(log[s]) :
           /\ SitsAt(result.events, log[s], a) /\ a + Len(result.events) = Len(log[s])
           /\ \A j \in (a + 1)..Len(log[s]) : log[s][j].id > after
           /\ NoticeFor(result, after) = Null => \A j \in 1..a : log[s][j].id <= after
<1> DEFINE result == ReplayResult(s, after)
           N == Len(log[s])
<1>1. /\ log[s] \in Seq(Events) /\ LogGrows(s) /\ nextEventID \in Nat
  BY DEF TypeOK, ReplayInv
<1>2. N \in Nat /\ after \in Nat /\ \A i \in 1..N : log[s][i].id \in Nat /\ log[s][i].id > 0
  BY <1>1 DEF LogGrows
<1>3. \/ \E n \in 0..N :
           /\ \A i \in 1..N : log[s][i].id > after <=> i > n
           /\ result.events = Drop(log[s], n)
      \/ /\ after = 0 /\ result.evictedBefore # 0
         /\ IsSuffix(result.events, log[s])
  BY NoSilentGap DEF ReplayHasNoSilentGap
<1>4. result.events \in Seq(Events) /\ result.outcome = "ok"
  BY <1>2, ReplayResultType
<1> HIDE DEF result
<1>5. ASSUME NEW n \in 0..N, \A i \in 1..N : log[s][i].id > after <=> i > n,
             result.events = Drop(log[s], n)
      PROVE  /\ SitsAt(result.events, log[s], n) /\ n + Len(result.events) = N
             /\ \A j \in (n + 1)..N : log[s][j].id > after
             /\ \A j \in 1..n : log[s][j].id <= after
  <2>1. /\ Len(result.events) = N - n
        /\ \A j \in 1..(N - n) : result.events[j] = log[s][n + j]
    BY <1>1, <1>5, DropElements
  <2>2. /\ \A j \in (n + 1)..N : j \in 1..N /\ j > n
        /\ \A j \in 1..n : j \in 1..N /\ ~(j > n)
    BY <1>2
  <2>3. n + Len(result.events) = N
    BY <1>2, <2>1
  <2>4. SitsAt(result.events, log[s], n)
    BY <1>2, <2>1, <2>3, SMTT(30) DEF SitsAt
  <2>5. \A j \in (n + 1)..N : log[s][j].id > after
    BY <1>5, <2>2
  <2>6. \A j \in 1..n : log[s][j].id <= after
    <3> SUFFICES ASSUME NEW j \in 1..n PROVE log[s][j].id <= after
      OBVIOUS
    <3>1. ~(log[s][j].id > after) /\ log[s][j].id \in Nat
      BY <1>2, <1>5, <2>2
    <3> QED BY <1>2, <3>1
  <2> QED BY <2>3, <2>4, <2>5, <2>6
<1>6. ASSUME after = 0, result.evictedBefore # 0, IsSuffix(result.events, log[s])
      PROVE  \E a \in 0..N :
               /\ SitsAt(result.events, log[s], a) /\ a + Len(result.events) = N
               /\ \A j \in (a + 1)..N : log[s][j].id > after
               /\ NoticeFor(result, after) # Null
  <2> DEFINE K == Len(result.events)
  <2>1. K \in Nat /\ K <= N /\ \A j \in 1..K : result.events[j] = log[s][N - K + j]
    <3>1. K \in Nat
      BY <1>4
    <3>2. K <= N /\ \A j \in 1..K : result.events[j] = log[s][N - K + j]
      BY <1>6, Zenon DEF IsSuffix
    <3> QED BY <3>1, <3>2
  <2>2. N - K \in 0..N /\ (N - K) + K = N
    <3> HIDE DEF K, N
    <3> QED BY <1>2, <2>1
  <2>3. SitsAt(result.events, log[s], N - K)
    <3>1. (N - K) + K <= N
      BY <1>2, <2>2
    <3> QED BY <2>1, <3>1, Zenon DEF SitsAt
  <2>4. \A j \in (N - K + 1)..N : log[s][j].id > after
    <3>1. \A j \in (N - K + 1)..N : j \in 1..N
      <4> HIDE DEF K, N
      <4> QED BY <1>2, <2>1
    <3> QED BY <1>2, <1>6, <3>1
  <2>5. NoticeFor(result, after) = "start_evicted"
    BY <1>4, <1>6 DEF NoticeFor
  <2>6. "start_evicted" # Null
    BY NullIsNoStreamValue DEF Notices
  <2> QED BY <2>2, <2>3, <2>4, <2>5, <2>6
<1> QED BY <1>3, <1>5, <1>6 DEF result

\* A stream that only reads keeps the explanation of a closed channel.
LEMMA ExplainedAsBefore ==
  ASSUME NEW i \in SubscriberIds, EndExplained(i), log' = log,
         streams'[i].scope = streams[i].scope, streams'[i].live = streams[i].live,
         streams'[i].from = streams[i].from,
         streams[i].pc \notin {"failed", "closed"}, streams'[i].pc # "eof",
         streams[i].live => subscribers'[i].open = subscribers[i].open
  PROVE  EndExplained(i)'
<1>1. Ended(streams[i].scope)' <=> Ended(streams[i].scope)
  BY DEF Ended
<1>2. Overtaken(i)' <=> Overtaken(i)
  BY DEF Overtaken, LogOf
<1> QED BY <1>1, <1>2 DEF EndExplained

LEMMA ReplayStreamStep ==
  ASSUME StreamInv, NEW i \in SubscriberIds, ReplayStream(i)
  PROVE  streams'[i] \in StreamRecords /\ StreamFollows(i)' /\ EndExplained(i)'
<1> DEFINE x == streams[i]
           y == streams'[i]
           q == x.scope
           result == ReplayResult(q, x.after)
<1>1. /\ streams \in [SubscriberIds -> StreamRecords] /\ x \in StreamRecords
      /\ TypeOK /\ ReplayInv /\ x.pc = "replay" /\ StreamFollows(i) /\ EndExplained(i)
  BY DEF StreamInv, StreamsTypeOK, RuntimeInv, RuntimeTypeOK, ReplayStream
<1>2. /\ q \in RunScopes /\ x.got = <<>> /\ x.replay = <<>>
      /\ x.live => x.from <= nextEventID /\ \E c \in 0..Len(log[q]) : QueueAt(i, c)
      /\ x.after # NeverIssued => /\ x.after <= nextEventID
                                  /\ x.live => x.after <= x.from
  BY <1>1 DEF StreamFollows, Unsent, Unplaced, LogOf
<1>3. /\ log[q] \in Seq(Events) /\ nextEventID \in Nat /\ Len(log[q]) \in Nat
      /\ x.after \in Nat /\ x.from \in Nat
  BY <1>1, <1>2 DEF TypeOK, StreamRecords
<1>4. log' = log /\ nextEventID' = nextEventID /\ subscribers' = subscribers
  BY DEF ReplayStream, Replay
<1>5. /\ result.events \in Seq(Events)
      /\ NoticeFor(result, x.after) \in Notices \cup {Null} \/ result.outcome = "out_of_range"
      /\ result.outcome \notin {"ok", "out_of_range"}
           => result.events = <<>> /\ NoticeFor(result, x.after) # Null
  BY <1>1, <1>2, <1>3, ReplayResultType
<1>6. y = IF result.outcome = "out_of_range" THEN [x EXCEPT !.pc = "unsubscribe"]
          ELSE [x EXCEPT !.pc = "read", !.replay = result.events,
                         !.notice = NoticeFor(result, x.after)]
  BY <1>1 DEF ReplayStream
<1> DEFINE notice == NoticeFor(result, x.after)
<1>7. result.outcome = "ok" /\ x.after # NeverIssued =>
        \E a \in 0..Len(log[q]) :
           /\ SitsAt(result.events, log[q], a) /\ a + Len(result.events) = Len(log[q])
           /\ \A j \in (a + 1)..Len(log[q]) : log[q][j].id > x.after
           /\ notice = Null => \A j \in 1..a : log[q][j].id <= x.after
  <2> SUFFICES ASSUME result.outcome = "ok", x.after # NeverIssued
               PROVE  <1>7!2
    OBVIOUS
  <2>1. x.after \in 0..nextEventID
    BY <1>2, <1>3
  <2> QED BY <1>1, <1>2, <2>1, ReplayPlaces
<1> HIDE DEF result, notice, y
<1>8. /\ y \in StreamRecords /\ y.scope = q /\ y.after = x.after /\ y.live = x.live
      /\ y.from = x.from /\ y.got = <<>>
      /\ \/ y.pc = "unsubscribe" /\ y.replay = <<>>
         \/ y.pc = "read" /\ y.replay = result.events /\ y.notice = notice
  <2>1. CASE result.outcome = "out_of_range"
    BY <1>1, <1>2, <1>6, <2>1 DEF StreamRecords, StreamLabels
  <2>2. CASE result.outcome # "out_of_range"
    <3>1. y = [x EXCEPT !.pc = "read", !.replay = result.events, !.notice = notice]
      BY <1>6, <2>2 DEF notice
    <3>2. result.events \in Seq(Events) /\ notice \in Notices \cup {Null}
      BY <1>5, <2>2 DEF notice
    <3> QED BY <1>1, <1>2, <3>1, <3>2 DEF StreamRecords, StreamLabels
  <2> QED BY <2>1, <2>2
<1>9. LogOf(i)' = log[q] /\ \A c : QueueAt(i, c) => QueueAt(i, c)'
  <2>1. LogOf(i) = log[q] /\ LogOf(i)' = log[q]
    BY <1>4, <1>8 DEF LogOf, y
  <2> QED BY <1>4, <1>8, <2>1 DEF QueueAt, y
<1>10. ASSUME y.pc = "read", x.after # NeverIssued
       PROVE  InPlace(i)'
  <2> DEFINE N == Len(log[q])
  <2>1. y.replay = result.events /\ y.notice = notice
    BY <1>8, <1>10
  <2>2. result.outcome # "out_of_range"
    BY <1>1, <1>6, <1>10 DEF StreamRecords
  <2>3. x.live => /\ x.after <= x.from
                  /\ \E c \in 0..N : QueueAt(i, c) /\ QueueAt(i, c)'
    BY <1>2, <1>9, <1>10
  <2>4. \A c \in 0..N : QueueAt(i, c) => \A j \in (c + 1)..N : log[q][j].id > x.from
    BY DEF QueueAt, LogOf
  <2>5. \A j \in 1..N : log[q][j].id \in Nat /\ log[q][j].id > 0
    BY <1>1, <1>2 DEF ReplayInv, LogGrows
  <2> HIDE DEF N
  <2>6. N \in Nat
    BY <1>3 DEF N
  <2>7. PICK c \in 0..N : x.live => /\ QueueAt(i, c)'
                                    /\ \A j \in (c + 1)..N : log[q][j].id > x.from
    <3>1. 0 \in 0..N
      BY <2>6
    <3> QED BY <2>3, <2>4, <3>1
  <2>8. SentUpTo(i, 0)' = Len(result.events)
    BY <1>5, <1>8, <2>1 DEF SentUpTo, y
  <2>9. ASSUME NEW a \in 0..N, SitsAt(result.events, log[q], a),
               \A j \in (a + 1)..N : log[q][j].id > x.after,
               notice = Null => \A j \in 1..a : log[q][j].id <= x.after,
               x.live => c <= a + Len(result.events) /\ (result.events = <<>> => c = a)
        PROVE  InPlace(i)'
    <3>1. a + Len(y.got) = a /\ SitsAt(y.got, log[q], a)
      BY <1>8, <2>6, <2>9 DEF SitsAt, N
    <3>2. SegmentAt(i, a)'
      BY <1>8, <1>9, <2>1, <2>9, <3>1 DEF SegmentAt, N, y
    <3>3. SentUpTo(i, a)' = a + Len(result.events)
      BY <1>8, <2>1, <3>1 DEF SentUpTo, y
    <3>4. a + Len(result.events) = a => result.events = <<>>
      BY <1>5
    <3>5. FollowsAt(i, a, c)'
      BY <1>8, <2>7, <2>9, <3>2, <3>3, <3>4 DEF FollowsAt, y
    <3>6. a \in 0..Len(LogOf(i)') /\ c \in 0..Len(LogOf(i)')
      BY <1>9 DEF N
    <3> QED BY <3>5, <3>6 DEF InPlace
  <2>10. CASE result.events = <<>> /\ notice # Null
    <3> DEFINE a == IF x.live THEN c ELSE N
    <3>1. a \in 0..N
      BY <2>6
    <3>2. SitsAt(result.events, log[q], a)
      BY <2>6, <2>10, <3>1 DEF SitsAt, N
    <3>3. \A j \in (a + 1)..N : log[q][j].id > x.after
      <4> SUFFICES ASSUME NEW j \in (a + 1)..N PROVE log[q][j].id > x.after
        OBVIOUS
      <4>1. x.live /\ j \in (c + 1)..N /\ j \in 1..N
        BY <2>6
      <4>2. log[q][j].id \in Nat /\ log[q][j].id > x.from /\ x.after <= x.from
        BY <2>3, <2>5, <2>7, <4>1
      <4> QED BY <1>3, <4>2
    <3>4. x.live => c <= a + Len(result.events) /\ c = a
      BY <2>6, <2>10
    <3> HIDE DEF a
    <3> QED BY <2>9, <2>10, <3>1, <3>2, <3>3, <3>4
  <2>11. CASE ~(result.events = <<>> /\ notice # Null)
    <3>1. result.outcome = "ok"
      BY <1>5, <2>2, <2>11 DEF notice
    <3>2. PICK a \in 0..N :
            /\ SitsAt(result.events, log[q], a) /\ a + Len(result.events) = N
            /\ \A j \in (a + 1)..N : log[q][j].id > x.after
            /\ notice = Null => \A j \in 1..a : log[q][j].id <= x.after
      BY <1>7, <1>10, <3>1 DEF N
    <3>3. ASSUME x.live, result.events = <<>> PROVE c = a
      <4>1. a = N /\ \A j \in 1..N : log[q][j].id <= x.after
        BY <2>6, <2>11, <3>2, <3>3
      <4>2. ASSUME c # N PROVE FALSE
        <5>1. N \in (c + 1)..N /\ N \in 1..N
          BY <2>6, <4>2
        <5>2. log[q][N].id > x.from /\ log[q][N].id <= x.after /\ log[q][N].id \in Nat
          BY <2>5, <2>7, <3>3, <4>1, <5>1
        <5>3. x.after <= x.from
          BY <2>3, <3>3
        <5> QED BY <1>3, <5>2, <5>3
      <4> QED BY <4>1, <4>2
    <3>4. c <= a + Len(result.events)
      BY <2>6, <3>2
    <3> QED BY <2>9, <3>2, <3>3, <3>4
  <2> QED BY <2>10, <2>11
<1>11. StreamFollows(i)'
  <2>1. x.live => \E c \in 0..Len(LogOf(i)') : QueueAt(i, c)'
    BY <1>2, <1>9
  <2> HIDE DEF x
  <2> QED BY <1>2, <1>4, <1>8, <1>10, <2>1 DEF StreamFollows, Unplaced, Unsent, Sending, y
<1>12. EndExplained(i)'
  <2>1. x.pc \notin {"failed", "closed"} /\ y.pc # "eof"
    BY <1>1, <1>8
  <2> QED BY <1>1, <1>4, <1>8, <2>1, ExplainedAsBefore DEF y
<1> QED BY <1>8, <1>11, <1>12 DEF y

-----------------------------------------------------------------------------
(* A stream sends an event                                                 *)

LEMMA NextReplayedStep ==
  ASSUME StreamInv, NEW i \in SubscriberIds, NextReplayed(i)
  PROVE  streams'[i] \in StreamRecords /\ StreamFollows(i)' /\ EndExplained(i)'
<1> DEFINE x == streams[i]
           y == streams'[i]
           q == x.scope
<1>1. /\ streams \in [SubscriberIds -> StreamRecords] /\ x \in StreamRecords
      /\ TypeOK /\ x.pc = "read" /\ x.replay # <<>> /\ StreamFollows(i) /\ EndExplained(i)
      /\ UNCHANGED <<log, nextEventID, subscribers>>
  BY DEF StreamInv, StreamsTypeOK, RuntimeInv, RuntimeTypeOK, NextReplayed, vars
<1>2. /\ q \in RunScopes
      /\ x.live => x.from <= nextEventID /\ \E c \in 0..Len(log[q]) : QueueAt(i, c)
      /\ x.after # NeverIssued => /\ x.after <= nextEventID
                                  /\ x.live => x.after <= x.from
      /\ x.after # NeverIssued => InPlace(i)
  BY <1>1 DEF StreamFollows, Sending, LogOf
<1>3. /\ log[q] \in Seq(Events) /\ Len(log[q]) \in Nat
      /\ x.got \in Seq(Events) /\ x.replay \in Seq(Events)
      /\ Len(x.got) \in Nat /\ Len(x.replay) \in Nat
      /\ Head(x.replay) \in Events /\ Tail(x.replay) \in Seq(Events)
      /\ Len(Tail(x.replay)) = Len(x.replay) - 1
  BY <1>1, <1>2 DEF TypeOK, StreamRecords
<1>4. /\ Append(x.got, Head(x.replay)) \in Seq(Events)
      /\ Len(Append(x.got, Head(x.replay))) = Len(x.got) + 1
  BY <1>3
<1> DEFINE sent == Append(x.got, Head(x.replay))
           rest == Tail(x.replay)
<1>5. y = [x EXCEPT !.got = sent, !.replay = rest]
  BY <1>1 DEF NextReplayed
<1> HIDE DEF sent, rest
<1>6. /\ y \in StreamRecords /\ y.pc = "read" /\ y.scope = q /\ y.after = x.after
      /\ y.live = x.live /\ y.from = x.from /\ y.notice = x.notice
      /\ y.got = sent /\ y.replay = rest
  BY <1>1, <1>3, <1>4, <1>5 DEF StreamRecords, sent, rest
<1> HIDE DEF y
<1>7. LogOf(i) = log[q] /\ LogOf(i)' = log[q] /\ \A c : QueueAt(i, c) => QueueAt(i, c)'
  <2>1. LogOf(i) = log[q] /\ LogOf(i)' = log[q]
    BY <1>1, <1>6 DEF LogOf, y
  <2> QED BY <1>1, <1>6, <2>1 DEF QueueAt, y
<1>8. ASSUME x.after # NeverIssued
      PROVE  InPlace(i)'
  <2>1. PICK a \in 0..Len(log[q]), c \in 0..Len(log[q]) : FollowsAt(i, a, c)
    BY <1>2, <1>7, <1>8 DEF InPlace
  <2>2. SegmentAt(i, a)
    BY <2>1 DEF FollowsAt
  <2>3. /\ SitsAt(x.got, log[q], a) /\ SitsAt(x.replay, log[q], a + Len(x.got))
        /\ a \in Nat /\ a + Len(x.got) \in Nat
    BY <1>3, <1>7, <2>2 DEF SegmentAt
  <2>4. /\ SitsAt(rest, log[q], (a + Len(x.got)) + 1)
        /\ (a + Len(x.got)) + 1 <= Len(log[q])
        /\ Head(x.replay) = log[q][a + Len(x.got) + 1]
    BY <1>1, <1>3, <2>3, RestSits DEF rest
  <2>5. SitsAt(sent, log[q], a)
    <3>1. a + Len(x.got) < Len(log[q])
      BY <1>3, <2>3, <2>4
    <3> QED BY <1>3, <2>3, <2>4, <3>1, SitsOn DEF sent
  <2>6. /\ a + Len(sent) = (a + Len(x.got)) + 1
        /\ a + Len(sent) + Len(rest) = a + Len(x.got) + Len(x.replay)
        /\ Len(sent) # 0
    <3> DEFINE g == Len(x.got)
               r == Len(x.replay)
               m == Len(sent)
               k == Len(rest)
    <3>1. m = g + 1 /\ k = r - 1 /\ a \in Nat /\ g \in Nat /\ r \in Nat
      BY <1>3, <1>4, <2>3 DEF sent, rest
    <3> HIDE DEF g, r, m, k
    <3>2. a + m = (a + g) + 1 /\ a + m + k = a + g + r /\ m # 0
      BY <3>1
    <3> QED BY <3>2 DEF g, r, m, k
  <2>7. SegmentAt(i, a)'
    BY <1>6, <1>7, <2>2, <2>4, <2>5, <2>6 DEF SegmentAt, y
  <2>8. SentUpTo(i, a)' = SentUpTo(i, a)
    BY <1>6, <2>6 DEF SentUpTo, y
  <2>9. FollowsAt(i, a, c)'
    BY <1>6, <1>7, <2>1, <2>7, <2>8 DEF FollowsAt, y
  <2> QED BY <1>7, <2>9 DEF InPlace
<1>9. StreamFollows(i)'
  <2>1. x.live => \E c \in 0..Len(LogOf(i)') : QueueAt(i, c)'
    BY <1>2, <1>7
  <2> HIDE DEF x
  <2> QED BY <1>1, <1>2, <1>6, <1>8, <2>1 DEF StreamFollows, Unplaced, Unsent, Sending, y
<1>10. EndExplained(i)'
  BY <1>1, <1>6, ExplainedAsBefore DEF y
<1> QED BY <1>6, <1>9, <1>10 DEF y

LEMMA NextLiveStep ==
  ASSUME StreamInv, NEW i \in SubscriberIds, NextLive(i)
  PROVE  streams'[i] \in StreamRecords /\ StreamFollows(i)' /\ EndExplained(i)'
<1> DEFINE x == streams[i]
           y == streams'[i]
           q == x.scope
           queue == subscribers[i].queue
           e == Head(queue)
<1>1. /\ streams \in [SubscriberIds -> StreamRecords] /\ x \in StreamRecords
      /\ TypeOK /\ ReplayInv /\ x.pc = "read" /\ x.replay = <<>> /\ x.live
      /\ StreamFollows(i) /\ EndExplained(i)
      /\ Receive(i) /\ UNCHANGED <<log, nextEventID>>
  BY DEF StreamInv, StreamsTypeOK, RuntimeInv, RuntimeTypeOK, NextLive, Receive
<1>2. /\ q \in RunScopes
      /\ x.from <= nextEventID /\ \E c \in 0..Len(log[q]) : QueueAt(i, c)
      /\ x.after # NeverIssued => x.after <= nextEventID /\ x.after <= x.from
      /\ x.after # NeverIssued => InPlace(i)
  BY <1>1 DEF StreamFollows, Sending, LogOf
<1>3. /\ subscribers[i] # Null /\ subscribers[i] \in SubscriberRecords
      /\ subscribers \in [SubscriberIds -> SubscriberRecords \cup {Null}]
      /\ queue # <<>> /\ subscribers' = [subscribers EXCEPT ![i].queue = Tail(@)]
  BY <1>1, SubscriberFacts DEF Receive
<1>4. /\ log[q] \in Seq(Events) /\ Len(log[q]) \in Nat /\ queue \in Seq(Events)
      /\ x.got \in Seq(Events) /\ Len(x.got) \in Nat
  BY <1>1, <1>2, <1>3 DEF TypeOK, StreamRecords, SubscriberRecords
<1>5. /\ e \in Events /\ Tail(queue) \in Seq(Events) /\ Len(Tail(queue)) = Len(queue) - 1
      /\ Append(x.got, e) \in Seq(Events) /\ Len(Append(x.got, e)) = Len(x.got) + 1
      /\ Len(queue) \in Nat
  BY <1>3, <1>4
<1>6. /\ subscribers'[i].scope = subscribers[i].scope
      /\ subscribers'[i].open = subscribers[i].open
      /\ subscribers'[i].queue = Tail(queue)
      /\ subscribers'[i] # Null
  <2>1. subscribers'[i] = [subscribers[i] EXCEPT !.queue = Tail(queue)]
    BY <1>3
  <2>2. subscribers'[i] \in SubscriberRecords
    BY <1>3, <1>5, <2>1 DEF SubscriberRecords
  <2> HIDE DEF queue
  <2> QED BY <1>3, <2>1, <2>2, NullIsNoStreamValue DEF SubscriberRecords
<1>7. \/ AlreadySent(i, e) /\ y = x
      \/ ~AlreadySent(i, e) /\ y = [x EXCEPT !.got = Append(x.got, e)]
  BY <1>1 DEF NextLive, Sent
<1> HIDE DEF y, e
<1>8. /\ y \in StreamRecords /\ y.pc = "read" /\ y.scope = q /\ y.after = x.after
      /\ y.live /\ y.from = x.from /\ y.notice = x.notice /\ y.replay = <<>>
      /\ \/ AlreadySent(i, e) /\ y.got = x.got
         \/ ~AlreadySent(i, e) /\ y.got = Append(x.got, e)
  BY <1>1, <1>5, <1>7 DEF StreamRecords
<1>9. LogOf(i) = log[q] /\ LogOf(i)' = log[q]
  BY <1>1, <1>8 DEF LogOf, y
<1>10. ASSUME NEW c \in 0..Len(log[q]), QueueAt(i, c)
       PROVE  /\ QueueAt(i, c + 1)' /\ c + 1 \in 1..Len(log[q]) /\ e = log[q][c + 1]
  <2>1. /\ subscribers[i].scope = q /\ SitsAt(queue, log[q], c) /\ c \in Nat
        /\ subscribers[i].open => c + Len(queue) = Len(log[q])
        /\ \A j \in (c + 1)..Len(log[q]) : log[q][j].id > x.from
    BY <1>9, <1>10 DEF QueueAt
  <2>2. /\ SitsAt(Tail(queue), log[q], c + 1) /\ c + 1 \in 1..Len(log[q])
        /\ e = log[q][c + 1]
    BY <1>3, <1>4, <2>1, RestSits DEF e
  <2>3. c + Len(queue) = Len(log[q]) => (c + 1) + Len(Tail(queue)) = Len(log[q])
    BY <1>5, <2>1
  <2>4. \A j \in ((c + 1) + 1)..Len(log[q]) : log[q][j].id > x.from
    BY <1>4, <2>1
  <2>5. QueueAt(i, c + 1)'
    <3> HIDE DEF queue
    <3> QED BY <1>6, <1>8, <1>9, <2>1, <2>2, <2>3, <2>4 DEF QueueAt, y
  <2> QED BY <2>2, <2>5
<1>11. ASSUME x.after # NeverIssued
       PROVE  InPlace(i)'
  <2> DEFINE N == Len(log[q])
             ids == [j \in 1..N |-> log[q][j].id]
  <2>1. PICK a \in 0..N, c \in 0..N : FollowsAt(i, a, c)
    BY <1>2, <1>9, <1>11 DEF InPlace
  <2> DEFINE s == a + Len(x.got)
  <2>2. SegmentAt(i, a) /\ QueueAt(i, c) /\ c <= s /\ (s = a => c = a)
    <3>1. SentUpTo(i, a) = s
      BY <1>1, <1>4 DEF SentUpTo
    <3> QED BY <1>1, <2>1, <3>1 DEF FollowsAt
  <2>3. QueueAt(i, c + 1)' /\ c + 1 \in 1..N /\ e = log[q][c + 1]
    BY <1>10, <2>2
  <2>4. SitsAt(x.got, log[q], a) /\ s <= N
    BY <1>9, <2>2 DEF SegmentAt, SitsAt
  <2>5. /\ \A j \in 1..N : log[q][j].id \in Nat /\ log[q][j].id > 0
        /\ \A j, k \in 1..N : j < k => log[q][j].id < log[q][k].id
    <3>1. LogGrows(q) /\ nextEventID \in Nat
      BY <1>1, <1>2 DEF ReplayInv, TypeOK
    <3>2. \A j \in 1..N : log[q][j].id \in Nat /\ log[q][j].id > 0
      BY <3>1 DEF LogGrows
    <3> QED BY <3>1, <3>2, Zenon DEF LogGrows
  <2> HIDE DEF N
  <2>6. N \in Nat /\ a \in Nat /\ c \in Nat /\ s \in Nat
    BY <1>4 DEF N
  <2>7. AlreadySent(i, e) <=> (x.got # <<>> /\ c + 1 <= s)
    <3>1. CASE x.got = <<>>
      <4>1. LastSent(i) = 0 /\ e.id > 0 /\ e.id \in Nat
        BY <2>3, <2>5, <3>1 DEF LastSent
      <4> QED BY <3>1, <4>1 DEF AlreadySent
    <3>2. CASE x.got # <<>>
      <4>1. Len(x.got) \in 1..Len(x.got) /\ s \in 1..N
        BY <1>4, <2>4, <2>6, <3>2
      <4>2. LastSent(i) = log[q][s].id
        BY <2>4, <3>2, <4>1 DEF LastSent, SitsAt
      <4>3. e.id <= log[q][s].id <=> c + 1 <= s
        <5>1. e.id \in Nat /\ log[q][s].id \in Nat
          BY <2>3, <2>5, <4>1
        <5> HIDE DEF s
        <5>2. CASE c + 1 <= s
          <6>1. c + 1 < s => log[q][c + 1].id < log[q][s].id
            BY <2>3, <2>5, <4>1
          <6>2. c + 1 < s \/ c + 1 = s
            BY <2>6, <5>2
          <6> QED BY <2>3, <5>1, <5>2, <6>1, <6>2
        <5>3. CASE s < c + 1
          <6>1. log[q][s].id < log[q][c + 1].id
            BY <2>3, <2>5, <4>1, <5>3
          <6> QED BY <2>3, <2>6, <5>1, <5>3, <6>1
        <5> QED BY <2>6, <5>2, <5>3
      <4> QED BY <3>2, <4>2, <4>3 DEF AlreadySent
    <3> QED BY <3>1, <3>2
  <2>8. SegmentAt(i, a)' /\ c + 1 <= SentUpTo(i, a)' /\ SentUpTo(i, a)' # a
    <3>1. CASE AlreadySent(i, e)
      <4>1. y.got = x.got /\ x.got # <<>> /\ c + 1 <= s
        BY <1>8, <2>7, <3>1
      <4>2. SentUpTo(i, a)' = s /\ s # a
        BY <1>4, <1>8, <2>6, <4>1 DEF SentUpTo, y
      <4>3. SegmentAt(i, a)'
        BY <1>1, <1>8, <1>9, <2>2, <4>1 DEF SegmentAt, y
      <4> QED BY <4>1, <4>2, <4>3
    <3>2. CASE ~AlreadySent(i, e)
      <4>1. y.got = Append(x.got, e) /\ c = s
        <5>1. x.got = <<>> => s = a
          BY <2>6
        <5>2. c = s
          <6> HIDE DEF s
          <6>1. x.got # <<>> => ~(c + 1 <= s)
            BY <2>7, <3>2
          <6> QED BY <2>2, <2>6, <5>1, <6>1
        <5> QED BY <1>8, <3>2, <5>2, Zenon
      <4>2. e = log[q][a + Len(x.got) + 1] /\ a + Len(x.got) < Len(log[q])
        BY <1>4, <2>3, <2>6, <4>1 DEF N
      <4>3. SitsAt(y.got, log[q], a)
        BY <1>4, <2>4, <2>6, <4>1, <4>2, SitsOn
      <4>4. Len(y.got) = Len(x.got) + 1
        BY <1>5, <4>1
      <4>5. SitsAt(<<>>, log[q], a + Len(y.got))
        BY <1>4, <2>6, <4>2, <4>4 DEF SitsAt
      <4>6. SegmentAt(i, a)'
        BY <1>8, <1>9, <2>2, <4>3, <4>5 DEF SegmentAt, y
      <4>7. SentUpTo(i, a)' = s + 1
        BY <1>4, <1>8, <2>6, <4>4 DEF SentUpTo, y
      <4> QED BY <1>4, <2>6, <4>1, <4>6, <4>7
    <3> QED BY <3>1, <3>2
  <2>9. PICK d \in 0..N : d = c + 1
    BY <2>3, <2>6
  <2>10. QueueAt(i, d)' /\ d <= SentUpTo(i, a)'
    BY <2>3, <2>8, <2>9
  <2>11. FollowsAt(i, a, d)'
    BY <2>8, <2>10 DEF FollowsAt
  <2> QED BY <1>9, <2>11 DEF InPlace, N
<1>12. StreamFollows(i)'
  <2>1. \E c \in 0..Len(LogOf(i)') : QueueAt(i, c)'
    <3>1. PICK c \in 0..Len(log[q]) : QueueAt(i, c)
      BY <1>2
    <3>2. PICK d \in 0..Len(log[q]) : d = c + 1
      BY <1>10, <3>1
    <3>3. QueueAt(i, d)'
      BY <1>10, <3>1, <3>2
    <3> QED BY <1>9, <3>3
  <2> HIDE DEF x
  <2> QED BY <1>1, <1>2, <1>8, <1>11, <2>1 DEF StreamFollows, Unplaced, Unsent, Sending, y
<1>13. EndExplained(i)'
  BY <1>1, <1>6, <1>8, ExplainedAsBefore DEF y
<1> QED BY <1>8, <1>12, <1>13 DEF y

-----------------------------------------------------------------------------
(* Every step                                                              *)

\* A step of a stream changes its record only.
LEMMA OneRecord ==
  ASSUME StreamsTypeOK, NEW j \in SubscriberIds, StreamStep(j), streams'[j] \in StreamRecords
  PROVE  StreamsTypeOK'
<1>1. streams \in [SubscriberIds -> StreamRecords]
  BY DEF StreamsTypeOK
<1>2. ASSUME NEW r, streams' = [streams EXCEPT ![j] = r]
      PROVE  StreamsTypeOK'
  <2>1. streams'[j] = r
    BY <1>1, <1>2
  <2> QED BY <1>1, <1>2, <2>1 DEF StreamsTypeOK
<1>3. CASE OpenStream(j)
  <2>1. \E r : streams' = [streams EXCEPT ![j] = r]
    BY <1>3 DEF OpenStream
  <2> QED BY <1>2, <2>1
<1>4. CASE SubscribeStream(j) \/ ReplayStream(j)
  <2>1. \E r : streams' = [streams EXCEPT ![j] = r]
    BY <1>4 DEF SubscribeStream, ReplayStream
  <2> QED BY <1>2, <2>1
<1>5. CASE RefuseStream(j) \/ EndStream(j) \/ CancelStream(j) \/ CloseStream(j)
  <2>1. \E pc : streams' = [streams EXCEPT ![j] = [@ EXCEPT !.pc = pc]]
    BY <1>5 DEF RefuseStream, EndStream, CancelStream, CloseStream
  <2> QED BY <1>2, <2>1
<1>6. CASE NextReplayed(j) \/ NextLive(j)
  <2>1. CASE streams' = streams
    BY <1>1, <2>1 DEF StreamsTypeOK
  <2>2. CASE \E got, rest : streams' = [streams EXCEPT ![j] = [@ EXCEPT !.got = got, !.replay = rest]]
    BY <1>2, <2>2
  <2>3. CASE \E got : streams' = [streams EXCEPT ![j] = [@ EXCEPT !.got = got]]
    BY <1>2, <2>3
  <2> QED BY <1>6, <2>1, <2>2, <2>3, ZenonT(30) DEF NextReplayed, NextLive, Sent
<1> QED BY <1>3, <1>4, <1>5, <1>6 DEF StreamStep, Serve

LEMMA OwnStep ==
  ASSUME StreamInv, NEW j \in SubscriberIds, StreamStep(j)
  PROVE  streams'[j] \in StreamRecords /\ StreamFollows(j)' /\ EndExplained(j)'
<1>1. TypeOK /\ StreamsTypeOK /\ StreamFollows(j) /\ EndExplained(j)
  BY DEF StreamInv, RuntimeInv, RuntimeTypeOK
<1> QED BY <1>1, OpenStreamStep, SubscribeStreamStep, ReplayStreamStep, NextReplayedStep,
           NextLiveStep, MovingOn DEF StreamStep, Serve

\* A step of a stream is a step of the store, or leaves it alone.
LEMMA StoreStepIsNext ==
  ASSUME NEW j \in SubscriberIds, StoreStepOf(j)
  PROVE  [Next]_vars
BY DEF StoreStepOf, Next, SubscriberOperation, EventOperation

LEMMA StreamStepInv ==
  ASSUME StreamInv, NEW j \in SubscriberIds, StreamStep(j)
  PROVE  StreamInv' /\ [Next]_vars
<1>1. TypeOK /\ StreamsTypeOK /\ StreamFollows(j) /\ RuntimeInv /\ ReplayInv /\ EndsTold
  BY DEF StreamInv, RuntimeInv, RuntimeTypeOK
<1>2. StoreStepOf(j) /\ Alone
  BY <1>1, StreamStepFrame
<1>3. [Next]_vars
  BY <1>2, StoreStepIsNext
<1>4. RuntimeInv'
  BY <1>1, <1>2, <1>3, ServiceKeeps, ServiceFacts, CodexFacts DEF Alone, gatewayVars, codexVars
<1>5. ReplayInv'
  BY <1>1, <1>3, ReplayStep
<1>6. EndsTold'
  <2>1. log' = log /\ handlers' = handlers /\ consumer' = consumer /\ turns' = turns
    BY <1>1, <1>2, StoreStepFrame DEF Alone, gatewayVars, codexVars
  <2> QED BY <1>1, <2>1 DEF EndsTold, Ended, RunScope, ConsumerScope
<1>7. StreamsTypeOK'
  BY <1>1, OwnStep, OneRecord
<1>8. \A i \in SubscriberIds : StreamFollows(i)' /\ EndExplained(i)'
  BY OwnStep, OtherStreamsKept
<1> QED BY <1>3, <1>4, <1>5, <1>6, <1>7, <1>8 DEF StreamInv

LEMMA StreamsStep ==
  ASSUME StreamInv, [StreamNext]_streamVars
  PROVE  StreamInv' /\ [Next]_vars
<1>1. CASE \E j \in SubscriberIds : StreamStep(j)
  BY <1>1, StreamStepInv
<1>2. CASE [RuntimeNext]_runtimeVars /\ UNCHANGED streams
  <2>1. RuntimeInv' /\ [Next]_vars
    BY <1>2, RuntimeStep DEF StreamInv
  <2>2. ReplayInv'
    BY <2>1, ReplayStep DEF StreamInv, RuntimeInv, RuntimeTypeOK
  <2>3. EndsTold'
    BY <1>2, EndsToldStep DEF StreamInv
  <2>4. StreamsTypeOK'
    BY <1>2 DEF StreamInv, StreamsTypeOK
  <2>5. \A i \in SubscriberIds : StreamFollows(i)' /\ EndExplained(i)'
    BY <1>2, RuntimeKeepsStreams
  <2> QED BY <2>1, <2>2, <2>3, <2>4, <2>5 DEF StreamInv
<1> QED BY <1>1, <1>2 DEF StreamNext, StreamStep, streamVars

LEMMA StreamInitInv ==
  ASSUME StreamInit
  PROVE  StreamInv
<1>1. RuntimeInv
  BY InitInv DEF StreamInit
<1>2. Init /\ (\A h \in Handlers : handlers[h].pc \notin Telling) /\ consumer.pc # "complete"
  <2>1. Init /\ RuntimeInit /\ consumer.pc # "complete"
    BY DEF StreamInit, RuntimeInit
  <2>2. \A h \in Handlers : handlers[h].pc = FirstLabel(handlers[h].cmd.op)
    BY <2>1 DEF RuntimeInit, FreshHandler
  <2>3. \A op : FirstLabel(op) \in {"readThread", "done", "reserve"}
    BY DEF FirstLabel
  <2> QED BY <2>1, <2>2, <2>3 DEF Telling
<1>3. ReplayInv
  BY <1>2 DEF Init, ReplayInv, LogGrows, BufferIsSuffix
<1>4. EndsTold
  BY <1>2 DEF EndsTold
<1>5. ASSUME NEW i \in SubscriberIds
      PROVE  streams[i] \in StreamRecords /\ StreamFollows(i) /\ EndExplained(i)
  <2>1. streams[i] = [pc |-> "new", scope |-> Null, after |-> 0, live |-> FALSE, from |-> 0,
                      replay |-> <<>>, notice |-> Null, got |-> <<>>]
    BY DEF StreamInit
  <2>2. <<>> \in Seq(Events) /\ nextEventID = 0
    BY <1>2 DEF Init
  <2>3. streams[i] \in StreamRecords
    BY <2>1, <2>2 DEF StreamRecords, StreamLabels
  <2>4. StreamFollows(i)
    BY <2>1, <2>2 DEF StreamFollows, Unplaced, Unsent, Sending
  <2>5. EndExplained(i)
    BY <2>1 DEF EndExplained
  <2> QED BY <2>3, <2>4, <2>5
<1>6. StreamsTypeOK
  BY <1>5 DEF StreamInit, StreamsTypeOK
<1> QED BY <1>1, <1>3, <1>4, <1>5, <1>6 DEF StreamInv

-----------------------------------------------------------------------------
(* Theorems                                                                *)

\* Whatever the streams, the handlers and the app server do, each stream stays at
\* its place in the log of its run, and each channel that was closed has a reason.
THEOREM StreamInvHolds == StreamSpec => []StreamInv
<1>1. StreamInit => StreamInv
  BY StreamInitInv
<1>2. StreamInv /\ [StreamNext]_streamVars => StreamInv'
  BY StreamsStep
<1> QED BY <1>1, <1>2, PTL DEF StreamSpec

\* The streams and the service they follow stay well formed.
THEOREM StreamTypeCorrect == StreamSpec => []StreamTypeOK
<1>1. StreamInv => StreamTypeOK
  BY DEF StreamInv, RuntimeInv, StreamsTypeOK, StreamTypeOK
<1> QED BY <1>1, StreamInvHolds, PTL

\* Streams use the store as its interface allows: with them, every step still is an
\* operation of ChatStore or leaves the store alone.
THEOREM StreamsImplementStore == StreamSpec => Spec
<1>1. StreamInit => Init
  BY DEF StreamInit, RuntimeInit
<1>2. StreamInv /\ [StreamNext]_streamVars => [Next]_vars
  BY StreamsStep
<1> QED BY <1>1, <1>2, StreamInvHolds, PTL DEF StreamSpec, Spec

\* What a stream has sent is the run's log from its cursor on, without a gap and
\* without an event sent twice, wherever the replay ends and the channel begins
\* (chatruntime/stream.go, Next).
THEOREM StreamsAreGapless == StreamSpec => []StreamIsGapless
<1>1. StreamInv => StreamIsGapless
  <2> SUFFICES ASSUME StreamInv, NEW i \in SubscriberIds,
                      streams[i].got # <<>>, streams[i].after # NeverIssued
               PROVE  LET got == streams[i].got
                          events == log[streams[i].scope] IN
                      \E n \in 0..(Len(events) - Len(got)) :
                        /\ got = SubSeq(events, n + 1, n + Len(got))
                        /\ events[n + 1].id > streams[i].after
                        /\ streams[i].notice = Null =>
                             \A j \in 1..n : events[j].id <= streams[i].after
    BY DEF StreamIsGapless
  <2> DEFINE x == streams[i]
             events == log[x.scope]
  <2>1. x \in StreamRecords /\ StreamFollows(i) /\ TypeOK
    BY DEF StreamInv, StreamsTypeOK, RuntimeInv, RuntimeTypeOK
  <2>2. x.scope \in RunScopes /\ x.pc \in Sending /\ InPlace(i)
    BY <2>1 DEF StreamFollows, StreamRecords, StreamLabels, Unplaced, Unsent, Sending
  <2>3. events \in Seq(Events) /\ x.got \in Seq(Events)
    BY <2>1, <2>2 DEF TypeOK, StreamRecords
  <2>4. PICK a \in 0..Len(events) : SegmentAt(i, a)
    BY <2>2 DEF InPlace, FollowsAt, LogOf
  <2> DEFINE L == Len(events)
             g == Len(x.got)
  <2>5. L \in Nat /\ g \in Nat /\ g # 0
    BY <2>3
  <2>6. /\ a + g <= L /\ \A j \in 1..g : x.got[j] = events[a + j]
        /\ \A j \in (a + 1)..L : events[j].id > x.after
        /\ x.notice = Null => \A j \in 1..a : events[j].id <= x.after
    BY <2>4 DEF SegmentAt, SitsAt, LogOf
  <2>7. a \in 0..(L - g) /\ a + 1 \in (a + 1)..L /\ a \in Nat
    <3> HIDE DEF L, g
    <3> QED BY <2>5, <2>6 DEF L
  <2>8. x.got = SubSeq(events, a + 1, a + g)
    <3> DEFINE part == SubSeq(events, a + 1, a + g)
    <3>1. /\ a + 1 \in Int /\ a + g \in Int
          /\ \A j \in (a + 1)..(a + g) : events[j] \in Events
      <4>1. \A j \in (a + 1)..(a + g) : j \in 1..L
        <5> HIDE DEF L, g
        <5> QED BY <2>5, <2>6, <2>7
      <4> QED BY <2>3, <2>5, <2>7, <4>1
    <3> HIDE DEF L, g
    <3>2. /\ part \in Seq(Events)
          /\ Len(part) = IF a + 1 <= a + g THEN (a + g) - (a + 1) + 1 ELSE 0
          /\ \A j \in 1..((a + g) - (a + 1) + 1) : part[j] = events[(a + 1) + j - 1]
      BY <3>1, SubSeqProperties
    <3> HIDE DEF part
    <3>3. Len(part) = g
      BY <2>5, <2>7, <3>2
    <3>4. \A j \in 1..g : part[j] = x.got[j]
      <4> SUFFICES ASSUME NEW j \in 1..g PROVE part[j] = x.got[j]
        OBVIOUS
      <4>1. j \in 1..((a + g) - (a + 1) + 1) /\ (a + 1) + j - 1 = a + j
        BY <2>5, <2>7
      <4> QED BY <2>6, <3>2, <4>1
    <3>5. Len(x.got) = Len(part)
      BY <3>3 DEF g
    <3> QED BY <2>3, <3>2, <3>3, <3>4, <3>5, SeqEqual DEF part
  <2> HIDE DEF x
  <2> QED BY <2>6, <2>7, <2>8 DEF x
<1> QED BY <1>1, StreamInvHolds, PTL

\* A stream that followed a turn ends by itself only when the log says how the turn
\* ended, or when more events came than its channel holds (CompleteRun and
\* publishEventLocked close channels, and whoever completes a run says so first).
THEOREM EndsAreExplained == StreamSpec => []EndOfStreamIsExplained
<1>1. StreamInv => EndOfStreamIsExplained
  <2> SUFFICES ASSUME StreamInv, NEW i \in SubscriberIds,
                      streams[i].pc = "eof", streams[i].live, streams[i].scope[2] \in Turns
               PROVE  LET events == log[streams[i].scope] IN
                      \/ \E j \in DOMAIN events : Ends(events[j])
                      \/ Cardinality({j \in DOMAIN events : events[j].id > streams[i].from})
                           > SubscriberQueue
    BY DEF EndOfStreamIsExplained
  <2>1. EndExplained(i)
    BY DEF StreamInv
  <2>2. Ended(streams[i].scope) \/ Overtaken(i)
    BY <2>1 DEF EndExplained
  <2> QED BY <2>2 DEF Ended, Overtaken, LogOf
<1> QED BY <1>1, StreamInvHolds, PTL

\* What the store promises to streams it keeps while they come and go.
THEOREM FollowedStreamsAreGapless ==
  StreamSpec => [](ReplayHasNoSilentGap /\ OpenSubscriberMissesNothing)
BY StreamsImplementStore, ReplayIsGapless, SubscriberMissesNothing, PTL

=============================================================================
