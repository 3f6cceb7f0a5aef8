----------------------------- MODULE ChatRuntime -----------------------------
(***************************************************************************)
(* The chat service of the gateway (gateway/internal/chatruntime): the     *)
(* handlers of the gRPC chat operations, the goroutine that consumes the   *)
(* app server's notifications and the hook that receives the requests the  *)
(* app server sends to the gateway, all of them clients of ChatStore.      *)
(*                                                                         *)
(* A handler is a goroutine: between two calls of the store it holds no    *)
(* lock of it, so each call of the store, each message to the app server   *)
(* and each critical section of Service.mu is a step of its own, named by  *)
(* the program counter it starts from.  What a handler does before its     *)
(* first call (validation, permissions) changes nothing and is left out;   *)
(* attempts to get a connection are one step that succeeds or fails.       *)
(*                                                                         *)
(* The app server (Codex) is not part of the repository.  It is modelled   *)
(* by what the service relies on: threads with their turns, requests that  *)
(* may be carried out after the caller gave up, notifications delivered    *)
(* in order, requests of its own, and a restart that forgets every turn.   *)
(***************************************************************************)
EXTENDS ChatStore

CONSTANTS
  Handlers,         \* goroutines serving a request each
  Assignments,      \* the ways to give the handlers a command each
  Messages,         \* client message, response and request ids
  Turns,            \* turn ids the app server may give out
  InitialChats,     \* threads the app server knows from the start
  RecoveryAttempts, \* startChatTurnRecoveryAttempts
  TurnEnds,         \* how turns may end by themselves
  MaxDeltas,        \* bound on the deltas of a turn
  MaxRestarts       \* bound on the restarts of the app server

Ops == {"StartChatRun", "RunChatTurn", "InterruptChatRun", "RespondChatPending",
        "GetChatStatus", "Idle"}

\* provisionalRunID: the name of a run whose turn id is not known yet.
ProvisionalRunID(key) == <<"pending", key>>

\* run: the run to interrupt; request: the pending request to answer;
\* message: the id the client gives to its message.
Commands == [op : Ops, chat : Chats \cup {Null}, run : Turns \cup {Null},
             request : PendingIds \cup {Null}, message : Messages \cup {Null},
             key : Keys \cup {Null}]

\* The fields of an idempotency scope beside the chat and the key.
ScopedOperation(c) == <<c.op, c.request, c.message>>

\* prepareStartChatRun and its like: what they require of a command.
Validated(c) ==
  /\ c.op \notin {"GetChatStatus", "Idle"} => c.key \in Keys /\ c.message \in Messages
  /\ c.op = "StartChatRun" => c.chat = Null
  /\ c.op \in {"RunChatTurn", "InterruptChatRun", "RespondChatPending", "GetChatStatus"}
       => c.chat \in Chats
  /\ c.op = "InterruptChatRun" => c.run \in Turns
  /\ c.op = "RespondChatPending" => c.request \in PendingIds

Deltas     == {<<"assistant_delta", Null>>}
Statuses   == {<<"status", s>> : s \in RunStates}
Terminals  == {<<"terminal", s>> : s \in TerminalStates}
Creations  == {<<"pending_created", r>> : r \in PendingIds}
Resolutions == {<<"pending_resolved", r>> : r \in PendingIds}

ASSUME AssignmentsAreCommands == Assignments \subseteq [Handlers -> Commands]
ASSUME CommandsAreValidated ==
  \A f \in Assignments : \A h \in Handlers : Validated(f[h])
ASSUME RunsCover == /\ Turns \subseteq Runs
                    /\ \A k \in Keys : ProvisionalRunID(k) \in Runs \ Turns
ASSUME OperationsCover ==
  \A f \in Assignments : \A h \in Handlers : ScopedOperation(f[h]) \in Operations
ASSUME KindsCover ==
  Deltas \cup Statuses \cup Terminals \cup Creations \cup Resolutions \subseteq EventKinds
ASSUME OneSize == 1 \in EventSizes
ASSUME RuntimeBounds == /\ RecoveryAttempts \in Nat \ {0}
                        /\ MaxDeltas \in Nat
                        /\ TurnEnds \subseteq TerminalStates
                        /\ MaxRestarts \in Nat
                        /\ InitialChats \subseteq Chats

VARIABLES
  handlers,         \* handler -> its command, program counter and locals
  pendingRecords,   \* Service.pendingRecords: pending key -> tracked request
  consumer,         \* consumeNotifications: what it is doing
  hook,             \* handleForwardedServerRequest: what it is doing
  threads,          \* app server: chat -> its turns, oldest first
  turns,            \* app server: the turns it has started
  loaded,           \* app server: threads in its memory
  calls,            \* turn/start requests it has not carried out yet
  interrupts,       \* turn/interrupt requests it has not carried out yet
  requests,         \* the requests of its own
  notifications,    \* its notifications the service has not consumed yet
  restarts          \* how often it has been restarted

codexVars   == <<threads, turns, loaded, calls, interrupts, requests, notifications,
                 restarts>>
gatewayVars == <<handlers, pendingRecords, consumer, hook>>
runtimeVars == <<vars, gatewayVars, codexVars>>
-----------------------------------------------------------------------------
TurnStates == {"inProgress"} \cup TerminalStates
TurnRecords == [chat : Chats, state : TurnStates, handler : Handlers, deltas : Nat]
Lifecycles == {"activeRunning", "idle", "notLoaded"}
Calls == [handler : Handlers, attempt : {1, 2}, chat : Chats]
Notifications == [run : Turns, kind : Deltas \cup Terminals]
TrackedRecords == [inFlight : Handlers \cup {Null}, responses : SUBSET Messages]
RequestStates == {"unsent", "sent", "hooked", "refused", "answered", "broken"}
Requests == [state : RequestStates, turn : Turns \cup {Null}]
ASSUME NullIsNothing == Null \notin Handlers \cup TrackedRecords \cup TurnRecords

HandlerLabels == {
  "reserve", "release", "status", "remember", "done",           \* most handlers
  "reserveCapacity", "startThread", "releaseBoth", "releaseCapacity",
  "sendTurn", "awaitTurn", "recover", "install", "complete",    \* StartChatRun
  "resume", "reconcile", "reconcileAppend", "reconcileComplete",
  "startRun", "abandon", "bind", "markRunning", "announceRun",  \* RunChatTurn
  "lookRun", "sendInterrupt", "markInterrupting", "announceInterrupt",
  "lookPending", "claim", "write", "finish", "unclaim", "resolve", "restore",
  "announceResolved",                                           \* RespondChatPending
  "readThread"}                                                 \* GetChatStatus

HandlerRecords == [
  cmd : Commands, pc : HandlerLabels, chat : Chats \cup {Null},
  run : Runs \cup {Null},            \* the run it works on
  state : RunStates \cup {Null},     \* the state it is going to store
  lifecycle : Lifecycles \cup {Null},\* the thread as it last saw it
  attempt : {0, 1, 2},               \* turn/start requests it has sent
  answer : Turns \cup {Null},        \* the answer to the last of them
  reads : Nat, confirmedEmpty : BOOLEAN,  \* recoverStartedTurnAfterStartTurnError
  written : BOOLEAN]                 \* RespondServerRequest returned no error

FirstLabel(op) == CASE op = "GetChatStatus" -> "readThread"
                    [] op = "Idle"          -> "done"
                    [] OTHER                -> "reserve"
FreshHandler(c) ==
  [cmd |-> c, pc |-> FirstLabel(c.op), chat |-> c.chat, run |-> c.run, state |-> Null,
   lifecycle |-> Null, attempt |-> 0, answer |-> Null, reads |-> 0,
   confirmedEmpty |-> FALSE, written |-> FALSE]

RuntimeInit ==
  /\ Init
  /\ \E f \in Assignments : handlers = [h \in Handlers |-> FreshHandler(f[h])]
  /\ pendingRecords = [k \in PendingKeys |-> Null]
  /\ consumer = [pc |-> "idle", notification |-> Null]
  /\ hook = [pc |-> "idle", request |-> Null]
  /\ threads = [c \in Chats |-> IF c \in InitialChats THEN <<>> ELSE Null]
  /\ turns = [t \in Turns |-> Null]
  /\ loaded = {}
  /\ calls = {}
  /\ interrupts = {}
  /\ requests = [r \in PendingIds |-> [state |-> "unsent", turn |-> Null]]
  /\ notifications = <<>>
  /\ restarts = 0
-----------------------------------------------------------------------------
(* The app server (external)                                               *)

LiveTurns == {t \in Turns : turns[t] # Null /\ turns[t].state = "inProgress"}

FreshTurns == {t \in Turns : turns[t] = Null}
NewTurn    == CHOOSE t \in FreshTurns : TRUE

Lifecycle(c) == IF c \notin loaded THEN "notLoaded"
                ELSE IF \E t \in LiveTurns : turns[t].chat = c THEN "activeRunning"
                ELSE "idle"

Notify(t, kind) == notifications' = Append(notifications, [run |-> t, kind |-> kind])

EndTurn(t, state) ==
  /\ turns' = [turns EXCEPT ![t].state = state]
  /\ Notify(t, <<"terminal", state>>)

\* A turn/start request is carried out, whether its caller still waits or not.
CodexStartsTurn ==
  \E call \in calls :
    LET h == call.handler
        t == NewTurn
        waits == handlers[h].pc = "awaitTurn" /\ handlers[h].attempt = call.attempt IN
    /\ FreshTurns # {}
    /\ call.chat \in loaded
    /\ turns' = [turns EXCEPT ![t] = [chat |-> call.chat, state |-> "inProgress",
                                     handler |-> h, deltas |-> 0]]
    /\ threads' = [threads EXCEPT ![call.chat] = Append(@, t)]
    /\ handlers' = IF waits THEN [handlers EXCEPT ![h].answer = t] ELSE handlers
    /\ calls' = calls \ {call}
    /\ UNCHANGED <<vars, pendingRecords, consumer, hook, loaded, interrupts, requests,
                   notifications, restarts>>

\* It is lost, or answered with an error.
CodexRejectsTurn ==
  \E call \in calls :
    /\ calls' = calls \ {call}
    /\ UNCHANGED <<vars, gatewayVars, threads, turns, loaded, interrupts, requests,
                   notifications, restarts>>

CodexStreams ==
  \E t \in LiveTurns :
    /\ turns[t].deltas < MaxDeltas
    /\ turns' = [turns EXCEPT ![t].deltas = @ + 1]
    /\ Notify(t, <<"assistant_delta", Null>>)
    /\ UNCHANGED <<vars, gatewayVars, threads, loaded, calls, interrupts, requests,
                   restarts>>

CodexEndsTurn ==
  \E t \in LiveTurns, state \in TurnEnds :
    /\ EndTurn(t, state)
    /\ UNCHANGED <<vars, gatewayVars, threads, loaded, calls, interrupts, requests,
                   restarts>>

CodexInterrupts ==
  \E t \in interrupts :
    /\ interrupts' = interrupts \ {t}
    /\ IF t \in LiveTurns THEN EndTurn(t, "interrupted")
                          ELSE UNCHANGED <<turns, notifications>>
    /\ UNCHANGED <<vars, gatewayVars, threads, loaded, calls, requests, restarts>>

CodexAsks ==
  \E t \in LiveTurns, r \in PendingIds :
    /\ requests[r].state = "unsent"
    /\ requests' = [requests EXCEPT ![r] = [state |-> "sent", turn |-> t]]
    /\ UNCHANGED <<vars, gatewayVars, threads, turns, loaded, calls, interrupts,
                   notifications, restarts>>

\* The process ends and the supervisor starts another one: its turns are over,
\* what the gateway has not read of its output and its input is lost.
CodexRestarts ==
  /\ restarts < MaxRestarts
  /\ restarts' = restarts + 1
  /\ turns' = [t \in Turns |-> IF t \in LiveTurns
                               THEN [turns[t] EXCEPT !.state = "interrupted"]
                               ELSE turns[t]]
  /\ loaded' = {} /\ calls' = {} /\ interrupts' = {}
  /\ requests' = [r \in PendingIds |->
                    IF requests[r].state \in {"sent", "hooked"}
                    THEN [requests[r] EXCEPT !.state = "broken"] ELSE requests[r]]
  /\ \E n \in 0..Len(notifications) : notifications' = SubSeq(notifications, 1, n)
  /\ UNCHANGED <<vars, gatewayVars, threads>>
-----------------------------------------------------------------------------
(* Handlers: what they share                                               *)

At(h, op, pc) == handlers[h].cmd.op = op /\ handlers[h].pc = pc
\* On its way out a handler has no use for its locals any more.
Leaving == {"release", "releaseBoth", "releaseCapacity", "status", "remember", "done"}
Goto(h, pc) ==
  handlers' = [handlers EXCEPT ![h] =
                 IF pc \in Leaving THEN [FreshHandler(@.cmd) EXCEPT !.pc = pc]
                                   ELSE [@ EXCEPT !.pc = pc]]

Scope(h) == [op |-> ScopedOperation(handlers[h].cmd), chat |-> handlers[h].cmd.chat,
             key |-> handlers[h].cmd.key]
RunScope(h)    == <<handlers[h].chat, handlers[h].run>>
PendingKey(h)  == <<RunScope(h), handlers[h].cmd.request>>
Provisional(h) == <<handlers[h].chat, ProvisionalRunID(handlers[h].cmd.key)>>

\* A step of the gateway that the app server does not see.
Unseen == UNCHANGED codexVars
\* A step of a handler that only touches the store and its own locals.
Local  == UNCHANGED <<pendingRecords, consumer, hook>> /\ Unseen

FirstStep(op) == CASE op = "StartChatRun"       -> "reserveCapacity"
                   [] op = "RunChatTurn"        -> "resume"
                   [] op = "InterruptChatRun"   -> "lookRun"
                   [] op = "RespondChatPending" -> "lookPending"

\* A key that is known, or one entry too many, ends the request: the answer of
\* the first one, a conflict, or no answer while that one is in flight.
ReserveKey(h) ==
  /\ handlers[h].pc = "reserve"
  /\ \/ /\ ReserveIdempotency(Scope(h))
        /\ Goto(h, FirstStep(handlers[h].cmd.op))
     \/ /\ \/ EntryOf(Scope(h)) # Null
           \/ Cardinality(IdempotencyKeysUsed) >= IdempotencyCap
        /\ Refused
        /\ Goto(h, "done")
  /\ Local

\* Before anything reached the app server the key is free again.
ReleaseKey(h) ==
  /\ \/ handlers[h].pc = "release" /\ Goto(h, "done")
     \/ handlers[h].pc = "releaseBoth" /\ Goto(h, "releaseCapacity")
  /\ ReleaseIdempotency(Scope(h))
  /\ Local

RememberResult(h) ==
  /\ handlers[h].pc = "remember"
  /\ CompleteIdempotency(Scope(h))
  /\ Goto(h, "done")
  /\ Local

\* cleanupStalePendingRecordsLocked: the store no longer awaits an answer.
DropStaleRecords ==
  /\ pendingRecords' = [k \in PendingKeys |->
                          IF pendingRecords[k] # Null /\ HasPending(k)
                          THEN pendingRecords[k] ELSE Null]
  /\ IF \E k \in PendingKeys : pendingRecords[k] # Null
     THEN Refused ELSE UNCHANGED vars

\* The status in an answer lists the requests of the run that is active.
ReportStatus(h) ==
  LET op == handlers[h].cmd.op IN
  /\ handlers[h].pc = "status"
  /\ Goto(h, IF op = "GetChatStatus" THEN "done" ELSE "remember")
  /\ IF op \in {"GetChatStatus", "RunChatTurn"} /\ ~HasActiveRun(handlers[h].chat)
     THEN UNCHANGED <<vars, pendingRecords>> ELSE DropStaleRecords
  /\ UNCHANGED <<consumer, hook>> /\ Unseen
-----------------------------------------------------------------------------
(* reconcileLocalActiveRunFromThread, called by RunChatTurn and            *)
(* GetChatStatus with the thread as the app server described it earlier    *)

AfterReconcile(h) ==
  IF handlers[h].cmd.op = "RunChatTurn" THEN "startRun" ELSE "status"

Reconcile(h) ==
  LET c == handlers[h].chat IN
  /\ handlers[h].pc = "reconcile"
  /\ IF handlers[h].lifecycle = "activeRunning" \/ ~HasActiveRun(c)
     THEN Goto(h, AfterReconcile(h))
     ELSE handlers' = [handlers EXCEPT ![h] =
            [@ EXCEPT !.pc = "reconcileAppend", !.run = activeRuns[c].run,
                      !.state = IF handlers[h].lifecycle = "notLoaded"
                                THEN "failed" ELSE "completed"]]
  /\ UNCHANGED vars
  /\ Local

\* Faulty variant of ReconcileAppend: completes the run without an event.
ReconcileUnannounced(h) ==
  /\ handlers[h].pc = "reconcileAppend"
  /\ UNCHANGED vars
  /\ Goto(h, "reconcileComplete")
  /\ Local

ReconcileAppend(h) ==
  /\ handlers[h].pc = "reconcileAppend"
  /\ AppendEvent(RunScope(h), <<"status", handlers[h].state>>, 1)
  /\ Goto(h, "reconcileComplete")
  /\ Local

\* Somebody else may have completed the run in the meantime.
ReconcileComplete(h) ==
  /\ handlers[h].pc = "reconcileComplete"
  /\ IF IsTracked(RunScope(h))
     THEN /\ CompleteRun(RunScope(h), handlers[h].state)
          /\ Goto(h, AfterReconcile(h))
     ELSE /\ UNCHANGED vars
          /\ Goto(h, IF handlers[h].cmd.op = "RunChatTurn" THEN "release" ELSE "done")
  /\ Local

\* GetChat and GetChatStatus: thread/read fails, or describes the thread.
ReadThread(h) ==
  /\ handlers[h].pc = "readThread"
  /\ \/ Goto(h, "done")
     \/ /\ threads[handlers[h].chat] # Null
        /\ handlers' = [handlers EXCEPT ![h] =
             [@ EXCEPT !.pc = "reconcile", !.lifecycle = Lifecycle(handlers[h].chat)]]
  /\ UNCHANGED vars
  /\ Local
-----------------------------------------------------------------------------
(* turn/start                                                              *)

\* Faulty variant of SendTurn: attempts are not counted.
SendTurnUncounted(h) ==
  /\ handlers[h].pc = "sendTurn"
  /\ calls' = calls \cup {[handler |-> h, attempt |-> 1, chat |-> handlers[h].chat]}
  /\ handlers' = [handlers EXCEPT ![h] =
                    [@ EXCEPT !.pc = "awaitTurn", !.attempt = 1, !.answer = Null]]
  /\ UNCHANGED <<vars, pendingRecords, consumer, hook, threads, turns, loaded,
                 interrupts, requests, notifications, restarts>>

SendTurn(h) ==
  LET n == handlers[h].attempt + 1 IN
  /\ handlers[h].pc = "sendTurn"
  /\ calls' = calls \cup {[handler |-> h, attempt |-> n, chat |-> handlers[h].chat]}
  /\ handlers' = [handlers EXCEPT ![h] =
                    [@ EXCEPT !.pc = "awaitTurn", !.attempt = n, !.answer = Null]]
  /\ UNCHANGED <<vars, pendingRecords, consumer, hook, threads, turns, loaded,
                 interrupts, requests, notifications, restarts>>

\* The answer arrives; an answer races the timeout and may lose.
TurnAnswered(h) ==
  /\ handlers[h].pc = "awaitTurn"
  /\ handlers[h].answer # Null
  /\ handlers' = [handlers EXCEPT ![h] =
       [@ EXCEPT !.pc = IF handlers[h].cmd.op = "StartChatRun" THEN "install" ELSE "bind",
                 !.run = handlers[h].answer, !.state = "running", !.answer = Null]]
  /\ UNCHANGED vars
  /\ Local

\* The call times out, the connection is lost or the answer is an error.
TurnFails(h) ==
  /\ handlers[h].pc = "awaitTurn"
  /\ handlers' = [handlers EXCEPT ![h] =
       [@ EXCEPT !.pc = IF handlers[h].cmd.op = "StartChatRun" THEN "recover" ELSE "abandon",
                 !.answer = Null, !.reads = 0, !.confirmedEmpty = FALSE]]
  /\ UNCHANGED vars
  /\ Local
-----------------------------------------------------------------------------
(* StartChatRun                                                            *)

ReserveCapacity(h) ==
  /\ handlers[h].pc = "reserveCapacity"
  /\ \/ ReserveActiveRunCapacity(Scope(h)) /\ Goto(h, "startThread")
     \/ CapacityUsed >= ActiveRunsCap /\ Refused /\ Goto(h, "release")
  /\ Local

\* No connection; thread/start sent but not answered; or a new thread.  An
\* attempt that is repeated, with the thread it may leave behind, is no step.
StartThread(h) ==
  /\ handlers[h].pc = "startThread"
  /\ \/ Goto(h, "releaseBoth") /\ UNCHANGED <<threads, loaded>>
     \/ Goto(h, "releaseCapacity") /\ UNCHANGED <<threads, loaded>>
     \/ \E c \in Chats :
          /\ threads[c] = Null
          /\ threads' = [threads EXCEPT ![c] = <<>>]
          /\ loaded' = loaded \cup {c}
          /\ handlers' = [handlers EXCEPT ![h] =
                            [@ EXCEPT !.pc = "sendTurn", !.chat = c]]
  /\ UNCHANGED <<vars, pendingRecords, consumer, hook, turns, calls, interrupts,
                 requests, notifications, restarts>>

ReleaseCapacity(h) ==
  /\ handlers[h].pc = "releaseCapacity"
  /\ ReleaseActiveRunCapacity(Scope(h))
  /\ Goto(h, "done")
  /\ Local

\* recoverStartedTurnAfterStartTurnError reads the thread up to
\* RecoveryAttempts times; a read that fails or finds no turn is repeated.
RecoverRead(h) ==
  LET ts == threads[handlers[h].chat] IN
  /\ handlers[h].pc = "recover"
  /\ handlers[h].reads < RecoveryAttempts
  /\ \/ handlers' = [handlers EXCEPT ![h].reads = @ + 1]
     \/ /\ ts = <<>>
        /\ handlers' = [handlers EXCEPT ![h].reads = @ + 1, ![h].confirmedEmpty = TRUE]
     \/ /\ ts # <<>>
        /\ LET t == ts[Len(ts)]
               state == IF t \in LiveTurns THEN "running" ELSE turns[t].state IN
           handlers' = [handlers EXCEPT ![h] =
                          [@ EXCEPT !.pc = "install", !.run = t, !.state = state]]
  /\ UNCHANGED vars
  /\ Local

\* Faulty variant of RecoverGivesUp: the reservation is not released.
RecoverGivesUpOnly(h) ==
  /\ handlers[h].pc = "recover"
  /\ handlers[h].reads > 0
  /\ Goto(h, "done")
  /\ UNCHANGED vars
  /\ Local

\* Only a thread seen empty gets a second turn/start.  The caller giving up
\* while it waits, or no connection for the second one, ends the request.
RecoverGivesUp(h) ==
  /\ handlers[h].pc = "recover"
  /\ \/ /\ handlers[h].reads = RecoveryAttempts
        /\ handlers[h].confirmedEmpty /\ handlers[h].attempt = 1
        /\ Goto(h, "sendTurn")
     \/ handlers[h].reads > 0 /\ Goto(h, "releaseCapacity")
  /\ UNCHANGED vars
  /\ Local

\* The reservation may be gone: a failed StartChatRun gives its key back before its
\* capacity, so that a retry with this key may lose what it reserved to the late release.
InstallRun(h) ==
  /\ handlers[h].pc = "install"
  /\ \/ StartRunWithReservation(Scope(h), RunScope(h)) /\ Goto(h, "markRunning")
     \/ /\ HasActiveRun(handlers[h].chat) \/ Scope(h) \notin reservations
        /\ Refused
        /\ Goto(h, "releaseCapacity")
  /\ Local

CompleteRecovered(h) ==
  /\ handlers[h].pc = "complete"
  /\ IF IsTracked(RunScope(h))
     THEN CompleteRun(RunScope(h), handlers[h].state) /\ Goto(h, "remember")
     ELSE UNCHANGED vars /\ Goto(h, "done")
  /\ Local
-----------------------------------------------------------------------------
(* RunChatTurn                                                             *)

\* thread/resume fails, or describes a thread that has a turn in progress, or
\* one that has none: the turn may start once the local state agrees.
ResumeThread(h) ==
  LET c == handlers[h].chat IN
  /\ handlers[h].pc = "resume"
  /\ \/ Goto(h, "release") /\ UNCHANGED loaded
     \/ /\ threads[c] # Null
        /\ loaded' = loaded \cup {c}
        /\ IF \E t \in LiveTurns : turns[t].chat = c
           THEN Goto(h, "release")
           ELSE handlers' = [handlers EXCEPT ![h] =
                               [@ EXCEPT !.pc = "reconcile", !.lifecycle = "idle"]]
  /\ UNCHANGED <<vars, pendingRecords, consumer, hook, threads, turns, calls,
                 interrupts, requests, notifications, restarts>>

StartProvisionalRun(h) ==
  /\ handlers[h].pc = "startRun"
  /\ \/ StartRun(Provisional(h)) /\ Goto(h, "sendTurn")
     \/ /\ HasActiveRun(handlers[h].chat) \/ CapacityUsed >= ActiveRunsCap
        /\ Refused
        /\ Goto(h, "release")
  /\ Local

\* Faulty variant of AbandonRun: the key is released although a turn may run.
AbandonRunAndKey(h) ==
  /\ handlers[h].pc = "abandon"
  /\ IF IsTracked(Provisional(h)) THEN CompleteRun(Provisional(h), "failed")
                                  ELSE UNCHANGED vars
  /\ Goto(h, "release")
  /\ Local

\* turn/start failed: the run is over, the key stays in flight.
AbandonRun(h) ==
  /\ handlers[h].pc = "abandon"
  /\ IF IsTracked(Provisional(h)) THEN CompleteRun(Provisional(h), "failed")
                                  ELSE UNCHANGED vars
  /\ Goto(h, "done")
  /\ Local

BindRun(h) ==
  /\ handlers[h].pc = "bind"
  /\ IF IsTracked(Provisional(h))
     THEN BindRunID(Provisional(h), handlers[h].run) /\ Goto(h, "markRunning")
     ELSE UNCHANGED vars /\ Goto(h, "done")
  /\ Local

\* StartChatRun too: it stores the state of the turn it recovered.
MarkRunning(h) ==
  /\ handlers[h].pc = "markRunning"
  /\ IF IsTracked(RunScope(h))
     THEN UpdateRunState(RunScope(h), handlers[h].state) /\ Goto(h, "announceRun")
     ELSE UNCHANGED vars /\ Goto(h, "done")
  /\ Local

AnnounceRun(h) ==
  /\ handlers[h].pc = "announceRun"
  /\ AppendEvent(RunScope(h), <<"status", handlers[h].state>>, 1)
  /\ Goto(h, IF handlers[h].cmd.op = "RunChatTurn" THEN "status"
             ELSE IF handlers[h].state \in TerminalStates THEN "complete"
             ELSE "remember")
  /\ Local
-----------------------------------------------------------------------------
(* InterruptChatRun                                                        *)

LookRun(h) ==
  LET s == RunScope(h) IN
  /\ handlers[h].pc = "lookRun"
  /\ Goto(h, IF ~IsActive(s) THEN "release"
             ELSE IF activeRuns[s[1]].state = "interrupting" THEN "status"
             ELSE "sendInterrupt")
  /\ UNCHANGED vars
  /\ Local

\* No connection; turn/interrupt not written, or written although it failed;
\* or written.  The answer is not waited for.
SendInterrupt(h) ==
  /\ handlers[h].pc = "sendInterrupt"
  /\ \/ Goto(h, "release") /\ UNCHANGED interrupts
     \/ Goto(h, "done") /\ UNCHANGED interrupts
     \/ /\ \/ Goto(h, "done")
           \/ Goto(h, "markInterrupting")
        /\ interrupts' = interrupts \cup {handlers[h].run}
  /\ UNCHANGED <<vars, pendingRecords, consumer, hook, threads, turns, loaded, calls,
                 requests, notifications, restarts>>

\* A run that is gone by now is not an error.
MarkInterrupting(h) ==
  /\ handlers[h].pc = "markInterrupting"
  /\ IF IsTracked(RunScope(h)) THEN UpdateRunState(RunScope(h), "interrupting")
                               ELSE UNCHANGED vars
  /\ Goto(h, "announceInterrupt")
  /\ Local

AnnounceInterrupt(h) ==
  /\ handlers[h].pc = "announceInterrupt"
  /\ AppendEvent(RunScope(h), <<"status", "interrupting">>, 1)
  /\ Goto(h, "status")
  /\ Local
-----------------------------------------------------------------------------
(* RespondChatPending                                                      *)

LookPending(h) ==
  LET c == handlers[h].chat IN
  /\ handlers[h].pc = "lookPending"
  /\ IF HasActiveRun(c)
     THEN handlers' = [handlers EXCEPT ![h] =
                         [@ EXCEPT !.pc = "claim", !.run = activeRuns[c].run]]
     ELSE Goto(h, "release")
  /\ UNCHANGED vars
  /\ Local

\* Faulty variant of RefuseResponse: a bad response consumes the request.
RefuseAndForgetRequest(h) ==
  /\ Refused
  /\ pendingRecords' = [pendingRecords EXCEPT ![PendingKey(h)] = Null]
  /\ Goto(h, "release")

\* A response of the wrong kind: the claim is given back at once.
RefuseResponse(h) ==
  /\ Refused
  /\ UNCHANGED pendingRecords
  /\ Goto(h, "release")

\* claimChatPendingResponse, in one critical section of Service.mu.  It is
\* refused when the request is not tracked, the client used the response id
\* before or another response is being written; the store refuses a request
\* that is overdue or still claimed, which is then forgotten.
ClaimPending(h) ==
  LET k == PendingKey(h)
      message == handlers[h].cmd.message
      record == pendingRecords[k] IN
  /\ handlers[h].pc = "claim"
  /\ IF record = Null \/ message \in record.responses \/ record.inFlight # Null
     THEN Goto(h, "release") /\ UNCHANGED <<vars, pendingRecords>>
     ELSE \/ /\ ClaimPendingResolution(k)
             /\ pendingRecords' = [pendingRecords EXCEPT ![k] =
                  [inFlight |-> h, responses |-> record.responses \cup {message}]]
             /\ Goto(h, "write")
          \/ /\ ~(CleanedPending[k] # Null /\ CleanedPending[k].status = "active")
             /\ Refused
             /\ pendingRecords' = [pendingRecords EXCEPT ![k] = Null]
             /\ Goto(h, "release")
          \/ /\ CleanedPending[k] # Null /\ CleanedPending[k].status = "active"
             /\ RefuseResponse(h)
  /\ UNCHANGED <<consumer, hook>> /\ Unseen

\* The dispatcher writes one response to a request: after a write that failed,
\* or on a connection that is lost, every later one is an error.
WriteResponse(h) ==
  LET r == handlers[h].cmd.request IN
  /\ handlers[h].pc = "write"
  /\ \E written \in {requests[r].state = "hooked", FALSE} :
       /\ handlers' = [handlers EXCEPT ![h] =
                         [@ EXCEPT !.pc = "finish", !.written = written]]
       /\ requests' = IF requests[r].state # "hooked" THEN requests
                      ELSE [requests EXCEPT ![r].state =
                              IF written THEN "answered" ELSE "broken"]
  /\ UNCHANGED <<vars, pendingRecords, consumer, hook, threads, turns, loaded, calls,
                 interrupts, notifications, restarts>>

\* Faulty variant of FinishResponse: a failed write counts as an answer.
FinishResponseUnwritten(h) ==
  LET k == PendingKey(h) IN
  /\ handlers[h].pc = "finish"
  /\ IF pendingRecords[k] = Null
     THEN Goto(h, "done") /\ UNCHANGED pendingRecords
     ELSE Goto(h, "resolve") /\ pendingRecords' = [pendingRecords EXCEPT ![k] = Null]
  /\ UNCHANGED <<vars, consumer, hook>> /\ Unseen

\* Faulty variant of FinishResponse: the store keeps the claim of a failed write.
FinishResponseClaimed(h) ==
  LET k == PendingKey(h) IN
  /\ handlers[h].pc = "finish"
  /\ IF pendingRecords[k] = Null
     THEN Goto(h, "done") /\ UNCHANGED pendingRecords
     ELSE IF handlers[h].written
     THEN Goto(h, "resolve") /\ pendingRecords' = [pendingRecords EXCEPT ![k] = Null]
     ELSE /\ Goto(h, "done")
          /\ pendingRecords' = [pendingRecords EXCEPT ![k].inFlight = Null]
  /\ UNCHANGED <<vars, consumer, hook>> /\ Unseen

\* completeChatPendingResponse, in its critical section of Service.mu.
FinishResponse(h) ==
  LET k == PendingKey(h) IN
  /\ handlers[h].pc = "finish"
  /\ IF pendingRecords[k] = Null
     THEN Goto(h, "done") /\ UNCHANGED pendingRecords
     ELSE IF handlers[h].written
     THEN Goto(h, "resolve") /\ pendingRecords' = [pendingRecords EXCEPT ![k] = Null]
     ELSE /\ Goto(h, "unclaim")
          /\ pendingRecords' = [pendingRecords EXCEPT ![k].inFlight = Null]
  /\ UNCHANGED <<vars, consumer, hook>> /\ Unseen

ReleaseClaim(h) ==
  /\ handlers[h].pc = "unclaim"
  /\ IF CleanedPending[PendingKey(h)] = Null
     THEN Refused ELSE ReleasePendingResolutionClaim(PendingKey(h))
  /\ Goto(h, "done")
  /\ Local

\* The deadline may have passed while the response was written.
ResolveRequest(h) ==
  /\ handlers[h].pc = "resolve"
  /\ IF CleanedPending[PendingKey(h)] = Null
     THEN Refused /\ Goto(h, "done")
     ELSE ResolvePending(PendingKey(h)) /\ Goto(h, "restore")
  /\ Local

\* Faulty variant of RestoreRun: restores whatever the state has become.
RestoreRunBlindly(h) ==
  /\ handlers[h].pc = "restore"
  /\ IF IsTracked(RunScope(h))
     THEN UpdateRunState(RunScope(h), "running") /\ Goto(h, "announceResolved")
     ELSE UNCHANGED vars /\ Goto(h, "done")
  /\ Local

RestoreRun(h) ==
  /\ handlers[h].pc = "restore"
  /\ IF IsTracked(RunScope(h))
     THEN RestoreRunStateAfterPending(RunScope(h)) /\ Goto(h, "announceResolved")
     ELSE UNCHANGED vars /\ Goto(h, "done")
  /\ Local

AnnounceResolved(h) ==
  /\ handlers[h].pc = "announceResolved"
  /\ AppendEvent(RunScope(h), <<"pending_resolved", handlers[h].cmd.request>>, 1)
  /\ Goto(h, "status")
  /\ Local
-----------------------------------------------------------------------------
(* consumeNotifications                                                    *)

\* A notification that is not about the active run is dropped.
ConsumeNotification ==
  LET n == Head(notifications)
      s == <<turns[n.run].chat, n.run>> IN
  /\ consumer.pc = "idle"
  /\ notifications # <<>>
  /\ notifications' = Tail(notifications)
  /\ consumer' = IF IsActive(s) THEN [pc |-> "append", notification |-> n] ELSE consumer
  /\ UNCHANGED <<vars, handlers, pendingRecords, hook, threads, turns, loaded, calls,
                 interrupts, requests, restarts>>

ConsumerScope == <<turns[consumer.notification.run].chat, consumer.notification.run>>
NoNotification == [pc |-> "idle", notification |-> Null]

AppendNotification ==
  /\ consumer.pc = "append"
  /\ AppendEvent(ConsumerScope, consumer.notification.kind, 1)
  /\ consumer' = IF consumer.notification.kind \in Terminals
                 THEN [consumer EXCEPT !.pc = "complete"] ELSE NoNotification
  /\ UNCHANGED <<handlers, pendingRecords, hook>> /\ Unseen

CompleteNotifiedRun ==
  /\ consumer.pc = "complete"
  /\ IF IsTracked(ConsumerScope)
     THEN CompleteRun(ConsumerScope, consumer.notification.kind[2])
     ELSE UNCHANGED vars
  /\ consumer' = NoNotification
  /\ UNCHANGED <<handlers, pendingRecords, hook>> /\ Unseen
-----------------------------------------------------------------------------
(* handleForwardedServerRequest                                            *)

RequestScope(r) == <<turns[requests[r].turn].chat, requests[r].turn>>
HookKey         == <<RequestScope(hook.request), hook.request>>
NoRequest       == [pc |-> "idle", request |-> Null]

\* A request that cannot be built is resolved at once, one that is not about
\* a run that accepts requests is refused; both get their answer here.
HookLooks ==
  \E r \in PendingIds :
    /\ hook.pc = "idle"
    /\ requests[r].state = "sent"
    /\ DropStaleRecords
    /\ \/ /\ AcceptsPending(RequestScope(r))
          /\ requests' = [requests EXCEPT ![r].state = "hooked"]
          /\ hook' = [pc |-> "register", request |-> r]
       \/ requests' = [requests EXCEPT ![r].state = "refused"] /\ UNCHANGED hook
    /\ UNCHANGED <<handlers, consumer, threads, turns, loaded, calls, interrupts,
                   notifications, restarts>>

\* The run may have changed since; then, or when the store is full, the hook
\* answers the request itself.
HookRegisters ==
  LET r == hook.request
      s == RequestScope(r) IN
  /\ hook.pc = "register"
  /\ \/ /\ RegisterPendingForActiveRun(s, r)
        /\ hook' = [hook EXCEPT !.pc = "announce"]
        /\ UNCHANGED requests
     \/ /\ ~AcceptsPending(s) \/ Cardinality(ActivePendingKeys) >= PendingCap
        /\ Refused
        /\ hook' = NoRequest
        /\ requests' = [requests EXCEPT ![r].state = IF @ = "hooked" THEN "refused" ELSE @]
  /\ UNCHANGED <<handlers, pendingRecords, consumer, threads, turns, loaded, calls,
                 interrupts, notifications, restarts>>

HookAnnounces ==
  /\ hook.pc = "announce"
  /\ AppendEvent(RequestScope(hook.request), <<"pending_created", hook.request>>, 1)
  /\ hook' = [hook EXCEPT !.pc = "track"]
  /\ UNCHANGED <<handlers, pendingRecords, consumer>> /\ Unseen

HookTracks ==
  /\ hook.pc = "track"
  /\ pendingRecords' = [pendingRecords EXCEPT ![HookKey] =
                          [inFlight |-> Null, responses |-> {}]]
  /\ hook' = NoRequest
  /\ UNCHANGED <<vars, handlers, consumer>> /\ Unseen
-----------------------------------------------------------------------------
HandlerStep(h) ==
  \/ ReserveKey(h) \/ ReleaseKey(h) \/ RememberResult(h) \/ ReportStatus(h)
  \/ Reconcile(h) \/ ReconcileAppend(h) \/ ReconcileComplete(h) \/ ReadThread(h)
  \/ SendTurn(h) \/ TurnAnswered(h) \/ TurnFails(h)
  \/ ReserveCapacity(h) \/ StartThread(h) \/ ReleaseCapacity(h)
  \/ RecoverRead(h) \/ RecoverGivesUp(h) \/ InstallRun(h) \/ CompleteRecovered(h)
  \/ ResumeThread(h) \/ StartProvisionalRun(h) \/ AbandonRun(h) \/ BindRun(h)
  \/ MarkRunning(h) \/ AnnounceRun(h)
  \/ LookRun(h) \/ SendInterrupt(h) \/ MarkInterrupting(h) \/ AnnounceInterrupt(h)
  \/ LookPending(h) \/ ClaimPending(h) \/ WriteResponse(h) \/ FinishResponse(h)
  \/ ReleaseClaim(h) \/ ResolveRequest(h) \/ RestoreRun(h) \/ AnnounceResolved(h)

ConsumerStep == ConsumeNotification \/ AppendNotification \/ CompleteNotifiedRun
HookStep     == HookLooks \/ HookRegisters \/ HookAnnounces \/ HookTracks

CodexStep == \/ CodexStartsTurn \/ CodexRejectsTurn \/ CodexStreams
             \/ CodexEndsTurn \/ CodexInterrupts

TimePasses == Tick /\ UNCHANGED <<gatewayVars, codexVars>>

RuntimeNext == \/ \E h \in Handlers : HandlerStep(h)
               \/ ConsumerStep \/ HookStep
               \/ CodexStep \/ CodexAsks \/ CodexRestarts
               \/ TimePasses

\* Goroutines are scheduled, and every call a handler waits for has a timeout.
RuntimeFairness == /\ \A h \in Handlers : WF_runtimeVars(HandlerStep(h))
                   /\ WF_runtimeVars(ConsumerStep)
                   /\ WF_runtimeVars(HookStep)

RuntimeSpec == RuntimeInit /\ [][RuntimeNext]_runtimeVars /\ RuntimeFairness
-----------------------------------------------------------------------------
(* Properties                                                              *)

\* Handlers, tracked requests and what the app server is asked stay well formed.
RuntimeTypeOK ==
  /\ TypeOK
  /\ handlers \in [Handlers -> HandlerRecords]
  /\ pendingRecords \in [PendingKeys -> TrackedRecords \cup {Null}]
  /\ consumer \in [pc : {"idle", "append", "complete"},
                  notification : Notifications \cup {Null}]
  /\ hook \in [pc : {"idle", "register", "announce", "track"},
              request : PendingIds \cup {Null}]
  /\ threads \in [Chats -> Seq(Turns) \cup {Null}]
  /\ turns \in [Turns -> TurnRecords \cup {Null}]
  /\ loaded \subseteq Chats
  /\ calls \subseteq Calls
  /\ interrupts \subseteq Turns
  /\ requests \in [PendingIds -> Requests]
  /\ notifications \in Seq(Notifications)
  /\ restarts \in 0..MaxRestarts

\* No capacity leaks: whatever fails between the reservation and the run, a
\* reservation belongs to a StartChatRun that is still at work on it.
ReservationHasOwner ==
  \A i \in reservations : \E h \in Handlers :
    /\ handlers[h].cmd.op = "StartChatRun"
    /\ Scope(h) = i
    /\ handlers[h].pc \in {"startThread", "sendTurn", "awaitTurn", "recover", "install",
                           "releaseBoth", "releaseCapacity"}

\* However often a client repeats a RunChatTurn with its key, and whatever became
\* of the attempts, the app server is made to start at most one turn for it.
OneTurnPerRequest ==
  \A t, u \in Turns :
    /\ turns[t] # Null /\ turns[u] # Null
    /\ handlers[turns[t].handler].cmd.op = "RunChatTurn"
    /\ Scope(turns[t].handler) = Scope(turns[u].handler)
    => t = u

\* A claim is never stuck: while its deadline lasts, the response that claimed
\* a request is still being delivered.
ClaimHasOwner ==
  \A k \in PendingKeys :
    pending[k] # Null /\ pending[k].status = "claimed" /\ now <= pending[k].expiresAt
      => \E h \in Handlers : /\ handlers[h].pc \in {"write", "finish", "unclaim", "resolve"}
                             /\ PendingKey(h) = k

Positions(s, kind) == {j \in DOMAIN log[s] : log[s][j].kind = kind}

\* Clients are told that a request is resolved at most once, after they were
\* told of the request, and only if the app server really got the answer.
ResolvedMeansAnswered ==
  \A s \in RunScopes, r \in PendingIds :
    LET resolved == Positions(s, <<"pending_resolved", r>>) IN
    resolved # {} =>
      /\ requests[r].state = "answered"
      /\ Cardinality(resolved) = 1
      /\ \A j \in resolved : \E i \in Positions(s, <<"pending_created", r>>) : i < j

\* A request clients know of and the app server still waits for can be answered:
\* the store and Service.pendingRecords, under different locks, agree on it.
AnnouncedRequestIsAnswerable ==
  \A s \in RunScopes, r \in PendingIds :
    /\ requests[r].state = "hooked"
    /\ Positions(s, <<"pending_created", r>>) # {}
    /\ HasPending(<<s, r>>)
    => \/ pendingRecords[<<s, r>>] # Null
       \/ hook = [pc |-> "track", request |-> r]

\* A response to a pending request never overwrites the interrupting state of
\* the run; only the handler that started the run may.
InterruptSurvivesResponse ==
  [][\A c \in Chats :
       activeRuns[c] # Null /\ activeRuns[c].state = "interrupting"
         => \/ activeRuns'[c] = Null \/ activeRuns'[c].state = "interrupting"
            \/ \E h \in Handlers : /\ handlers[h].pc = "markRunning"
                                  /\ handlers'[h].pc = "announceRun"]_runtimeVars

\* Every request is answered: retries and recovery are bounded and nothing a
\* handler waits for can hold it for ever.
HandlersReturn == \A h \in Handlers : <>(handlers[h].pc = "done")

\* Refuted: an active run is kept until Codex proves that its turn is over.
RunKeptUntilTurnEnds ==
  [][\A c \in Chats :
       activeRuns[c] # Null /\ activeRuns[c].run \in LiveTurns
         => activeRuns'[c] # Null /\ activeRuns'[c].run = activeRuns[c].run]_runtimeVars
=============================================================================
