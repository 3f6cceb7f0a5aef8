--------------------------------- MODULE Tasks ---------------------------------
(***************************************************************************)
(* The task service (gateway/internal/tasks) of one session group: tasks   *)
(* are started in goroutines of their own, of which a session has one at a *)
(* time; a monitor per connection reads the app server's notifications and *)
(* requests; tasks are interrupted and their requests answered meanwhile.  *)
(*                                                                         *)
(* One action is one critical section of Service.mu, or an exchange with   *)
(* the app server between two of them; sections that follow each other     *)
(* without anything another goroutine could tell apart are one action.     *)
(* The log of a task is its list of events; TaskStreams is about how it is *)
(* read. The texts of events, items and the bindings of threads are not    *)
(* modelled.                                                               *)
(***************************************************************************)
EXTENDS Integers, FiniteSets, SequencesExt

CONSTANTS
  Tasks, Keys,          \* task ids; client message ids
  Clients, Commands,    \* requests to start a task: client -> its command
  Interrupters, Targets,\* requests to interrupt: interrupter -> key of the task
  Responders, Answers,  \* answers to requests: responder -> the request and response id
  Requests, ResponseIDs,
  Connections,
  TurnStatuses,         \* how turns may end: completed, interrupted, or other
  MaxActiveRequests,    \* requests of a task that may wait at a time
  MaxUnsupported,       \* bound on the unsupported requests of a task
  Null

ASSUME TasksAssumption ==
  /\ Commands \in [Clients -> [key : Keys, resumes : BOOLEAN]]
  /\ Targets \in [Interrupters -> Keys]
  /\ Answers \in [Responders -> Requests \X ResponseIDs]
  /\ TurnStatuses \subseteq {"completed", "interrupted", "other"}
  /\ MaxActiveRequests \in Nat \ {0} /\ MaxUnsupported \in Nat
  /\ Null \notin Tasks \cup Connections \cup ResponseIDs

VARIABLES
  tasks,         \* task -> its record, Null before it is claimed and after it is cleaned up
  idempotency,   \* client message id -> the task that was started for it
  entries,       \* task -> the state of its start entry
  promises,      \* task -> what its start promise was closed with
  activeTask,    \* the task that holds the session
  log,           \* task -> its events
  requests,      \* app server request -> its record
  responses,     \* app server request -> response id -> the state of the response
  backlog,       \* connection -> requests that were resolved before they were handled
  stale,         \* tasks whose retention has passed
  called,        \* clients whose request has been received
  starters,      \* task -> the goroutine that starts it
  interrupters, responders,
  monitors,      \* connection -> the goroutine that reads it
  link,          \* connection -> whether it is open
  notes, asks,   \* connection -> notifications and requests that wait for the monitor
  turns          \* task -> its turn in the app server

registry == <<tasks, entries, promises, activeTask, log, requests>>
pendings == <<responses, backlog>>
retention == <<idempotency, stale, called>>
appServer == <<link, notes, asks, turns>>
vars == <<registry, pendings, retention, starters, interrupters, responders, monitors, appServer>>
-----------------------------------------------------------------------------
EndStates == {"completed", "failed", "interrupted"}
States == {"starting", "running", "waiting", "interrupting"} \cup EndStates
EntryStates == {"pending", "succeeded", "failed", "interrupted_before_turn"}
StarterLabels == {"none", "begin", "connect", "monitor", "attach", "threading", "bind",
                  "before_turn", "turning", "confirm", "interrupt", "succeed", "fail",
                  "pre_turn", "done"}
EventKinds == {"task_started", "thread_started", "turn_started", "interrupting",
               "interrupt_rejected", "unsupported", "unknown_status", "over_limit",
               "created", "resolved"} \cup EndStates

TaskRecords ==
  [key : Keys, state : States, thread : BOOLEAN, turn : BOOLEAN,
   connection : Connections \cup {Null}, connectionCancel : {"none", "set", "called"},
   cancelBeforeTurn : BOOLEAN, preInterruptState : States \cup {Null}, deferred : BOOLEAN]
Events == [kind : EventKinds, of : Requests \cup {Null}]
StarterRecords == [pc : StarterLabels, resumes : BOOLEAN, connection : Connections \cup {Null}]
InterrupterRecords == [pc : {"new", "call", "done"}, task : Tasks \cup {Null}]
ResponderRecords == [pc : {"new", "write", "complete", "wait", "done"}, written : BOOLEAN]
MonitorRecords == [pc : {"none", "read", "confirm", "interrupt"}, task : Tasks \cup {Null}]
\* asked, then active until it is resolved, or declined; withdrawn by the app server.
RequestRecords == [task : Tasks \cup {Null}, withdrawn : BOOLEAN, answered : BOOLEAN,
                   state : {"none", "asked", "active", "resolved", "declined"},
                   inFlight : ResponseIDs \cup {Null}]
Notes == [kind : {"thread/started", "turn/started", "turn/completed"}, task : Tasks,
          status : {"completed", "interrupted", "other"}]
           \cup [kind : {"serverRequest/resolved"}, request : Requests]

ASSUME NullIsNothing == Null \notin TaskRecords \cup States

TasksInit ==
  /\ tasks = [t \in Tasks |-> Null]
  /\ idempotency = [k \in Keys |-> Null]
  /\ entries = [t \in Tasks |-> "pending"]
  /\ promises = [t \in Tasks |-> "open"]
  /\ activeTask = Null
  /\ log = [t \in Tasks |-> <<>>]
  /\ requests = [q \in Requests |-> [task |-> Null, withdrawn |-> FALSE, answered |-> FALSE,
                                     state |-> "none", inFlight |-> Null]]
  /\ responses = [q \in Requests |-> [i \in ResponseIDs |-> "none"]]
  /\ backlog = [n \in Connections |-> {}]
  /\ stale = {} /\ called = {}
  /\ starters = [t \in Tasks |-> [pc |-> "none", resumes |-> FALSE, connection |-> Null]]
  /\ interrupters = [i \in Interrupters |-> [pc |-> "new", task |-> Null]]
  /\ responders = [r \in Responders |-> [pc |-> "new", written |-> FALSE]]
  /\ monitors = [n \in Connections |-> [pc |-> "none", task |-> Null]]
  /\ link = [n \in Connections |-> "new"]
  /\ notes = [n \in Connections |-> <<>>] /\ asks = [n \in Connections |-> <<>>]
  /\ turns = [t \in Tasks |-> "none"]

Known(t) == tasks[t] # Null
Terminal(t) == tasks[t].state \in EndStates
Live(t) == Known(t) /\ ~Terminal(t)
IsOpen(n) == n \in {m \in Connections : link[m] = "open"}
Of(t) == starters[t].connection
Plain(kind) == [kind |-> kind, of |-> Null]
About(kind, q) == [kind |-> kind, of |-> q]
Append1(t, kind) == log' = [log EXCEPT ![t] = Append(@, Plain(kind))]
ActiveRequests(t) == {q \in Requests : requests[q].task = t /\ requests[q].state = "active"}
Deferred(t) == IF tasks[t].deferred THEN <<Plain("unsupported")>> ELSE <<>>

\* The tasks in the domain of ends come to their ends: their state, the events that go
\* before, and whether the requests that wait are cleared.
EndTasks(ends) ==
  LET cleared == {q \in Requests : \E t \in DOMAIN ends : ends[t].clears /\ q \in ActiveRequests(t)}
      resolved(t) == [i \in 1..Cardinality(cleared \cap ActiveRequests(t)) |->
                        About("resolved", SetToSeq(cleared \cap ActiveRequests(t))[i])] IN
  /\ tasks' = [t \in Tasks |->
       IF t \in DOMAIN ends THEN [tasks[t] EXCEPT !.state = ends[t].state,
                                    !.deferred = @ /\ Plain("unsupported") \notin Range(ends[t].first)]
                            ELSE tasks[t]]
  /\ activeTask' = IF activeTask \in DOMAIN ends THEN Null ELSE activeTask
  /\ requests' = [q \in Requests |->
       IF q \in cleared THEN [requests[q] EXCEPT !.state = "resolved"] ELSE requests[q]]
  /\ log' = [t \in Tasks |->
       IF t \in DOMAIN ends THEN log[t] \o ends[t].first \o resolved(t) \o <<Plain(ends[t].state)>>
                            ELSE log[t]]

EndTask(t, state, first) ==
  EndTasks([u \in {t} |-> [state |-> state, first |-> first, clears |-> TRUE]])

\* Closing a channel that is closed ends the gateway.
Close(channel, open, value) == IF channel = open THEN value ELSE "panic"

AnswerStarts(answers) ==
  /\ entries' = [t \in Tasks |-> IF t \in DOMAIN answers THEN answers[t] ELSE entries[t]]
  /\ promises' = [t \in Tasks |->
       IF t \in DOMAIN answers THEN Close(promises[t], "open", answers[t]) ELSE promises[t]]

AnswerStart(t, answer) == AnswerStarts([u \in {t} |-> answer])
Unanswered == UNCHANGED <<entries, promises>>

\* Mutant: the session is not given back.
PreTurnInterruptHolding(t) ==
  /\ tasks' = [tasks EXCEPT ![t].state = "interrupted"]
  /\ Append1(t, "interrupted")
  /\ UNCHANGED <<activeTask, requests>>
  /\ AnswerStart(t, "interrupted_before_turn")

\* completePreTurnInterruptLocked, which neither looks for an end the task has come to
\* nor at its requests.
PreTurnInterrupt(t) ==
  /\ EndTasks([u \in {t} |-> [state |-> "interrupted", first |-> <<>>, clears |-> FALSE]])
  /\ AnswerStart(t, "interrupted_before_turn")
-----------------------------------------------------------------------------
(* Starting a task                                                         *)

\* cleanupRetainedLocked, with which most requests begin.
Expired(t) == t \in stale /\ Known(t) /\ Terminal(t)
RetainedTasks == [t \in Tasks |-> IF Expired(t) THEN Null ELSE tasks[t]]
RetainedKeys == [k \in Keys |->
  IF idempotency[k] # Null /\ Expired(idempotency[k]) THEN Null ELSE idempotency[k]]

GetTaskStatus ==
  /\ tasks' = RetainedTasks /\ idempotency' = RetainedKeys
  /\ UNCHANGED <<entries, promises, activeTask, log, requests, pendings, stale, called,
                 starters, interrupters, responders, monitors, appServer>>

\* A key that is known joins its start, or is refused when the command differs.
ClaimStart(c) ==
  LET key == Commands[c].key IN
  /\ c \notin called /\ called' = called \cup {c}
  /\ \/ /\ RetainedKeys[key] # Null \/ activeTask # Null
        /\ tasks' = RetainedTasks /\ idempotency' = RetainedKeys
        /\ UNCHANGED <<activeTask, log, starters>>
     \/ /\ RetainedKeys[key] = Null /\ activeTask = Null
        /\ \E t \in Tasks :
             /\ starters[t].pc = "none"
             /\ tasks' = [RetainedTasks EXCEPT ![t] =
                  [key |-> key, state |-> "starting", thread |-> FALSE, turn |-> FALSE,
                   connection |-> Null, connectionCancel |-> "none", cancelBeforeTurn |-> FALSE,
                   preInterruptState |-> Null, deferred |-> FALSE]]
             /\ idempotency' = [RetainedKeys EXCEPT ![key] = t]
             /\ activeTask' = t
             /\ Append1(t, "task_started")
             /\ starters' = [starters EXCEPT ![t].pc = "begin", ![t].resumes = Commands[c].resumes]
  /\ UNCHANGED <<entries, promises, requests, pendings, stale, interrupters, responders,
                 monitors, appServer>>

Step(t, from, to) == starters[t].pc = from /\ starters' = [starters EXCEPT ![t].pc = to]
RestOfStart == UNCHANGED <<pendings, retention, interrupters, responders>>

CancelRequestedBeforeThread(t) == tasks[t].cancelBeforeTurn /\ ~tasks[t].thread

\* The thread to resume may be unknown.
BeginStart(t) ==
  /\ \/ starters[t].resumes /\ Step(t, "begin", "fail") /\ UNCHANGED tasks
     \/ Step(t, "begin", "pre_turn") /\ CancelRequestedBeforeThread(t) /\ UNCHANGED tasks
     \/ /\ Step(t, "begin", "connect")
        /\ ~CancelRequestedBeforeThread(t)
        /\ tasks' = [tasks EXCEPT ![t].connectionCancel = "set"]
  /\ UNCHANGED <<entries, promises, activeTask, log, requests, monitors, appServer>> /\ RestOfStart

\* The supervisor hands out the connection there is, or a new one.
Connect(t) ==
  LET canceled == tasks[t].connectionCancel = "called" IN
  /\ starters[t].pc = "connect"
  /\ \/ \E n \in Connections :
          /\ IsOpen(n) \/ (link[n] = "new" /\ ~\E m \in Connections : IsOpen(m))
          /\ link' = [link EXCEPT ![n] = "open"]
          /\ starters' = [starters EXCEPT ![t].pc = "monitor", ![t].connection = n]
     \/ /\ Step(t, "connect", IF canceled /\ CancelRequestedBeforeThread(t) THEN "pre_turn" ELSE "fail")
        /\ UNCHANGED link
  /\ tasks' = [tasks EXCEPT ![t].connectionCancel = "none"]
  /\ UNCHANGED <<entries, promises, activeTask, log, requests, monitors, notes, asks, turns>>
  /\ RestOfStart

EnsureMonitor(t) ==
  /\ Step(t, "monitor", "attach")
  /\ monitors' = IF monitors[Of(t)].pc = "none" THEN [monitors EXCEPT ![Of(t)].pc = "read"]
                                               ELSE monitors
  /\ UNCHANGED <<registry, appServer>> /\ RestOfStart

SetTaskConnection(t) ==
  /\ Step(t, "attach", IF CancelRequestedBeforeThread(t) THEN "pre_turn" ELSE "threading")
  /\ tasks' = [tasks EXCEPT ![t].connection = Of(t)]
  /\ UNCHANGED <<entries, promises, activeTask, log, requests, monitors, appServer>> /\ RestOfStart

\* thread/start or thread/resume: answered, refused, without an answer in time, which
\* closes the connection, or cut off.
ThreadReturns(t) ==
  /\ \/ IsOpen(Of(t)) /\ Step(t, "threading", "bind") /\ UNCHANGED link
     \/ Step(t, "threading", "fail") /\ UNCHANGED link
     \/ /\ IsOpen(Of(t))
        /\ Step(t, "threading", "fail")
        /\ link' = [link EXCEPT ![Of(t)] = "closed"]
  /\ UNCHANGED <<registry, monitors, notes, asks, turns>> /\ RestOfStart

ConfirmThreadStarted(t) ==
  IF ~tasks[t].thread /\ ~Terminal(t)
  THEN tasks' = [tasks EXCEPT ![t].thread = TRUE] /\ Append1(t, "thread_started")
  ELSE UNCHANGED <<tasks, log>>

BindThread(t) ==
  /\ Step(t, "bind", "before_turn")
  /\ ConfirmThreadStarted(t)
  /\ UNCHANGED <<entries, promises, activeTask, requests, monitors, appServer>> /\ RestOfStart

BeforeTurn(t) ==
  /\ Step(t, "before_turn", IF tasks[t].cancelBeforeTurn THEN "pre_turn" ELSE "turning")
  /\ UNCHANGED <<registry, monitors, appServer>> /\ RestOfStart

\* turn/start; an error may be answered late, after the turn has ended.
TurnReturns(t) ==
  /\ \/ IsOpen(Of(t)) /\ turns[t] # "none" /\ Step(t, "turning", "confirm") /\ UNCHANGED link
     \/ IsOpen(Of(t)) /\ turns[t] # "running" /\ Step(t, "turning", "fail") /\ UNCHANGED link
     \/ ~IsOpen(Of(t)) /\ Step(t, "turning", "fail") /\ UNCHANGED link
     \/ /\ IsOpen(Of(t))
        /\ Step(t, "turning", "fail")
        /\ link' = [link EXCEPT ![Of(t)] = "closed"]
  /\ UNCHANGED <<registry, monitors, notes, asks, turns>> /\ RestOfStart

MustInterrupt(t) == ~tasks[t].turn /\ tasks[t].cancelBeforeTurn

\* Mutant: an interrupt that was recorded meanwhile is overlooked.
ConfirmTurnOnly(t) ==
  IF tasks[t].turn
  THEN UNCHANGED <<tasks, log>>
  ELSE /\ tasks' = [tasks EXCEPT ![t].turn = TRUE, ![t].state = "running"]
       /\ Append1(t, "turn_started")

\* confirmTurnStartedOnce, by the start and by the monitor, whichever comes first.
ConfirmTurnStartedOnce(t) ==
  \/ /\ tasks[t].turn
     /\ UNCHANGED <<tasks, log>>
  \/ /\ MustInterrupt(t)
     /\ tasks' = [tasks EXCEPT ![t].turn = TRUE, ![t].state = "interrupting",
                               ![t].preInterruptState = "running"]
     /\ Append1(t, "interrupting")
  \/ /\ ~tasks[t].turn /\ ~tasks[t].cancelBeforeTurn
     /\ tasks' = [tasks EXCEPT ![t].turn = TRUE, ![t].state = "running"]
     /\ Append1(t, "turn_started")

ConfirmTurn(t) ==
  /\ Step(t, "confirm", IF MustInterrupt(t) THEN "interrupt" ELSE "succeed")
  /\ ConfirmTurnStartedOnce(t)
  /\ UNCHANGED <<entries, promises, activeTask, requests, monitors, appServer>> /\ RestOfStart

RollbackInterrupt(t) ==
  IF Live(t)
  THEN /\ tasks' = [tasks EXCEPT ![t].preInterruptState = Null,
            ![t].state = IF tasks[t].preInterruptState \in {Null, "interrupting"} THEN "running"
                                                              ELSE tasks[t].preInterruptState]
       /\ Append1(t, "interrupt_rejected")
  ELSE UNCHANGED <<tasks, log>>

\* turn/interrupt: accepted or cut off; rejected; or without an answer in time.
InterruptTurn(t, n) ==
  /\ \/ UNCHANGED <<tasks, log, link>>
     \/ IsOpen(n) /\ RollbackInterrupt(t) /\ UNCHANGED link
     \/ IsOpen(n) /\ link' = [link EXCEPT ![n] = "closed"] /\ UNCHANGED <<tasks, log>>
  /\ UNCHANGED <<entries, promises, activeTask, requests, notes, asks, turns>>

SendInterrupt(t) ==
  /\ Step(t, "interrupt", "succeed")
  /\ InterruptTurn(t, Of(t))
  /\ UNCHANGED monitors /\ RestOfStart

\* Mutant: an answer that has been given is given again.
CompleteStartSuccessAgain(t) ==
  /\ Step(t, "succeed", "done")
  /\ AnswerStart(t, "succeeded")
  /\ tasks' = [tasks EXCEPT ![t].deferred = FALSE]
  /\ log' = [log EXCEPT ![t] = @ \o Deferred(t)]
  /\ UNCHANGED <<activeTask, requests>>
  /\ UNCHANGED <<monitors, appServer>> /\ RestOfStart

CompleteStartSuccess(t) ==
  /\ Step(t, "succeed", "done")
  /\ \/ entries[t] # "pending" /\ UNCHANGED registry
     \/ /\ entries[t] = "pending"
        /\ AnswerStart(t, "succeeded")
        /\ tasks' = [tasks EXCEPT ![t].deferred = FALSE]
        /\ log' = [log EXCEPT ![t] = @ \o Deferred(t)]
        /\ UNCHANGED <<activeTask, requests>>
  /\ UNCHANGED <<monitors, appServer>> /\ RestOfStart

CompleteStartFailure(t) ==
  /\ Step(t, "fail", "done")
  /\ \/ entries[t] # "pending" /\ UNCHANGED registry
     \/ /\ entries[t] = "pending" /\ Terminal(t)
        /\ AnswerStart(t, IF tasks[t].thread /\ tasks[t].turn THEN "succeeded" ELSE "failed")
        /\ UNCHANGED <<tasks, activeTask, log, requests>>
     \/ /\ entries[t] = "pending" /\ ~Terminal(t) /\ MustInterrupt(t)
        /\ PreTurnInterrupt(t)
     \/ /\ entries[t] = "pending" /\ ~Terminal(t) /\ ~MustInterrupt(t)
        /\ EndTask(t, "failed", <<>>)
        /\ AnswerStart(t, "failed")
  /\ UNCHANGED <<monitors, appServer>> /\ RestOfStart

CompletePreTurnInterrupt(t) ==
  /\ Step(t, "pre_turn", "done")
  /\ \/ entries[t] # "pending" /\ UNCHANGED registry
     \/ entries[t] = "pending" /\ PreTurnInterrupt(t)
  /\ UNCHANGED <<monitors, appServer>> /\ RestOfStart

StartStep(t) ==
  \/ BeginStart(t) \/ Connect(t) \/ EnsureMonitor(t) \/ SetTaskConnection(t)
  \/ ThreadReturns(t) \/ BindThread(t) \/ BeforeTurn(t) \/ TurnReturns(t)
  \/ ConfirmTurn(t) \/ SendInterrupt(t) \/ CompleteStartSuccess(t)
  \/ CompleteStartFailure(t) \/ CompletePreTurnInterrupt(t)

\* The time a task that has ended is kept has passed, which is taken to be longer than any
\* start: a start whose task is gone would close its promise twice (registry.go:131).
RetentionEnds(t) ==
  /\ Known(t) /\ Terminal(t) /\ starters[t].pc = "done" /\ t \notin stale
  /\ stale' = stale \cup {t}
  /\ UNCHANGED <<registry, pendings, idempotency, called, starters, interrupters, responders,
                 monitors, appServer>>
-----------------------------------------------------------------------------
(* Interrupting a task                                                     *)

InterruptTask(i) ==
  LET t == RetainedKeys[Targets[i]]
      Ends == interrupters' = [interrupters EXCEPT ![i].pc = "done"] IN
  /\ interrupters[i].pc = "new"
  /\ idempotency[Targets[i]] # Null /\ idempotency' = RetainedKeys
  /\ \/ /\ t = Null \/ (t # Null /\ (Terminal(t) \/ tasks[t].state = "interrupting"))
        /\ tasks' = RetainedTasks
        /\ Ends /\ UNCHANGED log
     \/ /\ t # Null /\ Live(t) /\ tasks[t].state # "interrupting" /\ ~tasks[t].turn
        /\ tasks' = [RetainedTasks EXCEPT ![t].cancelBeforeTurn = TRUE,
                       ![t].connectionCancel = IF @ = "set" THEN "called" ELSE @]
        /\ Ends /\ UNCHANGED log
     \/ /\ t # Null /\ Live(t) /\ tasks[t].state # "interrupting" /\ tasks[t].turn
        /\ tasks' = [RetainedTasks EXCEPT ![t].preInterruptState = tasks[t].state,
                                          ![t].state = "interrupting"]
        /\ Append1(t, "interrupting")
        /\ interrupters' = [interrupters EXCEPT ![i] = [pc |-> "call", task |-> t]]
  /\ UNCHANGED <<entries, promises, activeTask, requests, pendings, stale, called, starters,
                 responders, monitors, appServer>>

InterruptReturns(i) ==
  /\ interrupters[i].pc = "call"
  /\ interrupters' = [interrupters EXCEPT ![i].pc = "done"]
  /\ InterruptTurn(interrupters[i].task, Of(interrupters[i].task))
  /\ UNCHANGED <<pendings, retention, starters, responders, monitors>>
-----------------------------------------------------------------------------
(* The monitor of a connection                                             *)

RestOfMonitor == UNCHANGED <<retention, starters, interrupters, responders>>
IsOn(t, n) == Known(t) /\ tasks[t].connection = n

Reads(n, kind) ==
  /\ monitors[n].pc = "read" /\ notes[n] # <<>> /\ Head(notes[n]).kind = kind
  /\ notes' = [notes EXCEPT ![n] = Tail(@)]
  /\ UNCHANGED <<link, asks, turns>>

HandleThreadStarted(n) ==
  LET t == Head(notes[n]).task IN
  /\ Reads(n, "thread/started")
  /\ IF IsOn(t, n) THEN ConfirmThreadStarted(t) ELSE UNCHANGED <<tasks, log>>
  /\ UNCHANGED <<entries, promises, activeTask, requests, pendings, monitors>> /\ RestOfMonitor

\* verifiedLifecycleTaskID; what it finds is used in the next critical section.
HandleTurnStarted(n) ==
  LET t == Head(notes[n]).task IN
  /\ Reads(n, "turn/started")
  /\ monitors' = IF IsOn(t, n) /\ ~Terminal(t) /\ ~tasks[t].turn
                 THEN [monitors EXCEPT ![n] = [pc |-> "confirm", task |-> t]]
                 ELSE monitors
  /\ UNCHANGED <<registry, pendings>> /\ RestOfMonitor

MonitorConfirms(n) ==
  LET t == monitors[n].task IN
  /\ monitors[n].pc = "confirm"
  /\ \/ ~Known(t) /\ UNCHANGED <<tasks, log>>
     \/ Known(t) /\ ConfirmTurnStartedOnce(t)
  /\ monitors' = [monitors EXCEPT ![n] =
       IF Known(t) /\ MustInterrupt(t) THEN [@ EXCEPT !.pc = "interrupt"]
                                       ELSE [pc |-> "read", task |-> Null]]
  /\ UNCHANGED <<entries, promises, activeTask, requests, pendings, appServer>> /\ RestOfMonitor

MonitorInterrupts(n) ==
  /\ monitors[n].pc = "interrupt"
  /\ InterruptTurn(monitors[n].task, n)
  /\ monitors' = [monitors EXCEPT ![n] = [pc |-> "read", task |-> Null]]
  /\ UNCHANGED pendings /\ RestOfMonitor

\* A status that is not known counts as a failure, with a warning. A turn that is not
\* confirmed yet is not the task's: its end is dropped.
HandleTurnCompleted(n) ==
  LET note == Head(notes[n])
      t == note.task IN
  /\ Reads(n, "turn/completed")
  /\ \/ /\ ~(IsOn(t, n) /\ tasks[t].turn /\ ~Terminal(t))
        /\ UNCHANGED <<tasks, activeTask, log, requests>>
     \/ /\ IsOn(t, n) /\ tasks[t].turn /\ ~Terminal(t)
        /\ IF note.status = "other" THEN EndTask(t, "failed", <<Plain("unknown_status")>>)
                                    ELSE EndTask(t, note.status, <<>>)
  /\ Unanswered /\ UNCHANGED <<pendings, monitors>> /\ RestOfMonitor

\* The state of a task once its requests in gone no longer wait.
StateWithout(t, gone) ==
  IF tasks[t].state = "waiting" /\ ActiveRequests(t) \subseteq gone THEN "running"
                                                                   ELSE tasks[t].state

Resolve(q) ==
  LET t == requests[q].task IN
  /\ tasks' = [tasks EXCEPT ![t].state = StateWithout(t, {q})]
  /\ requests' = [requests EXCEPT ![q].state = "resolved", ![q].inFlight = Null]
  /\ log' = [log EXCEPT ![t] = Append(@, About("resolved", q))]
  /\ UNCHANGED <<entries, promises, activeTask>>

\* A response under way has been overtaken; a request that is not known yet is remembered.
HandleServerRequestResolved(n) ==
  LET q == Head(notes[n]).request
      waits == requests[q].state = "active" /\ IsOn(requests[q].task, n)
      i == requests[q].inFlight IN
  /\ Reads(n, "serverRequest/resolved")
  /\ \/ /\ ~waits
        /\ backlog' = [backlog EXCEPT ![n] = @ \cup {q}]
        /\ UNCHANGED <<registry, responses>>
     \/ /\ waits
        /\ Resolve(q)
        /\ responses' = IF i # Null /\ responses[q][i] = "responding"
                        THEN [responses EXCEPT ![q][i] = "accepted"] ELSE responses
        /\ UNCHANGED backlog
  /\ UNCHANGED monitors /\ RestOfMonitor

Asked(n) ==
  LET q == Head(asks[n]) IN
  /\ monitors[n].pc = "read" /\ asks[n] # <<>>
  /\ asks' = [asks EXCEPT ![n] = Tail(@)]
  /\ UNCHANGED <<link, notes, turns, monitors, responses>> /\ RestOfMonitor

\* taskForServerRequestLocked, by the thread and the turn a request names.
TaskAsked(q, n) ==
  LET t == requests[q].task IN IsOn(t, n) /\ ~Terminal(t) /\ tasks[t].turn

\* autoResolvePendingRequest: answered in the task's stead, with a warning when the task
\* is known and the answer could be written.
AutoResolve(q, n, warns) ==
  /\ requests' = [requests EXCEPT ![q].state = "declined",
                                  ![q].answered = @ \/ (IsOpen(n) /\ ~requests[q].withdrawn)]
  /\ IF warns /\ IsOpen(n) /\ ~requests[q].withdrawn
     THEN Append1(requests[q].task, "over_limit") ELSE UNCHANGED log
  /\ UNCHANGED <<tasks, activeTask, backlog>>

Create(q, n) ==
  LET t == requests[q].task
      early == q \in backlog[n] IN
  /\ requests' = [requests EXCEPT ![q].state = IF early THEN "resolved" ELSE "active"]
  /\ log' = [log EXCEPT ![t] = @ \o <<About("created", q)>>
                                 \o (IF early THEN <<About("resolved", q)>> ELSE <<>>)]
  /\ tasks' = [tasks EXCEPT ![t].state =
                 IF early /\ ActiveRequests(t) = {} THEN "running" ELSE "waiting"]
  /\ backlog' = [backlog EXCEPT ![n] = @ \ {q}]
  /\ UNCHANGED activeTask

\* tryCreatePendingRequest
TakeAsk(n) ==
  LET q == Head(asks[n])
      t == requests[q].task
      full == Cardinality(ActiveRequests(t)) >= MaxActiveRequests IN
  /\ \/ /\ Asked(n)
        /\ TaskAsked(q, n) => tasks[t].state = "interrupting"
        /\ AutoResolve(q, n, FALSE)
     \/ /\ Asked(n)
        /\ TaskAsked(q, n) /\ tasks[t].state # "interrupting"
        /\ IF full THEN AutoResolve(q, n, TRUE) ELSE Create(q, n)
  /\ Unanswered

\* failTasksForClosedConnection, once everything the connection delivered has been read.
MonitorEnds(n) ==
  LET failing == {t \in Tasks : Live(t) /\ IsOn(t, n)}
      early(t) == MustInterrupt(t) /\ entries[t] = "pending" IN
  /\ monitors[n].pc = "read" /\ link[n] = "closed" /\ notes[n] = <<>> /\ asks[n] = <<>>
  /\ monitors' = [monitors EXCEPT ![n].pc = "none"]
  /\ backlog' = [backlog EXCEPT ![n] = {}]
  /\ EndTasks([t \in failing |->
       IF early(t) THEN [state |-> "interrupted", first |-> Deferred(t), clears |-> FALSE]
                   ELSE [state |-> "failed", first |-> Deferred(t), clears |-> TRUE]])
  /\ AnswerStarts([t \in {u \in failing : entries[u] = "pending"} |->
       IF early(t) THEN "interrupted_before_turn" ELSE "failed"])
  /\ UNCHANGED <<responses, appServer>> /\ RestOfMonitor

MonitorStep(n) ==
  \/ HandleThreadStarted(n) \/ HandleTurnStarted(n) \/ MonitorConfirms(n)
  \/ MonitorInterrupts(n) \/ HandleTurnCompleted(n) \/ HandleServerRequestResolved(n)
  \/ TakeAsk(n) \/ MonitorEnds(n)
-----------------------------------------------------------------------------
(* Hooks of the connection, called by the goroutine that serves requests   *)

Hooked(n) == IsOpen(n) /\ monitors[n].pc # "none"

\* handleAuthRefreshFailure, for the task that was active when the token could not be
\* refreshed.
AuthRefreshFails ==
  LET t == activeTask IN
  /\ t # Null /\ Live(t) /\ \E n \in Connections : Hooked(n)
  /\ EndTask(t, "failed", <<>>)
  /\ IF entries[t] = "pending" THEN AnswerStart(t, "failed") ELSE Unanswered
  /\ UNCHANGED <<pendings, retention, starters, interrupters, responders, monitors, appServer>>

\* handleUnsupportedServerRequest: the warning waits for the answer to the start.
UnsupportedRequest ==
  LET t == activeTask IN
  /\ t # Null /\ Live(t) /\ tasks[t].turn /\ Hooked(tasks[t].connection)
  /\ Cardinality({i \in DOMAIN log[t] : log[t][i].kind = "unsupported"}) < MaxUnsupported
  /\ IF entries[t] = "pending"
     THEN tasks' = [tasks EXCEPT ![t].deferred = TRUE] /\ UNCHANGED log
     ELSE Append1(t, "unsupported") /\ UNCHANGED tasks
  /\ UNCHANGED <<entries, promises, activeTask, requests, pendings, retention, starters,
                 interrupters, responders, monitors, appServer>>
-----------------------------------------------------------------------------
(* Answering a request                                                     *)

RestOfResponse == UNCHANGED <<backlog, retention, starters, interrupters, monitors, notes, asks, turns>>
Goes(r, to) == responders' = [responders EXCEPT ![r].pc = to]

\* claimPendingResponse: an answer with an id that is known waits for it, another is
\* refused while one is under way.
ClaimResponse(r) ==
  LET q == Answers[r][1]
      i == Answers[r][2]
      claims == /\ Known(requests[q].task) /\ responses[q][i] = "none"
                /\ requests[q].state = "active" /\ requests[q].inFlight = Null IN
  /\ responders[r].pc = "new" /\ requests[q].state \in {"active", "resolved"}
  /\ \/ /\ ~claims
        /\ Goes(r, IF Known(requests[q].task) /\ responses[q][i] = "responding" THEN "wait" ELSE "done")
        /\ UNCHANGED <<requests, responses>>
     \/ /\ claims
        /\ Goes(r, "write")
        /\ responses' = [responses EXCEPT ![q][i] = "responding"]
        /\ requests' = [requests EXCEPT ![q].inFlight = i]
  /\ UNCHANGED <<tasks, entries, promises, activeTask, log, link>> /\ RestOfResponse

\* The app server may have withdrawn the request, just before or while it is answered; a
\* write that fails closes the connection.
WriteResponse(r) ==
  LET q == Answers[r][1]
      n == Of(requests[q].task)
      Ends(written) == responders' = [responders EXCEPT ![r] = [pc |-> "complete", written |-> written]] IN
  /\ responders[r].pc = "write"
  /\ \/ /\ IsOpen(n) /\ ~requests[q].answered
        /\ Ends(TRUE) /\ requests' = [requests EXCEPT ![q].answered = TRUE] /\ UNCHANGED link
     \/ /\ ~IsOpen(n) \/ requests[q].withdrawn \/ requests[q].answered
        /\ Ends(FALSE) /\ UNCHANGED <<requests, link>>
     \/ /\ IsOpen(n)
        /\ Ends(FALSE) /\ UNCHANGED requests /\ link' = [link EXCEPT ![n] = "closed"]
  /\ UNCHANGED <<tasks, entries, promises, activeTask, log, responses>> /\ RestOfResponse

\* Mutant: the request is resolved whatever became of it meanwhile.
CompleteResponseAgain(r) ==
  LET q == Answers[r][1]
      i == Answers[r][2] IN
  /\ responders[r].pc = "complete" /\ Goes(r, "done")
  /\ IF Known(requests[q].task) /\ responses[q][i] = "responding"
     THEN /\ Resolve(q)
          /\ responses' = [responses EXCEPT ![q][i] =
               Close(@, "responding", IF responders[r].written THEN "accepted" ELSE "failed")]
     ELSE UNCHANGED <<registry, responses>>
  /\ UNCHANGED link /\ RestOfResponse

\* completePendingResponse: serverRequest/resolved, or the end of the task, may have come
\* first.
CompleteResponse(r) ==
  LET q == Answers[r][1]
      i == Answers[r][2] IN
  /\ responders[r].pc = "complete" /\ Goes(r, "done")
  /\ \/ /\ ~Known(requests[q].task) \/ responses[q][i] # "responding"
        /\ UNCHANGED <<registry, responses>>
     \/ /\ Known(requests[q].task) /\ responses[q][i] = "responding"
        /\ requests[q].state = "resolved"
        /\ requests' = [requests EXCEPT ![q].inFlight = Null]
        /\ responses' = [responses EXCEPT ![q][i] = "accepted"]
        /\ UNCHANGED <<tasks, entries, promises, activeTask, log>>
     \/ /\ Known(requests[q].task) /\ responses[q][i] = "responding"
        /\ requests[q].state = "active"
        /\ Resolve(q)
        /\ responses' = [responses EXCEPT ![q][i] =
             IF responders[r].written THEN "accepted" ELSE "failed"]
  /\ UNCHANGED link /\ RestOfResponse

WaitForResponse(r) ==
  /\ responders[r].pc = "wait" /\ responses[Answers[r][1]][Answers[r][2]] # "responding"
  /\ Goes(r, "done")
  /\ UNCHANGED <<registry, responses, link>> /\ RestOfResponse

ResponderStep(r) ==
  ClaimResponse(r) \/ WriteResponse(r) \/ CompleteResponse(r) \/ WaitForResponse(r)
-----------------------------------------------------------------------------
(* The app server                                                          *)

RestOfAppServer == UNCHANGED <<tasks, entries, promises, activeTask, log, pendings, retention,
                               starters, interrupters, responders, monitors>>
Note(kind, t, status) == [kind |-> kind, task |-> t, status |-> status]
Sends(n, note) == notes' = [notes EXCEPT ![n] = Append(@, note)]

\* Announcements name the task only while its call is under way, and not always.
CodexStartsThread(t) ==
  /\ starters[t].pc = "threading" /\ IsOpen(Of(t)) /\ notes[Of(t)] = <<>>
  /\ Sends(Of(t), Note("thread/started", t, "other"))
  /\ UNCHANGED <<requests, link, asks, turns>> /\ RestOfAppServer

CodexStartsTurn(t) ==
  /\ starters[t].pc = "turning" /\ turns[t] = "none" /\ IsOpen(Of(t))
  /\ turns' = [turns EXCEPT ![t] = "running"]
  /\ Sends(Of(t), Note("turn/started", t, "other")) \/ UNCHANGED notes
  /\ UNCHANGED <<requests, link, asks>> /\ RestOfAppServer

CodexEndsTurn(t) ==
  /\ turns[t] = "running" /\ IsOpen(Of(t))
  /\ turns' = [turns EXCEPT ![t] = "ended"]
  /\ \E status \in TurnStatuses :
       Sends(Of(t), Note("turn/completed", t, status))
  /\ UNCHANGED <<requests, link, asks>> /\ RestOfAppServer

CodexAsks(q, t) ==
  /\ requests[q].state = "none" /\ turns[t] = "running" /\ IsOpen(Of(t))
  /\ requests' = [requests EXCEPT ![q].state = "asked", ![q].task = t]
  /\ asks' = [asks EXCEPT ![Of(t)] = Append(@, q)]
  /\ UNCHANGED <<link, notes, turns>> /\ RestOfAppServer

CodexWithdraws(q) ==
  /\ requests[q].state \in {"asked", "active"} /\ ~requests[q].answered /\ ~requests[q].withdrawn
  /\ IsOpen(Of(requests[q].task))
  /\ requests' = [requests EXCEPT ![q].withdrawn = TRUE]
  /\ Sends(Of(requests[q].task), [kind |-> "serverRequest/resolved", request |-> q])
  /\ UNCHANGED <<link, asks, turns>> /\ RestOfAppServer

ConnectionIsLost(n) ==
  /\ IsOpen(n)
  /\ link' = [link EXCEPT ![n] = "closed"]
  /\ UNCHANGED <<requests, notes, asks, turns>> /\ RestOfAppServer
-----------------------------------------------------------------------------
GatewayStep ==
  \/ \E c \in Clients : ClaimStart(c)
  \/ \E t \in Tasks : StartStep(t)
  \/ \E i \in Interrupters : InterruptTask(i) \/ InterruptReturns(i)
  \/ \E n \in Connections : MonitorStep(n)
  \/ \E r \in Responders : ResponderStep(r)

AppServerStep ==
  \/ \E t \in Tasks : CodexStartsTurn(t) \/ CodexEndsTurn(t) \/ \E q \in Requests : CodexAsks(q, t)

TasksNext ==
  \/ GatewayStep \/ AppServerStep
  \/ GetTaskStatus \/ AuthRefreshFails \/ UnsupportedRequest
  \/ \E t \in Tasks : RetentionEnds(t) \/ CodexStartsThread(t)
  \/ \E q \in Requests : CodexWithdraws(q)
  \/ \E n \in Connections : ConnectionIsLost(n)

\* Goroutines are scheduled; every call has a deadline. Nothing is assumed of clients and
\* of the app server.
TasksFairness ==
  /\ \A t \in Tasks : WF_vars(StartStep(t))
  /\ \A i \in Interrupters : WF_vars(InterruptReturns(i))
  /\ \A n \in Connections : WF_vars(MonitorStep(n))
  /\ \A r \in Responders : WF_vars(WriteResponse(r) \/ CompleteResponse(r) \/ WaitForResponse(r))

TasksSpec == TasksInit /\ [][TasksNext]_vars /\ TasksFairness
-----------------------------------------------------------------------------
Count(t, kinds) == Cardinality({i \in DOMAIN log[t] : log[t][i].kind \in kinds})

\* Types; in particular no promise and no response is closed a second time, which would
\* end the gateway.
TasksTypeOK ==
  /\ tasks \in [Tasks -> TaskRecords \cup {Null}]
  /\ idempotency \in [Keys -> Tasks \cup {Null}]
  /\ entries \in [Tasks -> EntryStates]
  /\ promises \in [Tasks -> {"open"} \cup EntryStates] /\ \A t \in Tasks : promises[t] # "pending"
  /\ activeTask \in Tasks \cup {Null}
  /\ \A t \in Tasks : Range(log[t]) \subseteq Events
  /\ requests \in [Requests -> RequestRecords]
  /\ responses \in [Requests -> [ResponseIDs -> {"none", "responding", "accepted", "failed"}]]
  /\ backlog \in [Connections -> SUBSET Requests]
  /\ stale \subseteq Tasks /\ called \subseteq Clients
  /\ starters \in [Tasks -> StarterRecords]
  /\ interrupters \in [Interrupters -> InterrupterRecords]
  /\ responders \in [Responders -> ResponderRecords]
  /\ monitors \in [Connections -> MonitorRecords]
  /\ link \in [Connections -> {"new", "open", "closed"}]
  /\ \A n \in Connections : Range(notes[n]) \subseteq Notes /\ Range(asks[n]) \subseteq Requests
  /\ turns \in [Tasks -> {"none", "running", "ended"}]

\* The session is taken exactly while a task of it has started and its log names no end:
\* whichever of its start, an interrupt, the monitor and the hooks ends the task, the
\* session is given back, once, and to nobody else's harm.
SessionBelongsToUnendedTask ==
  {t \in Tasks : log[t] # <<>> /\ Count(t, EndStates) = 0} = {activeTask} \ {Null}

\* Between the app server, which withdraws requests, the clients, which answer them, and
\* the end of the task a request is announced once and resolved once; while it waits, its
\* task has not ended and is shown as waiting or as being interrupted.
RequestIsResolvedOnce ==
  \A q \in Requests :
    LET t == requests[q].task
        events(kind) == {i \in DOMAIN log[t] : log[t][i] = About(kind, q)} IN
    /\ requests[q].state = "active" =>
         Known(t) /\ tasks[t].state \in {"waiting", "interrupting"}
    /\ t # Null =>
         /\ Cardinality(events("created")) = (IF requests[q].state \in {"active", "resolved"} THEN 1 ELSE 0)
         /\ Cardinality(events("resolved")) = (IF requests[q].state = "resolved" THEN 1 ELSE 0)

\* Every start is answered; and a task whose interrupt was recorded before its turn was
\* known ends, or the turn is interrupted once it is known.
StartsComeToAnEnd ==
  \A t \in Tasks :
    /\ (starters[t].pc # "none") ~> (promises[t] # "open")
    /\ (Known(t) /\ tasks[t].cancelBeforeTurn) ~> (Count(t, EndStates \cup {"interrupting"}) > 0)

\* A task ends once: its log has one terminal event at most.
TaskEndsOnce == \A t \in Tasks : Count(t, EndStates) <= 1
=============================================================================
