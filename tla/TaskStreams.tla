------------------------------ MODULE TaskStreams ------------------------------
(***************************************************************************)
(* The event streams of tasks, composed with the task service: a goroutine *)
(* that appends to the log of a task takes a note of its subscribers under *)
(* Service.mu and sends them the events after it, so that several          *)
(* goroutines may deliver to one stream in another order than they         *)
(* appended, while streams are opened, read, given up and closed.          *)
(*                                                                         *)
(* Events are their ids, the positions in the log. Only the newest are     *)
(* kept for streams that come later; that their number or their size may   *)
(* be the limit makes no difference here.                                  *)
(***************************************************************************)
EXTENDS Tasks

CONSTANTS
  Streams,         \* calls of StreamTask
  Cursors,         \* where a client may ask to begin
  Hook,            \* the goroutine that calls the hooks of a connection
  SubscriberQueue, \* streamSubscriberQueue
  MaxEvents        \* events of a task that are kept

ASSUME TaskStreamsAssumption ==
  /\ Cursors \subseteq [from : {"start", "after"}, id : Nat]
  /\ SubscriberQueue \in Nat \ {0} /\ MaxEvents \in Nat \ {0}
  /\ Hook \notin Tasks \cup Interrupters \cup Connections \cup Responders

VARIABLES
  streams,     \* stream -> the taskStream of its handler and its taskSubscriber
  publishing   \* goroutine -> the publications it has yet to send

streamVars == <<streams, publishing>>
allVars == <<vars, streamVars>>
-----------------------------------------------------------------------------
Goroutines == Tasks \cup Interrupters \cup Connections \cup Responders \cup {Hook}
Notice == 0   \* a replay notice among the event ids of a stream

\* first: the event the stream was promised to begin with.
NewStream == [pc |-> "new", task |-> Null, first |-> 1, replay |-> <<>>, registered |-> FALSE,
              queue |-> <<>>, closed |-> FALSE, received |-> {}]

StreamsInit ==
  /\ streams = [s \in Streams |-> NewStream]
  /\ publishing = [g \in Goroutines |-> <<>>]

Oldest(t) == IF Len(log[t]) > MaxEvents THEN Len(log[t]) - MaxEvents + 1 ELSE 1
EventsFrom(t, id) == [i \in 1..(Len(log[t]) - id + 1) |-> id + i - 1]
Subscribers(t) == {s \in Streams : streams[s].task = t /\ streams[s].registered}

\* What this step appends to the log of t.
AppendedTo(t) ==
  [i \in 1..(Len(log'[t]) - Len(log[t])) |->
     [event |-> Len(log[t]) + i, to |-> Subscribers(t),
      closeAfter |-> log'[t][Len(log[t]) + i].kind \in EndStates]]

\* appendEventLocked, appendPublicationsLocked: for the goroutine to publish.
Appends(g) ==
  publishing' = [publishing EXCEPT ![g] =
    FlattenSeq(SetToSeq({AppendedTo(t) : t \in {u \in Tasks : log'[u] # log[u] /\ Subscribers(u) # {}}}))]
-----------------------------------------------------------------------------
(* Subscribers                                                             *)

Sent(stream, p) == [stream EXCEPT !.queue = Append(@, p.event), !.closed = p.closeAfter]
Removed(stream) == [stream EXCEPT !.closed = TRUE, !.registered = FALSE]

\* Mutant: a subscriber that does not keep up misses the event.
DeliverOrSkip(stream, p) ==
  IF stream.closed THEN Removed(stream)
  ELSE IF Len(stream.queue) < SubscriberQueue THEN Sent(stream, p) ELSE stream

\* taskSubscriber.send, close and removeSubscriber: one that does not keep up is closed.
Deliver(stream, p) ==
  IF ~stream.closed /\ Len(stream.queue) < SubscriberQueue THEN Sent(stream, p)
                                                           ELSE Removed(stream)

\* publishEvent, to one subscriber after the other in any order.
Publish(g) ==
  /\ publishing[g] # <<>>
  /\ LET p == Head(publishing[g]) IN
       \E s \in p.to :
         /\ streams' = [streams EXCEPT ![s] = IF @.pc = "open" THEN Deliver(@, p) ELSE @]
         /\ publishing' = [publishing EXCEPT ![g] =
              IF p.to = {s} THEN Tail(@) ELSE <<[p EXCEPT !.to = @ \ {s}]>> \o Tail(@)]
  /\ UNCHANGED vars
-----------------------------------------------------------------------------
(* Streams                                                                 *)

\* replayMessagesLocked: the notice comes with everything that is kept. It also comes
\* when the cursor is the event just before, after which nothing is missing.
Replay(t, cursor) ==
  LET evicted == IF cursor.from = "start" THEN Oldest(t) > 1 ELSE cursor.id < Oldest(t)
      begin == IF evicted \/ cursor.from = "start" THEN Oldest(t) ELSE cursor.id + 1
  IN [first |-> begin,
      messages |-> (IF evicted THEN <<Notice>> ELSE <<>>) \o EventsFrom(t, begin)]

\* subscribeLocked; a task that has ended has no more to send.
Subscribed(t, cursor) ==
  LET replay == Replay(t, cursor) IN
  [NewStream EXCEPT !.pc = "open", !.task = t, !.first = replay.first,
     !.replay = replay.messages, !.registered = ~Terminal(t), !.closed = Terminal(t)]

\* A task that is not known and a cursor from the future are refused.
StreamTask(s) ==
  /\ streams[s].pc = "new"
  /\ tasks' = RetainedTasks /\ idempotency' = RetainedKeys
  /\ \E t \in Tasks, cursor \in Cursors :
       LET refused == RetainedTasks[t] = Null \/ (cursor.from = "after" /\ cursor.id > Len(log[t])) IN
       /\ log[t] # <<>>
       /\ streams' = [streams EXCEPT ![s] =
            IF refused THEN [NewStream EXCEPT !.pc = "done"] ELSE Subscribed(t, cursor)]
  /\ UNCHANGED <<entries, promises, activeTask, log, requests, pendings, stale, called,
                 starters, interrupters, responders, monitors, appServer, publishing>>

\* taskStream.Next: the replay first, then what was sent.
NextMessage(s) ==
  /\ streams[s].pc = "open"
  /\ \/ /\ streams[s].replay # <<>>
        /\ streams' = [streams EXCEPT ![s].replay = Tail(@),
                                      ![s].received = @ \cup {Head(streams[s].replay)}]
     \/ /\ streams[s].replay = <<>> /\ streams[s].queue # <<>>
        /\ streams' = [streams EXCEPT ![s].queue = Tail(@),
                                      ![s].received = @ \cup {Head(streams[s].queue)}]
  /\ UNCHANGED <<vars, publishing>>

\* io.EOF, or the client gives up, or a message cannot be sent: the handler closes the
\* stream, which takes its subscriber off the task.
StreamEnds(s) ==
  /\ streams[s].pc = "open"
  /\ streams' = [streams EXCEPT ![s] = [NewStream EXCEPT !.pc = "done"]]
  /\ UNCHANGED <<vars, publishing>>
-----------------------------------------------------------------------------
(* The task service, whose goroutines publish before they go on            *)

Then(g, A) == publishing[g] = <<>> /\ A /\ Appends(g) /\ UNCHANGED streams

Start(t) == Then(t, StartStep(t))
InterruptBegins(i) == Then(i, InterruptTask(i))
InterruptGoesOn(i) == Then(i, InterruptReturns(i))
Monitors(n) == Then(n, MonitorStep(n))
Claims(r) == Then(r, ClaimResponse(r))
Answering(r) == Then(r, WriteResponse(r) \/ CompleteResponse(r) \/ WaitForResponse(r))
Refreshes == Then(Hook, AuthRefreshFails)
Warns == Then(Hook, UnsupportedRequest)
Elsewhere(A) == A /\ UNCHANGED streamVars

StreamsNext ==
  \/ \E c \in Clients : Elsewhere(ClaimStart(c))
  \/ \E t \in Tasks : Start(t)
  \/ \E i \in Interrupters : InterruptBegins(i) \/ InterruptGoesOn(i)
  \/ \E n \in Connections : Monitors(n)
  \/ \E r \in Responders : Claims(r) \/ Answering(r)
  \/ Refreshes \/ Warns
  \/ \E s \in Streams : StreamTask(s) \/ NextMessage(s) \/ StreamEnds(s)
  \/ \E g \in Goroutines : Publish(g)
  \/ Elsewhere(AppServerStep \/ GetTaskStatus)
  \/ \E t \in Tasks : Elsewhere(RetentionEnds(t) \/ CodexStartsThread(t))
  \/ \E q \in Requests : Elsewhere(CodexWithdraws(q))
  \/ \E n \in Connections : Elsewhere(ConnectionIsLost(n))

\* As in Tasks, and publishing does not wait for anybody.
StreamsFairness ==
  /\ \A t \in Tasks : WF_allVars(Start(t))
  /\ \A i \in Interrupters : WF_allVars(InterruptGoesOn(i))
  /\ \A n \in Connections : WF_allVars(Monitors(n))
  /\ \A r \in Responders : WF_allVars(Answering(r))
  /\ \A g \in Goroutines : WF_allVars(Publish(g))

StreamsSpec == TasksInit /\ StreamsInit /\ [][StreamsNext]_allVars /\ StreamsFairness
-----------------------------------------------------------------------------
SentTo(s) == {p.event : p \in {q \in UNION {Range(publishing[g]) : g \in Goroutines} : s \in q.to}}

\* While a stream is not closed, every event since the one it was promised to begin with
\* is with the client, in the stream or with a goroutine that will send it, in one of
\* these and once: whoever appends while the stream is opened, read and sent to, nothing
\* is skipped and nothing comes twice. When its task has ended and nobody is left to
\* send it anything, it has been closed. (That events come in the order of their ids is
\* not so, and what a goroutine has yet to send when another closes the stream is lost.)
OpenTaskStreamMissesNothing ==
  \A s \in Streams :
    LET stream == streams[s]
        held == stream.replay \o stream.queue IN
    stream.pc = "open" =>
      /\ IsInjective(held)
      /\ Range(held) \cap (stream.received \cup SentTo(s)) = {} /\ stream.received \cap SentTo(s) = {}
      /\ ~stream.closed =>
           (Range(held) \cup stream.received \cup SentTo(s)) \ {Notice}
             = stream.first..Len(log[stream.task])
      /\ Known(stream.task) /\ Terminal(stream.task) /\ SentTo(s) = {} => stream.closed
=============================================================================
