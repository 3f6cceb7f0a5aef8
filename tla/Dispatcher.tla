------------------------------ MODULE Dispatcher ------------------------------
(***************************************************************************)
(* One connection to a Codex app server                                    *)
(* (gateway/internal/appserver/dispatcher.go and connection.go): JSON-RPC  *)
(* calls of the gateway's services over the process's stdin, the goroutine *)
(* that reads its stdout, the goroutine that serves what the app server    *)
(* asks, and closing, which any of them may begin.                         *)
(*                                                                         *)
(* A call is named by the element of Calls that makes it: newPendingCall   *)
(* gives each its own id under the mutex.  The thread or turn a call       *)
(* starts is named by the call, too.  The app server is external: it       *)
(* answers, announces, asks and exits as it likes.                         *)
(***************************************************************************)
EXTENDS Integers, Sequences, FiniteSets

CONSTANTS
  Calls,             \* calls of the services
  Threads,           \* threads that exist before the connection
  ServerRequests,    \* requests of the app server, by id
  Responders,        \* goroutines of the services that answer them
  MethodOf,          \* call -> its JSON-RPC method
  ThreadOf,          \* call -> the thread it names, Null for thread/start
  KindOf,            \* server request -> how the connection treats it
  RequestsCap,       \* capacity of the channel of server requests
  NotificationsCap,  \* capacity of the channel of notifications
  ForwardedCap,      \* capacity of the connection's channel to the task service
  ServerLoop,        \* the goroutine handleServerRequests
  Other,             \* an id that is no call's
  Null

ThreadMethods == {"thread/start", "thread/resume"}
Methods == ThreadMethods \cup
           {"turn/start", "turn/interrupt", "thread/read", "send turn/interrupt"}
Kinds == {"unsupported", "refresh", "pending"}

ASSUME CapsAreChannels ==
  RequestsCap \in Nat /\ NotificationsCap \in Nat /\ ForwardedCap \in Nat
ASSUME TablesAreTotal ==
  /\ MethodOf \in [Calls -> Methods]
  /\ ThreadOf \in [Calls -> Threads \cup {Null}]
  /\ \A c \in Calls : ThreadOf[c] = Null <=> MethodOf[c] = "thread/start"
  /\ KindOf \in [ServerRequests -> Kinds]
ASSUME NamesDiffer ==
  /\ Null \notin Calls \cup Threads \cup ServerRequests \cup {Other}
  /\ Other \notin Calls \cup Threads
  /\ ServerLoop \notin Responders
  /\ Calls \cap Threads = {}

VARIABLES
  calls,           \* call -> where its goroutine is and what it returned
  buffer,          \* call -> its result channel, of capacity one
  pending,         \* calls the reader may answer
  provisional,     \* call -> the id announced for it
  serverRequests,  \* requests the dispatcher knows
  responded,       \* those of them an answer is under way for
  closeErr,        \* why the dispatcher was closed, Null while it is open
  doomed,          \* calls taken from pending by closing
  done,            \* whether the channel done is closed
  reader,          \* readLoop
  requests,        \* channel of server requests
  notifications,   \* channel of notifications
  workers,         \* ServerLoop and Responders -> what they do
  forwarded,       \* the connection's channel to the task service
  held             \* requests a service has been given

dispatcherVars == <<calls, buffer, pending, provisional, serverRequests, responded,
                    closeErr, doomed, done, reader, requests, notifications,
                    workers, forwarded, held>>

VARIABLES
  alive,       \* whether the app server runs
  stdout,      \* what it has written and the reader has not read
  received,    \* calls it has received
  announced,   \* calls whose thread or turn it has announced
  replied,     \* calls it has answered
  conflicting, \* calls it has answered with another id than it announced
  asked,       \* requests it has made
  settled,     \* requests it has declared resolved
  answers      \* server request -> number of answers it received

serverVars == <<alive, stdout, received, announced, replied, conflicting, asked,
                settled, answers>>
vars == <<dispatcherVars, serverVars>>
-----------------------------------------------------------------------------
Workers == Responders \cup {ServerLoop}
Ids     == Calls \cup Threads \cup {Other}
Results == {"result", "error", "mismatch", "closed"}
Outcomes == Results \cup {"deadline", "sent"}
CloseReasons == {"deadline", "mismatch", "duplicate", "eof", "closed"}
ASSUME NullIsNothing == Null \notin Results \cup CloseReasons

CallLabels   == {"idle", "write", "forget", "wait", "closing", "returned"}
ReaderLabels == {"read", "deliver", "mismatch", "put request", "put notification",
                 "closing", "stopped"}
WorkerLabels == {"idle", "take", "provider", "offer", "forward", "respond", "write",
                 "complete", "closing", "stopped"}

\* The ids are those of the thread and of the thread or turn that was started.
Messages ==
  [type : {"response"}, call : Calls, id : Ids, failed : BOOLEAN]
    \cup [type : {"request", "resolved"}, request : ServerRequests]
    \cup [type : {"started"}, methods : SUBSET Methods, thread : Ids, id : Ids]
NotificationRecords == [type : {"started"}, call : Calls \cup {Null}]
                         \cup [type : {"resolved"}, matched : BOOLEAN]

\* CloseOnUncertain of the connection's methods.
ClosesOnUncertain(c) ==
  MethodOf[c] \in ThreadMethods \cup {"turn/start", "turn/interrupt"}
Announces(c) == MethodOf[c] \in ThreadMethods \cup {"turn/start"}
ExpectedThread(c) == ThreadOf[c]

\* The id the app server gives to the thread or turn of a call, and its thread.
LifecycleID(c) == IF MethodOf[c] = "thread/resume" THEN ThreadOf[c] ELSE c
LifecycleThread(c) == IF MethodOf[c] = "turn/start" THEN ThreadOf[c] ELSE LifecycleID(c)
Announcement(c) ==
  [type |-> "started", thread |-> LifecycleThread(c), id |-> LifecycleID(c),
   methods |-> IF MethodOf[c] = "turn/start" THEN {"turn/start"} ELSE ThreadMethods]

Rest(w) == IF w = ServerLoop THEN "take" ELSE "idle"

Init ==
  /\ calls = [c \in Calls |-> [pc |-> "idle", outcome |-> Null]]
  /\ buffer = [c \in Calls |-> Null]
  /\ pending = {} /\ doomed = {}
  /\ provisional = [c \in Calls |-> Null]
  /\ serverRequests = {} /\ responded = {} /\ held = {}
  /\ closeErr = Null /\ done = FALSE
  /\ reader = [pc |-> "read", message |-> Null, note |-> Null]
  /\ requests = <<>> /\ notifications = <<>> /\ forwarded = <<>>
  /\ workers = [w \in Workers |-> [pc |-> Rest(w), request |-> Null]]
  /\ alive = TRUE /\ stdout = <<>>
  /\ received = {} /\ announced = {} /\ replied = {} /\ conflicting = {}
  /\ asked = {} /\ settled = {}
  /\ answers = [r \in ServerRequests |-> 0]
-----------------------------------------------------------------------------
(* Closing *)

\* The locked part of closeWithError: only the first close takes effect.
Close(reason) ==
  IF closeErr # Null
  THEN UNCHANGED <<closeErr, doomed, pending, serverRequests, responded>>
  ELSE /\ closeErr' = reason
       /\ doomed' = pending
       /\ pending' = {}
       /\ serverRequests' = {} /\ responded' = {}

Open == UNCHANGED <<closeErr, doomed, pending, serverRequests, responded>>

\* Faulty variant of FinishClose: the channel done stays open.
FinishCloseUnsignalled ==
  /\ closeErr # Null /\ ~done
  /\ \A c \in doomed : buffer[c] = Null
  /\ buffer' = [c \in Calls |-> IF c \in doomed THEN "closed" ELSE buffer[c]]
  /\ doomed' = {}
  /\ UNCHANGED <<calls, pending, provisional, serverRequests, responded, closeErr, done,
                 reader, requests, notifications, workers, forwarded, held, serverVars>>

\* The rest of closeWithError; whoever closes waits for it.
FinishClose ==
  /\ closeErr # Null /\ ~done
  /\ \A c \in doomed : buffer[c] = Null
  /\ buffer' = [c \in Calls |-> IF c \in doomed THEN "closed" ELSE buffer[c]]
  /\ doomed' = {}
  /\ done' = TRUE
  /\ UNCHANGED <<calls, pending, provisional, serverRequests, responded, closeErr,
                 reader, requests, notifications, workers, forwarded, held, serverVars>>
-----------------------------------------------------------------------------
(* Call and SendRequest *)

Goes(c, pc) == calls' = [calls EXCEPT ![c].pc = pc]
Returns(c, outcome) == calls' = [calls EXCEPT ![c] = [pc |-> "returned", outcome |-> outcome]]
Closes(c, outcome) == calls' = [calls EXCEPT ![c] = [pc |-> "closing", outcome |-> outcome]]

\* What a step of a call leaves alone.
OfCall == UNCHANGED <<provisional, done, reader, requests, notifications, workers,
                      forwarded, held, alive, stdout, announced, replied, conflicting,
                      asked, settled, answers>>

Register(c) ==
  /\ calls[c].pc = "idle"
  /\ IF closeErr = Null
     THEN Goes(c, "write") /\ pending' = pending \cup {c}
     ELSE Returns(c, "closed") /\ UNCHANGED pending
  /\ UNCHANGED <<buffer, closeErr, doomed, serverRequests, responded, received>>
  /\ OfCall

WriteRequest(c) ==
  /\ calls[c].pc = "write" /\ closeErr = Null /\ alive
  /\ received' = received \cup {c}
  /\ Goes(c, IF MethodOf[c] = "send turn/interrupt" THEN "forget" ELSE "wait")
  /\ UNCHANGED buffer
  /\ Open
  /\ OfCall

\* The deadline passes or the pipe breaks, with the message written or not.
WriteRequestFails(c) ==
  /\ calls[c].pc = "write"
  /\ Closes(c, IF closeErr = Null THEN "deadline" ELSE "closed")
  /\ Close("deadline")
  /\ received' \in {received} \cup (IF alive THEN {received \cup {c}} ELSE {})
  /\ UNCHANGED buffer
  /\ OfCall

ForgetRequest(c) ==
  /\ calls[c].pc = "forget"
  /\ Returns(c, "sent")
  /\ pending' = pending \ {c}
  /\ UNCHANGED <<buffer, closeErr, doomed, serverRequests, responded, received>>
  /\ OfCall

TakeResult(c) ==
  /\ calls[c].pc = "wait" /\ buffer[c] # Null
  /\ Returns(c, buffer[c])
  /\ buffer' = [buffer EXCEPT ![c] = Null]
  /\ UNCHANGED received
  /\ Open
  /\ OfCall

\* Faulty variant of Expire: an uncertain call only gives up.
ExpireQuietly(c) ==
  /\ calls[c].pc = "wait"
  /\ Returns(c, "deadline")
  /\ pending' = pending \ {c}
  /\ UNCHANGED <<buffer, closeErr, doomed, serverRequests, responded, received>>
  /\ OfCall

\* The deadline of a call that waits: a call whose effect is uncertain closes the
\* connection, another gives its id back unless the reader has taken it already.
Expire(c) ==
  /\ calls[c].pc = "wait"
  /\ IF ClosesOnUncertain(c)
     THEN Closes(c, "deadline") /\ Close("deadline") /\ UNCHANGED buffer
     ELSE /\ c \notin pending => buffer[c] = Null
          /\ Returns(c, "deadline")
          /\ pending' = pending \ {c}
          /\ UNCHANGED <<buffer, closeErr, doomed, serverRequests, responded>>
  /\ UNCHANGED received
  /\ OfCall

SeeDone(c) ==
  /\ calls[c].pc = "wait" /\ done
  /\ Returns(c, "closed")
  /\ UNCHANGED <<buffer, received>>
  /\ Open
  /\ OfCall

CallClosed(c) ==
  /\ calls[c].pc = "closing" /\ done
  /\ Goes(c, "returned")
  /\ UNCHANGED <<buffer, received>>
  /\ Open
  /\ OfCall

CallStep(c) ==
  \/ Register(c) \/ WriteRequest(c) \/ WriteRequestFails(c) \/ ForgetRequest(c)
  \/ TakeResult(c) \/ Expire(c) \/ SeeDone(c) \/ CallClosed(c)

\* Connection.Close, or the process's exit seen by the goroutine that waits for it.
CloseConnection ==
  /\ closeErr = Null
  /\ Close("closed")
  /\ UNCHANGED <<calls, buffer, provisional, done, reader, requests, notifications,
                 workers, forwarded, held, serverVars>>
-----------------------------------------------------------------------------
(* readLoop *)

ReaderGoes(pc) == reader' = [reader EXCEPT !.pc = pc]

OfReader == UNCHANGED <<calls, done, workers, forwarded, held, alive, received,
                        announced, replied, conflicting, asked, settled, answers>>

\* Faulty variant of MatchesLifecycle: whatever thread the call names.
MatchesAnyThread(c, message) ==
  /\ MethodOf[c] \in message.methods
  /\ provisional[c] = Null

\* The call an announcement may be bound to.
MatchesLifecycle(c, message) ==
  /\ MethodOf[c] \in message.methods
  /\ provisional[c] = Null
  /\ ExpectedThread(c) \in {Null, message.thread}

\* A call that names its thread comes first; else the order of the map decides.
BoundCalls(message) ==
  LET matching == {c \in pending : MatchesLifecycle(c, message)}
      naming   == {c \in matching : ExpectedThread(c) # Null} IN
  IF naming # {} THEN naming ELSE matching

\* Faulty variant of HandleResponse: the call stays registered.
HandleResponseKept(message) ==
  /\ reader' = [reader EXCEPT !.pc = IF message.call \in pending THEN "deliver" ELSE "read",
                              !.message = message]
  /\ UNCHANGED <<pending, closeErr, doomed, serverRequests, responded, provisional>>

HandleResponse(message) ==
  /\ reader' = [reader EXCEPT !.pc = IF message.call \in pending THEN "deliver" ELSE "read",
                              !.message = message]
  /\ pending' = pending \ {message.call}
  /\ UNCHANGED <<closeErr, doomed, serverRequests, responded, provisional>>

HandleServerRequest(message) ==
  /\ UNCHANGED provisional
  /\ IF closeErr # Null \/ message.request \in serverRequests
     THEN ReaderGoes("closing") /\ Close("duplicate")
     ELSE /\ reader' = [reader EXCEPT !.pc = "put request", !.message = message]
          /\ serverRequests' = serverRequests \cup {message.request}
          /\ UNCHANGED <<closeErr, doomed, pending, responded>>

HandleStarted(message) ==
  /\ \E c \in IF BoundCalls(message) = {} THEN {Null} ELSE BoundCalls(message) :
       /\ reader' = [reader EXCEPT !.pc = "put notification",
                                   !.note = [type |-> "started", call |-> c]]
       /\ provisional' = IF c = Null THEN provisional
                         ELSE [provisional EXCEPT ![c] = message.id]
  /\ Open

HandleResolved(message) ==
  /\ reader' = [reader EXCEPT !.pc = "put notification",
       !.note = [type |-> "resolved", matched |-> message.request \in serverRequests]]
  /\ serverRequests' = serverRequests \ {message.request}
  /\ responded' = responded \ {message.request}
  /\ UNCHANGED <<closeErr, doomed, pending, provisional>>

\* Once the pipe is closed the reader may still have lines in its own buffer.
ReadMessage ==
  /\ reader.pc = "read" /\ stdout # <<>>
  /\ LET message == Head(stdout) IN
       \/ message.type = "response" /\ HandleResponse(message)
       \/ message.type = "request" /\ HandleServerRequest(message)
       \/ message.type = "started" /\ HandleStarted(message)
       \/ message.type = "resolved" /\ HandleResolved(message)
  /\ stdout' = Tail(stdout)
  /\ UNCHANGED <<buffer, requests, notifications>>
  /\ OfReader

\* The end of stdout, or of the pipe: closing closes it, and so does waiting for a
\* process that exited, whether or not the reader has read what it wrote.
ReadEnd ==
  /\ reader.pc = "read"
  /\ done \/ ~alive
  /\ ReaderGoes("closing")
  /\ Close("eof")
  /\ UNCHANGED <<buffer, provisional, requests, notifications, stdout>>
  /\ OfReader

\* confirmProvisionalID: the answer names another thread or turn than was bound.
Mismatch(message) ==
  /\ ~message.failed
  /\ Announces(message.call)
  /\ provisional[message.call] \notin {Null, message.id}

Deliver ==
  LET message == reader.message IN
  /\ reader.pc = "deliver" /\ buffer[message.call] = Null
  /\ buffer' = [buffer EXCEPT ![message.call] =
       IF message.failed THEN "error" ELSE IF Mismatch(message) THEN "mismatch" ELSE "result"]
  /\ ReaderGoes(IF Mismatch(message) THEN "mismatch" ELSE "read")
  /\ Open
  /\ UNCHANGED <<provisional, requests, notifications, stdout>>
  /\ OfReader

CloseOnMismatch ==
  /\ reader.pc = "mismatch"
  /\ \/ closeErr = Null /\ Close("mismatch") /\ UNCHANGED reader
     \/ done /\ ReaderGoes("read") /\ Open
  /\ UNCHANGED <<buffer, provisional, requests, notifications, stdout>>
  /\ OfReader

PutRequest ==
  /\ reader.pc = "put request" /\ Len(requests) < RequestsCap
  /\ requests' = Append(requests, reader.message.request)
  /\ ReaderGoes("read")
  /\ Open
  /\ UNCHANGED <<buffer, provisional, notifications, stdout>>
  /\ OfReader

\* Faulty variant of PutNotification: closing does not interrupt it.
PutNotificationOnly ==
  /\ reader.pc = "put notification" /\ Len(notifications) < NotificationsCap
  /\ notifications' = Append(notifications, reader.note)
  /\ ReaderGoes("read")
  /\ Open
  /\ UNCHANGED <<buffer, provisional, requests, stdout>>
  /\ OfReader

PutNotification ==
  /\ reader.pc = "put notification"
  /\ \/ /\ Len(notifications) < NotificationsCap
        /\ notifications' = Append(notifications, reader.note)
        /\ ReaderGoes("read")
     \/ done /\ ReaderGoes("closing") /\ UNCHANGED notifications
  /\ Open
  /\ UNCHANGED <<buffer, provisional, requests, stdout>>
  /\ OfReader

PutRequestClosed ==
  /\ reader.pc = "put request" /\ done
  /\ ReaderGoes("closing")
  /\ Open
  /\ UNCHANGED <<buffer, provisional, requests, notifications, stdout>>
  /\ OfReader

\* The reader's own close returns: closeOutputs, and the loop ends.
ReaderStops ==
  /\ reader.pc = "closing" /\ done
  /\ ReaderGoes("stopped")
  /\ Open
  /\ UNCHANGED <<buffer, provisional, requests, notifications, stdout>>
  /\ OfReader

ReaderStep ==
  \/ ReadMessage \/ ReadEnd \/ Deliver \/ CloseOnMismatch \/ PutRequest
  \/ PutRequestClosed \/ PutNotification \/ ReaderStops

\* A service takes a notification from the channel.
Consume ==
  /\ notifications # <<>>
  /\ notifications' = Tail(notifications)
  /\ UNCHANGED <<calls, buffer, pending, provisional, serverRequests, responded, closeErr,
                 doomed, done, reader, requests, workers, forwarded, held, serverVars>>
-----------------------------------------------------------------------------
(* handleServerRequests, and the services that respond *)

WorkerGoes(w, pc) == workers' = [workers EXCEPT ![w].pc = pc]
Treats(r, pc) == workers' = [workers EXCEPT ![ServerLoop] = [pc |-> pc, request |-> r]]

OfWorker == UNCHANGED <<calls, buffer, provisional, done, reader, notifications, alive,
                        stdout, received, announced, replied, conflicting, asked, settled>>

TakeRequest ==
  /\ workers[ServerLoop].pc = "take" /\ requests # <<>>
  /\ Treats(Head(requests), CASE KindOf[Head(requests)] = "unsupported" -> "respond"
                              [] KindOf[Head(requests)] = "refresh"     -> "provider"
                              [] KindOf[Head(requests)] = "pending"     -> "offer")
  /\ requests' = Tail(requests)
  /\ Open
  /\ UNCHANGED <<forwarded, held, answers>>
  /\ OfWorker

\* The credential provider runs until it answers or the connection closes.
RunProvider ==
  /\ workers[ServerLoop].pc = "provider"
  /\ WorkerGoes(ServerLoop, IF done THEN "take" ELSE "respond")
  /\ Open
  /\ UNCHANGED <<requests, forwarded, held, answers>>
  /\ OfWorker

\* The chat service's hook claims the request, or leaves it to the task service.
OfferRequest ==
  /\ workers[ServerLoop].pc = "offer"
  /\ \/ /\ WorkerGoes(ServerLoop, "take")
        /\ held' = held \cup {workers[ServerLoop].request}
     \/ WorkerGoes(ServerLoop, "forward") /\ UNCHANGED held
  /\ Open
  /\ UNCHANGED <<requests, forwarded, answers>>
  /\ OfWorker

\* Faulty variant of ForwardRequest: a full channel loses the request.
ForwardOrDrop ==
  /\ workers[ServerLoop].pc = "forward"
  /\ forwarded' = IF Len(forwarded) < ForwardedCap
                  THEN Append(forwarded, workers[ServerLoop].request) ELSE forwarded
  /\ WorkerGoes(ServerLoop, "take")
  /\ Open
  /\ UNCHANGED <<requests, held, answers>>
  /\ OfWorker

ForwardRequest ==
  /\ workers[ServerLoop].pc = "forward"
  /\ \/ /\ Len(forwarded) < ForwardedCap
        /\ forwarded' = Append(forwarded, workers[ServerLoop].request)
     \/ done /\ UNCHANGED forwarded
  /\ WorkerGoes(ServerLoop, "take")
  /\ Open
  /\ UNCHANGED <<requests, held, answers>>
  /\ OfWorker

ServerLoopStops ==
  /\ workers[ServerLoop].pc = "take" /\ requests = <<>> /\ reader.pc = "stopped"
  /\ WorkerGoes(ServerLoop, "stopped")
  /\ Open
  /\ UNCHANGED <<requests, forwarded, held, answers>>
  /\ OfWorker

\* The task service's monitor takes a forwarded request.
TakeForwarded ==
  /\ forwarded # <<>>
  /\ held' = held \cup {Head(forwarded)}
  /\ forwarded' = Tail(forwarded)
  /\ Open
  /\ UNCHANGED <<workers, requests, answers>>
  /\ OfWorker

\* A service answers a request it holds; it may try again later.
AnswerHeld(w) ==
  /\ workers[w].pc = "idle" /\ w # ServerLoop
  /\ \E r \in held : workers' = [workers EXCEPT ![w] = [pc |-> "respond", request |-> r]]
  /\ Open
  /\ UNCHANGED <<requests, forwarded, held, answers>>
  /\ OfWorker

\* Faulty variant of BeginResponse: it does not look whether an answer is under way.
BeginResponseAgain(w) ==
  LET r == workers[w].request IN
  /\ workers[w].pc = "respond"
  /\ WorkerGoes(w, IF r \in serverRequests THEN "write" ELSE Rest(w))
  /\ responded' = IF r \in serverRequests THEN responded \cup {r} ELSE responded
  /\ UNCHANGED <<closeErr, doomed, pending, serverRequests>>
  /\ UNCHANGED <<requests, forwarded, held, answers>>
  /\ OfWorker

\* respond: a request that is not known or has its answer under way is refused.
BeginResponse(w) ==
  LET r == workers[w].request
      granted == r \in serverRequests \ responded IN
  /\ workers[w].pc = "respond"
  /\ WorkerGoes(w, IF granted THEN "write" ELSE Rest(w))
  /\ responded' = IF granted THEN responded \cup {r} ELSE responded
  /\ UNCHANGED <<closeErr, doomed, pending, serverRequests>>
  /\ UNCHANGED <<requests, forwarded, held, answers>>
  /\ OfWorker

Answered(r) == answers' = [answers EXCEPT ![r] = @ + 1]

WriteResponse(w) ==
  /\ workers[w].pc = "write" /\ closeErr = Null /\ alive
  /\ Answered(workers[w].request)
  /\ WorkerGoes(w, "complete")
  /\ Open
  /\ UNCHANGED <<requests, forwarded, held>>
  /\ OfWorker

WriteResponseFails(w) ==
  /\ workers[w].pc = "write"
  /\ UNCHANGED answers \/ (alive /\ Answered(workers[w].request))
  /\ WorkerGoes(w, "closing")
  /\ Close("deadline")
  /\ UNCHANGED <<requests, forwarded, held>>
  /\ OfWorker

CompleteServerRequest(w) ==
  /\ workers[w].pc = "complete"
  /\ serverRequests' = serverRequests \ {workers[w].request}
  /\ responded' = responded \ {workers[w].request}
  /\ WorkerGoes(w, Rest(w))
  /\ UNCHANGED <<closeErr, doomed, pending>>
  /\ UNCHANGED <<requests, forwarded, held, answers>>
  /\ OfWorker

WorkerClosed(w) ==
  /\ workers[w].pc = "closing" /\ done
  /\ WorkerGoes(w, Rest(w))
  /\ Open
  /\ UNCHANGED <<requests, forwarded, held, answers>>
  /\ OfWorker

ResponseStep(w) ==
  \/ BeginResponse(w) \/ WriteResponse(w) \/ WriteResponseFails(w)
  \/ CompleteServerRequest(w) \/ WorkerClosed(w)
ServerLoopStep ==
  \/ TakeRequest \/ RunProvider \/ OfferRequest \/ ForwardRequest \/ ServerLoopStops
  \/ ResponseStep(ServerLoop)
-----------------------------------------------------------------------------
(* The app server, external *)

Writes(message) == stdout' = Append(stdout, message)
OfServer == alive /\ UNCHANGED <<dispatcherVars, alive, received, answers>>

Announce(c) ==
  /\ Announces(c) /\ c \in received \ announced
  /\ Writes(Announcement(c))
  /\ announced' = announced \cup {c}
  /\ UNCHANGED <<replied, conflicting, asked, settled>>
  /\ OfServer

Reply(c) ==
  /\ c \in received \ replied
  /\ \E failed \in BOOLEAN : \E id \in {LifecycleID(c), Other} :
       /\ failed => id = LifecycleID(c)
       /\ Announces(c) \/ id = LifecycleID(c)
       /\ Writes([type |-> "response", call |-> c, id |-> id, failed |-> failed])
       /\ conflicting' = IF id = Other THEN conflicting \cup {c} ELSE conflicting
  /\ replied' = replied \cup {c}
  /\ UNCHANGED <<announced, asked, settled>>
  /\ OfServer

Ask(r) ==
  /\ r \notin asked
  /\ Writes([type |-> "request", request |-> r])
  /\ asked' = asked \cup {r}
  /\ UNCHANGED <<announced, replied, conflicting, settled>>
  /\ OfServer

\* Whether or not it has been answered.
Settle(r) ==
  /\ r \in asked \ settled
  /\ Writes([type |-> "resolved", request |-> r])
  /\ settled' = settled \cup {r}
  /\ UNCHANGED <<announced, replied, conflicting, asked>>
  /\ OfServer

Exit ==
  /\ alive
  /\ alive' = FALSE
  /\ UNCHANGED <<dispatcherVars, stdout, received, announced, replied, conflicting,
                 asked, settled, answers>>

ServerStep == \/ \E c \in Calls : Announce(c) \/ Reply(c)
              \/ \E r \in ServerRequests : Ask(r) \/ Settle(r)
              \/ Exit
-----------------------------------------------------------------------------
Next ==
  \/ \E c \in Calls : CallStep(c)
  \/ CloseConnection \/ FinishClose
  \/ ReaderStep \/ Consume
  \/ ServerLoopStep \/ TakeForwarded
  \/ \E w \in Responders : AnswerHeld(w) \/ ResponseStep(w)
  \/ ServerStep

Spec == Init /\ [][Next]_vars

\* Goroutines that can run do: writes end by their deadlines, a caller that waits
\* is woken by its own, the reader and the loop take what there is.  Nothing is
\* assumed of the app server, of who reads the notifications, or of new calls.
Registered(c) == calls[c].pc # "idle" /\ CallStep(c)
Fairness ==
  /\ \A c \in Calls : WF_vars(Registered(c))
  /\ WF_vars(FinishClose)
  /\ WF_vars(ReaderStep)
  /\ WF_vars(ServerLoopStep)
  /\ \A w \in Responders : WF_vars(ResponseStep(w))

FairSpec == Spec /\ Fairness
-----------------------------------------------------------------------------
DispatcherTypeOK ==
  /\ calls \in [Calls -> [pc : CallLabels, outcome : Outcomes \cup {Null}]]
  /\ buffer \in [Calls -> Results \cup {Null}]
  /\ pending \subseteq Calls /\ doomed \subseteq Calls
  /\ provisional \in [Calls -> Ids \cup {Null}]
  /\ serverRequests \subseteq ServerRequests /\ responded \subseteq serverRequests
  /\ closeErr \in CloseReasons \cup {Null} /\ done \in BOOLEAN
  /\ reader \in [pc : ReaderLabels, message : Messages \cup {Null},
                 note : NotificationRecords \cup {Null}]
  /\ requests \in Seq(ServerRequests) /\ Len(requests) <= RequestsCap
  /\ notifications \in Seq(NotificationRecords) /\ Len(notifications) <= NotificationsCap
  /\ forwarded \in Seq(ServerRequests) /\ Len(forwarded) <= ForwardedCap
  /\ workers \in [Workers -> [pc : WorkerLabels, request : ServerRequests \cup {Null}]]
  /\ held \subseteq ServerRequests
  /\ alive \in BOOLEAN /\ stdout \in Seq(Messages)
  /\ received \subseteq Calls /\ announced \subseteq Calls /\ replied \subseteq Calls
  /\ conflicting \subseteq Calls
  /\ asked \subseteq ServerRequests /\ settled \subseteq ServerRequests
  /\ answers \in [ServerRequests -> Nat]

\* A result channel holds one result, and its sender does not look whether the
\* caller still listens: whoever is about to send, the reader or the goroutine that
\* closes (which every other closer waits for), finds it empty.
ResultFits ==
  /\ reader.pc = "deliver" => buffer[reader.message.call] = Null
  /\ \A c \in doomed : buffer[c] = Null

\* A call that may have started or interrupted something, and returned without the
\* app server's word on it, has closed the connection: nobody goes on using it.
Unanswered(c) == calls[c].pc = "returned" /\ calls[c].outcome \in {"deadline", "closed"}
UncertainCallCloses ==
  \A c \in received : Unanswered(c) /\ ClosesOnUncertain(c) => closeErr # Null

\* The app server is sent at most one answer to each request, however many
\* goroutines respond and whatever it declares resolved meanwhile.
AnsweredAtMostOnce == \A r \in ServerRequests : answers[r] <= 1

\* On an open connection a request that was read, has not been answered and is not
\* declared resolved is known to the dispatcher, and someone has it to answer it.
ReadRequests == {r \in asked : \A j \in DOMAIN stdout :
                   stdout[j] # [type |-> "request", request |-> r]}
HasOwner(r) ==
  \/ reader.pc = "put request" /\ reader.message.request = r
  \/ \E j \in DOMAIN requests : requests[j] = r
  \/ \E j \in DOMAIN forwarded : forwarded[j] = r
  \/ workers[ServerLoop].pc \notin {"take", "stopped"} /\ workers[ServerLoop].request = r
  \/ r \in held
UnansweredRequestHasOwner ==
  closeErr = Null => \A r \in ReadRequests \ settled :
    answers[r] = 0 => r \in serverRequests /\ HasOwner(r)

\* The announcement of d names a thread or turn that is not the one of c, and may be
\* bound to c: c is of the method and names no thread, or the one announced.
Confusable(c, d) ==
  /\ MethodOf[c] \in Announcement(d).methods
  /\ ThreadOf[c] \in {Null, LifecycleThread(d)}
  /\ LifecycleID(c) # LifecycleID(d)

\* The connection is dropped for a mismatch (dispatcher.go:23 calls it "app-server
\* protocol id mismatch") only if the app server contradicted itself, or if it was
\* sent two calls that an announcement does not tell apart: two new threads, a new
\* thread and one to resume, or two turns of one thread.
MismatchMeansConflict ==
  reader.pc = "mismatch" \/ closeErr = "mismatch" =>
    \/ conflicting # {}
    \/ \E c, d \in received : Confusable(c, d)

\* Every call returns, whatever the app server does and whether or not anyone reads
\* the notifications.
CallsReturn ==
  \A c \in Calls : calls[c].pc # "idle" ~> calls[c].pc = "returned"

\* A closed connection leaves no goroutine behind: the reader and the loop end, also
\* when they were blocked on a full channel.
ClosedConnectionStops ==
  closeErr # Null ~> reader.pc = "stopped" /\ workers[ServerLoop].pc = "stopped"
=============================================================================
