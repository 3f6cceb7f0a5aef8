-------------------------- MODULE DispatcherProofs --------------------------
(***************************************************************************)
(* Theorems of Dispatcher, for every set of calls, requests and responders *)
(* and every capacity of the channels: the type invariant and the five     *)
(* safety invariants, each from an inductive invariant of its own.         *)
(***************************************************************************)
EXTENDS Dispatcher, TLAPS

\* The reader has in hand what it is about to put or to deliver, and a worker the
\* request it works for.
Reading(type) == reader.message \in Messages /\ reader.message.type = type
ReaderHolds ==
  /\ reader.pc = "put request" => Reading("request")
  /\ reader.pc = "deliver" => Reading("response")
  /\ reader.pc = "put notification" => reader.note \in NotificationRecords
WorkersHold ==
  \A w \in Workers : workers[w].pc \notin {"idle", "take", "stopped"} =>
                      workers[w].request \in ServerRequests
TypeInv == DispatcherTypeOK /\ ReaderHolds /\ WorkersHold

\* What closing leaves true: nothing is registered with a closed dispatcher.
ClosingInv ==
  /\ closeErr = Null => doomed = {}
  /\ closeErr # Null => pending = {}
  /\ done => closeErr # Null

\* A call that is registered, or whose result someone is about to send, has been
\* made and has an empty result channel.
AwaitsResult(c) == buffer[c] = Null /\ calls[c].pc # "idle"
ResultInv ==
  /\ \A c \in Calls : calls[c].pc = "idle" => buffer[c] = Null
  /\ \A c \in pending \cup doomed : AwaitsResult(c)
  /\ reader.pc = "deliver" => /\ reader.message.call \notin pending \cup doomed
                              /\ AwaitsResult(reader.message.call)

\* A call that is told of the closing, or closes, finds the dispatcher closed.
UncertainInv ==
  \A c \in Calls :
    /\ buffer[c] = "closed" => closeErr # Null
    /\ calls[c].pc = "closing" => closeErr # Null
    /\ Unanswered(c) /\ ClosesOnUncertain(c) => closeErr # Null

\* A request that the reader has not read is unknown to the dispatcher; one that is
\* known and not answered yet has one answer at most under way.
RequestMessage(r) == [type |-> "request", request |-> r]
Unread(r) == r \notin asked \/ \E j \in DOMAIN stdout : stdout[j] = RequestMessage(r)
Writing(w, r) == workers[w].pc = "write" /\ workers[w].request = r

AskedInv ==
  \A r \in ServerRequests : \A j \in DOMAIN stdout :
    stdout[j] = RequestMessage(r) =>
      r \in asked /\ \A k \in DOMAIN stdout : stdout[k] = RequestMessage(r) => k = j
AnswerInv ==
  \A r \in ServerRequests :
    /\ answers[r] <= 1
    /\ Unread(r) => /\ r \notin serverRequests /\ answers[r] = 0
                    /\ \A w \in Workers : ~Writing(w, r)
    /\ r \in serverRequests \ responded => /\ answers[r] = 0
                                           /\ \A w \in Workers : ~Writing(w, r)
    /\ \A w \in Workers : Writing(w, r) =>
         answers[r] = 0 /\ \A v \in Workers : Writing(v, r) => v = w

\* Who answers a request holds it, and a request whose answer is under way has
\* someone who writes it.
SettledInv ==
  \A j \in DOMAIN stdout : stdout[j].type = "resolved" => stdout[j].request \in settled
HeldInv ==
  /\ \A w \in Responders : workers[w].pc # "idle" => workers[w].request \in held
  /\ \A w \in Workers : workers[w].pc = "complete" => answers[workers[w].request] # 0
  /\ closeErr = Null => \A r \in responded :
       answers[r] # 0 \/ \E w \in Workers : Writing(w, r)
OwnerInv == SettledInv /\ HeldInv /\ UnansweredRequestHasOwner

\* An id that is bound to a call was announced for a call of the same method and
\* thread; an answer names the thread or turn of its call, unless it conflicts.
Honest(message) ==
  /\ message.type = "started" => \E d \in received : message = Announcement(d)
  /\ message.type = "response" =>
       /\ message.call \in received
       /\ message.id = LifecycleID(message.call) \/ conflicting # {}
MatchInv ==
  /\ announced \subseteq received
  /\ \A j \in DOMAIN stdout : Honest(stdout[j])
  /\ reader.pc = "deliver" => Honest(reader.message)
  /\ \A c \in Calls : provisional[c] # Null =>
       \E d \in received : /\ provisional[c] = LifecycleID(d)
                           /\ MethodOf[c] \in Announcement(d).methods
                           /\ ThreadOf[c] \in {Null, LifecycleThread(d)}
  /\ MismatchMeansConflict

-----------------------------------------------------------------------------
(* Type correctness *)

\* Closing keeps the dispatcher's tables well typed.
LEMMA CloseType ==
  ASSUME DispatcherTypeOK, NEW reason \in CloseReasons, Close(reason)
  PROVE  /\ pending' \subseteq Calls /\ doomed' \subseteq Calls
         /\ serverRequests' \subseteq ServerRequests /\ responded' \subseteq serverRequests'
         /\ closeErr' \in CloseReasons \cup {Null}
BY DEF Close, DispatcherTypeOK

\* The records that make up the channels and the process's output.
LEMMA MessageTypes ==
  ASSUME NEW message \in Messages
  PROVE  /\ message.type = "response" =>
              message.call \in Calls /\ message.id \in Ids /\ message.failed \in BOOLEAN
         /\ message.type \in {"request", "resolved"} => message.request \in ServerRequests
         /\ message.type = "started" =>
              message.methods \in SUBSET Methods /\ message.thread \in Ids /\ message.id \in Ids
BY DEF Messages

\* What a call is announced with is well typed.
LEMMA LifecycleTypes ==
  ASSUME NEW c \in Calls
  PROVE  /\ LifecycleID(c) \in Ids
         /\ Announces(c) => Announcement(c) \in Messages /\ LifecycleThread(c) \in Ids
BY TablesAreTotal DEF LifecycleID, LifecycleThread, Announcement, Announces, Ids, Messages,
   Methods, ThreadMethods

\* Where a call's goroutine goes, and what the call returned.
LEMMA CallMoves ==
  ASSUME DispatcherTypeOK, NEW c \in Calls, NEW pc \in CallLabels, NEW outcome \in Outcomes,
         Goes(c, pc) \/ Returns(c, outcome) \/ Closes(c, outcome)
  PROVE  calls' \in [Calls -> [pc : CallLabels, outcome : Outcomes \cup {Null}]]
<1>1. calls[c] \in [pc : CallLabels, outcome : Outcomes \cup {Null}]
  BY DEF DispatcherTypeOK
<1>2. CASE Goes(c, pc)
  BY <1>1, <1>2 DEF Goes, DispatcherTypeOK
<1>3. CASE Returns(c, outcome)
  BY <1>3 DEF Returns, DispatcherTypeOK, CallLabels
<1>4. CASE Closes(c, outcome)
  BY <1>4 DEF Closes, DispatcherTypeOK, CallLabels
<1>5. QED
  BY <1>2, <1>3, <1>4

\* The outcomes and labels by name.
LEMMA CallValues ==
  /\ {"deadline", "closed", "sent"} \subseteq Outcomes /\ Results \subseteq Outcomes
  /\ {"write", "forget", "wait", "returned"} \subseteq CallLabels
BY DEF Outcomes, Results, CallLabels

\* A step of a call keeps the types.
LEMMA CallTypes ==
  ASSUME DispatcherTypeOK, NEW c \in Calls, CallStep(c)
  PROVE  DispatcherTypeOK'
<1>1. CASE Register(c)
  <2>1. calls' \in [Calls -> [pc : CallLabels, outcome : Outcomes \cup {Null}]]
    BY <1>1, CallMoves, CallValues DEF Register
  <2>2. pending' \subseteq Calls
    BY <1>1 DEF Register, DispatcherTypeOK
  <2>3. QED
    BY <1>1, <2>1, <2>2 DEF Register, OfCall, DispatcherTypeOK
<1>2. CASE WriteRequest(c)
  <2>1. calls' \in [Calls -> [pc : CallLabels, outcome : Outcomes \cup {Null}]]
    BY <1>2, CallMoves, CallValues DEF WriteRequest
  <2>2. received' \subseteq Calls
    BY <1>2 DEF WriteRequest, DispatcherTypeOK
  <2>3. QED
    BY <1>2, <2>1, <2>2 DEF WriteRequest, Open, OfCall, DispatcherTypeOK
<1>3. CASE WriteRequestFails(c)
  <2>1. "deadline" \in CloseReasons /\ Close("deadline")
    BY <1>3 DEF WriteRequestFails, CloseReasons
  <2>2. QED
    BY <1>3, <2>1, CloseType DEF WriteRequestFails, Closes, OfCall, DispatcherTypeOK, CallLabels,
       Outcomes, Results
<1>4. CASE ForgetRequest(c)
  BY <1>4 DEF ForgetRequest, Returns, OfCall, DispatcherTypeOK, CallLabels, Outcomes
<1>5. CASE TakeResult(c)
  BY <1>5 DEF TakeResult, Returns, Open, OfCall, DispatcherTypeOK, CallLabels, Outcomes
<1>6. CASE Expire(c)
  <2>1. CASE ClosesOnUncertain(c)
    <3>1. "deadline" \in CloseReasons /\ Close("deadline")
      BY <1>6, <2>1 DEF Expire, CloseReasons
    <3>2. QED
      <4>1. calls' \in [Calls -> [pc : CallLabels, outcome : Outcomes \cup {Null}]]
        BY <1>6, <2>1, CallMoves, CallValues DEF Expire
      <4>2. UNCHANGED <<buffer, received>> /\ OfCall
        BY <1>6, <2>1 DEF Expire
      <4>3. QED
        BY <3>1, <4>1, <4>2, CloseType DEF OfCall, DispatcherTypeOK
  <2>2. CASE ~ClosesOnUncertain(c)
    <3>1. calls' \in [Calls -> [pc : CallLabels, outcome : Outcomes \cup {Null}]]
      BY <1>6, <2>2, CallMoves, CallValues DEF Expire
    <3>2. pending' \subseteq Calls
      BY <1>6, <2>2 DEF Expire, DispatcherTypeOK
    <3>3. UNCHANGED <<buffer, closeErr, doomed, serverRequests, responded, received>> /\ OfCall
      BY <1>6, <2>2 DEF Expire
    <3>4. QED
      BY <3>1, <3>2, <3>3 DEF OfCall, DispatcherTypeOK
  <2>3. QED
    BY <2>1, <2>2
<1>7. CASE SeeDone(c)
  BY <1>7 DEF SeeDone, Returns, Open, OfCall, DispatcherTypeOK, CallLabels, Outcomes, Results
<1>8. CASE CallClosed(c)
  BY <1>8, ZenonT(30) DEF CallClosed, Goes, Open, OfCall, DispatcherTypeOK, CallLabels
<1>9. QED
  BY <1>1, <1>2, <1>3, <1>4, <1>5, <1>6, <1>7, <1>8 DEF CallStep

\* So does a step of the close and of the exit of the process.
LEMMA ClosingTypes ==
  ASSUME DispatcherTypeOK, CloseConnection \/ FinishClose \/ Consume
  PROVE  DispatcherTypeOK'
<1>1. CASE CloseConnection
  <2>1. "closed" \in CloseReasons /\ Close("closed")
    BY <1>1 DEF CloseConnection, CloseReasons
  <2>2. QED
    BY <1>1, <2>1, CloseType DEF CloseConnection, serverVars, DispatcherTypeOK
<1>2. CASE FinishClose
  BY <1>2 DEF FinishClose, serverVars, DispatcherTypeOK, Results
<1>3. CASE Consume
  <2>1. notifications' \in Seq(NotificationRecords) /\ Len(notifications') <= NotificationsCap
    BY <1>3, CapsAreChannels DEF Consume, DispatcherTypeOK
  <2>2. QED
    BY <1>3, <2>1 DEF Consume, serverVars, DispatcherTypeOK
<1>4. QED
  BY <1>1, <1>2, <1>3

\* The reader takes the first message of the output.
LEMMA HeadOfOutput ==
  ASSUME DispatcherTypeOK, stdout # <<>>
  PROVE  Head(stdout) \in Messages /\ Tail(stdout) \in Seq(Messages)
BY DEF DispatcherTypeOK

\* What goes into a channel or the output.
LEMMA AppendType ==
  ASSUME NEW S, NEW s \in Seq(S), NEW e \in S
  PROVE  Append(s, e) \in Seq(S) /\ Len(s) \in Nat /\ Len(Append(s, e)) = Len(s) + 1
OBVIOUS

\* So does a step of the goroutine that reads the app server's output.
LEMMA ReaderTypes ==
  ASSUME TypeInv, ReaderStep
  PROVE  DispatcherTypeOK'
<1> USE DEF TypeInv
<1>1. CASE ReadMessage
  <2> DEFINE message == Head(stdout)
  <2>1. message \in Messages /\ stdout' \in Seq(Messages)
    BY <1>1, HeadOfOutput DEF ReadMessage
  <2> HIDE DEF message
  <2>2. CASE message.type = "response" /\ HandleResponse(message)
    BY <1>1, <2>1, <2>2 DEF ReadMessage, HandleResponse, OfReader, DispatcherTypeOK, ReaderLabels
  <2>3. CASE message.type = "request" /\ HandleServerRequest(message)
    <3>1. CASE closeErr # Null \/ message.request \in serverRequests
      <4>1. "duplicate" \in CloseReasons /\ Close("duplicate")
        BY <2>3, <3>1 DEF HandleServerRequest, CloseReasons
      <4>2. QED
        BY <1>1, <2>1, <2>3, <3>1, <4>1, CloseType
           DEF ReadMessage, HandleServerRequest, ReaderGoes, OfReader, DispatcherTypeOK, ReaderLabels
    <3>2. CASE ~(closeErr # Null \/ message.request \in serverRequests)
      <4>1. message.request \in ServerRequests
        BY <2>1, <2>3, MessageTypes
      <4>2. reader' \in [pc : ReaderLabels, message : Messages \cup {Null},
                         note : NotificationRecords \cup {Null}]
        BY <2>1, <2>3, <3>2 DEF HandleServerRequest, DispatcherTypeOK, ReaderLabels
      <4>3. serverRequests' \subseteq ServerRequests /\ responded' \subseteq serverRequests'
        BY <2>3, <3>2, <4>1 DEF HandleServerRequest, DispatcherTypeOK
      <4>4. UNCHANGED <<provisional, closeErr, doomed, pending>>
        BY <2>3, <3>2 DEF HandleServerRequest
      <4>5. QED
        BY <1>1, <2>1, <4>2, <4>3, <4>4 DEF ReadMessage, OfReader, DispatcherTypeOK
    <3>3. QED
      BY <3>1, <3>2
  <2>4. CASE message.type = "started" /\ HandleStarted(message)
    <3>1. PICK c \in IF BoundCalls(message) = {} THEN {Null} ELSE BoundCalls(message) :
            /\ reader' = [reader EXCEPT !.pc = "put notification",
                                        !.note = [type |-> "started", call |-> c]]
            /\ provisional' = IF c = Null THEN provisional
                              ELSE [provisional EXCEPT ![c] = message.id]
      BY <2>4 DEF HandleStarted
    <3>2. c \in Calls \cup {Null} /\ message.id \in Ids
      BY <2>1, <2>4, <3>1, MessageTypes DEF BoundCalls, DispatcherTypeOK
    <3>3. [type |-> "started", call |-> c] \in NotificationRecords
      BY <3>2 DEF NotificationRecords
    <3>4. provisional' \in [Calls -> Ids \cup {Null}]
      BY <3>1, <3>2 DEF DispatcherTypeOK
    <3>5. QED
      BY <1>1, <2>1, <2>4, <3>1, <3>3, <3>4
         DEF ReadMessage, HandleStarted, Open, OfReader, DispatcherTypeOK, ReaderLabels
  <2>5. CASE message.type = "resolved" /\ HandleResolved(message)
    <3> DEFINE note == [type |-> "resolved", matched |-> message.request \in serverRequests]
    <3>1. note \in NotificationRecords
      BY DEF NotificationRecords
    <3>2. reader' = [reader EXCEPT !.pc = "put notification", !.note = note]
      BY <2>5 DEF HandleResolved
    <3> HIDE DEF note
    <3>3. QED
      BY <1>1, <2>1, <2>5, <3>1, <3>2
         DEF ReadMessage, HandleResolved, OfReader, DispatcherTypeOK, ReaderLabels
  <2>6. QED
    BY <1>1, <2>2, <2>3, <2>4, <2>5 DEF ReadMessage, message
<1>2. CASE ReadEnd
  <2>1. "eof" \in CloseReasons /\ Close("eof")
    BY <1>2 DEF ReadEnd, CloseReasons
  <2>2. QED
    BY <1>2, <2>1, CloseType DEF ReadEnd, ReaderGoes, OfReader, DispatcherTypeOK, ReaderLabels
<1>3. CASE Deliver
  <2>1. PICK result \in Results : buffer' = [buffer EXCEPT ![reader.message.call] = result]
    BY <1>3 DEF Deliver, Results
  <2>2. buffer' \in [Calls -> Results \cup {Null}]
    BY <2>1 DEF DispatcherTypeOK
  <2>3. PICK pc \in ReaderLabels : reader' = [reader EXCEPT !.pc = pc]
    BY <1>3 DEF Deliver, ReaderGoes, ReaderLabels
  <2>4. QED
    BY <1>3, <2>2, <2>3 DEF Deliver, Open, OfReader, DispatcherTypeOK
<1>4. CASE CloseOnMismatch
  <2>1. CASE closeErr = Null /\ Close("mismatch") /\ UNCHANGED reader
    <3>1. "mismatch" \in CloseReasons
      BY DEF CloseReasons
    <3>2. QED
      BY <1>4, <2>1, <3>1, CloseType DEF CloseOnMismatch, OfReader, DispatcherTypeOK
  <2>2. CASE done /\ ReaderGoes("read") /\ Open
    BY <1>4, <2>2 DEF CloseOnMismatch, ReaderGoes, Open, OfReader, DispatcherTypeOK, ReaderLabels
  <2>3. QED
    BY <1>4, <2>1, <2>2 DEF CloseOnMismatch
<1>5. CASE PutRequest
  <2>1. reader.message.request \in ServerRequests
    BY <1>5, MessageTypes DEF PutRequest, ReaderHolds, Reading
  <2>2. requests' \in Seq(ServerRequests) /\ Len(requests') <= RequestsCap
    <3>1. requests \in Seq(ServerRequests) /\ Len(requests) < RequestsCap
      BY <1>5 DEF PutRequest, DispatcherTypeOK
    <3>2. requests' = Append(requests, reader.message.request)
      BY <1>5 DEF PutRequest
    <3>3. QED
      BY <2>1, <3>1, <3>2, AppendType, CapsAreChannels
  <2>3. QED
    BY <1>5, <2>2 DEF PutRequest, ReaderGoes, Open, OfReader, DispatcherTypeOK, ReaderLabels
<1>6. CASE PutRequestClosed
  BY <1>6 DEF PutRequestClosed, ReaderGoes, Open, OfReader, DispatcherTypeOK, ReaderLabels
<1>7. CASE PutNotification
  <2>1. /\ notifications' \in Seq(NotificationRecords)
        /\ Len(notifications') <= NotificationsCap
    <3>1. notifications \in Seq(NotificationRecords) /\ Len(notifications) <= NotificationsCap
      BY DEF DispatcherTypeOK
    <3>2. reader.note \in NotificationRecords
      BY <1>7 DEF PutNotification, ReaderHolds
    <3>3. CASE /\ Len(notifications) < NotificationsCap
               /\ notifications' = Append(notifications, reader.note)
      BY <3>1, <3>2, <3>3, AppendType, CapsAreChannels
    <3>4. CASE UNCHANGED notifications
      BY <3>1, <3>4
    <3>5. QED
      BY <1>7, <3>3, <3>4 DEF PutNotification
  <2>2. PICK pc \in ReaderLabels : ReaderGoes(pc)
    BY <1>7 DEF PutNotification, ReaderLabels
  <2>3. QED
    BY <1>7, <2>1, <2>2 DEF PutNotification, ReaderGoes, Open, OfReader, DispatcherTypeOK
<1>8. CASE ReaderStops
  BY <1>8 DEF ReaderStops, ReaderGoes, Open, OfReader, DispatcherTypeOK, ReaderLabels
<1>9. QED
  BY <1>1, <1>2, <1>3, <1>4, <1>5, <1>6, <1>7, <1>8 DEF ReaderStep

\* The workers, and the request each has in hand.
LEMMA WorkerMoves ==
  ASSUME DispatcherTypeOK, NEW w \in Workers, NEW pc \in WorkerLabels
  PROVE  /\ WorkerGoes(w, pc) =>
              workers' \in [Workers -> [pc : WorkerLabels, request : ServerRequests \cup {Null}]]
         /\ \A r \in ServerRequests :
              workers' = [workers EXCEPT ![w] = [pc |-> pc, request |-> r]] =>
                workers' \in [Workers -> [pc : WorkerLabels, request : ServerRequests \cup {Null}]]
<1>1. workers[w] \in [pc : WorkerLabels, request : ServerRequests \cup {Null}]
  BY DEF DispatcherTypeOK
<1>2. ASSUME WorkerGoes(w, pc)
      PROVE  workers' \in [Workers -> [pc : WorkerLabels, request : ServerRequests \cup {Null}]]
  BY <1>1, <1>2 DEF WorkerGoes, DispatcherTypeOK
<1>3. ASSUME NEW r \in ServerRequests, workers' = [workers EXCEPT ![w] = [pc |-> pc, request |-> r]]
      PROVE  workers' \in [Workers -> [pc : WorkerLabels, request : ServerRequests \cup {Null}]]
  BY <1>3 DEF DispatcherTypeOK
<1>4. QED
  BY <1>2, <1>3

\* The loop and the responders, and the labels they rest at, are in their types.
LEMMA WorkerNames ==
  /\ ServerLoop \in Workers /\ Responders \subseteq Workers
  /\ \A w \in Workers : Rest(w) \in WorkerLabels
BY DEF Workers, Rest, WorkerLabels

\* A step of the loop or of a responder that takes a request up keeps the types.
LEMMA LoopTypes ==
  ASSUME TypeInv,
         \/ TakeRequest \/ RunProvider \/ OfferRequest \/ ForwardRequest \/ ServerLoopStops
         \/ TakeForwarded \/ \E w \in Responders : AnswerHeld(w)
  PROVE  DispatcherTypeOK'
<1> USE DEF TypeInv
<1>1. CASE TakeRequest
  <2>1. Head(requests) \in ServerRequests
    BY <1>1 DEF TakeRequest, DispatcherTypeOK
  <2>2. PICK pc \in WorkerLabels : Treats(Head(requests), pc)
    BY <1>1, <2>1, TablesAreTotal DEF TakeRequest, WorkerLabels, Kinds
  <2>3. workers' \in [Workers -> [pc : WorkerLabels, request : ServerRequests \cup {Null}]]
    BY <2>1, <2>2, WorkerMoves, WorkerNames DEF Treats
  <2>4. requests' \in Seq(ServerRequests) /\ Len(requests') <= RequestsCap
    BY <1>1, CapsAreChannels DEF TakeRequest, DispatcherTypeOK
  <2>5. QED
    BY <1>1, <2>3, <2>4 DEF TakeRequest, Open, OfWorker, DispatcherTypeOK
<1>2. CASE RunProvider
  <2>1. PICK pc \in WorkerLabels : WorkerGoes(ServerLoop, pc)
    BY <1>2 DEF RunProvider, WorkerLabels
  <2>2. workers' \in [Workers -> [pc : WorkerLabels, request : ServerRequests \cup {Null}]]
    BY <2>1, WorkerMoves, WorkerNames
  <2>3. QED
    BY <1>2, <2>2 DEF RunProvider, Open, OfWorker, DispatcherTypeOK
<1>3. CASE OfferRequest
  <2>1. workers[ServerLoop].request \in ServerRequests
    BY <1>3, WorkerNames DEF OfferRequest, WorkersHold
  <2>2. PICK pc \in WorkerLabels : WorkerGoes(ServerLoop, pc)
    BY <1>3 DEF OfferRequest, WorkerLabels
  <2>3. workers' \in [Workers -> [pc : WorkerLabels, request : ServerRequests \cup {Null}]]
    BY <2>2, WorkerMoves, WorkerNames
  <2>4. held' \subseteq ServerRequests
    BY <1>3, <2>1 DEF OfferRequest, DispatcherTypeOK
  <2>5. QED
    BY <1>3, <2>3, <2>4 DEF OfferRequest, Open, OfWorker, DispatcherTypeOK
<1>4. CASE ForwardRequest
  <2>1. workers[ServerLoop].request \in ServerRequests
    BY <1>4, WorkerNames DEF ForwardRequest, WorkersHold
  <2>2. "take" \in WorkerLabels /\ WorkerGoes(ServerLoop, "take")
    BY <1>4 DEF ForwardRequest, WorkerLabels
  <2>3. workers' \in [Workers -> [pc : WorkerLabels, request : ServerRequests \cup {Null}]]
    BY <2>2, WorkerMoves, WorkerNames
  <2>4. forwarded' \in Seq(ServerRequests) /\ Len(forwarded') <= ForwardedCap
    <3>1. forwarded \in Seq(ServerRequests) /\ Len(forwarded) <= ForwardedCap
      BY DEF DispatcherTypeOK
    <3>2. CASE /\ Len(forwarded) < ForwardedCap
               /\ forwarded' = Append(forwarded, workers[ServerLoop].request)
      BY <2>1, <3>1, <3>2, AppendType, CapsAreChannels
    <3>3. CASE UNCHANGED forwarded
      BY <3>1, <3>3
    <3>4. QED
      BY <1>4, <3>2, <3>3 DEF ForwardRequest
  <2>5. QED
    BY <1>4, <2>3, <2>4 DEF ForwardRequest, Open, OfWorker, DispatcherTypeOK
<1>5. CASE ServerLoopStops
  <2>1. "stopped" \in WorkerLabels /\ WorkerGoes(ServerLoop, "stopped")
    BY <1>5 DEF ServerLoopStops, WorkerLabels
  <2>2. workers' \in [Workers -> [pc : WorkerLabels, request : ServerRequests \cup {Null}]]
    BY <2>1, WorkerMoves, WorkerNames
  <2>3. QED
    BY <1>5, <2>2 DEF ServerLoopStops, Open, OfWorker, DispatcherTypeOK
<1>6. CASE TakeForwarded
  <2>1. /\ held' \subseteq ServerRequests
        /\ forwarded' \in Seq(ServerRequests) /\ Len(forwarded') <= ForwardedCap
    BY <1>6, CapsAreChannels DEF TakeForwarded, DispatcherTypeOK
  <2>2. QED
    BY <1>6, <2>1 DEF TakeForwarded, Open, OfWorker, DispatcherTypeOK
<1>7. ASSUME NEW w \in Responders, AnswerHeld(w)
      PROVE  DispatcherTypeOK'
  <2>1. PICK r \in held : workers' = [workers EXCEPT ![w] = [pc |-> "respond", request |-> r]]
    BY <1>7 DEF AnswerHeld
  <2>2. r \in ServerRequests /\ "respond" \in WorkerLabels /\ w \in Workers
    BY WorkerNames DEF DispatcherTypeOK, WorkerLabels
  <2>3. workers' \in [Workers -> [pc : WorkerLabels, request : ServerRequests \cup {Null}]]
    BY <2>1, <2>2, WorkerMoves
  <2>4. QED
    BY <1>7, <2>3 DEF AnswerHeld, Open, OfWorker, DispatcherTypeOK
<1>8. QED
  BY <1>1, <1>2, <1>3, <1>4, <1>5, <1>6, <1>7

\* An answer is counted.
LEMMA AnswerTypes ==
  ASSUME DispatcherTypeOK, NEW r \in ServerRequests, Answered(r)
  PROVE  /\ answers' \in [ServerRequests -> Nat]
         /\ answers'[r] = answers[r] + 1
         /\ \A q \in ServerRequests : q # r => answers'[q] = answers[q]
<1>1. answers \in [ServerRequests -> Nat] /\ answers' = [answers EXCEPT ![r] = answers[r] + 1]
  BY DEF Answered, DispatcherTypeOK
<1>2. QED
  BY <1>1

\* So does a step of the response to a request.
LEMMA ResponseTypes ==
  ASSUME TypeInv, NEW w \in Workers, ResponseStep(w)
  PROVE  DispatcherTypeOK'
<1> DEFINE r == workers[w].request
<1> USE DEF TypeInv
<1>1. Rest(w) \in WorkerLabels /\ {"write", "complete", "closing"} \subseteq WorkerLabels
  BY WorkerNames DEF WorkerLabels
<1>2. CASE BeginResponse(w)
  <2>1. PICK pc \in WorkerLabels : WorkerGoes(w, pc)
    BY <1>1, <1>2 DEF BeginResponse
  <2>2. workers' \in [Workers -> [pc : WorkerLabels, request : ServerRequests \cup {Null}]]
    BY <2>1, WorkerMoves
  <2>3. UNCHANGED serverRequests /\ responded' \subseteq serverRequests
    BY <1>2 DEF BeginResponse, DispatcherTypeOK
  <2>4. QED
    BY <1>2, <2>2, <2>3 DEF BeginResponse, OfWorker, DispatcherTypeOK
<1>3. CASE WriteResponse(w)
  <2>1. workers' \in [Workers -> [pc : WorkerLabels, request : ServerRequests \cup {Null}]]
    BY <1>1, <1>3, WorkerMoves DEF WriteResponse
  <2>2. answers' \in [ServerRequests -> Nat]
    BY <1>3, AnswerTypes DEF WriteResponse, WorkersHold
  <2>3. QED
    BY <1>3, <2>1, <2>2 DEF WriteResponse, Open, OfWorker, DispatcherTypeOK
<1>4. CASE WriteResponseFails(w)
  <2>1. workers' \in [Workers -> [pc : WorkerLabels, request : ServerRequests \cup {Null}]]
    BY <1>1, <1>4, WorkerMoves DEF WriteResponseFails
  <2>2. answers' \in [ServerRequests -> Nat]
    BY <1>4, AnswerTypes DEF WriteResponseFails, WorkersHold, DispatcherTypeOK
  <2>3. "deadline" \in CloseReasons /\ Close("deadline")
    BY <1>4 DEF WriteResponseFails, CloseReasons
  <2>4. QED
    BY <1>4, <2>1, <2>2, <2>3, CloseType DEF WriteResponseFails, OfWorker, DispatcherTypeOK
<1>5. CASE CompleteServerRequest(w)
  <2>1. workers' \in [Workers -> [pc : WorkerLabels, request : ServerRequests \cup {Null}]]
    BY <1>1, <1>5, WorkerMoves DEF CompleteServerRequest
  <2>2. QED
    BY <1>5, <2>1 DEF CompleteServerRequest, OfWorker, DispatcherTypeOK
<1>6. CASE WorkerClosed(w)
  <2>1. workers' \in [Workers -> [pc : WorkerLabels, request : ServerRequests \cup {Null}]]
    BY <1>1, <1>6, WorkerMoves DEF WorkerClosed
  <2>2. QED
    BY <1>6, <2>1 DEF WorkerClosed, Open, OfWorker, DispatcherTypeOK
<1>7. QED
  BY <1>2, <1>3, <1>4, <1>5, <1>6 DEF ResponseStep

\* The app server writes messages of their types.
LEMMA ServerTypes ==
  ASSUME DispatcherTypeOK, ServerStep
  PROVE  DispatcherTypeOK'
<1>1. ASSUME NEW c \in Calls, Announce(c)
      PROVE  DispatcherTypeOK'
  <2>1. stdout' \in Seq(Messages)
    BY <1>1, LifecycleTypes DEF Announce, Writes, DispatcherTypeOK
  <2>2. QED
    BY <1>1, <2>1 DEF Announce, OfServer, dispatcherVars, DispatcherTypeOK
<1>2. ASSUME NEW c \in Calls, Reply(c)
      PROVE  DispatcherTypeOK'
  <2>1. PICK failed \in BOOLEAN, id \in {LifecycleID(c), Other} :
          /\ Writes([type |-> "response", call |-> c, id |-> id, failed |-> failed])
          /\ conflicting' = IF id = Other THEN conflicting \cup {c} ELSE conflicting
    BY <1>2 DEF Reply
  <2>2. id \in Ids
    BY LifecycleTypes DEF Ids
  <2>3. [type |-> "response", call |-> c, id |-> id, failed |-> failed] \in Messages
    BY <2>2 DEF Messages
  <2>4. stdout' \in Seq(Messages) /\ conflicting' \subseteq Calls
    BY <2>1, <2>3 DEF Writes, DispatcherTypeOK
  <2>5. QED
    BY <1>2, <2>4 DEF Reply, OfServer, dispatcherVars, DispatcherTypeOK
<1>3. ASSUME NEW r \in ServerRequests, Ask(r) \/ Settle(r)
      PROVE  DispatcherTypeOK'
  <2>1. \A type \in {"request", "resolved"} : [type |-> type, request |-> r] \in Messages
    BY DEF Messages
  <2>2. PICK type \in {"request", "resolved"} : Writes([type |-> type, request |-> r])
    BY <1>3 DEF Ask, Settle
  <2>3. stdout' \in Seq(Messages)
    BY <2>1, <2>2, AppendType DEF Writes, DispatcherTypeOK
  <2>4. QED
    BY <1>3, <2>3 DEF Ask, Settle, OfServer, dispatcherVars, DispatcherTypeOK
<1>4. CASE Exit
  BY <1>4 DEF Exit, dispatcherVars, DispatcherTypeOK
<1>5. QED
  BY <1>1, <1>2, <1>3, <1>4 DEF ServerStep

\* Who holds what: only the reader's steps touch the reader.
LEMMA ReaderHoldsStep ==
  ASSUME TypeInv, ReaderStep
  PROVE  ReaderHolds'
<1> USE DEF TypeInv
<1>1. CASE ReadMessage
  <2> DEFINE message == Head(stdout)
  <2>1. message \in Messages
    BY <1>1, HeadOfOutput DEF ReadMessage
  <2> HIDE DEF message
  <2>2. CASE message.type = "response" /\ HandleResponse(message)
    BY <1>1, <2>1, <2>2 DEF HandleResponse, ReaderHolds, Reading, DispatcherTypeOK
  <2>3. CASE message.type = "request" /\ HandleServerRequest(message)
    BY <1>1, <2>1, <2>3 DEF HandleServerRequest, ReaderGoes, ReaderHolds, Reading, DispatcherTypeOK
  <2>4. CASE message.type = "started" /\ HandleStarted(message)
    <3>1. PICK c \in Calls \cup {Null} :
            reader' = [reader EXCEPT !.pc = "put notification",
                                     !.note = [type |-> "started", call |-> c]]
      BY <2>4 DEF HandleStarted, BoundCalls, DispatcherTypeOK
    <3>2. [type |-> "started", call |-> c] \in NotificationRecords
      BY <3>1 DEF NotificationRecords
    <3>3. QED
      BY <3>1, <3>2 DEF ReaderHolds, DispatcherTypeOK
  <2>5. CASE message.type = "resolved" /\ HandleResolved(message)
    <3> DEFINE note == [type |-> "resolved", matched |-> message.request \in serverRequests]
    <3>1. note \in NotificationRecords
      BY DEF NotificationRecords
    <3>2. reader' = [reader EXCEPT !.pc = "put notification", !.note = note]
      BY <2>5 DEF HandleResolved
    <3> HIDE DEF note
    <3>3. QED
      BY <3>1, <3>2 DEF ReaderHolds, DispatcherTypeOK
  <2>6. QED
    BY <1>1, <2>2, <2>3, <2>4, <2>5 DEF ReadMessage, message
<1>2. CASE ~ReadMessage
  <2>1. UNCHANGED reader \/ \E pc \in {"closing", "mismatch", "read", "stopped"} : ReaderGoes(pc)
    BY <1>2 DEF ReaderStep, ReadEnd, Deliver, CloseOnMismatch, PutRequest, PutRequestClosed,
       PutNotification, ReaderStops
  <2>2. QED
    BY <2>1 DEF ReaderGoes, ReaderHolds, Reading, DispatcherTypeOK
<1>3. QED
  BY <1>1, <1>2

\* A worker that leaves its rest has taken a request.
LEMMA WorkersHoldStep ==
  ASSUME TypeInv, NEW w \in Workers, NEW pc \in WorkerLabels,
         \/ /\ WorkerGoes(w, pc)
            /\ \/ pc \in {"idle", "take", "stopped"}
               \/ workers[w].pc \notin {"idle", "take", "stopped"}
         \/ \E r \in ServerRequests : workers' = [workers EXCEPT ![w] = [pc |-> pc, request |-> r]]
  PROVE  WorkersHold'
<1>1. workers \in [Workers -> [pc : WorkerLabels, request : ServerRequests \cup {Null}]]
  BY DEF TypeInv, DispatcherTypeOK
<1>2. CASE /\ WorkerGoes(w, pc)
           /\ \/ pc \in {"idle", "take", "stopped"}
              \/ workers[w].pc \notin {"idle", "take", "stopped"}
  BY <1>1, <1>2 DEF WorkerGoes, TypeInv, WorkersHold
<1>3. ASSUME NEW r \in ServerRequests, workers' = [workers EXCEPT ![w] = [pc |-> pc, request |-> r]]
      PROVE  WorkersHold'
  BY <1>1, <1>3 DEF TypeInv, WorkersHold
<1>4. QED
  BY <1>2, <1>3

\* A worker that is not at rest holds a request, after every step of the workers.
LEMMA LoopHolds ==
  ASSUME TypeInv, ServerLoopStep \/ \E w \in Responders : AnswerHeld(w) \/ ResponseStep(w)
  PROVE  WorkersHold'
<1>1. CASE TakeRequest
  <2>1. Head(requests) \in ServerRequests
    BY <1>1 DEF TakeRequest, TypeInv, DispatcherTypeOK
  <2>2. PICK pc \in WorkerLabels : Treats(Head(requests), pc)
    BY <1>1, <2>1, TablesAreTotal DEF TakeRequest, WorkerLabels, Kinds
  <2>3. QED
    BY <2>1, <2>2, WorkerNames, WorkersHoldStep DEF Treats
<1>2. CASE RunProvider \/ OfferRequest \/ ForwardRequest \/ ServerLoopStops
  <2>1. PICK pc \in WorkerLabels :
          /\ WorkerGoes(ServerLoop, pc)
          /\ \/ pc \in {"idle", "take", "stopped"}
             \/ workers[ServerLoop].pc \notin {"idle", "take", "stopped"}
    BY <1>2 DEF RunProvider, OfferRequest, ForwardRequest, ServerLoopStops, WorkerLabels
  <2>2. QED
    BY <2>1, WorkerNames, WorkersHoldStep
<1>3. ASSUME NEW w \in Responders, AnswerHeld(w)
      PROVE  WorkersHold'
  <2>1. PICK r \in ServerRequests :
          workers' = [workers EXCEPT ![w] = [pc |-> "respond", request |-> r]]
    BY <1>3 DEF AnswerHeld, TypeInv, DispatcherTypeOK
  <2>2. "respond" \in WorkerLabels
    BY DEF WorkerLabels
  <2>3. QED
    BY <2>1, <2>2, WorkerNames, WorkersHoldStep
<1>4. ASSUME NEW w \in Workers, ResponseStep(w)
      PROVE  WorkersHold'
  <2>1. PICK pc \in WorkerLabels :
          /\ WorkerGoes(w, pc)
          /\ \/ pc \in {"idle", "take", "stopped"}
             \/ workers[w].pc \notin {"idle", "take", "stopped"}
    BY <1>4 DEF ResponseStep, BeginResponse, WriteResponse, WriteResponseFails,
       CompleteServerRequest, WorkerClosed, Rest, WorkerLabels
  <2>2. QED
    BY <2>1, WorkersHoldStep
<1>5. QED
  BY <1>1, <1>2, <1>3, <1>4, WorkerNames DEF ServerLoopStep

\* The first states satisfy the type invariant.
LEMMA TypeInit ==
  ASSUME Init
  PROVE  TypeInv
<1>1. DispatcherTypeOK
  <2>1. \A S : <<>> \in Seq(S)
    OBVIOUS
  <2>2. requests \in Seq(ServerRequests) /\ Len(requests) <= RequestsCap
    BY <2>1, CapsAreChannels DEF Init
  <2>3. forwarded \in Seq(ServerRequests) /\ Len(forwarded) <= ForwardedCap
    BY <2>1, CapsAreChannels DEF Init
  <2>4. notifications \in Seq(NotificationRecords) /\ Len(notifications) <= NotificationsCap
    BY <2>1, CapsAreChannels DEF Init
  <2>5. stdout \in Seq(Messages)
    BY <2>1 DEF Init
  <2>6. workers \in [Workers -> [pc : WorkerLabels, request : ServerRequests \cup {Null}]]
    BY DEF Init, WorkerLabels, Rest
  <2>7. calls \in [Calls -> [pc : CallLabels, outcome : Outcomes \cup {Null}]]
    BY DEF Init, CallLabels
  <2>8. reader \in [pc : ReaderLabels, message : Messages \cup {Null},
                   note : NotificationRecords \cup {Null}]
    BY DEF Init, ReaderLabels
  <2>9. QED
    BY <2>2, <2>3, <2>4, <2>5, <2>6, <2>7, <2>8 DEF Init, DispatcherTypeOK
<1>2. ReaderHolds /\ WorkersHold
  BY DEF Init, ReaderHolds, WorkersHold, Rest
<1>3. QED
  BY <1>1, <1>2 DEF TypeInv

\* Steps that touch neither the reader nor the workers.
LEMMA TypeStep ==
  ASSUME TypeInv, [Next]_vars
  PROVE  TypeInv'
<1> USE DEF TypeInv
<1>1. ASSUME UNCHANGED reader PROVE ReaderHolds'
  BY <1>1 DEF ReaderHolds, Reading
<1>2. ASSUME UNCHANGED workers PROVE WorkersHold'
  BY <1>2 DEF WorkersHold
<1>3. ASSUME NEW c \in Calls, CallStep(c) PROVE TypeInv'
  <2>1. UNCHANGED <<reader, workers>>
    BY <1>3 DEF CallStep, Register, WriteRequest, WriteRequestFails, ForgetRequest, TakeResult,
       Expire, SeeDone, CallClosed, OfCall
  <2>2. QED
    BY <1>1, <1>2, <1>3, <2>1, CallTypes
<1>4. CASE CloseConnection \/ FinishClose \/ Consume
  BY <1>1, <1>2, <1>4, ClosingTypes DEF CloseConnection, FinishClose, Consume
<1>5. CASE ReaderStep
  <2>1. UNCHANGED workers
    BY <1>5 DEF ReaderStep, ReadMessage, ReadEnd, Deliver, CloseOnMismatch, PutRequest,
       PutRequestClosed, PutNotification, ReaderStops, OfReader
  <2>2. QED
    BY <1>2, <1>5, <2>1, ReaderTypes, ReaderHoldsStep
<1>6. CASE ServerLoopStep \/ \E w \in Responders : AnswerHeld(w) \/ ResponseStep(w)
  <2>1. UNCHANGED reader
    BY <1>6 DEF ServerLoopStep, AnswerHeld, ResponseStep, BeginResponse, WriteResponse,
       WriteResponseFails, CompleteServerRequest, WorkerClosed, TakeRequest, RunProvider,
       OfferRequest, ForwardRequest, ServerLoopStops, OfWorker
  <2>2. QED
    BY <1>1, <1>6, <2>1, LoopHolds, LoopTypes, ResponseTypes, WorkerNames DEF ServerLoopStep
<1>7. CASE TakeForwarded
  BY <1>1, <1>2, <1>7, LoopTypes DEF TakeForwarded, OfWorker
<1>8. CASE ServerStep
  <2>1. UNCHANGED <<reader, workers>>
    BY <1>8 DEF ServerStep, Announce, Reply, Ask, Settle, Exit, OfServer, dispatcherVars
  <2>2. QED
    BY <1>1, <1>2, <1>8, <2>1, ServerTypes
<1>9. CASE UNCHANGED vars
  BY <1>1, <1>2, <1>9 DEF vars, dispatcherVars, serverVars, DispatcherTypeOK
<1>10. QED
  BY <1>3, <1>4, <1>5, <1>6, <1>7, <1>8, <1>9 DEF Next

\* Every variable of the connection and of the app server keeps to its type.
THEOREM DispatcherTypeCorrect == Spec => []DispatcherTypeOK
<1>1. Spec => []TypeInv
  BY TypeInit, TypeStep, PTL DEF Spec
<1>2. TypeInv => DispatcherTypeOK
  BY DEF TypeInv
<1>3. QED
  BY <1>1, <1>2, PTL
-----------------------------------------------------------------------------
(* Closing, and the results of calls *)

\* What closing does to what it takes: a closed dispatcher has nothing registered.
LEMMA CloseCloses ==
  ASSUME TypeInv, ClosingInv, NEW reason \in CloseReasons, Close(reason)
  PROVE  /\ closeErr' # Null
         /\ pending' = {} /\ doomed' \cup pending' \subseteq pending \cup doomed
         /\ closeErr # Null => UNCHANGED <<closeErr, doomed, pending, serverRequests, responded>>
BY NullIsNothing DEF Close, ClosingInv, TypeInv, DispatcherTypeOK

\* The reasons by name.
LEMMA Reasons == {"deadline", "mismatch", "duplicate", "eof", "closed"} \subseteq CloseReasons
BY DEF CloseReasons

\* Steps that open nothing and close nothing.
LEMMA ClosingFrame ==
  ASSUME TypeInv, ClosingInv,
         UNCHANGED <<closeErr, doomed, done>>, pending' \subseteq pending
  PROVE  ClosingInv'
BY DEF ClosingInv

\* Close keeps what a closed dispatcher promises.
LEMMA ClosingByClose ==
  ASSUME TypeInv, ClosingInv, NEW reason \in CloseReasons, Close(reason), UNCHANGED done
  PROVE  ClosingInv'
BY CloseCloses DEF ClosingInv

\* Every step keeps it.
LEMMA ClosingStep ==
  ASSUME TypeInv, ClosingInv, [Next]_vars
  PROVE  ClosingInv'
<1>1. ASSUME NEW c \in Calls, CallStep(c) PROVE ClosingInv'
  <2>1. CASE Register(c)
    BY <1>1, <2>1 DEF Register, OfCall, ClosingInv
  <2>2. CASE WriteRequestFails(c)
    BY <1>1, <2>2, ClosingByClose, Reasons DEF WriteRequestFails, OfCall
  <2>3. CASE Expire(c)
    BY <1>1, <2>3, ClosingByClose, Reasons, ClosingFrame DEF Expire, OfCall
  <2>4. CASE WriteRequest(c) \/ ForgetRequest(c) \/ TakeResult(c) \/ SeeDone(c) \/ CallClosed(c)
    BY <1>1, <2>4, ClosingFrame
       DEF WriteRequest, ForgetRequest, TakeResult, SeeDone, CallClosed, Open, OfCall
  <2>5. QED
    BY <1>1, <2>1, <2>2, <2>3, <2>4 DEF CallStep
<1>2. CASE CloseConnection
  BY <1>2, ClosingByClose, Reasons DEF CloseConnection
<1>3. CASE FinishClose
  BY <1>3 DEF FinishClose, ClosingInv
<1>4. CASE ReaderStep
  <2>1. CASE ReadMessage
    <3>1. \/ UNCHANGED <<closeErr, doomed>> /\ pending' \subseteq pending
          \/ Close("duplicate")
      BY <2>1 DEF ReadMessage, HandleResponse, HandleServerRequest, HandleStarted, HandleResolved,
         Open
    <3>2. QED
      BY <2>1, <3>1, ClosingFrame, ClosingByClose, Reasons DEF ReadMessage, OfReader
  <2>2. CASE ReadEnd \/ CloseOnMismatch
    BY <2>2, ClosingFrame, ClosingByClose, Reasons DEF ReadEnd, CloseOnMismatch, Open, OfReader
  <2>3. CASE Deliver \/ PutRequest \/ PutRequestClosed \/ PutNotification \/ ReaderStops
    BY <2>3, ClosingFrame DEF Deliver, PutRequest, PutRequestClosed, PutNotification, ReaderStops,
       Open, OfReader
  <2>4. QED
    BY <1>4, <2>1, <2>2, <2>3 DEF ReaderStep
<1>5. CASE Consume \/ TakeForwarded \/ \E w \in Responders : AnswerHeld(w)
  BY <1>5, ClosingFrame DEF Consume, TakeForwarded, AnswerHeld, Open, OfWorker
<1>6. CASE TakeRequest \/ RunProvider \/ OfferRequest \/ ForwardRequest \/ ServerLoopStops
  BY <1>6, ClosingFrame DEF TakeRequest, RunProvider, OfferRequest, ForwardRequest,
     ServerLoopStops, Open, OfWorker
<1>7. ASSUME NEW w \in Workers, ResponseStep(w) PROVE ClosingInv'
  <2>1. CASE WriteResponseFails(w)
    BY <2>1, ClosingByClose, Reasons DEF WriteResponseFails, OfWorker
  <2>2. CASE ~WriteResponseFails(w)
    BY <1>7, <2>2, ClosingFrame DEF ResponseStep, BeginResponse, WriteResponse,
       CompleteServerRequest, WorkerClosed, Open, OfWorker
  <2>3. QED
    BY <2>1, <2>2
<1>8. CASE ServerStep \/ UNCHANGED vars
  BY <1>8, ClosingFrame DEF ServerStep, Announce, Reply, Ask, Settle, Exit, OfServer,
     dispatcherVars, vars
<1>9. QED
  BY <1>1, <1>2, <1>3, <1>4, <1>5, <1>6, <1>7, <1>8, WorkerNames DEF Next, ServerLoopStep

\* Steps that neither register a call nor touch a result.
LEMMA ResultFrame ==
  ASSUME TypeInv, ResultInv, UNCHANGED <<calls, buffer, reader>>,
         pending' \cup doomed' \subseteq pending \cup doomed
  PROVE  ResultInv'
BY DEF ResultInv, AwaitsResult

\* Steps of a call that leave its result channel alone and end a registration at most.
LEMMA ResultOfCall ==
  ASSUME TypeInv, ResultInv, NEW c \in Calls, UNCHANGED <<buffer, reader>>,
         pending' \cup doomed' \subseteq pending \cup doomed,
         \/ \E pc \in CallLabels : pc # "idle" /\ Goes(c, pc)
         \/ \E outcome \in Outcomes : Returns(c, outcome) \/ Closes(c, outcome)
  PROVE  ResultInv'
<1>1. /\ calls'[c].pc # "idle"
      /\ \A d \in Calls : d # c => calls'[d] = calls[d]
  BY DEF Goes, Returns, Closes, TypeInv, DispatcherTypeOK
<1>2. reader.pc = "deliver" => reader.message.call \in Calls
  BY MessageTypes DEF TypeInv, ReaderHolds, Reading
<1>3. pending \cup doomed \subseteq Calls
  BY DEF TypeInv, DispatcherTypeOK
<1>4. QED
  BY <1>1, <1>2, <1>3 DEF ResultInv, AwaitsResult

\* Every step keeps that a call that waits for its result has an empty buffer.
LEMMA ResultStep ==
  ASSUME TypeInv, ClosingInv, ResultInv, [Next]_vars
  PROVE  ResultInv'
<1>0. /\ reader.pc = "deliver" => reader.message.call \in Calls
      /\ pending \cup doomed \subseteq Calls
      /\ calls \in [Calls -> [pc : CallLabels, outcome : Outcomes \cup {Null}]]
      /\ buffer \in [Calls -> Results \cup {Null}]
  BY MessageTypes DEF TypeInv, DispatcherTypeOK, ReaderHolds, Reading
<1>c. \A reason \in CloseReasons :
        Close(reason) => pending' \cup doomed' \subseteq pending \cup doomed
  BY CloseCloses
<1>1. ASSUME NEW c \in Calls, CallStep(c) PROVE ResultInv'
  <2>1. CASE Register(c)
    <3>1. CASE closeErr = Null
      <4>1. calls'[c].pc = "write" /\ \A d \in Calls : d # c => calls'[d] = calls[d]
        BY <1>0, <2>1, <3>1 DEF Register, Goes
      <4>2. pending' = pending \cup {c} /\ UNCHANGED <<buffer, doomed, reader>> /\ buffer[c] = Null
        BY <2>1, <3>1 DEF Register, OfCall, ResultInv
      <4>3. reader.pc = "deliver" => reader.message.call # c
        BY <2>1 DEF Register, ResultInv, AwaitsResult
      <4>4. QED
        BY <1>0, <4>1, <4>2, <4>3 DEF ResultInv, AwaitsResult
    <3>2. CASE closeErr # Null
      BY <2>1, <3>2, ResultOfCall, CallValues DEF Register, OfCall
    <3>3. QED
      BY <3>1, <3>2
  <2>2. CASE WriteRequest(c)
    BY <2>2, ResultOfCall, CallValues DEF WriteRequest, Open, OfCall
  <2>3. CASE WriteRequestFails(c)
    BY <1>c, <2>3, ResultOfCall, CallValues, Reasons DEF WriteRequestFails, OfCall
  <2>4. CASE ForgetRequest(c)
    BY <2>4, ResultOfCall, CallValues DEF ForgetRequest, OfCall
  <2>5. CASE TakeResult(c)
    <3>1. calls'[c].pc = "returned" /\ \A d \in Calls : d # c => calls'[d] = calls[d]
      BY <1>0, <2>5 DEF TakeResult, Returns
    <3>2. buffer'[c] = Null /\ \A d \in Calls : d # c => buffer'[d] = buffer[d]
      BY <1>0, <2>5 DEF TakeResult
    <3>3. UNCHANGED <<pending, doomed, reader>>
      BY <2>5 DEF TakeResult, Open, OfCall
    <3>4. QED
      BY <1>0, <3>1, <3>2, <3>3 DEF ResultInv, AwaitsResult
  <2>6. CASE Expire(c)
    BY <1>c, <2>6, ResultOfCall, CallValues, Reasons DEF Expire, OfCall
  <2>7. CASE SeeDone(c)
    BY <2>7, ResultOfCall, CallValues DEF SeeDone, Open, OfCall
  <2>8. CASE CallClosed(c)
    BY <2>8, ResultOfCall, CallValues DEF CallClosed, Open, OfCall
  <2>9. QED
    BY <1>1, <2>1, <2>2, <2>3, <2>4, <2>5, <2>6, <2>7, <2>8 DEF CallStep
<1>2. CASE CloseConnection
  BY <1>c, <1>2, ResultFrame, Reasons DEF CloseConnection
<1>3. CASE FinishClose
  <2>1. pending = {} /\ pending' = {} /\ doomed' = {} /\ UNCHANGED <<calls, reader>>
    BY <1>3 DEF FinishClose, ClosingInv
  <2>2. \A c \in Calls : c \notin doomed => buffer'[c] = buffer[c]
    BY <1>3 DEF FinishClose
  <2>3. QED
    BY <1>0, <2>1, <2>2 DEF ResultInv, AwaitsResult
<1>4. CASE ReaderStep
  <2>1. CASE ReadMessage
    <3> DEFINE message == Head(stdout)
    <3>1. message \in Messages /\ UNCHANGED <<calls, buffer>>
      BY <2>1, HeadOfOutput DEF ReadMessage, OfReader, TypeInv
    <3> HIDE DEF message
    <3>2. CASE message.type = "response" /\ HandleResponse(message)
      <4>1. CASE message.call \in pending
        <5>1. reader'.message = message /\ pending' = pending \ {message.call} /\ UNCHANGED doomed
          BY <3>2 DEF HandleResponse, TypeInv, DispatcherTypeOK
        <5>2. doomed = {}
          BY <4>1 DEF ClosingInv
        <5>3. QED
          BY <3>1, <4>1, <5>1, <5>2 DEF ResultInv, AwaitsResult
      <4>2. CASE message.call \notin pending
        <5>1. reader'.pc = "read" /\ pending' = pending /\ UNCHANGED doomed
          BY <3>2, <4>2 DEF HandleResponse, TypeInv, DispatcherTypeOK
        <5>2. QED
          BY <3>1, <5>1 DEF ResultInv, AwaitsResult
      <4>3. QED
        BY <4>1, <4>2
    <3>3. CASE HandleServerRequest(message)
      <4>1. reader'.pc # "deliver"
        BY <3>3 DEF HandleServerRequest, ReaderGoes, TypeInv, DispatcherTypeOK
      <4>2. pending' \cup doomed' \subseteq pending \cup doomed
        BY <1>c, <3>3, Reasons DEF HandleServerRequest
      <4>3. QED
        BY <3>1, <4>1, <4>2 DEF ResultInv, AwaitsResult
    <3>4. CASE HandleStarted(message) \/ HandleResolved(message)
      <4>1. reader'.pc # "deliver" /\ UNCHANGED <<pending, doomed>>
        BY <3>4 DEF HandleStarted, HandleResolved, Open, TypeInv, DispatcherTypeOK
      <4>2. QED
        BY <3>1, <4>1 DEF ResultInv, AwaitsResult
    <3>5. QED
      BY <2>1, <3>2, <3>3, <3>4 DEF ReadMessage, message
  <2>2. CASE Deliver
    <3>1. UNCHANGED <<calls, pending, doomed>> /\ reader'.pc # "deliver"
      BY <2>2 DEF Deliver, ReaderGoes, Open, OfReader, TypeInv, DispatcherTypeOK
    <3>2. \A c \in Calls : c # reader.message.call => buffer'[c] = buffer[c]
      BY <2>2 DEF Deliver, TypeInv, DispatcherTypeOK
    <3>3. reader.message.call \notin pending \cup doomed /\ calls[reader.message.call].pc # "idle"
      BY <2>2 DEF Deliver, ResultInv, AwaitsResult
    <3>4. QED
      BY <1>0, <3>1, <3>2, <3>3 DEF ResultInv, AwaitsResult
  <2>3. CASE ~ReadMessage /\ ~Deliver
    <3>1. UNCHANGED reader \/ reader'.pc # "deliver"
      BY <1>4, <2>3 DEF ReaderStep, ReadEnd, CloseOnMismatch, PutRequest, PutRequestClosed,
         PutNotification, ReaderStops, ReaderGoes, TypeInv, DispatcherTypeOK
    <3>2. UNCHANGED <<calls, buffer>>
      BY <1>4, <2>3 DEF ReaderStep, ReadEnd, CloseOnMismatch, PutRequest, PutRequestClosed,
         PutNotification, ReaderStops, OfReader
    <3>3. pending' \cup doomed' \subseteq pending \cup doomed
      BY <1>4, <1>c, <2>3, Reasons DEF ReaderStep, ReadEnd, CloseOnMismatch, PutRequest,
         PutRequestClosed, PutNotification, ReaderStops, Open
    <3>4. QED
      BY <3>1, <3>2, <3>3 DEF ResultInv, AwaitsResult
  <2>4. QED
    BY <2>1, <2>2, <2>3
<1>5. CASE Consume \/ TakeForwarded \/ \E w \in Responders : AnswerHeld(w)
  BY <1>5, ResultFrame DEF Consume, TakeForwarded, AnswerHeld, Open, OfWorker
<1>6. CASE TakeRequest \/ RunProvider \/ OfferRequest \/ ForwardRequest \/ ServerLoopStops
  BY <1>6, ResultFrame DEF TakeRequest, RunProvider, OfferRequest, ForwardRequest,
     ServerLoopStops, Open, OfWorker
<1>7. ASSUME NEW w \in Workers, ResponseStep(w) PROVE ResultInv'
  <2>1. CASE WriteResponseFails(w)
    BY <1>c, <2>1, ResultFrame, Reasons DEF WriteResponseFails, OfWorker
  <2>2. CASE ~WriteResponseFails(w)
    BY <1>7, <2>2, ResultFrame DEF ResponseStep, BeginResponse, WriteResponse,
       CompleteServerRequest, WorkerClosed, Open, OfWorker
  <2>3. QED
    BY <2>1, <2>2
<1>8. CASE ServerStep \/ UNCHANGED vars
  BY <1>8, ResultFrame DEF ServerStep, Announce, Reply, Ask, Settle, Exit, OfServer,
     dispatcherVars, vars
<1>9. QED
  BY <1>1, <1>2, <1>3, <1>4, <1>5, <1>6, <1>7, <1>8, WorkerNames DEF Next, ServerLoopStep

\* The dispatcher's mutex and its closing taken together.
BaseInv == TypeInv /\ ClosingInv /\ ResultInv

\* Types, closing and results hold in every state.
LEMMA BaseInvariant == Spec => []BaseInv
<1>1. Init => BaseInv
  <2>1. ASSUME Init PROVE ClosingInv /\ ResultInv
    BY <2>1 DEF Init, ClosingInv, ResultInv
  <2>2. QED
    BY <2>1, TypeInit DEF BaseInv
<1>2. BaseInv /\ [Next]_vars => BaseInv'
  BY TypeStep, ClosingStep, ResultStep DEF BaseInv
<1>3. QED
  BY <1>1, <1>2, PTL DEF Spec

\* Whoever is about to send a result, the reader or the goroutine that closes, finds
\* the result channel empty: the send never blocks.
THEOREM ResultNeverBlocks == Spec => []ResultFits
<1>1. BaseInv => ResultFits
  BY DEF BaseInv, ResultInv, AwaitsResult, ResultFits
<1>2. QED
  BY <1>1, BaseInvariant, PTL
-----------------------------------------------------------------------------
(* Uncertain calls *)

\* A dispatcher that is closed stays closed.
LEMMA ClosedStays ==
  ASSUME TypeInv, ClosingInv, [Next]_vars
  PROVE  UNCHANGED <<closeErr, doomed>> \/ closeErr' # Null
<1>c. \A reason \in CloseReasons : Close(reason) => closeErr' # Null
  BY CloseCloses
<1>1. ASSUME NEW c \in Calls, CallStep(c) PROVE UNCHANGED <<closeErr, doomed>> \/ closeErr' # Null
  BY <1>c, <1>1, Reasons DEF CallStep, Register, WriteRequest, WriteRequestFails, ForgetRequest,
     TakeResult, Expire, SeeDone, CallClosed, Open
<1>2. CASE CloseConnection \/ FinishClose
  BY <1>c, <1>2, Reasons DEF CloseConnection, FinishClose
<1>3. CASE ReaderStep
  BY <1>c, <1>3, Reasons DEF ReaderStep, ReadMessage, HandleResponse, HandleServerRequest,
     HandleStarted, HandleResolved, ReadEnd, Deliver, CloseOnMismatch, PutRequest,
     PutRequestClosed, PutNotification, ReaderStops, Open
<1>4. CASE Consume \/ TakeForwarded \/ \E w \in Responders : AnswerHeld(w)
  BY <1>4 DEF Consume, TakeForwarded, AnswerHeld, Open
<1>5. CASE TakeRequest \/ RunProvider \/ OfferRequest \/ ForwardRequest \/ ServerLoopStops
  BY <1>5 DEF TakeRequest, RunProvider, OfferRequest, ForwardRequest, ServerLoopStops, Open
<1>6. ASSUME NEW w \in Workers, ResponseStep(w)
      PROVE  UNCHANGED <<closeErr, doomed>> \/ closeErr' # Null
  BY <1>c, <1>6, Reasons DEF ResponseStep, BeginResponse, WriteResponse, WriteResponseFails,
     CompleteServerRequest, WorkerClosed, Open
<1>7. CASE ServerStep \/ UNCHANGED vars
  BY <1>7 DEF ServerStep, Announce, Reply, Ask, Settle, Exit, OfServer, dispatcherVars, vars
<1>8. QED
  BY <1>1, <1>2, <1>3, <1>4, <1>5, <1>6, <1>7, WorkerNames DEF Next, ServerLoopStep

\* The invariant for one call.
UncertainOf(c) ==
  /\ buffer[c] = "closed" => closeErr # Null
  /\ calls[c].pc = "closing" => closeErr # Null
  /\ Unanswered(c) /\ ClosesOnUncertain(c) => closeErr # Null

\* The invariant of uncertain calls, call by call.
LEMMA UncertainParts == UncertainInv <=> \A c \in Calls : UncertainOf(c)
BY DEF UncertainInv, UncertainOf

\* A step that leaves what it reads of a call alone keeps its part.
LEMMA UncertainFrame ==
  ASSUME UncertainInv, NEW c \in Calls, UNCHANGED closeErr \/ closeErr' # Null,
         calls'[c] = calls[c], buffer'[c] = buffer[c]
  PROVE  UncertainOf(c)'
BY DEF UncertainInv, UncertainOf, Unanswered, ClosesOnUncertain

\* The step of a call: what it returned it was told, or it closed the connection.
LEMMA UncertainOfCall ==
  ASSUME BaseInv, UncertainInv, NEW c \in Calls, CallStep(c)
  PROVE  UncertainOf(c)'
<1>0. /\ calls \in [Calls -> [pc : CallLabels, outcome : Outcomes \cup {Null}]]
      /\ buffer \in [Calls -> Results \cup {Null}]
      /\ TypeInv /\ ClosingInv
  BY DEF BaseInv, TypeInv, DispatcherTypeOK
<1>c. \A reason \in CloseReasons : Close(reason) => closeErr' # Null
  BY <1>0, CloseCloses
<1>1. CASE Register(c)
  BY <1>0, <1>1 DEF Register, Goes, Returns, UncertainInv, UncertainOf, Unanswered,
     ClosesOnUncertain
<1>2. CASE WriteRequest(c)
  BY <1>0, <1>2 DEF WriteRequest, Goes, Open, UncertainInv, UncertainOf, Unanswered,
     ClosesOnUncertain
<1>3. CASE WriteRequestFails(c)
  BY <1>0, <1>c, <1>3, Reasons DEF WriteRequestFails, UncertainOf
<1>4. CASE ForgetRequest(c)
  BY <1>0, <1>4 DEF ForgetRequest, Returns, UncertainInv, UncertainOf, Unanswered,
     ClosesOnUncertain
<1>5. CASE TakeResult(c)
  <2>1. calls'[c] = [pc |-> "returned", outcome |-> buffer[c]] /\ buffer'[c] = Null
    BY <1>0, <1>5 DEF TakeResult, Returns
  <2>2. UNCHANGED closeErr
    BY <1>5 DEF TakeResult, Open
  <2>3. Null # "closed"
    BY NullIsNothing DEF Results
  <2>4. buffer[c] # "deadline"
    BY <1>0, <1>5, NullIsNothing DEF TakeResult, Results
  <2>5. QED
    BY <2>1, <2>2, <2>3, <2>4 DEF UncertainInv, UncertainOf, Unanswered
<1>6. CASE Expire(c)
  BY <1>0, <1>c, <1>6, Reasons DEF Expire, Returns, UncertainInv, UncertainOf, Unanswered,
     ClosesOnUncertain
<1>7. CASE SeeDone(c) \/ CallClosed(c)
  BY <1>0, <1>7 DEF SeeDone, CallClosed, Open, OfCall, ClosingInv, UncertainOf
<1>8. QED
  BY <1>1, <1>2, <1>3, <1>4, <1>5, <1>6, <1>7 DEF CallStep

\* Every step keeps it.
LEMMA UncertainStep ==
  ASSUME BaseInv, UncertainInv, [Next]_vars
  PROVE  UncertainInv'
<1>0. /\ calls \in [Calls -> [pc : CallLabels, outcome : Outcomes \cup {Null}]]
      /\ buffer \in [Calls -> Results \cup {Null}]
      /\ TypeInv /\ ClosingInv
  BY DEF BaseInv, TypeInv, DispatcherTypeOK
<1>c. UNCHANGED closeErr \/ closeErr' # Null
  BY <1>0, ClosedStays
<1>1. ASSUME NEW c \in Calls, CallStep(c), NEW d \in Calls PROVE UncertainOf(d)'
  <2>1. CASE d = c
    BY <1>1, <2>1, UncertainOfCall
  <2>2. CASE d # c
    <3>1. calls'[d] = calls[d] /\ buffer'[d] = buffer[d]
      BY <1>0, <1>1, <2>2 DEF CallStep, Register, WriteRequest, WriteRequestFails, ForgetRequest,
         TakeResult, Expire, SeeDone, CallClosed, Goes, Returns, Closes
    <3>2. QED
      BY <1>c, <3>1, UncertainFrame
  <2>3. QED
    BY <2>1, <2>2
<1>2. CASE FinishClose
  BY <1>2 DEF FinishClose, UncertainInv, Unanswered, ClosesOnUncertain
<1>3. CASE Deliver
  <2>1. UNCHANGED <<calls, closeErr>>
    BY <1>3 DEF Deliver, Open, OfReader
  <2>2. \A d \in Calls : buffer'[d] = buffer[d] \/ buffer'[d] # "closed"
    BY <1>0, <1>3 DEF Deliver
  <2>3. QED
    BY <2>1, <2>2 DEF UncertainInv, Unanswered, ClosesOnUncertain
<1>4. ASSUME NEW d \in Calls, UNCHANGED <<calls, buffer>> PROVE UncertainOf(d)'
  BY <1>c, <1>4, UncertainFrame
<1>5. CASE ReaderStep /\ ~Deliver
  <2>1. UNCHANGED <<calls, buffer>>
    BY <1>5 DEF ReaderStep, ReadMessage, ReadEnd, CloseOnMismatch, PutRequest, PutRequestClosed,
       PutNotification, ReaderStops, OfReader
  <2>2. QED
    BY <1>4, <2>1, UncertainParts DEF UncertainInv, UncertainOf, Unanswered, ClosesOnUncertain
<1>6. CASE \/ CloseConnection \/ Consume \/ TakeForwarded \/ ServerStep \/ UNCHANGED vars
           \/ ServerLoopStep \/ \E w \in Responders : AnswerHeld(w) \/ ResponseStep(w)
  <2>1. UNCHANGED <<calls, buffer>>
    BY <1>6 DEF CloseConnection, Consume, TakeForwarded, ServerStep, Announce, Reply, Ask, Settle,
       Exit, OfServer, dispatcherVars, vars, ServerLoopStep, TakeRequest, RunProvider,
       OfferRequest, ForwardRequest, ServerLoopStops, AnswerHeld, ResponseStep, BeginResponse,
       WriteResponse, WriteResponseFails, CompleteServerRequest, WorkerClosed, OfWorker
  <2>2. QED
    BY <1>4, <2>1 DEF UncertainInv, UncertainOf, Unanswered, ClosesOnUncertain
<1>7. ASSUME NEW c \in Calls, CallStep(c) PROVE UncertainInv'
  BY <1>1, <1>7 DEF UncertainInv, UncertainOf, Unanswered, ClosesOnUncertain
<1>8. QED
  BY <1>2, <1>3, <1>5, <1>6, <1>7 DEF Next

\* A call that may have started or interrupted something and returned without the app
\* server's word has closed the connection.
THEOREM UncertainCallsClose == Spec => []UncertainCallCloses
<1>1. Init => UncertainInv
  BY NullIsNothing DEF Init, UncertainInv, Unanswered, Results
<1>2. BaseInv /\ UncertainInv /\ [Next]_vars => UncertainInv'
  BY UncertainStep
<1>3. UncertainInv => UncertainCallCloses \/ ~(received \subseteq Calls)
  BY DEF UncertainInv, UncertainCallCloses
<1>4. BaseInv => received \subseteq Calls
  BY DEF BaseInv, TypeInv, DispatcherTypeOK
<1>5. QED
  BY <1>1, <1>2, <1>3, <1>4, BaseInvariant, PTL DEF Spec
-----------------------------------------------------------------------------
(* The requests of the app server *)

\* The output as the reader shortens it and the app server extends it.
LEMMA OutputTail ==
  ASSUME TypeInv, stdout # <<>>, stdout' = Tail(stdout)
  PROVE  /\ \A j \in DOMAIN stdout' : j + 1 \in DOMAIN stdout /\ stdout'[j] = stdout[j + 1]
         /\ \A j \in DOMAIN stdout : j # 1 =>
              j - 1 \in DOMAIN stdout' /\ stdout'[j - 1] = stdout[j]
         /\ Head(stdout) = stdout[1] /\ 1 \in DOMAIN stdout /\ DOMAIN stdout' \subseteq Nat
         /\ DOMAIN stdout \subseteq Nat
<1>1. stdout \in Seq(Messages)
  BY DEF TypeInv, DispatcherTypeOK
<1>2. QED
  BY <1>1

\* A message at the end of the output leaves the unread requests unread.
LEMMA OutputAppend ==
  ASSUME TypeInv, NEW message, Writes(message)
  PROVE  /\ \A j \in DOMAIN stdout' :
              \/ j \in DOMAIN stdout /\ stdout'[j] = stdout[j]
              \/ j = Len(stdout) + 1 /\ stdout'[j] = message
         /\ \A j \in DOMAIN stdout : j \in DOMAIN stdout' /\ stdout'[j] = stdout[j]
         /\ Len(stdout) + 1 \in DOMAIN stdout' /\ stdout'[Len(stdout) + 1] = message
         /\ Len(stdout) + 1 \notin DOMAIN stdout
<1>1. stdout \in Seq(Messages) /\ stdout' = Append(stdout, message)
  BY DEF TypeInv, DispatcherTypeOK, Writes
<1>2. QED
  BY <1>1

\* Reading makes a request read that is the first of the output, and no other.
LEMMA UnreadTail ==
  ASSUME TypeInv, stdout # <<>>, stdout' = Tail(stdout), UNCHANGED asked, NEW r
  PROVE  /\ Unread(r)' => Unread(r)
         /\ Head(stdout) # RequestMessage(r) => (Unread(r) <=> Unread(r)')
<1>1. RequestMessage(r)' = RequestMessage(r)
  BY DEF RequestMessage
<1>2. QED
  BY <1>1, OutputTail, ZenonT(30) DEF Unread

\* And makes one request unread at most: its own.
LEMMA UnreadAppend ==
  ASSUME TypeInv, NEW message, Writes(message), NEW r, asked \subseteq asked',
         message # RequestMessage(r), r \in asked' => r \in asked
  PROVE  Unread(r)' <=> Unread(r)
<1>1. RequestMessage(r)' = RequestMessage(r)
  BY DEF RequestMessage
<1>2. QED
  BY <1>1, OutputAppend DEF Unread

\* A step that is neither of the app server nor of its reader.
LEMMA UnreadFrame ==
  ASSUME UNCHANGED <<stdout, asked>>, NEW r
  PROVE  Unread(r)' <=> Unread(r)
BY DEF Unread, RequestMessage


\* Only the reader takes from the output, and only the app server writes and asks.
LEMMA OutputFrame ==
  ASSUME [Next]_vars, ~ReadMessage, ~ServerStep
  PROVE  UNCHANGED <<stdout, asked, settled, announced, replied, conflicting>>
<1>1. CASE ReaderStep
  BY <1>1 DEF ReaderStep, ReadEnd, Deliver, CloseOnMismatch, PutRequest, PutRequestClosed,
     PutNotification, ReaderStops, OfReader
<1>2. ASSUME NEW c \in Calls, CallStep(c)
      PROVE  UNCHANGED <<stdout, asked, settled, announced, replied, conflicting>>
  BY <1>2 DEF CallStep, Register, WriteRequest, WriteRequestFails, ForgetRequest, TakeResult,
     Expire, SeeDone, CallClosed, OfCall
<1>3. CASE CloseConnection \/ FinishClose \/ Consume \/ UNCHANGED vars
  BY <1>3 DEF CloseConnection, FinishClose, Consume, serverVars, vars
<1>4. CASE \/ ServerLoopStep \/ TakeForwarded
           \/ \E w \in Responders : AnswerHeld(w) \/ ResponseStep(w)
  BY <1>4 DEF ServerLoopStep, TakeRequest, RunProvider, OfferRequest, ForwardRequest,
     ServerLoopStops, TakeForwarded, AnswerHeld, ResponseStep, BeginResponse, WriteResponse,
     WriteResponseFails, CompleteServerRequest, WorkerClosed, OfWorker
<1>5. QED
  BY <1>1, <1>2, <1>3, <1>4 DEF Next

\* What the app server writes is no request that it has asked before.
LEMMA ServerWrites ==
  ASSUME TypeInv, ServerStep
  PROVE  \/ Exit
         \/ \E q \in ServerRequests : Ask(q)
         \/ \E message : /\ Writes(message) /\ UNCHANGED asked
                         /\ \A r \in ServerRequests : message # RequestMessage(r)
<1>1. ASSUME NEW c \in Calls, Announce(c)
      PROVE  \E message : /\ Writes(message) /\ UNCHANGED asked
                         /\ \A r \in ServerRequests : message # RequestMessage(r)
  <2>1. Writes(Announcement(c)) /\ UNCHANGED asked
    BY <1>1 DEF Announce
  <2>2. \A r \in ServerRequests : Announcement(c) # RequestMessage(r)
    <3>1. Announcement(c).type = "started"
      BY DEF Announcement
    <3>2. QED
      BY <3>1 DEF RequestMessage
  <2>3. QED
    BY <2>1, <2>2
<1>2. ASSUME NEW c \in Calls, Reply(c)
      PROVE  \E message : /\ Writes(message) /\ UNCHANGED asked
                         /\ \A r \in ServerRequests : message # RequestMessage(r)
  <2>1. PICK failed, id : Writes([type |-> "response", call |-> c, id |-> id, failed |-> failed])
    BY <1>2 DEF Reply
  <2>2. UNCHANGED asked
    BY <1>2 DEF Reply
  <2>3. \A r \in ServerRequests :
          [type |-> "response", call |-> c, id |-> id, failed |-> failed] # RequestMessage(r)
    BY DEF RequestMessage
  <2>4. QED
    BY <2>1, <2>2, <2>3
<1>3. ASSUME NEW q \in ServerRequests, Settle(q)
      PROVE  \E message : /\ Writes(message) /\ UNCHANGED asked
                         /\ \A r \in ServerRequests : message # RequestMessage(r)
  <2>1. Writes([type |-> "resolved", request |-> q]) /\ UNCHANGED asked
    BY <1>3 DEF Settle
  <2>2. \A r \in ServerRequests : [type |-> "resolved", request |-> q] # RequestMessage(r)
    BY DEF RequestMessage
  <2>3. QED
    BY <2>1, <2>2
<1>4. QED
  BY <1>1, <1>2, <1>3 DEF ServerStep

\* Each request of the app server is in the output once at most, after it was asked.
LEMMA AskedStep ==
  ASSUME TypeInv, AskedInv, [Next]_vars
  PROVE  AskedInv'
<1>1. CASE ReadMessage
  <2>1. stdout # <<>> /\ stdout' = Tail(stdout) /\ UNCHANGED asked
    BY <1>1 DEF ReadMessage, OfReader
  <2>2. ASSUME NEW r \in ServerRequests, NEW j \in DOMAIN stdout', stdout'[j] = RequestMessage(r)
        PROVE  /\ r \in asked'
               /\ \A k \in DOMAIN stdout' : stdout'[k] = RequestMessage(r) => k = j
    <3>1. stdout[j + 1] = RequestMessage(r) /\ j + 1 \in DOMAIN stdout
      BY <2>1, <2>2, OutputTail
    <3>2. r \in asked
      BY <3>1 DEF AskedInv
    <3>3. ASSUME NEW k \in DOMAIN stdout', stdout'[k] = RequestMessage(r) PROVE k = j
      <4>1. k + 1 \in DOMAIN stdout /\ stdout[k + 1] = RequestMessage(r) /\ k \in Nat /\ j \in Nat
        BY <2>1, <2>2, <3>3, OutputTail
      <4>2. k + 1 = j + 1
        BY <3>1, <4>1 DEF AskedInv
      <4>3. QED
        BY <4>1, <4>2
    <3>4. QED
      BY <2>1, <3>2, <3>3
  <2>3. QED
    BY <2>2 DEF AskedInv, RequestMessage
<1>2. ASSUME NEW message, Writes(message), UNCHANGED asked,
             \A r \in ServerRequests : message # RequestMessage(r)
      PROVE  AskedInv'
  <2>1. ASSUME NEW r \in ServerRequests, NEW j \in DOMAIN stdout', stdout'[j] = RequestMessage(r)
        PROVE  /\ r \in asked'
               /\ \A k \in DOMAIN stdout' : stdout'[k] = RequestMessage(r) => k = j
    BY <1>2, <2>1, OutputAppend DEF AskedInv
  <2>2. QED
    BY <2>1 DEF AskedInv, RequestMessage
<1>3. ASSUME NEW q \in ServerRequests, Ask(q)
      PROVE  AskedInv'
  <2>1. Writes(RequestMessage(q)) /\ asked' = asked \cup {q} /\ q \notin asked
    BY <1>3 DEF Ask, RequestMessage
  <2>2. ASSUME NEW r \in ServerRequests, NEW j \in DOMAIN stdout', stdout'[j] = RequestMessage(r)
        PROVE  /\ r \in asked'
               /\ \A k \in DOMAIN stdout' : stdout'[k] = RequestMessage(r) => k = j
    <3>1. CASE r = q
      <4>1. \A k \in DOMAIN stdout : stdout[k] # RequestMessage(q)
        BY <2>1 DEF AskedInv
      <4>2. QED
        BY <2>1, <2>2, <3>1, <4>1, OutputAppend
    <3>2. CASE r # q
      <4>1. RequestMessage(q) # RequestMessage(r)
        BY <3>2 DEF RequestMessage
      <4>2. QED
        BY <2>1, <2>2, <4>1, OutputAppend DEF AskedInv
    <3>3. QED
      BY <3>1, <3>2
  <2>3. QED
    BY <2>2 DEF AskedInv, RequestMessage
<1>4. ASSUME UNCHANGED <<stdout, asked>> PROVE AskedInv'
  BY <1>4 DEF AskedInv, RequestMessage
<1>5. CASE ~ReadMessage /\ ~ServerStep
  <2>1. UNCHANGED <<stdout, asked>>
    BY <1>5, OutputFrame
  <2>2. QED
    BY <1>4, <2>1
<1>6. CASE Exit
  BY <1>4, <1>6 DEF Exit
<1>7. QED
  BY <1>1, <1>2, <1>3, <1>5, <1>6, ServerWrites

\* The invariant of the answers, for one request.
AnswerOf(r) ==
  /\ answers[r] <= 1
  /\ Unread(r) => /\ r \notin serverRequests /\ answers[r] = 0
                  /\ \A w \in Workers : ~Writing(w, r)
  /\ r \in serverRequests \ responded => /\ answers[r] = 0
                                         /\ \A w \in Workers : ~Writing(w, r)
  /\ \A w \in Workers : Writing(w, r) =>
       answers[r] = 0 /\ \A v \in Workers : Writing(v, r) => v = w

\* The invariant of answers, request by request.
LEMMA AnswerParts == /\ AnswerInv <=> \A r \in ServerRequests : AnswerOf(r)
                     /\ AnswerInv' <=> \A r \in ServerRequests : AnswerOf(r)'
BY DEF AnswerInv, AnswerOf

\* A step that makes no request known, begins no answer and sends none.
LEMMA AnswerFrame ==
  ASSUME TypeInv, NEW r \in ServerRequests, AnswerOf(r),
         Unread(r)' => Unread(r),
         \A w \in Workers : Writing(w, r)' => Writing(w, r),
         answers'[r] = answers[r],
         r \in serverRequests' => r \in serverRequests,
         r \in serverRequests' \ responded' => r \in serverRequests \ responded
  PROVE  AnswerOf(r)'
BY DEF AnswerOf

\* Closing forgets the requests.
LEMMA CloseForgets ==
  ASSUME TypeInv, NEW reason, Close(reason), NEW r
  PROVE  /\ r \in serverRequests' => r \in serverRequests
         /\ r \in serverRequests' \ responded' => r \in serverRequests \ responded
BY DEF Close

\* What a worker writes while another, or itself, moves.
LEMMA WritingMoves ==
  ASSUME TypeInv, NEW w \in Workers, NEW pc \in WorkerLabels, NEW r
  PROVE  /\ WorkerGoes(w, pc) =>
              /\ \A v \in Workers : v # w => (Writing(v, r)' <=> Writing(v, r))
              /\ Writing(w, r)' <=> pc = "write" /\ workers[w].request = r
         /\ \A q \in ServerRequests :
              workers' = [workers EXCEPT ![w] = [pc |-> pc, request |-> q]] /\ pc # "write" =>
                \A v \in Workers : Writing(v, r)' => Writing(v, r)
<1>1. workers \in [Workers -> [pc : WorkerLabels, request : ServerRequests \cup {Null}]]
  BY DEF TypeInv, DispatcherTypeOK
<1>2. ASSUME WorkerGoes(w, pc)
      PROVE  /\ \A v \in Workers : v # w => (Writing(v, r)' <=> Writing(v, r))
             /\ Writing(w, r)' <=> pc = "write" /\ workers[w].request = r
  BY <1>1, <1>2 DEF WorkerGoes, Writing
<1>3. ASSUME NEW q \in ServerRequests, pc # "write",
             workers' = [workers EXCEPT ![w] = [pc |-> pc, request |-> q]]
      PROVE  \A v \in Workers : Writing(v, r)' => Writing(v, r)
  BY <1>1, <1>3 DEF Writing
<1>4. QED
  BY <1>2, <1>3

\* What the app server does leaves a request that was read read.
LEMMA ServerUnread ==
  ASSUME TypeInv, ServerStep, NEW r \in ServerRequests
  PROVE  /\ Unread(r)' => Unread(r)
         /\ UNCHANGED <<dispatcherVars, received, answers>>
<1>1. UNCHANGED <<dispatcherVars, received, answers>>
  BY DEF ServerStep, Announce, Reply, Ask, Settle, Exit, OfServer
<1>2. CASE Exit
  BY <1>2, UnreadFrame DEF Exit
<1>3. ASSUME NEW q \in ServerRequests, Ask(q), Unread(r)'
      PROVE  Unread(r)
  <2>1. CASE r = q
    BY <1>3, <2>1 DEF Ask, Unread
  <2>2. CASE r # q
    <3>1. Writes(RequestMessage(q)) /\ asked' = asked \cup {q}
      BY <1>3 DEF Ask, RequestMessage
    <3>2. RequestMessage(q) # RequestMessage(r)
      BY <2>2 DEF RequestMessage
    <3>3. QED
      BY <1>3, <2>2, <3>1, <3>2, UnreadAppend
  <2>3. QED
    BY <2>1, <2>2
<1>4. ASSUME NEW message, Writes(message), UNCHANGED asked, message # RequestMessage(r)
      PROVE  Unread(r)' => Unread(r)
  BY <1>4, UnreadAppend
<1>5. QED
  BY <1>1, <1>2, <1>3, <1>4, ServerWrites

\* A known request is refused to every responder but the first.
LEMMA AnswerOfResponse ==
  ASSUME TypeInv, NEW r \in ServerRequests, AnswerOf(r), NEW w \in Workers, ResponseStep(w)
  PROVE  AnswerOf(r)'
<1>0. {"write", "complete", "closing", "idle", "take"} \subseteq WorkerLabels
  BY DEF WorkerLabels
<1>1. Unread(r)' <=> Unread(r)
  <2>1. UNCHANGED <<stdout, asked>>
    BY DEF ResponseStep, BeginResponse, WriteResponse, WriteResponseFails, CompleteServerRequest,
       WorkerClosed, OfWorker
  <2>2. QED
    BY <2>1, UnreadFrame
<1>2. CASE BeginResponse(w)
  <2>1. UNCHANGED <<answers, serverRequests>>
    BY <1>2 DEF BeginResponse
  <2>2. CASE workers[w].request \in serverRequests \ responded
    <3>1. WorkerGoes(w, "write") /\ responded' = responded \cup {workers[w].request}
      BY <1>2, <2>2 DEF BeginResponse
    <3>2. CASE workers[w].request = r
      <4>0. \A v \in Workers : v # w => (Writing(v, r)' <=> Writing(v, r))
        BY <1>0, <3>1, WritingMoves
      <4>1. \A v \in Workers : v # w => ~Writing(v, r)'
        BY <2>2, <3>2, <4>0 DEF AnswerOf
      <4>2. ~Unread(r)' /\ answers'[r] = 0 /\ r \in responded'
        BY <1>1, <2>1, <2>2, <3>1, <3>2 DEF AnswerOf
      <4>3. QED
        BY <4>1, <4>2 DEF AnswerOf
    <3>3. CASE workers[w].request # r
      <4>1. \A v \in Workers : Writing(v, r)' => Writing(v, r)
        BY <1>0, <3>1, <3>3, WritingMoves
      <4>2. QED
        BY <1>1, <2>1, <3>1, <3>3, <4>1, AnswerFrame
    <3>4. QED
      BY <3>2, <3>3
  <2>3. CASE workers[w].request \notin serverRequests \ responded
    <3>1. WorkerGoes(w, Rest(w)) /\ responded' = responded
      BY <1>2, <2>3 DEF BeginResponse
    <3>2. \A v \in Workers : Writing(v, r)' => Writing(v, r)
      BY <1>0, <3>1, WritingMoves DEF Rest
    <3>3. QED
      BY <1>1, <2>1, <3>1, <3>2, AnswerFrame
  <2>4. QED
    BY <2>2, <2>3
<1>3. CASE WriteResponse(w) \/ WriteResponseFails(w)
  <2>1. /\ workers[w].pc = "write" /\ workers[w].request \in ServerRequests
        /\ WorkerGoes(w, "complete") \/ WorkerGoes(w, "closing")
    BY <1>3 DEF WriteResponse, WriteResponseFails, TypeInv, WorkersHold
  <2>2. /\ r \in serverRequests' => r \in serverRequests
        /\ r \in serverRequests' \ responded' => r \in serverRequests \ responded
    BY <1>3, CloseForgets DEF WriteResponse, WriteResponseFails, Open
  <2>3. UNCHANGED answers \/ Answered(workers[w].request)
    BY <1>3 DEF WriteResponse, WriteResponseFails
  <2>4. \A v \in Workers : Writing(v, r)' => Writing(v, r) /\ v # w
    BY <1>0, <2>1, WritingMoves, ZenonT(30)
  <2>5. CASE workers[w].request = r
    <3>1. Writing(w, r)
      BY <2>1, <2>5 DEF Writing
    <3>2. \A v \in Workers : ~Writing(v, r)'
      BY <2>4, <3>1 DEF AnswerOf
    <3>3. ~Unread(r)' /\ r \notin serverRequests' \ responded' /\ answers[r] = 0
      BY <1>1, <2>2, <3>1 DEF AnswerOf
    <3>4. answers'[r] <= 1
      BY <2>1, <2>3, <2>5, <3>3, AnswerTypes DEF TypeInv
    <3>5. QED
      BY <3>2, <3>3, <3>4 DEF AnswerOf
  <2>6. CASE workers[w].request # r
    <3>1. answers'[r] = answers[r]
      BY <2>1, <2>3, <2>6, AnswerTypes DEF TypeInv
    <3>2. QED
      BY <1>1, <2>2, <2>4, <3>1, AnswerFrame
  <2>7. QED
    BY <2>5, <2>6
<1>4. CASE CompleteServerRequest(w)
  <2>1. /\ WorkerGoes(w, Rest(w)) /\ UNCHANGED answers
        /\ serverRequests' = serverRequests \ {workers[w].request}
        /\ responded' = responded \ {workers[w].request}
    BY <1>4 DEF CompleteServerRequest
  <2>2. \A v \in Workers : Writing(v, r)' => Writing(v, r)
    BY <1>0, <2>1, WritingMoves DEF Rest
  <2>3. QED
    BY <1>1, <2>1, <2>2, AnswerFrame
<1>5. CASE WorkerClosed(w)
  <2>1. WorkerGoes(w, Rest(w)) /\ UNCHANGED <<answers, serverRequests, responded>>
    BY <1>5 DEF WorkerClosed, Open
  <2>2. \A v \in Workers : Writing(v, r)' => Writing(v, r)
    BY <1>0, <2>1, WritingMoves DEF Rest
  <2>3. QED
    BY <1>1, <2>1, <2>2, AnswerFrame
<1>6. QED
  BY <1>2, <1>3, <1>4, <1>5 DEF ResponseStep

\* A request becomes known when it is read, and a request is read once.
LEMMA AnswerOfRead ==
  ASSUME TypeInv, AskedInv, NEW r \in ServerRequests, AnswerOf(r), ReadMessage
  PROVE  AnswerOf(r)'
<1> DEFINE message == Head(stdout)
<1>1. /\ stdout # <<>> /\ stdout' = Tail(stdout) /\ UNCHANGED <<asked, answers, workers>>
      /\ message \in Messages
  BY HeadOfOutput DEF ReadMessage, OfReader, TypeInv
<1>2. Unread(r)' => Unread(r)
  BY <1>1, UnreadTail
<1>3. \A w \in Workers : Writing(w, r)' <=> Writing(w, r)
  BY <1>1 DEF Writing
<1>4. ASSUME r \in serverRequests' => r \in serverRequests,
             r \in serverRequests' \ responded' => r \in serverRequests \ responded
      PROVE  AnswerOf(r)'
  BY <1>1, <1>2, <1>3, <1>4, AnswerFrame
<1> HIDE DEF message
<1>5. CASE message.type = "response" /\ HandleResponse(message)
  BY <1>4, <1>5 DEF HandleResponse
<1>6. CASE message.type = "request" /\ HandleServerRequest(message)
  <2>1. CASE closeErr # Null \/ message.request \in serverRequests
    BY <1>4, <1>6, <2>1, CloseForgets DEF HandleServerRequest
  <2>2. CASE ~(closeErr # Null \/ message.request \in serverRequests)
    <3>1. serverRequests' = serverRequests \cup {message.request} /\ UNCHANGED responded
      BY <1>6, <2>2 DEF HandleServerRequest
    <3>2. CASE message.request = r
      <4>1. stdout[1] = RequestMessage(r) /\ 1 \in DOMAIN stdout
        <5>1. message = RequestMessage(r)
          BY <1>1, <1>6, <3>2 DEF Messages, RequestMessage
        <5>2. QED
          BY <1>1, <5>1, OutputTail DEF message
      <4>2. Unread(r)
        BY <4>1 DEF Unread
      <4>3. ~Unread(r)'
        <5>1. r \in asked' /\ \A k \in DOMAIN stdout : stdout[k] = RequestMessage(r) => k = 1
          BY <1>1, <4>1 DEF AskedInv
        <5>2. \A j \in DOMAIN stdout' : stdout'[j] # RequestMessage(r)
          BY <1>1, <5>1, OutputTail
        <5>3. QED
          BY <5>1, <5>2 DEF Unread, RequestMessage
      <4>4. QED
        BY <1>1, <1>3, <4>2, <4>3 DEF AnswerOf
    <3>3. CASE message.request # r
      BY <1>4, <3>1, <3>3
    <3>4. QED
      BY <3>2, <3>3
  <2>3. QED
    BY <2>1, <2>2
<1>7. CASE message.type = "started" /\ HandleStarted(message)
  BY <1>4, <1>7 DEF HandleStarted, Open
<1>8. CASE message.type = "resolved" /\ HandleResolved(message)
  BY <1>4, <1>8 DEF HandleResolved
<1>9. QED
  BY <1>5, <1>6, <1>7, <1>8 DEF ReadMessage, message

\* Steps that are not about the requests.
LEMMA RequestsFrame ==
  ASSUME TypeInv, [Next]_vars,
         \/ \E c \in Calls : CallStep(c)
         \/ CloseConnection \/ FinishClose \/ Consume \/ TakeForwarded
         \/ ReaderStep /\ ~ReadMessage
  PROVE  /\ UNCHANGED <<answers, workers>>
         /\ UNCHANGED <<serverRequests, responded>> \/ \E reason \in CloseReasons : Close(reason)
<1>1. ASSUME NEW c \in Calls, CallStep(c)
      PROVE  /\ UNCHANGED <<answers, workers>>
             /\ UNCHANGED <<serverRequests, responded>> \/ Close("deadline")
  BY <1>1 DEF CallStep, Register, WriteRequest, WriteRequestFails, ForgetRequest, TakeResult,
     Expire, SeeDone, CallClosed, OfCall, Open
<1>2. CASE CloseConnection \/ FinishClose \/ Consume \/ TakeForwarded
  BY <1>2, Reasons DEF CloseConnection, FinishClose, Consume, TakeForwarded, serverVars, Open
<1>3. CASE ReaderStep /\ ~ReadMessage
  BY <1>3, Reasons DEF ReaderStep, ReadEnd, Deliver, CloseOnMismatch, PutRequest,
     PutRequestClosed, PutNotification, ReaderStops, OfReader, Open
<1>4. QED
  BY <1>1, <1>2, <1>3, Reasons

\* Every step keeps it.
LEMMA AnswerStep ==
  ASSUME TypeInv, AskedInv, AnswerInv, [Next]_vars, NEW r \in ServerRequests
  PROVE  AnswerOf(r)'
<1>0. AnswerOf(r)
  BY AnswerParts
<1>1. CASE ReadMessage
  BY <1>0, <1>1, AnswerOfRead
<1>2. CASE ServerStep
  <2>1. UNCHANGED <<answers, workers, serverRequests, responded>>
    BY <1>2, ServerUnread DEF dispatcherVars
  <2>2. \A w \in Workers : Writing(w, r)' => Writing(w, r)
    BY <2>1 DEF Writing
  <2>3. QED
    BY <1>0, <1>2, <2>1, <2>2, ServerUnread, AnswerFrame
<1>3. ASSUME NEW w \in Workers, ResponseStep(w) PROVE AnswerOf(r)'
  BY <1>0, <1>3, AnswerOfResponse
<1>4. ASSUME UNCHANGED <<stdout, asked>> PROVE Unread(r)' <=> Unread(r)
  BY <1>4, UnreadFrame
<1>5. CASE \/ TakeRequest \/ RunProvider \/ OfferRequest \/ ForwardRequest \/ ServerLoopStops
           \/ \E w \in Responders : AnswerHeld(w)
  <2>1. UNCHANGED <<stdout, asked, answers, serverRequests, responded>>
    BY <1>5 DEF TakeRequest, RunProvider, OfferRequest, ForwardRequest, ServerLoopStops,
       AnswerHeld, OfWorker, Open
  <2>2. \A v \in Workers : Writing(v, r)' => Writing(v, r)
    <3>1. CASE TakeRequest
      <4>1. Head(requests) \in ServerRequests
        BY <3>1 DEF TakeRequest, TypeInv, DispatcherTypeOK
      <4>2. PICK pc \in WorkerLabels : Treats(Head(requests), pc) /\ pc # "write"
        BY <3>1, <4>1, TablesAreTotal DEF TakeRequest, WorkerLabels, Kinds
      <4>3. QED
        BY <4>1, <4>2, WritingMoves, WorkerNames DEF Treats
    <3>2. CASE RunProvider \/ OfferRequest \/ ForwardRequest \/ ServerLoopStops
      <4>1. PICK pc \in WorkerLabels : WorkerGoes(ServerLoop, pc) /\ pc # "write"
        BY <3>2 DEF RunProvider, OfferRequest, ForwardRequest, ServerLoopStops, WorkerLabels
      <4>2. QED
        BY <4>1, WritingMoves, WorkerNames
    <3>3. ASSUME NEW w \in Responders, AnswerHeld(w)
          PROVE  \A v \in Workers : Writing(v, r)' => Writing(v, r)
      <4>1. PICK q \in ServerRequests :
              workers' = [workers EXCEPT ![w] = [pc |-> "respond", request |-> q]]
        BY <3>3 DEF AnswerHeld, TypeInv, DispatcherTypeOK
      <4>2. "respond" \in WorkerLabels /\ w \in Workers
        BY WorkerNames DEF WorkerLabels
      <4>3. QED
        BY <4>1, <4>2, WritingMoves
    <3>4. QED
      BY <1>5, <3>1, <3>2, <3>3
  <2>3. QED
    BY <1>0, <1>4, <2>1, <2>2, AnswerFrame
<1>6. CASE \/ \E c \in Calls : CallStep(c)
           \/ CloseConnection \/ FinishClose \/ Consume \/ TakeForwarded
           \/ ReaderStep /\ ~ReadMessage
  <2>1. /\ UNCHANGED <<answers, workers>>
        /\ UNCHANGED <<serverRequests, responded>> \/ \E reason \in CloseReasons : Close(reason)
    BY <1>6, RequestsFrame
  <2>2. \A w \in Workers : Writing(w, r)' => Writing(w, r)
    BY <2>1 DEF Writing
  <2>3. CASE ReadMessage \/ ServerStep
    BY <1>1, <1>2, <2>3
  <2>4. CASE ~ReadMessage /\ ~ServerStep
    BY <1>0, <1>4, <2>1, <2>2, <2>4, OutputFrame, CloseForgets, AnswerFrame
  <2>5. QED
    BY <2>3, <2>4
<1>7. CASE UNCHANGED vars
  <2>1. UNCHANGED <<answers, workers, serverRequests, responded, stdout, asked>>
    BY <1>7 DEF vars, dispatcherVars, serverVars
  <2>2. \A w \in Workers : Writing(w, r)' => Writing(w, r)
    BY <2>1 DEF Writing
  <2>3. QED
    BY <1>0, <1>4, <2>1, <2>2, AnswerFrame
<1>8. QED
  BY <1>1, <1>2, <1>3, <1>5, <1>6, <1>7, WorkerNames DEF Next, ServerLoopStep

RequestsInv == BaseInv /\ AskedInv /\ AnswerInv

\* What has been asked and what has been answered holds in every state.
LEMMA RequestsInvariant == Spec => []RequestsInv
<1>1. Init => AskedInv /\ AnswerInv
  BY WorkerNames DEF Init, AskedInv, AnswerInv, Unread, Writing, Rest
<1>2. TypeInv /\ AskedInv /\ AnswerInv /\ [Next]_vars => AnswerInv'
  BY AnswerStep, AnswerParts
<1>3. BaseInv /\ AskedInv /\ AnswerInv /\ [Next]_vars => AskedInv' /\ AnswerInv'
  BY <1>2, AskedStep DEF BaseInv
<1>4. QED
  BY <1>1, <1>3, BaseInvariant, PTL DEF Spec, RequestsInv

\* The app server is sent at most one answer to each of its requests, however many
\* goroutines respond, and whatever it declares resolved meanwhile.
THEOREM AtMostOneAnswer == Spec => []AnsweredAtMostOnce
<1>1. RequestsInv => AnsweredAtMostOnce
  BY DEF RequestsInv, AnswerInv, AnsweredAtMostOnce
<1>2. QED
  BY <1>1, RequestsInvariant, PTL
-----------------------------------------------------------------------------
(* Unanswered requests *)

\* A request declared resolved by a message that is not yet read has been settled.
LEMMA SettledStep ==
  ASSUME TypeInv, SettledInv, [Next]_vars
  PROVE  SettledInv'
<1>1. CASE ReadMessage
  <2>1. stdout # <<>> /\ stdout' = Tail(stdout) /\ UNCHANGED settled
    BY <1>1 DEF ReadMessage, OfReader
  <2>2. QED
    BY <2>1, OutputTail DEF SettledInv
<1>2. ASSUME NEW c \in Calls, Announce(c) \/ Reply(c) PROVE SettledInv'
  <2>1. PICK message : Writes(message) /\ message.type # "resolved"
    <3>1. CASE Announce(c)
      <4>1. Announcement(c).type # "resolved"
        BY DEF Announcement
      <4>2. QED
        BY <3>1, <4>1 DEF Announce
    <3>2. CASE Reply(c)
      <4>1. PICK failed, id : Writes([type |-> "response", call |-> c, id |-> id, failed |-> failed])
        BY <3>2 DEF Reply
      <4>2. [type |-> "response", call |-> c, id |-> id, failed |-> failed].type # "resolved"
        OBVIOUS
      <4>3. QED
        BY <4>1, <4>2
    <3>3. QED
      BY <1>2, <3>1, <3>2
  <2>2. UNCHANGED settled
    BY <1>2 DEF Announce, Reply
  <2>3. QED
    BY <2>1, <2>2, OutputAppend DEF SettledInv
<1>3. ASSUME NEW q \in ServerRequests, Ask(q) PROVE SettledInv'
  <2>1. Writes(RequestMessage(q)) /\ UNCHANGED settled /\ RequestMessage(q).type # "resolved"
    BY <1>3 DEF Ask, RequestMessage
  <2>2. QED
    BY <2>1, OutputAppend DEF SettledInv
<1>4. ASSUME NEW q \in ServerRequests, Settle(q) PROVE SettledInv'
  <2>1. Writes([type |-> "resolved", request |-> q]) /\ settled' = settled \cup {q}
    BY <1>4 DEF Settle
  <2>2. QED
    BY <2>1, OutputAppend DEF SettledInv
<1>5. CASE ~ReadMessage /\ ~ServerStep
  BY <1>5, OutputFrame DEF SettledInv
<1>6. CASE Exit
  BY <1>6 DEF Exit, SettledInv
<1>7. QED
  BY <1>1, <1>2, <1>3, <1>4, <1>5, <1>6 DEF ServerStep

\* Steps that move no worker and begin no answer.
LEMMA HeldFrame ==
  ASSUME TypeInv, HeldInv, UNCHANGED <<workers, answers>>, held \subseteq held',
         closeErr' = Null => closeErr = Null /\ responded' \subseteq responded
  PROVE  HeldInv'
BY DEF HeldInv, Writing

\* A worker moves on with the request it has.
LEMMA HeldMove ==
  ASSUME TypeInv, HeldInv, NEW w \in Workers, NEW pc \in WorkerLabels, WorkerGoes(w, pc),
         held \subseteq held',
         w \in Responders => workers[w].pc # "idle" \/ pc = "idle",
         pc = "complete" => answers'[workers[w].request] # 0,
         \A v \in Workers : workers[v].pc = "complete" =>
           (answers[workers[v].request] # 0 => answers'[workers[v].request] # 0),
         closeErr' = Null => closeErr = Null,
         closeErr' = Null => \A r \in responded' :
           \/ answers'[r] # 0
           \/ /\ r \in responded
              /\ answers[r] # 0 => answers'[r] # 0
              /\ ~Writing(w, r)
           \/ pc = "write" /\ workers[w].request = r
  PROVE  HeldInv'
<1>1. workers \in [Workers -> [pc : WorkerLabels, request : ServerRequests \cup {Null}]]
  BY DEF TypeInv, DispatcherTypeOK
<1>2. /\ workers'[w].pc = pc /\ workers'[w].request = workers[w].request
      /\ \A v \in Workers : v # w => workers'[v] = workers[v]
  BY <1>1 DEF WorkerGoes
<1>3. \A v \in Responders : workers'[v].pc # "idle" => workers'[v].request \in held'
  <2>1. ASSUME NEW v \in Responders, workers'[v].pc # "idle"
        PROVE  workers'[v].request \in held'
    <3>1. v \in Workers /\ workers[v].pc # "idle"
      BY <1>2, <2>1, WorkerNames
    <3>2. workers[v].request \in held
      BY <3>1 DEF HeldInv
    <3>3. QED
      BY <1>2, <3>1, <3>2
  <2>2. QED
    BY <2>1
<1>4. \A v \in Workers : workers'[v].pc = "complete" => answers'[workers'[v].request] # 0
  <2>1. ASSUME NEW v \in Workers, workers'[v].pc = "complete"
        PROVE  answers'[workers'[v].request] # 0
    <3>1. CASE v = w
      BY <1>2, <2>1, <3>1
    <3>2. CASE v # w
      <4>1. workers'[v] = workers[v]
        BY <1>2, <3>2
      <4>2. answers[workers[v].request] # 0
        BY <2>1, <4>1 DEF HeldInv
      <4>3. QED
        BY <2>1, <4>1, <4>2
    <3>3. QED
      BY <3>1, <3>2
  <2>2. QED
    BY <2>1
<1>5. ASSUME closeErr' = Null, NEW r \in responded'
      PROVE  answers'[r] # 0 \/ \E v \in Workers : Writing(v, r)'
  <2>1. CASE pc = "write" /\ workers[w].request = r
    BY <1>2, <2>1 DEF Writing
  <2>2. CASE /\ r \in responded
             /\ answers[r] # 0 => answers'[r] # 0
             /\ ~Writing(w, r)
    <3>1. answers[r] # 0 \/ \E v \in Workers : Writing(v, r)
      BY <1>5, <2>2 DEF HeldInv
    <3>2. ASSUME NEW v \in Workers, Writing(v, r) PROVE Writing(v, r)'
      BY <1>2, <2>2, <3>2 DEF Writing
    <3>3. QED
      BY <2>2, <3>1, <3>2
  <2>3. QED
    BY <1>5, <2>1, <2>2
<1>6. QED
  BY <1>3, <1>4, <1>5 DEF HeldInv, Writing

\* A step of a response keeps what is said of the requests that are held.
LEMMA HeldOfResponse ==
  ASSUME TypeInv, ClosingInv, HeldInv, NEW w \in Workers, ResponseStep(w)
  PROVE  HeldInv'
<1>0. /\ {"write", "complete", "closing", "idle", "take"} \subseteq WorkerLabels
      /\ w \in Responders => w # ServerLoop /\ Rest(w) = "idle"
      /\ Rest(w) \in {"idle", "take"}
      /\ answers \in [ServerRequests -> Nat] /\ responded \subseteq ServerRequests
  BY NamesDiffer DEF WorkerLabels, Rest, TypeInv, DispatcherTypeOK
<1>1. CASE BeginResponse(w)
  <2>1. /\ UNCHANGED <<answers, closeErr, held>> /\ workers[w].pc = "respond"
        /\ IF workers[w].request \in serverRequests \ responded
           THEN WorkerGoes(w, "write") /\ responded' = responded \cup {workers[w].request}
           ELSE WorkerGoes(w, Rest(w)) /\ UNCHANGED responded
    BY <1>1 DEF BeginResponse
  <2>2. \A r : ~Writing(w, r)
    BY <2>1 DEF Writing
  <2>3. CASE workers[w].request \in serverRequests \ responded
    BY <1>0, <2>1, <2>2, <2>3, HeldMove
  <2>4. CASE workers[w].request \notin serverRequests \ responded
    BY <1>0, <2>1, <2>2, <2>4, HeldMove
  <2>5. QED
    BY <2>3, <2>4
<1>2. CASE WriteResponse(w)
  <2> DEFINE q == workers[w].request
  <2>1. /\ workers[w].pc = "write" /\ q \in ServerRequests /\ Answered(q)
        /\ WorkerGoes(w, "complete") /\ UNCHANGED <<closeErr, responded, held>>
    BY <1>2 DEF WriteResponse, Open, TypeInv, WorkersHold
  <2>2. answers'[q] # 0 /\ \A r \in ServerRequests : answers[r] # 0 => answers'[r] # 0
    BY <1>0, <2>1, AnswerTypes DEF TypeInv
  <2>3. \A r : Writing(w, r) => r = q
    BY DEF Writing
  <2> HIDE DEF q
  <2>4. \A v \in Workers : workers[v].pc = "complete" => workers[v].request \in ServerRequests
    BY DEF TypeInv, WorkersHold
  <2>5. \A r \in responded' :
           \/ answers'[r] # 0
           \/ r \in responded /\ (answers[r] # 0 => answers'[r] # 0) /\ ~Writing(w, r)
    BY <1>0, <2>1, <2>2, <2>3
  <2>6. answers'[workers[w].request] # 0
    BY <2>2 DEF q
  <2>7. QED
    BY <1>0, <2>1, <2>2, <2>4, <2>5, <2>6, HeldMove
<1>3. CASE WriteResponseFails(w)
  <2> DEFINE q == workers[w].request
  <2>1. /\ workers[w].pc = "write" /\ q \in ServerRequests
        /\ UNCHANGED answers \/ Answered(q)
        /\ WorkerGoes(w, "closing") /\ UNCHANGED held /\ closeErr' # Null
    BY <1>3, CloseCloses, Reasons DEF WriteResponseFails, TypeInv, WorkersHold
  <2>2. \A r \in ServerRequests : answers[r] # 0 => answers'[r] # 0
    BY <1>0, <2>1, AnswerTypes DEF TypeInv
  <2> HIDE DEF q
  <2>3. \A v \in Workers : workers[v].pc = "complete" => workers[v].request \in ServerRequests
    BY DEF TypeInv, WorkersHold
  <2>4. QED
    BY <1>0, <2>1, <2>2, <2>3, HeldMove
<1>4. CASE CompleteServerRequest(w)
  <2>1. /\ workers[w].pc = "complete" /\ WorkerGoes(w, Rest(w))
        /\ UNCHANGED <<answers, closeErr, held>> /\ responded' \subseteq responded
    BY <1>4 DEF CompleteServerRequest
  <2>2. \A r : ~Writing(w, r)
    BY <2>1 DEF Writing
  <2>3. QED
    BY <1>0, <2>1, <2>2, HeldMove
<1>5. CASE WorkerClosed(w)
  <2>1. /\ workers[w].pc = "closing" /\ WorkerGoes(w, Rest(w))
        /\ UNCHANGED <<answers, closeErr, held, responded>>
    BY <1>5 DEF WorkerClosed, Open
  <2>2. \A r : ~Writing(w, r)
    BY <2>1 DEF Writing
  <2>3. QED
    BY <1>0, <2>1, <2>2, HeldMove
<1>6. QED
  BY <1>1, <1>2, <1>3, <1>4, <1>5 DEF ResponseStep

\* The loop and the responders that take a request write nothing yet.
LEMMA HeldOfTaking ==
  ASSUME TypeInv, HeldInv, NEW w \in Workers, NEW pc \in WorkerLabels, NEW r \in ServerRequests,
         workers' = [workers EXCEPT ![w] = [pc |-> pc, request |-> r]],
         workers[w].pc # "write", pc # "complete", w \in Responders => r \in held,
         UNCHANGED <<answers, closeErr, responded, held>>
  PROVE  HeldInv'
<1>1. workers \in [Workers -> [pc : WorkerLabels, request : ServerRequests \cup {Null}]]
  BY DEF TypeInv, DispatcherTypeOK
<1>2. /\ workers'[w].pc = pc /\ workers'[w].request = r
      /\ \A v \in Workers : v # w => workers'[v] = workers[v]
  BY <1>1
<1>3. \A v \in Workers : \A q : Writing(v, q) => Writing(v, q)'
  BY <1>2 DEF Writing
<1>4. QED
  BY <1>2, <1>3, WorkerNames DEF HeldInv

\* Every step keeps that a held request has not been answered.
LEMMA HeldStep ==
  ASSUME BaseInv, HeldInv, [Next]_vars
  PROVE  HeldInv'
<1>0. TypeInv /\ ClosingInv
  BY DEF BaseInv
<1>c. closeErr' = Null => UNCHANGED <<closeErr, doomed>>
  BY <1>0, ClosedStays
<1>1. CASE ReadMessage
  <2>1. UNCHANGED <<workers, answers, held>>
    BY <1>1 DEF ReadMessage, OfReader
  <2>2. closeErr' = Null => responded' \subseteq responded
    BY <1>0, <1>1, CloseCloses, Reasons DEF ReadMessage, HandleResponse, HandleServerRequest,
       HandleStarted, HandleResolved, Open
  <2>3. QED
    BY <1>0, <1>c, <2>1, <2>2, HeldFrame
<1>2. CASE ServerStep \/ UNCHANGED vars
  <2>1. UNCHANGED <<workers, answers, held, closeErr, responded>>
    BY <1>2 DEF ServerStep, Announce, Reply, Ask, Settle, Exit, OfServer, vars, serverVars,
       dispatcherVars
  <2>2. QED
    BY <1>0, <2>1, HeldFrame
<1>3. CASE \/ \E c \in Calls : CallStep(c)
           \/ CloseConnection \/ FinishClose \/ Consume \/ TakeForwarded
           \/ ReaderStep /\ ~ReadMessage
  <2>1. /\ UNCHANGED <<answers, workers>>
        /\ UNCHANGED <<serverRequests, responded>> \/ \E reason \in CloseReasons : Close(reason)
    BY <1>0, <1>3, RequestsFrame
  <2>2. closeErr' = Null => closeErr = Null /\ responded' \subseteq responded
    BY <1>0, <1>c, <2>1, CloseCloses
  <2>3. held \subseteq held'
    BY <1>3 DEF CallStep, Register, WriteRequest, WriteRequestFails, ForgetRequest, TakeResult,
       Expire, SeeDone, CallClosed, OfCall, CloseConnection, FinishClose, Consume, TakeForwarded,
       ReaderStep, ReadEnd, Deliver, CloseOnMismatch, PutRequest, PutRequestClosed,
       PutNotification, ReaderStops, OfReader
  <2>4. QED
    BY <1>0, <2>1, <2>2, <2>3, HeldFrame
<1>4. ASSUME NEW w \in Workers, ResponseStep(w) PROVE HeldInv'
  BY <1>0, <1>4, HeldOfResponse
<1>5. CASE TakeRequest
  <2>1. Head(requests) \in ServerRequests
    BY <1>0, <1>5 DEF TakeRequest, TypeInv, DispatcherTypeOK
  <2>2. PICK pc \in WorkerLabels : Treats(Head(requests), pc) /\ pc # "complete"
    BY <1>5, <2>1, TablesAreTotal DEF TakeRequest, WorkerLabels, Kinds
  <2>3. UNCHANGED <<answers, closeErr, responded, held>> /\ workers[ServerLoop].pc = "take"
    BY <1>5 DEF TakeRequest, Open
  <2>4. QED
    BY <1>0, <2>1, <2>2, <2>3, HeldOfTaking, WorkerNames, NamesDiffer DEF Treats
<1>6. CASE RunProvider \/ OfferRequest \/ ForwardRequest \/ ServerLoopStops
  <2>1. PICK pc \in WorkerLabels : WorkerGoes(ServerLoop, pc) /\ pc # "complete"
    BY <1>6 DEF RunProvider, OfferRequest, ForwardRequest, ServerLoopStops, WorkerLabels
  <2>2. /\ UNCHANGED <<answers, closeErr, responded>> /\ held \subseteq held'
        /\ workers[ServerLoop].pc # "write"
    BY <1>6 DEF RunProvider, OfferRequest, ForwardRequest, ServerLoopStops, Open
  <2>3. \A r : ~Writing(ServerLoop, r)
    BY <2>2 DEF Writing
  <2>4. ServerLoop \in Workers /\ ServerLoop \notin Responders
    BY WorkerNames, NamesDiffer
  <2>5. QED
    BY <1>0, <2>1, <2>2, <2>3, <2>4, HeldMove
<1>7. ASSUME NEW w \in Responders, AnswerHeld(w) PROVE HeldInv'
  <2>1. PICK r \in held : workers' = [workers EXCEPT ![w] = [pc |-> "respond", request |-> r]]
    BY <1>7 DEF AnswerHeld
  <2>2. /\ r \in ServerRequests /\ w \in Workers /\ "respond" \in WorkerLabels
        /\ workers[w].pc = "idle" /\ UNCHANGED <<answers, closeErr, responded, held>>
    BY <1>0, <1>7, WorkerNames DEF AnswerHeld, Open, WorkerLabels, TypeInv, DispatcherTypeOK
  <2>3. QED
    BY <1>0, <2>1, <2>2, HeldOfTaking
<1>8. QED
  BY <1>1, <1>2, <1>3, <1>4, <1>5, <1>6, <1>7, WorkerNames DEF Next, ServerLoopStep

\* An element of a channel after a receive and after a send.
LEMMA InTail ==
  ASSUME NEW S, NEW s \in Seq(S), s # <<>>, NEW j \in DOMAIN s, s[j] # Head(s)
  PROVE  \E k \in DOMAIN Tail(s) : Tail(s)[k] = s[j]
<1>1. j # 1 /\ j - 1 \in DOMAIN Tail(s) /\ Tail(s)[j - 1] = s[j]
  OBVIOUS
<1>2. QED
  BY <1>1

\* What a sequence holds with one element more.
LEMMA InAppend ==
  ASSUME NEW S, NEW s \in Seq(S), NEW e
  PROVE  /\ \A j \in DOMAIN s : j \in DOMAIN Append(s, e) /\ Append(s, e)[j] = s[j]
         /\ \E j \in DOMAIN Append(s, e) : Append(s, e)[j] = e
<1>1. Len(s) + 1 \in DOMAIN Append(s, e) /\ Append(s, e)[Len(s) + 1] = e
  OBVIOUS
<1>2. \A j \in DOMAIN s : j \in DOMAIN Append(s, e) /\ Append(s, e)[j] = s[j]
  OBVIOUS
<1>3. QED
  BY <1>1, <1>2

\* The places a request can be in.
InReader(r)    == reader.pc = "put request" /\ reader.message.request = r
InRequests(r)  == \E j \in DOMAIN requests : requests[j] = r
InForwarded(r) == \E j \in DOMAIN forwarded : forwarded[j] = r
InLoop(r)      == workers[ServerLoop].pc \notin {"take", "stopped"} /\ workers[ServerLoop].request = r
Owned(r)       == r \in serverRequests /\ HasOwner(r)

\* The five places an unanswered request may be in.
LEMMA Places ==
  ASSUME NEW r
  PROVE  /\ HasOwner(r) <=> InReader(r) \/ InRequests(r) \/ InForwarded(r) \/ InLoop(r) \/ r \in held
         /\ HasOwner(r)' <=>
              InReader(r)' \/ InRequests(r)' \/ InForwarded(r)' \/ InLoop(r)' \/ r \in held'
BY DEF HasOwner, InReader, InRequests, InForwarded, InLoop

\* Only the reader takes a message from the output.
LEMMA ReadMeansRead ==
  ASSUME TypeInv, NEW r
  PROVE  /\ r \in ReadRequests <=> r \in asked /\ ~Unread(r)
         /\ r \in ReadRequests' <=> r \in asked' /\ ~Unread(r)'
BY DEF ReadRequests, Unread, RequestMessage

\* The worker and its request after a step of another.
LEMMA LoopFrame ==
  ASSUME TypeInv, NEW r
  PROVE  /\ UNCHANGED workers => (InLoop(r)' <=> InLoop(r))
         /\ UNCHANGED reader => (InReader(r)' <=> InReader(r))
         /\ UNCHANGED requests => (InRequests(r)' <=> InRequests(r))
         /\ UNCHANGED forwarded => (InForwarded(r)' <=> InForwarded(r))
BY DEF InLoop, InReader, InRequests, InForwarded

\* The loop moves a request from one place to the next.
LEMMA LoopMoves ==
  ASSUME TypeInv, NEW r, NEW w \in Workers, NEW pc \in WorkerLabels, WorkerGoes(w, pc)
  PROVE  /\ w # ServerLoop => (InLoop(r)' <=> InLoop(r))
         /\ w = ServerLoop =>
              (InLoop(r)' <=> pc \notin {"take", "stopped"} /\ workers[w].request = r)
<1>1. workers \in [Workers -> [pc : WorkerLabels, request : ServerRequests \cup {Null}]]
  BY DEF TypeInv, DispatcherTypeOK
<1>2. QED
  BY <1>1, WorkerNames DEF WorkerGoes, InLoop

\* On an open connection: what the reader does with a request it reads.
LEMMA OwnedOfRead ==
  ASSUME BaseInv, SettledInv, ReadMessage, closeErr' = Null,
         NEW r \in ServerRequests, r \in ReadRequests', r \notin settled',
         r \in ReadRequests => Owned(r)
  PROVE  Owned(r)'
<1> DEFINE message == Head(stdout)
<1>0. TypeInv /\ ClosingInv
  BY DEF BaseInv
<1>1. /\ stdout # <<>> /\ stdout' = Tail(stdout) /\ reader.pc = "read"
      /\ UNCHANGED <<asked, settled, workers, requests, forwarded, held>>
      /\ message \in Messages /\ message = stdout[1] /\ 1 \in DOMAIN stdout
  BY <1>0, HeadOfOutput, OutputTail DEF ReadMessage, OfReader, TypeInv
<1> HIDE DEF message
<1>2. message # RequestMessage(r) => r \in ReadRequests
  BY <1>0, <1>1, UnreadTail, ReadMeansRead DEF message
<1>3. ASSUME message # RequestMessage(r), r \in serverRequests => r \in serverRequests'
      PROVE  Owned(r)'
  <2>1. r \in serverRequests /\ HasOwner(r) /\ ~InReader(r)
    BY <1>1, <1>2, <1>3 DEF Owned, InReader
  <2>2. QED
    BY <1>0, <1>1, <1>3, <2>1, LoopFrame, Places DEF Owned
<1>4. CASE message.type = "response" /\ HandleResponse(message)
  BY <1>3, <1>4 DEF HandleResponse, RequestMessage
<1>5. CASE message.type = "request" /\ HandleServerRequest(message)
  <2>1. /\ reader' = [reader EXCEPT !.pc = "put request", !.message = message]
        /\ serverRequests' = serverRequests \cup {message.request}
    BY <1>0, <1>5, CloseCloses, Reasons DEF HandleServerRequest
  <2>2. CASE message.request = r
    <3>1. InReader(r)'
      BY <1>0, <2>1, <2>2 DEF InReader, TypeInv, DispatcherTypeOK
    <3>2. QED
      BY <2>1, <2>2, <3>1, Places DEF Owned
  <2>3. CASE message.request # r
    BY <1>3, <2>1, <2>3 DEF RequestMessage
  <2>4. QED
    BY <2>2, <2>3
<1>6. CASE message.type = "started" /\ HandleStarted(message)
  BY <1>3, <1>6 DEF HandleStarted, Open, RequestMessage
<1>7. CASE message.type = "resolved" /\ HandleResolved(message)
  <2>1. message.request \in settled
    BY <1>1, <1>7 DEF SettledInv
  <2>2. serverRequests' = serverRequests \ {message.request} /\ message # RequestMessage(r)
    BY <1>7 DEF HandleResolved, RequestMessage
  <2>3. QED
    BY <1>1, <1>3, <2>1, <2>2
<1>8. QED
  BY <1>4, <1>5, <1>6, <1>7 DEF ReadMessage, message

\* The reader's steps lose no request.
LEMMA OwnedOfReader ==
  ASSUME BaseInv, ReaderStep, ~ReadMessage, closeErr' = Null, closeErr = Null,
         NEW r \in ServerRequests, Owned(r)
  PROVE  Owned(r)'
<1>0. TypeInv /\ ClosingInv
  BY DEF BaseInv
<1>1. UNCHANGED <<workers, forwarded, held>> /\ ~done
  BY <1>0 DEF ReaderStep, ReadEnd, Deliver, CloseOnMismatch, PutRequest, PutRequestClosed,
     PutNotification, ReaderStops, OfReader, ClosingInv
<1>2. UNCHANGED serverRequests
  BY <1>0, CloseCloses, Reasons DEF ReaderStep, ReadEnd, Deliver, CloseOnMismatch, PutRequest,
     PutRequestClosed, PutNotification, ReaderStops, Open
<1>3. InRequests(r) \/ InReader(r) => InRequests(r)' \/ InReader(r)'
  <2>1. CASE PutRequest
    <3>1. requests \in Seq(ServerRequests) /\ requests' = Append(requests, reader.message.request)
      BY <1>0, <2>1 DEF PutRequest, TypeInv, DispatcherTypeOK
    <3>2. /\ \A j \in DOMAIN requests : j \in DOMAIN requests' /\ requests'[j] = requests[j]
          /\ \E j \in DOMAIN requests' : requests'[j] = reader.message.request
      BY <3>1, InAppend
    <3>3. QED
      BY <3>2 DEF InRequests, InReader
  <2>2. CASE ~PutRequest
    <3>1. UNCHANGED requests /\ reader.pc # "put request"
      BY <1>0, <1>1, <2>2, CloseCloses, Reasons DEF ReaderStep, ReadEnd, Deliver, CloseOnMismatch,
         PutRequestClosed, PutNotification, ReaderStops
    <3>2. QED
      BY <1>0, <3>1, LoopFrame DEF InReader
  <2>3. QED
    BY <2>1, <2>2
<1>4. QED
  BY <1>0, <1>1, <1>2, <1>3, LoopFrame, Places DEF Owned

\* The loop's steps lose no request.
LEMMA OwnedOfLoop ==
  ASSUME BaseInv, closeErr = Null, NEW r \in ServerRequests, Owned(r),
         \/ TakeRequest \/ RunProvider \/ OfferRequest \/ ForwardRequest \/ ServerLoopStops
         \/ TakeForwarded
  PROVE  Owned(r)'
<1>0. /\ TypeInv /\ ~done /\ ServerLoop \in Workers
      /\ workers \in [Workers -> [pc : WorkerLabels, request : ServerRequests \cup {Null}]]
      /\ requests \in Seq(ServerRequests) /\ forwarded \in Seq(ServerRequests)
  BY WorkerNames DEF BaseInv, ClosingInv, TypeInv, DispatcherTypeOK
<1>1. UNCHANGED <<serverRequests, reader>>
  BY DEF TakeRequest, RunProvider, OfferRequest, ForwardRequest, ServerLoopStops, TakeForwarded,
     OfWorker, Open
<1>2. CASE TakeRequest
  <2>1. Head(requests) \in ServerRequests /\ requests # <<>> /\ requests' = Tail(requests)
    BY <1>0, <1>2 DEF TakeRequest
  <2>2. PICK pc \in WorkerLabels : Treats(Head(requests), pc) /\ pc \notin {"take", "stopped"}
    BY <1>2, <2>1, TablesAreTotal DEF TakeRequest, WorkerLabels, Kinds
  <2>3. Head(requests) = r => InLoop(r)'
    BY <1>0, <2>2 DEF Treats, InLoop
  <2>4. InRequests(r) /\ Head(requests) # r => InRequests(r)'
    BY <1>0, <2>1, InTail DEF InRequests
  <2>5. UNCHANGED <<forwarded, held>> /\ ~InLoop(r)
    BY <1>2 DEF TakeRequest, InLoop
  <2>6. QED
    BY <1>0, <1>1, <2>3, <2>4, <2>5, LoopFrame, Places DEF Owned
<1>3. CASE RunProvider
  <2>1. WorkerGoes(ServerLoop, "respond") /\ "respond" \in WorkerLabels
    BY <1>0, <1>3 DEF RunProvider, WorkerLabels
  <2>2. InLoop(r) => InLoop(r)'
    BY <1>0, <2>1, LoopMoves DEF InLoop
  <2>3. UNCHANGED <<requests, forwarded, held>>
    BY <1>3 DEF RunProvider
  <2>4. QED
    BY <1>0, <1>1, <2>2, <2>3, LoopFrame, Places DEF Owned
<1>4. CASE OfferRequest
  <2>1. UNCHANGED <<requests, forwarded>> /\ held \subseteq held'
    BY <1>4 DEF OfferRequest
  <2>2. InLoop(r) => InLoop(r)' \/ r \in held'
    <3>1. CASE held' = held \cup {workers[ServerLoop].request}
      BY <3>1 DEF InLoop
    <3>2. CASE WorkerGoes(ServerLoop, "forward")
      BY <1>0, <3>2, LoopMoves DEF InLoop, WorkerLabels
    <3>3. QED
      BY <1>4, <3>1, <3>2 DEF OfferRequest
  <2>3. QED
    BY <1>0, <1>1, <2>1, <2>2, LoopFrame, Places DEF Owned
<1>5. CASE ForwardRequest
  <2>1. UNCHANGED <<requests, held>> /\ forwarded' = Append(forwarded, workers[ServerLoop].request)
    BY <1>0, <1>5 DEF ForwardRequest
  <2>2. InLoop(r) \/ InForwarded(r) => InForwarded(r)'
    BY <1>0, <2>1, InAppend, SMTT(30) DEF InLoop, InForwarded
  <2>3. QED
    BY <1>0, <1>1, <2>1, <2>2, LoopFrame, Places DEF Owned
<1>6. CASE ServerLoopStops
  <2>1. UNCHANGED <<requests, forwarded, held>> /\ ~InLoop(r)
    BY <1>6 DEF ServerLoopStops, InLoop
  <2>2. QED
    BY <1>0, <1>1, <2>1, LoopFrame, Places DEF Owned
<1>7. CASE TakeForwarded
  <2>1. /\ forwarded # <<>> /\ forwarded' = Tail(forwarded) /\ held' = held \cup {Head(forwarded)}
        /\ UNCHANGED <<requests, workers>>
    BY <1>7 DEF TakeForwarded
  <2>2. InForwarded(r) => InForwarded(r)' \/ r \in held'
    BY <1>0, <2>1, InTail DEF InForwarded
  <2>3. QED
    BY <1>0, <1>1, <2>1, <2>2, LoopFrame, Places DEF Owned
<1>8. QED
  BY <1>2, <1>3, <1>4, <1>5, <1>6, <1>7

\* A worker that gives a request up has seen that it is answered, or that another
\* answers it, who holds it.
LEMMA OwnedOfResponse ==
  ASSUME BaseInv, HeldInv, closeErr = Null, closeErr' = Null, NEW r \in ServerRequests, Owned(r),
         answers[r] = 0, answers'[r] = 0, NEW w \in Workers, ResponseStep(w)
  PROVE  Owned(r)'
<1>0. TypeInv /\ ClosingInv /\ ~done /\ UNCHANGED <<reader, requests, forwarded, held>>
  BY DEF BaseInv, ClosingInv, ResponseStep, BeginResponse, WriteResponse, WriteResponseFails,
     CompleteServerRequest, WorkerClosed, OfWorker
<1>1. {"write", "complete", "closing", "idle", "take"} \subseteq WorkerLabels /\ Rest(w) \in WorkerLabels
  BY WorkerNames DEF WorkerLabels
<1>2. ASSUME r \in serverRequests', InLoop(r) => InLoop(r)' \/ r \in held
      PROVE  Owned(r)'
  BY <1>0, <1>2, LoopFrame, Places DEF Owned
<1>3. CASE BeginResponse(w)
  <2>1. UNCHANGED serverRequests
    BY <1>3 DEF BeginResponse
  <2>2. CASE workers[w].request \in serverRequests \ responded
    <3>1. WorkerGoes(w, "write")
      BY <1>3, <2>2 DEF BeginResponse
    <3>2. InLoop(r) => InLoop(r)'
      BY <1>0, <1>1, <3>1, LoopMoves DEF InLoop
    <3>3. QED
      BY <1>2, <2>1, <3>2 DEF Owned
  <2>3. CASE workers[w].request \notin serverRequests \ responded
    <3>1. WorkerGoes(w, Rest(w)) /\ workers[w].pc = "respond"
      BY <1>3, <2>3 DEF BeginResponse
    <3>2. CASE w = ServerLoop /\ workers[w].request = r
      <4>1. r \in responded
        BY <2>3, <3>2 DEF Owned
      <4>2. PICK v \in Workers : Writing(v, r)
        BY <4>1 DEF HeldInv
      <4>3. v # ServerLoop /\ v \in Responders /\ workers[v].pc # "idle" /\ workers[v].request = r
        BY <3>1, <3>2, <4>2 DEF Writing, Workers
      <4>4. r \in held
        BY <4>3 DEF HeldInv
      <4>5. QED
        BY <1>2, <2>1, <4>4 DEF Owned
    <3>3. CASE ~(w = ServerLoop /\ workers[w].request = r)
      <4>1. InLoop(r) => InLoop(r)'
        BY <1>0, <1>1, <3>1, <3>3, LoopMoves DEF InLoop
      <4>2. QED
        BY <1>2, <2>1, <4>1 DEF Owned
    <3>4. QED
      BY <3>2, <3>3
  <2>4. QED
    BY <2>2, <2>3
<1>4. CASE WriteResponse(w)
  <2>1. WorkerGoes(w, "complete") /\ UNCHANGED serverRequests
    BY <1>4 DEF WriteResponse, Open
  <2>2. InLoop(r) => InLoop(r)'
    BY <1>0, <1>1, <2>1, LoopMoves DEF InLoop
  <2>3. QED
    BY <1>2, <2>1, <2>2 DEF Owned
<1>5. CASE WriteResponseFails(w)
  BY <1>0, <1>5, CloseCloses, Reasons DEF WriteResponseFails
<1>6. CASE CompleteServerRequest(w)
  <2>1. /\ WorkerGoes(w, Rest(w)) /\ workers[w].pc = "complete"
        /\ serverRequests' = serverRequests \ {workers[w].request}
    BY <1>6 DEF CompleteServerRequest
  <2>2. workers[w].request # r
    BY <2>1 DEF HeldInv
  <2>3. InLoop(r) => InLoop(r)'
    BY <1>0, <1>1, <2>1, <2>2, LoopMoves DEF InLoop
  <2>4. QED
    BY <1>2, <2>1, <2>2, <2>3 DEF Owned
<1>7. CASE WorkerClosed(w)
  BY <1>0, <1>7 DEF WorkerClosed
<1>8. QED
  BY <1>3, <1>4, <1>5, <1>6, <1>7 DEF ResponseStep

\* What the app server writes reads no request.
LEMMA ServerReads ==
  ASSUME TypeInv, ServerStep, NEW r \in ServerRequests, r \in ReadRequests', r \notin settled'
  PROVE  r \in ReadRequests /\ r \notin settled
<1>1. r \notin settled
  BY DEF ServerStep, Announce, Reply, Ask, Settle, Exit
<1>2. r \in asked' /\ ~Unread(r)'
  BY ReadMeansRead
<1>3. CASE Exit
  BY <1>2, <1>3, UnreadFrame, ReadMeansRead DEF Exit
<1>4. ASSUME NEW q \in ServerRequests, Ask(q) PROVE r \in ReadRequests
  <2>1. Writes(RequestMessage(q)) /\ asked' = asked \cup {q}
    BY <1>4 DEF Ask, RequestMessage
  <2>2. q # r
    <3>1. Unread(q)'
      BY <2>1, OutputAppend DEF Unread, RequestMessage
    <3>2. QED
      BY <1>2, <3>1
  <2>3. RequestMessage(q) # RequestMessage(r)
    BY <2>2 DEF RequestMessage
  <2>4. Unread(r)' <=> Unread(r)
    BY <2>1, <2>2, <2>3, UnreadAppend
  <2>5. QED
    BY <1>2, <2>1, <2>2, <2>4, ReadMeansRead
<1>5. ASSUME NEW message, Writes(message), UNCHANGED asked, message # RequestMessage(r)
      PROVE  r \in ReadRequests
  BY <1>2, <1>5, UnreadAppend, ReadMeansRead
<1>6. QED
  BY <1>1, <1>3, <1>4, <1>5, ServerWrites

\* Every step keeps that an unanswered request is in one of its places.
LEMMA OwnerStep ==
  ASSUME BaseInv, OwnerInv, [Next]_vars
  PROVE  OwnerInv'
<1>0. TypeInv /\ ClosingInv /\ SettledInv /\ HeldInv
  BY DEF BaseInv, OwnerInv
<1>1. SettledInv' /\ HeldInv'
  BY <1>0, SettledStep, HeldStep
<1>2. ASSUME closeErr' = Null, NEW r \in ServerRequests, r \in ReadRequests', r \notin settled',
             answers'[r] = 0
      PROVE  Owned(r)'
  <2>1. closeErr = Null
    BY <1>0, <1>2, ClosedStays
  <2>2. r \in ReadRequests /\ r \notin settled /\ answers[r] = 0 => Owned(r)
    BY <2>1 DEF OwnerInv, UnansweredRequestHasOwner, Owned
  <2>3. CASE ReadMessage
    BY <1>0, <1>2, <2>2, <2>3, OwnedOfRead DEF ReadMessage, OfReader
  <2>4. CASE ServerStep
    <3>1. UNCHANGED dispatcherVars /\ UNCHANGED answers
      BY <1>0, <2>4, ServerUnread
    <3>2. Owned(r)
      BY <1>0, <1>2, <2>2, <2>4, <3>1, ServerReads
    <3>3. QED
      BY <3>1, <3>2 DEF dispatcherVars, Owned, HasOwner
  <2>5. CASE ~ReadMessage /\ ~ServerStep
    <3>1. UNCHANGED <<stdout, asked, settled>>
      BY <2>5, OutputFrame
    <3>2. r \in ReadRequests /\ r \notin settled
      BY <1>2, <3>1 DEF ReadRequests
    <3>3. ASSUME answers[r] = 0 PROVE Owned(r)
      BY <2>2, <3>2, <3>3
    <3>4. ASSUME NEW c \in Calls, CallStep(c) PROVE Owned(r)'
      <4>1. UNCHANGED <<serverRequests, reader, requests, forwarded, workers, held, answers>>
        BY <1>0, <1>2, <3>4, CloseCloses, Reasons DEF CallStep, Register, WriteRequest,
           WriteRequestFails, ForgetRequest, TakeResult, Expire, SeeDone, CallClosed, OfCall, Open
      <4>2. QED
        BY <1>2, <3>3, <4>1 DEF Owned, HasOwner
    <3>5. CASE CloseConnection \/ FinishClose \/ Consume \/ UNCHANGED vars
      <4>1. UNCHANGED <<serverRequests, reader, requests, forwarded, workers, held, answers>>
        BY <1>0, <1>2, <3>5, CloseCloses, Reasons DEF CloseConnection, FinishClose, Consume,
           serverVars, vars, dispatcherVars
      <4>2. QED
        BY <1>2, <3>3, <4>1 DEF Owned, HasOwner
    <3>6. CASE ReaderStep
      <4>1. UNCHANGED answers
        BY <1>0, <2>5, <3>6, RequestsFrame
      <4>2. QED
        BY <1>2, <2>1, <2>5, <3>3, <3>6, <4>1, OwnedOfReader
    <3>7. CASE \/ TakeRequest \/ RunProvider \/ OfferRequest \/ ForwardRequest \/ ServerLoopStops
               \/ TakeForwarded
      <4>1. UNCHANGED answers
        BY <3>7 DEF TakeRequest, RunProvider, OfferRequest, ForwardRequest, ServerLoopStops,
           TakeForwarded
      <4>2. QED
        BY <1>2, <2>1, <3>3, <3>7, <4>1, OwnedOfLoop
    <3>8. ASSUME NEW w \in Responders, AnswerHeld(w) PROVE Owned(r)'
      <4>1. /\ UNCHANGED <<serverRequests, reader, requests, forwarded, held, answers>>
            /\ workers'[ServerLoop] = workers[ServerLoop]
        BY <1>0, <3>8, NamesDiffer, WorkerNames DEF AnswerHeld, Open, OfWorker, TypeInv,
           DispatcherTypeOK
      <4>2. QED
        BY <1>2, <3>3, <4>1 DEF Owned, HasOwner
    <3>9. ASSUME NEW w \in Workers, ResponseStep(w) PROVE Owned(r)'
      <4>1. answers[r] = 0
        <5>1. /\ answers[r] \in Nat
              /\ \/ UNCHANGED answers
                 \/ workers[w].request \in ServerRequests /\ Answered(workers[w].request)
          BY <1>0, <3>9 DEF ResponseStep, BeginResponse, WriteResponse, WriteResponseFails,
             CompleteServerRequest, WorkerClosed, TypeInv, DispatcherTypeOK, WorkersHold
        <5>2. QED
          BY <1>0, <1>2, <5>1, AnswerTypes DEF TypeInv
      <4>2. QED
        BY <1>0, <1>2, <2>1, <3>3, <3>9, <4>1, OwnedOfResponse
    <3>10. QED
      BY <2>5, <3>4, <3>5, <3>6, <3>7, <3>8, <3>9, WorkerNames DEF Next, ServerLoopStep
  <2>6. QED
    BY <2>3, <2>4, <2>5
<1>3. TypeInv'
  BY <1>0, TypeStep
<1>4. ReadRequests' \subseteq ServerRequests
  BY <1>3 DEF ReadRequests, TypeInv, DispatcherTypeOK
<1>5. UnansweredRequestHasOwner'
  BY <1>2, <1>4 DEF UnansweredRequestHasOwner, Owned
<1>6. QED
  BY <1>1, <1>5 DEF OwnerInv

\* On an open connection a request that was read, not answered and not declared
\* resolved is known to the dispatcher, and someone has it to answer it.
THEOREM UnansweredIsOwned == Spec => []UnansweredRequestHasOwner
<1>1. Init => OwnerInv
  BY NamesDiffer DEF Init, OwnerInv, SettledInv, HeldInv, UnansweredRequestHasOwner, ReadRequests,
     Workers, Rest
<1>2. BaseInv /\ OwnerInv /\ [Next]_vars => OwnerInv'
  BY OwnerStep
<1>3. OwnerInv => UnansweredRequestHasOwner
  BY DEF OwnerInv
<1>4. QED
  BY <1>1, <1>2, <1>3, BaseInvariant, PTL DEF Spec
-----------------------------------------------------------------------------
(* Mismatches *)

\* What the app server was sent, and its contradictions, are not forgotten; it
\* announces what it was sent.
LEMMA ServerRemembers ==
  ASSUME TypeInv, [Next]_vars
  PROVE  /\ received \subseteq received' /\ conflicting \subseteq conflicting'
         /\ announced' \subseteq announced \cup received
<1>1. CASE ServerStep
  BY <1>1 DEF ServerStep, Announce, Reply, Ask, Settle, Exit, OfServer
<1>2. CASE ReadMessage
  BY <1>2 DEF ReadMessage, OfReader
<1>3. CASE ~ServerStep /\ ~ReadMessage
  <2>1. UNCHANGED <<announced, conflicting>>
    BY <1>3, OutputFrame
  <2>2. ASSUME NEW c \in Calls, CallStep(c) PROVE received \subseteq received'
    BY <2>2 DEF CallStep, Register, WriteRequest, WriteRequestFails, ForgetRequest, TakeResult,
       Expire, SeeDone, CallClosed
  <2>3. CASE CloseConnection \/ FinishClose \/ Consume \/ UNCHANGED vars \/ ReaderStep
    BY <1>3, <2>3 DEF CloseConnection, FinishClose, Consume, serverVars, vars, ReaderStep, ReadEnd,
       Deliver, CloseOnMismatch, PutRequest, PutRequestClosed, PutNotification, ReaderStops, OfReader
  <2>4. CASE \/ ServerLoopStep \/ TakeForwarded
             \/ \E w \in Responders : AnswerHeld(w) \/ ResponseStep(w)
    BY <2>4 DEF ServerLoopStep, TakeRequest, RunProvider, OfferRequest, ForwardRequest,
       ServerLoopStops, TakeForwarded, AnswerHeld, ResponseStep, BeginResponse, WriteResponse,
       WriteResponseFails, CompleteServerRequest, WorkerClosed, OfWorker
  <2>5. QED
    BY <1>3, <2>1, <2>2, <2>3, <2>4 DEF Next
<1>4. QED
  BY <1>1, <1>2, <1>3

\* Only the reader's steps touch the reader.
LEMMA ReaderAlone ==
  ASSUME [Next]_vars, ~ReaderStep
  PROVE  UNCHANGED reader
<1>1. ASSUME NEW c \in Calls, CallStep(c) PROVE UNCHANGED reader
  BY <1>1 DEF CallStep, Register, WriteRequest, WriteRequestFails, ForgetRequest, TakeResult,
     Expire, SeeDone, CallClosed, OfCall
<1>2. CASE CloseConnection \/ FinishClose \/ Consume \/ UNCHANGED vars \/ ServerStep
  BY <1>2 DEF CloseConnection, FinishClose, Consume, vars, ServerStep, Announce, Reply, Ask, Settle,
     Exit, OfServer, dispatcherVars
<1>3. CASE \/ ServerLoopStep \/ TakeForwarded
           \/ \E w \in Responders : AnswerHeld(w) \/ ResponseStep(w)
  BY <1>3 DEF ServerLoopStep, TakeRequest, RunProvider, OfferRequest, ForwardRequest,
     ServerLoopStops, TakeForwarded, AnswerHeld, ResponseStep, BeginResponse, WriteResponse,
     WriteResponseFails, CompleteServerRequest, WorkerClosed, OfWorker
<1>4. QED
  BY <1>1, <1>2, <1>3 DEF Next

\* A message once honest stays so.
LEMMA HonestStays ==
  ASSUME received \subseteq received', conflicting \subseteq conflicting',
         NEW message, Honest(message)
  PROVE  Honest(message)'
BY DEF Honest, LifecycleID, LifecycleThread, Announcement

\* Every message of the output is honest, as is the answer the reader delivers.
LEMMA HonestOutput ==
  ASSUME TypeInv, MatchInv, [Next]_vars
  PROVE  (\A j \in DOMAIN stdout : Honest(stdout[j]))'
<1>0. received \subseteq received' /\ conflicting \subseteq conflicting'
  BY ServerRemembers
<1>1. \A message : Honest(message) => Honest(message)'
  BY <1>0, HonestStays
<1>2. \A j \in DOMAIN stdout : Honest(stdout[j])
  BY DEF MatchInv
<1>3. CASE ReadMessage
  <2>1. stdout # <<>> /\ stdout' = Tail(stdout)
    BY <1>3 DEF ReadMessage
  <2>2. \A j \in DOMAIN stdout' : j + 1 \in DOMAIN stdout /\ stdout'[j] = stdout[j + 1]
    BY <2>1, OutputTail
  <2>3. QED
    BY <1>0, <1>2, <2>2 DEF Honest, LifecycleID, LifecycleThread, Announcement
<1>4. ASSUME NEW message, Writes(message), Honest(message)'
      PROVE  (\A j \in DOMAIN stdout : Honest(stdout[j]))'
  <2>1. \A j \in DOMAIN stdout' : \/ j \in DOMAIN stdout /\ stdout'[j] = stdout[j]
                                  \/ stdout'[j] = message
    BY <1>4, OutputAppend
  <2>2. QED
    BY <1>0, <1>2, <1>4, <2>1 DEF Honest, LifecycleID, LifecycleThread, Announcement
<1>5. ASSUME NEW c \in Calls, Announce(c) PROVE (\A j \in DOMAIN stdout : Honest(stdout[j]))'
  <2>1. Writes(Announcement(c)) /\ c \in received
    BY <1>5 DEF Announce
  <2>2. Announcement(c).type = "started"
    BY DEF Announcement
  <2>3. Honest(Announcement(c))
    BY <2>1, <2>2 DEF Honest
  <2>4. QED
    BY <1>1, <1>4, <2>1, <2>3
<1>6. ASSUME NEW c \in Calls, Reply(c) PROVE (\A j \in DOMAIN stdout : Honest(stdout[j]))'
  <2>1. PICK failed \in BOOLEAN, id \in {LifecycleID(c), Other} :
          /\ Writes([type |-> "response", call |-> c, id |-> id, failed |-> failed])
          /\ conflicting' = IF id = Other THEN conflicting \cup {c} ELSE conflicting
    BY <1>6 DEF Reply
  <2>2. c \in received' /\ (id = LifecycleID(c) \/ conflicting' # {})
    BY <1>0, <1>6, <2>1 DEF Reply
  <2>3. Honest([type |-> "response", call |-> c, id |-> id, failed |-> failed])'
    BY <2>2 DEF Honest, LifecycleID
  <2>4. QED
    BY <1>4, <2>1, <2>3
<1>7. ASSUME NEW q \in ServerRequests, Ask(q) \/ Settle(q)
      PROVE  (\A j \in DOMAIN stdout : Honest(stdout[j]))'
  <2>1. PICK type \in {"request", "resolved"} : Writes([type |-> type, request |-> q])
    BY <1>7 DEF Ask, Settle
  <2>2. Honest([type |-> type, request |-> q])'
    BY DEF Honest
  <2>3. QED
    BY <1>4, <2>1, <2>2
<1>8. ASSUME UNCHANGED stdout PROVE (\A j \in DOMAIN stdout : Honest(stdout[j]))'
  BY <1>0, <1>2, <1>8 DEF Honest, LifecycleID, LifecycleThread, Announcement
<1>9. CASE ~ReadMessage /\ ~ServerStep
  BY <1>8, <1>9, OutputFrame
<1>10. CASE Exit
  BY <1>8, <1>10 DEF Exit
<1>11. QED
  BY <1>3, <1>5, <1>6, <1>7, <1>9, <1>10 DEF ServerStep

\* The ids that are bound to calls.
Bound(c) ==
  provisional[c] # Null =>
    \E d \in received : /\ provisional[c] = LifecycleID(d)
                        /\ MethodOf[c] \in Announcement(d).methods
                        /\ ThreadOf[c] \in {Null, LifecycleThread(d)}

\* A binding of a call to its result stays explained as long as the call is.
LEMMA BoundStays ==
  ASSUME received \subseteq received', NEW c \in Calls, Bound(c), provisional'[c] = provisional[c]
  PROVE  Bound(c)'
BY DEF Bound, LifecycleID, LifecycleThread, Announcement

\* An announcement binds its id to a call of its method and thread.
LEMMA BoundByStarted ==
  ASSUME TypeInv, NEW message, message.type = "started", Honest(message), HandleStarted(message),
         received \subseteq received', \A c \in Calls : Bound(c)
  PROVE  \A c \in Calls : Bound(c)'
<1>1. PICK b \in IF BoundCalls(message) = {} THEN {Null} ELSE BoundCalls(message) :
        provisional' = IF b = Null THEN provisional ELSE [provisional EXCEPT ![b] = message.id]
  BY DEF HandleStarted
<1>2. PICK d \in received : message = Announcement(d)
  BY DEF Honest
<1>3. ASSUME NEW c \in Calls, c = b PROVE Bound(c)'
  <2>1. c # Null /\ MatchesLifecycle(c, message)
    BY <1>1, <1>3, NamesDiffer DEF BoundCalls
  <2>2. provisional'[c] = message.id
    BY <1>1, <1>3, <2>1 DEF TypeInv, DispatcherTypeOK
  <2>3. message.id = LifecycleID(d) /\ message.thread = LifecycleThread(d)
    BY <1>2 DEF Announcement
  <2>4. MethodOf[c] \in message.methods /\ ThreadOf[c] \in {Null, message.thread}
    BY <2>1 DEF MatchesLifecycle, ExpectedThread
  <2>5. d \in received'
    BY <1>2
  <2>6. QED
    BY <1>2, <2>2, <2>3, <2>4, <2>5 DEF Bound, LifecycleID, LifecycleThread, Announcement
<1>4. ASSUME NEW c \in Calls, c # b PROVE Bound(c)'
  <2>1. provisional'[c] = provisional[c]
    BY <1>1, <1>4 DEF TypeInv, DispatcherTypeOK
  <2>2. QED
    BY <2>1, BoundStays
<1>5. QED
  BY <1>3, <1>4

\* The step that binds a thread or a turn to a call explains it.
LEMMA BoundStep ==
  ASSUME TypeInv, MatchInv, [Next]_vars
  PROVE  \A c \in Calls : Bound(c)'
<1>0. received \subseteq received' /\ \A c \in Calls : Bound(c)
  BY ServerRemembers DEF MatchInv, Bound
<1>1. ASSUME UNCHANGED provisional PROVE \A c \in Calls : Bound(c)'
  BY <1>0, <1>1, BoundStays
<1>2. CASE ReadMessage
  <2> DEFINE message == Head(stdout)
  <2>1. message \in Messages /\ Honest(message)
    <3>1. message = stdout[1] /\ 1 \in DOMAIN stdout
      BY <1>2, OutputTail DEF ReadMessage
    <3>2. QED
      BY <1>2, <3>1, HeadOfOutput DEF ReadMessage, TypeInv, MatchInv
  <2> HIDE DEF message
  <2>2. CASE message.type = "started" /\ HandleStarted(message)
    BY <1>0, <2>1, <2>2, BoundByStarted
  <2>3. CASE HandleResponse(message) \/ HandleServerRequest(message) \/ HandleResolved(message)
    BY <1>1, <2>3 DEF HandleResponse, HandleServerRequest, HandleResolved
  <2>4. QED
    BY <1>2, <2>2, <2>3 DEF ReadMessage, message
<1>3. CASE ReaderStep /\ ~ReadMessage
  BY <1>1, <1>3 DEF ReaderStep, ReadEnd, Deliver, CloseOnMismatch, PutRequest, PutRequestClosed,
     PutNotification, ReaderStops
<1>4. ASSUME NEW c \in Calls, CallStep(c) PROVE UNCHANGED provisional
  BY <1>4 DEF CallStep, Register, WriteRequest, WriteRequestFails, ForgetRequest, TakeResult,
     Expire, SeeDone, CallClosed, OfCall
<1>5. CASE CloseConnection \/ FinishClose \/ Consume \/ UNCHANGED vars \/ ServerStep
  BY <1>1, <1>5 DEF CloseConnection, FinishClose, Consume, vars, ServerStep, Announce, Reply, Ask,
     Settle, Exit, OfServer, dispatcherVars
<1>6. CASE \/ ServerLoopStep \/ TakeForwarded
           \/ \E w \in Responders : AnswerHeld(w) \/ ResponseStep(w)
  BY <1>1, <1>6 DEF ServerLoopStep, TakeRequest, RunProvider, OfferRequest, ForwardRequest,
     ServerLoopStops, TakeForwarded, AnswerHeld, ResponseStep, BeginResponse, WriteResponse,
     WriteResponseFails, CompleteServerRequest, WorkerClosed, OfWorker
<1>7. QED
  BY <1>1, <1>2, <1>3, <1>4, <1>5, <1>6 DEF Next

\* The answer the reader delivers was in the output.
LEMMA DeliveredStep ==
  ASSUME TypeInv, MatchInv, [Next]_vars
  PROVE  (reader.pc = "deliver" => Honest(reader.message))'
<1>0. received \subseteq received' /\ conflicting \subseteq conflicting'
  BY ServerRemembers
<1>1. ASSUME UNCHANGED reader PROVE (reader.pc = "deliver" => Honest(reader.message))'
  BY <1>0, <1>1 DEF MatchInv, Honest, LifecycleID, LifecycleThread, Announcement
<1>2. ASSUME reader'.pc # "deliver" PROVE (reader.pc = "deliver" => Honest(reader.message))'
  BY <1>2
<1>3. CASE ReadMessage
  <2> DEFINE message == Head(stdout)
  <2>1. Honest(message)
    <3>1. message = stdout[1] /\ 1 \in DOMAIN stdout
      BY <1>3, OutputTail DEF ReadMessage
    <3>2. QED
      BY <3>1 DEF MatchInv
  <2> HIDE DEF message
  <2>2. CASE HandleResponse(message)
    <3>1. reader'.message = message
      BY <2>2 DEF HandleResponse, TypeInv, DispatcherTypeOK
    <3>2. QED
      BY <1>0, <2>1, <3>1 DEF Honest, LifecycleID, LifecycleThread, Announcement
  <2>3. CASE HandleServerRequest(message) \/ HandleStarted(message) \/ HandleResolved(message)
    <3>1. reader'.pc # "deliver"
      BY <2>3 DEF HandleServerRequest, HandleStarted, HandleResolved, ReaderGoes, TypeInv,
         DispatcherTypeOK
    <3>2. QED
      BY <1>2, <3>1
  <2>4. QED
    BY <1>3, <2>2, <2>3 DEF ReadMessage, message
<1>4. CASE ReaderStep /\ ~ReadMessage
  <2>1. UNCHANGED reader \/ reader'.pc # "deliver"
    BY <1>4 DEF ReaderStep, ReadEnd, Deliver, CloseOnMismatch, PutRequest, PutRequestClosed,
       PutNotification, ReaderStops, ReaderGoes, TypeInv, DispatcherTypeOK
  <2>2. QED
    BY <1>1, <1>2, <2>1
<1>5. CASE ~ReaderStep
  BY <1>1, <1>5, ReaderAlone
<1>6. QED
  BY <1>3, <1>4, <1>5

\* An answer mismatches what was bound only if the app server contradicted itself or
\* the announcement of another call was bound to this one.
LEMMA MismatchOf ==
  ASSUME TypeInv, MatchInv, Deliver, Mismatch(reader.message)
  PROVE  conflicting # {} \/ \E c, d \in received : Confusable(c, d)
<1> DEFINE message == reader.message
           c == reader.message.call
<1>1. message \in Messages /\ message.type = "response" /\ Honest(message)
  BY DEF Deliver, TypeInv, ReaderHolds, Reading, MatchInv
<1>2. c \in received /\ c \in Calls /\ (message.id = LifecycleID(c) \/ conflicting # {})
  BY <1>1, MessageTypes DEF Honest
<1>3. PICK d \in received : /\ provisional[c] = LifecycleID(d)
                            /\ MethodOf[c] \in Announcement(d).methods
                            /\ ThreadOf[c] \in {Null, LifecycleThread(d)}
  BY <1>2 DEF Mismatch, MatchInv
<1>4. CASE message.id = LifecycleID(c)
  <2>1. LifecycleID(d) # LifecycleID(c)
    BY <1>3, <1>4 DEF Mismatch
  <2>2. Confusable(c, d)
    BY <1>3, <2>1 DEF Confusable
  <2>3. QED
    BY <1>2, <1>3, <2>2
<1>5. QED
  BY <1>2, <1>4

\* Every step keeps that a mismatch is explained.
LEMMA MismatchStep ==
  ASSUME TypeInv, MatchInv, [Next]_vars
  PROVE  MismatchMeansConflict'
<1> DEFINE Excused == conflicting # {} \/ \E c, d \in received : Confusable(c, d)
<1>0. Excused => Excused'
  BY ServerRemembers DEF Confusable, LifecycleID, LifecycleThread, Announcement
<1>1. MismatchMeansConflict <=> (reader.pc = "mismatch" \/ closeErr = "mismatch" => Excused)
  BY DEF MismatchMeansConflict
<1>2. MismatchMeansConflict' <=> (reader'.pc = "mismatch" \/ closeErr' = "mismatch" => Excused')
  BY DEF MismatchMeansConflict
<1>3. MismatchMeansConflict
  BY DEF MatchInv
<1>4. ASSUME Deliver, Mismatch(reader.message) PROVE Excused
  BY <1>4, MismatchOf
<1> HIDE DEF Excused
<1>5. ASSUME reader'.pc = "mismatch" => reader.pc = "mismatch",
             closeErr' = "mismatch" => closeErr = "mismatch" \/ reader.pc = "mismatch"
      PROVE  MismatchMeansConflict'
  BY <1>0, <1>1, <1>2, <1>3, <1>5
<1>c. \A reason \in CloseReasons : Close(reason) /\ closeErr' = "mismatch" =>
        reason = "mismatch" \/ closeErr = "mismatch"
  BY DEF Close
<1>6. CASE ReaderStep
  <2>1. CASE ReadMessage
    BY <1>5, <1>c, <2>1, Reasons DEF ReadMessage, HandleResponse, HandleServerRequest,
       HandleStarted, HandleResolved, ReaderGoes, Open, TypeInv, DispatcherTypeOK
  <2>2. CASE Deliver
    <3>1. CASE Mismatch(reader.message)
      BY <1>0, <1>2, <1>4, <2>2, <3>1
    <3>2. CASE ~Mismatch(reader.message)
      BY <1>5, <2>2, <3>2 DEF Deliver, ReaderGoes, Open, TypeInv, DispatcherTypeOK
    <3>3. QED
      BY <3>1, <3>2
  <2>3. CASE ReadEnd \/ CloseOnMismatch
    BY <1>5, <1>c, <2>3, Reasons DEF ReadEnd, CloseOnMismatch, ReaderGoes, Open, TypeInv,
       DispatcherTypeOK
  <2>4. CASE PutRequest \/ PutRequestClosed \/ PutNotification \/ ReaderStops
    BY <1>5, <2>4 DEF PutRequest, PutRequestClosed, PutNotification, ReaderStops, ReaderGoes, Open,
       TypeInv, DispatcherTypeOK
  <2>5. QED
    BY <1>6, <2>1, <2>2, <2>3, <2>4 DEF ReaderStep
<1>7. CASE ~ReaderStep
  <2>1. UNCHANGED reader
    BY <1>7, ReaderAlone
  <2>2. closeErr' = "mismatch" => closeErr = "mismatch"
    <3>1. ASSUME NEW c \in Calls, CallStep(c) PROVE UNCHANGED closeErr \/ Close("deadline")
      BY <3>1 DEF CallStep, Register, WriteRequest, WriteRequestFails, ForgetRequest, TakeResult,
         Expire, SeeDone, CallClosed, Open
    <3>2. CASE CloseConnection \/ FinishClose \/ Consume \/ UNCHANGED vars \/ ServerStep
      BY <1>c, <3>2, Reasons DEF CloseConnection, FinishClose, Consume, vars, ServerStep, Announce,
         Reply, Ask, Settle, Exit, OfServer, dispatcherVars
    <3>3. CASE \/ ServerLoopStep \/ TakeForwarded
               \/ \E w \in Responders : AnswerHeld(w) \/ ResponseStep(w)
      BY <1>c, <3>3, Reasons DEF ServerLoopStep, TakeRequest, RunProvider, OfferRequest,
         ForwardRequest, ServerLoopStops, TakeForwarded, AnswerHeld, ResponseStep, BeginResponse,
         WriteResponse, WriteResponseFails, CompleteServerRequest, WorkerClosed, Open
    <3>4. QED
      BY <1>c, <1>7, <3>1, <3>2, <3>3, Reasons DEF Next
  <2>3. QED
    BY <1>5, <2>1, <2>2
<1>8. QED
  BY <1>6, <1>7

\* The connection is dropped for a mismatch only if the app server contradicted
\* itself, or was sent two calls that an announcement does not tell apart.
THEOREM MismatchIsExplained == Spec => []MismatchMeansConflict
<1>1. Init => MatchInv
  BY NullIsNothing DEF Init, MatchInv, MismatchMeansConflict, CloseReasons
<1>2. TypeInv /\ MatchInv /\ [Next]_vars => MatchInv'
  <2>1. ASSUME TypeInv, MatchInv, [Next]_vars PROVE MatchInv'
    <3>1. announced' \subseteq received'
      BY <2>1, ServerRemembers DEF MatchInv
    <3>2. QED
      BY <2>1, <3>1, HonestOutput, DeliveredStep, BoundStep, MismatchStep DEF MatchInv, Bound
  <2>2. QED
    BY <2>1
<1>3. BaseInv => TypeInv
  BY DEF BaseInv
<1>4. MatchInv => MismatchMeansConflict
  BY DEF MatchInv
<1>5. QED
  BY <1>1, <1>2, <1>3, <1>4, BaseInvariant, PTL DEF Spec
=============================================================================
