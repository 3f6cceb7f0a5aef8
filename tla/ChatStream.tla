------------------------------ MODULE ChatStream ------------------------------
(***************************************************************************)
(* The event streams of the chat service                                   *)
(* (gateway/internal/chatruntime/stream.go): clients that follow the       *)
(* events of a chat's run while ChatRuntime starts, changes and completes  *)
(* it.  A stream first replays what is buffered, then reads the channel    *)
(* that was subscribed before the replay, and skips what it has sent.      *)
(*                                                                         *)
(* Each stream is one call of StreamChatEvents followed by the loop of the *)
(* gRPC handler, which sends what Next returns until Next ends.  got is a  *)
(* history of the events a stream has sent, from the newest event id when  *)
(* it subscribed.                                                          *)
(***************************************************************************)
EXTENDS ChatRuntime

CONSTANT FollowedChats   \* the chats clients ask to follow

ASSUME FollowedChatsAreChats == FollowedChats \subseteq Chats

VARIABLE streams         \* stream -> what it is doing and has sent

streamVars == <<runtimeVars, streams>>
-----------------------------------------------------------------------------
StreamLabels == {"new", "subscribe", "replay", "unsubscribe", "read", "close",
                 "eof", "failed", "closed"}
Notices == {"cursor_evicted", "start_evicted", "unavailable"}
ASSUME NullIsNoStreamValue == Null \notin Notices \cup RunScopes \cup SubscriberRecords

StreamRecords == [pc : StreamLabels, scope : RunScopes \cup {Null}, after : Nat,
                  live : BOOLEAN, from : Nat, replay : Seq(Events), notice : Notices \cup {Null},
                  got : Seq(Events)]

StreamInit ==
  /\ RuntimeInit
  /\ streams = [i \in SubscriberIds |->
       [pc |-> "new", scope |-> Null, after |-> 0, live |-> FALSE, from |-> 0,
        replay |-> <<>>, notice |-> Null, got |-> <<>>]]

\* Steps of a stream leave the rest of the service alone but for the store.
Alone == UNCHANGED <<gatewayVars, codexVars>>

NeverIssued == MaxEvents + 1   \* an event id no event has, beyond the newest
EventIdsOf(s) == {log[s][j].id : j \in DOMAIN log[s]}

\* A stream names an event by its cursor, which carries the run, or follows the
\* active run from its start or after an event id.  Without a run it only says so.
OpenStream(i) ==
  \E c \in FollowedChats :
    LET active == IF HasActiveRun(c) THEN activeRuns[c].run ELSE Null
        follow(run, after) ==
          streams' = [streams EXCEPT ![i] =
            [@ EXCEPT !.pc = IF run = active THEN "subscribe" ELSE "replay",
                      !.scope = <<c, run>>, !.after = after]] IN
    /\ streams[i].pc = "new"
    /\ \/ active = Null /\ streams' = [streams EXCEPT ![i].pc = "eof"]
       \/ /\ active # Null
          /\ \E after \in 0..nextEventID \cup {NeverIssued} : follow(active, after)
       \/ \E run \in Runs : \E id \in EventIdsOf(<<c, run>>) : follow(run, id)
    /\ UNCHANGED vars
    /\ Alone

\* The run may have been completed since.
SubscribeStream(i) ==
  /\ streams[i].pc = "subscribe"
  /\ IF IsActive(streams[i].scope) THEN Subscribe(i, streams[i].scope) ELSE UNCHANGED vars
  /\ streams' = [streams EXCEPT ![i] =
       [@ EXCEPT !.pc = "replay", !.live = IsActive(streams[i].scope),
                 !.from = nextEventID]]
  /\ Alone

NoticeFor(result, after) ==
  CASE result.outcome # "ok" -> result.outcome
    [] result.outcome = "ok" /\ after = 0 /\ result.evictedBefore # 0 -> "start_evicted"
    [] OTHER -> Null

ReplayStream(i) ==
  LET result == ReplayResult(streams[i].scope, streams[i].after) IN
  /\ streams[i].pc = "replay"
  /\ Replay(streams[i].scope)
  /\ streams' = [streams EXCEPT ![i] =
       IF result.outcome = "out_of_range"
       THEN [@ EXCEPT !.pc = "unsubscribe"]
       ELSE [@ EXCEPT !.pc = "read", !.replay = result.events,
                      !.notice = NoticeFor(result, streams[i].after)]]
  /\ Alone

\* A cursor beyond the newest event: the subscription is given up again.
RefuseStream(i) ==
  /\ streams[i].pc = "unsubscribe"
  /\ IF streams[i].live THEN Unsubscribe(i) ELSE UNCHANGED vars
  /\ streams' = [streams EXCEPT ![i].pc = "failed"]
  /\ Alone
-----------------------------------------------------------------------------
(* Next                                                                    *)

LastSent(i) == LET got == streams[i].got IN
               IF got = <<>> THEN 0 ELSE got[Len(got)].id

Sent(i, e) == [streams EXCEPT ![i].got = Append(@, e)]

NextReplayed(i) ==
  /\ streams[i].pc = "read"
  /\ streams[i].replay # <<>>
  /\ streams' = [streams EXCEPT ![i].got = Append(@, Head(streams[i].replay)),
                                ![i].replay = Tail(@)]
  /\ UNCHANGED vars
  /\ Alone

\* Faulty variant of AlreadySent: does not skip what the replay sent.
NeverSent(i, e)   == FALSE

AlreadySent(i, e) == e.id <= LastSent(i)

NextLive(i) ==
  LET e == Head(subscribers[i].queue) IN
  /\ streams[i].pc = "read"
  /\ streams[i].replay = <<>> /\ streams[i].live
  /\ Receive(i)
  /\ streams' = IF AlreadySent(i, e) THEN streams ELSE Sent(i, e)
  /\ Alone

\* io.EOF: nothing was subscribed, or the channel is closed and empty.
EndStream(i) ==
  /\ streams[i].pc = "read"
  /\ streams[i].replay = <<>>
  /\ streams[i].live => ~subscribers[i].open /\ subscribers[i].queue = <<>>
  /\ streams' = [streams EXCEPT ![i].pc = "eof"]
  /\ UNCHANGED vars
  /\ Alone

\* The client cancels its call.
CancelStream(i) ==
  /\ streams[i].pc = "read"
  /\ streams' = [streams EXCEPT ![i].pc = "close"]
  /\ UNCHANGED vars
  /\ Alone

CloseStream(i) ==
  /\ streams[i].pc = "close"
  /\ IF streams[i].live THEN Unsubscribe(i) ELSE UNCHANGED vars
  /\ streams' = [streams EXCEPT ![i].pc = "closed"]
  /\ Alone
-----------------------------------------------------------------------------
Serve(i) == \/ SubscribeStream(i) \/ ReplayStream(i) \/ RefuseStream(i)
            \/ NextReplayed(i) \/ NextLive(i) \/ EndStream(i) \/ CloseStream(i)

StreamNext == \/ RuntimeNext /\ UNCHANGED streams
              \/ \E i \in SubscriberIds : OpenStream(i) \/ Serve(i) \/ CancelStream(i)

\* The handler of an open stream keeps calling Next and its client keeps reading.
StreamFairness == \A i \in SubscriberIds : WF_streamVars(Serve(i))

StreamSpec == StreamInit /\ [][StreamNext]_streamVars
                         /\ RuntimeFairness /\ StreamFairness
-----------------------------------------------------------------------------
(* Properties                                                              *)

StreamTypeOK == RuntimeTypeOK /\ streams \in [SubscriberIds -> StreamRecords]

\* What a stream has sent is the run's log from the cursor on, in order, with
\* nothing left out and nothing sent twice, although events arrive through the
\* replay and through the channel; a stream that announced a gap may only lack
\* the beginning.  (Of a cursor no event ever had, nothing is promised.)
StreamIsGapless ==
  \A i \in SubscriberIds :
    LET got == streams[i].got
        events == log[streams[i].scope] IN
    got # <<>> /\ streams[i].after # NeverIssued =>
      \E n \in 0..(Len(events) - Len(got)) :
        /\ got = SubSeq(events, n + 1, n + Len(got))
        /\ events[n + 1].id > streams[i].after
        /\ streams[i].notice = Null => \A j \in 1..n : events[j].id <= streams[i].after

Ends(e) == e.kind \in Terminals \/ e.kind \in {<<"status", s>> : s \in TerminalStates}

\* A stream that followed a turn and ended by itself has fallen behind, or the
\* run's log says how the run ended: CompleteRun closes the channels only after
\* the last event has been published, whoever completes the run.
EndOfStreamIsExplained ==
  \A i \in SubscriberIds :
    LET events == log[streams[i].scope] IN
    /\ streams[i].pc = "eof" /\ streams[i].live
    /\ streams[i].scope[2] \in Turns
    => \/ \E j \in DOMAIN events : Ends(events[j])
       \/ Cardinality({j \in DOMAIN events : events[j].id > streams[i].from}) > SubscriberQueue

StreamIsOver(i) == streams[i].pc \in {"eof", "failed", "closed"}

\* A stream that follows a turn ends once the run is completed.
StreamOfCompletedRunEnds ==
  \A i \in SubscriberIds :
    (/\ streams[i].pc = "read"
     /\ streams[i].scope[2] \in Turns
     /\ ~IsTracked(streams[i].scope)) ~> StreamIsOver(i)

\* Refuted: the same for every run.  BindRunID renames a provisional run and
\* leaves the channels subscribed under its provisional name behind.
StreamOfVanishedRunEnds ==
  \A i \in SubscriberIds :
    (/\ streams[i].pc = "read"
     /\ streams[i].scope[2] \notin Turns
     /\ ~IsTracked(streams[i].scope)) ~> StreamIsOver(i)
=============================================================================
