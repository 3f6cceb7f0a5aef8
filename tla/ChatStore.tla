------------------------------ MODULE ChatStore ------------------------------
(***************************************************************************)
(* The volatile chat store of the gateway                                  *)
(* (gateway/internal/chatstate/store.go): active runs and the capacity     *)
(* reserved for them, the replay buffers and live subscribers of each      *)
(* run's events, pending requests and idempotency entries.                 *)
(*                                                                         *)
(* Every exported operation of the store holds Store.mu from its first     *)
(* read to its last write, so each one is a single action here.  An        *)
(* operation is written once for its success path; a refused operation     *)
(* changes nothing but what the leading cleanupLocked() does, and is the   *)
(* action Refused (or a stutter when the operation does not clean up).     *)
(* The clients are arbitrary: Next lets any operation happen with any      *)
(* argument at any time.  ChatRuntime composes the same operations in the  *)
(* order in which the chat service calls them.                             *)
(*                                                                         *)
(* A chat stands for a (session group, workspace, chat id) scope, a run    *)
(* for a run id, an operation for an idempotent operation together with    *)
(* the request ids its idempotency scope carries.  Times are in units of   *)
(* the store's clock; byte sizes are small integers.  The only variable    *)
(* that is no state of the code is log, the history of every event         *)
(* appended to a run, against which replay and subscribers are judged.     *)
(***************************************************************************)
EXTENDS Integers, Sequences, FiniteSets

CONSTANTS
  Chats,            \* chat scopes
  Runs,             \* run ids
  PendingIds,       \* pending request ids
  Operations,       \* idempotent operations with their request ids
  Keys,             \* idempotency keys
  SubscriberIds,    \* subscriptions that can ever be made (a bound)
  EventKinds,       \* kinds of event
  EventSizes,       \* sizes an event may have
  ActiveRunsCap, PendingCap, IdempotencyCap,
  ReplayMaxEvents, ReplayMaxBytes, ReplayTTL, PendingTTL, SubscriberQueue,
  MaxEvents,        \* bound on the number of events appended
  MaxTime,          \* bound on the clock
  Null              \* the absent map entry

ASSUME ChatsFinite   == IsFiniteSet(Chats)
ASSUME ScopesFinite  == /\ IsFiniteSet(Runs)
                        /\ IsFiniteSet(PendingIds)
                        /\ IsFiniteSet(Operations)
                        /\ IsFiniteSet(Keys)
\* normalizeLimits replaces every limit that is not positive by a default.
ASSUME LimitsPositive ==
  /\ ActiveRunsCap \in Nat \ {0}
  /\ PendingCap \in Nat \ {0}
  /\ IdempotencyCap \in Nat \ {0}
  /\ ReplayMaxEvents \in Nat \ {0}
  /\ ReplayMaxBytes \in Nat \ {0}
  /\ ReplayTTL \in Nat \ {0}
  /\ PendingTTL \in Nat \ {0}
  /\ SubscriberQueue \in Nat \ {0}
ASSUME BoundsNat == MaxEvents \in Nat /\ MaxTime \in Nat /\ EventSizes \subseteq Nat
ASSUME NullIsNoScope == Null \notin Chats

VARIABLES
  activeRuns,       \* Store.activeRuns: chat -> [run, state]
  reservations,     \* Store.activeRunReservations: set of idempotency scopes
  replay,           \* Store.replay: run scope -> [events, evictedBefore]
  subscribers,      \* the channels made by Subscribe, open (registered) or closed
  pending,          \* Store.pending: pending key -> record
  idempotency,      \* Store.idempotency: idempotency store key -> entry
  nextEventID,      \* Store.nextEventID, the last id given out
  now,              \* Store.now()
  log               \* history: run scope -> every event appended to it

vars == <<activeRuns, reservations, replay, subscribers, pending, idempotency,
          nextEventID, now, log>>
runVars     == <<activeRuns, reservations>>
eventVars   == <<replay, subscribers, nextEventID, log>>
cleanedVars == <<pending, idempotency>>
-----------------------------------------------------------------------------
LiveStates     == {"starting", "running", "pending", "interrupting"}
TerminalStates == {"completed", "failed", "interrupted"}
RunStates      == LiveStates \cup TerminalStates

RunRecords == [run : Runs, state : RunStates]
RunScopes  == Chats \X Runs
\* validateIdempotencyScope lets the chat be empty: StartChatRun has none yet.
IdempotencyScopes == [op : Operations, chat : Chats \cup {Null}, key : Keys]
StoreKeys   == (Chats \cup {Null}) \X Keys
StoreKey(s) == <<s.chat, s.key>>

Events == [id : Nat, kind : EventKinds, at : Nat, size : EventSizes]
ReplayBuffers     == [events : Seq(Events), evictedBefore : Nat]
SubscriberRecords == [scope : RunScopes, queue : Seq(Events), open : BOOLEAN]

PendingKeys     == RunScopes \X PendingIds
PendingStatuses == {"active", "claimed", "resolved", "expired"}
PendingRecords  == [status : PendingStatuses, expiresAt : Nat, resolvedAt : Nat]
Unresolved      == {"active", "claimed"}

IdempotencyEntries == [scope : IdempotencyScopes,
                       state : {"in_flight", "succeeded"}, updatedAt : Nat]
ASSUME NullIsNoRecord == Null \notin PendingRecords \cup IdempotencyEntries

Init ==
  /\ activeRuns = [c \in Chats |-> Null]
  /\ reservations = {}
  /\ replay = [s \in RunScopes |-> Null]
  /\ subscribers = [i \in SubscriberIds |-> Null]
  /\ pending = [p \in PendingKeys |-> Null]
  /\ idempotency = [k \in StoreKeys |-> Null]
  /\ nextEventID = 0
  /\ now = 1
  /\ log = [s \in RunScopes |-> <<>>]
-----------------------------------------------------------------------------
(* cleanupLocked                                                           *)

\* A resolved record has a resolution time, as now starts at 1.
RetainUntil(p) == IF p.resolvedAt > 0 THEN p.resolvedAt + PendingTTL ELSE p.expiresAt

\* An overdue record expires and, in the same sweep, is past its retention.
CleanedPendingRecord(p) ==
  IF \/ p = Null
     \/ /\ p.status \notin Unresolved \/ now > p.expiresAt
        /\ now > RetainUntil(p)
  THEN Null ELSE p

CleanedPending == [k \in PendingKeys |-> CleanedPendingRecord(pending[k])]

\* Faulty variant of CleanedIdempotencyEntry: expires with the other TTL.
CleanedByPendingTTL(e) ==
  IF e = Null \/ (e.state # "in_flight" /\ now > e.updatedAt + PendingTTL)
  THEN Null ELSE e

\* An entry in flight has no deadline.
CleanedIdempotencyEntry(e) ==
  IF e = Null \/ (e.state # "in_flight" /\ now > e.updatedAt + ReplayTTL)
  THEN Null ELSE e

CleanedIdempotency == [k \in StoreKeys |-> CleanedIdempotencyEntry(idempotency[k])]

CleanupPending     == pending' = CleanedPending
CleanupIdempotency == idempotency' = CleanedIdempotency
Cleanup            == CleanupPending /\ CleanupIdempotency

\* Any operation that cleans up and is then refused, or only looks up.
Refused == Cleanup /\ UNCHANGED <<runVars, eventVars, now>>
-----------------------------------------------------------------------------
(* Active runs and their capacity                                          *)

ActiveChats  == {c \in Chats : activeRuns[c] # Null}
\* Faulty variant of CapacityUsed: reservations are not counted.
CapacityOfRunsOnly == Cardinality(ActiveChats)

CapacityUsed == Cardinality(ActiveChats) + Cardinality(reservations)

\* ActiveRun(c) answers with a record: a run that is not terminal.
HasActiveRun(c) == activeRuns[c] # Null /\ activeRuns[c].state \in LiveStates
IsActive(s)     == HasActiveRun(s[1]) /\ activeRuns[s[1]].run = s[2]
\* The lookup of the operations that change a run, terminal or not.
IsTracked(s)    == activeRuns[s[1]] # Null /\ activeRuns[s[1]].run = s[2]

StartRun(s) ==
  /\ ~HasActiveRun(s[1])
  /\ CapacityUsed < ActiveRunsCap
  /\ activeRuns' = [activeRuns EXCEPT ![s[1]] = [run |-> s[2], state |-> "starting"]]
  /\ Cleanup
  /\ UNCHANGED <<reservations, eventVars, now>>

ReserveActiveRunCapacity(i) ==
  /\ i \in reservations \/ CapacityUsed < ActiveRunsCap
  /\ reservations' = reservations \cup {i}
  /\ Cleanup
  /\ UNCHANGED <<activeRuns, eventVars, now>>

ReleaseActiveRunCapacity(i) ==
  /\ reservations' = reservations \ {i}
  /\ UNCHANGED <<activeRuns, eventVars, cleanedVars, now>>

StartRunWithReservation(i, s) ==
  /\ i \in reservations
  /\ ~HasActiveRun(s[1])
  /\ activeRuns' = [activeRuns EXCEPT ![s[1]] = [run |-> s[2], state |-> "starting"]]
  /\ reservations' = reservations \ {i}
  /\ Cleanup
  /\ UNCHANGED <<eventVars, now>>

UpdateRunState(s, state) ==
  /\ IsTracked(s)
  /\ activeRuns' = [activeRuns EXCEPT ![s[1]].state = state]
  /\ UNCHANGED <<reservations, eventVars, cleanedVars, now>>

RestoreRunStateAfterPending(s) ==
  /\ IsTracked(s)
  /\ activeRuns' = [activeRuns EXCEPT ![s[1]].state =
                      IF @ = "interrupting" THEN @ ELSE "running"]
  /\ UNCHANGED <<reservations, eventVars, cleanedVars, now>>

BindRunID(s, run) ==
  /\ IsTracked(s)
  /\ activeRuns' = [activeRuns EXCEPT ![s[1]].run = run]
  /\ UNCHANGED <<reservations, eventVars, cleanedVars, now>>

\* Faulty variant of ClosedSubscribers: the channels are not closed.
LeftOpen(s) == subscribers

\* closeSubscribersLocked: the channels of the run keep what they buffer.
ClosedSubscribers(s) ==
  [i \in SubscriberIds |->
     IF subscribers[i] # Null /\ subscribers[i].scope = s
     THEN [subscribers[i] EXCEPT !.open = FALSE] ELSE subscribers[i]]

CompleteRun(s, state) ==
  /\ state \in TerminalStates
  /\ IsTracked(s)
  /\ activeRuns' = [activeRuns EXCEPT ![s[1]] = Null]
  /\ subscribers' = ClosedSubscribers(s)
  /\ UNCHANGED <<reservations, replay, nextEventID, log, cleanedVars, now>>
-----------------------------------------------------------------------------
(* Events: the replay buffer and the live subscribers of a run             *)

\* The bytes of a buffer, which the code keeps in replayBuffer.bytes.
Bytes(events) ==
  LET sum[n \in 0..Len(events)] == IF n = 0 THEN 0 ELSE sum[n-1] + events[n].size
  IN  sum[Len(events)]

Drop(events, n) == SubSeq(events, n + 1, Len(events))

\* The loop of enforceReplayLimitsLocked stops at the first n that fits.
WithinLimits(events) ==
  \/ events = <<>>
  \/ /\ Len(events) <= ReplayMaxEvents
     /\ Bytes(events) <= ReplayMaxBytes
     /\ now - events[1].at <= ReplayTTL

\* It evicts one event for each m whose shorter evictions all leave too much.
EvictionCount(events) ==
  Cardinality({m \in 1..Len(events) :
                 \A k \in 0..(m - 1) : ~WithinLimits(Drop(events, k))})

EnforceReplayLimits(buffer) ==
  LET n == EvictionCount(buffer.events) IN
  [events        |-> Drop(buffer.events, n),
   evictedBefore |-> IF n = 0 THEN buffer.evictedBefore ELSE buffer.events[n].id + 1]

\* Faulty variant of Published: a full channel only misses the event.
PublishedOrSkipped(s, e) ==
  [i \in SubscriberIds |->
     IF /\ subscribers[i] # Null
        /\ subscribers[i].open /\ subscribers[i].scope = s
        /\ Len(subscribers[i].queue) < SubscriberQueue
     THEN [subscribers[i] EXCEPT !.queue = Append(@, e)] ELSE subscribers[i]]

\* Faulty variant of Published: channels have no bound.
PublishedUnbounded(s, e) ==
  [i \in SubscriberIds |->
     IF subscribers[i] # Null /\ subscribers[i].open /\ subscribers[i].scope = s
     THEN [subscribers[i] EXCEPT !.queue = Append(@, e)] ELSE subscribers[i]]

\* publishEventLocked: a subscriber whose queue is full is closed, not waited for.
Published(s, e) ==
  [i \in SubscriberIds |->
     IF subscribers[i] = Null THEN Null
     ELSE IF ~subscribers[i].open \/ subscribers[i].scope # s THEN subscribers[i]
     ELSE IF Len(subscribers[i].queue) < SubscriberQueue
          THEN [subscribers[i] EXCEPT !.queue = Append(@, e)]
          ELSE [subscribers[i] EXCEPT !.open = FALSE]]

AppendEvent(s, kind, size) ==
  LET e == [id |-> nextEventID + 1, kind |-> kind, at |-> now, size |-> size]
      buffer == IF replay[s] = Null THEN [events |-> <<>>, evictedBefore |-> 0]
                                    ELSE replay[s]
  IN
  /\ nextEventID < MaxEvents
  /\ nextEventID' = nextEventID + 1
  /\ replay' = [replay EXCEPT ![s] =
                  EnforceReplayLimits([buffer EXCEPT !.events = Append(@, e)])]
  /\ subscribers' = Published(s, e)
  /\ log' = [log EXCEPT ![s] = Append(@, e)]
  /\ Cleanup
  /\ UNCHANGED <<runVars, now>>

\* Subscribe returns no channel for a run that is not active.
Subscribe(i, s) ==
  /\ subscribers[i] = Null
  /\ IsActive(s)
  /\ subscribers' = [subscribers EXCEPT ![i] =
                       [scope |-> s, queue |-> <<>>, open |-> TRUE]]
  /\ UNCHANGED <<runVars, replay, nextEventID, log, cleanedVars, now>>

Unsubscribe(i) ==
  /\ subscribers[i] # Null
  /\ subscribers' = [subscribers EXCEPT ![i].open = FALSE]
  /\ UNCHANGED <<runVars, replay, nextEventID, log, cleanedVars, now>>

\* A receive from the channel, by the reader that owns the subscription.
Receive(i) ==
  /\ subscribers[i] # Null
  /\ subscribers[i].queue # <<>>
  /\ subscribers' = [subscribers EXCEPT ![i].queue = Tail(@)]
  /\ UNCHANGED <<runVars, replay, nextEventID, log, cleanedVars, now>>

\* Faulty variant of CursorEvicted: one lost event is not noticed.
CursorEvictedOffByOne(after, oldest, evictedBefore) ==
  after < oldest - 2 /\ ~(after = 0 /\ evictedBefore # 0)

\* An event id that is no longer buffered, unless the cursor is from_start.
CursorEvicted(after, oldest, evictedBefore) ==
  after < oldest - 1 /\ ~(after = 0 /\ evictedBefore # 0)

\* The events with an id beyond the cursor, picked one after the other.
EventsAfter(events, after) ==
  LET picked[n \in 0..Len(events)] ==
        IF n = 0 THEN <<>>
        ELSE IF events[n].id > after THEN Append(picked[n - 1], events[n]) ELSE picked[n - 1]
  IN  picked[Len(events)]

\* What Replay answers for a run and the event id the cursor names (0: from start).
ReplayResult(s, after) ==
  IF replay[s] = Null \/ EnforceReplayLimits(replay[s]).events = <<>>
  THEN [outcome |-> "unavailable", events |-> <<>>, evictedBefore |-> 0]
  ELSE LET buffer == EnforceReplayLimits(replay[s])
           oldest == buffer.events[1].id
           newest == buffer.events[Len(buffer.events)].id
           result(o, es) == [outcome |-> o, events |-> es,
                             evictedBefore |-> buffer.evictedBefore]
       IN  IF CursorEvicted(after, oldest, buffer.evictedBefore)
           THEN result("cursor_evicted", <<>>)
           ELSE IF after > newest THEN result("out_of_range", <<>>)
           ELSE result("ok", EventsAfter(buffer.events, after))

\* Replay itself trims the buffer, and forgets it once nothing is left of it.
Replay(s) ==
  /\ replay' = IF replay[s] = Null \/ replay[s].events = <<>> THEN replay
               ELSE [replay EXCEPT ![s] =
                       IF EnforceReplayLimits(@).events = <<>> THEN Null
                       ELSE EnforceReplayLimits(@)]
  /\ Cleanup
  /\ UNCHANGED <<runVars, subscribers, nextEventID, log, now>>
-----------------------------------------------------------------------------
(* Pending requests.  Every operation sees the map as cleanup leaves it.   *)

ActivePendingKeys == {k \in PendingKeys : CleanedPending[k] # Null
                                        /\ CleanedPending[k].status \in Unresolved}

RegisteredPending(s, id) ==
  [CleanedPending EXCEPT ![<<s, id>>] =
     [status |-> "active", expiresAt |-> now + PendingTTL, resolvedAt |-> 0]]

RegisterPending(s, id) ==
  /\ Cardinality(ActivePendingKeys) < PendingCap
  /\ pending' = RegisteredPending(s, id)
  /\ CleanupIdempotency
  /\ UNCHANGED <<runVars, eventVars, now>>

AcceptsPending(s) == IsActive(s) /\ activeRuns[s[1]].state # "interrupting"

RegisterPendingForActiveRun(s, id) ==
  /\ AcceptsPending(s)
  /\ Cardinality(ActivePendingKeys) < PendingCap
  /\ pending' = RegisteredPending(s, id)
  /\ activeRuns' = [activeRuns EXCEPT ![s[1]].state = "pending"]
  /\ CleanupIdempotency
  /\ UNCHANGED <<reservations, eventVars, now>>

\* An operation on one record: its new value, the others as cleanup leaves them.
UpdatePending(k, p) ==
  /\ pending' = [CleanedPending EXCEPT ![k] = p]
  /\ CleanupIdempotency
  /\ UNCHANGED <<runVars, eventVars, now>>

ClaimPendingResolution(k) ==
  LET p == CleanedPending[k] IN
  /\ p # Null
  /\ now <= p.expiresAt
  /\ p.status = "active"
  /\ UpdatePending(k, [p EXCEPT !.status = "claimed"])

ReleasePendingResolutionClaim(k) ==
  LET p == CleanedPending[k] IN
  /\ p # Null
  /\ p.status = "claimed"
  /\ UpdatePending(k, [p EXCEPT !.status = "active"])

ResolvePending(k) ==
  LET p == CleanedPending[k] IN
  /\ p # Null
  /\ now <= p.expiresAt
  /\ p.status \in Unresolved
  /\ UpdatePending(k, [p EXCEPT !.status = "resolved", !.resolvedAt = now])

\* Claim and Resolve test the deadline before the status: a record that was
\* resolved in time is relabelled once its deadline has passed.
RelabelResolvedPending(k) ==
  LET p == CleanedPending[k] IN
  /\ p # Null
  /\ now > p.expiresAt
  /\ UpdatePending(k, [p EXCEPT !.status = "expired"])

\* Pending(k) answers with a record.
HasPending(k) == CleanedPending[k] # Null /\ CleanedPending[k].status \in Unresolved
-----------------------------------------------------------------------------
(* Idempotency entries                                                     *)

EntryOf(i)          == CleanedIdempotency[StoreKey(i)]
IdempotencyKeysUsed == {k \in StoreKeys : CleanedIdempotency[k] # Null}
HasIdempotency(i)   == EntryOf(i) # Null /\ EntryOf(i).scope = i

UpdateIdempotency(i, e) ==
  /\ idempotency' = [CleanedIdempotency EXCEPT ![StoreKey(i)] = e]
  /\ CleanupPending
  /\ UNCHANGED <<runVars, eventVars, now>>

\* The call that creates the entry; one that finds an entry is Refused.
ReserveIdempotency(i) ==
  /\ EntryOf(i) = Null
  /\ Cardinality(IdempotencyKeysUsed) < IdempotencyCap
  /\ UpdateIdempotency(i, [scope |-> i, state |-> "in_flight", updatedAt |-> now])

CompleteIdempotency(i) ==
  /\ HasIdempotency(i)
  /\ UpdateIdempotency(i, [scope |-> i, state |-> "succeeded", updatedAt |-> now])

ReleaseIdempotency(i) ==
  /\ HasIdempotency(i)
  /\ EntryOf(i).state = "in_flight"
  /\ UpdateIdempotency(i, Null)
-----------------------------------------------------------------------------
Tick ==
  /\ now < MaxTime
  /\ now' = now + 1
  /\ UNCHANGED <<runVars, eventVars, cleanedVars>>

RunOperation(S, I) ==
  \/ \E s \in S : \/ StartRun(s)
                  \/ RestoreRunStateAfterPending(s)
                  \/ \E state \in RunStates : UpdateRunState(s, state)
                  \/ \E run \in Runs : BindRunID(s, run)
                  \/ \E state \in TerminalStates : CompleteRun(s, state)
  \/ \E i \in I : \/ ReserveActiveRunCapacity(i)
                  \/ ReleaseActiveRunCapacity(i)
                  \/ \E s \in S : StartRunWithReservation(i, s)

EventOperation(S) ==
  \E s \in S :
    \/ \E kind \in EventKinds, size \in EventSizes : AppendEvent(s, kind, size)
    \/ Replay(s)

SubscriberOperation(S) ==
  \E i \in SubscriberIds : \/ \E s \in S : Subscribe(i, s)
                          \/ Unsubscribe(i)
                          \/ Receive(i)

PendingOperation(S) ==
  \E s \in S, id \in PendingIds :
    \/ RegisterPending(s, id)
    \/ RegisterPendingForActiveRun(s, id)
    \/ ClaimPendingResolution(<<s, id>>)
    \/ ReleasePendingResolutionClaim(<<s, id>>)
    \/ ResolvePending(<<s, id>>)
    \/ RelabelResolvedPending(<<s, id>>)

IdempotencyOperation(I) ==
  \E i \in I : \/ ReserveIdempotency(i)
              \/ CompleteIdempotency(i)
              \/ ReleaseIdempotency(i)

Next == \/ RunOperation(RunScopes, IdempotencyScopes)
        \/ EventOperation(RunScopes)
        \/ SubscriberOperation(RunScopes)
        \/ PendingOperation(RunScopes)
        \/ IdempotencyOperation(IdempotencyScopes)
        \/ Refused
        \/ Tick

Spec == Init /\ [][Next]_vars
-----------------------------------------------------------------------------
(* Properties                                                              *)

\* Every map holds what its Go type holds, and no subscriber channel holds
\* more than the buffer Subscribe gave it.
TypeOK ==
  /\ activeRuns \in [Chats -> RunRecords \cup {Null}]
  /\ reservations \subseteq IdempotencyScopes
  /\ replay \in [RunScopes -> ReplayBuffers \cup {Null}]
  /\ subscribers \in [SubscriberIds -> SubscriberRecords \cup {Null}]
  /\ \A i \in SubscriberIds :
       subscribers[i] # Null => Len(subscribers[i].queue) <= SubscriberQueue
  /\ pending \in [PendingKeys -> PendingRecords \cup {Null}]
  /\ idempotency \in [StoreKeys -> IdempotencyEntries \cup {Null}]
  /\ nextEventID \in Nat
  /\ now \in Nat \ {0}
  /\ log \in [RunScopes -> Seq(Events)]

\* Runs and reservations together never exceed ActiveRunsCap, although
\* StartRunWithReservation checks no capacity, terminal records are overwritten
\* by StartRun and a reservation may be released at any time.
ActiveRunCapacityHeld ==
  Cardinality({c \in Chats : activeRuns[c] # Null}) + Cardinality(reservations)
    <= ActiveRunsCap

IsSuffix(queue, events) ==
  /\ Len(queue) <= Len(events)
  /\ \A j \in 1..Len(queue) : queue[j] = events[Len(events) - Len(queue) + j]

\* An open subscriber has every event up to the latest: a reader too slow for
\* its queue is closed by publishEventLocked, never left open with a hole.
OpenSubscriberMissesNothing ==
  \A i \in SubscriberIds :
    subscribers[i] # Null /\ subscribers[i].open
      => IsSuffix(subscribers[i].queue, log[subscribers[i].scope])

\* A replay that succeeds hands over the rest of the run after the cursor,
\* whatever was evicted, expired or forgotten since, unless it says that the
\* start is gone (a from_start cursor and evictedBefore # 0).
ReplayHasNoSilentGap ==
  \A s \in RunScopes : \A after \in 0..nextEventID :
    LET result == ReplayResult(s, after) IN
    result.outcome = "ok" =>
      \/ \E n \in 0..Len(log[s]) :
           /\ \A i \in 1..Len(log[s]) : log[s][i].id > after <=> i > n
           /\ result.events = Drop(log[s], n)
      \/ /\ after = 0 /\ result.evictedBefore # 0
         /\ IsSuffix(result.events, log[s])

\* The outcome of a request is remembered for ReplayTTL after it succeeded, so
\* that a retry with the same key is answered and not executed again.
SuccessIsRemembered ==
  [][\A k \in StoreKeys :
       /\ idempotency[k] # Null
       /\ idempotency[k].state = "succeeded"
       /\ now <= idempotency[k].updatedAt + ReplayTTL
       => /\ idempotency'[k] # Null
          /\ idempotency'[k].scope = idempotency[k].scope
          /\ idempotency'[k].state = "succeeded"]_vars
=============================================================================
