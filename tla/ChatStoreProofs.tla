--------------------------- MODULE ChatStoreProofs ---------------------------
(***************************************************************************)
(* Theorems of ChatStore, for every value of its constants: the type       *)
(* invariant, the active-run capacity, that an open subscriber misses no   *)
(* event, that a replay has no gap it does not report, and that a success  *)
(* is remembered until its time is over.                                   *)
(***************************************************************************)
EXTENDS ChatStore, FiniteSetTheorems, SequenceTheorems, WellFoundedInduction, TLAPS

PendingTypeOK     == pending \in [PendingKeys -> PendingRecords \cup {Null}]
IdempotencyTypeOK == idempotency \in [StoreKeys -> IdempotencyEntries \cup {Null}]
RunsTypeOK        == /\ activeRuns \in [Chats -> RunRecords \cup {Null}]
                     /\ reservations \subseteq IdempotencyScopes
SubscribersTypeOK ==
  /\ subscribers \in [SubscriberIds -> SubscriberRecords \cup {Null}]
  /\ \A i \in SubscriberIds :
       subscribers[i] # Null => Len(subscribers[i].queue) <= SubscriberQueue
ReplayTypeOK == /\ replay \in [RunScopes -> ReplayBuffers \cup {Null}]
                /\ log \in [RunScopes -> Seq(Events)]
                /\ nextEventID \in Nat

\* The type invariant by the variables that the operations change together.
LEMMA TypeParts ==
  TypeOK <=> /\ RunsTypeOK
             /\ ReplayTypeOK
             /\ SubscribersTypeOK
             /\ PendingTypeOK
             /\ IdempotencyTypeOK
             /\ now \in Nat \ {0}
BY DEF TypeOK, RunsTypeOK, ReplayTypeOK, SubscribersTypeOK, PendingTypeOK,
       IdempotencyTypeOK

-----------------------------------------------------------------------------
\* cleanupLocked keeps the two maps it sweeps well typed.
LEMMA CleanedPendingType ==
  ASSUME PendingTypeOK
  PROVE  CleanedPending \in [PendingKeys -> PendingRecords \cup {Null}]
BY DEF PendingTypeOK, CleanedPending, CleanedPendingRecord

\* So does its sweep of the idempotency entries.
LEMMA CleanedIdempotencyType ==
  ASSUME IdempotencyTypeOK
  PROVE  CleanedIdempotency \in [StoreKeys -> IdempotencyEntries \cup {Null}]
BY DEF IdempotencyTypeOK, CleanedIdempotency, CleanedIdempotencyEntry

\* Both sweeps together, as the operations perform them.
LEMMA CleanupType ==
  ASSUME PendingTypeOK, IdempotencyTypeOK, Cleanup
  PROVE  PendingTypeOK' /\ IdempotencyTypeOK'
BY CleanedPendingType, CleanedIdempotencyType
   DEF Cleanup, CleanupPending, CleanupIdempotency, PendingTypeOK, IdempotencyTypeOK

-----------------------------------------------------------------------------
\* The eviction loop evicts at most the events there are.
LEMMA EvictionCountType ==
  ASSUME NEW events \in Seq(Events)
  PROVE  EvictionCount(events) \in 0..Len(events)
<1> DEFINE E == {m \in 1..Len(events) :
                   \A k \in 0..(m - 1) : ~WithinLimits(Drop(events, k))}
<1>1. Len(events) \in Nat
  OBVIOUS
<1>2. IsFiniteSet(1..Len(events)) /\ Cardinality(1..Len(events)) = Len(events)
  BY <1>1, FS_Interval
<1>3. E \subseteq 1..Len(events)
  OBVIOUS
<1> HIDE DEF E
<1>4. IsFiniteSet(E) /\ Cardinality(E) <= Len(events)
  BY <1>2, <1>3, FS_Subset
<1>5. Cardinality(E) \in Nat
  BY <1>4, FS_CardinalityType
<1>6. QED
  BY <1>1, <1>4, <1>5 DEF EvictionCount, E

\* What the loop leaves is the end of what it was given.
LEMMA DropType ==
  ASSUME NEW events \in Seq(Events), NEW n \in 0..Len(events)
  PROVE  Drop(events, n) \in Seq(Events)
<1>1. CASE n = Len(events)
  BY <1>1 DEF Drop
<1>2. CASE n < Len(events)
  BY <1>2 DEF Drop
<1>3. QED
  BY <1>1, <1>2

\* A buffer within the limits is a buffer again.
LEMMA EnforceReplayLimitsType ==
  ASSUME NEW buffer \in ReplayBuffers
  PROVE  EnforceReplayLimits(buffer) \in ReplayBuffers
<1>1. buffer.events \in Seq(Events) /\ buffer.evictedBefore \in Nat
  BY DEF ReplayBuffers
<1> DEFINE n == EvictionCount(buffer.events)
<1>2. n \in 0..Len(buffer.events)
  BY <1>1, EvictionCountType
<1> HIDE DEF n
<1>3. Drop(buffer.events, n) \in Seq(Events)
  BY <1>1, <1>2, DropType
<1>4. n # 0 => buffer.events[n].id + 1 \in Nat
  <2>1. SUFFICES ASSUME n # 0 PROVE buffer.events[n].id + 1 \in Nat
    OBVIOUS
  <2>2. buffer.events[n] \in Events
    BY <1>1, <1>2, <2>1
  <2>3. QED
    BY <2>2 DEF Events
<1>5. QED
  BY <1>1, <1>3, <1>4 DEF EnforceReplayLimits, ReplayBuffers, n

-----------------------------------------------------------------------------
\* A new store is well typed.
LEMMA InitType == Init => TypeOK
BY LimitsPositive
   DEF Init, TypeOK, RunRecords, ReplayBuffers, SubscriberRecords, PendingRecords,
       IdempotencyEntries

\* The operations on active runs and reservations keep the types.
LEMMA RunOperationType ==
  ASSUME TypeOK, RunOperation(RunScopes, IdempotencyScopes)
  PROVE  TypeOK'
<1> USE DEF runVars, eventVars, cleanedVars
<1>1. /\ RunsTypeOK /\ ReplayTypeOK /\ SubscribersTypeOK
      /\ PendingTypeOK /\ IdempotencyTypeOK /\ now \in Nat \ {0}
  BY TypeParts
<1>2. ASSUME NEW s \in RunScopes, StartRun(s)
      PROVE  TypeOK'
  <2>1. RunsTypeOK'
    BY <1>1, <1>2 DEF RunsTypeOK, StartRun, RunScopes, RunRecords, RunStates, LiveStates
  <2>2. ReplayTypeOK' /\ SubscribersTypeOK' /\ now' \in Nat \ {0}
    BY <1>1, <1>2 DEF StartRun, ReplayTypeOK, SubscribersTypeOK
  <2>3. PendingTypeOK' /\ IdempotencyTypeOK'
    BY <1>1, <1>2, CleanupType DEF StartRun
  <2>4. QED
    BY <2>1, <2>2, <2>3 DEF TypeOK, RunsTypeOK, ReplayTypeOK, SubscribersTypeOK,
                            PendingTypeOK, IdempotencyTypeOK
<1>3. ASSUME NEW s \in RunScopes, RestoreRunStateAfterPending(s)
      PROVE  TypeOK'
  BY <1>3 DEF TypeOK, RestoreRunStateAfterPending, IsTracked, RunScopes, RunRecords,
              RunStates, LiveStates
<1>4. ASSUME NEW s \in RunScopes, NEW state \in RunStates, UpdateRunState(s, state)
      PROVE  TypeOK'
  BY <1>4 DEF TypeOK, UpdateRunState, IsTracked, RunScopes, RunRecords
<1>5. ASSUME NEW s \in RunScopes, NEW run \in Runs, BindRunID(s, run)
      PROVE  TypeOK'
  BY <1>5 DEF TypeOK, BindRunID, IsTracked, RunScopes, RunRecords
<1>6. ASSUME NEW s \in RunScopes, NEW state \in TerminalStates, CompleteRun(s, state)
      PROVE  TypeOK'
  <2>1. activeRuns' \in [Chats -> RunRecords \cup {Null}]
    BY <1>1, <1>6 DEF RunsTypeOK, CompleteRun, RunScopes
  <2>2. SubscribersTypeOK'
    BY <1>1, <1>6 DEF SubscribersTypeOK, CompleteRun, ClosedSubscribers, SubscriberRecords
  <2>3. QED
    BY <1>6, <2>1, <2>2 DEF TypeOK, CompleteRun, SubscribersTypeOK
<1>7. ASSUME NEW i \in IdempotencyScopes, ReserveActiveRunCapacity(i)
      PROVE  TypeOK'
  <2>1. PendingTypeOK' /\ IdempotencyTypeOK'
    BY <1>1, <1>7, CleanupType DEF ReserveActiveRunCapacity
  <2>2. QED
    BY <1>7, <2>1 DEF TypeOK, ReserveActiveRunCapacity, PendingTypeOK, IdempotencyTypeOK
<1>8. ASSUME NEW i \in IdempotencyScopes, ReleaseActiveRunCapacity(i)
      PROVE  TypeOK'
  BY <1>8 DEF TypeOK, ReleaseActiveRunCapacity
<1>9. ASSUME NEW i \in IdempotencyScopes, NEW s \in RunScopes,
             StartRunWithReservation(i, s)
      PROVE  TypeOK'
  <2>1. RunsTypeOK'
    BY <1>1, <1>9 DEF RunsTypeOK, StartRunWithReservation, RunScopes, RunRecords,
                      RunStates, LiveStates
  <2>2. ReplayTypeOK' /\ SubscribersTypeOK' /\ now' \in Nat \ {0}
    BY <1>1, <1>9 DEF StartRunWithReservation, ReplayTypeOK, SubscribersTypeOK
  <2>3. PendingTypeOK' /\ IdempotencyTypeOK'
    BY <1>1, <1>9, CleanupType DEF StartRunWithReservation
  <2>4. QED
    BY <2>1, <2>2, <2>3 DEF TypeOK, RunsTypeOK, ReplayTypeOK, SubscribersTypeOK,
                            PendingTypeOK, IdempotencyTypeOK
<1>10. QED
  BY <1>2, <1>3, <1>4, <1>5, <1>6, <1>7, <1>8, <1>9 DEF RunOperation

\* A publication keeps every queue typed and within SubscriberQueue.
LEMMA PublishedType ==
  ASSUME SubscribersTypeOK, NEW s \in RunScopes, NEW e \in Events,
         subscribers' = Published(s, e)
  PROVE  SubscribersTypeOK'
<1>1. SUFFICES ASSUME NEW i \in SubscriberIds
               PROVE  /\ subscribers'[i] \in SubscriberRecords \cup {Null}
                      /\ subscribers'[i] # Null =>
                           Len(subscribers'[i].queue) <= SubscriberQueue
  BY DEF SubscribersTypeOK, Published
<1>2. CASE \/ subscribers[i] = Null
           \/ ~subscribers[i].open
           \/ subscribers[i].scope # s
  BY <1>2 DEF SubscribersTypeOK, Published
<1>3. CASE /\ subscribers[i] # Null
           /\ subscribers[i].open
           /\ subscribers[i].scope = s
  <2>1. /\ subscribers[i] \in SubscriberRecords
        /\ subscribers[i].queue \in Seq(Events)
        /\ Len(subscribers[i].queue) <= SubscriberQueue
    BY <1>3 DEF SubscribersTypeOK, SubscriberRecords
  <2>2. CASE Len(subscribers[i].queue) < SubscriberQueue
    <3>1. subscribers'[i] = [subscribers[i] EXCEPT !.queue = Append(@, e)]
      BY <1>3, <2>2 DEF Published
    <3>2. /\ Append(subscribers[i].queue, e) \in Seq(Events)
          /\ Len(Append(subscribers[i].queue, e)) <= SubscriberQueue
      BY <2>1, <2>2, LimitsPositive
    <3>3. QED
      BY <2>1, <3>1, <3>2 DEF SubscriberRecords
  <2>3. CASE ~(Len(subscribers[i].queue) < SubscriberQueue)
    <3>1. subscribers'[i] = [subscribers[i] EXCEPT !.open = FALSE]
      BY <1>3, <2>3 DEF Published
    <3>2. QED
      BY <2>1, <3>1 DEF SubscriberRecords
  <2>4. QED
    BY <2>2, <2>3
<1>4. QED
  BY <1>2, <1>3

\* AppendEvent and Replay keep the types.
LEMMA EventOperationType ==
  ASSUME TypeOK, EventOperation(RunScopes)
  PROVE  TypeOK'
<1> USE DEF runVars, eventVars, cleanedVars
<1>1. /\ RunsTypeOK /\ ReplayTypeOK /\ SubscribersTypeOK
      /\ PendingTypeOK /\ IdempotencyTypeOK /\ now \in Nat \ {0}
  BY TypeParts
<1>2. ASSUME NEW s \in RunScopes, NEW kind \in EventKinds, NEW size \in EventSizes,
             AppendEvent(s, kind, size)
      PROVE  TypeOK'
  <2> DEFINE e == [id |-> nextEventID + 1, kind |-> kind, at |-> now, size |-> size]
             buffer == IF replay[s] = Null THEN [events |-> <<>>, evictedBefore |-> 0]
                                           ELSE replay[s]
             grown == [buffer EXCEPT !.events = Append(@, e)]
  <2>1. e \in Events
    BY <1>1 DEF ReplayTypeOK, Events
  <2>2. buffer \in ReplayBuffers
    BY <1>1 DEF ReplayTypeOK, ReplayBuffers
  <2> HIDE DEF buffer
  <2>3. grown \in ReplayBuffers
    <3>1. buffer.events \in Seq(Events)
      BY <2>2 DEF ReplayBuffers
    <3>2. Append(buffer.events, e) \in Seq(Events)
      BY <2>1, <3>1
    <3>3. QED
      BY <2>2, <3>2 DEF ReplayBuffers
  <2>4. /\ replay' = [replay EXCEPT ![s] = EnforceReplayLimits(grown)]
        /\ subscribers' = Published(s, e)
        /\ log' = [log EXCEPT ![s] = Append(@, e)]
        /\ nextEventID' = nextEventID + 1
    BY <1>2 DEF AppendEvent, buffer
  <2> HIDE DEF e, grown
  <2>5. EnforceReplayLimits(grown) \in ReplayBuffers
    BY <2>3, EnforceReplayLimitsType
  <2>6. ReplayTypeOK'
    <3>1. Append(log[s], e) \in Seq(Events)
      BY <1>1, <2>1 DEF ReplayTypeOK
    <3>2. QED
      BY <1>1, <2>4, <2>5, <3>1 DEF ReplayTypeOK
  <2>7. SubscribersTypeOK'
    BY <1>1, <2>1, <2>4, PublishedType
  <2>8. PendingTypeOK' /\ IdempotencyTypeOK'
    BY <1>1, <1>2, CleanupType DEF AppendEvent
  <2>9. RunsTypeOK' /\ now' \in Nat \ {0}
    BY <1>1, <1>2 DEF AppendEvent, RunsTypeOK
  <2>10. QED
    BY <2>6, <2>7, <2>8, <2>9 DEF TypeOK, RunsTypeOK, ReplayTypeOK, SubscribersTypeOK,
                                  PendingTypeOK, IdempotencyTypeOK
<1>3. ASSUME NEW s \in RunScopes, Replay(s)
      PROVE  TypeOK'
  <2>1. ReplayTypeOK'
    <3>1. CASE replay[s] = Null \/ replay[s].events = <<>>
      BY <1>1, <1>3, <3>1 DEF ReplayTypeOK, Replay
    <3>2. CASE replay[s] # Null /\ replay[s].events # <<>>
      <4>1. replay[s] \in ReplayBuffers
        BY <1>1, <3>2 DEF ReplayTypeOK
      <4>2. EnforceReplayLimits(replay[s]) \in ReplayBuffers
        BY <4>1, EnforceReplayLimitsType
      <4>3. QED
        BY <1>1, <1>3, <3>2, <4>2 DEF ReplayTypeOK, Replay
    <3>3. QED
      BY <3>1, <3>2
  <2>2. PendingTypeOK' /\ IdempotencyTypeOK'
    BY <1>1, <1>3, CleanupType DEF Replay
  <2>3. RunsTypeOK' /\ SubscribersTypeOK' /\ now' \in Nat \ {0}
    BY <1>1, <1>3 DEF Replay, RunsTypeOK, SubscribersTypeOK
  <2>4. QED
    BY <2>1, <2>2, <2>3 DEF TypeOK, RunsTypeOK, ReplayTypeOK, SubscribersTypeOK,
                            PendingTypeOK, IdempotencyTypeOK
<1>4. QED
  BY <1>2, <1>3 DEF EventOperation

\* Subscribe, its cleanup and a receive keep the types.
LEMMA SubscriberOperationType ==
  ASSUME TypeOK, SubscriberOperation(RunScopes)
  PROVE  TypeOK'
<1> USE DEF runVars, cleanedVars
<1>1. SUFFICES SubscribersTypeOK'
  BY DEF TypeOK, SubscribersTypeOK, SubscriberOperation, Subscribe, Unsubscribe, Receive
<1>2. SubscribersTypeOK
  BY TypeParts
<1>3. ASSUME NEW i \in SubscriberIds, NEW s \in RunScopes, Subscribe(i, s)
      PROVE  SubscribersTypeOK'
  BY <1>2, <1>3, LimitsPositive DEF Subscribe, SubscribersTypeOK, SubscriberRecords
<1>4. ASSUME NEW i \in SubscriberIds, Unsubscribe(i)
      PROVE  SubscribersTypeOK'
  BY <1>2, <1>4 DEF Unsubscribe, SubscribersTypeOK, SubscriberRecords
<1>5. ASSUME NEW i \in SubscriberIds, Receive(i)
      PROVE  SubscribersTypeOK'
  <2>1. /\ subscribers[i] \in SubscriberRecords
        /\ subscribers[i].queue \in Seq(Events)
        /\ subscribers[i].queue # <<>>
        /\ Len(subscribers[i].queue) <= SubscriberQueue
    BY <1>2, <1>5 DEF Receive, SubscribersTypeOK, SubscriberRecords
  <2>2. /\ Tail(subscribers[i].queue) \in Seq(Events)
        /\ Len(Tail(subscribers[i].queue)) <= SubscriberQueue
    BY <2>1, LimitsPositive
  <2>3. [subscribers[i] EXCEPT !.queue = Tail(@)] \in SubscriberRecords
    BY <2>1, <2>2 DEF SubscriberRecords
  <2>4. subscribers' = [subscribers EXCEPT ![i] = [subscribers[i] EXCEPT !.queue = Tail(@)]]
    BY <1>5 DEF Receive
  <2>5. [subscribers[i] EXCEPT !.queue = Tail(@)].queue = Tail(subscribers[i].queue)
    BY <2>1 DEF SubscriberRecords
  <2>6. QED
    BY <1>2, <2>2, <2>3, <2>4, <2>5 DEF SubscribersTypeOK
<1>6. QED
  BY <1>3, <1>4, <1>5 DEF SubscriberOperation

\* The operations on pending requests keep the types.
LEMMA PendingOperationType ==
  ASSUME TypeOK, PendingOperation(RunScopes)
  PROVE  TypeOK'
<1> USE DEF runVars, eventVars
<1>1. /\ RunsTypeOK /\ PendingTypeOK /\ IdempotencyTypeOK /\ now \in Nat \ {0}
  BY TypeParts
<1>2. /\ CleanedPending \in [PendingKeys -> PendingRecords \cup {Null}]
      /\ CleanedIdempotency \in [StoreKeys -> IdempotencyEntries \cup {Null}]
  BY <1>1, CleanedPendingType, CleanedIdempotencyType
<1>3. ASSUME NEW s \in RunScopes, NEW id \in PendingIds,
             RegisterPending(s, id) \/ RegisterPendingForActiveRun(s, id)
      PROVE  TypeOK'
  <2>1. [status |-> "active", expiresAt |-> now + PendingTTL, resolvedAt |-> 0]
          \in PendingRecords
    BY <1>1, LimitsPositive DEF PendingRecords, PendingStatuses
  <2>2. RegisteredPending(s, id) \in [PendingKeys -> PendingRecords \cup {Null}]
    BY <1>2, <2>1 DEF RegisteredPending
  <2>3. PendingTypeOK' /\ IdempotencyTypeOK'
    BY <1>2, <1>3, <2>2 DEF RegisterPending, RegisterPendingForActiveRun,
                            CleanupIdempotency, PendingTypeOK, IdempotencyTypeOK
  <2>4. RunsTypeOK'
    BY <1>1, <1>3 DEF RegisterPending, RegisterPendingForActiveRun, RunsTypeOK, AcceptsPending,
                      IsActive, HasActiveRun, RunRecords, RunStates, LiveStates, RunScopes
  <2>5. QED
    BY <1>3, <2>3, <2>4 DEF TypeOK, RunsTypeOK, PendingTypeOK, IdempotencyTypeOK,
                            RegisterPending, RegisterPendingForActiveRun
<1>4. ASSUME NEW k \in PendingKeys, NEW p \in PendingRecords, UpdatePending(k, p)
      PROVE  TypeOK'
  <2>1. PendingTypeOK' /\ IdempotencyTypeOK'
    BY <1>2, <1>4 DEF UpdatePending, CleanupIdempotency, PendingTypeOK, IdempotencyTypeOK
  <2>2. QED
    BY <1>4, <2>1 DEF TypeOK, UpdatePending, PendingTypeOK, IdempotencyTypeOK
<1>5. ASSUME NEW k \in PendingKeys,
             \/ ClaimPendingResolution(k)
             \/ ReleasePendingResolutionClaim(k)
             \/ ResolvePending(k)
             \/ RelabelResolvedPending(k)
      PROVE  \E p \in PendingRecords : UpdatePending(k, p)
  <2> DEFINE p == CleanedPending[k]
  <2>1. p \in PendingRecords
    BY <1>2, <1>5 DEF ClaimPendingResolution, ReleasePendingResolutionClaim,
                      ResolvePending, RelabelResolvedPending
  <2>2. \A status \in PendingStatuses : [p EXCEPT !.status = status] \in PendingRecords
    BY <2>1 DEF PendingRecords
  <2>3. [p EXCEPT !.status = "resolved", !.resolvedAt = now] \in PendingRecords
    BY <1>1, <2>1 DEF PendingRecords, PendingStatuses
  <2>4. CASE ClaimPendingResolution(k)
    BY <2>2, <2>4 DEF ClaimPendingResolution, PendingStatuses
  <2>5. CASE ReleasePendingResolutionClaim(k)
    BY <2>2, <2>5 DEF ReleasePendingResolutionClaim, PendingStatuses
  <2>6. CASE ResolvePending(k)
    BY <2>3, <2>6 DEF ResolvePending
  <2>7. CASE RelabelResolvedPending(k)
    BY <2>2, <2>7 DEF RelabelResolvedPending, PendingStatuses
  <2>8. QED
    BY <1>5, <2>4, <2>5, <2>6, <2>7
<1>6. \A s \in RunScopes, id \in PendingIds : <<s, id>> \in PendingKeys
  BY DEF PendingKeys
<1>7. QED
  BY <1>3, <1>4, <1>5, <1>6 DEF PendingOperation

\* The operations on idempotency entries keep the types.
LEMMA IdempotencyOperationType ==
  ASSUME TypeOK, IdempotencyOperation(IdempotencyScopes)
  PROVE  TypeOK'
<1> USE DEF runVars, eventVars
<1>1. PendingTypeOK /\ IdempotencyTypeOK /\ now \in Nat \ {0}
  BY TypeParts
<1>2. /\ CleanedPending \in [PendingKeys -> PendingRecords \cup {Null}]
      /\ CleanedIdempotency \in [StoreKeys -> IdempotencyEntries \cup {Null}]
  BY <1>1, CleanedPendingType, CleanedIdempotencyType
<1>3. PICK i \in IdempotencyScopes :
        ReserveIdempotency(i) \/ CompleteIdempotency(i) \/ ReleaseIdempotency(i)
  BY DEF IdempotencyOperation
<1>4. PICK e \in IdempotencyEntries \cup {Null} : UpdateIdempotency(i, e)
  <2>1. \A state \in {"in_flight", "succeeded"} :
          [scope |-> i, state |-> state, updatedAt |-> now] \in IdempotencyEntries
    BY <1>1 DEF IdempotencyEntries
  <2>2. QED
    BY <1>3, <2>1 DEF ReserveIdempotency, CompleteIdempotency, ReleaseIdempotency
<1>5. PendingTypeOK' /\ IdempotencyTypeOK'
  BY <1>2, <1>4 DEF UpdateIdempotency, CleanupPending, PendingTypeOK, IdempotencyTypeOK
<1>6. QED
  BY <1>4, <1>5 DEF TypeOK, UpdateIdempotency, PendingTypeOK, IdempotencyTypeOK

\* Every operation of the store, whoever calls it, keeps the types.
LEMMA TypeStep ==
  ASSUME TypeOK, [Next]_vars
  PROVE  TypeOK'
<1>1. CASE RunOperation(RunScopes, IdempotencyScopes)
  BY <1>1, RunOperationType
<1>2. CASE EventOperation(RunScopes)
  BY <1>2, EventOperationType
<1>3. CASE SubscriberOperation(RunScopes)
  BY <1>3, SubscriberOperationType
<1>4. CASE PendingOperation(RunScopes)
  BY <1>4, PendingOperationType
<1>5. CASE IdempotencyOperation(IdempotencyScopes)
  BY <1>5, IdempotencyOperationType
<1>6. CASE Refused
  <2>1. PendingTypeOK' /\ IdempotencyTypeOK'
    BY <1>6, TypeParts, CleanupType DEF Refused
  <2>2. QED
    BY <1>6, <2>1 DEF TypeOK, Refused, PendingTypeOK, IdempotencyTypeOK, runVars, eventVars
<1>7. CASE Tick
  BY <1>7 DEF TypeOK, Tick, runVars, eventVars, cleanedVars
<1>8. CASE UNCHANGED vars
  BY <1>8 DEF TypeOK, vars
<1>9. QED
  BY <1>1, <1>2, <1>3, <1>4, <1>5, <1>6, <1>7, <1>8 DEF Next

\* Every reachable state of the store is well typed, and no subscriber channel
\* ever holds more than its buffer (Store.publishEventLocked).
THEOREM TypeCorrect == Spec => []TypeOK
<1>1. Init => TypeOK
  BY InitType
<1>2. QED
  BY <1>1, TypeStep, PTL DEF Spec
-----------------------------------------------------------------------------
\* The capacity is counted on finite sets: reservations grows by one scope at a
\* time from the empty set.
CapacityInv == IsFiniteSet(reservations) /\ ActiveRunCapacityHeld

\* The chats that count against the capacity are finitely many.
LEMMA ActiveChatsFinite == IsFiniteSet(ActiveChats) /\ IsFiniteSet(ActiveChats')
BY ChatsFinite, FS_Subset DEF ActiveChats

\* A step that starts a run on a chat adds at most that chat.
LEMMA StartCost ==
  ASSUME NEW c \in Chats, NEW r, activeRuns' = [activeRuns EXCEPT ![c] = r]
  PROVE  Cardinality(ActiveChats') <= Cardinality(ActiveChats) + 1
<1>1. ActiveChats' \subseteq ActiveChats \cup {c}
  BY DEF ActiveChats
<1>2. /\ IsFiniteSet(ActiveChats \cup {c})
      /\ Cardinality(ActiveChats \cup {c}) <= Cardinality(ActiveChats) + 1
  <2>1. Cardinality(ActiveChats) \in Nat
    BY ActiveChatsFinite, FS_CardinalityType
  <2>2. CASE c \in ActiveChats
    <3>1. ActiveChats \cup {c} = ActiveChats
      BY <2>2
    <3>2. QED
      BY <2>1, <3>1, ActiveChatsFinite
  <2>3. CASE c \notin ActiveChats
    <3>1. /\ IsFiniteSet(ActiveChats \cup {c})
          /\ Cardinality(ActiveChats \cup {c}) = Cardinality(ActiveChats) + 1
      BY <2>3, ActiveChatsFinite, FS_AddElement
    <3>2. QED
      BY <2>1, <3>1
  <2>4. QED
    BY <2>2, <2>3
<1>3. Cardinality(ActiveChats') <= Cardinality(ActiveChats \cup {c})
  BY <1>1, <1>2, FS_Subset
<1>4. QED
  BY <1>2, <1>3, ActiveChatsFinite, FS_CardinalityType

\* A step that only ends runs, or changes the run of a chat that has one, adds none.
LEMMA NoStartCost ==
  ASSUME ActiveChats' \subseteq ActiveChats
  PROVE  Cardinality(ActiveChats') <= Cardinality(ActiveChats)
BY ActiveChatsFinite, FS_Subset

\* No operation exceeds the capacity.
LEMMA CapacityStep ==
  ASSUME CapacityInv, [Next]_vars
  PROVE  CapacityInv'
<1> DEFINE active == Cardinality(ActiveChats)
           reserved == Cardinality(reservations)
<1>1. /\ IsFiniteSet(reservations)
      /\ active + reserved <= ActiveRunsCap
      /\ active \in Nat /\ reserved \in Nat /\ active' \in Nat
  BY ActiveChatsFinite, FS_CardinalityType
     DEF CapacityInv, ActiveRunCapacityHeld, ActiveChats
<1>2. SUFFICES /\ IsFiniteSet(reservations')
               /\ active' + reserved' <= ActiveRunsCap
  BY DEF CapacityInv, ActiveRunCapacityHeld, ActiveChats
<1>3. CASE UNCHANGED reservations /\ ActiveChats' \subseteq ActiveChats
  <2>1. active' <= active /\ reserved' = reserved
    BY <1>3, NoStartCost
  <2>2. QED
    BY <1>1, <1>3, <2>1, LimitsPositive
<1>4. ASSUME NEW s \in RunScopes, StartRun(s)
      PROVE  IsFiniteSet(reservations') /\ active' + reserved' <= ActiveRunsCap
  <2>1. active + reserved < ActiveRunsCap /\ reservations' = reservations
    BY <1>4 DEF StartRun, CapacityUsed, eventVars
  <2>2. active' <= active + 1
    BY <1>4, StartCost DEF StartRun, RunScopes
  <2>3. QED
    BY <1>1, <2>1, <2>2, LimitsPositive
<1>5. ASSUME NEW i \in IdempotencyScopes, ReserveActiveRunCapacity(i)
      PROVE  IsFiniteSet(reservations') /\ active' + reserved' <= ActiveRunsCap
  <2>1. active' = active /\ reservations' = reservations \cup {i}
    BY <1>5 DEF ReserveActiveRunCapacity, ActiveChats
  <2>2. IsFiniteSet(reservations')
    BY <1>1, <2>1, FS_AddElement
  <2>3. CASE i \in reservations
    <3>1. reservations' = reservations
      BY <2>1, <2>3
    <3>2. QED
      BY <1>1, <2>1, <3>1
  <2>4. CASE i \notin reservations
    <3>1. active + reserved < ActiveRunsCap
      BY <1>5, <2>4 DEF ReserveActiveRunCapacity, CapacityUsed
    <3>2. reserved' = reserved + 1
      BY <1>1, <2>1, <2>4, FS_AddElement
    <3>3. QED
      BY <1>1, <2>1, <2>2, <3>1, <3>2, LimitsPositive
  <2>5. QED
    BY <2>3, <2>4
<1>6. ASSUME NEW i \in IdempotencyScopes, ReleaseActiveRunCapacity(i)
      PROVE  IsFiniteSet(reservations') /\ active' + reserved' <= ActiveRunsCap
  <2>1. active' = active /\ reservations' = reservations \ {i}
    BY <1>6 DEF ReleaseActiveRunCapacity, ActiveChats
  <2>2. IsFiniteSet(reservations') /\ reserved' <= reserved /\ reserved' \in Nat
    <3>1. reservations' \subseteq reservations
      BY <2>1
    <3>2. QED
      BY <1>1, <3>1, FS_Subset, FS_CardinalityType
  <2>3. QED
    BY <1>1, <2>1, <2>2, LimitsPositive
<1>7. ASSUME NEW i \in IdempotencyScopes, NEW s \in RunScopes,
             StartRunWithReservation(i, s)
      PROVE  IsFiniteSet(reservations') /\ active' + reserved' <= ActiveRunsCap
  <2>1. i \in reservations /\ reservations' = reservations \ {i}
    BY <1>7 DEF StartRunWithReservation
  <2>2. IsFiniteSet(reservations') /\ reserved' = reserved - 1
    BY <1>1, <2>1, FS_RemoveElement
  <2>3. active' <= active + 1
    BY <1>7, StartCost DEF StartRunWithReservation, RunScopes
  <2>4. QED
    BY <1>1, <2>2, <2>3, LimitsPositive
<1>8. ASSUME NEW s \in RunScopes,
             \/ RestoreRunStateAfterPending(s)
             \/ \E state \in RunStates : UpdateRunState(s, state)
             \/ \E run \in Runs : BindRunID(s, run)
             \/ \E state \in TerminalStates : CompleteRun(s, state)
      PROVE  UNCHANGED reservations /\ ActiveChats' \subseteq ActiveChats
  <2>1. activeRuns[s[1]] # Null /\ UNCHANGED reservations
    BY <1>8 DEF RestoreRunStateAfterPending, UpdateRunState, BindRunID, CompleteRun,
                IsTracked
  <2>2. \E r : activeRuns' = [activeRuns EXCEPT ![s[1]] = r]
    <3>1. CASE RestoreRunStateAfterPending(s)
      BY <3>1 DEF RestoreRunStateAfterPending
    <3>2. CASE \E state \in RunStates : UpdateRunState(s, state)
      BY <3>2 DEF UpdateRunState
    <3>3. CASE \E run \in Runs : BindRunID(s, run)
      BY <3>3 DEF BindRunID
    <3>4. CASE \E state \in TerminalStates : CompleteRun(s, state)
      BY <3>4 DEF CompleteRun
    <3>5. QED
      BY <1>8, <3>1, <3>2, <3>3, <3>4
  <2>3. QED
    BY <2>1, <2>2 DEF ActiveChats
<1>9. CASE EventOperation(RunScopes) \/ SubscriberOperation(RunScopes)
  <2>1. UNCHANGED <<activeRuns, reservations>>
    <3>1. ASSUME EventOperation(RunScopes)
          PROVE  UNCHANGED <<activeRuns, reservations>>
      <4>1. PICK t \in RunScopes :
              \/ \E kind \in EventKinds, size \in EventSizes : AppendEvent(t, kind, size)
              \/ Replay(t)
        BY <3>1 DEF EventOperation
      <4>2. QED
        BY <4>1 DEF AppendEvent, Replay, runVars
    <3>2. ASSUME SubscriberOperation(RunScopes)
          PROVE  UNCHANGED <<activeRuns, reservations>>
      BY <3>2 DEF SubscriberOperation, Subscribe, Unsubscribe, Receive, runVars
    <3>3. QED
      BY <1>9, <3>1, <3>2
  <2>2. ActiveChats' \subseteq ActiveChats
    BY <2>1 DEF ActiveChats
  <2>3. QED
    BY <1>3, <2>1, <2>2
<1>10. CASE PendingOperation(RunScopes)
  <2>1. PICK t \in RunScopes, id \in PendingIds :
          \/ RegisterPending(t, id)
          \/ RegisterPendingForActiveRun(t, id)
          \/ ClaimPendingResolution(<<t, id>>)
          \/ ReleasePendingResolutionClaim(<<t, id>>)
          \/ ResolvePending(<<t, id>>)
          \/ RelabelResolvedPending(<<t, id>>)
    BY <1>10 DEF PendingOperation
  <2>2. CASE RegisterPendingForActiveRun(t, id)
    BY <1>3, <2>2 DEF RegisterPendingForActiveRun, AcceptsPending, IsActive, HasActiveRun,
                      ActiveChats
  <2>3. CASE ~RegisterPendingForActiveRun(t, id)
    <3>1. UNCHANGED <<activeRuns, reservations>>
      BY <2>1, <2>3 DEF RegisterPending, ClaimPendingResolution,
           ReleasePendingResolutionClaim, ResolvePending, RelabelResolvedPending,
           UpdatePending, runVars
    <3>2. ActiveChats' \subseteq ActiveChats
      BY <3>1 DEF ActiveChats
    <3>3. QED
      BY <1>3, <3>1, <3>2
  <2>4. QED
    BY <2>2, <2>3
<1>11. CASE IdempotencyOperation(IdempotencyScopes) \/ Refused \/ Tick \/ UNCHANGED vars
  BY <1>3, <1>11 DEF IdempotencyOperation, ReserveIdempotency, CompleteIdempotency,
                     ReleaseIdempotency, UpdateIdempotency, Refused, Tick, ActiveChats,
                     runVars, vars
<1>12. CASE RunOperation(RunScopes, IdempotencyScopes)
  BY <1>3, <1>4, <1>5, <1>6, <1>7, <1>8, <1>12 DEF RunOperation
<1>13. QED
  BY <1>9, <1>10, <1>11, <1>12 DEF Next

\* Active runs and reservations together stay within ActiveRunsCap, although
\* StartRunWithReservation does not look at the capacity.
THEOREM ActiveRunCapacity == Spec => []ActiveRunCapacityHeld
<1>1. Init => CapacityInv
  <2>1. SUFFICES ASSUME Init PROVE CapacityInv
    OBVIOUS
  <2>2. {c \in Chats : activeRuns[c] # Null} = {} /\ reservations = {}
    BY <2>1 DEF Init
  <2>3. QED
    BY <2>2, FS_EmptySet, LimitsPositive DEF CapacityInv, ActiveRunCapacityHeld
<1>2. CapacityInv /\ [Next]_vars => CapacityInv'
  BY CapacityStep
<1>3. CapacityInv => ActiveRunCapacityHeld
  BY DEF CapacityInv
<1>4. QED
  BY <1>1, <1>2, <1>3, PTL DEF Spec
-----------------------------------------------------------------------------
\* A suffix stays one when an event is appended to both sequences.
LEMMA SuffixAppend ==
  ASSUME NEW queue \in Seq(Events), NEW events \in Seq(Events), NEW e \in Events,
         IsSuffix(queue, events)
  PROVE  IsSuffix(Append(queue, e), Append(events, e))
<1>1. /\ Len(queue) \in Nat /\ Len(events) \in Nat
      /\ Len(Append(queue, e)) = Len(queue) + 1
      /\ Len(Append(events, e)) = Len(events) + 1
  OBVIOUS
<1> DEFINE grown == Append(queue, e)
           longer == Append(events, e)
<1>2. SUFFICES ASSUME NEW j \in 1..Len(grown)
               PROVE  grown[j] = longer[Len(events) - Len(queue) + j]
  <2>1. Len(longer) - Len(grown) = Len(events) - Len(queue)
    BY <1>1
  <2>2. Len(grown) <= Len(longer)
    BY <1>1 DEF IsSuffix
  <2> HIDE DEF grown, longer
  <2>3. QED
    BY <2>1, <2>2 DEF IsSuffix, grown, longer
<1>3. CASE j = Len(queue) + 1
  BY <1>1, <1>3
<1>4. CASE j \in 1..Len(queue)
  <2>1. Len(events) - Len(queue) + j \in 1..Len(events)
    BY <1>1, <1>4 DEF IsSuffix
  <2>2. queue[j] = events[Len(events) - Len(queue) + j]
    BY <1>4 DEF IsSuffix
  <2>3. QED
    BY <1>1, <1>4, <2>1, <2>2
<1>5. j = Len(queue) + 1 \/ j \in 1..Len(queue)
  <2>1. j \in 1..(Len(queue) + 1)
    BY <1>1
  <2>2. QED
    BY <1>1, <2>1
<1>6. QED
  BY <1>3, <1>4, <1>5

\* A suffix stays one when its first event is taken.
LEMMA SuffixTail ==
  ASSUME NEW queue \in Seq(Events), NEW events \in Seq(Events), queue # <<>>,
         IsSuffix(queue, events)
  PROVE  IsSuffix(Tail(queue), events)
<1>1. Len(queue) \in Nat \ {0} /\ Len(events) \in Nat /\ Len(Tail(queue)) = Len(queue) - 1
  OBVIOUS
<1> DEFINE rest == Tail(queue)
<1>2. SUFFICES ASSUME NEW j \in 1..Len(rest)
               PROVE  rest[j] = events[Len(events) - (Len(queue) - 1) + j]
  <2>1. Len(rest) = Len(queue) - 1 /\ Len(rest) <= Len(events)
    BY <1>1 DEF IsSuffix
  <2> HIDE DEF rest
  <2>2. QED
    BY <1>1, <2>1 DEF IsSuffix, rest
<1>3. Tail(queue)[j] = queue[j + 1] /\ j + 1 \in 1..Len(queue)
  BY <1>1
<1>4. queue[j + 1] = events[Len(events) - Len(queue) + (j + 1)]
  BY <1>3 DEF IsSuffix
<1>5. Len(events) - Len(queue) + (j + 1) = Len(events) - (Len(queue) - 1) + j
  BY <1>1
<1>6. QED
  BY <1>3, <1>4, <1>5

\* The property of one subscriber.
MissesNothing(i) ==
  subscribers[i] # Null /\ subscribers[i].open
    => IsSuffix(subscribers[i].queue, log[subscribers[i].scope])

\* A step that leaves a subscriber alone or closes it, and appends no event to
\* its run, keeps its property.
LEMMA UntouchedSubscriber ==
  ASSUME TypeOK, NEW i \in SubscriberIds, MissesNothing(i),
         \/ subscribers'[i] = subscribers[i]
         \/ subscribers[i] # Null /\ subscribers'[i] = [subscribers[i] EXCEPT !.open = FALSE],
         subscribers[i] # Null => log'[subscribers[i].scope] = log[subscribers[i].scope]
  PROVE  MissesNothing(i)'
<1>1. CASE subscribers'[i] = subscribers[i]
  BY <1>1 DEF MissesNothing
<1>2. CASE subscribers[i] # Null /\ subscribers'[i] = [subscribers[i] EXCEPT !.open = FALSE]
  <2>1. subscribers[i] \in SubscriberRecords
    BY <1>2 DEF TypeOK
  <2>2. subscribers'[i].open = FALSE
    BY <1>2, <2>1 DEF SubscriberRecords
  <2>3. QED
    BY <2>2 DEF MissesNothing
<1>3. QED
  BY <1>1, <1>2

\* An event reaches every open subscriber of its run, or closes it.
LEMMA AppendEventMissesNothing ==
  ASSUME TypeOK, NEW s \in RunScopes, NEW kind \in EventKinds, NEW size \in EventSizes,
         AppendEvent(s, kind, size), NEW i \in SubscriberIds, MissesNothing(i)
  PROVE  MissesNothing(i)'
<1> DEFINE e == [id |-> nextEventID + 1, kind |-> kind, at |-> now, size |-> size]
<1>1. e \in Events
  BY DEF TypeOK, Events
<1>2. subscribers' = Published(s, e) /\ log' = [log EXCEPT ![s] = Append(@, e)]
  BY DEF AppendEvent
<1> HIDE DEF e
<1>3. CASE subscribers[i] = Null
  <2>1. subscribers'[i] = Null
    BY <1>2, <1>3 DEF Published
  <2>2. QED
    BY <2>1 DEF MissesNothing
<1>4. CASE subscribers[i] # Null /\ ~subscribers[i].open
  <2>1. subscribers'[i] = subscribers[i]
    BY <1>2, <1>4 DEF Published
  <2>2. QED
    BY <1>4, <2>1 DEF MissesNothing
<1>5. CASE subscribers[i] # Null /\ subscribers[i].open
  <2>1. /\ subscribers[i] \in SubscriberRecords
        /\ subscribers[i].queue \in Seq(Events)
        /\ subscribers[i].scope \in RunScopes
    BY <1>5 DEF TypeOK, SubscriberRecords
  <2>2. CASE subscribers[i].scope # s
    <3>1. subscribers'[i] = subscribers[i]
      BY <1>2, <1>5, <2>2 DEF Published
    <3>2. log'[subscribers[i].scope] = log[subscribers[i].scope]
      BY <1>2, <2>1, <2>2 DEF TypeOK
    <3>3. QED
      BY <1>5, <3>1, <3>2, UntouchedSubscriber
  <2>3. CASE subscribers[i].scope = s /\ Len(subscribers[i].queue) < SubscriberQueue
    <3>1. subscribers'[i] = [subscribers[i] EXCEPT !.queue = Append(@, e)]
      BY <1>2, <1>5, <2>3 DEF Published
    <3>2. /\ subscribers'[i].queue = Append(subscribers[i].queue, e)
          /\ subscribers'[i].scope = s
      BY <2>1, <2>3, <3>1 DEF SubscriberRecords
    <3>3. log[s] \in Seq(Events) /\ log'[s] = Append(log[s], e)
      BY <1>2 DEF TypeOK
    <3>4. IsSuffix(subscribers[i].queue, log[s])
      BY <1>5, <2>3 DEF MissesNothing
    <3>5. IsSuffix(Append(subscribers[i].queue, e), Append(log[s], e))
      BY <1>1, <2>1, <3>3, <3>4, SuffixAppend
    <3>6. QED
      BY <3>2, <3>3, <3>5 DEF MissesNothing
  <2>4. CASE subscribers[i].scope = s /\ ~(Len(subscribers[i].queue) < SubscriberQueue)
    <3>1. subscribers'[i] = [subscribers[i] EXCEPT !.open = FALSE]
      BY <1>2, <1>5, <2>4 DEF Published
    <3>2. ~subscribers'[i].open
      BY <2>1, <3>1 DEF SubscriberRecords
    <3>3. QED
      BY <3>2 DEF MissesNothing
  <2>5. QED
    BY <2>2, <2>3, <2>4
<1>6. QED
  BY <1>3, <1>4, <1>5

\* A subscription starts with nothing to miss, a receive takes the oldest event.
LEMMA SubscriberOperationMissesNothing ==
  ASSUME TypeOK, SubscriberOperation(RunScopes), NEW i \in SubscriberIds, MissesNothing(i)
  PROVE  MissesNothing(i)'
<1>1. PICK j \in SubscriberIds :
        (\E s \in RunScopes : Subscribe(j, s)) \/ Unsubscribe(j) \/ Receive(j)
  BY DEF SubscriberOperation
<1>2. log' = log
  BY <1>1 DEF Subscribe, Unsubscribe, Receive
<1>3. CASE i # j
  <2>1. subscribers'[i] = subscribers[i]
    BY <1>1, <1>3 DEF Subscribe, Unsubscribe, Receive, TypeOK
  <2>2. QED
    BY <1>2, <2>1, UntouchedSubscriber
<1>4. CASE i = j /\ \E s \in RunScopes : Subscribe(j, s)
  <2>1. PICK s \in RunScopes : subscribers'[i] = [scope |-> s, queue |-> <<>>, open |-> TRUE]
    BY <1>4 DEF Subscribe, TypeOK
  <2>2. log[s] \in Seq(Events)
    BY DEF TypeOK
  <2>3. IsSuffix(<<>>, log[s])
    BY <2>2 DEF IsSuffix
  <2>4. QED
    BY <1>2, <2>1, <2>3 DEF MissesNothing
<1>5. CASE i = j /\ Unsubscribe(j)
  <2>1. subscribers[i] # Null /\ subscribers'[i] = [subscribers[i] EXCEPT !.open = FALSE]
    BY <1>5 DEF Unsubscribe, TypeOK
  <2>2. QED
    BY <1>2, <2>1, UntouchedSubscriber
<1>6. CASE i = j /\ Receive(j)
  <2>1. /\ subscribers[i] \in SubscriberRecords
        /\ subscribers[i].queue \in Seq(Events)
        /\ subscribers[i].queue # <<>>
        /\ subscribers'[i] = [subscribers[i] EXCEPT !.queue = Tail(@)]
    BY <1>6 DEF Receive, TypeOK, SubscriberRecords
  <2>2. /\ subscribers'[i].queue = Tail(subscribers[i].queue)
        /\ subscribers'[i].scope = subscribers[i].scope
        /\ subscribers'[i].open = subscribers[i].open
        /\ subscribers[i].scope \in RunScopes
    BY <2>1 DEF SubscriberRecords
  <2>3. log[subscribers[i].scope] \in Seq(Events)
    BY <2>2 DEF TypeOK
  <2>4. SUFFICES ASSUME subscribers[i].open
                 PROVE  IsSuffix(Tail(subscribers[i].queue), log[subscribers[i].scope])
    BY <1>2, <2>2 DEF MissesNothing
  <2>5. IsSuffix(subscribers[i].queue, log[subscribers[i].scope])
    BY <1>6, <2>4 DEF MissesNothing, Receive
  <2>6. QED
    BY <2>1, <2>3, <2>5, SuffixTail
<1>7. QED
  BY <1>1, <1>3, <1>4, <1>5, <1>6

\* An open subscriber's queue always ends with the latest event of its run:
\* overflow closes the channel instead of leaving a hole in the stream.
THEOREM SubscriberMissesNothing == Spec => []OpenSubscriberMissesNothing
<1>1. Init => OpenSubscriberMissesNothing
  BY DEF Init, OpenSubscriberMissesNothing
<1>2. TypeOK /\ OpenSubscriberMissesNothing /\ [Next]_vars => OpenSubscriberMissesNothing'
  <2>1. SUFFICES ASSUME TypeOK, OpenSubscriberMissesNothing, [Next]_vars,
                        NEW i \in SubscriberIds
                 PROVE  MissesNothing(i)'
    BY DEF OpenSubscriberMissesNothing, MissesNothing
  <2>2. MissesNothing(i)
    BY <2>1 DEF OpenSubscriberMissesNothing, MissesNothing
  <2>3. CASE UNCHANGED <<subscribers, log>>
    BY <2>1, <2>2, <2>3, UntouchedSubscriber
  <2>4. CASE RunOperation(RunScopes, IdempotencyScopes)
    <3>1. CASE \E s \in RunScopes : \E state \in TerminalStates : CompleteRun(s, state)
      <4>1. log' = log /\ \E s : subscribers' = ClosedSubscribers(s)
        BY <3>1 DEF CompleteRun
      <4>2. \/ subscribers'[i] = subscribers[i]
            \/ subscribers[i] # Null /\ subscribers'[i] = [subscribers[i] EXCEPT !.open = FALSE]
        BY <4>1 DEF ClosedSubscribers
      <4>3. QED
        BY <2>1, <2>2, <4>1, <4>2, UntouchedSubscriber
    <3>2. CASE ~\E s \in RunScopes : \E state \in TerminalStates : CompleteRun(s, state)
      BY <2>3, <2>4, <3>2
         DEF RunOperation, StartRun, RestoreRunStateAfterPending, UpdateRunState, BindRunID,
             ReserveActiveRunCapacity, ReleaseActiveRunCapacity, StartRunWithReservation,
             eventVars
    <3>3. QED
      BY <3>1, <3>2
  <2>5. CASE EventOperation(RunScopes)
    <3>1. PICK s \in RunScopes :
            \/ \E kind \in EventKinds, size \in EventSizes : AppendEvent(s, kind, size)
            \/ Replay(s)
      BY <2>5 DEF EventOperation
    <3>2. CASE Replay(s)
      BY <2>3, <3>2 DEF Replay
    <3>3. CASE \E kind \in EventKinds, size \in EventSizes : AppendEvent(s, kind, size)
      BY <2>1, <2>2, <3>3, AppendEventMissesNothing
    <3>4. QED
      BY <3>1, <3>2, <3>3
  <2>6. CASE SubscriberOperation(RunScopes)
    BY <2>1, <2>2, <2>6, SubscriberOperationMissesNothing
  <2>7. CASE PendingOperation(RunScopes)
    <3>1. PICK s \in RunScopes, id \in PendingIds :
            \/ RegisterPending(s, id)
            \/ RegisterPendingForActiveRun(s, id)
            \/ ClaimPendingResolution(<<s, id>>)
            \/ ReleasePendingResolutionClaim(<<s, id>>)
            \/ ResolvePending(<<s, id>>)
            \/ RelabelResolvedPending(<<s, id>>)
      BY <2>7 DEF PendingOperation
    <3>2. UNCHANGED <<subscribers, log>>
      BY <3>1 DEF RegisterPending, RegisterPendingForActiveRun, ClaimPendingResolution,
           ReleasePendingResolutionClaim, ResolvePending, RelabelResolvedPending,
           UpdatePending, eventVars
    <3>3. QED
      BY <2>3, <3>2
  <2>8. CASE IdempotencyOperation(IdempotencyScopes) \/ Refused \/ Tick \/ UNCHANGED vars
    BY <2>3, <2>8
       DEF IdempotencyOperation, ReserveIdempotency, CompleteIdempotency,
           ReleaseIdempotency, UpdateIdempotency, Refused, Tick, eventVars, vars
  <2>9. QED
    BY <2>1, <2>4, <2>5, <2>6, <2>7, <2>8 DEF Next
<1>3. QED
  BY <1>1, <1>2, TypeCorrect, PTL DEF Spec

-----------------------------------------------------------------------------
(* Replay                                                                  *)

\* Induction over the length of a sequence: of the lengths for which a claim
\* fails, were there any, one would be the least.
LEMMA LeastNumber ==
  ASSUME NEW T, T \subseteq Nat, T # {}
  PROVE  \E x \in T : \A y \in T : x <= y
<1> DEFINE R == OpToRel(<, Nat)
<1>1. IsWellFoundedOn(R, Nat)
  BY NatLessThanWellFounded, Zenon
<1>2. ASSUME NEW x \in Nat, NEW y \in Nat, y < x
      PROVE  <<y, x>> \in R
  <2>1. <<y, x>> \in {p \in Nat \X Nat : p[1] < p[2]}
    BY <1>2
  <2> QED BY <2>1 DEF OpToRel
<1> HIDE DEF R
<1>3. PICK x \in T : \A y \in T : <<y, x>> \notin R
  <2>1. \E x \in T : \A y \in T : <<y, x>> \notin R
    BY <1>1, WFMin
  <2> QED BY <2>1
<1>4. \A y \in T : ~(y < x)
  BY <1>2, <1>3
<1>5. \A y \in T : x <= y
  BY <1>4, x \in Nat
<1> QED BY <1>5

\* What the loop of Replay has picked after i events, and a table of it for i up to n.
PicksNext(f, events, after, i) ==
  IF i = 0 THEN <<>>
  ELSE IF events[i].id > after THEN Append(f[i - 1], events[i]) ELSE f[i - 1]
IsPicked(f, events, after, n) == f = [i \in 0..n |-> PicksNext(f, events, after, i)]

\* The loop computes something for every sequence.
LEMMA LoopPicks ==
  ASSUME NEW events \in Seq(Events), NEW after
  PROVE  \E f : IsPicked(f, events, after, Len(events))
<1> DEFINE missing == {n \in 0..Len(events) : ~\E f : IsPicked(f, events, after, n)}
<1> SUFFICES ASSUME missing # {} PROVE FALSE
  <2>1. Len(events) \in 0..Len(events)
    OBVIOUS
  <2> QED BY <2>1
<1>1. PICK n \in missing : \A m \in missing : n <= m
  <2>1. missing \subseteq Nat
    OBVIOUS
  <2> HIDE DEF missing
  <2> QED BY <2>1, LeastNumber
<1>2. n \in 0..Len(events) /\ ~\E f : IsPicked(f, events, after, n)
  BY <1>1
<1>3. \A m \in 0..Len(events) : m < n => \E f : IsPicked(f, events, after, m)
  BY <1>1, <1>2
<1> HIDE DEF missing
<1>4. CASE n = 0
  <2> DEFINE f == [i \in 0..0 |-> <<>>]
  <2>1. IsPicked(f, events, after, 0)
    BY DEF IsPicked, PicksNext
  <2> QED BY <1>2, <1>4, <2>1
<1>5. CASE n > 0
  <2>1. n - 1 \in 0..Len(events) /\ n - 1 < n
    BY <1>2, <1>5
  <2>2. PICK f : IsPicked(f, events, after, n - 1)
    BY <1>3, <2>1
  <2> DEFINE g == [i \in 0..n |-> PicksNext(f, events, after, i)]
  <2>3. \A i \in 0..(n - 1) : g[i] = f[i]
    <3>1. \A i \in 0..(n - 1) : f[i] = PicksNext(f, events, after, i) /\ i \in 0..n
      BY <1>2, <2>2 DEF IsPicked
    <3> QED BY <3>1
  <2>4. \A i \in 0..n : i # 0 => i - 1 \in 0..(n - 1)
    BY <1>2
  <2>5. \A i \in 0..n : PicksNext(f, events, after, i) = PicksNext(g, events, after, i)
    <3> HIDE DEF g
    <3> QED BY <2>3, <2>4 DEF PicksNext
  <2>6. g = [i \in 0..n |-> PicksNext(g, events, after, i)]
    BY <2>5
  <2>7. IsPicked(g, events, after, n)
    BY <2>6 DEF IsPicked
  <2> QED BY <1>2, <2>7
<1> QED BY <1>2, <1>4, <1>5

\* What is left when the first events go.
LEMMA DropElements ==
  ASSUME NEW events \in Seq(Events), NEW n \in 0..Len(events)
  PROVE  /\ Drop(events, n) \in Seq(Events) /\ Len(Drop(events, n)) = Len(events) - n
         /\ \A j \in 1..(Len(events) - n) : Drop(events, n)[j] = events[n + j]
<1>1. /\ Len(events) \in Nat /\ n \in Nat /\ n + 1 \in Int
      /\ \A i \in (n + 1)..Len(events) : events[i] \in Events
  OBVIOUS
<1>2. /\ Len(SubSeq(events, n + 1, Len(events)))
           = IF n + 1 <= Len(events) THEN Len(events) - (n + 1) + 1 ELSE 0
      /\ \A i \in 1..(Len(events) - (n + 1) + 1) :
           SubSeq(events, n + 1, Len(events))[i] = events[(n + 1) + i - 1]
  BY <1>1, SubSeqProperties
<1>3. Drop(events, n) \in Seq(Events)
  BY DropType
<1>4. \A i \in 1..(Len(events) - n) :
         i \in 1..(Len(events) - (n + 1) + 1) /\ (n + 1) + i - 1 = n + i
  BY <1>1
<1> QED BY <1>1, <1>2, <1>3, <1>4 DEF Drop

\* In a sequence whose ids grow the loop picks what follows the cursor.
LEMMA PicksTheRest ==
  ASSUME NEW events \in Seq(Events), NEW after, NEW m \in 0..Len(events),
         \A i \in 1..Len(events) : events[i].id > after <=> i > m
  PROVE  EventsAfter(events, after) = Drop(events, m)
<1> DEFINE N == Len(events)
           f == CHOOSE f : IsPicked(f, events, after, N)
           Right(n) == /\ f[n] \in Seq(Events)
                       /\ Len(f[n]) = IF n > m THEN n - m ELSE 0
                       /\ \A j \in 1..(n - m) : f[n][j] = events[m + j]
<1>1. EventsAfter(events, after) = f[N]
  BY DEF EventsAfter, IsPicked, PicksNext
<1>2. IsPicked(f, events, after, N)
  BY LoopPicks
<1> HIDE DEF f
<1>3. /\ f[0] = <<>>
      /\ \A n \in 1..N : f[n] = IF n > m THEN Append(f[n - 1], events[n]) ELSE f[n - 1]
  <2>1. \A n \in 0..N : f[n] = PicksNext(f, events, after, n)
    BY <1>2 DEF IsPicked
  <2>2. 0 \in 0..N /\ \A n \in 1..N : n \in 0..N /\ n # 0
    OBVIOUS
  <2> QED BY <2>1, <2>2 DEF PicksNext
<1>4. \A n \in 0..N : Right(n)
  <2> DEFINE wrong == {n \in 0..N : ~Right(n)}
  <2> SUFFICES ASSUME wrong # {} PROVE FALSE
    OBVIOUS
  <2>1. PICK n \in wrong : \A i \in wrong : n <= i
    <3>1. wrong \subseteq Nat
      OBVIOUS
    <3> HIDE DEF wrong
    <3> QED BY <3>1, LeastNumber
  <2>2. n \in 0..N /\ ~Right(n) /\ \A i \in 0..N : i < n => Right(i)
    BY <2>1
  <2> HIDE DEF wrong
  <2>3. n # 0
    <3>1. Right(0)
      BY <1>3
    <3> QED BY <2>2, <3>1
  <2>4. Right(n - 1) /\ n \in 1..N
    BY <2>2, <2>3
  <2>5. CASE n > m
    <3>1. f[n] = Append(f[n - 1], events[n]) /\ events[n] \in Events
      <4>1. events[n] \in Events
        BY <2>4
      <4> QED BY <1>3, <2>4, <2>5, <4>1
    <3>2. Len(f[n - 1]) = (n - 1) - m
      BY <2>4, <2>5
    <3>3. f[n] \in Seq(Events) /\ Len(f[n]) = n - m
      BY <2>4, <3>1, <3>2
    <3>4. ASSUME NEW j \in 1..(n - m) PROVE f[n][j] = events[m + j]
      <4>1. CASE j = n - m
        BY <2>4, <2>5, <3>1, <3>2, <4>1
      <4>2. CASE j \in 1..((n - 1) - m)
        BY <2>4, <3>1, <3>2, <4>2
      <4> QED BY <2>4, <2>5, <4>1, <4>2
    <3> QED BY <2>2, <2>5, <3>3, <3>4
  <2>6. CASE n <= m
    <3>1. f[n] = f[n - 1]
      BY <1>3, <2>4, <2>6
    <3> QED BY <2>2, <2>4, <2>6, <3>1
  <2> QED BY <2>4, <2>5, <2>6
<1>5. /\ f[N] \in Seq(Events) /\ Len(f[N]) = N - m
      /\ \A j \in 1..(N - m) : f[N][j] = events[m + j]
  BY <1>4
<1>6. /\ Drop(events, m) \in Seq(Events) /\ Len(Drop(events, m)) = N - m
      /\ \A j \in 1..(N - m) : Drop(events, m)[j] = events[m + j]
  BY DropElements
<1>7. f[N] = Drop(events, m)
  <2>1. /\ Len(f[N]) = Len(Drop(events, m))
        /\ \A i \in 1..Len(f[N]) : f[N][i] = Drop(events, m)[i]
    BY <1>5, <1>6
  <2> QED BY <1>5, <1>6, <2>1, SeqEqual
<1> QED BY <1>1, <1>7

\* Event ids grow along the log of a run, and its buffer is the end of the log.
LogGrows(s) ==
  /\ \A i \in 1..Len(log[s]) : log[s][i].id \in 1..nextEventID
  /\ \A i, j \in 1..Len(log[s]) : i < j => log[s][i].id < log[s][j].id
BufferIsSuffix(s) == replay[s] # Null => IsSuffix(replay[s].events, log[s])
ReplayInv == \A s \in RunScopes : LogGrows(s) /\ BufferIsSuffix(s)

\* A suffix stays one when its first events go.
LEMMA SuffixDrop ==
  ASSUME NEW queue \in Seq(Events), NEW events \in Seq(Events), IsSuffix(queue, events),
         NEW n \in 0..Len(queue)
  PROVE  IsSuffix(Drop(queue, n), events)
<1> DEFINE rest == Drop(queue, n)
<1>1. /\ Len(rest) = Len(queue) - n
      /\ \A j \in 1..(Len(queue) - n) : rest[j] = queue[n + j]
  BY DropElements
<1>2. Len(queue) \in Nat /\ Len(events) \in Nat /\ Len(queue) <= Len(events)
  BY DEF IsSuffix
<1> HIDE DEF rest
<1>3. ASSUME NEW j \in 1..Len(rest)
      PROVE  rest[j] = events[Len(events) - Len(rest) + j]
  <2>1. n + j \in 1..Len(queue)
    BY <1>1, <1>2, <1>3
  <2>2. queue[n + j] = events[Len(events) - Len(queue) + (n + j)]
    BY <2>1 DEF IsSuffix
  <2>3. Len(events) - Len(queue) + (n + j) = Len(events) - Len(rest) + j
    BY <1>1, <1>2
  <2>4. j \in 1..(Len(queue) - n)
    BY <1>1, <1>3
  <2> QED BY <1>1, <2>2, <2>3, <2>4
<1>4. Len(rest) <= Len(events)
  BY <1>1, <1>2
<1> QED BY <1>3, <1>4 DEF IsSuffix, rest

\* Evicting from a buffer leaves the end of the log.
LEMMA EvictionKeepsSuffix ==
  ASSUME NEW buffer \in ReplayBuffers, NEW events \in Seq(Events),
         IsSuffix(buffer.events, events)
  PROVE  /\ EnforceReplayLimits(buffer) \in ReplayBuffers
         /\ IsSuffix(EnforceReplayLimits(buffer).events, events)
<1>1. buffer.events \in Seq(Events)
  BY DEF ReplayBuffers
<1>2. IsSuffix(Drop(buffer.events, EvictionCount(buffer.events)), events)
  BY <1>1, EvictionCountType, SuffixDrop
<1>3. EnforceReplayLimits(buffer).events = Drop(buffer.events, EvictionCount(buffer.events))
  BY DEF EnforceReplayLimits
<1> QED BY <1>2, <1>3, EnforceReplayLimitsType

\* A buffer with other events is a buffer with these events.
LEMMA WithEvents ==
  ASSUME NEW buffer \in ReplayBuffers, NEW events \in Seq(Events)
  PROVE  /\ [buffer EXCEPT !.events = events] \in ReplayBuffers
         /\ [buffer EXCEPT !.events = events].events = events
<1> DEFINE S == Seq(Events)
<1>1. buffer \in [events : S, evictedBefore : Nat] /\ events \in S
  BY DEF ReplayBuffers
<1> HIDE DEF S
<1>2. /\ [buffer EXCEPT !.events = events] \in [events : S, evictedBefore : Nat]
      /\ [buffer EXCEPT !.events = events].events = events
  BY <1>1
<1> QED BY <1>2 DEF S, ReplayBuffers

\* An event gets an id beyond all others, in the log and in the buffer.
LEMMA AppendEventReplay ==
  ASSUME TypeOK, ReplayInv, NEW s \in RunScopes, NEW kind \in EventKinds,
         NEW size \in EventSizes, AppendEvent(s, kind, size), NEW q \in RunScopes
  PROVE  LogGrows(q)' /\ BufferIsSuffix(q)'
<1> DEFINE e == [id |-> nextEventID + 1, kind |-> kind, at |-> now, size |-> size]
           buffer == IF replay[s] = Null THEN [events |-> <<>>, evictedBefore |-> 0]
                                         ELSE replay[s]
           grown == [buffer EXCEPT !.events = Append(@, e)]
<1>1. /\ nextEventID \in Nat /\ e \in Events /\ e.id = nextEventID + 1
      /\ log[q] \in Seq(Events) /\ Len(log[q]) \in Nat
  <2>1. nextEventID \in Nat /\ now \in Nat /\ log[q] \in Seq(Events)
    BY DEF TypeOK
  <2>2. e \in Events /\ e.id = nextEventID + 1
    BY <2>1 DEF Events
  <2> QED BY <2>1, <2>2
<1>2. /\ replay' = [replay EXCEPT ![s] = EnforceReplayLimits(grown)]
      /\ log' = [log EXCEPT ![s] = Append(@, e)] /\ nextEventID' = nextEventID + 1
  BY DEF AppendEvent
<1>3. buffer \in ReplayBuffers /\ IsSuffix(buffer.events, log[s]) /\ log[s] \in Seq(Events)
  <2>1. log[s] \in Seq(Events)
    BY DEF TypeOK
  <2>2. CASE replay[s] = Null
    <3>1. IsSuffix(<<>>, log[s])
      BY <2>1 DEF IsSuffix
    <3> QED BY <2>1, <2>2, <3>1 DEF ReplayBuffers
  <2>3. CASE replay[s] # Null
    BY <2>1, <2>3 DEF TypeOK, ReplayInv, BufferIsSuffix
  <2> QED BY <2>2, <2>3
<1> HIDE DEF e, buffer
<1>4. CASE q # s
  <2>1. log'[q] = log[q] /\ replay'[q] = replay[q]
    BY <1>2, <1>4 DEF TypeOK
  <2>2. LogGrows(q) /\ BufferIsSuffix(q)
    BY DEF ReplayInv
  <2> QED BY <1>1, <1>2, <2>1, <2>2 DEF LogGrows, BufferIsSuffix
<1>5. CASE q = s
  <2>1. log'[q] = Append(log[q], e) /\ replay'[q] = EnforceReplayLimits(grown)
    BY <1>2, <1>5 DEF TypeOK
  <2>2. BufferIsSuffix(q)'
    <3>1. grown \in ReplayBuffers /\ grown.events = Append(buffer.events, e)
      <4>1. Append(buffer.events, e) \in Seq(Events)
        BY <1>1, <1>3 DEF ReplayBuffers
      <4> QED BY <1>3, <4>1, WithEvents
    <3>2. IsSuffix(grown.events, log'[q])
      BY <1>1, <1>3, <1>5, <2>1, <3>1, SuffixAppend DEF ReplayBuffers
    <3>3. log'[q] \in Seq(Events)
      BY <1>1, <2>1
    <3> HIDE DEF grown
    <3> QED BY <2>1, <3>1, <3>2, <3>3, EvictionKeepsSuffix DEF BufferIsSuffix
  <2>3. LogGrows(q)'
    <3>1. /\ Len(log'[q]) = Len(log[q]) + 1 /\ log'[q][Len(log[q]) + 1] = e
          /\ \A i \in 1..Len(log[q]) : log'[q][i] = log[q][i]
          /\ \A i \in 1..(Len(log[q]) + 1) : i \in 1..Len(log[q]) \/ i = Len(log[q]) + 1
      BY <1>1, <2>1
    <3>2. LogGrows(q) /\ \A i \in 1..Len(log[q]) : log[q][i].id \in Nat
      BY <1>1 DEF ReplayInv, LogGrows
    <3> QED BY <1>1, <1>2, <3>1, <3>2 DEF LogGrows
  <2> QED BY <2>2, <2>3
<1> QED BY <1>4, <1>5

\* Every other operation of the store leaves buffers and log alone.
LEMMA ReplayStep ==
  ASSUME TypeOK, ReplayInv, [Next]_vars
  PROVE  ReplayInv'
<1>1. CASE UNCHANGED <<replay, log, nextEventID>>
  BY <1>1 DEF ReplayInv, LogGrows, BufferIsSuffix
<1>2. ASSUME NEW s \in RunScopes, Replay(s)
      PROVE  ReplayInv'
  <2> SUFFICES ASSUME NEW q \in RunScopes PROVE LogGrows(q)' /\ BufferIsSuffix(q)'
    BY DEF ReplayInv
  <2>1. LogGrows(q) /\ BufferIsSuffix(q) /\ log' = log /\ nextEventID' = nextEventID
    BY <1>2 DEF ReplayInv, Replay
  <2>2. CASE replay'[q] = replay[q] \/ replay'[q] = Null
    BY <2>1, <2>2 DEF LogGrows, BufferIsSuffix
  <2>3. CASE replay[q] # Null /\ replay'[q] = EnforceReplayLimits(replay[q])
    <3>1. replay[q] \in ReplayBuffers /\ log[q] \in Seq(Events)
      BY <2>3 DEF TypeOK
    <3>2. IsSuffix(EnforceReplayLimits(replay[q]).events, log[q])
      BY <2>1, <2>3, <3>1, EvictionKeepsSuffix DEF BufferIsSuffix
    <3> QED BY <2>1, <2>3, <3>2 DEF LogGrows, BufferIsSuffix
  <2>4. \/ replay'[q] = replay[q] \/ replay'[q] = Null
        \/ replay[q] # Null /\ replay'[q] = EnforceReplayLimits(replay[q])
    BY <1>2 DEF Replay, TypeOK
  <2> QED BY <2>2, <2>3, <2>4
<1>3. CASE EventOperation(RunScopes)
  BY <1>2, <1>3, AppendEventReplay DEF EventOperation, ReplayInv
<1>4. CASE RunOperation(RunScopes, IdempotencyScopes) \/ SubscriberOperation(RunScopes)
  BY <1>1, <1>4 DEF RunOperation, StartRun, RestoreRunStateAfterPending, UpdateRunState,
     BindRunID, CompleteRun, ReserveActiveRunCapacity, ReleaseActiveRunCapacity,
     StartRunWithReservation, SubscriberOperation, Subscribe, Unsubscribe, Receive, eventVars
<1>5. CASE PendingOperation(RunScopes) \/ IdempotencyOperation(IdempotencyScopes)
  BY <1>1, <1>5, ZenonT(30) DEF PendingOperation, RegisterPending, RegisterPendingForActiveRun,
     ClaimPendingResolution, ReleasePendingResolutionClaim, ResolvePending,
     RelabelResolvedPending, UpdatePending, IdempotencyOperation, ReserveIdempotency,
     CompleteIdempotency, ReleaseIdempotency, UpdateIdempotency, eventVars
<1>6. CASE Refused \/ Tick \/ UNCHANGED vars
  BY <1>1, <1>6 DEF Refused, Tick, eventVars, vars
<1> QED BY <1>3, <1>4, <1>5, <1>6 DEF Next

\* As ids grow, a cursor cuts the log in two.
LEMMA CursorCuts ==
  ASSUME TypeOK, NEW s \in RunScopes, LogGrows(s), NEW after \in Nat
  PROVE  \E m \in 0..Len(log[s]) :
           \A i \in 1..Len(log[s]) : log[s][i].id > after <=> i > m
<1> DEFINE N == Len(log[s])
           later == {i \in 1..(N + 1) : i = N + 1 \/ log[s][i].id > after}
<1>1. log[s] \in Seq(Events) /\ N \in Nat /\ \A i \in 1..N : log[s][i].id \in Nat
  <2>1. log[s] \in Seq(Events)
    BY DEF TypeOK
  <2>2. \A i \in 1..N : log[s][i] \in Events
    BY <2>1
  <2> QED BY <2>1, <2>2 DEF Events
<1>2. later \subseteq Nat /\ N + 1 \in later
  BY <1>1
<1>3. PICK x \in later : \A i \in later : x <= i
  <2> HIDE DEF later
  <2> QED BY <1>2, LeastNumber
<1>4. x \in 1..(N + 1) /\ \A i \in 1..N : log[s][i].id > after => x <= i
  BY <1>1, <1>3
<1>5. ASSUME NEW i \in 1..N, x <= i
      PROVE  log[s][i].id > after
  <2>1. x \in 1..N /\ log[s][x].id > after
    BY <1>1, <1>3, <1>5
  <2>2. x = i \/ log[s][x].id < log[s][i].id
    BY <1>5, <2>1 DEF LogGrows
  <2> QED BY <1>1, <2>1, <2>2
<1>6. x - 1 \in 0..N /\ \A i \in 1..N : log[s][i].id > after <=> i > x - 1
  BY <1>1, <1>4, <1>5
<1> QED BY <1>6

\* What was evicted from the buffer lies before the cursor, or is admitted to be gone.
LEMMA NoSilentGap ==
  ASSUME TypeOK, ReplayInv
  PROVE  ReplayHasNoSilentGap
<1> SUFFICES ASSUME NEW s \in RunScopes, NEW after \in 0..nextEventID,
                    ReplayResult(s, after).outcome = "ok"
             PROVE  LET result == ReplayResult(s, after) IN
                    \/ \E n \in 0..Len(log[s]) :
                         /\ \A i \in 1..Len(log[s]) : log[s][i].id > after <=> i > n
                         /\ result.events = Drop(log[s], n)
                    \/ /\ after = 0 /\ result.evictedBefore # 0
                       /\ IsSuffix(result.events, log[s])
  BY DEF ReplayHasNoSilentGap
<1> DEFINE buffer == EnforceReplayLimits(replay[s])
           events == buffer.events
           N == Len(log[s])
           K == Len(events)
           d == N - K
<1>1. /\ replay[s] # Null /\ events # <<>>
      /\ ~CursorEvicted(after, events[1].id, buffer.evictedBefore)
      /\ ReplayResult(s, after).events = EventsAfter(events, after)
      /\ ReplayResult(s, after).evictedBefore = buffer.evictedBefore
  BY DEF ReplayResult
<1>2. /\ log[s] \in Seq(Events) /\ replay[s] \in ReplayBuffers
      /\ LogGrows(s) /\ IsSuffix(replay[s].events, log[s])
  BY <1>1 DEF TypeOK, ReplayInv, BufferIsSuffix
<1>3. /\ buffer \in ReplayBuffers /\ events \in Seq(Events) /\ IsSuffix(events, log[s])
  BY <1>2, EvictionKeepsSuffix DEF ReplayBuffers
<1>4. /\ after \in Nat /\ \A i \in 1..N : log[s][i].id \in Nat /\ log[s][i].id > 0
  BY <1>2 DEF TypeOK, LogGrows
<1> HIDE DEF buffer
<1>5. /\ N \in Nat /\ K \in 1..N /\ d \in 0..N /\ d < N
      /\ \A j \in 1..K : d + j \in 1..N /\ events[j] = log[s][d + j]
  <2>1. N \in Nat /\ K \in Nat /\ K # 0 /\ K <= N
    BY <1>1, <1>2, <1>3 DEF IsSuffix
  <2>2. \A j \in 1..K : events[j] = log[s][N - K + j]
    BY <1>3 DEF IsSuffix
  <2> HIDE DEF N, K, events
  <2> QED BY <2>1, <2>2
<1> HIDE DEF events, N, K, d
<1>6. CASE after = 0 /\ buffer.evictedBefore # 0
  <2>1. \A j \in 1..K : events[j].id > after <=> j > 0
    BY <1>4, <1>5, <1>6
  <2>2. 0 \in 0..Len(events)
    BY <1>5 DEF K
  <2>3. EventsAfter(events, after) = Drop(events, 0)
    BY <1>3, <2>1, <2>2, PicksTheRest DEF K
  <2>4. IsSuffix(Drop(events, 0), log[s])
    BY <1>2, <1>3, <2>2, SuffixDrop
  <2> QED BY <1>1, <1>6, <2>3, <2>4
<1>7. CASE ~(after = 0 /\ buffer.evictedBefore # 0)
  <2>1. after >= log[s][d + 1].id - 1
    <3>1. events[1] = log[s][d + 1] /\ d + 1 \in 1..N
      BY <1>5
    <3>2. ~(after < events[1].id - 1)
      BY <1>1, <1>7 DEF CursorEvicted
    <3> QED BY <1>4, <3>1, <3>2
  <2>2. PICK m \in 0..N : \A i \in 1..N : log[s][i].id > after <=> i > m
    BY <1>2, <1>4, CursorCuts DEF N
  <2>3. \A i \in 1..N : i <= d => log[s][i].id <= after
    <3> SUFFICES ASSUME NEW i \in 1..N, i <= d PROVE log[s][i].id <= after
      OBVIOUS
    <3>1. i < d + 1 /\ d + 1 \in 1..N
      BY <1>5
    <3>2. log[s][i].id < log[s][d + 1].id
      BY <1>2, <3>1 DEF LogGrows, N
    <3> QED BY <1>4, <2>1, <3>1, <3>2
  <2>4. m >= d
    <3>1. CASE d = 0
      BY <1>5, <3>1
    <3>2. CASE d > 0
      <4>1. d \in 1..N /\ log[s][d].id <= after
        BY <1>5, <2>3, <3>2
      <4> QED BY <1>4, <2>2, <4>1
    <3> QED BY <1>5, <3>1, <3>2
  <2>5. m - d \in 0..K
    BY <1>5, <2>4 DEF d
  <2>6. \A j \in 1..K : events[j].id > after <=> j > m - d
    BY <1>5, <2>2
  <2>7. EventsAfter(events, after) = Drop(events, m - d)
    BY <1>3, <2>5, <2>6, PicksTheRest DEF K
  <2>8. Drop(events, m - d) = Drop(log[s], m)
    <3>1. /\ Drop(events, m - d) \in Seq(Events) /\ Len(Drop(events, m - d)) = K - (m - d)
          /\ \A j \in 1..(K - (m - d)) : Drop(events, m - d)[j] = events[(m - d) + j]
      BY <1>3, <2>5, DropElements DEF K
    <3>2. /\ Drop(log[s], m) \in Seq(Events) /\ Len(Drop(log[s], m)) = N - m
          /\ \A j \in 1..(N - m) : Drop(log[s], m)[j] = log[s][m + j]
      BY <1>2, DropElements DEF N
    <3>3. K - (m - d) = N - m
      BY <1>5 DEF d
    <3>4. ASSUME NEW j \in 1..(N - m)
          PROVE  Drop(events, m - d)[j] = Drop(log[s], m)[j]
      <4>1. (m - d) + j \in 1..K /\ d + ((m - d) + j) = m + j
        BY <1>5, <2>4 DEF d
      <4>2. events[(m - d) + j] = log[s][m + j]
        BY <1>5, <4>1
      <4> QED BY <3>1, <3>2, <3>3, <4>2
    <3> QED BY <3>1, <3>2, <3>3, <3>4, SeqEqual
  <2> QED BY <1>1, <2>2, <2>7, <2>8 DEF N
<1> QED BY <1>6, <1>7

\* A replay that succeeds hands over the rest of the run after the cursor,
\* whatever was evicted, expired or forgotten since, unless it says that the
\* start is gone (Store.Replay and enforceReplayLimitsLocked).
THEOREM ReplayIsGapless == Spec => []ReplayHasNoSilentGap
<1>1. Init => ReplayInv
  BY DEF Init, ReplayInv, LogGrows, BufferIsSuffix
<1>2. TypeOK /\ ReplayInv /\ [Next]_vars => ReplayInv'
  BY ReplayStep
<1>3. TypeOK /\ ReplayInv => ReplayHasNoSilentGap
  BY NoSilentGap
<1> QED BY <1>1, <1>2, <1>3, TypeCorrect, PTL DEF Spec

-----------------------------------------------------------------------------
(* Idempotency                                                             *)

\* What an operation does to the entries: it leaves or cleans them, or it
\* changes the one of its key.
LEMMA EntriesStep ==
  ASSUME [Next]_vars
  PROVE  \/ idempotency' \in {idempotency, CleanedIdempotency}
         \/ \E i \in IdempotencyScopes :
              ReserveIdempotency(i) \/ CompleteIdempotency(i) \/ ReleaseIdempotency(i)
<1>1. CASE RunOperation(RunScopes, IdempotencyScopes) \/ SubscriberOperation(RunScopes)
  BY <1>1 DEF RunOperation, StartRun, RestoreRunStateAfterPending, UpdateRunState,
     BindRunID, CompleteRun, ReserveActiveRunCapacity, ReleaseActiveRunCapacity,
     StartRunWithReservation, SubscriberOperation, Subscribe, Unsubscribe, Receive,
     Cleanup, CleanupIdempotency, cleanedVars
<1>2. CASE EventOperation(RunScopes)
  <2>1. Cleanup
    BY <1>2 DEF EventOperation, AppendEvent, Replay
  <2> QED BY <2>1 DEF Cleanup, CleanupIdempotency
<1>3. CASE PendingOperation(RunScopes)
  BY <1>3 DEF PendingOperation, RegisterPending, RegisterPendingForActiveRun,
     ClaimPendingResolution, ReleasePendingResolutionClaim, ResolvePending,
     RelabelResolvedPending, UpdatePending, CleanupIdempotency
<1>4. CASE IdempotencyOperation(IdempotencyScopes)
  BY <1>4 DEF IdempotencyOperation
<1>5. CASE Refused \/ Tick \/ UNCHANGED vars
  BY <1>5 DEF Refused, Tick, Cleanup, CleanupIdempotency, cleanedVars, vars
<1> QED BY <1>1, <1>2, <1>3, <1>4, <1>5 DEF Next

\* Cleanup spares what is not older than ReplayTTL, an operation on the same key
\* finds it, and only the scope that made the entry may complete it again.
LEMMA SuccessStays ==
  ASSUME TypeOK, [Next]_vars, NEW k \in StoreKeys, idempotency[k] # Null,
         idempotency[k].state = "succeeded", now <= idempotency[k].updatedAt + ReplayTTL
  PROVE  /\ idempotency'[k] # Null
         /\ idempotency'[k].scope = idempotency[k].scope
         /\ idempotency'[k].state = "succeeded"
<1>1. /\ idempotency[k] \in IdempotencyEntries /\ now \in Nat
      /\ idempotency[k].updatedAt \in Nat /\ ReplayTTL \in Nat
  BY LimitsPositive DEF TypeOK, IdempotencyEntries
<1>2. CleanedIdempotency[k] = idempotency[k]
  BY <1>1 DEF CleanedIdempotency, CleanedIdempotencyEntry
<1>3. CASE idempotency' \in {idempotency, CleanedIdempotency}
  BY <1>2, <1>3
<1>4. ASSUME NEW i \in IdempotencyScopes,
             ReserveIdempotency(i) \/ CompleteIdempotency(i) \/ ReleaseIdempotency(i)
      PROVE  /\ idempotency'[k] # Null
             /\ idempotency'[k].scope = idempotency[k].scope
             /\ idempotency'[k].state = "succeeded"
  <2>1. CASE k # StoreKey(i)
    <3>1. PICK e : idempotency' = [CleanedIdempotency EXCEPT ![StoreKey(i)] = e]
      BY <1>4 DEF ReserveIdempotency, CompleteIdempotency, ReleaseIdempotency,
                  UpdateIdempotency
    <3>2. idempotency'[k] = CleanedIdempotency[k]
      BY <2>1, <3>1 DEF CleanedIdempotency
    <3> QED BY <1>2, <3>2
  <2>2. CASE k = StoreKey(i)
    <3> DEFINE e == [scope |-> i, state |-> "succeeded", updatedAt |-> now]
    <3>1. EntryOf(i) = idempotency[k]
      BY <1>2, <2>2 DEF EntryOf
    <3>2. CompleteIdempotency(i)
      BY <1>4, <3>1 DEF ReserveIdempotency, ReleaseIdempotency
    <3>3. idempotency[k].scope = i /\ idempotency'[k] = e
      BY <2>2, <3>1, <3>2 DEF CompleteIdempotency, HasIdempotency, UpdateIdempotency,
                              CleanedIdempotency
    <3>4. e \in IdempotencyEntries
      BY <1>1 DEF IdempotencyEntries
    <3>5. e # Null
      BY <3>4, NullIsNoRecord
    <3> QED BY <3>3, <3>5
  <2> QED BY <2>1, <2>2
<1> QED BY <1>3, <1>4, EntriesStep

\* The outcome of a request is remembered for ReplayTTL after it succeeded, so
\* that a retry with the same key is answered and not executed again.
THEOREM SuccessRemembered == Spec => SuccessIsRemembered
<1>1. TypeOK /\ [Next]_vars =>
        [\A k \in StoreKeys :
           /\ idempotency[k] # Null
           /\ idempotency[k].state = "succeeded"
           /\ now <= idempotency[k].updatedAt + ReplayTTL
           => /\ idempotency'[k] # Null
              /\ idempotency'[k].scope = idempotency[k].scope
              /\ idempotency'[k].state = "succeeded"]_vars
  BY SuccessStays
<1> QED BY <1>1, TypeCorrect, PTL DEF Spec, SuccessIsRemembered
=============================================================================
