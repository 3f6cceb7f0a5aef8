------------------------------ MODULE TasksProofs ------------------------------
(***************************************************************************)
(* Theorems of Tasks and TaskStreams, for every set of tasks, clients,     *)
(* interrupts, requests, connections and streams: their types, whose the   *)
(* session is, that a request of the app server is announced once and      *)
(* resolved once, and that an open stream of a task misses none of its     *)
(* events and has none twice.                                              *)
(***************************************************************************)
EXTENDS TaskStreams, FiniteSetTheorems, WellFoundedInduction, NaturalsInduction, TLAPS

-----------------------------------------------------------------------------
(* What a log tells                                                        *)

Has(s, e) == \E i \in DOMAIN s : s[i] = e
HasOnce(s, e) == \E i \in DOMAIN s : \A j \in DOMAIN s : s[j] = e <=> j = i
Ends(s) == \E i \in DOMAIN s : s[i].kind \in EndStates

LEMMA ConcatPlaces ==
  ASSUME NEW a \in Seq(Events), NEW b \in Seq(Events)
  PROVE  /\ a \o b \in Seq(Events)
         /\ DOMAIN a = 1..Len(a) /\ DOMAIN b = 1..Len(b)
         /\ DOMAIN (a \o b) = 1..(Len(a) + Len(b))
         /\ Len(a) \in Nat /\ Len(b) \in Nat
         /\ \A i \in 1..Len(a) : (a \o b)[i] = a[i]
         /\ \A i \in 1..Len(b) : (a \o b)[Len(a) + i] = b[i]
         /\ \A i \in DOMAIN (a \o b) :
              i \in 1..Len(a) \/ \E j \in 1..Len(b) : i = Len(a) + j
<1>1. /\ a \o b \in Seq(Events) /\ Len(a \o b) = Len(a) + Len(b)
      /\ Len(a) \in Nat /\ Len(b) \in Nat
  OBVIOUS
<1>2. \A i \in 1..Len(a) : (a \o b)[i] = a[i]
  OBVIOUS
<1>3. \A i \in 1..Len(b) : (a \o b)[Len(a) + i] = b[i]
  OBVIOUS
<1>4. ASSUME NEW i \in 1..(Len(a) + Len(b)), i \notin 1..Len(a)
      PROVE  \E j \in 1..Len(b) : i = Len(a) + j
  <2>1. i - Len(a) \in 1..Len(b) /\ i = Len(a) + (i - Len(a))
    BY <1>1, <1>4
  <2> QED BY <2>1
<1>5. /\ DOMAIN a = 1..Len(a) /\ DOMAIN b = 1..Len(b)
      /\ DOMAIN (a \o b) = 1..(Len(a) + Len(b))
  BY <1>1
<1> QED BY <1>1, <1>2, <1>3, <1>4, <1>5

LEMMA ConcatHas ==
  ASSUME NEW a \in Seq(Events), NEW b \in Seq(Events), NEW e
  PROVE  Has(a \o b, e) <=> Has(a, e) \/ Has(b, e)
<1>1. ASSUME Has(a, e) PROVE Has(a \o b, e)
  BY <1>1, ConcatPlaces DEF Has
<1>2. ASSUME Has(b, e) PROVE Has(a \o b, e)
  <2>1. PICK i \in 1..Len(b) : b[i] = e
    BY <1>2, ConcatPlaces DEF Has
  <2>2. Len(a) + i \in DOMAIN (a \o b) /\ (a \o b)[Len(a) + i] = e
    BY <2>1, ConcatPlaces
  <2> QED BY <2>2 DEF Has
<1>3. ASSUME Has(a \o b, e) PROVE Has(a, e) \/ Has(b, e)
  <2>1. PICK i \in DOMAIN (a \o b) : (a \o b)[i] = e
    BY <1>3 DEF Has
  <2>2. CASE i \in 1..Len(a)
    BY <2>1, <2>2, ConcatPlaces DEF Has
  <2>3. CASE \E j \in 1..Len(b) : i = Len(a) + j
    BY <2>1, <2>3, ConcatPlaces DEF Has
  <2> QED BY <2>2, <2>3, ConcatPlaces
<1> QED BY <1>1, <1>2, <1>3

LEMMA ConcatEnds ==
  ASSUME NEW a \in Seq(Events), NEW b \in Seq(Events)
  PROVE  Ends(a \o b) <=> Ends(a) \/ Ends(b)
<1>1. ASSUME Ends(a) PROVE Ends(a \o b)
  BY <1>1, ConcatPlaces DEF Ends
<1>2. ASSUME Ends(b) PROVE Ends(a \o b)
  <2>1. PICK i \in 1..Len(b) : b[i].kind \in EndStates
    BY <1>2, ConcatPlaces DEF Ends
  <2>2. Len(a) + i \in DOMAIN (a \o b) /\ (a \o b)[Len(a) + i].kind \in EndStates
    BY <2>1, ConcatPlaces
  <2> QED BY <2>2 DEF Ends
<1>3. ASSUME Ends(a \o b) PROVE Ends(a) \/ Ends(b)
  <2>1. PICK i \in DOMAIN (a \o b) : (a \o b)[i].kind \in EndStates
    BY <1>3 DEF Ends
  <2>2. CASE i \in 1..Len(a)
    BY <2>1, <2>2, ConcatPlaces DEF Ends
  <2>3. CASE \E j \in 1..Len(b) : i = Len(a) + j
    BY <2>1, <2>3, ConcatPlaces DEF Ends
  <2> QED BY <2>2, <2>3, ConcatPlaces
<1> QED BY <1>1, <1>2, <1>3

LEMMA ConcatOnce ==
  ASSUME NEW a \in Seq(Events), NEW b \in Seq(Events), NEW e
  PROVE  /\ HasOnce(a, e) /\ ~Has(b, e) => HasOnce(a \o b, e)
         /\ ~Has(a, e) /\ HasOnce(b, e) => HasOnce(a \o b, e)
<1>1. ASSUME HasOnce(a, e), ~Has(b, e) PROVE HasOnce(a \o b, e)
  <2>1. PICK i \in DOMAIN a : \A j \in DOMAIN a : a[j] = e <=> j = i
    BY <1>1 DEF HasOnce
  <2>2. i \in DOMAIN (a \o b)
    BY ConcatPlaces
  <2>3. ASSUME NEW j \in DOMAIN (a \o b) PROVE (a \o b)[j] = e <=> j = i
    <3>1. CASE j \in 1..Len(a)
      BY <3>1, <2>1, ConcatPlaces
    <3>2. ASSUME NEW k \in 1..Len(b), j = Len(a) + k PROVE (a \o b)[j] = e <=> j = i
      <4>1. (a \o b)[j] # e
        BY <3>2, <1>1, ConcatPlaces DEF Has
      <4>2. j # i
        BY <3>2, <2>1, ConcatPlaces
      <4> QED BY <4>1, <4>2
    <3> QED BY <3>1, <3>2, ConcatPlaces
  <2> QED BY <2>2, <2>3 DEF HasOnce
<1>2. ASSUME ~Has(a, e), HasOnce(b, e) PROVE HasOnce(a \o b, e)
  <2>1. PICK i \in DOMAIN b : \A j \in DOMAIN b : b[j] = e <=> j = i
    BY <1>2 DEF HasOnce
  <2>2. Len(a) + i \in DOMAIN (a \o b)
    BY ConcatPlaces
  <2>3. ASSUME NEW j \in DOMAIN (a \o b) PROVE (a \o b)[j] = e <=> j = Len(a) + i
    <3>1. CASE j \in 1..Len(a)
      <4>1. (a \o b)[j] # e
        BY <3>1, <1>2, ConcatPlaces DEF Has
      <4>2. j # Len(a) + i
        BY <3>1, <2>1, ConcatPlaces
      <4> QED BY <4>1, <4>2
    <3>2. ASSUME NEW k \in 1..Len(b), j = Len(a) + k
          PROVE  (a \o b)[j] = e <=> j = Len(a) + i
      <4>1. (a \o b)[j] = b[k] /\ k \in DOMAIN b
        BY <3>2, ConcatPlaces
      <4>2. k = i <=> j = Len(a) + i
        <5>1. i \in Int /\ k \in Int /\ Len(a) \in Int
          BY ConcatPlaces
        <5>2. k = i <=> Len(a) + k = Len(a) + i
          BY <5>1
        <5> QED BY <3>2, <5>2, Zenon
      <4>3. b[k] = e <=> k = i
        BY <4>1, <2>1
      <4> QED BY <4>1, <4>2, <4>3, Zenon
    <3> QED BY <3>1, <3>2, ConcatPlaces
  <2> QED BY <2>2, <2>3 DEF HasOnce
<1> QED BY <1>1, <1>2

\* A log with one more event.
LEMMA OneMore ==
  ASSUME NEW s \in Seq(Events), NEW x \in Events
  PROVE  /\ Append(s, x) = s \o <<x>> /\ <<x>> \in Seq(Events)
         /\ Append(s, x) \in Seq(Events) /\ Append(s, x) # <<>>
         /\ \A e : Has(<<x>>, e) <=> e = x
         /\ HasOnce(<<x>>, x)
         /\ Ends(<<x>>) <=> x.kind \in EndStates
<1>1. Append(s, x) = s \o <<x>> /\ <<x>> \in Seq(Events)
      /\ Append(s, x) \in Seq(Events) /\ Append(s, x) # <<>>
  OBVIOUS
<1>2. DOMAIN <<x>> = {1} /\ <<x>>[1] = x
  OBVIOUS
<1> QED BY <1>1, <1>2 DEF Has, HasOnce, Ends

-----------------------------------------------------------------------------
(* The inductive invariant                                                 *)

LogsType == log \in [Tasks -> Seq(Events)]
TaskTypes ==
  /\ tasks \in [Tasks -> TaskRecords \cup {Null}]
  /\ idempotency \in [Keys -> Tasks \cup {Null}]
  /\ entries \in [Tasks -> EntryStates]
  /\ activeTask \in Tasks \cup {Null}
  /\ stale \subseteq Tasks /\ called \subseteq Clients
RequestTypes ==
  /\ requests \in [Requests -> RequestRecords]
  /\ responses \in [Requests -> [ResponseIDs -> {"none", "responding", "accepted", "failed"}]]
  /\ backlog \in [Connections -> SUBSET Requests]
GoroutineTypes ==
  /\ starters \in [Tasks -> StarterRecords]
  /\ interrupters \in [Interrupters -> InterrupterRecords]
  /\ responders \in [Responders -> ResponderRecords]
  /\ monitors \in [Connections -> MonitorRecords]
AppServerTypes ==
  /\ link \in [Connections -> {"new", "open", "closed"}]
  /\ notes \in [Connections -> Seq(Notes)] /\ asks \in [Connections -> Seq(Requests)]
  /\ turns \in [Tasks -> {"none", "running", "ended"}]

\* A promise is closed with the outcome of its start, when that is known.
PromiseKept ==
  /\ promises \in [Tasks -> {"open"} \cup EntryStates]
  /\ \A t \in Tasks : promises[t] = IF entries[t] = "pending" THEN "open" ELSE entries[t]

\* A task whose goroutine is under way is registered, and one that was never begun has
\* left no trace.
Lives(t) ==
  /\ starters[t].pc = "none" <=> log[t] = <<>>
  /\ starters[t].pc = "none" => ~Known(t)
  /\ starters[t].pc \notin {"none", "done"} => Known(t)
  /\ t \in stale => starters[t].pc = "done"

\* Who works on a task or a request has one; what waits to be taken waits once; and
\* finitely many requests have been made.
GoroutinesNamed ==
  /\ \A i \in Interrupters : interrupters[i].pc = "call" => interrupters[i].task \in Tasks
  /\ \A n \in Connections : monitors[n].pc \in {"confirm", "interrupt"} => monitors[n].task \in Tasks
RequestsNamed ==
  /\ \A q \in Requests : requests[q].state # "none" => requests[q].task \in Tasks
  /\ \A n \in Connections : \A i \in DOMAIN asks[n] : requests[asks[n][i]].state = "asked"
  /\ \A n, m \in Connections : \A i \in DOMAIN asks[n], j \in DOMAIN asks[m] :
       asks[n][i] = asks[m][j] => n = m /\ i = j
  /\ IsFiniteSet({q \in Requests : requests[q].state # "none"})

\* The session is that of the task whose log names no end.
SessionHeld(t) == activeTask = t <=> (log[t] # <<>> /\ ~Ends(log[t]))

TasksInv ==
  /\ TaskTypes /\ LogsType /\ RequestTypes /\ GoroutineTypes /\ AppServerTypes
  /\ PromiseKept /\ GoroutinesNamed /\ RequestsNamed
  /\ \A t \in Tasks : Lives(t)
  /\ \A t \in Tasks : SessionHeld(t)

-----------------------------------------------------------------------------
(* What ends tasks and answers their starts                                *)

LEMMA EventsAre ==
  /\ \A k \in EventKinds : Plain(k) \in Events
  /\ \A k \in EventKinds, q \in Requests : About(k, q) \in Events
  /\ EndStates \subseteq EventKinds /\ EndStates \subseteq States
  /\ \A k : Plain(k).kind = k
  /\ \A k, q : About(k, q).kind = k /\ About(k, q).of = q
BY DEF Plain, About, Events, EventKinds, EndStates, States

LEMMA SetToSeqLists ==
  ASSUME NEW S, IsFiniteSet(S)
  PROVE  /\ SetToSeq(S) \in [1..Cardinality(S) -> S] /\ Cardinality(S) \in Nat
         /\ \A x \in S : \E i \in 1..Cardinality(S) :
              \A j \in 1..Cardinality(S) : SetToSeq(S)[j] = x <=> j = i
<1> DEFINE D == 1..Cardinality(S)
<1>1. Cardinality(S) \in Nat /\ ExistsBijection(D, S)
  BY FS_CardinalityType
<1>2. PICK f \in Bijection(D, S) : TRUE
  BY <1>1 DEF ExistsBijection
<1>3. f \in [D -> S] /\ IsInjective(f)
  BY <1>2 DEF Bijection, Injection, Surjection, IsInjective
<1>4. SetToSeq(S) \in [D -> S] /\ IsInjective(SetToSeq(S))
  BY <1>3, Zenon DEF SetToSeq
<1>5. SetToSeq(S) \in Injection(D, S)
  BY <1>4 DEF Injection, IsInjective
<1>6. IsFiniteSet(D) /\ Cardinality(D) = Cardinality(S)
  BY <1>1, FS_Interval
<1>7. SetToSeq(S) \in Surjection(D, S)
  <2> HIDE DEF D
  <2> QED BY <1>5, <1>6, FS_Injection
<1>8. ASSUME NEW x \in S
      PROVE  \E i \in D : \A j \in D : SetToSeq(S)[j] = x <=> j = i
  <2>1. PICK i \in D : SetToSeq(S)[i] = x
    BY <1>7 DEF Surjection
  <2>2. \A j \in D : SetToSeq(S)[j] = x => j = i
    BY <1>4, <2>1 DEF IsInjective
  <2> QED BY <2>1, <2>2
<1> QED BY <1>1, <1>4, <1>8

\* From a to b nothing is said of e; it is said of e for the first time.
Silent(a, b, e) == (Has(b, e) => Has(a, e)) /\ (HasOnce(a, e) => HasOnce(b, e))
Told(a, b, e) == ~Has(a, e) => HasOnce(b, e)

LEMMA SilentOrTold ==
  ASSUME NEW a \in Seq(Events), NEW x \in Seq(Events), NEW e
  PROVE  /\ ~Has(x, e) => Silent(a, a \o x, e)
         /\ HasOnce(x, e) => Told(a, a \o x, e)
<1>1. Has(a \o x, e) <=> Has(a, e) \/ Has(x, e)
  BY ConcatHas
<1>2. /\ HasOnce(a, e) /\ ~Has(x, e) => HasOnce(a \o x, e)
      /\ ~Has(a, e) /\ HasOnce(x, e) => HasOnce(a \o x, e)
  BY ConcatOnce
<1> QED BY <1>1, <1>2, Zenon DEF Silent, Told

LEMMA SilentOrToldLater ==
  ASSUME NEW a, NEW b, NEW c, NEW e
  PROVE  /\ Silent(a, a, e)
         /\ Silent(a, b, e) /\ Silent(b, c, e) => Silent(a, c, e)
         /\ Silent(a, b, e) /\ Told(b, c, e) => Told(a, c, e)
         /\ Told(a, b, e) /\ Silent(b, c, e) => Told(a, c, e)
BY DEF Silent, Told

\* No log begins or comes to its end; nothing is said of a request.
LogsGrow ==
  /\ LogsType'
  /\ \A t \in Tasks : (log'[t] = <<>> <=> log[t] = <<>>) /\ (Ends(log'[t]) <=> Ends(log[t]))
LogsSilent ==
  \A t \in Tasks, q \in Requests :
    /\ Silent(log[t], log'[t], About("created", q))
    /\ Silent(log[t], log'[t], About("resolved", q))

LEMMA LogsKept ==
  ASSUME LogsType, UNCHANGED log
  PROVE  LogsGrow /\ LogsSilent
BY SilentOrToldLater DEF LogsType, LogsGrow, LogsSilent

LEMMA LogsAppend ==
  ASSUME LogsType, NEW t \in Tasks, log[t] # <<>>, NEW x \in Events, x.kind \notin EndStates,
         log' = [log EXCEPT ![t] = Append(@, x)]
  PROVE  /\ LogsGrow
         /\ \A u \in Tasks \ {t} : log'[u] = log[u]
         /\ Told(log[t], log'[t], x)
         /\ \A e : e # x => Silent(log[t], log'[t], e)
<1>1. log[t] \in Seq(Events) /\ log \in [Tasks -> Seq(Events)]
  BY DEF LogsType
<1>2. /\ log'[t] = Append(log[t], x) /\ \A u \in Tasks \ {t} : log'[u] = log[u]
      /\ log' = [u \in Tasks |-> IF u = t THEN Append(log[t], x) ELSE log[u]]
  BY <1>1
<1>3. log'[t] = log[t] \o <<x>> /\ <<x>> \in Seq(Events) /\ log'[t] \in Seq(Events)
      /\ log'[t] # <<>>
  BY <1>1, <1>2, OneMore
<1>4. Ends(log'[t]) <=> Ends(log[t])
  <2>1. ~Ends(<<x>>)
    BY <1>1, OneMore
  <2>2. Ends(log[t] \o <<x>>) <=> Ends(log[t]) \/ Ends(<<x>>)
    BY <1>1, <1>3, ConcatEnds
  <2> QED BY <1>3, <2>1, <2>2
<1>5. LogsGrow
  <2>1. LogsType'
    BY <1>1, <1>2, <1>3 DEF LogsType
  <2> QED BY <1>2, <1>3, <1>4, <2>1 DEF LogsGrow
<1>6. HasOnce(<<x>>, x) /\ \A e : e # x => ~Has(<<x>>, e)
  BY <1>1, OneMore
<1>7. Told(log[t], log'[t], x)
  BY <1>1, <1>3, <1>6, SilentOrTold
<1>8. ASSUME NEW e, e # x PROVE Silent(log[t], log'[t], e)
  BY <1>1, <1>3, <1>6, <1>8, SilentOrTold
<1> QED BY <1>2, <1>5, <1>7, <1>8

LEMMA LogsAppendPlain ==
  ASSUME LogsType, NEW t \in Tasks, log[t] # <<>>,
         NEW kind \in EventKinds \ (EndStates \cup {"created", "resolved"}), Append1(t, kind)
  PROVE  LogsGrow /\ LogsSilent
<1>1. Plain(kind) \in Events /\ Plain(kind).kind = kind
  BY EventsAre
<1>2. log' = [log EXCEPT ![t] = Append(@, Plain(kind))]
  BY DEF Append1
<1>3. /\ LogsGrow /\ \A u \in Tasks \ {t} : log'[u] = log[u]
      /\ \A e : e # Plain(kind) => Silent(log[t], log'[t], e)
  BY <1>1, <1>2, LogsAppend
<1>4. \A q \in Requests : About("created", q) # Plain(kind) /\ About("resolved", q) # Plain(kind)
  BY EventsAre
<1>5. LogsSilent
  <2>1. ASSUME NEW u \in Tasks, NEW q \in Requests
        PROVE  /\ Silent(log[u], log'[u], About("created", q))
               /\ Silent(log[u], log'[u], About("resolved", q))
    <3>1. CASE u = t
      BY <3>1, <1>3, <1>4
    <3>2. CASE u # t
      BY <3>2, <1>3, SilentOrToldLater
    <3> QED BY <3>1, <3>2
  <2> QED BY <2>1 DEF LogsSilent
<1> QED BY <1>3, <1>5

\* Whether a request is cleared by the end of its task.
Cleared(ends, q) ==
  /\ requests[q].state = "active"
  /\ requests[q].task \in DOMAIN ends /\ ends[requests[q].task].clears

LEMMA EndTasksEffect ==
  ASSUME TaskTypes, LogsType, RequestTypes, RequestsNamed,
         NEW ends, DOMAIN ends \subseteq Tasks,
         \A t \in DOMAIN ends : /\ Known(t) /\ ends[t].state \in EndStates
                                /\ ends[t].first \in Seq(Events)
                                /\ \A q \in Requests : /\ ~Has(ends[t].first, About("created", q))
                                                       /\ ~Has(ends[t].first, About("resolved", q)),
         EndTasks(ends)
  PROVE  /\ tasks' \in [Tasks -> TaskRecords \cup {Null}]
         /\ \A t \in Tasks : t \notin DOMAIN ends => tasks'[t] = tasks[t] /\ log'[t] = log[t]
         /\ \A t \in DOMAIN ends :
              /\ tasks'[t] # Null /\ tasks'[t].state = ends[t].state
              /\ tasks'[t].turn = tasks[t].turn
         /\ activeTask' = IF activeTask \in DOMAIN ends THEN Null ELSE activeTask
         /\ requests' = [q \in Requests |-> IF Cleared(ends, q)
                                            THEN [requests[q] EXCEPT !.state = "resolved"]
                                            ELSE requests[q]]
         /\ LogsType'
         /\ \A t \in DOMAIN ends :
              /\ log'[t] # <<>> /\ Ends(log'[t])
              /\ \A q \in Requests :
                   /\ Silent(log[t], log'[t], About("created", q))
                   /\ IF Cleared(ends, q) /\ requests[q].task = t
                      THEN Told(log[t], log'[t], About("resolved", q))
                      ELSE Silent(log[t], log'[t], About("resolved", q))
<1> DEFINE cleared == {q \in Requests : Cleared(ends, q)}
           mine(t) == cleared \cap ActiveRequests(t)
           resolved(t) == [i \in 1..Cardinality(mine(t)) |-> About("resolved", SetToSeq(mine(t))[i])]
<1>1. {q \in Requests : \E t \in DOMAIN ends : ends[t].clears /\ q \in ActiveRequests(t)} = cleared
  BY DEF Cleared, ActiveRequests
<1>2. /\ tasks' = [t \in Tasks |->
            IF t \in DOMAIN ends THEN [tasks[t] EXCEPT !.state = ends[t].state,
                                !.deferred = @ /\ Plain("unsupported") \notin Range(ends[t].first)]
                                 ELSE tasks[t]]
      /\ activeTask' = IF activeTask \in DOMAIN ends THEN Null ELSE activeTask
      /\ requests' = [q \in Requests |->
            IF q \in cleared THEN [requests[q] EXCEPT !.state = "resolved"] ELSE requests[q]]
      /\ log' = [t \in Tasks |->
            IF t \in DOMAIN ends
            THEN log[t] \o ends[t].first \o resolved(t) \o <<Plain(ends[t].state)>> ELSE log[t]]
  <2> HIDE DEF cleared
  <2> QED BY <1>1, Zenon DEF EndTasks
<1>3. requests' = [q \in Requests |-> IF Cleared(ends, q)
                                      THEN [requests[q] EXCEPT !.state = "resolved"]
                                      ELSE requests[q]]
  BY <1>2
<1>4. /\ \A t \in Tasks : t \notin DOMAIN ends => tasks'[t] = tasks[t] /\ log'[t] = log[t]
  BY <1>2
<1>5. ASSUME NEW t \in DOMAIN ends
      PROVE  /\ tasks'[t] \in TaskRecords /\ tasks'[t].state = ends[t].state
             /\ tasks'[t].turn = tasks[t].turn
  <2>1. tasks[t] \in TaskRecords /\ ends[t].state \in States
    BY EventsAre DEF TaskTypes, Known
  <2>2. tasks'[t] = [tasks[t] EXCEPT !.state = ends[t].state,
                       !.deferred = @ /\ Plain("unsupported") \notin Range(ends[t].first)]
    BY <1>2
  <2> QED BY <2>1, <2>2 DEF TaskRecords
<1>6. tasks' \in [Tasks -> TaskRecords \cup {Null}]
  <2>1. \A t \in Tasks : tasks'[t] \in TaskRecords \cup {Null}
    BY <1>4, <1>5 DEF TaskTypes
  <2>2. DOMAIN tasks' = Tasks /\ tasks' = [t \in Tasks |-> tasks'[t]]
    BY <1>2
  <2> QED BY <2>1, <2>2
<1>7. \A t \in DOMAIN ends : tasks'[t] # Null
  BY <1>5, NullIsNothing
<1>8. ASSUME NEW t \in DOMAIN ends
      PROVE  /\ resolved(t) \in Seq(Events)
             /\ \A q \in Requests : /\ ~Has(resolved(t), About("created", q))
                                    /\ IF q \in mine(t)
                                       THEN HasOnce(resolved(t), About("resolved", q))
                                       ELSE ~Has(resolved(t), About("resolved", q))
  <2> DEFINE S == mine(t)
             n == Cardinality(S)
             f == SetToSeq(S)
  <2>1. IsFiniteSet(S) /\ S \subseteq Requests
    <3>1. S \in SUBSET {q \in Requests : requests[q].state # "none"}
      BY DEF ActiveRequests
    <3> QED BY <3>1, FS_Subset DEF RequestsNamed
  <2>2. /\ n \in Nat /\ f \in [1..n -> S]
        /\ \A x \in S : \E i \in 1..n : \A j \in 1..n : f[j] = x <=> j = i
    <3> HIDE DEF S
    <3> QED BY <2>1, SetToSeqLists
  <2>3. resolved(t) = [i \in 1..n |-> About("resolved", f[i])]
    OBVIOUS
  <2> HIDE DEF S, n, f, resolved
  <2>4. \A i \in 1..n : About("resolved", f[i]) \in Events /\ resolved(t)[i] = About("resolved", f[i])
    BY <2>1, <2>2, <2>3, EventsAre DEF EventKinds
  <2>5. resolved(t) \in Seq(Events) /\ DOMAIN resolved(t) = 1..n
    BY <2>2, <2>3, <2>4
  <2>6. ASSUME NEW q \in Requests
        PROVE  /\ ~Has(resolved(t), About("created", q))
               /\ IF q \in S THEN HasOnce(resolved(t), About("resolved", q))
                             ELSE ~Has(resolved(t), About("resolved", q))
    <3>1. \A i \in 1..n : resolved(t)[i].kind = "resolved" /\ resolved(t)[i].of = f[i]
      BY <2>4, EventsAre
    <3>2. ~Has(resolved(t), About("created", q))
      BY <2>5, <3>1, EventsAre DEF Has
    <3>3. \A i \in 1..n : resolved(t)[i] = About("resolved", q) <=> f[i] = q
      BY <2>4, <3>1, EventsAre
    <3>4. CASE q \in S
      <4>1. PICK i \in 1..n : \A j \in 1..n : f[j] = q <=> j = i
        BY <2>2, <3>4
      <4> QED BY <4>1, <3>2, <3>3, <3>4, <2>5 DEF HasOnce
    <3>5. CASE q \notin S
      BY <2>2, <2>5, <3>2, <3>3, <3>5 DEF Has
    <3> QED BY <3>4, <3>5
  <2> QED BY <2>5, <2>6 DEF S
<1>9. ASSUME NEW t \in DOMAIN ends
      PROVE  /\ log'[t] \in Seq(Events) /\ log'[t] # <<>> /\ Ends(log'[t])
             /\ \A q \in Requests :
                   /\ Silent(log[t], log'[t], About("created", q))
                   /\ IF q \in mine(t)
                      THEN Told(log[t], log'[t], About("resolved", q))
                      ELSE Silent(log[t], log'[t], About("resolved", q))
  <2> DEFINE last == Plain(ends[t].state)
             b == log[t] \o ends[t].first
             c == b \o resolved(t)
  <2>1. log[t] \in Seq(Events) /\ ends[t].first \in Seq(Events) /\ resolved(t) \in Seq(Events)
    BY <1>8 DEF LogsType
  <2>2. last \in Events /\ last.kind \in EndStates
    BY EventsAre
  <2>3. b \in Seq(Events)
    BY <2>1, ConcatPlaces
  <2>4. c \in Seq(Events)
    <3> HIDE DEF b, resolved
    <3> QED BY <2>1, <2>3, ConcatPlaces
  <2>5. log'[t] = c \o <<last>>
    BY <1>2
  <2> HIDE DEF c, last
  <2>6. /\ <<last>> \in Seq(Events) /\ Append(c, last) = c \o <<last>>
        /\ Append(c, last) # <<>> /\ Append(c, last) \in Seq(Events) /\ Ends(<<last>>)
        /\ \A e : Has(<<last>>, e) <=> e = last
    BY <2>2, <2>4, OneMore
  <2>7. log'[t] \in Seq(Events) /\ log'[t] # <<>> /\ Ends(log'[t])
    <3>1. Ends(c \o <<last>>)
      BY <2>4, <2>6, ConcatEnds, Zenon
    <3> QED BY <2>5, <2>6, <3>1, Zenon
  <2>8. ASSUME NEW q \in Requests
        PROVE  /\ Silent(log[t], log'[t], About("created", q))
               /\ IF q \in mine(t)
                  THEN Told(log[t], log'[t], About("resolved", q))
                  ELSE Silent(log[t], log'[t], About("resolved", q))
    <3> HIDE DEF mine, resolved
    <3>1. About("created", q) # last /\ About("resolved", q) # last
      BY <2>2, EventsAre DEF EndStates
    <3>2. /\ Silent(c, log'[t], About("created", q))
          /\ Silent(c, log'[t], About("resolved", q))
      BY <3>1, <2>4, <2>5, <2>6, SilentOrTold
    <3>3. /\ Silent(log[t], b, About("created", q))
          /\ Silent(log[t], b, About("resolved", q))
      BY <2>1, SilentOrTold
    <3> HIDE DEF b
    <3>4. /\ Silent(b, c, About("created", q))
          /\ q \in mine(t) => Told(b, c, About("resolved", q))
          /\ q \notin mine(t) => Silent(b, c, About("resolved", q))
      BY <1>8, <2>1, <2>3, SilentOrTold DEF c
    <3> QED BY <3>2, <3>3, <3>4, SilentOrToldLater
  <2> QED BY <2>7, <2>8
<1>10. LogsType'
  <2>1. \A t \in Tasks : log'[t] \in Seq(Events)
    BY <1>4, <1>9 DEF LogsType
  <2>2. log' = [t \in Tasks |-> log'[t]]
    BY <1>2
  <2> QED BY <2>1, <2>2 DEF LogsType
<1>11. \A t \in DOMAIN ends, q \in Requests : q \in mine(t) <=> Cleared(ends, q) /\ requests[q].task = t
  BY DEF ActiveRequests, Cleared
<1> HIDE DEF mine, resolved, cleared
<1> QED BY <1>2, <1>3, <1>4, <1>5, <1>6, <1>7, <1>9, <1>10, <1>11

LEMMA AnswerStartsEffect ==
  ASSUME TaskTypes, PromiseKept, NEW answers, DOMAIN answers \subseteq Tasks,
         \A t \in DOMAIN answers : /\ entries[t] = "pending"
                                   /\ answers[t] \in EntryStates \ {"pending"},
         AnswerStarts(answers)
  PROVE  entries' \in [Tasks -> EntryStates] /\ PromiseKept'
<1>1. /\ entries' = [t \in Tasks |-> IF t \in DOMAIN answers THEN answers[t] ELSE entries[t]]
      /\ promises' = [t \in Tasks |->
           IF t \in DOMAIN answers THEN Close(promises[t], "open", answers[t]) ELSE promises[t]]
  BY Zenon DEF AnswerStarts
<1>2. \A t \in DOMAIN answers : promises'[t] = answers[t]
  BY <1>1 DEF Close, PromiseKept
<1>3. entries' \in [Tasks -> EntryStates]
  BY <1>1 DEF TaskTypes
<1>4. promises' \in [Tasks -> {"open"} \cup EntryStates]
  <2>1. \A t \in Tasks : promises'[t] \in {"open"} \cup EntryStates
    BY <1>1, <1>2 DEF PromiseKept
  <2>2. promises' = [t \in Tasks |-> promises'[t]]
    BY <1>1
  <2> QED BY <2>1, <2>2
<1>5. \A t \in Tasks : promises'[t] = IF entries'[t] = "pending" THEN "open" ELSE entries'[t]
  BY <1>1, <1>2 DEF PromiseKept
<1> QED BY <1>3, <1>4, <1>5 DEF PromiseKept

LEMMA AnswerStartEffect ==
  ASSUME TaskTypes, PromiseKept, NEW t \in Tasks, entries[t] = "pending",
         NEW answer \in EntryStates \ {"pending"}, AnswerStart(t, answer)
  PROVE  entries' \in [Tasks -> EntryStates] /\ PromiseKept'
<1> DEFINE answers == [u \in {t} |-> answer]
<1>1. /\ DOMAIN answers = {t} /\ answers[t] = answer
  OBVIOUS
<1>2. AnswerStarts(answers)
  BY Zenon DEF AnswerStart
<1> HIDE DEF answers
<1> QED BY <1>1, <1>2, AnswerStartsEffect

-----------------------------------------------------------------------------
(* Steps that end no task and answer no start                              *)

LEMMA GoroutinesNamedKept ==
  ASSUME GoroutinesNamed, UNCHANGED <<interrupters, monitors>>
  PROVE  GoroutinesNamed'
BY DEF GoroutinesNamed

LEMMA RequestsNamedKept ==
  ASSUME RequestsNamed, UNCHANGED <<requests, asks>>
  PROVE  RequestsNamed'
BY DEF RequestsNamed

LEMMA QuietStep ==
  ASSUME TasksInv, LogsGrow, UNCHANGED <<activeTask, stale, called>>,
         entries' \in [Tasks -> EntryStates], PromiseKept',
         tasks' \in [Tasks -> TaskRecords \cup {Null}],
         idempotency' \in [Keys -> Tasks \cup {Null}],
         \A u \in Tasks :
           /\ starters'[u].pc = "none" <=> starters[u].pc = "none"
           /\ tasks[u] = Null => tasks'[u] = Null
           /\ starters'[u].pc \notin {"none", "done"} => tasks'[u] # Null
           /\ u \in stale => starters'[u].pc = "done",
         RequestTypes', GoroutineTypes', AppServerTypes', GoroutinesNamed', RequestsNamed'
  PROVE  TasksInv'
<1>1. TaskTypes'
  BY DEF TasksInv, TaskTypes
<1>2. \A u \in Tasks : Lives(u)'
  BY DEF TasksInv, Lives, Known, LogsGrow
<1>3. \A u \in Tasks : SessionHeld(u)'
  BY DEF TasksInv, SessionHeld, LogsGrow
<1> QED BY <1>1, <1>2, <1>3 DEF TasksInv, LogsGrow

LEMMA PromiseUntouched ==
  ASSUME TasksInv, UNCHANGED <<entries, promises>>
  PROVE  entries' \in [Tasks -> EntryStates] /\ PromiseKept'
BY DEF TasksInv, TaskTypes, PromiseKept

\* A step of a start that goes on, or comes to an end that was answered for before.
LEMMA StartGoesOn ==
  ASSUME TasksInv, LogsGrow, RestOfStart, UNCHANGED <<entries, promises, activeTask, requests, asks>>,
         NEW t \in Tasks, starters[t].pc \notin {"none", "done"},
         tasks' \in [Tasks -> TaskRecords \cup {Null}],
         \A u \in Tasks : tasks[u] = Null <=> tasks'[u] = Null,
         starters' \in [Tasks -> StarterRecords], starters'[t].pc # "none",
         \A u \in Tasks \ {t} : starters'[u] = starters[u],
         monitors' \in [Connections -> MonitorRecords],
         \A n \in Connections : monitors'[n].pc \in {"confirm", "interrupt"} =>
                                  monitors'[n] = monitors[n],
         AppServerTypes'
  PROVE  TasksInv'
<1>1. /\ UNCHANGED <<responses, backlog, idempotency, stale, called, interrupters, responders>>
  BY DEF RestOfStart, pendings, retention
<1>2. RequestTypes' /\ GoroutineTypes'
  BY <1>1 DEF TasksInv, RequestTypes, GoroutineTypes
<1>3. GoroutinesNamed' /\ RequestsNamed'
  BY <1>1 DEF TasksInv, GoroutinesNamed, RequestsNamed
<1>4. \A u \in Tasks :
           /\ starters'[u].pc = "none" <=> starters[u].pc = "none"
           /\ tasks[u] = Null => tasks'[u] = Null
           /\ starters'[u].pc \notin {"none", "done"} => tasks'[u] # Null
           /\ u \in stale => starters'[u].pc = "done"
  BY DEF TasksInv, Lives, Known
<1>5. idempotency' \in [Keys -> Tasks \cup {Null}]
  BY <1>1 DEF TasksInv, TaskTypes
<1> QED BY <1>1, <1>2, <1>3, <1>4, <1>5, PromiseUntouched, QuietStep

LEMMA StepMoves ==
  ASSUME starters \in [Tasks -> StarterRecords], NEW t \in Tasks, NEW from,
         NEW to \in StarterLabels \ {"none"}, Step(t, from, to)
  PROVE  /\ starters[t].pc = from
         /\ starters' \in [Tasks -> StarterRecords] /\ starters'[t].pc = to
         /\ \A u \in Tasks \ {t} : starters'[u] = starters[u]
BY DEF Step, StarterRecords

\* The record of a task that is known changes.
LEMMA TaskChanges ==
  ASSUME TaskTypes, NEW t \in Tasks, Known(t), NEW r \in TaskRecords,
         tasks' = [tasks EXCEPT ![t] = r]
  PROVE  /\ tasks' \in [Tasks -> TaskRecords \cup {Null}]
         /\ \A u \in Tasks : tasks[u] = Null <=> tasks'[u] = Null
         /\ tasks'[t] = r /\ \A u \in Tasks \ {t} : tasks'[u] = tasks[u]
BY NullIsNothing DEF TaskTypes, Known

-----------------------------------------------------------------------------
(* The start of a task                                                     *)

LEMMA KnownTask ==
  ASSUME TasksInv, NEW t \in Tasks
  PROVE  /\ Known(t) => tasks[t] \in TaskRecords /\ log[t] # <<>>
         /\ starters[t].pc \notin {"none", "done"} => Known(t)
         /\ starters[t].pc # "none" => log[t] # <<>>
BY DEF TasksInv, Lives, TaskTypes, Known

LEMMA BeginStartKeeps ==
  ASSUME TasksInv, NEW t \in Tasks, BeginStart(t)
  PROVE  TasksInv'
<1>1. PICK to \in {"fail", "pre_turn", "connect"} : Step(t, "begin", to)
  BY DEF BeginStart
<1>2. /\ starters[t].pc = "begin" /\ starters' \in [Tasks -> StarterRecords]
      /\ starters'[t].pc # "none" /\ \A u \in Tasks \ {t} : starters'[u] = starters[u]
  BY <1>1, StepMoves DEF TasksInv, GoroutineTypes, StarterLabels
<1>3. Known(t) /\ tasks[t] \in TaskRecords
  BY <1>2, KnownTask
<1>4. /\ tasks' \in [Tasks -> TaskRecords \cup {Null}]
      /\ \A u \in Tasks : tasks[u] = Null <=> tasks'[u] = Null
  <2>1. CASE UNCHANGED tasks
    BY <2>1 DEF TasksInv, TaskTypes
  <2>2. CASE tasks' = [tasks EXCEPT ![t].connectionCancel = "set"]
    <3>1. [tasks[t] EXCEPT !.connectionCancel = "set"] \in TaskRecords
      BY <1>3 DEF TaskRecords
    <3>2. tasks' = [tasks EXCEPT ![t] = [tasks[t] EXCEPT !.connectionCancel = "set"]]
      BY <2>2
    <3> QED BY <1>3, <3>1, <3>2, TaskChanges DEF TasksInv
  <2> QED BY <2>1, <2>2 DEF BeginStart
<1>5. /\ UNCHANGED <<entries, promises, activeTask, log, requests, monitors, link, notes, asks, turns>>
      /\ RestOfStart
  BY DEF BeginStart, appServer
<1>6. LogsGrow /\ AppServerTypes'
  BY <1>5, LogsKept DEF TasksInv, AppServerTypes
<1>7. monitors' \in [Connections -> MonitorRecords]
  BY <1>5 DEF TasksInv, GoroutineTypes
<1> QED BY <1>2, <1>4, <1>5, <1>6, <1>7, StartGoesOn

LEMMA ConnectKeeps ==
  ASSUME TasksInv, NEW t \in Tasks, Connect(t)
  PROVE  TasksInv'
<1>1. /\ starters[t].pc = "connect"
      /\ tasks' = [tasks EXCEPT ![t].connectionCancel = "none"]
      /\ UNCHANGED <<entries, promises, activeTask, log, requests, monitors, notes, asks, turns>>
      /\ RestOfStart
  BY DEF Connect
<1>2. /\ starters' \in [Tasks -> StarterRecords]
      /\ starters'[t].pc # "none" /\ \A u \in Tasks \ {t} : starters'[u] = starters[u]
      /\ link' \in [Connections -> {"new", "open", "closed"}]
  <2>1. ASSUME NEW n \in Connections,
               link' = [link EXCEPT ![n] = "open"],
               starters' = [starters EXCEPT ![t].pc = "monitor", ![t].connection = n]
        PROVE  <1>2!:
    <3>1. /\ starters \in [Tasks -> StarterRecords] /\ link \in [Connections -> {"new", "open", "closed"}]
          /\ "monitor" \in StarterLabels
      BY DEF TasksInv, GoroutineTypes, AppServerTypes, StarterLabels
    <3>2. starters' = [starters EXCEPT ![t] = [starters[t] EXCEPT !.pc = "monitor", !.connection = n]]
      BY <2>1, <3>1
    <3>3. /\ [starters[t] EXCEPT !.pc = "monitor", !.connection = n] \in StarterRecords
          /\ [starters[t] EXCEPT !.pc = "monitor", !.connection = n].pc = "monitor"
      BY <3>1 DEF StarterRecords
    <3> QED BY <2>1, <3>1, <3>2, <3>3
  <2>2. ASSUME NEW to \in {"pre_turn", "fail"}, Step(t, "connect", to), UNCHANGED link
        PROVE  <1>2!:
    <3>1. to \in StarterLabels \ {"none"}
      BY DEF StarterLabels
    <3> QED BY <2>2, <3>1, StepMoves DEF TasksInv, GoroutineTypes, AppServerTypes
  <2> QED BY <2>1, <2>2 DEF Connect
<1>3. Known(t) /\ tasks[t] \in TaskRecords
  BY <1>1, KnownTask
<1>4. /\ tasks' \in [Tasks -> TaskRecords \cup {Null}]
      /\ \A u \in Tasks : tasks[u] = Null <=> tasks'[u] = Null
  <2>1. [tasks[t] EXCEPT !.connectionCancel = "none"] \in TaskRecords
    BY <1>3 DEF TaskRecords
  <2>2. tasks' = [tasks EXCEPT ![t] = [tasks[t] EXCEPT !.connectionCancel = "none"]]
    BY <1>1
  <2> QED BY <1>3, <2>1, <2>2, TaskChanges DEF TasksInv
<1>5. LogsGrow /\ AppServerTypes'
  BY <1>1, <1>2, LogsKept DEF TasksInv, AppServerTypes
<1>6. monitors' \in [Connections -> MonitorRecords]
  BY <1>1 DEF TasksInv, GoroutineTypes
<1> QED BY <1>1, <1>2, <1>4, <1>5, <1>6, StartGoesOn

\* The steps that only move the goroutine and, at most, its connection.
LEMMA StartMoves ==
  ASSUME TasksInv, NEW t \in Tasks, NEW from \in StarterLabels \ {"none", "done"},
         NEW to \in StarterLabels \ {"none"}, Step(t, from, to), RestOfStart,
         UNCHANGED <<registry, notes, asks, turns>>,
         monitors' \in [Connections -> MonitorRecords],
         \A n \in Connections : monitors'[n].pc \in {"confirm", "interrupt"} =>
                                  monitors'[n] = monitors[n],
         link' \in [Connections -> {"new", "open", "closed"}]
  PROVE  TasksInv'
<1>1. /\ starters[t].pc = from /\ starters' \in [Tasks -> StarterRecords]
      /\ starters'[t].pc # "none" /\ \A u \in Tasks \ {t} : starters'[u] = starters[u]
  BY StepMoves DEF TasksInv, GoroutineTypes
<1>2. UNCHANGED <<tasks, entries, promises, activeTask, log, requests>>
  BY DEF registry
<1>3. LogsGrow /\ AppServerTypes'
  BY <1>2, LogsKept DEF TasksInv, AppServerTypes
<1>4. /\ tasks' \in [Tasks -> TaskRecords \cup {Null}]
      /\ \A u \in Tasks : tasks[u] = Null <=> tasks'[u] = Null
  BY <1>2 DEF TasksInv, TaskTypes
<1> QED BY <1>1, <1>2, <1>3, <1>4, StartGoesOn

LEMMA EnsureMonitorKeeps ==
  ASSUME TasksInv, NEW t \in Tasks, EnsureMonitor(t)
  PROVE  TasksInv'
<1>1. /\ monitors' \in [Connections -> MonitorRecords]
      /\ \A n \in Connections : monitors'[n].pc \in {"confirm", "interrupt"} =>
                                  monitors'[n] = monitors[n]
  BY DEF EnsureMonitor, TasksInv, GoroutineTypes, MonitorRecords
<1>2. /\ Step(t, "monitor", "attach") /\ RestOfStart /\ UNCHANGED <<registry, link, notes, asks, turns>>
      /\ {"monitor", "attach"} \subseteq StarterLabels
  BY DEF EnsureMonitor, appServer, StarterLabels
<1> QED BY <1>1, <1>2, StartMoves DEF TasksInv, AppServerTypes

LEMMA ThreadReturnsKeeps ==
  ASSUME TasksInv, NEW t \in Tasks, ThreadReturns(t)
  PROVE  TasksInv'
<1>1. PICK to \in {"bind", "fail"} : Step(t, "threading", to)
  BY DEF ThreadReturns
<1>2. /\ UNCHANGED <<registry, monitors, notes, asks, turns>> /\ RestOfStart
      /\ link' \in [Connections -> {"new", "open", "closed"}]
  BY DEF ThreadReturns, TasksInv, AppServerTypes
<1>3. {"threading", "bind", "fail"} \subseteq StarterLabels
  BY DEF StarterLabels
<1> QED BY <1>1, <1>2, <1>3, StartMoves DEF TasksInv, GoroutineTypes

LEMMA BeforeTurnKeeps ==
  ASSUME TasksInv, NEW t \in Tasks, BeforeTurn(t)
  PROVE  TasksInv'
<1>1. PICK to \in {"pre_turn", "turning"} : Step(t, "before_turn", to)
  BY DEF BeforeTurn
<1>2. UNCHANGED <<registry, monitors, link, notes, asks, turns>> /\ RestOfStart
  BY DEF BeforeTurn, appServer
<1>3. {"before_turn", "pre_turn", "turning"} \subseteq StarterLabels
  BY DEF StarterLabels
<1> QED BY <1>1, <1>2, <1>3, StartMoves DEF TasksInv, GoroutineTypes, AppServerTypes

LEMMA TurnReturnsKeeps ==
  ASSUME TasksInv, NEW t \in Tasks, TurnReturns(t)
  PROVE  TasksInv'
<1>1. PICK to \in {"confirm", "fail"} : Step(t, "turning", to)
  BY DEF TurnReturns
<1>2. /\ UNCHANGED <<registry, monitors, notes, asks, turns>> /\ RestOfStart
      /\ link' \in [Connections -> {"new", "open", "closed"}]
  BY DEF TurnReturns, TasksInv, AppServerTypes
<1>3. {"turning", "confirm", "fail"} \subseteq StarterLabels
  BY DEF StarterLabels
<1> QED BY <1>1, <1>2, <1>3, StartMoves DEF TasksInv, GoroutineTypes

\* The record of a task changes, and its log tells of it or not.
TaskGoesOn ==
  /\ tasks' \in [Tasks -> TaskRecords \cup {Null}]
  /\ \A u \in Tasks : tasks[u] = Null <=> tasks'[u] = Null
  /\ LogsGrow /\ LogsSilent

LEMMA NothingGoesOn ==
  ASSUME TasksInv, UNCHANGED <<tasks, log>>
  PROVE  TaskGoesOn
BY LogsKept DEF TasksInv, TaskTypes, TaskGoesOn

LEMMA RecordGoesOn ==
  ASSUME TasksInv, NEW t \in Tasks, Known(t), NEW r \in TaskRecords,
         tasks' = [tasks EXCEPT ![t] = r],
         NEW kind \in EventKinds \ (EndStates \cup {"created", "resolved"}),
         Append1(t, kind) \/ UNCHANGED log
  PROVE  TaskGoesOn
<1>1. log[t] # <<>> /\ LogsType
  BY KnownTask DEF TasksInv
<1>2. LogsGrow /\ LogsSilent
  BY <1>1, LogsKept, LogsAppendPlain
<1>3. /\ tasks' \in [Tasks -> TaskRecords \cup {Null}]
      /\ \A u \in Tasks : tasks[u] = Null <=> tasks'[u] = Null
  BY TaskChanges DEF TasksInv
<1> QED BY <1>2, <1>3 DEF TaskGoesOn

LEMMA ConfirmThreadGoesOn ==
  ASSUME TasksInv, NEW t \in Tasks, Known(t), ConfirmThreadStarted(t)
  PROVE  TaskGoesOn
<1>1. CASE UNCHANGED <<tasks, log>>
  BY <1>1, NothingGoesOn
<1>2. CASE tasks' = [tasks EXCEPT ![t].thread = TRUE] /\ Append1(t, "thread_started")
  <2>1. [tasks[t] EXCEPT !.thread = TRUE] \in TaskRecords
    BY KnownTask DEF TaskRecords
  <2>2. tasks' = [tasks EXCEPT ![t] = [tasks[t] EXCEPT !.thread = TRUE]]
    BY <1>2
  <2>3. "thread_started" \in EventKinds \ (EndStates \cup {"created", "resolved"})
    BY DEF EventKinds, EndStates
  <2> QED BY <1>2, <2>1, <2>2, <2>3, RecordGoesOn
<1> QED BY <1>1, <1>2 DEF ConfirmThreadStarted

LEMMA ConfirmTurnGoesOn ==
  ASSUME TasksInv, NEW t \in Tasks, Known(t), ConfirmTurnStartedOnce(t)
  PROVE  TaskGoesOn
<1>1. CASE UNCHANGED <<tasks, log>>
  BY <1>1, NothingGoesOn
<1>2. CASE /\ tasks' = [tasks EXCEPT ![t].turn = TRUE, ![t].state = "interrupting",
                                     ![t].preInterruptState = "running"]
           /\ Append1(t, "interrupting")
  <2> DEFINE r == [tasks[t] EXCEPT !.turn = TRUE, !.state = "interrupting",
                                   !.preInterruptState = "running"]
  <2>1. r \in TaskRecords
    BY KnownTask DEF TaskRecords, States
  <2>2. tasks' = [tasks EXCEPT ![t] = r]
    BY <1>2
  <2>3. "interrupting" \in EventKinds \ (EndStates \cup {"created", "resolved"})
    BY DEF EventKinds, EndStates
  <2> HIDE DEF r
  <2> QED BY <1>2, <2>1, <2>2, <2>3, RecordGoesOn
<1>3. CASE /\ tasks' = [tasks EXCEPT ![t].turn = TRUE, ![t].state = "running"]
           /\ Append1(t, "turn_started")
  <2> DEFINE r == [tasks[t] EXCEPT !.turn = TRUE, !.state = "running"]
  <2>1. r \in TaskRecords
    BY KnownTask DEF TaskRecords, States
  <2>2. tasks' = [tasks EXCEPT ![t] = r]
    BY <1>3
  <2>3. "turn_started" \in EventKinds \ (EndStates \cup {"created", "resolved"})
    BY DEF EventKinds, EndStates
  <2> HIDE DEF r
  <2> QED BY <1>3, <2>1, <2>2, <2>3, RecordGoesOn
<1> QED BY <1>1, <1>2, <1>3 DEF ConfirmTurnStartedOnce

LEMMA RollbackGoesOn ==
  ASSUME TasksInv, NEW t \in Tasks, RollbackInterrupt(t)
  PROVE  TaskGoesOn
<1>1. CASE UNCHANGED <<tasks, log>>
  BY <1>1, NothingGoesOn
<1>2. CASE Live(t)
  <2> DEFINE state == IF tasks[t].preInterruptState \in {Null, "interrupting"} THEN "running"
                      ELSE tasks[t].preInterruptState
             r == [tasks[t] EXCEPT !.preInterruptState = Null, !.state = state]
  <2>1. Known(t) /\ tasks[t] \in TaskRecords
    BY <1>2, KnownTask DEF Live
  <2>2. state \in States
    BY <2>1 DEF TaskRecords, States
  <2>3. r \in TaskRecords
    <3> HIDE DEF state
    <3> QED BY <2>1, <2>2 DEF TaskRecords
  <2>4. tasks' = [tasks EXCEPT ![t] = r] /\ Append1(t, "interrupt_rejected")
    BY <1>2 DEF RollbackInterrupt
  <2>5. "interrupt_rejected" \in EventKinds \ (EndStates \cup {"created", "resolved"})
    BY DEF EventKinds, EndStates
  <2> HIDE DEF r
  <2> QED BY <2>1, <2>3, <2>4, <2>5, RecordGoesOn
<1> QED BY <1>1, <1>2 DEF RollbackInterrupt

LEMMA InterruptTurnGoesOn ==
  ASSUME TasksInv, NEW t \in Tasks, NEW n, InterruptTurn(t, n)
  PROVE  /\ TaskGoesOn /\ AppServerTypes'
         /\ UNCHANGED <<entries, promises, activeTask, requests, notes, asks, turns>>
<1>1. TaskGoesOn
  BY NothingGoesOn, RollbackGoesOn DEF InterruptTurn
<1>2. AppServerTypes'
  BY DEF InterruptTurn, TasksInv, AppServerTypes
<1> QED BY <1>1, <1>2 DEF InterruptTurn

LEMMA SetTaskConnectionKeeps ==
  ASSUME TasksInv, NEW t \in Tasks, SetTaskConnection(t)
  PROVE  TasksInv'
<1>1. PICK to \in {"pre_turn", "threading"} : Step(t, "attach", to)
  BY DEF SetTaskConnection
<1>2. /\ starters[t].pc = "attach" /\ starters' \in [Tasks -> StarterRecords]
      /\ starters'[t].pc # "none" /\ \A u \in Tasks \ {t} : starters'[u] = starters[u]
  BY <1>1, StepMoves DEF TasksInv, GoroutineTypes, StarterLabels
<1>3. Known(t) /\ tasks[t] \in TaskRecords
  BY <1>2, KnownTask
<1>4. /\ tasks' \in [Tasks -> TaskRecords \cup {Null}]
      /\ \A u \in Tasks : tasks[u] = Null <=> tasks'[u] = Null
  <2>1. [tasks[t] EXCEPT !.connection = Of(t)] \in TaskRecords
    BY <1>3 DEF TaskRecords, Of, StarterRecords, TasksInv, GoroutineTypes
  <2>2. tasks' = [tasks EXCEPT ![t] = [tasks[t] EXCEPT !.connection = Of(t)]]
    BY DEF SetTaskConnection
  <2> QED BY <1>3, <2>1, <2>2, TaskChanges DEF TasksInv
<1>5. /\ UNCHANGED <<entries, promises, activeTask, log, requests, monitors, link, notes, asks, turns>>
      /\ RestOfStart
  BY DEF SetTaskConnection, appServer
<1>6. LogsGrow /\ AppServerTypes'
  BY <1>5, LogsKept DEF TasksInv, AppServerTypes
<1>7. monitors' \in [Connections -> MonitorRecords]
  BY <1>5 DEF TasksInv, GoroutineTypes
<1> QED BY <1>2, <1>4, <1>5, <1>6, <1>7, StartGoesOn

LEMMA BindThreadKeeps ==
  ASSUME TasksInv, NEW t \in Tasks, BindThread(t)
  PROVE  TasksInv'
<1>1. /\ starters[t].pc = "bind" /\ starters' \in [Tasks -> StarterRecords]
      /\ starters'[t].pc # "none" /\ \A u \in Tasks \ {t} : starters'[u] = starters[u]
  BY StepMoves DEF BindThread, TasksInv, GoroutineTypes, StarterLabels
<1>2. TaskGoesOn
  BY <1>1, KnownTask, ConfirmThreadGoesOn DEF BindThread
<1>3. /\ UNCHANGED <<entries, promises, activeTask, requests, monitors, link, notes, asks, turns>>
      /\ RestOfStart
  BY DEF BindThread, appServer
<1>4. AppServerTypes' /\ monitors' \in [Connections -> MonitorRecords]
  BY <1>3 DEF TasksInv, AppServerTypes, GoroutineTypes
<1> QED BY <1>1, <1>2, <1>3, <1>4, StartGoesOn DEF TaskGoesOn

LEMMA ConfirmTurnKeeps ==
  ASSUME TasksInv, NEW t \in Tasks, ConfirmTurn(t)
  PROVE  TasksInv'
<1>1. PICK to \in {"interrupt", "succeed"} : Step(t, "confirm", to)
  BY DEF ConfirmTurn
<1>2. /\ starters[t].pc = "confirm" /\ starters' \in [Tasks -> StarterRecords]
      /\ starters'[t].pc # "none" /\ \A u \in Tasks \ {t} : starters'[u] = starters[u]
  BY <1>1, StepMoves DEF TasksInv, GoroutineTypes, StarterLabels
<1>3. TaskGoesOn
  BY <1>2, KnownTask, ConfirmTurnGoesOn DEF ConfirmTurn
<1>4. /\ UNCHANGED <<entries, promises, activeTask, requests, monitors, link, notes, asks, turns>>
      /\ RestOfStart
  BY DEF ConfirmTurn, appServer
<1>5. AppServerTypes' /\ monitors' \in [Connections -> MonitorRecords]
  BY <1>4 DEF TasksInv, AppServerTypes, GoroutineTypes
<1> QED BY <1>2, <1>3, <1>4, <1>5, StartGoesOn DEF TaskGoesOn

LEMMA SendInterruptKeeps ==
  ASSUME TasksInv, NEW t \in Tasks, SendInterrupt(t)
  PROVE  TasksInv'
<1>1. /\ starters[t].pc = "interrupt" /\ starters' \in [Tasks -> StarterRecords]
      /\ starters'[t].pc # "none" /\ \A u \in Tasks \ {t} : starters'[u] = starters[u]
  BY StepMoves DEF SendInterrupt, TasksInv, GoroutineTypes, StarterLabels
<1>2. /\ TaskGoesOn /\ AppServerTypes'
      /\ UNCHANGED <<entries, promises, activeTask, requests, notes, asks, turns>>
  BY InterruptTurnGoesOn DEF SendInterrupt
<1>3. UNCHANGED monitors /\ RestOfStart
  BY DEF SendInterrupt
<1>4. monitors' \in [Connections -> MonitorRecords]
  BY <1>3 DEF TasksInv, GoroutineTypes
<1> QED BY <1>1, <1>2, <1>3, <1>4, StartGoesOn DEF TaskGoesOn

-----------------------------------------------------------------------------
(* Steps that end tasks                                                    *)

\* What is needed of a task that comes to its end.
MayEnd(ends) ==
  /\ DOMAIN ends \subseteq Tasks
  /\ \A t \in DOMAIN ends :
       /\ Known(t) /\ ends[t].state \in EndStates /\ ends[t].first \in Seq(Events)
       /\ \A q \in Requests : /\ ~Has(ends[t].first, About("created", q))
                              /\ ~Has(ends[t].first, About("resolved", q))

LEMMA EndingStep ==
  ASSUME TasksInv, NEW ends, MayEnd(ends), EndTasks(ends),
         entries' \in [Tasks -> EntryStates], PromiseKept',
         UNCHANGED retention, UNCHANGED <<responses, asks>>,
         backlog' \in [Connections -> SUBSET Requests],
         \A u \in Tasks : starters'[u] = starters[u]
                            \/ (starters[u].pc \notin {"none", "done"} /\ starters'[u].pc = "done"),
         GoroutineTypes', AppServerTypes', GoroutinesNamed'
  PROVE  TasksInv'
<1>1. TaskTypes /\ LogsType /\ RequestTypes /\ RequestsNamed
  BY DEF TasksInv
<1>2. /\ tasks' \in [Tasks -> TaskRecords \cup {Null}]
      /\ \A t \in Tasks : t \notin DOMAIN ends => tasks'[t] = tasks[t] /\ log'[t] = log[t]
      /\ \A t \in DOMAIN ends : tasks'[t] # Null
      /\ activeTask' = IF activeTask \in DOMAIN ends THEN Null ELSE activeTask
      /\ requests' = [q \in Requests |-> IF Cleared(ends, q)
                                         THEN [requests[q] EXCEPT !.state = "resolved"]
                                         ELSE requests[q]]
      /\ LogsType'
      /\ \A t \in DOMAIN ends : log'[t] # <<>> /\ Ends(log'[t])
  BY <1>1, EndTasksEffect DEF MayEnd
<1>3. TaskTypes'
  BY <1>1, <1>2 DEF TaskTypes, retention
<1>4. ASSUME NEW q \in Requests
      PROVE  /\ requests'[q] \in RequestRecords
             /\ requests'[q].state = "none" <=> requests[q].state = "none"
             /\ requests'[q].state = "asked" <=> requests[q].state = "asked"
             /\ requests'[q].task = requests[q].task
  <2>1. requests[q] \in RequestRecords
    BY <1>1 DEF RequestTypes
  <2>2. CASE Cleared(ends, q)
    <3>1. requests'[q] = [requests[q] EXCEPT !.state = "resolved"] /\ requests[q].state = "active"
      BY <1>2, <2>2 DEF Cleared
    <3> QED BY <2>1, <3>1 DEF RequestRecords
  <2>3. CASE ~Cleared(ends, q)
    BY <1>2, <2>1, <2>3
  <2> QED BY <2>2, <2>3
<1>5. RequestTypes'
  <2>1. requests' \in [Requests -> RequestRecords]
    BY <1>2, <1>4
  <2> QED BY <1>1, <2>1 DEF RequestTypes
<1>6. RequestsNamed'
  <2>1. {q \in Requests : requests'[q].state # "none"} = {q \in Requests : requests[q].state # "none"}
    BY <1>4
  <2>2. \A n \in Connections : \A i \in DOMAIN asks[n] : asks[n][i] \in Requests
    BY DEF TasksInv, AppServerTypes
  <2>3. IsFiniteSet({q \in Requests : requests'[q].state # "none"})
    BY <1>1, <2>1 DEF RequestsNamed
  <2>4. \A q \in Requests : requests'[q].state # "none" => requests'[q].task \in Tasks
    BY <1>1, <1>4 DEF RequestsNamed
  <2>5. \A n \in Connections : \A i \in DOMAIN asks'[n] : requests'[asks'[n][i]].state = "asked"
    BY <1>1, <1>4, <2>2 DEF RequestsNamed
  <2>6. \A n, m \in Connections : \A i \in DOMAIN asks'[n], j \in DOMAIN asks'[m] :
          asks'[n][i] = asks'[m][j] => n = m /\ i = j
    BY <1>1 DEF RequestsNamed
  <2> QED BY <2>3, <2>4, <2>5, <2>6 DEF RequestsNamed
<1>7. ASSUME NEW u \in Tasks PROVE Lives(u)'
  <2>1. Lives(u) /\ (u \in DOMAIN ends => log[u] # <<>>)
    BY KnownTask DEF TasksInv, MayEnd
  <2>2. (log'[u] = <<>> <=> log[u] = <<>>) /\ (tasks'[u] = Null <=> tasks[u] = Null)
    BY <1>2, <2>1 DEF MayEnd, Known
  <2>3. UNCHANGED stale
    BY DEF retention
  <2> QED BY <2>1, <2>2, <2>3 DEF Lives, Known
<1>8. ASSUME NEW u \in Tasks PROVE SessionHeld(u)'
  <2>1. SessionHeld(u)
    BY DEF TasksInv
  <2>2. CASE u \in DOMAIN ends
    <3>1. activeTask' # u
      BY <1>2, <2>2, TasksAssumption
    <3> QED BY <1>2, <2>2, <3>1 DEF SessionHeld
  <2>3. CASE u \notin DOMAIN ends
    <3>1. activeTask' = u <=> activeTask = u
      BY <1>2, <2>3, TasksAssumption
    <3> QED BY <1>2, <2>1, <2>3, <3>1 DEF SessionHeld
  <2> QED BY <2>2, <2>3
<1> QED BY <1>2, <1>3, <1>5, <1>6, <1>7, <1>8 DEF TasksInv

LEMMA NothingFirst ==
  \A e : ~Has(<<>>, e)
BY DEF Has

\* The end of one task.
EndOf(t, state, first, clears) ==
  [u \in {t} |-> [state |-> state, first |-> first, clears |-> clears]]

LEMMA OneEnd ==
  ASSUME NEW t \in Tasks, Known(t), NEW state \in EndStates, NEW first \in Seq(Events),
         NEW clears \in BOOLEAN,
         \A q \in Requests : /\ ~Has(first, About("created", q))
                             /\ ~Has(first, About("resolved", q))
  PROVE  /\ MayEnd(EndOf(t, state, first, clears))
         /\ DOMAIN EndOf(t, state, first, clears) = {t}
         /\ EndOf(t, state, first, clears)[t].clears = clears
BY DEF MayEnd, EndOf

LEMMA DeferredTells ==
  ASSUME TasksInv, NEW t \in Tasks
  PROVE  /\ Deferred(t) \in Seq(Events) /\ ~Ends(Deferred(t))
         /\ \A q \in Requests : /\ ~Has(Deferred(t), About("created", q))
                                /\ ~Has(Deferred(t), About("resolved", q))
<1>1. Plain("unsupported") \in Events /\ Plain("unsupported").kind = "unsupported"
  BY EventsAre DEF EventKinds
<1>2. \A q \in Requests : About("created", q) # Plain("unsupported")
                          /\ About("resolved", q) # Plain("unsupported")
  BY EventsAre
<1>3. CASE Deferred(t) = <<Plain("unsupported")>>
  <2>1. <<>> \in Seq(Events)
    OBVIOUS
  <2>2. /\ <<Plain("unsupported")>> \in Seq(Events)
        /\ \A e : Has(<<Plain("unsupported")>>, e) <=> e = Plain("unsupported")
        /\ ~Ends(<<Plain("unsupported")>>)
    BY <1>1, <2>1, OneMore DEF EndStates
  <2> QED BY <1>2, <1>3, <2>2
<1>4. CASE Deferred(t) = <<>>
  BY <1>4 DEF Has, Ends
<1> QED BY <1>3, <1>4 DEF Deferred

LEMMA PreTurnInterruptEnds ==
  ASSUME TasksInv, NEW t \in Tasks, Known(t), entries[t] = "pending", PreTurnInterrupt(t)
  PROVE  /\ entries' \in [Tasks -> EntryStates] /\ PromiseKept'
         /\ \E ends : MayEnd(ends) /\ DOMAIN ends = {t} /\ EndTasks(ends) /\ ~ends[t].clears
<1> DEFINE ends == EndOf(t, "interrupted", <<>>, FALSE)
<1>1. EndTasks(ends) /\ AnswerStart(t, "interrupted_before_turn")
  BY Zenon DEF PreTurnInterrupt, EndOf
<1>2. entries' \in [Tasks -> EntryStates] /\ PromiseKept'
  BY <1>1, AnswerStartEffect DEF EntryStates, EndStates, TasksInv
<1>3. "interrupted" \in EndStates /\ <<>> \in Seq(Events)
  BY DEF EndStates
<1>4. MayEnd(ends) /\ DOMAIN ends = {t} /\ ends[t].clears = FALSE
  BY <1>3, NothingFirst, OneEnd
<1> HIDE DEF ends
<1> QED BY <1>1, <1>2, <1>4

LEMMA EndTaskEnds ==
  ASSUME TasksInv, NEW t \in Tasks, Known(t), NEW state \in EndStates, NEW first \in Seq(Events),
         \A q \in Requests : /\ ~Has(first, About("created", q))
                             /\ ~Has(first, About("resolved", q)),
         EndTask(t, state, first)
  PROVE  \E ends : MayEnd(ends) /\ DOMAIN ends = {t} /\ EndTasks(ends) /\ ends[t].clears
<1> DEFINE ends == EndOf(t, state, first, TRUE)
<1>1. EndTasks(ends)
  BY Zenon DEF EndTask, EndOf
<1>2. MayEnd(ends) /\ DOMAIN ends = {t} /\ ends[t].clears = TRUE
  BY OneEnd
<1> HIDE DEF ends
<1> QED BY <1>1, <1>2

\* What a goroutine that comes to its end leaves alone.
LEMMA StartEnds ==
  ASSUME TasksInv, NEW t \in Tasks, NEW from \in StarterLabels \ {"none", "done"},
         Step(t, from, "done"), UNCHANGED <<monitors, appServer>>, RestOfStart
  PROVE  /\ starters[t].pc = from /\ Known(t) /\ starters' \in [Tasks -> StarterRecords]
         /\ \A u \in Tasks : starters'[u] = starters[u]
                               \/ (starters[u].pc \notin {"none", "done"} /\ starters'[u].pc = "done")
         /\ starters'[t].pc = "done" /\ \A u \in Tasks \ {t} : starters'[u] = starters[u]
         /\ UNCHANGED retention /\ UNCHANGED <<responses, backlog, asks, idempotency, stale, called>>
         /\ backlog' \in [Connections -> SUBSET Requests]
         /\ GoroutineTypes' /\ AppServerTypes' /\ GoroutinesNamed'
<1>1. /\ starters[t].pc = from /\ starters' \in [Tasks -> StarterRecords]
      /\ starters'[t].pc = "done" /\ \A u \in Tasks \ {t} : starters'[u] = starters[u]
  BY StepMoves DEF TasksInv, GoroutineTypes, StarterLabels
<1>2. /\ UNCHANGED <<responses, backlog, idempotency, stale, called, interrupters, responders>>
      /\ UNCHANGED <<link, notes, asks, turns, monitors>> /\ UNCHANGED retention
  BY DEF RestOfStart, pendings, retention, appServer
<1>3. GoroutineTypes' /\ AppServerTypes' /\ backlog' \in [Connections -> SUBSET Requests]
  BY <1>1, <1>2 DEF TasksInv, GoroutineTypes, AppServerTypes, RequestTypes
<1>4. GoroutinesNamed'
  BY <1>2, GoroutinesNamedKept DEF TasksInv
<1>5. Known(t)
  BY <1>1, KnownTask
<1> QED BY <1>1, <1>2, <1>3, <1>4, <1>5

\* A start that was answered before.
LEMMA AnsweredStartEnds ==
  ASSUME TasksInv, NEW t \in Tasks, NEW from \in StarterLabels \ {"none", "done"},
         Step(t, from, "done"), UNCHANGED <<monitors, appServer>>, RestOfStart, UNCHANGED registry
  PROVE  TasksInv'
<1>1. /\ UNCHANGED <<tasks, entries, promises, activeTask, log, requests, monitors, link, notes, asks, turns>>
  BY DEF registry, appServer
<1>2. /\ monitors' \in [Connections -> MonitorRecords]
      /\ link' \in [Connections -> {"new", "open", "closed"}]
  BY <1>1 DEF TasksInv, GoroutineTypes, AppServerTypes
<1> QED BY <1>1, <1>2, StartMoves DEF StarterLabels

LEMMA CompleteStartSuccessGoesOn ==
  ASSUME TasksInv, NEW t \in Tasks, CompleteStartSuccess(t)
  PROVE  /\ TaskGoesOn /\ entries' \in [Tasks -> EntryStates] /\ PromiseKept'
         /\ UNCHANGED <<activeTask, requests>>
<1>1. CASE UNCHANGED registry
  BY <1>1, NothingGoesOn, PromiseUntouched DEF registry
<1>2. CASE /\ entries[t] = "pending" /\ AnswerStart(t, "succeeded")
           /\ tasks' = [tasks EXCEPT ![t].deferred = FALSE]
           /\ log' = [log EXCEPT ![t] = @ \o Deferred(t)]
           /\ UNCHANGED <<activeTask, requests>>
  <2>1. Known(t)
    BY KnownTask DEF CompleteStartSuccess, Step
  <2>2. tasks[t] \in TaskRecords /\ log[t] # <<>>
    BY <2>1, KnownTask
  <2>3. entries' \in [Tasks -> EntryStates] /\ PromiseKept'
    BY <1>2, AnswerStartEffect DEF EntryStates, EndStates, TasksInv
  <2>4. /\ tasks' \in [Tasks -> TaskRecords \cup {Null}]
        /\ \A u \in Tasks : tasks[u] = Null <=> tasks'[u] = Null
    <3>1. [tasks[t] EXCEPT !.deferred = FALSE] \in TaskRecords
      BY <2>2 DEF TaskRecords
    <3>2. tasks' = [tasks EXCEPT ![t] = [tasks[t] EXCEPT !.deferred = FALSE]]
      BY <1>2
    <3> QED BY <2>1, <3>1, <3>2, TaskChanges DEF TasksInv
  <2>5. log \in [Tasks -> Seq(Events)]
    BY DEF TasksInv, LogsType
  <2>6. /\ log' = [u \in Tasks |-> IF u = t THEN log[t] \o Deferred(t) ELSE log[u]]
        /\ log'[t] = log[t] \o Deferred(t) /\ \A u \in Tasks \ {t} : log'[u] = log[u]
    BY <1>2, <2>5
  <2>7. log[t] \o Deferred(t) \in Seq(Events) /\ log[t] \o Deferred(t) # <<>>
    <3>1. /\ log[t] \o Deferred(t) \in Seq(Events)
          /\ DOMAIN (log[t] \o Deferred(t)) = 1..(Len(log[t]) + Len(Deferred(t)))
          /\ Len(log[t]) \in Nat /\ Len(Deferred(t)) \in Nat
      BY <2>5, DeferredTells, ConcatPlaces
    <3>2. Len(log[t]) > 0
      BY <2>2, <2>5
    <3> QED BY <3>1, <3>2
  <2>8. Ends(log[t] \o Deferred(t)) <=> Ends(log[t])
    BY <2>5, DeferredTells, ConcatEnds
  <2>9. LogsGrow
    <3>1. LogsType'
      BY <2>5, <2>6, <2>7 DEF LogsType
    <3>2. ASSUME NEW u \in Tasks
          PROVE  (log'[u] = <<>> <=> log[u] = <<>>) /\ (Ends(log'[u]) <=> Ends(log[u]))
      <4>1. CASE u = t
        BY <4>1, <2>2, <2>6, <2>7, <2>8
      <4>2. CASE u # t
        BY <4>2, <2>6
      <4> QED BY <4>1, <4>2
    <3> QED BY <3>1, <3>2 DEF LogsGrow
  <2>10. LogsSilent
    <3>1. ASSUME NEW u \in Tasks, NEW q \in Requests
          PROVE  /\ Silent(log[u], log'[u], About("created", q))
                 /\ Silent(log[u], log'[u], About("resolved", q))
      <4>1. CASE u = t
        BY <4>1, <2>5, <2>6, DeferredTells, SilentOrTold
      <4>2. CASE u # t
        BY <4>2, <2>6, SilentOrToldLater
      <4> QED BY <4>1, <4>2
    <3> QED BY <3>1 DEF LogsSilent
  <2> QED BY <1>2, <2>3, <2>4, <2>9, <2>10 DEF TaskGoesOn
<1> QED BY <1>1, <1>2 DEF CompleteStartSuccess

LEMMA CompleteStartSuccessKeeps ==
  ASSUME TasksInv, NEW t \in Tasks, CompleteStartSuccess(t)
  PROVE  TasksInv'
<1>1. /\ Step(t, "succeed", "done") /\ UNCHANGED <<monitors, appServer>> /\ RestOfStart
      /\ "succeed" \in StarterLabels
  BY DEF CompleteStartSuccess, StarterLabels
<1>2. /\ TaskGoesOn /\ entries' \in [Tasks -> EntryStates] /\ PromiseKept'
      /\ UNCHANGED <<activeTask, requests>>
  BY CompleteStartSuccessGoesOn
<1>3. /\ starters[t].pc = "succeed" /\ Known(t)
      /\ starters'[t].pc = "done" /\ \A u \in Tasks \ {t} : starters'[u] = starters[u]
      /\ UNCHANGED <<responses, backlog, asks, idempotency, stale, called>>
      /\ GoroutineTypes' /\ AppServerTypes' /\ GoroutinesNamed'
  BY <1>1, StartEnds
<1>4. RequestTypes' /\ RequestsNamed' /\ idempotency' \in [Keys -> Tasks \cup {Null}]
  BY <1>2, <1>3, RequestsNamedKept DEF TasksInv, RequestTypes, TaskTypes
<1>5. \A u \in Tasks :
           /\ starters'[u].pc = "none" <=> starters[u].pc = "none"
           /\ tasks[u] = Null => tasks'[u] = Null
           /\ starters'[u].pc \notin {"none", "done"} => tasks'[u] # Null
           /\ u \in stale => starters'[u].pc = "done"
  BY <1>2, <1>3 DEF TasksInv, Lives, Known, TaskGoesOn
<1> QED BY <1>2, <1>3, <1>4, <1>5, QuietStep DEF TaskGoesOn

LEMMA CompleteStartFailureKeeps ==
  ASSUME TasksInv, NEW t \in Tasks, CompleteStartFailure(t)
  PROVE  TasksInv'
<1>1. /\ Step(t, "fail", "done") /\ UNCHANGED <<monitors, appServer>> /\ RestOfStart
      /\ "fail" \in StarterLabels
  BY DEF CompleteStartFailure, StarterLabels
<1>2. /\ starters[t].pc = "fail" /\ Known(t)
      /\ starters'[t].pc = "done" /\ \A u \in Tasks \ {t} : starters'[u] = starters[u]
      /\ \A u \in Tasks : starters'[u] = starters[u]
                            \/ (starters[u].pc \notin {"none", "done"} /\ starters'[u].pc = "done")
      /\ UNCHANGED retention /\ UNCHANGED <<responses, backlog, asks, idempotency, stale, called>>
      /\ backlog' \in [Connections -> SUBSET Requests]
      /\ GoroutineTypes' /\ AppServerTypes' /\ GoroutinesNamed'
  BY <1>1, StartEnds
<1>3. CASE UNCHANGED registry
  BY <1>1, <1>3, AnsweredStartEnds
<1>4. ASSUME NEW answer \in {"succeeded", "failed"}, entries[t] = "pending", AnswerStart(t, answer),
             UNCHANGED <<tasks, activeTask, log, requests>>
      PROVE  TasksInv'
  <2>1. entries' \in [Tasks -> EntryStates] /\ PromiseKept'
    BY <1>4, AnswerStartEffect DEF EntryStates, EndStates, TasksInv
  <2>2. TaskGoesOn
    BY <1>4, NothingGoesOn
  <2>3. RequestTypes' /\ RequestsNamed' /\ idempotency' \in [Keys -> Tasks \cup {Null}]
    BY <1>2, <1>4, RequestsNamedKept DEF TasksInv, RequestTypes, TaskTypes
  <2>4. \A u \in Tasks :
           /\ starters'[u].pc = "none" <=> starters[u].pc = "none"
           /\ tasks[u] = Null => tasks'[u] = Null
           /\ starters'[u].pc \notin {"none", "done"} => tasks'[u] # Null
           /\ u \in stale => starters'[u].pc = "done"
    BY <1>2, <1>4 DEF TasksInv, Lives, Known
  <2> QED BY <1>2, <1>4, <2>1, <2>2, <2>3, <2>4, QuietStep DEF TaskGoesOn
<1>5. CASE entries[t] = "pending" /\ PreTurnInterrupt(t)
  <2>1. /\ entries' \in [Tasks -> EntryStates] /\ PromiseKept'
        /\ \E ends : MayEnd(ends) /\ DOMAIN ends = {t} /\ EndTasks(ends) /\ ~ends[t].clears
    BY <1>2, <1>5, PreTurnInterruptEnds
  <2> QED BY <1>2, <2>1, EndingStep
<1>6. CASE entries[t] = "pending" /\ EndTask(t, "failed", <<>>) /\ AnswerStart(t, "failed")
  <2>1. entries' \in [Tasks -> EntryStates] /\ PromiseKept'
    BY <1>6, AnswerStartEffect DEF EntryStates, EndStates, TasksInv
  <2>2. \E ends : MayEnd(ends) /\ DOMAIN ends = {t} /\ EndTasks(ends) /\ ends[t].clears
    <3>1. "failed" \in EndStates /\ <<>> \in Seq(Events)
      BY DEF EndStates
    <3> QED BY <1>2, <1>6, <3>1, NothingFirst, EndTaskEnds
  <2> QED BY <1>2, <2>1, <2>2, EndingStep
<1> QED BY <1>3, <1>4, <1>5, <1>6, Zenon DEF CompleteStartFailure

LEMMA CompletePreTurnInterruptKeeps ==
  ASSUME TasksInv, NEW t \in Tasks, CompletePreTurnInterrupt(t)
  PROVE  TasksInv'
<1>1. /\ Step(t, "pre_turn", "done") /\ UNCHANGED <<monitors, appServer>> /\ RestOfStart
      /\ "pre_turn" \in StarterLabels
  BY DEF CompletePreTurnInterrupt, StarterLabels
<1>2. /\ Known(t)
      /\ \A u \in Tasks : starters'[u] = starters[u]
                            \/ (starters[u].pc \notin {"none", "done"} /\ starters'[u].pc = "done")
      /\ UNCHANGED retention /\ UNCHANGED <<responses, backlog, asks>>
      /\ backlog' \in [Connections -> SUBSET Requests]
      /\ GoroutineTypes' /\ AppServerTypes' /\ GoroutinesNamed'
  BY <1>1, StartEnds
<1>3. CASE UNCHANGED registry
  BY <1>1, <1>3, AnsweredStartEnds
<1>4. CASE entries[t] = "pending" /\ PreTurnInterrupt(t)
  <2>1. /\ entries' \in [Tasks -> EntryStates] /\ PromiseKept'
        /\ \E ends : MayEnd(ends) /\ DOMAIN ends = {t} /\ EndTasks(ends) /\ ~ends[t].clears
    BY <1>2, <1>4, PreTurnInterruptEnds
  <2> QED BY <1>2, <2>1, EndingStep
<1> QED BY <1>3, <1>4 DEF CompletePreTurnInterrupt

LEMMA StartStepKeeps ==
  ASSUME TasksInv, NEW t \in Tasks, StartStep(t)
  PROVE  TasksInv'
BY BeginStartKeeps, ConnectKeeps, EnsureMonitorKeeps, SetTaskConnectionKeeps, ThreadReturnsKeeps,
   BindThreadKeeps, BeforeTurnKeeps, TurnReturnsKeeps, ConfirmTurnKeeps, SendInterruptKeeps,
   CompleteStartSuccessKeeps, CompleteStartFailureKeeps, CompletePreTurnInterruptKeeps, Zenon
   DEF StartStep

-----------------------------------------------------------------------------
(* Requests of clients, and the time a task is kept                        *)

LEMMA Retained ==
  ASSUME TasksInv
  PROVE  /\ RetainedTasks \in [Tasks -> TaskRecords \cup {Null}]
         /\ RetainedKeys \in [Keys -> Tasks \cup {Null}]
         /\ \A t \in Tasks : /\ RetainedTasks[t] \in {tasks[t], Null}
                             /\ RetainedTasks[t] # tasks[t] =>
                                  Known(t) /\ Terminal(t) /\ t \in stale /\ starters[t].pc = "done"
         /\ \A k \in Keys : RetainedKeys[k] # Null =>
              RetainedTasks[RetainedKeys[k]] = tasks[RetainedKeys[k]]
<1>1. tasks \in [Tasks -> TaskRecords \cup {Null}] /\ idempotency \in [Keys -> Tasks \cup {Null}]
  BY DEF TasksInv, TaskTypes
<1>2. RetainedTasks \in [Tasks -> TaskRecords \cup {Null}]
  BY <1>1 DEF RetainedTasks
<1>3. RetainedKeys \in [Keys -> Tasks \cup {Null}]
  BY <1>1 DEF RetainedKeys
<1>4. \A t \in Tasks : /\ RetainedTasks[t] \in {tasks[t], Null}
                       /\ RetainedTasks[t] # tasks[t] =>
                            Known(t) /\ Terminal(t) /\ t \in stale /\ starters[t].pc = "done"
  BY DEF RetainedTasks, Expired, TasksInv, Lives
<1>5. ASSUME NEW k \in Keys, RetainedKeys[k] # Null
      PROVE  RetainedTasks[RetainedKeys[k]] = tasks[RetainedKeys[k]]
  <2>1. RetainedKeys[k] = idempotency[k] /\ ~Expired(idempotency[k])
    BY <1>5 DEF RetainedKeys
  <2>2. idempotency[k] \in Tasks
    BY <1>1, <1>5, <2>1
  <2> QED BY <2>1, <2>2 DEF RetainedTasks
<1> QED BY <1>2, <1>3, <1>4, <1>5

LEMMA GetTaskStatusKeeps ==
  ASSUME TasksInv, GetTaskStatus
  PROVE  TasksInv'
<1>1. /\ tasks' = RetainedTasks /\ idempotency' = RetainedKeys
      /\ UNCHANGED <<entries, promises, activeTask, log, requests, responses, backlog, stale, called,
                     starters, interrupters, responders, monitors, link, notes, asks, turns>>
  BY DEF GetTaskStatus, pendings, appServer
<1>2. /\ tasks' \in [Tasks -> TaskRecords \cup {Null}]
      /\ idempotency' \in [Keys -> Tasks \cup {Null}]
  BY <1>1, Retained
<1>3. LogsGrow /\ RequestTypes' /\ GoroutineTypes' /\ AppServerTypes' /\ GoroutinesNamed' /\ RequestsNamed'
      /\ entries' \in [Tasks -> EntryStates] /\ PromiseKept'
  BY <1>1, LogsKept, GoroutinesNamedKept, RequestsNamedKept, PromiseUntouched
     DEF TasksInv, RequestTypes, GoroutineTypes, AppServerTypes
<1>4. \A u \in Tasks :
           /\ starters'[u].pc = "none" <=> starters[u].pc = "none"
           /\ tasks[u] = Null => tasks'[u] = Null
           /\ starters'[u].pc \notin {"none", "done"} => tasks'[u] # Null
           /\ u \in stale => starters'[u].pc = "done"
  BY <1>1, Retained DEF TasksInv, Lives, Known
<1> QED BY <1>1, <1>2, <1>3, <1>4, QuietStep

LEMMA RetentionEndsKeeps ==
  ASSUME TasksInv, NEW t \in Tasks, RetentionEnds(t)
  PROVE  TasksInv'
<1>1. /\ stale' = stale \cup {t} /\ starters[t].pc = "done"
      /\ UNCHANGED <<tasks, idempotency, entries, promises, activeTask, log, requests, responses,
                     backlog, called, starters, interrupters, responders, monitors, link, notes,
                     asks, turns>>
  BY DEF RetentionEnds, registry, pendings, appServer
<1>2. TaskTypes' /\ LogsType' /\ RequestTypes' /\ GoroutineTypes' /\ AppServerTypes'
      /\ GoroutinesNamed' /\ RequestsNamed' /\ PromiseKept'
  BY <1>1, GoroutinesNamedKept, RequestsNamedKept, PromiseUntouched
     DEF TasksInv, TaskTypes, LogsType, RequestTypes, GoroutineTypes, AppServerTypes
<1>3. \A u \in Tasks : Lives(u)' /\ SessionHeld(u)'
  BY <1>1 DEF TasksInv, Lives, Known, SessionHeld
<1> QED BY <1>2, <1>3 DEF TasksInv

LEMMA ClaimStartKeeps ==
  ASSUME TasksInv, NEW c \in Clients, ClaimStart(c)
  PROVE  TasksInv'
<1> DEFINE key == Commands[c].key
<1>1. /\ called' = called \cup {c}
      /\ UNCHANGED <<entries, promises, requests, responses, backlog, stale, interrupters,
                     responders, monitors, link, notes, asks, turns>>
  BY DEF ClaimStart, pendings, appServer
<1>2. RequestTypes' /\ AppServerTypes' /\ GoroutinesNamed' /\ RequestsNamed' /\ PromiseKept'
      /\ entries' \in [Tasks -> EntryStates] /\ called' \subseteq Clients /\ stale' \subseteq Tasks
      /\ interrupters' \in [Interrupters -> InterrupterRecords]
      /\ responders' \in [Responders -> ResponderRecords]
      /\ monitors' \in [Connections -> MonitorRecords]
  BY <1>1, GoroutinesNamedKept, RequestsNamedKept, PromiseUntouched
     DEF TasksInv, TaskTypes, RequestTypes, GoroutineTypes, AppServerTypes
<1>3. CASE /\ tasks' = RetainedTasks /\ idempotency' = RetainedKeys
           /\ UNCHANGED <<activeTask, log, starters>>
  <2>1. TaskTypes' /\ LogsType' /\ GoroutineTypes'
    BY <1>2, <1>3, Retained DEF TasksInv, TaskTypes, LogsType, GoroutineTypes
  <2>2. \A u \in Tasks : Lives(u)' /\ SessionHeld(u)'
    BY <1>1, <1>3, Retained DEF TasksInv, Lives, Known, SessionHeld
  <2> QED BY <1>2, <2>1, <2>2 DEF TasksInv
<1>4. ASSUME activeTask = Null,
             NEW t \in Tasks, starters[t].pc = "none",
             tasks' = [RetainedTasks EXCEPT ![t] =
                  [key |-> key, state |-> "starting", thread |-> FALSE, turn |-> FALSE,
                   connection |-> Null, connectionCancel |-> "none", cancelBeforeTurn |-> FALSE,
                   preInterruptState |-> Null, deferred |-> FALSE]],
             idempotency' = [RetainedKeys EXCEPT ![key] = t],
             activeTask' = t,
             Append1(t, "task_started"),
             starters' = [starters EXCEPT ![t].pc = "begin", ![t].resumes = Commands[c].resumes]
      PROVE  TasksInv'
  <2> DEFINE r == [key |-> key, state |-> "starting", thread |-> FALSE, turn |-> FALSE,
                   connection |-> Null, connectionCancel |-> "none", cancelBeforeTurn |-> FALSE,
                   preInterruptState |-> Null, deferred |-> FALSE]
  <2>1. key \in Keys /\ Commands[c].resumes \in BOOLEAN
    BY TasksAssumption
  <2>2. r \in TaskRecords
    <3> HIDE DEF key
    <3> QED BY <2>1 DEF TaskRecords, States
  <2>3. tasks' = [RetainedTasks EXCEPT ![t] = r]
    BY <1>4
  <2> HIDE DEF r, key
  <2>4. /\ tasks' \in [Tasks -> TaskRecords \cup {Null}] /\ tasks'[t] = r /\ r # Null
        /\ \A u \in Tasks \ {t} : tasks'[u] = RetainedTasks[u]
    <3>1. RetainedTasks \in [Tasks -> TaskRecords \cup {Null}]
      BY Retained, Zenon
    <3> QED BY <2>2, <2>3, <3>1, NullIsNothing
  <2>5. idempotency' \in [Keys -> Tasks \cup {Null}]
    <3>1. RetainedKeys \in [Keys -> Tasks \cup {Null}]
      BY Retained, Zenon
    <3> QED BY <1>4, <3>1
  <2>6. /\ starters' \in [Tasks -> StarterRecords] /\ starters'[t].pc = "begin"
        /\ \A u \in Tasks \ {t} : starters'[u] = starters[u]
    <3>1. starters \in [Tasks -> StarterRecords] /\ "begin" \in StarterLabels
      BY DEF TasksInv, GoroutineTypes, StarterLabels
    <3>2. starters' = [starters EXCEPT ![t] =
                         [starters[t] EXCEPT !.pc = "begin", !.resumes = Commands[c].resumes]]
      BY <1>4, <3>1
    <3>3. [starters[t] EXCEPT !.pc = "begin", !.resumes = Commands[c].resumes] \in StarterRecords
      BY <2>1, <3>1 DEF StarterRecords
    <3> QED BY <3>1, <3>2, <3>3
  <2>7. log \in [Tasks -> Seq(Events)] /\ log[t] = <<>>
    BY <1>4 DEF TasksInv, LogsType, Lives
  <2>8. Plain("task_started") \in Events /\ Plain("task_started").kind \notin EndStates
    BY EventsAre DEF EventKinds, EndStates
  <2>9. /\ log' = [log EXCEPT ![t] = Append(@, Plain("task_started"))]
        /\ log'[t] = Append(<<>>, Plain("task_started"))
        /\ \A u \in Tasks \ {t} : log'[u] = log[u]
    BY <1>4, <2>7 DEF Append1
  <2>10. log'[t] \in Seq(Events) /\ log'[t] # <<>> /\ ~Ends(log'[t])
    <3>1. <<>> \in Seq(Events) /\ <<>> \o <<Plain("task_started")>> = <<Plain("task_started")>>
      BY <2>8
    <3>2. /\ Append(<<>>, Plain("task_started")) = <<>> \o <<Plain("task_started")>>
          /\ Append(<<>>, Plain("task_started")) \in Seq(Events)
          /\ Append(<<>>, Plain("task_started")) # <<>>
          /\ ~Ends(<<Plain("task_started")>>)
      BY <2>8, <3>1, OneMore
    <3> QED BY <2>9, <3>1, <3>2
  <2>11. LogsType'
    BY <2>7, <2>9, <2>10 DEF LogsType
  <2>12. TaskTypes' /\ GoroutineTypes'
    BY <1>2, <1>4, <2>4, <2>5, <2>6 DEF TaskTypes, GoroutineTypes
  <2>13. ASSUME NEW u \in Tasks PROVE Lives(u)' /\ SessionHeld(u)'
    <3>1. Lives(u) /\ SessionHeld(u)
      BY DEF TasksInv
    <3>2. CASE u = t
      BY <1>1, <1>4, <2>4, <2>6, <2>10, <3>1, <3>2 DEF Lives, SessionHeld, Known
    <3>3. CASE u # t
      <4>1. Lives(u)'
        BY <1>1, <2>4, <2>6, <2>9, <3>1, <3>3, Retained DEF Lives, Known
      <4>2. activeTask # u /\ activeTask' # u
        BY <1>4, <3>3, TasksAssumption
      <4> QED BY <2>9, <3>1, <3>3, <4>1, <4>2 DEF SessionHeld
    <3> QED BY <3>2, <3>3
  <2> QED BY <1>2, <2>11, <2>12, <2>13 DEF TasksInv
<1> QED BY <1>3, <1>4, Zenon DEF ClaimStart

\* The record of a task that is kept may be replaced.
LEMMA RetainedUpdate ==
  ASSUME TasksInv, NEW t \in Tasks, NEW r \in TaskRecords, tasks[t] \in TaskRecords,
         RetainedTasks[t] = tasks[t], tasks' = [RetainedTasks EXCEPT ![t] = r]
  PROVE  /\ tasks' \in [Tasks -> TaskRecords \cup {Null}]
         /\ \A u \in Tasks : /\ tasks[u] = Null => tasks'[u] = Null
                             /\ RetainedTasks[u] # Null => tasks'[u] # Null
<1>1. /\ RetainedTasks \in [Tasks -> TaskRecords \cup {Null}]
      /\ \A u \in Tasks : RetainedTasks[u] \in {tasks[u], Null}
  BY Retained, Zenon
<1>2. /\ tasks' \in [Tasks -> TaskRecords \cup {Null}] /\ tasks'[t] = r
      /\ \A u \in Tasks \ {t} : tasks'[u] = RetainedTasks[u]
  BY <1>1
<1>3. r # Null /\ tasks[t] # Null
  BY NullIsNothing, Zenon
<1> QED BY <1>1, <1>2, <1>3, Zenon

LEMMA InterruptTaskKeeps ==
  ASSUME TasksInv, NEW i \in Interrupters, InterruptTask(i)
  PROVE  TasksInv'
<1> DEFINE t == RetainedKeys[Targets[i]]
<1>1. /\ idempotency' = RetainedKeys
      /\ UNCHANGED <<entries, promises, activeTask, requests, responses, backlog, stale, called,
                     starters, responders, monitors, link, notes, asks, turns>>
  BY DEF InterruptTask, pendings, appServer
<1>2. Targets[i] \in Keys /\ t \in Tasks \cup {Null}
  BY TasksAssumption, Retained
<1>3. idempotency' \in [Keys -> Tasks \cup {Null}]
  BY <1>1, Retained
<1>4. /\ tasks' \in [Tasks -> TaskRecords \cup {Null}]
      /\ \A u \in Tasks : /\ tasks[u] = Null => tasks'[u] = Null
                          /\ RetainedTasks[u] # Null => tasks'[u] # Null
      /\ LogsGrow
      /\ \/ interrupters' = [interrupters EXCEPT ![i].pc = "done"]
         \/ t \in Tasks /\ interrupters' = [interrupters EXCEPT ![i] = [pc |-> "call", task |-> t]]
  <2>1. CASE /\ tasks' = RetainedTasks /\ UNCHANGED log
             /\ interrupters' = [interrupters EXCEPT ![i].pc = "done"]
    BY <2>1, LogsKept, Retained DEF TasksInv
  <2>2. ASSUME t # Null, Live(t)
        PROVE  t \in Tasks /\ tasks[t] \in TaskRecords /\ RetainedTasks[t] = tasks[t] /\ log[t] # <<>>
    BY <1>2, <2>2, Retained, KnownTask DEF Live
  <2>3. ASSUME t # Null, Live(t), UNCHANGED log,
               tasks' = [RetainedTasks EXCEPT ![t].cancelBeforeTurn = TRUE,
                           ![t].connectionCancel = IF @ = "set" THEN "called" ELSE @],
               interrupters' = [interrupters EXCEPT ![i].pc = "done"]
        PROVE  <1>4!:
    <3> DEFINE r == [tasks[t] EXCEPT !.cancelBeforeTurn = TRUE,
                                     !.connectionCancel = IF @ = "set" THEN "called" ELSE @]
    <3>0. t \in Tasks /\ tasks[t] \in TaskRecords /\ RetainedTasks[t] = tasks[t]
      BY <2>2, <2>3
    <3>1. r \in TaskRecords
      BY <2>2, <2>3 DEF TaskRecords
    <3>2. tasks' = [RetainedTasks EXCEPT ![t] = r]
      BY <2>2, <2>3
    <3> HIDE DEF r, t
    <3>3. /\ tasks' \in [Tasks -> TaskRecords \cup {Null}]
          /\ \A u \in Tasks : /\ tasks[u] = Null => tasks'[u] = Null
                              /\ RetainedTasks[u] # Null => tasks'[u] # Null
      BY <3>0, <3>1, <3>2, RetainedUpdate
    <3> QED BY <2>3, <3>3, LogsKept DEF TasksInv
  <2>4. ASSUME t # Null, Live(t), Append1(t, "interrupting"),
               tasks' = [RetainedTasks EXCEPT ![t].preInterruptState = tasks[t].state,
                                              ![t].state = "interrupting"],
               interrupters' = [interrupters EXCEPT ![i] = [pc |-> "call", task |-> t]]
        PROVE  <1>4!:
    <3> DEFINE r == [tasks[t] EXCEPT !.preInterruptState = tasks[t].state, !.state = "interrupting"]
    <3>0. t \in Tasks /\ tasks[t] \in TaskRecords /\ RetainedTasks[t] = tasks[t]
      BY <2>2, <2>4
    <3>1. r \in TaskRecords
      BY <2>2, <2>4 DEF TaskRecords, States
    <3>2. tasks' = [RetainedTasks EXCEPT ![t] = r]
      BY <2>2, <2>4
    <3>3. "interrupting" \in EventKinds \ (EndStates \cup {"created", "resolved"})
      BY DEF EventKinds, EndStates
    <3> HIDE DEF r, t
    <3>4. /\ tasks' \in [Tasks -> TaskRecords \cup {Null}]
          /\ \A u \in Tasks : /\ tasks[u] = Null => tasks'[u] = Null
                              /\ RetainedTasks[u] # Null => tasks'[u] # Null
      BY <3>0, <3>1, <3>2, RetainedUpdate
    <3>5. LogsGrow
      BY <2>2, <2>4, <3>3, LogsAppendPlain DEF TasksInv
    <3> QED BY <2>2, <2>4, <3>4, <3>5
  <2> QED BY <2>1, <2>3, <2>4, Zenon DEF InterruptTask
<1>5. GoroutineTypes' /\ GoroutinesNamed'
  <2>1. CASE interrupters' = [interrupters EXCEPT ![i].pc = "done"]
    BY <1>1, <2>1 DEF TasksInv, GoroutineTypes, GoroutinesNamed, InterrupterRecords
  <2>2. CASE t \in Tasks /\ interrupters' = [interrupters EXCEPT ![i] = [pc |-> "call", task |-> t]]
    <3> HIDE DEF t
    <3> QED BY <1>1, <2>2 DEF TasksInv, GoroutineTypes, GoroutinesNamed, InterrupterRecords
  <2> QED BY <1>4, <2>1, <2>2
<1>6. RequestTypes' /\ AppServerTypes' /\ RequestsNamed' /\ PromiseKept'
      /\ entries' \in [Tasks -> EntryStates]
  BY <1>1, RequestsNamedKept, PromiseUntouched DEF TasksInv, RequestTypes, AppServerTypes
<1>7. \A u \in Tasks :
           /\ starters'[u].pc = "none" <=> starters[u].pc = "none"
           /\ tasks[u] = Null => tasks'[u] = Null
           /\ starters'[u].pc \notin {"none", "done"} => tasks'[u] # Null
           /\ u \in stale => starters'[u].pc = "done"
  BY <1>1, <1>4, Retained DEF TasksInv, Lives, Known
<1> QED BY <1>1, <1>3, <1>4, <1>5, <1>6, <1>7, QuietStep

LEMMA InterruptReturnsKeeps ==
  ASSUME TasksInv, NEW i \in Interrupters, InterruptReturns(i)
  PROVE  TasksInv'
<1>1. /\ interrupters[i].pc = "call" /\ interrupters' = [interrupters EXCEPT ![i].pc = "done"]
      /\ InterruptTurn(interrupters[i].task, Of(interrupters[i].task))
      /\ UNCHANGED <<responses, backlog, idempotency, stale, called, starters, responders, monitors>>
  BY DEF InterruptReturns, pendings, retention
<1>2. interrupters[i].task \in Tasks
  BY <1>1 DEF TasksInv, GoroutinesNamed
<1>3. /\ TaskGoesOn /\ AppServerTypes'
      /\ UNCHANGED <<entries, promises, activeTask, requests, notes, asks, turns>>
  BY <1>1, <1>2, InterruptTurnGoesOn
<1>4. GoroutineTypes' /\ GoroutinesNamed'
  BY <1>1 DEF TasksInv, GoroutineTypes, GoroutinesNamed, InterrupterRecords
<1>5. RequestTypes' /\ RequestsNamed' /\ PromiseKept' /\ entries' \in [Tasks -> EntryStates]
      /\ idempotency' \in [Keys -> Tasks \cup {Null}]
  BY <1>1, <1>3, RequestsNamedKept, PromiseUntouched DEF TasksInv, RequestTypes, TaskTypes
<1>6. \A u \in Tasks :
           /\ starters'[u].pc = "none" <=> starters[u].pc = "none"
           /\ tasks[u] = Null => tasks'[u] = Null
           /\ starters'[u].pc \notin {"none", "done"} => tasks'[u] # Null
           /\ u \in stale => starters'[u].pc = "done"
  BY <1>1, <1>3 DEF TasksInv, Lives, Known, TaskGoesOn
<1> QED BY <1>1, <1>3, <1>4, <1>5, <1>6, QuietStep DEF TaskGoesOn

-----------------------------------------------------------------------------
(* The monitors                                                            *)

LEMMA ReadNote ==
  ASSUME TasksInv, NEW n \in Connections, NEW kind, Reads(n, kind)
  PROVE  /\ notes[n] # <<>> /\ Head(notes[n]) \in Notes /\ Head(notes[n]).kind = kind
         /\ kind \in {"thread/started", "turn/started", "turn/completed"} =>
              /\ Head(notes[n]).task \in Tasks
              /\ Head(notes[n]).status \in {"completed", "interrupted", "other"}
         /\ kind = "serverRequest/resolved" => Head(notes[n]).request \in Requests
         /\ notes' = [notes EXCEPT ![n] = Tail(@)] /\ UNCHANGED <<link, asks, turns>>
         /\ AppServerTypes' /\ monitors[n].pc = "read"
<1>1. notes \in [Connections -> Seq(Notes)] /\ notes[n] # <<>>
      /\ notes' = [notes EXCEPT ![n] = Tail(@)] /\ UNCHANGED <<link, asks, turns>>
      /\ monitors[n].pc = "read" /\ Head(notes[n]).kind = kind
  BY DEF Reads, TasksInv, AppServerTypes
<1>2. Head(notes[n]) \in Notes /\ Tail(notes[n]) \in Seq(Notes)
  <2> HIDE DEF Notes
  <2> QED BY <1>1
<1>3. AppServerTypes'
  BY <1>1, <1>2 DEF TasksInv, AppServerTypes
<1>4. /\ kind \in {"thread/started", "turn/started", "turn/completed"} =>
              /\ Head(notes[n]).task \in Tasks
              /\ Head(notes[n]).status \in {"completed", "interrupted", "other"}
      /\ kind = "serverRequest/resolved" => Head(notes[n]).request \in Requests
  BY <1>1, <1>2 DEF Notes
<1> QED BY <1>1, <1>2, <1>3, <1>4

LEMMA MonitorGoesOn ==
  ASSUME TasksInv, RestOfMonitor, UNCHANGED <<entries, promises, activeTask>>,
         tasks' \in [Tasks -> TaskRecords \cup {Null}],
         \A u \in Tasks : tasks[u] = Null <=> tasks'[u] = Null,
         LogsGrow, RequestTypes', RequestsNamed', AppServerTypes',
         monitors' \in [Connections -> MonitorRecords],
         \A n \in Connections :
           monitors'[n].pc \in {"confirm", "interrupt"} => monitors'[n].task \in Tasks
  PROVE  TasksInv'
<1>1. UNCHANGED <<idempotency, stale, called, starters, interrupters, responders>>
  BY DEF RestOfMonitor, retention
<1>2. GoroutineTypes' /\ GoroutinesNamed' /\ PromiseKept' /\ entries' \in [Tasks -> EntryStates]
      /\ idempotency' \in [Keys -> Tasks \cup {Null}]
  BY <1>1, PromiseUntouched DEF TasksInv, GoroutineTypes, GoroutinesNamed, TaskTypes
<1>3. \A u \in Tasks :
           /\ starters'[u].pc = "none" <=> starters[u].pc = "none"
           /\ tasks[u] = Null => tasks'[u] = Null
           /\ starters'[u].pc \notin {"none", "done"} => tasks'[u] # Null
           /\ u \in stale => starters'[u].pc = "done"
  BY <1>1 DEF TasksInv, Lives, Known
<1> QED BY <1>1, <1>2, <1>3, QuietStep

LEMMA MonitorsAre ==
  ASSUME TasksInv
  PROVE  /\ monitors \in [Connections -> MonitorRecords]
         /\ \A n \in Connections :
              monitors[n].pc \in {"confirm", "interrupt"} => monitors[n].task \in Tasks
BY DEF TasksInv, GoroutineTypes, GoroutinesNamed

LEMMA RequestsUntouched ==
  ASSUME TasksInv, UNCHANGED <<requests, pendings, asks>>
  PROVE  RequestTypes' /\ RequestsNamed'
BY RequestsNamedKept DEF TasksInv, RequestTypes, pendings

LEMMA HandleThreadStartedKeeps ==
  ASSUME TasksInv, NEW n \in Connections, HandleThreadStarted(n)
  PROVE  TasksInv'
<1> DEFINE t == Head(notes[n]).task
<1>1. Reads(n, "thread/started")
  BY DEF HandleThreadStarted
<1>2. t \in Tasks /\ AppServerTypes' /\ UNCHANGED asks
  BY <1>1, ReadNote
<1>3. TaskGoesOn
  <2>1. CASE IsOn(t, n)
    <3> HIDE DEF t
    <3>1. Known(t)
      BY <2>1 DEF IsOn
    <3>2. ConfirmThreadStarted(t)
      BY <2>1 DEF HandleThreadStarted, t
    <3> QED BY <1>2, <3>1, <3>2, ConfirmThreadGoesOn
  <2>2. CASE ~IsOn(t, n)
    BY <2>2, NothingGoesOn DEF HandleThreadStarted
  <2> QED BY <2>1, <2>2
<1>4. UNCHANGED <<entries, promises, activeTask, requests, pendings, monitors>> /\ RestOfMonitor
  BY DEF HandleThreadStarted
<1> QED BY <1>2, <1>3, <1>4, MonitorsAre, RequestsUntouched, MonitorGoesOn DEF TaskGoesOn

LEMMA HandleTurnStartedKeeps ==
  ASSUME TasksInv, NEW n \in Connections, HandleTurnStarted(n)
  PROVE  TasksInv'
<1> DEFINE t == Head(notes[n]).task
<1>1. Reads(n, "turn/started")
  BY DEF HandleTurnStarted
<1>2. t \in Tasks /\ AppServerTypes' /\ UNCHANGED asks
  BY <1>1, ReadNote
<1>3. UNCHANGED <<tasks, entries, promises, activeTask, log, requests, pendings>> /\ RestOfMonitor
  BY DEF HandleTurnStarted, registry
<1>4. TaskGoesOn
  BY <1>3, NothingGoesOn
<1>5. monitors' = [monitors EXCEPT ![n] = [pc |-> "confirm", task |-> t]] \/ UNCHANGED monitors
  BY DEF HandleTurnStarted
<1>6. /\ monitors' \in [Connections -> MonitorRecords]
      /\ \A m \in Connections :
           monitors'[m].pc \in {"confirm", "interrupt"} => monitors'[m].task \in Tasks
  <2> HIDE DEF t
  <2> QED BY <1>2, <1>5, MonitorsAre DEF MonitorRecords
<1> QED BY <1>2, <1>3, <1>4, <1>6, RequestsUntouched, MonitorGoesOn DEF TaskGoesOn

LEMMA MonitorConfirmsKeeps ==
  ASSUME TasksInv, NEW n \in Connections, MonitorConfirms(n)
  PROVE  TasksInv'
<1> DEFINE t == monitors[n].task
<1>1. t \in Tasks /\ monitors[n].pc = "confirm"
  BY MonitorsAre DEF MonitorConfirms
<1>2. TaskGoesOn
  <2>1. CASE UNCHANGED <<tasks, log>>
    BY <2>1, NothingGoesOn
  <2>2. CASE Known(t) /\ ConfirmTurnStartedOnce(t)
    BY <1>1, <2>2, ConfirmTurnGoesOn
  <2> QED BY <2>1, <2>2 DEF MonitorConfirms
<1>3. /\ UNCHANGED <<entries, promises, activeTask, requests, pendings, link, notes, asks, turns>>
      /\ RestOfMonitor
  BY DEF MonitorConfirms, appServer
<1>4. \/ monitors' = [monitors EXCEPT ![n] = [@ EXCEPT !.pc = "interrupt"]]
      \/ monitors' = [monitors EXCEPT ![n] = [pc |-> "read", task |-> Null]]
  BY DEF MonitorConfirms
<1>5. /\ monitors' \in [Connections -> MonitorRecords]
      /\ \A m \in Connections :
           monitors'[m].pc \in {"confirm", "interrupt"} => monitors'[m].task \in Tasks
  BY <1>1, <1>4, MonitorsAre DEF MonitorRecords
<1>6. AppServerTypes'
  BY <1>3 DEF TasksInv, AppServerTypes
<1> QED BY <1>2, <1>3, <1>5, <1>6, RequestsUntouched, MonitorGoesOn DEF TaskGoesOn

LEMMA MonitorInterruptsKeeps ==
  ASSUME TasksInv, NEW n \in Connections, MonitorInterrupts(n)
  PROVE  TasksInv'
<1>1. monitors[n].task \in Tasks
  BY MonitorsAre DEF MonitorInterrupts
<1>2. /\ TaskGoesOn /\ AppServerTypes'
      /\ UNCHANGED <<entries, promises, activeTask, requests, notes, asks, turns>>
  BY <1>1, InterruptTurnGoesOn DEF MonitorInterrupts
<1>3. /\ UNCHANGED pendings /\ RestOfMonitor
      /\ monitors' = [monitors EXCEPT ![n] = [pc |-> "read", task |-> Null]]
  BY DEF MonitorInterrupts
<1>4. /\ monitors' \in [Connections -> MonitorRecords]
      /\ \A m \in Connections :
           monitors'[m].pc \in {"confirm", "interrupt"} => monitors'[m].task \in Tasks
  BY <1>3, MonitorsAre DEF MonitorRecords
<1> QED BY <1>2, <1>3, <1>4, RequestsUntouched, MonitorGoesOn DEF TaskGoesOn

LEMMA TurnCompletedEnds ==
  ASSUME TasksInv, NEW t \in Tasks, Known(t), NEW status \in {"completed", "interrupted", "other"},
         IF status = "other" THEN EndTask(t, "failed", <<Plain("unknown_status")>>)
                             ELSE EndTask(t, status, <<>>)
  PROVE  \E ends : MayEnd(ends) /\ DOMAIN ends = {t} /\ EndTasks(ends) /\ ends[t].clears
<1>1. <<>> \in Seq(Events) /\ "failed" \in EndStates
  BY DEF EndStates
<1>2. CASE status = "other"
  <2>1. Plain("unknown_status") \in Events
    BY EventsAre DEF EventKinds
  <2>2. /\ <<Plain("unknown_status")>> \in Seq(Events)
        /\ \A e : Has(<<Plain("unknown_status")>>, e) <=> e = Plain("unknown_status")
    BY <1>1, <2>1, OneMore
  <2>3. \A q \in Requests : About("created", q) # Plain("unknown_status")
                            /\ About("resolved", q) # Plain("unknown_status")
    BY EventsAre
  <2> QED BY <1>1, <1>2, <2>2, <2>3, EndTaskEnds
<1>3. CASE status # "other"
  <2>1. status \in EndStates /\ EndTask(t, status, <<>>)
    BY <1>3 DEF EndStates
  <2> QED BY <1>1, <2>1, NothingFirst, EndTaskEnds
<1> QED BY <1>2, <1>3

LEMMA HandleTurnCompletedKeeps ==
  ASSUME TasksInv, NEW n \in Connections, HandleTurnCompleted(n)
  PROVE  TasksInv'
<1> DEFINE note == Head(notes[n])
           t == note.task
<1>1. Reads(n, "turn/completed")
  BY DEF HandleTurnCompleted
<1>2. /\ t \in Tasks /\ note.status \in {"completed", "interrupted", "other"}
      /\ AppServerTypes' /\ UNCHANGED asks
  BY <1>1, ReadNote
<1>3. UNCHANGED <<entries, promises, pendings, monitors>> /\ RestOfMonitor
  BY DEF HandleTurnCompleted, Unanswered
<1>4. CASE UNCHANGED <<tasks, activeTask, log, requests>>
  <2>1. TaskGoesOn
    BY <1>4, NothingGoesOn
  <2> QED BY <1>2, <1>3, <1>4, <2>1, MonitorsAre, RequestsUntouched, MonitorGoesOn DEF TaskGoesOn
<1>5. CASE /\ IsOn(t, n)
           /\ IF note.status = "other" THEN EndTask(t, "failed", <<Plain("unknown_status")>>)
                                       ELSE EndTask(t, note.status, <<>>)
  <2>1. Known(t)
    BY <1>5 DEF IsOn
  <2>2. \E ends : MayEnd(ends) /\ DOMAIN ends = {t} /\ EndTasks(ends) /\ ends[t].clears
    <3> HIDE DEF t, note
    <3> QED BY <1>2, <1>5, <2>1, TurnCompletedEnds
  <2>3. UNCHANGED retention /\ UNCHANGED <<responses, asks, backlog, starters>>
        /\ backlog' \in [Connections -> SUBSET Requests]
    BY <1>2, <1>3 DEF RestOfMonitor, pendings, TasksInv, RequestTypes
  <2>4. GoroutineTypes' /\ GoroutinesNamed'
    BY <1>3, GoroutinesNamedKept DEF RestOfMonitor, TasksInv, GoroutineTypes
  <2> QED BY <1>2, <1>3, <2>2, <2>3, <2>4, PromiseUntouched, EndingStep
<1> QED BY <1>4, <1>5 DEF HandleTurnCompleted

LEMMA ResolveGoesOn ==
  ASSUME TasksInv, NEW q \in Requests, requests[q].state = "active", Known(requests[q].task),
         Resolve(q)
  PROVE  /\ tasks' \in [Tasks -> TaskRecords \cup {Null}]
         /\ \A u \in Tasks : tasks[u] = Null <=> tasks'[u] = Null
         /\ LogsGrow /\ UNCHANGED <<entries, promises, activeTask>>
         /\ requests' = [requests EXCEPT ![q] = [@ EXCEPT !.state = "resolved", !.inFlight = Null]]
         /\ requests' \in [Requests -> RequestRecords]
         /\ requests[q].task \in Tasks
         /\ UNCHANGED asks => RequestsNamed'
<1> DEFINE t == requests[q].task
           r == [requests[q] EXCEPT !.state = "resolved", !.inFlight = Null]
<1>1. t \in Tasks
  BY DEF TasksInv, RequestsNamed
<1>2. tasks[t] \in TaskRecords /\ log[t] # <<>>
  BY <1>1, KnownTask
<1>3. /\ tasks' = [tasks EXCEPT ![t].state = StateWithout(t, {q})]
      /\ requests' = [requests EXCEPT ![q].state = "resolved", ![q].inFlight = Null]
      /\ log' = [log EXCEPT ![t] = Append(@, About("resolved", q))]
      /\ UNCHANGED <<entries, promises, activeTask>>
  BY DEF Resolve
<1>4. requests \in [Requests -> RequestRecords] /\ requests[q] \in RequestRecords
  BY DEF TasksInv, RequestTypes
<1>5. r \in RequestRecords /\ r.task = requests[q].task /\ r.state = "resolved"
  BY <1>4 DEF RequestRecords
<1>6. requests' = [requests EXCEPT ![q] = r]
  BY <1>3, <1>4
<1>7. /\ tasks' \in [Tasks -> TaskRecords \cup {Null}]
      /\ \A u \in Tasks : tasks[u] = Null <=> tasks'[u] = Null
  <2>1. [tasks[t] EXCEPT !.state = StateWithout(t, {q})] \in TaskRecords
    BY <1>2 DEF TaskRecords, StateWithout, States
  <2>2. tasks' = [tasks EXCEPT ![t] = [tasks[t] EXCEPT !.state = StateWithout(t, {q})]]
    BY <1>3
  <2> QED BY <1>1, <1>2, <2>1, <2>2, TaskChanges DEF TasksInv
<1>8. LogsGrow
  <2>1. About("resolved", q) \in Events /\ About("resolved", q).kind \notin EndStates
    BY EventsAre DEF EventKinds, EndStates
  <2> QED BY <1>1, <1>2, <1>3, <2>1, LogsAppend DEF TasksInv
<1> HIDE DEF r
<1>9. requests' \in [Requests -> RequestRecords]
  BY <1>4, <1>5, <1>6
<1>10. ASSUME UNCHANGED asks PROVE RequestsNamed'
  <2>1. \A p \in Requests : /\ requests'[p].state = "none" <=> requests[p].state = "none"
                            /\ requests'[p].state = "asked" <=> requests[p].state = "asked"
                            /\ requests'[p].task = requests[p].task
    BY <1>4, <1>5, <1>6
  <2>2. {p \in Requests : requests'[p].state # "none"} = {p \in Requests : requests[p].state # "none"}
    BY <2>1
  <2>3. IsFiniteSet({p \in Requests : requests'[p].state # "none"})
    BY <2>2 DEF TasksInv, RequestsNamed
  <2>4. \A m \in Connections : \A i \in DOMAIN asks[m] : asks[m][i] \in Requests
    BY DEF TasksInv, AppServerTypes
  <2>5. \A p \in Requests : requests'[p].state # "none" => requests'[p].task \in Tasks
    BY <2>1 DEF TasksInv, RequestsNamed
  <2>6. \A m \in Connections : \A i \in DOMAIN asks'[m] : requests'[asks'[m][i]].state = "asked"
    BY <1>10, <2>1, <2>4 DEF TasksInv, RequestsNamed
  <2>7. \A m, l \in Connections : \A i \in DOMAIN asks'[m], j \in DOMAIN asks'[l] :
          asks'[m][i] = asks'[l][j] => m = l /\ i = j
    BY <1>10 DEF TasksInv, RequestsNamed
  <2> QED BY <2>3, <2>5, <2>6, <2>7 DEF RequestsNamed
<1> QED BY <1>1, <1>3, <1>6, <1>7, <1>8, <1>9, <1>10 DEF r

LEMMA HandleServerRequestResolvedKeeps ==
  ASSUME TasksInv, NEW n \in Connections, HandleServerRequestResolved(n)
  PROVE  TasksInv'
<1> DEFINE q == Head(notes[n]).request
           i == requests[q].inFlight
<1>1. Reads(n, "serverRequest/resolved")
  BY DEF HandleServerRequestResolved
<1>2. q \in Requests /\ AppServerTypes' /\ UNCHANGED asks
  BY <1>1, ReadNote
<1>3. UNCHANGED monitors /\ RestOfMonitor
  BY DEF HandleServerRequestResolved
<1> HIDE DEF q
<1>4. CASE backlog' = [backlog EXCEPT ![n] = @ \cup {q}] /\ UNCHANGED <<registry, responses>>
  <2>1. TaskGoesOn /\ UNCHANGED <<entries, promises, activeTask, requests>>
    BY <1>4, NothingGoesOn DEF registry
  <2>2. RequestTypes' /\ RequestsNamed'
    BY <1>2, <1>4, <2>1, RequestsNamedKept DEF TasksInv, RequestTypes
  <2> QED BY <1>2, <1>3, <2>1, <2>2, MonitorsAre, MonitorGoesOn DEF TaskGoesOn
<1>5. CASE /\ requests[q].state = "active" /\ IsOn(requests[q].task, n) /\ Resolve(q)
           /\ responses' = IF i # Null /\ responses[q][i] = "responding"
                           THEN [responses EXCEPT ![q][i] = "accepted"] ELSE responses
           /\ UNCHANGED backlog
  <2>1. Known(requests[q].task)
    BY <1>5 DEF IsOn
  <2>2. /\ tasks' \in [Tasks -> TaskRecords \cup {Null}]
        /\ \A u \in Tasks : tasks[u] = Null <=> tasks'[u] = Null
        /\ LogsGrow /\ UNCHANGED <<entries, promises, activeTask>>
        /\ requests' \in [Requests -> RequestRecords] /\ RequestsNamed'
    BY <1>2, <1>5, <2>1, ResolveGoesOn
  <2>3. responses' \in [Requests -> [ResponseIDs -> {"none", "responding", "accepted", "failed"}]]
    BY <1>2, <1>5 DEF TasksInv, RequestTypes, RequestRecords
  <2>4. RequestTypes'
    BY <1>5, <2>2, <2>3 DEF TasksInv, RequestTypes
  <2> QED BY <1>2, <1>3, <2>2, <2>4, MonitorsAre, MonitorGoesOn
<1> QED BY <1>4, <1>5 DEF HandleServerRequestResolved, q

\* The request that is taken waits no longer, and no other does in its place.
LEMMA AskTaken ==
  ASSUME TasksInv, NEW n \in Connections, Asked(n)
  PROVE  /\ Head(asks[n]) \in Requests /\ requests[Head(asks[n])].state = "asked"
         /\ requests[Head(asks[n])].task \in Tasks
         /\ AppServerTypes' /\ UNCHANGED <<monitors, responses, link, notes, turns>> /\ RestOfMonitor
         /\ \A m \in Connections : \A i \in DOMAIN asks'[m] :
              /\ asks'[m][i] \in Requests /\ asks'[m][i] # Head(asks[n])
              /\ requests[asks'[m][i]].state = "asked"
         /\ \A m, l \in Connections : \A i \in DOMAIN asks'[m], j \in DOMAIN asks'[l] :
              asks'[m][i] = asks'[l][j] => m = l /\ i = j
<1>1. /\ asks \in [Connections -> Seq(Requests)] /\ asks[n] # <<>>
      /\ asks' = [asks EXCEPT ![n] = Tail(@)]
      /\ UNCHANGED <<link, notes, turns, monitors, responses>> /\ RestOfMonitor
  BY DEF Asked, TasksInv, AppServerTypes
<1>2. /\ Head(asks[n]) = asks[n][1] /\ 1 \in DOMAIN asks[n] /\ Head(asks[n]) \in Requests
      /\ Tail(asks[n]) \in Seq(Requests)
      /\ \A i \in DOMAIN Tail(asks[n]) : /\ i + 1 \in DOMAIN asks[n] /\ i + 1 # 1 /\ i \in Int
                                         /\ Tail(asks[n])[i] = asks[n][i + 1]
  BY <1>1
<1>3. AppServerTypes'
  BY <1>1, <1>2 DEF TasksInv, AppServerTypes
<1>4. requests[Head(asks[n])].state = "asked" /\ requests[Head(asks[n])].task \in Tasks
  BY <1>2 DEF TasksInv, RequestsNamed
<1>5. ASSUME NEW m \in Connections, NEW i \in DOMAIN asks'[m]
      PROVE  /\ m = n => i + 1 \in DOMAIN asks[m] /\ asks'[m][i] = asks[m][i + 1] /\ i + 1 # 1
                         /\ i \in Int
             /\ m # n => i \in DOMAIN asks[m] /\ asks'[m][i] = asks[m][i]
  BY <1>1, <1>2, <1>5
<1>6. ASSUME NEW m \in Connections, NEW i \in DOMAIN asks'[m]
      PROVE  /\ asks'[m][i] \in Requests /\ asks'[m][i] # Head(asks[n])
             /\ requests[asks'[m][i]].state = "asked"
  <2>1. \A l \in Connections : \A j \in DOMAIN asks[l] : asks[l][j] \in Requests
    BY <1>1
  <2>2. CASE m = n
    BY <1>2, <1>5, <1>6, <2>1, <2>2 DEF TasksInv, RequestsNamed
  <2>3. CASE m # n
    BY <1>2, <1>5, <1>6, <2>1, <2>3 DEF TasksInv, RequestsNamed
  <2> QED BY <2>2, <2>3
<1>7. ASSUME NEW m \in Connections, NEW l \in Connections, NEW i \in DOMAIN asks'[m],
             NEW j \in DOMAIN asks'[l], asks'[m][i] = asks'[l][j]
      PROVE  m = l /\ i = j
  <2>1. \A o, p \in Connections : \A a \in DOMAIN asks[o], b \in DOMAIN asks[p] :
          asks[o][a] = asks[p][b] => o = p /\ a = b
    BY DEF TasksInv, RequestsNamed
  <2>2. CASE m = n /\ l = n
    <3>1. i + 1 = j + 1 /\ i \in Int /\ j \in Int
      BY <1>5, <1>7, <2>1, <2>2
    <3> QED BY <2>2, <3>1
  <2>3. CASE m # n /\ l # n
    BY <1>5, <1>7, <2>1, <2>3
  <2>4. CASE (m = n /\ l # n) \/ (m # n /\ l = n)
    BY <1>5, <1>7, <2>1, <2>4
  <2> QED BY <2>2, <2>3, <2>4
<1> QED BY <1>1, <1>2, <1>3, <1>4, <1>6, <1>7

\* A request comes to be something else than asked, or what is asked stays so.
LEMMA RequestChanges ==
  ASSUME TasksInv, NEW q \in Requests, NEW r \in RequestRecords,
         requests' = [requests EXCEPT ![q] = r],
         requests[q].state # "none", r.state # "none", r.task = requests[q].task,
         \A m \in Connections : \A i \in DOMAIN asks'[m] :
           /\ asks'[m][i] \in Requests /\ requests[asks'[m][i]].state = "asked"
           /\ asks'[m][i] = q => r.state = "asked",
         \A m, l \in Connections : \A i \in DOMAIN asks'[m], j \in DOMAIN asks'[l] :
           asks'[m][i] = asks'[l][j] => m = l /\ i = j
  PROVE  requests' \in [Requests -> RequestRecords] /\ RequestsNamed'
<1>1. /\ requests \in [Requests -> RequestRecords] /\ RequestsNamed
  BY DEF TasksInv, RequestTypes
<1>2. requests'[q] = r /\ \A p \in Requests \ {q} : requests'[p] = requests[p]
  BY <1>1
<1>3. {p \in Requests : requests'[p].state # "none"} = {p \in Requests : requests[p].state # "none"}
  BY <1>2
<1>4. IsFiniteSet({p \in Requests : requests'[p].state # "none"})
  BY <1>1, <1>3 DEF RequestsNamed
<1>5. \A p \in Requests : requests'[p].state # "none" => requests'[p].task \in Tasks
  BY <1>1, <1>2 DEF RequestsNamed
<1>6. \A m \in Connections : \A i \in DOMAIN asks'[m] : requests'[asks'[m][i]].state = "asked"
  BY <1>2
<1>7. requests' \in [Requests -> RequestRecords]
  BY <1>1
<1> QED BY <1>4, <1>5, <1>6, <1>7 DEF RequestsNamed

LEMMA AutoResolveGoesOn ==
  ASSUME TasksInv, NEW n \in Connections, NEW warns \in BOOLEAN, Asked(n),
         warns => Known(requests[Head(asks[n])].task), AutoResolve(Head(asks[n]), n, warns)
  PROVE  /\ TaskGoesOn /\ RequestTypes' /\ RequestsNamed'
         /\ UNCHANGED <<tasks, activeTask, backlog>>
         /\ \E r \in RequestRecords : /\ requests' = [requests EXCEPT ![Head(asks[n])] = r]
                                      /\ r.task = requests[Head(asks[n])].task /\ r.state = "declined"
<1> DEFINE q == Head(asks[n])
           answered == requests[q].answered \/ (IsOpen(n) /\ ~requests[q].withdrawn)
           r == [requests[q] EXCEPT !.state = "declined", !.answered = answered]
<1>1. /\ q \in Requests /\ requests[q].state = "asked" /\ requests[q].task \in Tasks
      /\ UNCHANGED responses
      /\ \A m \in Connections : \A i \in DOMAIN asks'[m] :
              /\ asks'[m][i] \in Requests /\ asks'[m][i] # q
              /\ requests[asks'[m][i]].state = "asked"
      /\ \A m, l \in Connections : \A i \in DOMAIN asks'[m], j \in DOMAIN asks'[l] :
              asks'[m][i] = asks'[l][j] => m = l /\ i = j
  BY AskTaken
<1> HIDE DEF q
<1>2. requests \in [Requests -> RequestRecords] /\ requests[q] \in RequestRecords
  BY <1>1 DEF TasksInv, RequestTypes
<1>3. answered \in BOOLEAN
  BY <1>2 DEF RequestRecords, IsOpen
<1>4. requests' = [requests EXCEPT ![q].state = "declined", ![q].answered = answered]
  BY <1>2 DEF AutoResolve, q
<1> HIDE DEF answered
<1>5. r \in RequestRecords /\ r.task = requests[q].task /\ r.state = "declined"
  BY <1>2, <1>3 DEF RequestRecords
<1>6. requests' = [requests EXCEPT ![q] = r]
  BY <1>2, <1>4
<1> HIDE DEF r
<1>7. requests' \in [Requests -> RequestRecords] /\ RequestsNamed'
  <2>1. /\ requests[q].state # "none" /\ r.state # "none" /\ r.task = requests[q].task
        /\ \A m \in Connections : \A i \in DOMAIN asks'[m] :
             /\ asks'[m][i] \in Requests /\ requests[asks'[m][i]].state = "asked"
             /\ asks'[m][i] = q => r.state = "asked"
    BY <1>1, <1>5
  <2> QED BY <1>1, <1>5, <1>6, <2>1, RequestChanges, ZenonT(30)
<1>8. UNCHANGED <<tasks, activeTask, backlog>>
  BY DEF AutoResolve
<1>9. RequestTypes'
  BY <1>1, <1>7, <1>8 DEF TasksInv, RequestTypes
<1>10. TaskGoesOn
  <2>1. CASE UNCHANGED log
    BY <1>8, <2>1, NothingGoesOn
  <2>2. CASE warns /\ Append1(requests[q].task, "over_limit")
    <3>1. log[requests[q].task] # <<>>
      BY <1>1, <2>2, KnownTask DEF q
    <3>2. "over_limit" \in EventKinds \ (EndStates \cup {"created", "resolved"})
      BY DEF EventKinds, EndStates
    <3>3. LogsGrow /\ LogsSilent
      BY <1>1, <2>2, <3>1, <3>2, LogsAppendPlain DEF TasksInv
    <3> QED BY <1>8, <3>3 DEF TaskGoesOn, TasksInv, TaskTypes
  <2> QED BY <2>1, <2>2 DEF AutoResolve, q
<1> QED BY <1>5, <1>6, <1>7, <1>8, <1>9, <1>10 DEF q

\* A request is announced, and its end with it when that was remembered.
LEMMA CreateTells ==
  ASSUME TasksInv, NEW n \in Connections, NEW q \in Requests, NEW t \in Tasks,
         requests[q].task = t, Known(t), Create(q, n)
  PROVE  /\ LogsGrow /\ \A u \in Tasks \ {t} : log'[u] = log[u]
         /\ Told(log[t], log'[t], About("created", q))
         /\ IF q \in backlog[n] THEN Told(log[t], log'[t], About("resolved", q))
                                ELSE Silent(log[t], log'[t], About("resolved", q))
         /\ \A e : e # About("created", q) /\ e # About("resolved", q) =>
              Silent(log[t], log'[t], e)
<1> DEFINE c == About("created", q)
           d == About("resolved", q)
           mid == Append(log[t], c)
<1>1. log \in [Tasks -> Seq(Events)] /\ log[t] # <<>>
  BY KnownTask DEF TasksInv, LogsType
<1>2. /\ c \in Events /\ d \in Events /\ c # d
      /\ c.kind \notin EndStates /\ d.kind \notin EndStates
  BY EventsAre DEF EventKinds, EndStates
<1>3. log' = [log EXCEPT ![t] = @ \o <<c>> \o (IF q \in backlog[n] THEN <<d>> ELSE <<>>)]
  BY DEF Create
<1> HIDE DEF c, d
<1>4. /\ mid = log[t] \o <<c>> /\ mid \in Seq(Events) /\ mid # <<>>
      /\ <<c>> \in Seq(Events) /\ HasOnce(<<c>>, c) /\ ~Ends(<<c>>)
      /\ \A e : Has(<<c>>, e) <=> e = c
  BY <1>1, <1>2, OneMore
<1> HIDE DEF mid
<1>5. /\ Ends(mid) <=> Ends(log[t])
      /\ Told(log[t], mid, c) /\ \A e : e # c => Silent(log[t], mid, e)
  <2>1. Ends(mid) <=> Ends(log[t])
    BY <1>1, <1>4, ConcatEnds
  <2>2. Told(log[t], mid, c)
    BY <1>1, <1>4, SilentOrTold
  <2>3. ASSUME NEW e, e # c PROVE Silent(log[t], mid, e)
    BY <1>1, <1>4, <2>3, SilentOrTold
  <2> QED BY <2>1, <2>2, <2>3
<1>6. /\ log'[t] = mid \o (IF q \in backlog[n] THEN <<d>> ELSE <<>>)
      /\ \A u \in Tasks \ {t} : log'[u] = log[u]
      /\ log' = [u \in Tasks |-> log'[u]]
  BY <1>1, <1>3, <1>4
<1>7. CASE q \in backlog[n]
  <2>1. /\ log'[t] = mid \o <<d>> /\ log'[t] \in Seq(Events) /\ log'[t] # <<>>
        /\ <<d>> \in Seq(Events) /\ HasOnce(<<d>>, d) /\ ~Ends(<<d>>)
        /\ \A e : Has(<<d>>, e) <=> e = d
    BY <1>2, <1>4, <1>6, <1>7, OneMore
  <2>2. Ends(log'[t]) <=> Ends(log[t])
    <3>1. Ends(mid \o <<d>>) <=> Ends(mid) \/ Ends(<<d>>)
      BY <1>4, <2>1, ConcatEnds
    <3> QED BY <1>5, <2>1, <3>1
  <2>3. Told(mid, log'[t], d)
    BY <1>4, <2>1, SilentOrTold
  <2>4. ASSUME NEW e, e # d PROVE Silent(mid, log'[t], e)
    BY <1>4, <2>1, <2>4, SilentOrTold
  <2>5. LogsGrow
    BY <1>1, <1>6, <2>1, <2>2 DEF LogsGrow, LogsType
  <2>6. Told(log[t], log'[t], c) /\ Told(log[t], log'[t], d)
    BY <1>2, <1>5, <2>3, <2>4, SilentOrToldLater
  <2>7. ASSUME NEW e, e # c, e # d PROVE Silent(log[t], log'[t], e)
    BY <1>5, <2>4, <2>7, SilentOrToldLater
  <2> QED BY <1>6, <1>7, <2>5, <2>6, <2>7 DEF c, d
<1>8. CASE q \notin backlog[n]
  <2>1. log'[t] = mid
    BY <1>4, <1>6, <1>8
  <2>2. LogsGrow
    BY <1>1, <1>4, <1>5, <1>6, <2>1 DEF LogsGrow, LogsType
  <2> QED BY <1>2, <1>5, <1>6, <1>8, <2>1, <2>2 DEF c, d
<1> QED BY <1>7, <1>8

LEMMA CreateGoesOn ==
  ASSUME TasksInv, NEW n \in Connections, Asked(n), TaskAsked(Head(asks[n]), n),
         Create(Head(asks[n]), n)
  PROVE  /\ tasks' \in [Tasks -> TaskRecords \cup {Null}]
         /\ \A u \in Tasks : tasks[u] = Null <=> tasks'[u] = Null
         /\ LogsGrow /\ RequestTypes' /\ RequestsNamed' /\ UNCHANGED activeTask
         /\ \E r \in RequestRecords :
              /\ requests' = [requests EXCEPT ![Head(asks[n])] = r]
              /\ r.task = requests[Head(asks[n])].task
              /\ r.state = IF Head(asks[n]) \in backlog[n] THEN "resolved" ELSE "active"
<1> DEFINE q == Head(asks[n])
           t == requests[q].task
           early == q \in backlog[n]
           r == [requests[q] EXCEPT !.state = IF early THEN "resolved" ELSE "active"]
<1>1. /\ q \in Requests /\ requests[q].state = "asked" /\ t \in Tasks
      /\ UNCHANGED responses
      /\ \A m \in Connections : \A i \in DOMAIN asks'[m] :
              /\ asks'[m][i] \in Requests /\ asks'[m][i] # q
              /\ requests[asks'[m][i]].state = "asked"
      /\ \A m, l \in Connections : \A i \in DOMAIN asks'[m], j \in DOMAIN asks'[l] :
              asks'[m][i] = asks'[l][j] => m = l /\ i = j
  BY AskTaken
<1>2. requests[q] \in RequestRecords
  BY <1>1 DEF TasksInv, RequestTypes
<1>3. Known(t)
  BY DEF TaskAsked, IsOn
<1>4. /\ requests' = [requests EXCEPT ![q].state = IF early THEN "resolved" ELSE "active"]
      /\ tasks' = [tasks EXCEPT ![t].state =
                 IF early /\ ActiveRequests(t) = {} THEN "running" ELSE "waiting"]
      /\ backlog' = [backlog EXCEPT ![n] = @ \ {q}] /\ UNCHANGED activeTask
  BY DEF Create
<1>5. Create(q, n)
  OBVIOUS
<1> HIDE DEF q, early
<1>6. r \in RequestRecords /\ r.task = t /\ r.state = IF early THEN "resolved" ELSE "active"
  BY <1>2 DEF RequestRecords
<1>7. requests' = [requests EXCEPT ![q] = r]
  BY <1>4
<1>8. LogsGrow
  BY <1>1, <1>3, <1>5, CreateTells
<1> HIDE DEF r
<1>9. requests' \in [Requests -> RequestRecords] /\ RequestsNamed'
  <2>1. /\ requests[q].state # "none" /\ r.state # "none" /\ r.task = requests[q].task
        /\ \A m \in Connections : \A i \in DOMAIN asks'[m] :
             /\ asks'[m][i] \in Requests /\ requests[asks'[m][i]].state = "asked"
             /\ asks'[m][i] = q => r.state = "asked"
    BY <1>1, <1>6
  <2> QED BY <1>1, <1>6, <1>7, <2>1, RequestChanges
<1>10. RequestTypes'
  BY <1>1, <1>4, <1>9 DEF TasksInv, RequestTypes
<1>11. /\ tasks' \in [Tasks -> TaskRecords \cup {Null}]
       /\ \A u \in Tasks : tasks[u] = Null <=> tasks'[u] = Null
  <2> DEFINE state == IF early /\ ActiveRequests(t) = {} THEN "running" ELSE "waiting"
  <2>1. state \in States
    BY DEF States
  <2>2. tasks' = [tasks EXCEPT ![t] = [tasks[t] EXCEPT !.state = state]]
    BY <1>4
  <2> HIDE DEF state
  <2>3. [tasks[t] EXCEPT !.state = state] \in TaskRecords
    BY <1>1, <1>3, <2>1, KnownTask DEF TaskRecords
  <2> QED BY <1>1, <1>3, <2>2, <2>3, TaskChanges DEF TasksInv
<1> QED BY <1>4, <1>6, <1>7, <1>8, <1>9, <1>10, <1>11 DEF q, early

LEMMA TakeAskKeeps ==
  ASSUME TasksInv, NEW n \in Connections, TakeAsk(n)
  PROVE  TasksInv'
<1> DEFINE q == Head(asks[n])
<1>1. Asked(n) /\ UNCHANGED <<entries, promises>>
  BY DEF TakeAsk, Unanswered
<1>2. AppServerTypes' /\ UNCHANGED monitors /\ RestOfMonitor
  BY <1>1, AskTaken
<1>3. ASSUME NEW warns \in BOOLEAN, warns => Known(requests[q].task), AutoResolve(q, n, warns)
      PROVE  TasksInv'
  <2>1. TaskGoesOn /\ RequestTypes' /\ RequestsNamed' /\ UNCHANGED activeTask
    BY <1>1, <1>3, AutoResolveGoesOn
  <2> QED BY <1>1, <1>2, <2>1, MonitorsAre, MonitorGoesOn DEF TaskGoesOn
<1>4. CASE TaskAsked(q, n) /\ Create(q, n)
  <2>1. /\ tasks' \in [Tasks -> TaskRecords \cup {Null}]
        /\ \A u \in Tasks : tasks[u] = Null <=> tasks'[u] = Null
        /\ LogsGrow /\ RequestTypes' /\ RequestsNamed' /\ UNCHANGED activeTask
    BY <1>1, <1>4, CreateGoesOn
  <2> QED BY <1>1, <1>2, <2>1, MonitorsAre, MonitorGoesOn
<1>5. TaskAsked(q, n) => Known(requests[q].task)
  BY DEF TaskAsked, IsOn
<1> HIDE DEF q
<1>6. \/ AutoResolve(q, n, FALSE)
      \/ TaskAsked(q, n) /\ AutoResolve(q, n, TRUE)
      \/ TaskAsked(q, n) /\ Create(q, n)
  BY Zenon DEF TakeAsk, q
<1> QED BY <1>3, <1>4, <1>5, <1>6

\* How the tasks of a connection that is closed come to their ends.
Failing(n) == {t \in Tasks : Live(t) /\ IsOn(t, n)}
EndsEarly(t) == MustInterrupt(t) /\ entries[t] = "pending"
FailingEnds(n) == [t \in Failing(n) |->
  IF EndsEarly(t) THEN [state |-> "interrupted", first |-> Deferred(t), clears |-> FALSE]
                  ELSE [state |-> "failed", first |-> Deferred(t), clears |-> TRUE]]
FailingAnswers(n) == [t \in {u \in Failing(n) : entries[u] = "pending"} |->
  IF EndsEarly(t) THEN "interrupted_before_turn" ELSE "failed"]

LEMMA FailingMayEnd ==
  ASSUME TasksInv, NEW n
  PROVE  MayEnd(FailingEnds(n))
<1>1. DOMAIN FailingEnds(n) = Failing(n) /\ Failing(n) \subseteq Tasks
  BY DEF FailingEnds, Failing
<1>2. ASSUME NEW t \in Failing(n)
      PROVE  /\ Known(t) /\ FailingEnds(n)[t].state \in EndStates
             /\ FailingEnds(n)[t].first = Deferred(t)
  BY DEF FailingEnds, Failing, Live, EndStates
<1> QED BY <1>1, <1>2, DeferredTells DEF MayEnd

LEMMA MonitorEndsDoes ==
  ASSUME TasksInv, NEW n \in Connections, MonitorEnds(n)
  PROVE  /\ EndTasks(FailingEnds(n)) /\ AnswerStarts(FailingAnswers(n))
         /\ entries' \in [Tasks -> EntryStates] /\ PromiseKept'
<1>1. EndTasks(FailingEnds(n)) /\ AnswerStarts(FailingAnswers(n))
  BY Zenon DEF MonitorEnds, FailingEnds, FailingAnswers, Failing, EndsEarly
<1>2. /\ DOMAIN FailingAnswers(n) \subseteq Tasks
      /\ \A t \in DOMAIN FailingAnswers(n) :
           entries[t] = "pending" /\ FailingAnswers(n)[t] \in EntryStates \ {"pending"}
  BY DEF FailingAnswers, Failing, EntryStates, EndStates
<1>3. entries' \in [Tasks -> EntryStates] /\ PromiseKept'
  BY <1>1, <1>2, AnswerStartsEffect DEF TasksInv
<1> QED BY <1>1, <1>3

LEMMA MonitorEndsKeeps ==
  ASSUME TasksInv, NEW n \in Connections, MonitorEnds(n)
  PROVE  TasksInv'
<1>1. /\ monitors' = [monitors EXCEPT ![n].pc = "none"] /\ backlog' = [backlog EXCEPT ![n] = {}]
      /\ UNCHANGED <<responses, link, notes, asks, turns>> /\ RestOfMonitor
  BY DEF MonitorEnds, appServer
<1>2. UNCHANGED retention /\ UNCHANGED <<starters, interrupters, responders>>
  BY <1>1 DEF RestOfMonitor
<1>3. GoroutineTypes' /\ AppServerTypes' /\ GoroutinesNamed'
  BY <1>1, <1>2 DEF TasksInv, GoroutineTypes, AppServerTypes, GoroutinesNamed, MonitorRecords
<1>4. backlog' \in [Connections -> SUBSET Requests]
  BY <1>1 DEF TasksInv, RequestTypes
<1> QED BY <1>1, <1>2, <1>3, <1>4, FailingMayEnd, MonitorEndsDoes, EndingStep

LEMMA MonitorStepKeeps ==
  ASSUME TasksInv, NEW n \in Connections, MonitorStep(n)
  PROVE  TasksInv'
BY HandleThreadStartedKeeps, HandleTurnStartedKeeps, MonitorConfirmsKeeps, MonitorInterruptsKeeps,
   HandleTurnCompletedKeeps, HandleServerRequestResolvedKeeps, TakeAskKeeps, MonitorEndsKeeps, Zenon
   DEF MonitorStep

LEMMA AuthRefreshFailsKeeps ==
  ASSUME TasksInv, AuthRefreshFails
  PROVE  TasksInv'
<1>1. /\ activeTask # Null /\ Live(activeTask) /\ EndTask(activeTask, "failed", <<>>)
      /\ IF entries[activeTask] = "pending" THEN AnswerStart(activeTask, "failed") ELSE Unanswered
      /\ UNCHANGED <<responses, backlog, starters, interrupters, responders, monitors,
                     link, notes, asks, turns>>
      /\ UNCHANGED retention
  BY DEF AuthRefreshFails, pendings, appServer
<1>2. activeTask \in Tasks /\ Known(activeTask)
  BY <1>1 DEF TasksInv, TaskTypes, Live
<1>3. entries' \in [Tasks -> EntryStates] /\ PromiseKept'
  BY <1>1, <1>2, AnswerStartEffect, PromiseUntouched DEF Unanswered, EntryStates, EndStates, TasksInv
<1>4. PICK ends : MayEnd(ends) /\ EndTasks(ends)
  <2>1. "failed" \in EndStates /\ <<>> \in Seq(Events)
    BY DEF EndStates
  <2> QED BY <1>1, <1>2, <2>1, NothingFirst, EndTaskEnds
<1>5. GoroutineTypes' /\ AppServerTypes' /\ GoroutinesNamed'
      /\ backlog' \in [Connections -> SUBSET Requests]
  BY <1>1 DEF TasksInv, GoroutineTypes, AppServerTypes, GoroutinesNamed, RequestTypes
<1> QED BY <1>1, <1>3, <1>4, <1>5, EndingStep

LEMMA UnsupportedRequestGoesOn ==
  ASSUME TasksInv, UnsupportedRequest
  PROVE  TaskGoesOn
<1> DEFINE t == activeTask
           r == [tasks[t] EXCEPT !.deferred = TRUE]
<1>1. /\ t # Null /\ Live(t)
      /\ \/ tasks' = [tasks EXCEPT ![t].deferred = TRUE] /\ UNCHANGED log
         \/ Append1(t, "unsupported") /\ UNCHANGED tasks
  BY DEF UnsupportedRequest
<1>2. t \in Tasks /\ Known(t)
  BY <1>1 DEF TasksInv, TaskTypes, Live
<1>3. "unsupported" \in EventKinds \ (EndStates \cup {"created", "resolved"})
  BY DEF EventKinds, EndStates
<1> HIDE DEF t
<1>4. tasks[t] \in TaskRecords /\ r \in TaskRecords
  BY <1>2, KnownTask DEF TaskRecords
<1>5. tasks' = [tasks EXCEPT ![t] = r] \/ tasks' = [tasks EXCEPT ![t] = tasks[t]]
  BY <1>1 DEF TasksInv, TaskTypes
<1> HIDE DEF r
<1> QED BY <1>1, <1>2, <1>3, <1>4, <1>5, RecordGoesOn

LEMMA UnsupportedRequestKeeps ==
  ASSUME TasksInv, UnsupportedRequest
  PROVE  TasksInv'
<1>1. UNCHANGED <<entries, promises, activeTask, requests, responses, backlog, idempotency, stale,
                  called, starters, interrupters, responders, monitors, link, notes, asks, turns>>
  BY DEF UnsupportedRequest, pendings, retention, appServer
<1>2. TaskGoesOn
  BY UnsupportedRequestGoesOn
<1>3. GoroutineTypes' /\ AppServerTypes' /\ GoroutinesNamed' /\ RequestTypes' /\ RequestsNamed'
      /\ PromiseKept' /\ entries' \in [Tasks -> EntryStates]
      /\ idempotency' \in [Keys -> Tasks \cup {Null}]
  BY <1>1, PromiseUntouched, GoroutinesNamedKept, RequestsNamedKept
     DEF TasksInv, GoroutineTypes, AppServerTypes, RequestTypes, TaskTypes
<1>4. \A u \in Tasks :
           /\ starters'[u].pc = "none" <=> starters[u].pc = "none"
           /\ tasks[u] = Null => tasks'[u] = Null
           /\ starters'[u].pc \notin {"none", "done"} => tasks'[u] # Null
           /\ u \in stale => starters'[u].pc = "done"
  BY <1>1, <1>2 DEF TasksInv, Lives, Known, TaskGoesOn
<1> QED BY <1>1, <1>2, <1>3, <1>4, QuietStep DEF TaskGoesOn

-----------------------------------------------------------------------------
(* Answers to requests, and the app server                                 *)

LEMMA RequestKept ==
  ASSUME TasksInv, NEW q \in Requests, NEW r \in RequestRecords,
         requests' = [requests EXCEPT ![q] = r],
         r.state = requests[q].state, r.task = requests[q].task, UNCHANGED asks
  PROVE  requests' \in [Requests -> RequestRecords] /\ RequestsNamed'
<1>1. /\ requests \in [Requests -> RequestRecords] /\ RequestsNamed
      /\ asks \in [Connections -> Seq(Requests)]
  BY DEF TasksInv, RequestTypes, AppServerTypes
<1>2. \A p \in Requests : /\ requests'[p].state = requests[p].state
                          /\ requests'[p].task = requests[p].task
  BY <1>1
<1>3. {p \in Requests : requests'[p].state # "none"} = {p \in Requests : requests[p].state # "none"}
  BY <1>2
<1>4. IsFiniteSet({p \in Requests : requests'[p].state # "none"})
  BY <1>1, <1>3 DEF RequestsNamed
<1>5. \A p \in Requests : requests'[p].state # "none" => requests'[p].task \in Tasks
  BY <1>1, <1>2 DEF RequestsNamed
<1>6. \A m \in Connections : \A i \in DOMAIN asks'[m] : requests'[asks'[m][i]].state = "asked"
  <2>1. \A m \in Connections : \A i \in DOMAIN asks[m] : asks[m][i] \in Requests
    BY <1>1
  <2> QED BY <1>1, <1>2, <2>1 DEF RequestsNamed
<1>7. \A m, l \in Connections : \A i \in DOMAIN asks'[m], j \in DOMAIN asks'[l] :
        asks'[m][i] = asks'[l][j] => m = l /\ i = j
  BY <1>1 DEF RequestsNamed
<1>8. requests' \in [Requests -> RequestRecords]
  BY <1>1
<1> QED BY <1>4, <1>5, <1>6, <1>7, <1>8 DEF RequestsNamed

LEMMA AnswersAre ==
  ASSUME TasksInv, NEW r \in Responders
  PROVE  /\ Answers[r][1] \in Requests /\ Answers[r][2] \in ResponseIDs
         /\ requests[Answers[r][1]] \in RequestRecords
         /\ requests \in [Requests -> RequestRecords]
         /\ responses \in [Requests -> [ResponseIDs -> {"none", "responding", "accepted", "failed"}]]
<1>1. Answers[r][1] \in Requests /\ Answers[r][2] \in ResponseIDs
  BY TasksAssumption
<1> QED BY <1>1 DEF TasksInv, RequestTypes

LEMMA ResponderMoves ==
  ASSUME TasksInv, NEW r \in Responders, NEW to \in {"write", "complete", "wait", "done"}, Goes(r, to)
  PROVE  responders' \in [Responders -> ResponderRecords]
BY DEF Goes, TasksInv, GoroutineTypes, ResponderRecords

LEMMA ResponderGoesOn ==
  ASSUME TasksInv, RestOfResponse, UNCHANGED <<entries, promises, activeTask>>,
         tasks' \in [Tasks -> TaskRecords \cup {Null}],
         \A u \in Tasks : tasks[u] = Null <=> tasks'[u] = Null, LogsGrow,
         requests' \in [Requests -> RequestRecords], RequestsNamed',
         responses' \in [Requests -> [ResponseIDs -> {"none", "responding", "accepted", "failed"}]],
         responders' \in [Responders -> ResponderRecords],
         link' \in [Connections -> {"new", "open", "closed"}]
  PROVE  TasksInv'
<1>1. UNCHANGED <<backlog, idempotency, stale, called, starters, interrupters, monitors,
                  notes, asks, turns>>
  BY DEF RestOfResponse, retention
<1>2. GoroutineTypes' /\ AppServerTypes' /\ GoroutinesNamed' /\ RequestTypes'
      /\ PromiseKept' /\ entries' \in [Tasks -> EntryStates]
      /\ idempotency' \in [Keys -> Tasks \cup {Null}]
  BY <1>1, PromiseUntouched, GoroutinesNamedKept
     DEF TasksInv, GoroutineTypes, AppServerTypes, RequestTypes, TaskTypes
<1>3. \A u \in Tasks :
           /\ starters'[u].pc = "none" <=> starters[u].pc = "none"
           /\ tasks[u] = Null => tasks'[u] = Null
           /\ starters'[u].pc \notin {"none", "done"} => tasks'[u] # Null
           /\ u \in stale => starters'[u].pc = "done"
  BY <1>1 DEF TasksInv, Lives, Known
<1> QED BY <1>1, <1>2, <1>3, QuietStep

\* What the steps of an answer have in common that leave the tasks alone.
LEMMA ResponderLeaves ==
  ASSUME TasksInv, RestOfResponse, UNCHANGED <<tasks, entries, promises, activeTask, log>>,
         requests' \in [Requests -> RequestRecords], RequestsNamed',
         responses' \in [Requests -> [ResponseIDs -> {"none", "responding", "accepted", "failed"}]],
         responders' \in [Responders -> ResponderRecords],
         link' \in [Connections -> {"new", "open", "closed"}]
  PROVE  TasksInv'
BY NothingGoesOn, ResponderGoesOn DEF TaskGoesOn

\* What an answer does to the record of its request, but for resolving it.
LEMMA AnswerMarks ==
  ASSUME TasksInv, NEW q \in Requests, UNCHANGED asks,
         \/ UNCHANGED requests
         \/ requests' = [requests EXCEPT ![q].answered = TRUE]
         \/ \E i \in ResponseIDs \cup {Null} : requests' = [requests EXCEPT ![q].inFlight = i]
  PROVE  /\ requests' \in [Requests -> RequestRecords] /\ RequestsNamed'
         /\ \A p \in Requests : /\ requests'[p].state = requests[p].state
                                /\ requests'[p].task = requests[p].task
<1>1. requests \in [Requests -> RequestRecords] /\ requests[q] \in RequestRecords
  BY DEF TasksInv, RequestTypes
<1>2. CASE UNCHANGED requests
  BY <1>1, <1>2, RequestsNamedKept DEF TasksInv
<1>3. ASSUME NEW r \in RequestRecords, r.state = requests[q].state, r.task = requests[q].task,
             requests' = [requests EXCEPT ![q] = r]
      PROVE  /\ requests' \in [Requests -> RequestRecords] /\ RequestsNamed'
             /\ \A p \in Requests : /\ requests'[p].state = requests[p].state
                                    /\ requests'[p].task = requests[p].task
  BY <1>1, <1>3, RequestKept
<1>4. CASE requests' = [requests EXCEPT ![q].answered = TRUE]
  <2> DEFINE r == [requests[q] EXCEPT !.answered = TRUE]
  <2>1. r \in RequestRecords /\ r.state = requests[q].state /\ r.task = requests[q].task
    BY <1>1 DEF RequestRecords
  <2>2. requests' = [requests EXCEPT ![q] = r]
    BY <1>1, <1>4
  <2> HIDE DEF r
  <2> QED BY <1>3, <2>1, <2>2
<1>5. ASSUME NEW i \in ResponseIDs \cup {Null}, requests' = [requests EXCEPT ![q].inFlight = i]
      PROVE  /\ requests' \in [Requests -> RequestRecords] /\ RequestsNamed'
             /\ \A p \in Requests : /\ requests'[p].state = requests[p].state
                                    /\ requests'[p].task = requests[p].task
  <2> DEFINE r == [requests[q] EXCEPT !.inFlight = i]
  <2>1. r \in RequestRecords /\ r.state = requests[q].state /\ r.task = requests[q].task
    BY <1>1 DEF RequestRecords
  <2>2. requests' = [requests EXCEPT ![q] = r]
    BY <1>1, <1>5
  <2> HIDE DEF r
  <2> QED BY <1>3, <2>1, <2>2
<1> QED BY <1>2, <1>4, <1>5

LEMMA ClaimResponseKeeps ==
  ASSUME TasksInv, NEW r \in Responders, ClaimResponse(r)
  PROVE  TasksInv'
<1> DEFINE q == Answers[r][1]
           i == Answers[r][2]
<1>1. /\ UNCHANGED <<tasks, entries, promises, activeTask, log, link>> /\ RestOfResponse
      /\ UNCHANGED asks
  BY DEF ClaimResponse, RestOfResponse
<1>2. responders' \in [Responders -> ResponderRecords]
  BY ResponderMoves DEF ClaimResponse
<1>3. /\ requests' = [requests EXCEPT ![q].inFlight = i] \/ UNCHANGED requests
      /\ responses' = [responses EXCEPT ![q][i] = "responding"] \/ UNCHANGED responses
  BY DEF ClaimResponse
<1>4. q \in Requests /\ i \in ResponseIDs
  BY AnswersAre
<1> HIDE DEF q, i
<1>5. requests' \in [Requests -> RequestRecords] /\ RequestsNamed'
  BY <1>1, <1>3, <1>4, AnswerMarks
<1>6. responses' \in [Requests -> [ResponseIDs -> {"none", "responding", "accepted", "failed"}]]
  <2>1. responses \in [Requests -> [ResponseIDs -> {"none", "responding", "accepted", "failed"}]]
    BY DEF TasksInv, RequestTypes
  <2>2. CASE responses' = [responses EXCEPT ![q][i] = "responding"]
    BY <1>4, <2>1, <2>2
  <2> QED BY <1>3, <2>1, <2>2
<1> QED BY <1>1, <1>2, <1>5, <1>6, ResponderLeaves DEF TasksInv, AppServerTypes

LEMMA WriteResponseKeeps ==
  ASSUME TasksInv, NEW r \in Responders, WriteResponse(r)
  PROVE  TasksInv'
<1> DEFINE q == Answers[r][1]
           n == Of(requests[q].task)
<1>1. /\ UNCHANGED <<tasks, entries, promises, activeTask, log, responses>> /\ RestOfResponse
      /\ UNCHANGED asks
  BY DEF WriteResponse, RestOfResponse
<1>2. \E written \in BOOLEAN : responders' = [responders EXCEPT ![r] = [pc |-> "complete", written |-> written]]
  BY DEF WriteResponse
<1>3. responders' \in [Responders -> ResponderRecords]
  BY <1>2 DEF TasksInv, GoroutineTypes, ResponderRecords
<1>4. requests' = [requests EXCEPT ![q].answered = TRUE] \/ UNCHANGED requests
  BY DEF WriteResponse
<1>5. link' \in [Connections -> {"new", "open", "closed"}]
  <2>1. link \in [Connections -> {"new", "open", "closed"}]
    BY DEF TasksInv, AppServerTypes
  <2>2. UNCHANGED link \/ link' = [link EXCEPT ![n] = "closed"]
    BY DEF WriteResponse
  <2> HIDE DEF n
  <2> QED BY <2>1, <2>2
<1>6. q \in Requests
  BY AnswersAre
<1> HIDE DEF q
<1>7. requests' \in [Requests -> RequestRecords] /\ RequestsNamed'
  BY <1>1, <1>4, <1>6, AnswerMarks
<1> QED BY <1>1, <1>3, <1>5, <1>7, ResponderLeaves DEF TasksInv, RequestTypes

LEMMA CompleteResponseKeeps ==
  ASSUME TasksInv, NEW r \in Responders, CompleteResponse(r)
  PROVE  TasksInv'
<1> DEFINE q == Answers[r][1]
           i == Answers[r][2]
<1>1. UNCHANGED link /\ RestOfResponse /\ Goes(r, "done") /\ UNCHANGED asks
  BY DEF CompleteResponse, RestOfResponse
<1>2. /\ responders' \in [Responders -> ResponderRecords]
      /\ link' \in [Connections -> {"new", "open", "closed"}]
  BY <1>1, ResponderMoves DEF TasksInv, AppServerTypes
<1>3. q \in Requests /\ i \in ResponseIDs
  BY AnswersAre
<1>4. CASE UNCHANGED <<registry, responses>>
  <2>1. UNCHANGED <<tasks, entries, promises, activeTask, log, requests>>
    BY <1>4 DEF registry
  <2>2. /\ requests' \in [Requests -> RequestRecords] /\ RequestsNamed'
        /\ responses' \in [Requests -> [ResponseIDs -> {"none", "responding", "accepted", "failed"}]]
    BY <1>1, <1>4, <2>1, RequestsNamedKept DEF TasksInv, RequestTypes
  <2> QED BY <1>1, <1>2, <2>1, <2>2, ResponderLeaves
<1>5. CASE /\ requests' = [requests EXCEPT ![q].inFlight = Null]
           /\ responses' = [responses EXCEPT ![q][i] = "accepted"]
           /\ UNCHANGED <<tasks, entries, promises, activeTask, log>>
  <2> HIDE DEF q, i
  <2>1. requests' \in [Requests -> RequestRecords] /\ RequestsNamed'
    BY <1>1, <1>3, <1>5, AnswerMarks
  <2>2. responses' \in [Requests -> [ResponseIDs -> {"none", "responding", "accepted", "failed"}]]
    BY <1>3, <1>5 DEF TasksInv, RequestTypes
  <2> QED BY <1>1, <1>2, <1>5, <2>1, <2>2, ResponderLeaves
<1>6. CASE /\ Known(requests[q].task) /\ requests[q].state = "active" /\ Resolve(q)
           /\ \E to \in {"accepted", "failed"} : responses' = [responses EXCEPT ![q][i] = to]
  <2> HIDE DEF q, i
  <2>1. /\ tasks' \in [Tasks -> TaskRecords \cup {Null}]
        /\ \A u \in Tasks : tasks[u] = Null <=> tasks'[u] = Null
        /\ LogsGrow /\ UNCHANGED <<entries, promises, activeTask>>
        /\ requests' \in [Requests -> RequestRecords] /\ RequestsNamed'
    BY <1>1, <1>3, <1>6, ResolveGoesOn
  <2>2. responses' \in [Requests -> [ResponseIDs -> {"none", "responding", "accepted", "failed"}]]
    BY <1>3, <1>6 DEF TasksInv, RequestTypes
  <2> QED BY <1>1, <1>2, <2>1, <2>2, ResponderGoesOn
<1>7. \/ UNCHANGED <<registry, responses>>
      \/ /\ requests' = [requests EXCEPT ![q].inFlight = Null]
         /\ responses' = [responses EXCEPT ![q][i] = "accepted"]
         /\ UNCHANGED <<tasks, entries, promises, activeTask, log>>
      \/ /\ Known(requests[q].task) /\ requests[q].state = "active" /\ Resolve(q)
         /\ responses' = [responses EXCEPT ![q][i] =
              IF responders[r].written THEN "accepted" ELSE "failed"]
  BY Zenon DEF CompleteResponse
<1>8. responders[r].written \in BOOLEAN
  BY DEF TasksInv, GoroutineTypes, ResponderRecords
<1> HIDE DEF q, i
<1>9. CASE responders[r].written
  BY <1>4, <1>5, <1>6, <1>7, <1>9
<1>10. CASE ~responders[r].written
  BY <1>4, <1>5, <1>6, <1>7, <1>10
<1> QED BY <1>9, <1>10

LEMMA WaitForResponseKeeps ==
  ASSUME TasksInv, NEW r \in Responders, WaitForResponse(r)
  PROVE  TasksInv'
<1>1. /\ UNCHANGED <<tasks, entries, promises, activeTask, log, requests, responses, link>>
      /\ UNCHANGED asks /\ RestOfResponse
  BY DEF WaitForResponse, RestOfResponse, registry
<1>2. responders' \in [Responders -> ResponderRecords]
  BY ResponderMoves DEF WaitForResponse
<1> QED BY <1>1, <1>2, RequestsNamedKept, ResponderLeaves
        DEF TasksInv, RequestTypes, AppServerTypes

LEMMA ResponderStepKeeps ==
  ASSUME TasksInv, NEW r \in Responders, ResponderStep(r)
  PROVE  TasksInv'
BY ClaimResponseKeeps, WriteResponseKeeps, CompleteResponseKeeps, WaitForResponseKeeps
   DEF ResponderStep

LEMMA AppServerGoesOn ==
  ASSUME TasksInv, RestOfAppServer, AppServerTypes',
         requests' \in [Requests -> RequestRecords], RequestsNamed'
  PROVE  TasksInv'
<1>1. UNCHANGED <<tasks, entries, promises, activeTask, log, responses, backlog, idempotency, stale,
                  called, starters, interrupters, responders, monitors>>
  BY DEF RestOfAppServer, pendings, retention
<1>2. TaskGoesOn
  BY <1>1, NothingGoesOn
<1>3. GoroutineTypes' /\ GoroutinesNamed' /\ RequestTypes'
      /\ PromiseKept' /\ entries' \in [Tasks -> EntryStates]
      /\ idempotency' \in [Keys -> Tasks \cup {Null}]
  BY <1>1, PromiseUntouched, GoroutinesNamedKept DEF TasksInv, GoroutineTypes, RequestTypes, TaskTypes
<1>4. \A u \in Tasks :
           /\ starters'[u].pc = "none" <=> starters[u].pc = "none"
           /\ tasks[u] = Null => tasks'[u] = Null
           /\ starters'[u].pc \notin {"none", "done"} => tasks'[u] # Null
           /\ u \in stale => starters'[u].pc = "done"
  BY <1>1 DEF TasksInv, Lives, Known
<1> QED BY <1>1, <1>2, <1>3, <1>4, QuietStep DEF TaskGoesOn

LEMMA SendsTyped ==
  ASSUME AppServerTypes, NEW n, IsOpen(n), NEW note \in Notes, Sends(n, note) \/ UNCHANGED notes
  PROVE  notes' \in [Connections -> Seq(Notes)]
<1>1. n \in Connections /\ notes \in [Connections -> Seq(Notes)]
  BY DEF AppServerTypes, IsOpen
<1>2. CASE notes' = [notes EXCEPT ![n] = Append(@, note)]
  <2> HIDE DEF Notes
  <2>1. Append(notes[n], note) \in Seq(Notes)
    BY <1>1
  <2> QED BY <1>1, <1>2, <2>1
<1> QED BY <1>1, <1>2 DEF Sends

LEMMA NotesAre ==
  ASSUME NEW t \in Tasks
  PROVE  /\ Note("thread/started", t, "other") \in Notes
         /\ Note("turn/started", t, "other") \in Notes
         /\ \A status \in TurnStatuses : Note("turn/completed", t, status) \in Notes
         /\ \A q \in Requests : [kind |-> "serverRequest/resolved", request |-> q] \in Notes
BY TasksAssumption DEF Note, Notes

LEMMA CodexNotesKeep ==
  ASSUME TasksInv, RestOfAppServer, UNCHANGED <<requests, asks>>, AppServerTypes'
  PROVE  TasksInv'
BY RequestsNamedKept, AppServerGoesOn DEF TasksInv, RequestTypes

LEMMA CodexStartsThreadKeeps ==
  ASSUME TasksInv, NEW t \in Tasks, CodexStartsThread(t)
  PROVE  TasksInv'
<1>1. /\ IsOpen(Of(t)) /\ Sends(Of(t), Note("thread/started", t, "other"))
      /\ UNCHANGED <<requests, link, asks, turns>> /\ RestOfAppServer
  BY DEF CodexStartsThread
<1>2. AppServerTypes'
  BY <1>1, NotesAre, SendsTyped DEF TasksInv, AppServerTypes
<1> QED BY <1>1, <1>2, CodexNotesKeep

LEMMA CodexStartsTurnKeeps ==
  ASSUME TasksInv, NEW t \in Tasks, CodexStartsTurn(t)
  PROVE  TasksInv'
<1>1. /\ IsOpen(Of(t))
      /\ Sends(Of(t), Note("turn/started", t, "other")) \/ UNCHANGED notes
      /\ turns' = [turns EXCEPT ![t] = "running"]
      /\ UNCHANGED <<requests, link, asks>> /\ RestOfAppServer
  BY DEF CodexStartsTurn
<1>2. notes' \in [Connections -> Seq(Notes)]
  BY <1>1, NotesAre, SendsTyped DEF TasksInv
<1>3. AppServerTypes'
  BY <1>1, <1>2 DEF TasksInv, AppServerTypes
<1> QED BY <1>1, <1>3, CodexNotesKeep

LEMMA CodexEndsTurnKeeps ==
  ASSUME TasksInv, NEW t \in Tasks, CodexEndsTurn(t)
  PROVE  TasksInv'
<1>1. /\ IsOpen(Of(t)) /\ \E status \in TurnStatuses : Sends(Of(t), Note("turn/completed", t, status))
      /\ turns' = [turns EXCEPT ![t] = "ended"]
      /\ UNCHANGED <<requests, link, asks>> /\ RestOfAppServer
  BY DEF CodexEndsTurn
<1>2. notes' \in [Connections -> Seq(Notes)]
  BY <1>1, NotesAre, SendsTyped DEF TasksInv
<1>3. AppServerTypes'
  BY <1>1, <1>2 DEF TasksInv, AppServerTypes
<1> QED BY <1>1, <1>3, CodexNotesKeep

\* A request is asked that was not asked before: none that waits is the same.
LEMMA CodexAsksNames ==
  ASSUME TasksInv, NEW t \in Tasks, NEW q \in Requests, CodexAsks(q, t)
  PROVE  /\ requests' \in [Requests -> RequestRecords] /\ RequestsNamed'
         /\ asks' \in [Connections -> Seq(Requests)]
         /\ requests'[q].state = "asked" /\ requests'[q].task = t /\ requests[q].state = "none"
         /\ \A p \in Requests \ {q} : requests'[p] = requests[p]
<1> DEFINE n == Of(t)
           r == [requests[q] EXCEPT !.state = "asked", !.task = t]
<1>1. /\ requests[q].state = "none"
      /\ requests' = [requests EXCEPT ![q].state = "asked", ![q].task = t]
      /\ asks' = [asks EXCEPT ![n] = Append(@, q)]
      /\ n \in Connections
  BY DEF CodexAsks, IsOpen
<1> HIDE DEF n
<1>2. /\ requests \in [Requests -> RequestRecords] /\ requests[q] \in RequestRecords
      /\ RequestsNamed /\ asks \in [Connections -> Seq(Requests)]
  BY DEF TasksInv, RequestTypes, AppServerTypes
<1>3. r \in RequestRecords /\ r.task = t /\ r.state = "asked"
  BY <1>2 DEF RequestRecords
<1>4. requests' = [requests EXCEPT ![q] = r]
  BY <1>1, <1>2
<1> HIDE DEF r
<1>5. requests'[q] = r /\ \A p \in Requests \ {q} : requests'[p] = requests[p]
  BY <1>2, <1>4
<1>6. /\ Append(asks[n], q) \in Seq(Requests)
      /\ Len(asks[n]) \in Nat /\ DOMAIN asks[n] = 1..Len(asks[n])
      /\ DOMAIN Append(asks[n], q) = 1..(Len(asks[n]) + 1)
      /\ Append(asks[n], q)[Len(asks[n]) + 1] = q
      /\ \A i \in 1..Len(asks[n]) : Append(asks[n], q)[i] = asks[n][i]
  BY <1>1, <1>2
<1>7. asks'[n] = Append(asks[n], q) /\ \A m \in Connections \ {n} : asks'[m] = asks[m]
  BY <1>1, <1>2
<1>8. ASSUME NEW m \in Connections, NEW i \in DOMAIN asks'[m]
      PROVE  \/ i \in DOMAIN asks[m] /\ asks'[m][i] = asks[m][i]
             \/ m = n /\ i = Len(asks[n]) + 1 /\ asks'[m][i] = q
  BY <1>6, <1>7, <1>8, SMTT(30)
<1>9. \A m \in Connections : \A i \in DOMAIN asks[m] :
        asks[m][i] \in Requests /\ requests[asks[m][i]].state = "asked" /\ asks[m][i] # q
  BY <1>1, <1>2 DEF RequestsNamed
<1>10. \A m \in Connections : \A i \in DOMAIN asks'[m] : requests'[asks'[m][i]].state = "asked"
  BY <1>3, <1>5, <1>8, <1>9
<1>11. ASSUME NEW m \in Connections, NEW l \in Connections, NEW i \in DOMAIN asks'[m],
              NEW j \in DOMAIN asks'[l], asks'[m][i] = asks'[l][j]
       PROVE  m = l /\ i = j
  BY <1>2, <1>8, <1>9, <1>11 DEF RequestsNamed
<1>12. {p \in Requests : requests'[p].state # "none"}
         = {p \in Requests : requests[p].state # "none"} \cup {q}
  BY <1>3, <1>5
<1>13. IsFiniteSet({p \in Requests : requests'[p].state # "none"})
  <2> DEFINE S == {p \in Requests : requests[p].state # "none"}
  <2>1. IsFiniteSet(S)
    BY <1>2 DEF RequestsNamed
  <2> HIDE DEF S
  <2>2. IsFiniteSet(S \cup {q})
    BY <2>1, FS_AddElement
  <2> QED BY <1>12, <2>2 DEF S
<1>14. \A p \in Requests : requests'[p].state # "none" => requests'[p].task \in Tasks
  BY <1>2, <1>3, <1>5 DEF RequestsNamed
<1>15. requests' \in [Requests -> RequestRecords] /\ asks' \in [Connections -> Seq(Requests)]
  BY <1>1, <1>2, <1>3, <1>4, <1>6
<1>16. RequestsNamed'
  BY <1>10, <1>11, <1>13, <1>14 DEF RequestsNamed
<1> QED BY <1>1, <1>3, <1>5, <1>15, <1>16

LEMMA CodexAsksKeeps ==
  ASSUME TasksInv, NEW t \in Tasks, NEW q \in Requests, CodexAsks(q, t)
  PROVE  TasksInv'
<1>1. UNCHANGED <<link, notes, turns>> /\ RestOfAppServer
  BY DEF CodexAsks
<1>2. AppServerTypes'
  BY <1>1, CodexAsksNames DEF TasksInv, AppServerTypes
<1> QED BY <1>1, <1>2, CodexAsksNames, AppServerGoesOn

LEMMA CodexWithdrawsKeeps ==
  ASSUME TasksInv, NEW q \in Requests, CodexWithdraws(q)
  PROVE  TasksInv'
<1> DEFINE r == [requests[q] EXCEPT !.withdrawn = TRUE]
<1>1. /\ IsOpen(Of(requests[q].task))
      /\ requests' = [requests EXCEPT ![q].withdrawn = TRUE]
      /\ Sends(Of(requests[q].task), [kind |-> "serverRequest/resolved", request |-> q])
      /\ UNCHANGED <<link, asks, turns>> /\ RestOfAppServer
  BY DEF CodexWithdraws
<1>2. [kind |-> "serverRequest/resolved", request |-> q] \in Notes
  BY DEF Notes
<1>3. AppServerTypes'
  BY <1>1, <1>2, SendsTyped DEF TasksInv, AppServerTypes
<1>4. requests \in [Requests -> RequestRecords] /\ requests[q] \in RequestRecords
  BY DEF TasksInv, RequestTypes
<1>5. r \in RequestRecords /\ r.state = requests[q].state /\ r.task = requests[q].task
  BY <1>4 DEF RequestRecords
<1>6. requests' = [requests EXCEPT ![q] = r]
  BY <1>1, <1>4
<1> HIDE DEF r
<1>7. requests' \in [Requests -> RequestRecords] /\ RequestsNamed'
  BY <1>1, <1>5, <1>6, RequestKept
<1> QED BY <1>1, <1>3, <1>7, AppServerGoesOn

LEMMA ConnectionIsLostKeeps ==
  ASSUME TasksInv, NEW n \in Connections, ConnectionIsLost(n)
  PROVE  TasksInv'
<1>1. /\ link' = [link EXCEPT ![n] = "closed"]
      /\ UNCHANGED <<requests, notes, asks, turns>> /\ RestOfAppServer
  BY DEF ConnectionIsLost
<1>2. AppServerTypes'
  BY <1>1 DEF TasksInv, AppServerTypes
<1> QED BY <1>1, <1>2, CodexNotesKeep

-----------------------------------------------------------------------------
(* The theorems                                                            *)

LEMMA TasksInitEstablishes ==
  ASSUME TasksInit
  PROVE  TasksInv
<1>1. \A t \in Tasks : log[t] = <<>>
  BY DEF TasksInit
<1>2. TaskTypes /\ LogsType
  <2>1. <<>> \in Seq(Events)
    OBVIOUS
  <2> QED BY <2>1 DEF TasksInit, TaskTypes, LogsType, EntryStates
<1>3. RequestTypes
  BY DEF TasksInit, RequestTypes, RequestRecords
<1>4. GoroutineTypes
  BY DEF TasksInit, GoroutineTypes, StarterRecords, StarterLabels, InterrupterRecords,
         ResponderRecords, MonitorRecords
<1>5. AppServerTypes
  <2>1. <<>> \in Seq(Notes) /\ <<>> \in Seq(Requests)
    <3> HIDE DEF Notes
    <3> QED OBVIOUS
  <2> QED BY <2>1 DEF TasksInit, AppServerTypes
<1>6. PromiseKept /\ GoroutinesNamed
  BY DEF TasksInit, PromiseKept, GoroutinesNamed
<1>7. RequestsNamed
  <2>1. {q \in Requests : requests[q].state # "none"} = {}
    BY DEF TasksInit
  <2>2. IsFiniteSet({q \in Requests : requests[q].state # "none"})
    BY <2>1, FS_EmptySet
  <2>3. \A n \in Connections : DOMAIN asks[n] = {}
    BY DEF TasksInit
  <2>4. \A q \in Requests : requests[q].state = "none"
    BY DEF TasksInit
  <2> QED BY <2>2, <2>3, <2>4 DEF RequestsNamed
<1>8. \A t \in Tasks : Lives(t)
  BY DEF TasksInit, Lives, Known
<1>9. \A t \in Tasks : SessionHeld(t)
  BY <1>1, TasksAssumption DEF TasksInit, SessionHeld
<1> QED BY <1>2, <1>3, <1>4, <1>5, <1>6, <1>7, <1>8, <1>9 DEF TasksInv

LEMMA TasksNextKeeps ==
  ASSUME TasksInv, [TasksNext]_vars
  PROVE  TasksInv'
<1>1. CASE UNCHANGED vars
  <2>1. UNCHANGED <<tasks, entries, promises, activeTask, log, requests>>
    BY <1>1 DEF vars, registry
  <2>2. UNCHANGED <<responses, backlog, idempotency, stale, called, starters, interrupters,
                    responders, monitors>>
    BY <1>1 DEF vars, pendings, retention
  <2>3. UNCHANGED <<link, notes, asks, turns>>
    BY <1>1 DEF vars, appServer
  <2>4. RestOfAppServer
    BY <2>1, <2>2 DEF RestOfAppServer, pendings, retention
  <2>5. AppServerTypes'
    BY <2>3 DEF TasksInv, AppServerTypes
  <2> QED BY <2>1, <2>3, <2>4, <2>5, CodexNotesKeep
<1>2. CASE GatewayStep
  BY <1>2, ClaimStartKeeps, StartStepKeeps, InterruptTaskKeeps, InterruptReturnsKeeps,
     MonitorStepKeeps, ResponderStepKeeps, Zenon DEF GatewayStep
<1>3. CASE AppServerStep
  BY <1>3, CodexStartsTurnKeeps, CodexEndsTurnKeeps, CodexAsksKeeps, Zenon DEF AppServerStep
<1>4. CASE GetTaskStatus \/ AuthRefreshFails \/ UnsupportedRequest
  BY <1>4, GetTaskStatusKeeps, AuthRefreshFailsKeeps, UnsupportedRequestKeeps
<1>5. CASE \E t \in Tasks : RetentionEnds(t) \/ CodexStartsThread(t)
  BY <1>5, RetentionEndsKeeps, CodexStartsThreadKeeps
<1>6. CASE \E q \in Requests : CodexWithdraws(q)
  BY <1>6, CodexWithdrawsKeeps
<1>7. CASE \E n \in Connections : ConnectionIsLost(n)
  BY <1>7, ConnectionIsLostKeeps
<1> QED BY <1>1, <1>2, <1>3, <1>4, <1>5, <1>6, <1>7, Zenon DEF TasksNext

\* The inductive invariant of the task service: its types, that a promise is closed exactly
\* when its start has been answered, that who works on a task or a request has one, and
\* whose the session is.
THEOREM TasksInvHolds == TasksSpec => []TasksInv
<1>1. TasksInit => TasksInv
  BY TasksInitEstablishes
<1>2. TasksInv /\ [TasksNext]_vars => TasksInv'
  BY TasksNextKeeps
<1> QED BY <1>1, <1>2, PTL DEF TasksSpec

LEMMA SequenceRange ==
  ASSUME NEW S, NEW s \in Seq(S)
  PROVE  Range(s) \subseteq S
BY DEF Range

\* The state of the task service keeps its types; in particular no promise and no response is
\* closed a second time, whichever of a start, an interrupt, the monitor and the hooks comes
\* first (registry.go:131 and the other places that close one).
THEOREM TasksTypeCorrect == TasksSpec => []TasksTypeOK
<1>1. ASSUME TasksInv PROVE TasksTypeOK
  <2>1. TaskTypes /\ LogsType /\ RequestTypes /\ GoroutineTypes /\ AppServerTypes /\ PromiseKept
    BY <1>1 DEF TasksInv
  <2>2. \A t \in Tasks : Range(log[t]) \subseteq Events
    BY <2>1, SequenceRange DEF LogsType
  <2>3. \A n \in Connections : Range(notes[n]) \subseteq Notes /\ Range(asks[n]) \subseteq Requests
    BY <2>1, SequenceRange DEF AppServerTypes
  <2>4. \A t \in Tasks : promises[t] # "pending"
    BY <2>1 DEF PromiseKept
  <2> QED BY <2>1, <2>2, <2>3, <2>4
          DEF TaskTypes, RequestTypes, GoroutineTypes, AppServerTypes, PromiseKept, TasksTypeOK
<1> QED BY <1>1, TasksInvHolds, PTL

LEMMA CountIsZero ==
  ASSUME LogsType, NEW t \in Tasks
  PROVE  Count(t, EndStates) = 0 <=> ~Ends(log[t])
<1> DEFINE S == {i \in DOMAIN log[t] : log[t][i].kind \in EndStates}
<1>1. IsFiniteSet(S)
  <2>1. DOMAIN log[t] = 1..Len(log[t]) /\ Len(log[t]) \in Nat
    BY DEF LogsType
  <2>2. IsFiniteSet(1..Len(log[t]))
    BY <2>1, FS_Interval
  <2>3. S \in SUBSET (1..Len(log[t]))
    BY <2>1
  <2> HIDE DEF S
  <2> QED BY <2>2, <2>3, FS_Subset
<1>2. S = {} <=> ~Ends(log[t])
  BY DEF Ends
<1>3. Count(t, EndStates) = Cardinality(S)
  BY DEF Count
<1> HIDE DEF S
<1> QED BY <1>1, <1>2, <1>3, FS_EmptySet

\* The session is taken exactly while a task of it has started and its log names no end,
\* whoever ends the task (registry.go, clearActiveLocked).
THEOREM SessionIsOwned == TasksSpec => []SessionBelongsToUnendedTask
<1>1. ASSUME TasksInv PROVE SessionBelongsToUnendedTask
  <2>1. ASSUME NEW t \in Tasks
        PROVE  (log[t] # <<>> /\ Count(t, EndStates) = 0) <=> activeTask = t
    BY <1>1, CountIsZero DEF TasksInv, SessionHeld
  <2>2. activeTask \in Tasks \cup {Null} /\ Null \notin Tasks
    BY <1>1, TasksAssumption DEF TasksInv, TaskTypes
  <2> QED BY <2>1, <2>2 DEF SessionBelongsToUnendedTask
<1> QED BY <1>1, TasksInvHolds, PTL

-----------------------------------------------------------------------------
(* The requests of the app server                                          *)

\* What the logs say of a request, by what it has become.
Announced(q) == HasOnce(log[requests[q].task], About("created", q))
Untold(q) == \A t \in Tasks : /\ ~Has(log[t], About("created", q))
                              /\ ~Has(log[t], About("resolved", q))
Stays(q) ==
  /\ requests[q].state = "none" => requests[q].task = Null
  /\ requests[q].state \in {"none", "asked", "declined"} => Untold(q)
  /\ requests[q].state = "active" =>
       Announced(q) /\ ~Has(log[requests[q].task], About("resolved", q))
  /\ requests[q].state = "resolved" =>
       Announced(q) /\ HasOnce(log[requests[q].task], About("resolved", q))

\* Who is about to ask the app server to interrupt the turn of a task: its start, a
\* monitor or an interrupt.
Senders(t) ==
  {<<"start", u>> : u \in {v \in {t} : starters[v].pc = "interrupt"}}
    \cup {<<"monitor", n>> : n \in {m \in Connections : /\ monitors[m].pc = "interrupt"
                                                         /\ monitors[m].task = t}}
    \cup {<<"call", i>> : i \in {j \in Interrupters : /\ interrupters[j].pc = "call"
                                                       /\ interrupters[j].task = t}}

\* A start that has not come to its turn; then nobody has heard of the turn.
Early(t) == starters[t].pc \in {"none", "begin", "connect", "monitor", "attach", "threading",
                                "bind", "before_turn", "pre_turn"}
Unheard(t) == \A n \in Connections :
  /\ monitors[n].task # t
  /\ \A i \in DOMAIN notes[n] : notes[n][i].kind = "turn/started" => notes[n][i].task # t

\* The turn is known before it is interrupted, and it is interrupted by one at a time, so
\* that a refusal gives the task the state back it had; while a request waits, that is
\* the one of waiting.
Starts(t) == Early(t) => Unheard(t) /\ (Known(t) => ~tasks[t].turn)
Interrupts(t) ==
  /\ Senders(t) # {} => ~Early(t) /\ (Known(t) => tasks[t].turn)
  /\ Live(t) /\ Senders(t) # {} => tasks[t].state = "interrupting"
  /\ Live(t) => \A g, h \in Senders(t) : g = h
Waits(t) ==
  ActiveRequests(t) # {} =>
    /\ Known(t) /\ tasks[t].turn /\ tasks[t].state \in {"waiting", "interrupting"}
    /\ tasks[t].state = "interrupting" => tasks[t].preInterruptState = "waiting"

TaskOrder(t) == Starts(t) /\ Interrupts(t) /\ Waits(t)
RequestInv == (\A q \in Requests : Stays(q)) /\ (\A t \in Tasks : TaskOrder(t))

LEMMA StaysKept ==
  ASSUME TasksInv, NEW q \in Requests, Stays(q),
         requests'[q].state = requests[q].state, requests'[q].task = requests[q].task,
         \A t \in Tasks : /\ Silent(log[t], log'[t], About("created", q))
                          /\ Silent(log[t], log'[t], About("resolved", q))
  PROVE  Stays(q)'
<1>1. requests[q].state # "none" => requests[q].task \in Tasks
  BY DEF TasksInv, RequestsNamed
<1>2. Untold(q) => Untold(q)'
  BY DEF Untold, Silent
<1>3. requests[q].task \in Tasks /\ Announced(q) => Announced(q)'
  BY DEF Announced, Silent
<1>4. requests[q].task \in Tasks =>
        /\ ~Has(log[requests[q].task], About("resolved", q)) =>
             ~Has(log'[requests'[q].task], About("resolved", q))
        /\ HasOnce(log[requests[q].task], About("resolved", q)) =>
             HasOnce(log'[requests'[q].task], About("resolved", q))
  BY DEF Silent
<1> QED BY <1>1, <1>2, <1>3, <1>4 DEF Stays

\* A request that waits is resolved, and its task's log says so.
LEMMA StaysResolved ==
  ASSUME TasksInv, NEW q \in Requests, Stays(q), requests[q].state = "active",
         requests'[q].state = "resolved", requests'[q].task = requests[q].task,
         Silent(log[requests[q].task], log'[requests[q].task], About("created", q)),
         Told(log[requests[q].task], log'[requests[q].task], About("resolved", q))
  PROVE  Stays(q)'
<1>1. Announced(q) /\ ~Has(log[requests[q].task], About("resolved", q))
  BY DEF Stays
<1>2. Announced(q)' /\ HasOnce(log'[requests'[q].task], About("resolved", q))
  BY <1>1 DEF Announced, Silent, Told
<1> QED BY <1>2 DEF Stays

\* Nothing is said of requests, and they stay what they are.
LEMMA SilentStays ==
  ASSUME TasksInv, \A q \in Requests : Stays(q), LogsSilent,
         \A q \in Requests : /\ requests'[q].state = requests[q].state
                             /\ requests'[q].task = requests[q].task
  PROVE  \A q \in Requests : Stays(q)'
BY StaysKept DEF LogsSilent

LEMMA EndingStays ==
  ASSUME TasksInv, \A q \in Requests : Stays(q), NEW ends, MayEnd(ends), EndTasks(ends)
  PROVE  \A q \in Requests : Stays(q)'
<1>1. TaskTypes /\ LogsType /\ RequestTypes /\ RequestsNamed
  BY DEF TasksInv
<1>2. /\ \A t \in Tasks : t \notin DOMAIN ends => log'[t] = log[t]
      /\ requests' = [q \in Requests |-> IF Cleared(ends, q)
                                         THEN [requests[q] EXCEPT !.state = "resolved"]
                                         ELSE requests[q]]
      /\ \A t \in DOMAIN ends : \A q \in Requests :
           /\ Silent(log[t], log'[t], About("created", q))
           /\ IF Cleared(ends, q) /\ requests[q].task = t
              THEN Told(log[t], log'[t], About("resolved", q))
              ELSE Silent(log[t], log'[t], About("resolved", q))
  BY <1>1, EndTasksEffect DEF MayEnd
<1>3. ASSUME NEW q \in Requests PROVE Stays(q)'
  <2>1. requests[q] \in RequestRecords
    BY <1>1 DEF RequestTypes
  <2>2. CASE Cleared(ends, q)
    <3>1. requests'[q] = [requests[q] EXCEPT !.state = "resolved"]
      BY <1>2, <2>2
    <3>2. requests'[q].state = "resolved" /\ requests'[q].task = requests[q].task
      BY <2>1, <3>1 DEF RequestRecords
    <3>3. requests[q].state = "active" /\ requests[q].task \in DOMAIN ends
      BY <2>2 DEF Cleared
    <3> QED BY <1>2, <2>2, <3>2, <3>3, StaysResolved
  <2>3. CASE ~Cleared(ends, q)
    <3>1. requests'[q] = requests[q]
      BY <1>2, <2>3
    <3>2. ASSUME NEW t \in Tasks
          PROVE  /\ Silent(log[t], log'[t], About("created", q))
                 /\ Silent(log[t], log'[t], About("resolved", q))
      BY <1>2, <2>3, SilentOrToldLater
    <3> QED BY <3>1, <3>2, StaysKept
  <2> QED BY <2>2, <2>3
<1> QED BY <1>3

LEMMA ResolvingStays ==
  ASSUME TasksInv, \A q \in Requests : Stays(q),
         NEW p \in Requests, requests[p].state = "active", Known(requests[p].task), Resolve(p)
  PROVE  \A q \in Requests : Stays(q)'
<1> DEFINE t == requests[p].task
<1>1. t \in Tasks /\ log[t] # <<>> /\ LogsType /\ requests \in [Requests -> RequestRecords]
  BY KnownTask DEF TasksInv, RequestsNamed, RequestTypes
<1>2. /\ requests' = [requests EXCEPT ![p] = [@ EXCEPT !.state = "resolved", !.inFlight = Null]]
      /\ log' = [log EXCEPT ![t] = Append(@, About("resolved", p))]
  BY ResolveGoesOn DEF Resolve
<1>3. /\ requests'[p].state = "resolved" /\ requests'[p].task = t
      /\ \A q \in Requests \ {p} : requests'[q] = requests[q]
  BY <1>1, <1>2 DEF RequestRecords
<1>4. About("resolved", p) \in Events /\ About("resolved", p).kind \notin EndStates
  BY EventsAre DEF EventKinds, EndStates
<1> HIDE DEF t
<1>5. /\ \A u \in Tasks \ {t} : log'[u] = log[u]
      /\ Told(log[t], log'[t], About("resolved", p))
      /\ \A e : e # About("resolved", p) => Silent(log[t], log'[t], e)
  BY <1>1, <1>2, <1>4, LogsAppend
<1>6. ASSUME NEW q \in Requests PROVE Stays(q)'
  <2>1. About("created", q) # About("resolved", p)
    BY EventsAre
  <2>2. CASE q = p
    BY <1>3, <1>5, <2>1, <2>2, StaysResolved DEF t
  <2>3. CASE q # p
    <3>1. About("resolved", q) # About("resolved", p)
      BY <2>3, EventsAre
    <3>2. ASSUME NEW u \in Tasks
          PROVE  /\ Silent(log[u], log'[u], About("created", q))
                 /\ Silent(log[u], log'[u], About("resolved", q))
      BY <1>5, <2>1, <3>1, SilentOrToldLater
    <3> QED BY <1>3, <2>3, <3>2, StaysKept
  <2> QED BY <2>2, <2>3
<1> QED BY <1>6

\* What taking a request comes to.
LEMMA TakenAsk ==
  ASSUME NEW n \in Connections, TakeAsk(n)
  PROVE  /\ Asked(n) /\ Unanswered
         /\ \/ AutoResolve(Head(asks[n]), n, FALSE)
            \/ /\ TaskAsked(Head(asks[n]), n) /\ Known(requests[Head(asks[n])].task)
               /\ AutoResolve(Head(asks[n]), n, TRUE)
            \/ /\ TaskAsked(Head(asks[n]), n) /\ Known(requests[Head(asks[n])].task)
               /\ tasks[requests[Head(asks[n])].task].state # "interrupting"
               /\ Create(Head(asks[n]), n)
<1>1. TaskAsked(Head(asks[n]), n) => Known(requests[Head(asks[n])].task)
  BY DEF TaskAsked, IsOn
<1> QED BY <1>1, Zenon DEF TakeAsk

LEMMA DecliningStays ==
  ASSUME TasksInv, \A q \in Requests : Stays(q), NEW p \in Requests, requests[p].state = "asked",
         NEW r \in RequestRecords, requests' = [requests EXCEPT ![p] = r],
         r.task = requests[p].task, r.state = "declined", LogsSilent
  PROVE  \A q \in Requests : Stays(q)'
<1>1. requests'[p] = r /\ \A q \in Requests \ {p} : requests'[q] = requests[q]
  BY DEF TasksInv, RequestTypes
<1>2. Stays(p)'
  <2>1. Untold(p)
    BY DEF Stays
  <2>2. Untold(p)'
    BY <2>1 DEF Untold, LogsSilent, Silent
  <2> QED BY <1>1, <2>2 DEF Stays
<1>3. ASSUME NEW q \in Requests, q # p PROVE Stays(q)'
  BY <1>1, <1>3, StaysKept DEF LogsSilent
<1> QED BY <1>2, <1>3

LEMMA CreatingStays ==
  ASSUME TasksInv, \A q \in Requests : Stays(q), NEW p \in Requests, requests[p].state = "asked",
         NEW t \in Tasks, requests[p].task = t, NEW early \in BOOLEAN,
         NEW r \in RequestRecords, requests' = [requests EXCEPT ![p] = r],
         r.task = t, r.state = IF early THEN "resolved" ELSE "active",
         \A u \in Tasks \ {t} : log'[u] = log[u],
         Told(log[t], log'[t], About("created", p)),
         IF early THEN Told(log[t], log'[t], About("resolved", p))
                  ELSE Silent(log[t], log'[t], About("resolved", p)),
         \A e : e # About("created", p) /\ e # About("resolved", p) =>
              Silent(log[t], log'[t], e)
  PROVE  \A q \in Requests : Stays(q)'
<1>1. requests'[p] = r /\ \A q \in Requests \ {p} : requests'[q] = requests[q]
  BY DEF TasksInv, RequestTypes
<1>2. Stays(p)'
  <2>1. ~Has(log[t], About("created", p)) /\ ~Has(log[t], About("resolved", p))
    BY DEF Stays, Untold
  <2>2. Announced(p)'
    BY <1>1, <2>1 DEF Told, Announced
  <2>3. CASE early
    <3>1. HasOnce(log'[t], About("resolved", p))
      BY <2>1, <2>3 DEF Told
    <3> QED BY <1>1, <2>2, <2>3, <3>1 DEF Stays
  <2>4. CASE ~early
    <3>1. ~Has(log'[t], About("resolved", p))
      BY <2>1, <2>4 DEF Silent
    <3> QED BY <1>1, <2>2, <2>4, <3>1 DEF Stays
  <2> QED BY <2>3, <2>4
<1>3. ASSUME NEW q \in Requests, q # p PROVE Stays(q)'
  <2>1. /\ About("created", q) # About("created", p) /\ About("created", q) # About("resolved", p)
        /\ About("resolved", q) # About("created", p) /\ About("resolved", q) # About("resolved", p)
    BY <1>3, EventsAre
  <2>2. ASSUME NEW u \in Tasks
        PROVE  /\ Silent(log[u], log'[u], About("created", q))
               /\ Silent(log[u], log'[u], About("resolved", q))
    BY <2>1, SilentOrToldLater
  <2> QED BY <1>1, <1>3, <2>2, StaysKept
<1> QED BY <1>2, <1>3

LEMMA TakingStays ==
  ASSUME TasksInv, \A q \in Requests : Stays(q), NEW n \in Connections, TakeAsk(n)
  PROVE  \A q \in Requests : Stays(q)'
<1> DEFINE p == Head(asks[n])
           t == requests[p].task
<1>1. Asked(n) /\ p \in Requests /\ requests[p].state = "asked" /\ t \in Tasks
  BY AskTaken DEF TakeAsk
<1>2. ASSUME NEW warns \in BOOLEAN, warns => Known(t), AutoResolve(p, n, warns)
      PROVE  \A q \in Requests : Stays(q)'
  <2>1. PICK r \in RequestRecords : /\ requests' = [requests EXCEPT ![p] = r]
                                    /\ r.task = t /\ r.state = "declined"
    BY <1>1, <1>2, AutoResolveGoesOn
  <2>2. LogsSilent
    BY <1>1, <1>2, AutoResolveGoesOn DEF TaskGoesOn
  <2> HIDE DEF p
  <2> QED BY <1>1, <2>1, <2>2, DecliningStays
<1>3. ASSUME TaskAsked(p, n), Known(t), Create(p, n)
      PROVE  \A q \in Requests : Stays(q)'
  <2>1. PICK r \in RequestRecords :
              /\ requests' = [requests EXCEPT ![p] = r]
              /\ r.task = t
              /\ r.state = IF p \in backlog[n] THEN "resolved" ELSE "active"
    BY <1>1, <1>3, CreateGoesOn
  <2>2. /\ \A u \in Tasks \ {t} : log'[u] = log[u]
        /\ Told(log[t], log'[t], About("created", p))
        /\ IF p \in backlog[n] THEN Told(log[t], log'[t], About("resolved", p))
                               ELSE Silent(log[t], log'[t], About("resolved", p))
        /\ \A e : e # About("created", p) /\ e # About("resolved", p) =>
              Silent(log[t], log'[t], e)
    BY <1>1, <1>3, CreateTells
  <2> DEFINE early == p \in backlog[n]
  <2>3. early \in BOOLEAN
    OBVIOUS
  <2> HIDE DEF p, t, early
  <2>4. requests[p].task = t
    BY DEF t
  <2> QED BY <1>1, <2>1, <2>2, <2>3, <2>4, CreatingStays DEF early
<1> QED BY <1>2, <1>3, TakenAsk

LEMMA AskingStays ==
  ASSUME TasksInv, \A q \in Requests : Stays(q), NEW t \in Tasks, NEW p \in Requests, CodexAsks(p, t)
  PROVE  \A q \in Requests : Stays(q)'
<1>1. UNCHANGED log
  BY DEF CodexAsks, RestOfAppServer
<1>2. /\ requests'[p].state = "asked" /\ requests[p].state = "none"
      /\ \A q \in Requests \ {p} : requests'[q] = requests[q]
  BY CodexAsksNames
<1>3. LogsSilent
  BY <1>1, LogsKept DEF TasksInv
<1>4. Stays(p)'
  <2>1. Untold(p)
    BY <1>2 DEF Stays
  <2>2. Untold(p)'
    BY <1>1, <2>1 DEF Untold
  <2> QED BY <1>2, <2>2 DEF Stays
<1>5. ASSUME NEW q \in Requests, q # p PROVE Stays(q)'
  BY <1>2, <1>3, <1>5, StaysKept DEF LogsSilent
<1> QED BY <1>4, <1>5

\* A step that the turn, the interrupts and the requests of a task do not notice; the
\* record of a task that has ended may be dropped.
Standing(t) ==
  /\ tasks'[t] = Null <=> tasks[t] = Null
  /\ Known(t) => /\ tasks'[t].turn = tasks[t].turn /\ tasks'[t].state = tasks[t].state
                 /\ tasks'[t].preInterruptState = tasks[t].preInterruptState
CalmFor(t) ==
  /\ Standing(t) \/ (Known(t) /\ Terminal(t) /\ tasks'[t] = Null)
  /\ ActiveRequests(t)' \subseteq ActiveRequests(t)
  /\ Senders(t)' \subseteq Senders(t)
  /\ Early(t)' => Early(t)
  /\ Early(t) /\ Unheard(t) => Unheard(t)'

LEMMA CalmKeeps ==
  ASSUME NEW t \in Tasks, TaskOrder(t), CalmFor(t)
  PROVE  TaskOrder(t)'
<1>1. Starts(t)'
  BY DEF TaskOrder, CalmFor, Starts, Standing, Known
<1>2. Interrupts(t)'
  <2>1. ASSUME Senders(t)' # {} PROVE Senders(t) # {} /\ ~Early(t)' /\ (Known(t) => tasks[t].turn)
    BY <2>1 DEF TaskOrder, CalmFor, Interrupts
  <2>2. ASSUME Live(t)' PROVE Live(t) /\ Standing(t)
    BY <2>2 DEF CalmFor, Standing, Live, Known, Terminal
  <2>3. Senders(t)' # {} => (Known(t)' => tasks'[t].turn)
    BY <2>1 DEF CalmFor, Standing, Known
  <2>4. Live(t)' /\ Senders(t)' # {} => tasks'[t].state = "interrupting"
    BY <2>1, <2>2 DEF TaskOrder, Interrupts, Standing, Live
  <2>5. Live(t)' => \A g, h \in Senders(t)' : g = h
    BY <2>2 DEF TaskOrder, Interrupts, CalmFor
  <2> QED BY <2>1, <2>3, <2>4, <2>5 DEF Interrupts
<1>3. Waits(t)'
  <2>1. ASSUME ActiveRequests(t)' # {}
        PROVE  /\ Known(t)' /\ tasks'[t].turn /\ tasks'[t].state \in {"waiting", "interrupting"}
               /\ tasks'[t].state = "interrupting" => tasks'[t].preInterruptState = "waiting"
    <3>1. ActiveRequests(t) # {}
      BY <2>1 DEF CalmFor
    <3>2. /\ Known(t) /\ tasks[t].turn /\ tasks[t].state \in {"waiting", "interrupting"}
          /\ tasks[t].state = "interrupting" => tasks[t].preInterruptState = "waiting"
      BY <3>1 DEF TaskOrder, Waits
    <3>3. Standing(t)
      BY <3>2 DEF CalmFor, Terminal, EndStates
    <3> QED BY <3>2, <3>3 DEF Standing, Known
  <2> QED BY <2>1 DEF Waits
<1> QED BY <1>1, <1>2, <1>3 DEF TaskOrder

LEMMA CalmStep ==
  ASSUME TasksInv, RequestInv, LogsSilent,
         \A q \in Requests : /\ requests'[q].state = requests[q].state
                             /\ requests'[q].task = requests[q].task,
         \A t \in Tasks : CalmFor(t)
  PROVE  RequestInv'
BY CalmKeeps, SilentStays DEF RequestInv

LEMMA SendersAre ==
  ASSUME NEW t, NEW g
  PROVE  g \in Senders(t) <=>
           \/ g = <<"start", t>> /\ starters[t].pc = "interrupt"
           \/ \E n \in Connections : /\ g = <<"monitor", n>> /\ monitors[n].pc = "interrupt"
                                     /\ monitors[n].task = t
           \/ \E i \in Interrupters : /\ g = <<"call", i>> /\ interrupters[i].pc = "call"
                                      /\ interrupters[i].task = t
BY DEF Senders

LEMMA SendersFewer ==
  ASSUME NEW t \in Tasks,
         starters'[t].pc = "interrupt" => starters[t].pc = "interrupt",
         \A n \in Connections : monitors'[n].pc = "interrupt" /\ monitors'[n].task = t =>
                                  monitors[n].pc = "interrupt" /\ monitors[n].task = t,
         \A i \in Interrupters : interrupters'[i].pc = "call" /\ interrupters'[i].task = t =>
                                   interrupters[i].pc = "call" /\ interrupters[i].task = t
  PROVE  Senders(t)' \subseteq Senders(t)
<1>1. ASSUME NEW g \in Senders(t)' PROVE g \in Senders(t)
  <2>1. \/ g = <<"start", t>> /\ starters'[t].pc = "interrupt"
        \/ \E n \in Connections : /\ g = <<"monitor", n>> /\ monitors'[n].pc = "interrupt"
                                  /\ monitors'[n].task = t
        \/ \E i \in Interrupters : /\ g = <<"call", i>> /\ interrupters'[i].pc = "call"
                                   /\ interrupters'[i].task = t
    BY <1>1 DEF Senders
  <2> QED BY <2>1, SendersAre
<1> QED BY <1>1

\* Steps that leave the goroutines that matter, and what they have heard, alone.
LEMMA GoroutinesCalm ==
  ASSUME NEW t \in Tasks, UNCHANGED <<starters, interrupters, monitors, notes>>
  PROVE  Senders(t)' \subseteq Senders(t) /\ (Early(t)' => Early(t)) /\ (Unheard(t) => Unheard(t)')
BY SendersFewer DEF Early, Unheard

LEMMA RequestsCalm ==
  ASSUME NEW t, \A q \in Requests : /\ requests'[q].state = requests[q].state
                                    /\ requests'[q].task = requests[q].task
  PROVE  ActiveRequests(t)' = ActiveRequests(t)
BY DEF ActiveRequests

LEMMA StandingTask ==
  ASSUME TasksInv, NEW t \in Tasks, Known(t), NEW r \in TaskRecords,
         tasks' = [tasks EXCEPT ![t] = r], r.turn = tasks[t].turn, r.state = tasks[t].state,
         r.preInterruptState = tasks[t].preInterruptState
  PROVE  \A u \in Tasks : Standing(u)
<1>1. /\ \A u \in Tasks : tasks[u] = Null <=> tasks'[u] = Null
      /\ tasks'[t] = r /\ \A u \in Tasks \ {t} : tasks'[u] = tasks[u]
  BY TaskChanges DEF TasksInv
<1> QED BY <1>1 DEF Standing

LEMMA StandingAll ==
  ASSUME UNCHANGED tasks
  PROVE  \A u \in Tasks : Standing(u)
BY DEF Standing

\* A step of a start that confirms and interrupts no turn.
LEMMA StartCalm ==
  ASSUME TasksInv, RequestInv, LogsSilent, RestOfStart, UNCHANGED <<requests, notes>>,
         NEW t \in Tasks, starters'[t].pc # "interrupt", Early(t)' => Early(t),
         \A u \in Tasks \ {t} : starters'[u] = starters[u],
         \A n \in Connections : /\ monitors'[n].task = monitors[n].task
                                /\ monitors'[n].pc = "interrupt" => monitors[n].pc = "interrupt",
         \A u \in Tasks : Standing(u)
  PROVE  RequestInv'
<1>1. ASSUME NEW u \in Tasks PROVE CalmFor(u)
  <2>1. starters'[u].pc = "interrupt" => starters[u].pc = "interrupt"
    BY <1>1
  <2>2. Senders(u)' \subseteq Senders(u)
    BY <2>1, SendersFewer DEF RestOfStart
  <2>3. ActiveRequests(u)' = ActiveRequests(u)
    BY RequestsCalm
  <2>4. Early(u)' => Early(u)
    BY DEF Early
  <2>5. Unheard(u) => Unheard(u)'
    BY DEF Unheard
  <2> QED BY <2>2, <2>3, <2>4, <2>5 DEF CalmFor
<1> QED BY <1>1, CalmStep

LEMMA BeginStartOrders ==
  ASSUME TasksInv, RequestInv, NEW t \in Tasks, BeginStart(t)
  PROVE  RequestInv'
<1>1. PICK to \in {"fail", "pre_turn", "connect"} : Step(t, "begin", to)
  BY DEF BeginStart
<1>2. /\ starters[t].pc = "begin" /\ starters'[t].pc = to
      /\ \A u \in Tasks \ {t} : starters'[u] = starters[u]
  BY <1>1, StepMoves DEF TasksInv, GoroutineTypes, StarterLabels
<1>3. Early(t)' => Early(t)
  BY <1>2 DEF Early
<1>4. \A u \in Tasks : Standing(u)
  <2>1. CASE UNCHANGED tasks
    BY <2>1, StandingAll
  <2>2. CASE tasks' = [tasks EXCEPT ![t].connectionCancel = "set"]
    <3>1. Known(t) /\ tasks[t] \in TaskRecords
      BY <1>2, KnownTask
    <3> DEFINE r == [tasks[t] EXCEPT !.connectionCancel = "set"]
    <3>2. /\ r \in TaskRecords /\ r.turn = tasks[t].turn /\ r.state = tasks[t].state
          /\ r.preInterruptState = tasks[t].preInterruptState
      BY <3>1 DEF TaskRecords
    <3>3. tasks' = [tasks EXCEPT ![t] = r]
      BY <2>2
    <3> HIDE DEF r
    <3> QED BY <3>1, <3>2, <3>3, StandingTask
  <2> QED BY <2>1, <2>2 DEF BeginStart
<1>5. UNCHANGED <<requests, notes, monitors, log>> /\ RestOfStart
  BY DEF BeginStart, appServer
<1>6. LogsSilent
  BY <1>5, LogsKept DEF TasksInv
<1> QED BY <1>2, <1>3, <1>4, <1>5, <1>6, StartCalm

LEMMA ConnectOrders ==
  ASSUME TasksInv, RequestInv, NEW t \in Tasks, Connect(t)
  PROVE  RequestInv'
<1>1. /\ starters[t].pc = "connect" /\ starters'[t].pc \in {"monitor", "pre_turn", "fail"}
      /\ \A u \in Tasks \ {t} : starters'[u] = starters[u]
  BY DEF Connect, Step, TasksInv, GoroutineTypes, StarterRecords
<1>2. Early(t)' => Early(t)
  BY <1>1 DEF Early
<1>3. Known(t) /\ tasks[t] \in TaskRecords
  BY <1>1, KnownTask
<1>4. \A u \in Tasks : Standing(u)
  <2> DEFINE r == [tasks[t] EXCEPT !.connectionCancel = "none"]
  <2>1. /\ r \in TaskRecords /\ r.turn = tasks[t].turn /\ r.state = tasks[t].state
        /\ r.preInterruptState = tasks[t].preInterruptState
    BY <1>3 DEF TaskRecords
  <2>2. tasks' = [tasks EXCEPT ![t] = r]
    BY DEF Connect
  <2> HIDE DEF r
  <2> QED BY <1>3, <2>1, <2>2, StandingTask
<1>5. UNCHANGED <<requests, notes, monitors, log>> /\ RestOfStart
  BY DEF Connect
<1>6. LogsSilent
  BY <1>5, LogsKept DEF TasksInv
<1> QED BY <1>1, <1>2, <1>4, <1>5, <1>6, StartCalm

LEMMA EnsureMonitorOrders ==
  ASSUME TasksInv, RequestInv, NEW t \in Tasks, EnsureMonitor(t)
  PROVE  RequestInv'
<1>1. /\ starters[t].pc = "monitor" /\ starters'[t].pc = "attach"
      /\ \A u \in Tasks \ {t} : starters'[u] = starters[u]
  BY StepMoves DEF EnsureMonitor, TasksInv, GoroutineTypes, StarterLabels
<1>2. Early(t)' => Early(t)
  BY <1>1 DEF Early
<1>3. UNCHANGED <<requests, notes, log, tasks>> /\ RestOfStart
  BY DEF EnsureMonitor, registry, appServer
<1>4. \A n \in Connections : /\ monitors'[n].task = monitors[n].task
                             /\ monitors'[n].pc = "interrupt" => monitors[n].pc = "interrupt"
  BY DEF EnsureMonitor, TasksInv, GoroutineTypes, MonitorRecords
<1>5. LogsSilent /\ \A u \in Tasks : Standing(u)
  BY <1>3, LogsKept, StandingAll DEF TasksInv
<1> QED BY <1>1, <1>2, <1>3, <1>4, <1>5, StartCalm

LEMMA SetTaskConnectionOrders ==
  ASSUME TasksInv, RequestInv, NEW t \in Tasks, SetTaskConnection(t)
  PROVE  RequestInv'
<1>1. /\ starters[t].pc = "attach" /\ starters'[t].pc \in {"pre_turn", "threading"}
      /\ \A u \in Tasks \ {t} : starters'[u] = starters[u]
  BY DEF SetTaskConnection, Step, TasksInv, GoroutineTypes, StarterRecords
<1>2. Early(t)' => Early(t)
  BY <1>1 DEF Early
<1>3. Known(t) /\ tasks[t] \in TaskRecords
  BY <1>1, KnownTask
<1>4. \A u \in Tasks : Standing(u)
  <2> DEFINE r == [tasks[t] EXCEPT !.connection = Of(t)]
  <2>1. /\ r \in TaskRecords /\ r.turn = tasks[t].turn /\ r.state = tasks[t].state
        /\ r.preInterruptState = tasks[t].preInterruptState
    BY <1>3 DEF TaskRecords, Of, StarterRecords, TasksInv, GoroutineTypes
  <2>2. tasks' = [tasks EXCEPT ![t] = r]
    BY DEF SetTaskConnection
  <2> HIDE DEF r
  <2> QED BY <1>3, <2>1, <2>2, StandingTask
<1>5. UNCHANGED <<requests, notes, monitors, log>> /\ RestOfStart
  BY DEF SetTaskConnection, appServer
<1>6. LogsSilent
  BY <1>5, LogsKept DEF TasksInv
<1> QED BY <1>1, <1>2, <1>4, <1>5, <1>6, StartCalm

\* The steps of a start that change nothing but where it is, and the link.
LEMMA MovingOrders ==
  ASSUME TasksInv, RequestInv, NEW t \in Tasks, NEW from, NEW to \in StarterLabels \ {"none"},
         Step(t, from, to), to # "interrupt",
         to \in {"bind", "turning", "pre_turn", "fail", "confirm", "done"},
         to \in {"bind", "pre_turn"} => from \in {"threading", "before_turn"},
         UNCHANGED <<registry, monitors, notes>>, RestOfStart
  PROVE  RequestInv'
<1>1. /\ starters[t].pc = from /\ starters'[t].pc = to
      /\ \A u \in Tasks \ {t} : starters'[u] = starters[u]
  BY StepMoves DEF TasksInv, GoroutineTypes
<1>2. Early(t)' => Early(t)
  BY <1>1 DEF Early
<1>3. UNCHANGED <<requests, notes, log, tasks, monitors>>
  BY DEF registry
<1>4. LogsSilent /\ \A u \in Tasks : Standing(u)
  BY <1>3, LogsKept, StandingAll DEF TasksInv
<1> QED BY <1>1, <1>2, <1>3, <1>4, StartCalm

LEMMA ThreadReturnsOrders ==
  ASSUME TasksInv, RequestInv, NEW t \in Tasks, ThreadReturns(t)
  PROVE  RequestInv'
<1>1. PICK to \in {"bind", "fail"} : Step(t, "threading", to)
  BY DEF ThreadReturns
<1>2. UNCHANGED <<registry, monitors, notes>> /\ RestOfStart
  BY DEF ThreadReturns
<1> QED BY <1>1, <1>2, MovingOrders DEF StarterLabels

LEMMA BeforeTurnOrders ==
  ASSUME TasksInv, RequestInv, NEW t \in Tasks, BeforeTurn(t)
  PROVE  RequestInv'
<1>1. PICK to \in {"pre_turn", "turning"} : Step(t, "before_turn", to)
  BY DEF BeforeTurn
<1>2. UNCHANGED <<registry, monitors, notes>> /\ RestOfStart
  BY DEF BeforeTurn, appServer
<1> QED BY <1>1, <1>2, MovingOrders DEF StarterLabels

LEMMA TurnReturnsOrders ==
  ASSUME TasksInv, RequestInv, NEW t \in Tasks, TurnReturns(t)
  PROVE  RequestInv'
<1>1. PICK to \in {"confirm", "fail"} : Step(t, "turning", to)
  BY DEF TurnReturns
<1>2. UNCHANGED <<registry, monitors, notes>> /\ RestOfStart
  BY DEF TurnReturns
<1> QED BY <1>1, <1>2, MovingOrders DEF StarterLabels

LEMMA ConfirmThreadStands ==
  ASSUME TasksInv, NEW t \in Tasks, Known(t), ConfirmThreadStarted(t)
  PROVE  \A u \in Tasks : Standing(u)
<1>1. CASE UNCHANGED tasks
  BY <1>1, StandingAll
<1>2. CASE tasks' = [tasks EXCEPT ![t].thread = TRUE]
  <2> DEFINE r == [tasks[t] EXCEPT !.thread = TRUE]
  <2>1. /\ r \in TaskRecords /\ r.turn = tasks[t].turn /\ r.state = tasks[t].state
        /\ r.preInterruptState = tasks[t].preInterruptState
    BY KnownTask DEF TaskRecords
  <2>2. tasks' = [tasks EXCEPT ![t] = r]
    BY <1>2
  <2> HIDE DEF r
  <2> QED BY <2>1, <2>2, StandingTask
<1> QED BY <1>1, <1>2 DEF ConfirmThreadStarted

LEMMA BindThreadOrders ==
  ASSUME TasksInv, RequestInv, NEW t \in Tasks, BindThread(t)
  PROVE  RequestInv'
<1>1. /\ starters[t].pc = "bind" /\ starters'[t].pc = "before_turn"
      /\ \A u \in Tasks \ {t} : starters'[u] = starters[u]
  BY StepMoves DEF BindThread, TasksInv, GoroutineTypes, StarterLabels
<1>2. Early(t)' => Early(t)
  BY <1>1 DEF Early
<1>3. Known(t) /\ ConfirmThreadStarted(t)
  BY <1>1, KnownTask DEF BindThread
<1>4. LogsSilent /\ \A u \in Tasks : Standing(u)
  BY <1>3, ConfirmThreadGoesOn, ConfirmThreadStands DEF TaskGoesOn
<1>5. UNCHANGED <<requests, notes, monitors>> /\ RestOfStart
  BY DEF BindThread, appServer
<1> QED BY <1>1, <1>2, <1>4, <1>5, StartCalm

LEMMA CompleteStartSuccessStands ==
  ASSUME TasksInv, NEW t \in Tasks, Known(t), CompleteStartSuccess(t)
  PROVE  \A u \in Tasks : Standing(u)
<1>1. CASE UNCHANGED tasks
  BY <1>1, StandingAll
<1>2. CASE tasks' = [tasks EXCEPT ![t].deferred = FALSE]
  <2> DEFINE r == [tasks[t] EXCEPT !.deferred = FALSE]
  <2>1. /\ r \in TaskRecords /\ r.turn = tasks[t].turn /\ r.state = tasks[t].state
        /\ r.preInterruptState = tasks[t].preInterruptState
    BY KnownTask DEF TaskRecords
  <2>2. tasks' = [tasks EXCEPT ![t] = r]
    BY <1>2
  <2> HIDE DEF r
  <2> QED BY <2>1, <2>2, StandingTask
<1> QED BY <1>1, <1>2 DEF CompleteStartSuccess, registry

LEMMA CompleteStartSuccessOrders ==
  ASSUME TasksInv, RequestInv, NEW t \in Tasks, CompleteStartSuccess(t)
  PROVE  RequestInv'
<1>1. Step(t, "succeed", "done") /\ UNCHANGED <<monitors, appServer>> /\ RestOfStart
  BY DEF CompleteStartSuccess
<1>2. /\ starters[t].pc = "succeed" /\ starters'[t].pc = "done" /\ Known(t)
      /\ \A u \in Tasks \ {t} : starters'[u] = starters[u]
  BY <1>1, StartEnds DEF StarterLabels
<1>3. Early(t)' => Early(t)
  BY <1>2 DEF Early
<1>4. UNCHANGED <<requests, notes, monitors>> /\ LogsSilent
  BY <1>1, CompleteStartSuccessGoesOn DEF TaskGoesOn, appServer
<1>5. \A u \in Tasks : Standing(u)
  BY <1>2, CompleteStartSuccessStands
<1> QED BY <1>1, <1>2, <1>3, <1>4, <1>5, StartCalm

\* Tasks come to their ends: with the requests that wait, or when none does.
LEMMA EndingOrders ==
  ASSUME TasksInv, RequestInv, NEW ends, MayEnd(ends), EndTasks(ends),
         \A t \in DOMAIN ends : ends[t].clears \/ ActiveRequests(t) = {},
         \A u \in Tasks : /\ Senders(u)' \subseteq Senders(u)
                          /\ Early(u)' => Early(u)
                          /\ Early(u) /\ Unheard(u) => Unheard(u)'
  PROVE  RequestInv'
<1>1. /\ DOMAIN ends \subseteq Tasks
      /\ \A t \in Tasks : t \notin DOMAIN ends => tasks'[t] = tasks[t]
      /\ \A t \in DOMAIN ends : /\ tasks'[t] # Null /\ tasks'[t].state \in EndStates
                                /\ tasks'[t].turn = tasks[t].turn /\ Known(t)
      /\ \A q \in Requests : requests'[q] = IF Cleared(ends, q)
                                            THEN [requests[q] EXCEPT !.state = "resolved"]
                                            ELSE requests[q]
  BY EndTasksEffect DEF MayEnd, TasksInv
<1>2. \A q \in Requests : requests'[q].state = "active" =>
        /\ requests'[q].task = requests[q].task /\ requests[q].state = "active"
        /\ ~Cleared(ends, q)
  <2>1. ASSUME NEW q \in Requests, Cleared(ends, q) PROVE requests'[q].state = "resolved"
    BY <1>1, <2>1 DEF TasksInv, RequestTypes, RequestRecords
  <2> QED BY <1>1, <2>1
<1>3. ASSUME NEW u \in Tasks PROVE ActiveRequests(u)' \subseteq ActiveRequests(u)
  BY <1>2 DEF ActiveRequests
<1>4. ASSUME NEW u \in Tasks PROVE TaskOrder(u)'
  <2>1. CASE u \notin DOMAIN ends
    <3>1. Standing(u)
      BY <1>1, <2>1 DEF Standing
    <3>2. CalmFor(u)
      BY <1>3, <3>1 DEF CalmFor
    <3> QED BY <3>2, CalmKeeps DEF RequestInv
  <2>2. CASE u \in DOMAIN ends
    <3>1. ActiveRequests(u)' = {}
      <4>1. ASSUME NEW q \in ActiveRequests(u)' PROVE FALSE
        <5>1. q \in Requests /\ requests'[q].state = "active" /\ requests'[q].task = u
          BY <4>1 DEF ActiveRequests
        <5>2. requests[q].task = u /\ requests[q].state = "active" /\ ~Cleared(ends, q)
          BY <1>2, <5>1
        <5>3. q \in ActiveRequests(u)
          BY <5>1, <5>2 DEF ActiveRequests
        <5> QED BY <2>2, <5>2, <5>3 DEF Cleared
      <4> QED BY <4>1
    <3>2. Known(u) /\ tasks'[u].turn = tasks[u].turn /\ ~Live(u)'
      BY <1>1, <2>2 DEF Live, Terminal
    <3>3. Starts(u)'
      BY <3>2 DEF RequestInv, TaskOrder, Starts, Known
    <3>4. Interrupts(u)'
      <4>1. ASSUME Senders(u)' # {} PROVE ~Early(u)' /\ tasks'[u].turn
        <5>1. Senders(u) # {}
          BY <4>1
        <5> QED BY <3>2, <5>1 DEF RequestInv, TaskOrder, Interrupts
      <4> QED BY <3>2, <4>1 DEF Interrupts
    <3>5. Waits(u)'
      BY <3>1 DEF Waits
    <3> QED BY <3>3, <3>4, <3>5 DEF TaskOrder
  <2> QED BY <2>1, <2>2
<1>5. \A q \in Requests : Stays(q)'
  BY EndingStays DEF RequestInv
<1> QED BY <1>4, <1>5 DEF RequestInv

\* A task whose turn is not known has no request that waits.
LEMMA NoTurnNothingWaits ==
  ASSUME RequestInv, NEW t \in Tasks, Early(t) \/ ~Known(t) \/ ~tasks[t].turn
  PROVE  ActiveRequests(t) = {}
<1>1. TaskOrder(t)
  BY DEF RequestInv
<1> QED BY <1>1 DEF TaskOrder, Starts, Waits

\* What a start that comes to its end means to the interrupts.
LEMMA StartEndsCalm ==
  ASSUME TasksInv, NEW t \in Tasks, NEW from \in StarterLabels \ {"none", "done"},
         Step(t, from, "done"), UNCHANGED <<monitors, appServer>>, RestOfStart
  PROVE  \A u \in Tasks : /\ Senders(u)' \subseteq Senders(u)
                          /\ Early(u)' => Early(u)
                          /\ Early(u) /\ Unheard(u) => Unheard(u)'
<1>1. starters'[t].pc = "done" /\ \A u \in Tasks \ {t} : starters'[u] = starters[u]
  BY StartEnds
<1>2. UNCHANGED <<interrupters, monitors, notes>>
  BY DEF RestOfStart, appServer
<1>3. ASSUME NEW u \in Tasks
      PROVE  /\ Senders(u)' \subseteq Senders(u)
             /\ Early(u)' => Early(u)
             /\ Unheard(u) => Unheard(u)'
  <2>1. starters'[u].pc = "interrupt" => starters[u].pc = "interrupt"
    BY <1>1
  <2>2. Senders(u)' \subseteq Senders(u)
    BY <1>2, <2>1, SendersFewer
  <2> QED BY <1>1, <1>2, <2>2 DEF Early, Unheard
<1> QED BY <1>3

LEMMA CompleteStartFailureOrders ==
  ASSUME TasksInv, RequestInv, NEW t \in Tasks, CompleteStartFailure(t)
  PROVE  RequestInv'
<1>1. Step(t, "fail", "done") /\ UNCHANGED <<monitors, appServer>> /\ RestOfStart
  BY DEF CompleteStartFailure
<1>2. /\ starters[t].pc = "fail" /\ starters'[t].pc = "done" /\ Known(t)
      /\ \A u \in Tasks \ {t} : starters'[u] = starters[u]
  BY <1>1, StartEnds DEF StarterLabels
<1>3. \A u \in Tasks : /\ Senders(u)' \subseteq Senders(u)
                       /\ Early(u)' => Early(u)
                       /\ Early(u) /\ Unheard(u) => Unheard(u)'
  BY <1>1, StartEndsCalm DEF StarterLabels
<1>4. CASE UNCHANGED <<tasks, log, requests>>
  <2>1. Early(t)' => Early(t)
    BY <1>3
  <2>2. UNCHANGED <<notes, monitors>>
    BY <1>1 DEF appServer
  <2>3. LogsSilent /\ \A u \in Tasks : Standing(u)
    BY <1>4, LogsKept, StandingAll DEF TasksInv
  <2> QED BY <1>1, <1>2, <1>4, <2>1, <2>2, <2>3, StartCalm
<1>5. CASE entries[t] = "pending" /\ MustInterrupt(t) /\ PreTurnInterrupt(t)
  <2>1. PICK ends : MayEnd(ends) /\ DOMAIN ends = {t} /\ EndTasks(ends)
    BY <1>2, <1>5, PreTurnInterruptEnds
  <2>2. ActiveRequests(t) = {}
    BY <1>5, NoTurnNothingWaits DEF MustInterrupt
  <2> QED BY <1>3, <2>1, <2>2, EndingOrders
<1>6. CASE EndTask(t, "failed", <<>>)
  <2>1. "failed" \in EndStates /\ <<>> \in Seq(Events)
    BY DEF EndStates
  <2>2. PICK ends : MayEnd(ends) /\ DOMAIN ends = {t} /\ EndTasks(ends) /\ ends[t].clears
    BY <1>2, <1>6, <2>1, NothingFirst, EndTaskEnds
  <2> QED BY <1>3, <2>2, EndingOrders
<1> QED BY <1>4, <1>5, <1>6 DEF CompleteStartFailure, registry

LEMMA CompletePreTurnInterruptOrders ==
  ASSUME TasksInv, RequestInv, NEW t \in Tasks, CompletePreTurnInterrupt(t)
  PROVE  RequestInv'
<1>1. Step(t, "pre_turn", "done") /\ UNCHANGED <<monitors, appServer>> /\ RestOfStart
  BY DEF CompletePreTurnInterrupt
<1>2. /\ starters[t].pc = "pre_turn" /\ starters'[t].pc = "done" /\ Known(t)
      /\ \A u \in Tasks \ {t} : starters'[u] = starters[u]
  BY <1>1, StartEnds DEF StarterLabels
<1>3. \A u \in Tasks : /\ Senders(u)' \subseteq Senders(u)
                       /\ Early(u)' => Early(u)
                       /\ Early(u) /\ Unheard(u) => Unheard(u)'
  BY <1>1, StartEndsCalm DEF StarterLabels
<1>4. CASE UNCHANGED registry
  <2>1. Early(t)' => Early(t)
    BY <1>3
  <2>2. UNCHANGED <<notes, monitors, tasks, log, requests>>
    BY <1>1, <1>4 DEF appServer, registry
  <2>3. LogsSilent /\ \A u \in Tasks : Standing(u)
    BY <2>2, LogsKept, StandingAll DEF TasksInv
  <2> QED BY <1>1, <1>2, <2>1, <2>2, <2>3, StartCalm
<1>5. CASE entries[t] = "pending" /\ PreTurnInterrupt(t)
  <2>1. PICK ends : MayEnd(ends) /\ DOMAIN ends = {t} /\ EndTasks(ends)
    BY <1>2, <1>5, PreTurnInterruptEnds
  <2>2. ActiveRequests(t) = {}
    BY <1>2, NoTurnNothingWaits DEF Early
  <2> QED BY <1>3, <2>1, <2>2, EndingOrders
<1> QED BY <1>4, <1>5 DEF CompletePreTurnInterrupt

\* One more may be about to interrupt the turn of a task.
LEMMA SendersMore ==
  ASSUME NEW t \in Tasks, NEW g,
         starters'[t].pc = "interrupt" => starters[t].pc = "interrupt" \/ g = <<"start", t>>,
         \A n \in Connections : monitors'[n].pc = "interrupt" /\ monitors'[n].task = t =>
           (monitors[n].pc = "interrupt" /\ monitors[n].task = t) \/ g = <<"monitor", n>>,
         \A i \in Interrupters : interrupters'[i].pc = "call" /\ interrupters'[i].task = t =>
           (interrupters[i].pc = "call" /\ interrupters[i].task = t) \/ g = <<"call", i>>
  PROVE  Senders(t)' \subseteq Senders(t) \cup {g}
<1>1. ASSUME NEW h \in Senders(t)' PROVE h \in Senders(t) \/ h = g
  <2>1. \/ h = <<"start", t>> /\ starters'[t].pc = "interrupt"
        \/ \E n \in Connections : /\ h = <<"monitor", n>> /\ monitors'[n].pc = "interrupt"
                                  /\ monitors'[n].task = t
        \/ \E i \in Interrupters : /\ h = <<"call", i>> /\ interrupters'[i].pc = "call"
                                   /\ interrupters'[i].task = t
    BY <1>1 DEF Senders
  <2> QED BY <2>1, SendersAre
<1> QED BY <1>1

LEMMA ConfirmingOrders ==
  ASSUME TasksInv, NEW t \in Tasks, TaskOrder(t), Known(t), ConfirmTurnStartedOnce(t),
         ~Early(t), ~Early(t)', UNCHANGED requests,
         NEW g, Senders(t)' \subseteq Senders(t) \cup {g},
         ~MustInterrupt(t) => Senders(t)' \subseteq Senders(t)
  PROVE  TaskOrder(t)'
<1>1. ActiveRequests(t)' = ActiveRequests(t) /\ tasks \in [Tasks -> TaskRecords \cup {Null}]
  BY RequestsCalm DEF TasksInv, TaskTypes
<1>2. CASE tasks[t].turn /\ UNCHANGED tasks
  <2>1. Senders(t)' \subseteq Senders(t)
    BY <1>2 DEF MustInterrupt
  <2>2. Standing(t)
    BY <1>2 DEF Standing
  <2> QED BY <1>1, <2>1, <2>2, CalmKeeps DEF CalmFor
<1>3. ~tasks[t].turn => ActiveRequests(t)' = {} /\ Senders(t) = {}
  BY <1>1 DEF TaskOrder, Interrupts, Waits
<1>4. CASE /\ MustInterrupt(t)
           /\ tasks' = [tasks EXCEPT ![t].turn = TRUE, ![t].state = "interrupting",
                                     ![t].preInterruptState = "running"]
  <2>1. tasks'[t].turn /\ tasks'[t].state = "interrupting"
    BY <1>1, <1>4, KnownTask DEF TaskRecords
  <2>2. ActiveRequests(t)' = {} /\ Senders(t)' \subseteq {g}
    BY <1>3, <1>4 DEF MustInterrupt
  <2> QED BY <2>1, <2>2 DEF TaskOrder, Starts, Interrupts, Waits
<1>5. CASE /\ ~tasks[t].turn /\ ~tasks[t].cancelBeforeTurn
           /\ tasks' = [tasks EXCEPT ![t].turn = TRUE, ![t].state = "running"]
  <2>1. tasks'[t].turn
    BY <1>1, <1>5, KnownTask DEF TaskRecords
  <2>2. ActiveRequests(t)' = {} /\ Senders(t)' = {}
    BY <1>3, <1>5 DEF MustInterrupt
  <2> QED BY <2>1, <2>2 DEF TaskOrder, Starts, Interrupts, Waits
<1> QED BY <1>2, <1>4, <1>5 DEF ConfirmTurnStartedOnce

\* Other tasks do not notice.
LEMMA ConfirmOthers ==
  ASSUME TasksInv, NEW t \in Tasks, Known(t), ConfirmTurnStartedOnce(t), NEW u \in Tasks, u # t
  PROVE  Standing(u)
<1>1. tasks'[u] = tasks[u]
  BY DEF ConfirmTurnStartedOnce, TasksInv, TaskTypes
<1> QED BY <1>1 DEF Standing

LEMMA ConfirmTurnOrders ==
  ASSUME TasksInv, RequestInv, NEW t \in Tasks, ConfirmTurn(t)
  PROVE  RequestInv'
<1>1. /\ starters[t].pc = "confirm"
      /\ starters'[t].pc = IF MustInterrupt(t) THEN "interrupt" ELSE "succeed"
      /\ \A u \in Tasks \ {t} : starters'[u] = starters[u]
  BY DEF ConfirmTurn, Step, TasksInv, GoroutineTypes, StarterRecords
<1>2. /\ UNCHANGED <<requests, monitors, notes, interrupters>> /\ ConfirmTurnStartedOnce(t)
  BY DEF ConfirmTurn, RestOfStart, appServer
<1>3. Known(t) /\ ~Early(t) /\ ~Early(t)'
  BY <1>1, KnownTask DEF Early
<1>4. Senders(t)' \subseteq Senders(t) \cup {<<"start", t>>}
  BY <1>2, SendersMore
<1>5. ~MustInterrupt(t) => Senders(t)' \subseteq Senders(t)
  <2>1. ~MustInterrupt(t) => starters'[t].pc # "interrupt"
    BY <1>1
  <2> QED BY <1>2, <2>1, SendersFewer
<1>6. TaskOrder(t)'
  <2> DEFINE g == <<"start", t>>
  <2> HIDE DEF g
  <2>1. Senders(t)' \subseteq Senders(t) \cup {g}
    BY <1>4 DEF g
  <2> QED BY <1>2, <1>3, <1>5, <2>1, ConfirmingOrders DEF RequestInv
<1>7. ASSUME NEW u \in Tasks, u # t PROVE TaskOrder(u)'
  <2>1. Standing(u)
    BY <1>2, <1>3, <1>7, ConfirmOthers
  <2>2. starters'[u] = starters[u]
    BY <1>1, <1>7
  <2>3. Senders(u)' \subseteq Senders(u)
    BY <1>2, <2>2, SendersFewer
  <2>4. (Early(u)' => Early(u)) /\ (Unheard(u) => Unheard(u)')
    BY <1>2, <2>2 DEF Early, Unheard
  <2> QED BY <1>2, <2>1, <2>3, <2>4, RequestsCalm, CalmKeeps DEF CalmFor, RequestInv
<1>8. \A q \in Requests : Stays(q)'
  BY <1>2, <1>3, ConfirmTurnGoesOn, SilentStays DEF TaskGoesOn, RequestInv
<1> QED BY <1>6, <1>7, <1>8 DEF RequestInv

\* Who has asked for an interrupt is done, whatever became of it.
LEMMA LeavingOrders ==
  ASSUME TasksInv, NEW t \in Tasks, TaskOrder(t), NEW n, InterruptTurn(t, n),
         NEW g \in Senders(t), Senders(t)' \subseteq Senders(t) \ {g}, Early(t)' => Early(t)
  PROVE  TaskOrder(t)'
<1>1. ~Early(t) /\ (Known(t) => tasks[t].turn) /\ (Live(t) => tasks[t].state = "interrupting")
  BY DEF TaskOrder, Interrupts
<1>2. ActiveRequests(t)' = ActiveRequests(t)
  BY RequestsCalm DEF InterruptTurn
<1>3. CASE UNCHANGED tasks
  <2>1. Standing(t)
    BY <1>3 DEF Standing
  <2> QED BY <1>1, <1>2, <2>1, CalmKeeps DEF CalmFor
<1>4. CASE /\ Live(t)
           /\ tasks' = [tasks EXCEPT ![t].preInterruptState = Null,
                ![t].state = IF tasks[t].preInterruptState \in {Null, "interrupting"} THEN "running"
                                                              ELSE tasks[t].preInterruptState]
  <2>1. Known(t) /\ tasks[t] \in TaskRecords /\ tasks \in [Tasks -> TaskRecords \cup {Null}]
    BY <1>4, KnownTask DEF Live, TasksInv, TaskTypes
  <2>2. /\ tasks'[t].turn = tasks[t].turn
        /\ tasks'[t].state = IF tasks[t].preInterruptState \in {Null, "interrupting"} THEN "running"
                                                            ELSE tasks[t].preInterruptState
    BY <1>4, <2>1 DEF TaskRecords
  <2>3. Senders(t)' = {}
    BY <1>4 DEF TaskOrder, Interrupts
  <2>4. ActiveRequests(t) # {} => tasks[t].preInterruptState = "waiting"
    BY <1>1, <1>4 DEF TaskOrder, Waits
  <2>5. tasks'[t] # Null
    <3> DEFINE r == [tasks[t] EXCEPT !.preInterruptState = Null,
                !.state = IF tasks[t].preInterruptState \in {Null, "interrupting"} THEN "running"
                                                              ELSE tasks[t].preInterruptState]
    <3>1. tasks'[t] = r
      BY <1>4, <2>1
    <3>2. r \in TaskRecords
      BY <2>1 DEF TaskRecords, States
    <3> HIDE DEF r
    <3> QED BY <3>1, <3>2, NullIsNothing
  <2>6. ActiveRequests(t)' # {} => tasks'[t].state = "waiting"
    BY <1>2, <2>2, <2>4, NullIsNothing DEF States
  <2>7. Starts(t)' /\ Interrupts(t)'
    BY <1>1, <2>1, <2>2, <2>3 DEF Starts, Interrupts
  <2>8. Waits(t)'
    BY <1>1, <2>1, <2>2, <2>5, <2>6 DEF Waits, Known
  <2> QED BY <2>7, <2>8 DEF TaskOrder
<1> QED BY <1>3, <1>4 DEF InterruptTurn, RollbackInterrupt

LEMMA InterruptOthers ==
  ASSUME TasksInv, NEW t, NEW n, InterruptTurn(t, n), NEW u \in Tasks, u # t
  PROVE  Standing(u)
<1>1. tasks'[u] = tasks[u]
  BY DEF InterruptTurn, RollbackInterrupt, TasksInv, TaskTypes
<1> QED BY <1>1 DEF Standing

LEMMA SendInterruptOrders ==
  ASSUME TasksInv, RequestInv, NEW t \in Tasks, SendInterrupt(t)
  PROVE  RequestInv'
<1>1. /\ starters[t].pc = "interrupt" /\ starters'[t].pc = "succeed"
      /\ \A u \in Tasks \ {t} : starters'[u] = starters[u]
  BY StepMoves DEF SendInterrupt, TasksInv, GoroutineTypes, StarterLabels
<1>2. /\ UNCHANGED <<monitors, interrupters, requests, notes>> /\ InterruptTurn(t, Of(t))
  BY DEF SendInterrupt, RestOfStart, InterruptTurn
<1>3. Early(t)' => Early(t)
  BY <1>1 DEF Early
<1>4. <<"start", t>> \in Senders(t) /\ Senders(t)' \subseteq Senders(t) \ {<<"start", t>>}
  <2>1. <<"start", t>> \in Senders(t)
    BY <1>1, SendersAre
  <2>2. <<"start", t>> \notin Senders(t)'
    BY <1>1 DEF Senders
  <2>3. Senders(t)' \subseteq Senders(t)
    BY <1>1, <1>2, SendersFewer
  <2> QED BY <2>1, <2>2, <2>3
<1>5. TaskOrder(t)'
  <2> DEFINE g == <<"start", t>>
             n == Of(t)
  <2> HIDE DEF g, n
  <2>1. g \in Senders(t) /\ Senders(t)' \subseteq Senders(t) \ {g}
    BY <1>4 DEF g
  <2>2. InterruptTurn(t, n)
    BY <1>2 DEF n
  <2> QED BY <1>3, <2>1, <2>2, LeavingOrders DEF RequestInv
<1>6. ASSUME NEW u \in Tasks, u # t PROVE TaskOrder(u)'
  <2>1. Standing(u)
    BY <1>2, <1>6, InterruptOthers
  <2>2. starters'[u] = starters[u]
    BY <1>1, <1>6
  <2>3. Senders(u)' \subseteq Senders(u)
    BY <1>2, <2>2, SendersFewer
  <2>4. (Early(u)' => Early(u)) /\ (Unheard(u) => Unheard(u)')
    BY <1>2, <2>2 DEF Early, Unheard
  <2> QED BY <1>2, <2>1, <2>3, <2>4, RequestsCalm, CalmKeeps DEF CalmFor, RequestInv
<1>7. \A q \in Requests : Stays(q)'
  BY <1>2, InterruptTurnGoesOn, SilentStays DEF TaskGoesOn, RequestInv
<1> QED BY <1>5, <1>6, <1>7 DEF RequestInv

LEMMA StartStepOrders ==
  ASSUME TasksInv, RequestInv, NEW t \in Tasks, StartStep(t)
  PROVE  RequestInv'
BY BeginStartOrders, ConnectOrders, EnsureMonitorOrders, SetTaskConnectionOrders,
   ThreadReturnsOrders, BindThreadOrders, BeforeTurnOrders, TurnReturnsOrders, ConfirmTurnOrders,
   SendInterruptOrders, CompleteStartSuccessOrders, CompleteStartFailureOrders,
   CompletePreTurnInterruptOrders, Zenon DEF StartStep

\* The record of a task that has ended may be dropped.
LEMMA RetainedCalm ==
  ASSUME TasksInv, NEW u \in Tasks, tasks'[u] = RetainedTasks[u], UNCHANGED requests,
         Senders(u)' \subseteq Senders(u), Early(u)' => Early(u),
         Early(u) /\ Unheard(u) => Unheard(u)'
  PROVE  CalmFor(u)
<1>1. Standing(u) \/ (Known(u) /\ Terminal(u) /\ tasks'[u] = Null)
  <2>1. CASE RetainedTasks[u] = tasks[u]
    BY <2>1 DEF Standing
  <2>2. CASE RetainedTasks[u] # tasks[u]
    BY <2>2, Retained
  <2> QED BY <2>1, <2>2
<1> QED BY <1>1, RequestsCalm DEF CalmFor

LEMMA GetTaskStatusOrders ==
  ASSUME TasksInv, RequestInv, GetTaskStatus
  PROVE  RequestInv'
<1>1. /\ tasks' = RetainedTasks
      /\ UNCHANGED <<log, requests, starters, interrupters, monitors, notes>>
  BY DEF GetTaskStatus, appServer
<1>2. ASSUME NEW u \in Tasks PROVE CalmFor(u)
  BY <1>1, GoroutinesCalm, RetainedCalm
<1>3. LogsSilent
  BY <1>1, LogsKept DEF TasksInv
<1> QED BY <1>1, <1>2, <1>3, CalmStep

LEMMA QuietOrders ==
  ASSUME TasksInv, RequestInv, LogsSilent, UNCHANGED <<starters, interrupters, monitors, notes>>,
         \A q \in Requests : /\ requests'[q].state = requests[q].state
                             /\ requests'[q].task = requests[q].task,
         \A u \in Tasks : Standing(u)
  PROVE  RequestInv'
<1>1. ASSUME NEW u \in Tasks PROVE CalmFor(u)
  BY GoroutinesCalm, RequestsCalm DEF CalmFor
<1> QED BY <1>1, CalmStep

LEMMA RetentionEndsOrders ==
  ASSUME TasksInv, RequestInv, NEW t \in Tasks, RetentionEnds(t)
  PROVE  RequestInv'
<1>1. UNCHANGED <<tasks, log, requests, starters, interrupters, monitors, notes>>
  BY DEF RetentionEnds, registry, appServer
<1> QED BY <1>1, LogsKept, StandingAll, QuietOrders DEF TasksInv

LEMMA UnsupportedRequestOrders ==
  ASSUME TasksInv, RequestInv, UnsupportedRequest
  PROVE  RequestInv'
<1>1. UNCHANGED <<requests, starters, interrupters, monitors, notes>>
  BY DEF UnsupportedRequest, appServer
<1>2. LogsSilent
  BY UnsupportedRequestGoesOn DEF TaskGoesOn
<1>3. \A u \in Tasks : Standing(u)
  <2>1. CASE UNCHANGED tasks
    BY <2>1, StandingAll
  <2>2. CASE /\ activeTask # Null /\ Live(activeTask)
             /\ tasks' = [tasks EXCEPT ![activeTask].deferred = TRUE]
    <3> DEFINE t == activeTask
               r == [tasks[t] EXCEPT !.deferred = TRUE]
    <3>1. t \in Tasks /\ Known(t)
      BY <2>2 DEF TasksInv, TaskTypes, Live
    <3>2. /\ r \in TaskRecords /\ r.turn = tasks[t].turn /\ r.state = tasks[t].state
          /\ r.preInterruptState = tasks[t].preInterruptState
      BY <3>1, KnownTask DEF TaskRecords
    <3>3. tasks' = [tasks EXCEPT ![t] = r]
      BY <2>2
    <3> HIDE DEF r, t
    <3> QED BY <3>1, <3>2, <3>3, StandingTask
  <2> QED BY <2>1, <2>2 DEF UnsupportedRequest
<1> QED BY <1>1, <1>2, <1>3, QuietOrders

LEMMA AuthRefreshFailsOrders ==
  ASSUME TasksInv, RequestInv, AuthRefreshFails
  PROVE  RequestInv'
<1>1. /\ activeTask # Null /\ Live(activeTask) /\ EndTask(activeTask, "failed", <<>>)
      /\ UNCHANGED <<starters, interrupters, monitors, notes>>
  BY DEF AuthRefreshFails, appServer
<1>2. activeTask \in Tasks /\ Known(activeTask)
  BY <1>1 DEF TasksInv, TaskTypes, Live
<1>3. "failed" \in EndStates /\ <<>> \in Seq(Events)
  BY DEF EndStates
<1>4. PICK ends : /\ MayEnd(ends) /\ EndTasks(ends) /\ DOMAIN ends = {activeTask}
                  /\ ends[activeTask].clears
  BY <1>1, <1>2, <1>3, NothingFirst, EndTaskEnds
<1>5. \A u \in Tasks : /\ Senders(u)' \subseteq Senders(u)
                       /\ Early(u)' => Early(u)
                       /\ Early(u) /\ Unheard(u) => Unheard(u)'
  BY <1>1, GoroutinesCalm
<1> QED BY <1>4, <1>5, EndingOrders

LEMMA ClaimedOrders ==
  ASSUME TasksInv, RequestInv, NEW t \in Tasks, starters[t].pc = "none",
         NEW r \in TaskRecords, ~r.turn, tasks' = [RetainedTasks EXCEPT ![t] = r],
         starters'[t].pc = "begin", \A u \in Tasks \ {t} : starters'[u] = starters[u],
         Append1(t, "task_started"), UNCHANGED <<requests, interrupters, monitors, notes>>
  PROVE  RequestInv'
<1>1. /\ tasks'[t] = r /\ \A u \in Tasks \ {t} : tasks'[u] = RetainedTasks[u]
  BY Retained
<1>2. Early(t) /\ Early(t)'
  BY DEF Early
<1>3. Unheard(t) /\ Senders(t) = {} /\ ActiveRequests(t) = {}
  BY <1>2, NoTurnNothingWaits DEF RequestInv, TaskOrder, Starts, Interrupts
<1>4. Unheard(t)'
  BY <1>3 DEF Unheard
<1>5. Senders(t)' = {}
  <2>1. Senders(t)' \subseteq Senders(t)
    BY SendersFewer
  <2> QED BY <1>3, <2>1
<1>6. ActiveRequests(t)' = {}
  BY <1>3, RequestsCalm
<1>7. TaskOrder(t)'
  BY <1>1, <1>4, <1>5, <1>6 DEF TaskOrder, Starts, Interrupts, Waits
<1>8. ASSUME NEW u \in Tasks, u # t PROVE TaskOrder(u)'
  <2>1. tasks'[u] = RetainedTasks[u] /\ starters'[u] = starters[u]
    BY <1>1, <1>8
  <2>2. Senders(u)' \subseteq Senders(u)
    BY <2>1, SendersFewer
  <2>3. (Early(u)' => Early(u)) /\ (Unheard(u) => Unheard(u)')
    BY <2>1 DEF Early, Unheard
  <2> QED BY <2>1, <2>2, <2>3, RetainedCalm, CalmKeeps DEF RequestInv
<1>9. LogsSilent
  <2>1. log \in [Tasks -> Seq(Events)]
    BY DEF TasksInv, LogsType
  <2> DEFINE x == Plain("task_started")
  <2>2. x \in Events
    BY EventsAre DEF EventKinds
  <2>3. /\ log'[t] = Append(log[t], x) /\ \A u \in Tasks \ {t} : log'[u] = log[u]
    BY <2>1 DEF Append1
  <2>4. \A q \in Requests : About("created", q) # x /\ About("resolved", q) # x
    BY EventsAre
  <2> HIDE DEF x
  <2>5. log'[t] = log[t] \o <<x>> /\ <<x>> \in Seq(Events)
    BY <2>1, <2>2, <2>3, OneMore
  <2>6. \A e : e # x => ~Has(<<x>>, e)
    BY <2>1, <2>2, OneMore
  <2>7. ASSUME NEW u \in Tasks, NEW q \in Requests
        PROVE  /\ Silent(log[u], log'[u], About("created", q))
               /\ Silent(log[u], log'[u], About("resolved", q))
    <3>1. CASE u = t
      BY <3>1, <2>1, <2>4, <2>5, <2>6, SilentOrTold
    <3>2. CASE u # t
      BY <3>2, <2>3, SilentOrToldLater
    <3> QED BY <3>1, <3>2
  <2> QED BY <2>7 DEF LogsSilent
<1>10. \A q \in Requests : Stays(q)'
  BY <1>9, SilentStays DEF RequestInv
<1> QED BY <1>7, <1>8, <1>10 DEF RequestInv

LEMMA ClaimStartOrders ==
  ASSUME TasksInv, RequestInv, NEW c \in Clients, ClaimStart(c)
  PROVE  RequestInv'
<1> DEFINE key == Commands[c].key
           r == [key |-> key, state |-> "starting", thread |-> FALSE, turn |-> FALSE,
                 connection |-> Null, connectionCancel |-> "none", cancelBeforeTurn |-> FALSE,
                 preInterruptState |-> Null, deferred |-> FALSE]
<1>1. UNCHANGED <<requests, interrupters, monitors, notes>>
  BY DEF ClaimStart, appServer
<1>2. CASE tasks' = RetainedTasks /\ UNCHANGED <<log, starters>>
  <2>1. ASSUME NEW u \in Tasks PROVE CalmFor(u)
    BY <1>1, <1>2, GoroutinesCalm, RetainedCalm
  <2>2. LogsSilent
    BY <1>2, LogsKept DEF TasksInv
  <2> QED BY <1>1, <2>1, <2>2, CalmStep
<1>3. ASSUME NEW t \in Tasks, starters[t].pc = "none", tasks' = [RetainedTasks EXCEPT ![t] = r],
             Append1(t, "task_started"),
             starters' = [starters EXCEPT ![t].pc = "begin", ![t].resumes = Commands[c].resumes]
      PROVE  RequestInv'
  <2>1. key \in Keys
    BY TasksAssumption
  <2>2. r \in TaskRecords /\ ~r.turn
    <3> HIDE DEF key
    <3> QED BY <2>1 DEF TaskRecords, States
  <2>3. starters'[t].pc = "begin" /\ \A u \in Tasks \ {t} : starters'[u] = starters[u]
    BY <1>3 DEF TasksInv, GoroutineTypes, StarterRecords
  <2> HIDE DEF r
  <2> QED BY <1>1, <1>3, <2>2, <2>3, ClaimedOrders
<1> QED BY <1>2, <1>3, Zenon DEF ClaimStart

LEMMA InterruptCalls ==
  ASSUME TasksInv, RequestInv, NEW i \in Interrupters, NEW t \in Tasks, Live(t),
         tasks[t].state # "interrupting", tasks[t].turn, RetainedTasks[t] = tasks[t],
         tasks' = [RetainedTasks EXCEPT ![t].preInterruptState = tasks[t].state,
                                        ![t].state = "interrupting"],
         Append1(t, "interrupting"),
         interrupters' = [interrupters EXCEPT ![i] = [pc |-> "call", task |-> t]],
         UNCHANGED <<requests, starters, monitors, notes>>
  PROVE  RequestInv'
<1>1. TaskOrder(t) /\ Known(t) /\ tasks[t] \in TaskRecords
  BY KnownTask DEF RequestInv, Live
<1>2. /\ tasks'[t].turn /\ tasks'[t].state = "interrupting" /\ tasks'[t] # Null
      /\ tasks'[t].preInterruptState = tasks[t].state
      /\ \A u \in Tasks \ {t} : tasks'[u] = RetainedTasks[u]
  <2> DEFINE r == [tasks[t] EXCEPT !.preInterruptState = tasks[t].state, !.state = "interrupting"]
  <2>1. /\ r \in TaskRecords /\ r.turn /\ r.state = "interrupting"
        /\ r.preInterruptState = tasks[t].state
    BY <1>1 DEF TaskRecords, States
  <2>2. tasks' = [RetainedTasks EXCEPT ![t] = r]
    OBVIOUS
  <2> HIDE DEF r
  <2> QED BY <2>1, <2>2, Retained, NullIsNothing
<1>3. /\ interrupters'[i] = [pc |-> "call", task |-> t]
      /\ \A j \in Interrupters \ {i} : interrupters'[j] = interrupters[j]
  BY DEF TasksInv, GoroutineTypes
<1>4. ~Early(t) /\ Senders(t) = {} /\ (ActiveRequests(t) # {} => tasks[t].state = "waiting")
  BY <1>1 DEF TaskOrder, Starts, Interrupts, Waits
<1>5. ~Early(t)' /\ ActiveRequests(t)' = ActiveRequests(t)
  BY <1>4, RequestsCalm DEF Early
<1>6. TaskOrder(t)'
  <2> DEFINE g == <<"call", i>>
  <2>1. \A j \in Interrupters : interrupters'[j].pc = "call" /\ interrupters'[j].task = t =>
           (interrupters[j].pc = "call" /\ interrupters[j].task = t) \/ g = <<"call", j>>
    BY <1>3
  <2> HIDE DEF g
  <2>2. Senders(t)' \subseteq {g}
    BY <1>4, <2>1, SendersMore
  <2> QED BY <1>2, <1>4, <1>5, <2>2 DEF TaskOrder, Starts, Interrupts, Waits, Known
<1>7. ASSUME NEW u \in Tasks, u # t PROVE TaskOrder(u)'
  <2>1. \A j \in Interrupters : interrupters'[j].pc = "call" /\ interrupters'[j].task = u =>
                                  interrupters[j].pc = "call" /\ interrupters[j].task = u
    BY <1>3, <1>7
  <2>2. Senders(u)' \subseteq Senders(u)
    BY <2>1, SendersFewer
  <2>3. (Early(u)' => Early(u)) /\ (Unheard(u) => Unheard(u)')
    BY DEF Early, Unheard
  <2> QED BY <1>2, <1>7, <2>2, <2>3, RetainedCalm, CalmKeeps DEF RequestInv
<1>8. LogsSilent
  <2>1. "interrupting" \in EventKinds \ (EndStates \cup {"created", "resolved"})
    BY DEF EventKinds, EndStates
  <2> QED BY <1>1, <2>1, KnownTask, LogsAppendPlain DEF TasksInv
<1>9. \A q \in Requests : Stays(q)'
  BY <1>8, SilentStays DEF RequestInv
<1> QED BY <1>6, <1>7, <1>9 DEF RequestInv

LEMMA InterruptTaskOrders ==
  ASSUME TasksInv, RequestInv, NEW i \in Interrupters, InterruptTask(i)
  PROVE  RequestInv'
<1> DEFINE t == RetainedKeys[Targets[i]]
<1>1. UNCHANGED <<requests, starters, monitors, notes>>
  BY DEF InterruptTask, appServer
<1>2. Targets[i] \in Keys /\ t \in Tasks \cup {Null} /\ (t # Null => RetainedTasks[t] = tasks[t])
  BY TasksAssumption, Retained
<1>3. ASSUME UNCHANGED log, interrupters' = [interrupters EXCEPT ![i].pc = "done"],
             \A u \in Tasks : tasks'[u] = RetainedTasks[u] \/ Standing(u)
      PROVE  RequestInv'
  <2>1. \A j \in Interrupters : interrupters'[j].pc = "call" =>
          interrupters'[j] = interrupters[j]
    BY <1>3 DEF TasksInv, GoroutineTypes, InterrupterRecords
  <2>2. ASSUME NEW u \in Tasks PROVE CalmFor(u)
    <3>1. Senders(u)' \subseteq Senders(u)
      BY <1>1, <2>1, SendersFewer
    <3>2. (Early(u)' => Early(u)) /\ (Unheard(u) => Unheard(u)')
      BY <1>1 DEF Early, Unheard
    <3>3. CASE tasks'[u] = RetainedTasks[u]
      BY <1>1, <3>1, <3>2, <3>3, RetainedCalm
    <3>4. CASE Standing(u)
      BY <1>1, <3>1, <3>2, <3>4, RequestsCalm DEF CalmFor
    <3> QED BY <1>3, <3>3, <3>4
  <2>3. LogsSilent
    BY <1>3, LogsKept DEF TasksInv
  <2> QED BY <1>1, <2>2, <2>3, CalmStep
<1>4. CASE /\ tasks' = RetainedTasks /\ UNCHANGED log
           /\ interrupters' = [interrupters EXCEPT ![i].pc = "done"]
  BY <1>3, <1>4
<1>5. CASE /\ t # Null /\ Live(t) /\ UNCHANGED log
           /\ tasks' = [RetainedTasks EXCEPT ![t].cancelBeforeTurn = TRUE,
                           ![t].connectionCancel = IF @ = "set" THEN "called" ELSE @]
           /\ interrupters' = [interrupters EXCEPT ![i].pc = "done"]
  <2> DEFINE r == [tasks[t] EXCEPT !.cancelBeforeTurn = TRUE,
                                   !.connectionCancel = IF @ = "set" THEN "called" ELSE @]
  <2>1. t \in Tasks /\ tasks[t] \in TaskRecords /\ RetainedTasks[t] = tasks[t] /\ Known(t)
    BY <1>2, <1>5, KnownTask DEF Live
  <2>2. /\ r \in TaskRecords /\ r.turn = tasks[t].turn /\ r.state = tasks[t].state
        /\ r.preInterruptState = tasks[t].preInterruptState
    BY <2>1 DEF TaskRecords
  <2>3. tasks' = [RetainedTasks EXCEPT ![t] = r]
    BY <1>5, <2>1
  <2> HIDE DEF r, t
  <2>4. tasks'[t] = r /\ r # Null /\ \A u \in Tasks \ {t} : tasks'[u] = RetainedTasks[u]
    BY <2>1, <2>2, <2>3, Retained, NullIsNothing
  <2>5. Standing(t)
    BY <2>1, <2>2, <2>4 DEF Standing, Known
  <2> QED BY <1>3, <1>5, <2>4, <2>5
<1>6. CASE /\ t # Null /\ Live(t) /\ tasks[t].state # "interrupting" /\ tasks[t].turn
           /\ tasks' = [RetainedTasks EXCEPT ![t].preInterruptState = tasks[t].state,
                                             ![t].state = "interrupting"]
           /\ Append1(t, "interrupting")
           /\ interrupters' = [interrupters EXCEPT ![i] = [pc |-> "call", task |-> t]]
  <2>1. t \in Tasks /\ RetainedTasks[t] = tasks[t]
    BY <1>2, <1>6
  <2> HIDE DEF t
  <2> QED BY <1>1, <1>6, <2>1, InterruptCalls
<1> QED BY <1>4, <1>5, <1>6, Zenon DEF InterruptTask

LEMMA InterruptReturnsOrders ==
  ASSUME TasksInv, RequestInv, NEW i \in Interrupters, InterruptReturns(i)
  PROVE  RequestInv'
<1>0. PICK t \in Tasks : interrupters[i].task = t
  BY DEF InterruptReturns, TasksInv, GoroutinesNamed
<1>n. PICK n : n = Of(t)
  OBVIOUS
<1> DEFINE g == <<"call", i>>
<1>1. /\ interrupters[i].pc = "call" /\ interrupters' = [interrupters EXCEPT ![i].pc = "done"]
      /\ InterruptTurn(t, n) /\ UNCHANGED <<starters, monitors>>
  BY <1>0, <1>n DEF InterruptReturns
<1>2. UNCHANGED <<requests, notes>>
  BY <1>1 DEF InterruptTurn
<1>3. /\ interrupters'[i].pc = "done"
      /\ \A j \in Interrupters \ {i} : interrupters'[j] = interrupters[j]
  BY <1>1 DEF TasksInv, GoroutineTypes, InterrupterRecords
<1>4. \A u \in Tasks : Senders(u)' \subseteq Senders(u)
  BY <1>1, <1>3, SendersFewer
<1>5. g \in Senders(t) /\ g \notin Senders(t)'
  <2>1. g \in Senders(t)
    BY <1>0, <1>1, SendersAre
  <2>2. g \notin Senders(t)'
    BY <1>3 DEF Senders
  <2> QED BY <2>1, <2>2
<1>6. \A u \in Tasks : (Early(u)' => Early(u)) /\ (Unheard(u) => Unheard(u)')
  BY <1>1, <1>2 DEF Early, Unheard
<1> HIDE DEF g
<1>7. TaskOrder(t)'
  <2>1. Senders(t)' \subseteq Senders(t) \ {g}
    BY <1>2, <1>4, <1>5
  <2> QED BY <1>1, <1>2, <1>5, <1>6, <2>1, LeavingOrders DEF RequestInv
<1>8. ASSUME NEW u \in Tasks, u # t PROVE TaskOrder(u)'
  <2>1. Standing(u)
    BY <1>1, <1>8, InterruptOthers
  <2> QED BY <1>2, <1>4, <1>6, <2>1, RequestsCalm, CalmKeeps DEF CalmFor, RequestInv
<1>9. \A q \in Requests : Stays(q)'
  BY <1>1, <1>2, InterruptTurnGoesOn, SilentStays DEF TaskGoesOn, RequestInv
<1> QED BY <1>7, <1>8, <1>9 DEF RequestInv

\* No connection hears of a turn that was not heard of before, but of one that is not early.
HearsLittle ==
  \A m \in Connections : \A i \in DOMAIN notes'[m] : notes'[m][i].kind = "turn/started" =>
    \/ \E j \in DOMAIN notes[m] : notes[m][j] = notes'[m][i]
    \/ ~Early(notes'[m][i].task)

LEMMA HeardCalm ==
  ASSUME TasksInv, NEW t \in Tasks, UNCHANGED <<starters, interrupters, monitors>>, HearsLittle
  PROVE  /\ Senders(t)' \subseteq Senders(t) /\ (Early(t)' => Early(t))
         /\ Early(t) /\ Unheard(t) => Unheard(t)'
<1>1. Senders(t)' \subseteq Senders(t) /\ (Early(t)' => Early(t))
  BY SendersFewer DEF Early
<1>2. ASSUME Early(t), Unheard(t), NEW m \in Connections, NEW i \in DOMAIN notes'[m],
             notes'[m][i].kind = "turn/started"
      PROVE  notes'[m][i].task # t
  BY <1>2 DEF HearsLittle, Unheard
<1>3. ASSUME Early(t), Unheard(t), NEW m \in Connections PROVE monitors'[m].task # t
  BY <1>3 DEF Unheard
<1> QED BY <1>1, <1>2, <1>3 DEF Unheard

LEMMA ReadingHearsLittle ==
  ASSUME TasksInv, NEW n \in Connections, NEW kind, Reads(n, kind)
  PROVE  HearsLittle
<1>1. /\ notes \in [Connections -> Seq(Notes)] /\ notes[n] # <<>>
      /\ notes' = [notes EXCEPT ![n] = Tail(@)]
  BY ReadNote DEF TasksInv, AppServerTypes
<1> HIDE DEF Notes
<1>2. \A i \in DOMAIN Tail(notes[n]) : /\ i + 1 \in DOMAIN notes[n]
                                       /\ Tail(notes[n])[i] = notes[n][i + 1]
  BY <1>1
<1>3. ASSUME NEW m \in Connections, NEW i \in DOMAIN notes'[m]
      PROVE  \E j \in DOMAIN notes[m] : notes[m][j] = notes'[m][i]
  <2>1. CASE m = n
    BY <1>1, <1>2, <1>3, <2>1
  <2>2. CASE m # n
    BY <1>1, <1>3, <2>2
  <2> QED BY <2>1, <2>2
<1> QED BY <1>3 DEF HearsLittle

LEMMA SendingHearsLittle ==
  ASSUME TasksInv, NEW n, IsOpen(n), NEW note \in Notes, Sends(n, note) \/ UNCHANGED notes,
         note.kind = "turn/started" => ~Early(note.task)
  PROVE  HearsLittle
<1>1. notes \in [Connections -> Seq(Notes)] /\ n \in Connections
  BY DEF TasksInv, AppServerTypes, IsOpen
<1>2. CASE UNCHANGED notes
  BY <1>2 DEF HearsLittle
<1>3. CASE notes' = [notes EXCEPT ![n] = Append(@, note)]
  <2> HIDE DEF Notes
  <2>1. \A i \in DOMAIN Append(notes[n], note) :
          \/ i \in DOMAIN notes[n] /\ Append(notes[n], note)[i] = notes[n][i]
          \/ Append(notes[n], note)[i] = note
    BY <1>1
  <2>2. ASSUME NEW m \in Connections, NEW i \in DOMAIN notes'[m]
        PROVE  (\E j \in DOMAIN notes[m] : notes[m][j] = notes'[m][i]) \/ notes'[m][i] = note
    <3>1. CASE m = n
      BY <1>1, <1>3, <2>1, <2>2, <3>1
    <3>2. CASE m # n
      BY <1>1, <1>3, <2>2, <3>2
    <3> QED BY <3>1, <3>2
  <2> QED BY <2>2 DEF HearsLittle
<1> QED BY <1>2, <1>3 DEF Sends

LEMMA HeardOrders ==
  ASSUME TasksInv, RequestInv, LogsSilent, UNCHANGED <<starters, interrupters, monitors>>,
         HearsLittle,
         \A q \in Requests : /\ requests'[q].state = requests[q].state
                             /\ requests'[q].task = requests[q].task,
         \A u \in Tasks : Standing(u)
  PROVE  RequestInv'
<1>1. ASSUME NEW u \in Tasks PROVE CalmFor(u)
  BY HeardCalm, RequestsCalm DEF CalmFor
<1> QED BY <1>1, CalmStep

LEMMA HandleThreadStartedOrders ==
  ASSUME TasksInv, RequestInv, NEW n \in Connections, HandleThreadStarted(n)
  PROVE  RequestInv'
<1> DEFINE t == Head(notes[n]).task
<1>1. Reads(n, "thread/started")
  BY DEF HandleThreadStarted
<1>2. t \in Tasks /\ HearsLittle
  BY <1>1, ReadNote, ReadingHearsLittle
<1>3. LogsSilent /\ \A u \in Tasks : Standing(u)
  <2>1. CASE IsOn(t, n)
    <3> HIDE DEF t
    <3>1. Known(t)
      BY <2>1 DEF IsOn
    <3>2. ConfirmThreadStarted(t)
      BY <2>1 DEF HandleThreadStarted, t
    <3> QED BY <1>2, <3>1, <3>2, ConfirmThreadGoesOn, ConfirmThreadStands DEF TaskGoesOn
  <2>2. CASE ~IsOn(t, n)
    <3>1. UNCHANGED <<tasks, log>>
      BY <2>2 DEF HandleThreadStarted
    <3> QED BY <3>1, LogsKept, StandingAll DEF TasksInv
  <2> QED BY <2>1, <2>2
<1>4. UNCHANGED <<requests, starters, interrupters, monitors>>
  BY DEF HandleThreadStarted, RestOfMonitor
<1> QED BY <1>2, <1>3, <1>4, HeardOrders

\* A connection hears of a turn, whose start is not early.
LEMMA HandleTurnStartedOrders ==
  ASSUME TasksInv, RequestInv, NEW n \in Connections, HandleTurnStarted(n)
  PROVE  RequestInv'
<1>1. Reads(n, "turn/started")
  BY DEF HandleTurnStarted
<1>2. /\ notes \in [Connections -> Seq(Notes)] /\ notes[n] # <<>>
      /\ Head(notes[n]).kind = "turn/started" /\ Head(notes[n]).task \in Tasks
      /\ monitors[n].pc = "read" /\ HearsLittle
  BY <1>1, ReadNote, ReadingHearsLittle DEF TasksInv, AppServerTypes
<1>3. PICK t \in Tasks : Head(notes[n]).task = t
  BY <1>2
<1>4. UNCHANGED <<tasks, log, requests, starters, interrupters>>
  BY DEF HandleTurnStarted, registry, RestOfMonitor
<1>5. monitors' = [monitors EXCEPT ![n] = [pc |-> "confirm", task |-> t]] \/ UNCHANGED monitors
  BY <1>3 DEF HandleTurnStarted
<1>6. ~Unheard(t)
  <2>1. 1 \in DOMAIN notes[n] /\ Head(notes[n]) = notes[n][1]
    <3> HIDE DEF Notes
    <3> QED BY <1>2
  <2> QED BY <1>2, <1>3, <2>1 DEF Unheard
<1>7. ASSUME NEW m \in Connections
      PROVE  /\ monitors'[m].pc = "interrupt" => monitors'[m] = monitors[m]
             /\ monitors'[m].task \in {monitors[m].task, t}
  BY <1>5, <1>7, MonitorsAre
<1>8. ASSUME NEW u \in Tasks PROVE CalmFor(u)
  <2>1. Senders(u)' \subseteq Senders(u)
    BY <1>4, <1>7, SendersFewer
  <2>2. Early(u)' => Early(u)
    BY <1>4 DEF Early
  <2>3. ASSUME Early(u), Unheard(u) PROVE Unheard(u)'
    <3>1. u # t
      BY <1>6, <2>3
    <3>2. \A m \in Connections : monitors'[m].task # u
      BY <1>7, <2>3, <3>1 DEF Unheard
    <3>3. \A m \in Connections : \A i \in DOMAIN notes'[m] :
            notes'[m][i].kind = "turn/started" => notes'[m][i].task # u
      BY <1>2, <2>3 DEF HearsLittle, Unheard
    <3> QED BY <3>2, <3>3 DEF Unheard
  <2> QED BY <1>4, <2>1, <2>2, <2>3, RequestsCalm, StandingAll DEF CalmFor
<1> QED BY <1>4, <1>8, LogsKept, CalmStep DEF TasksInv

LEMMA MonitorConfirmsOrders ==
  ASSUME TasksInv, RequestInv, NEW n \in Connections, MonitorConfirms(n)
  PROVE  RequestInv'
<1>1. PICK t \in Tasks : monitors[n].task = t
  BY MonitorsAre DEF MonitorConfirms
<1>2. /\ monitors[n].pc = "confirm" /\ UNCHANGED <<requests, starters, interrupters, notes>>
      /\ (~Known(t) /\ UNCHANGED <<tasks, log>>) \/ (Known(t) /\ ConfirmTurnStartedOnce(t))
      /\ monitors' = [monitors EXCEPT ![n] =
           IF Known(t) /\ MustInterrupt(t) THEN [@ EXCEPT !.pc = "interrupt"]
                                           ELSE [pc |-> "read", task |-> Null]]
  BY <1>1 DEF MonitorConfirms, RestOfMonitor, appServer
<1>3. /\ \A m \in Connections \ {n} : monitors'[m] = monitors[m]
      /\ monitors'[n].task \in {t, Null}
      /\ monitors'[n].pc = "interrupt" => Known(t) /\ MustInterrupt(t) /\ monitors'[n].task = t
  BY <1>1, <1>2, MonitorsAre DEF MonitorRecords
<1>4. ~Early(t) /\ ~Early(t)'
  <2>1. ~Unheard(t)
    BY <1>1 DEF Unheard
  <2>2. ~Early(t)
    BY <2>1 DEF RequestInv, TaskOrder, Starts
  <2> QED BY <1>2, <2>2 DEF Early
<1>5. ASSUME NEW u \in Tasks, u # t \/ ~Known(t) PROVE CalmFor(u)
  <2>1. Standing(u)
    BY <1>2, <1>5, StandingAll, ConfirmOthers
  <2>2. \A m \in Connections : monitors'[m].pc = "interrupt" /\ monitors'[m].task = u =>
                                 monitors[m].pc = "interrupt" /\ monitors[m].task = u
    BY <1>3, <1>5
  <2>3. Senders(u)' \subseteq Senders(u)
    BY <1>2, <2>2, SendersFewer
  <2>4. \A m \in Connections : monitors'[m].task \in {monitors[m].task, Null}
    BY <1>1, <1>3
  <2>5. (Early(u)' => Early(u)) /\ (Unheard(u) => Unheard(u)')
    BY <1>2, <2>4, TasksAssumption DEF Early, Unheard
  <2> QED BY <1>2, <2>1, <2>3, <2>5, RequestsCalm DEF CalmFor
<1>6. CASE ~Known(t) /\ UNCHANGED <<tasks, log>>
  BY <1>2, <1>5, <1>6, LogsKept, CalmStep DEF TasksInv
<1>7. CASE Known(t) /\ ConfirmTurnStartedOnce(t)
  <2> DEFINE g == <<"monitor", n>>
  <2>1. \A m \in Connections : monitors'[m].pc = "interrupt" /\ monitors'[m].task = t =>
          (monitors[m].pc = "interrupt" /\ monitors[m].task = t) \/ g = <<"monitor", m>>
    BY <1>3
  <2> HIDE DEF g
  <2>2. Senders(t)' \subseteq Senders(t) \cup {g}
    BY <1>2, <2>1, SendersMore
  <2>3. ASSUME ~MustInterrupt(t) PROVE Senders(t)' \subseteq Senders(t)
    <3>1. \A m \in Connections : monitors'[m].pc = "interrupt" /\ monitors'[m].task = t =>
                                   monitors[m].pc = "interrupt" /\ monitors[m].task = t
      BY <1>3, <2>3
    <3> QED BY <1>2, <3>1, SendersFewer
  <2>4. TaskOrder(t)'
    BY <1>2, <1>4, <1>7, <2>2, <2>3, ConfirmingOrders DEF RequestInv
  <2>5. \A u \in Tasks : u # t => TaskOrder(u)'
    BY <1>5, CalmKeeps DEF RequestInv
  <2>6. \A q \in Requests : Stays(q)'
    BY <1>2, <1>7, ConfirmTurnGoesOn, SilentStays DEF TaskGoesOn, RequestInv
  <2> QED BY <2>4, <2>5, <2>6 DEF RequestInv
<1> QED BY <1>2, <1>6, <1>7

LEMMA MonitorInterruptsOrders ==
  ASSUME TasksInv, RequestInv, NEW n \in Connections, MonitorInterrupts(n)
  PROVE  RequestInv'
<1>1. PICK t \in Tasks : monitors[n].task = t
  BY MonitorsAre DEF MonitorInterrupts
<1> DEFINE g == <<"monitor", n>>
<1>2. /\ monitors[n].pc = "interrupt" /\ InterruptTurn(t, n)
      /\ monitors' = [monitors EXCEPT ![n] = [pc |-> "read", task |-> Null]]
      /\ UNCHANGED <<starters, interrupters>>
  BY <1>1 DEF MonitorInterrupts, RestOfMonitor
<1>3. UNCHANGED <<requests, notes>>
  BY <1>2 DEF InterruptTurn
<1>4. /\ monitors'[n].pc = "read" /\ monitors'[n].task = Null
      /\ \A m \in Connections \ {n} : monitors'[m] = monitors[m]
  BY <1>2, MonitorsAre
<1>5. \A u \in Tasks : Senders(u)' \subseteq Senders(u)
  BY <1>2, <1>4, SendersFewer
<1>6. g \in Senders(t) /\ g \notin Senders(t)'
  <2>1. g \in Senders(t)
    BY <1>1, <1>2, SendersAre
  <2>2. g \notin Senders(t)'
    BY <1>4 DEF Senders
  <2> QED BY <2>1, <2>2
<1>7. \A u \in Tasks : (Early(u)' => Early(u)) /\ (Unheard(u) => Unheard(u)')
  <2>1. \A m \in Connections : monitors'[m].task \in {monitors[m].task, Null}
    BY <1>4
  <2> QED BY <1>2, <1>3, <2>1, TasksAssumption DEF Early, Unheard
<1> HIDE DEF g
<1>8. TaskOrder(t)'
  <2>1. Senders(t)' \subseteq Senders(t) \ {g}
    BY <1>5, <1>6
  <2> QED BY <1>2, <1>6, <1>7, <2>1, LeavingOrders DEF RequestInv
<1>9. ASSUME NEW u \in Tasks, u # t PROVE TaskOrder(u)'
  <2>1. Standing(u)
    BY <1>2, <1>9, InterruptOthers
  <2> QED BY <1>3, <1>5, <1>7, <2>1, RequestsCalm, CalmKeeps DEF CalmFor, RequestInv
<1>10. \A q \in Requests : Stays(q)'
  BY <1>2, <1>3, InterruptTurnGoesOn, SilentStays DEF TaskGoesOn, RequestInv
<1> QED BY <1>8, <1>9, <1>10 DEF RequestInv

LEMMA HandleTurnCompletedOrders ==
  ASSUME TasksInv, RequestInv, NEW n \in Connections, HandleTurnCompleted(n)
  PROVE  RequestInv'
<1> DEFINE note == Head(notes[n])
           t == note.task
<1>1. Reads(n, "turn/completed")
  BY DEF HandleTurnCompleted
<1>2. t \in Tasks /\ note.status \in {"completed", "interrupted", "other"} /\ HearsLittle
  BY <1>1, ReadNote, ReadingHearsLittle
<1>3. UNCHANGED <<starters, interrupters, monitors>>
  BY DEF HandleTurnCompleted, RestOfMonitor
<1>4. CASE UNCHANGED <<tasks, log, requests>>
  BY <1>2, <1>3, <1>4, LogsKept, StandingAll, HeardOrders DEF TasksInv
<1>5. CASE /\ IsOn(t, n)
           /\ IF note.status = "other" THEN EndTask(t, "failed", <<Plain("unknown_status")>>)
                                       ELSE EndTask(t, note.status, <<>>)
  <2>1. Known(t)
    BY <1>5 DEF IsOn
  <2>2. PICK ends : MayEnd(ends) /\ EndTasks(ends) /\ \A u \in DOMAIN ends : ends[u].clears
    <3> HIDE DEF t, note
    <3> QED BY <1>2, <1>5, <2>1, TurnCompletedEnds
  <2>3. \A u \in Tasks : /\ Senders(u)' \subseteq Senders(u)
                         /\ Early(u)' => Early(u)
                         /\ Early(u) /\ Unheard(u) => Unheard(u)'
    BY <1>2, <1>3, HeardCalm
  <2> QED BY <2>2, <2>3, EndingOrders
<1> QED BY <1>4, <1>5 DEF HandleTurnCompleted

\* What the goroutines of a task are about to do, and have heard, is no more than it was.
GoroutinesRest ==
  \A u \in Tasks : /\ Senders(u)' \subseteq Senders(u)
                   /\ Early(u)' => Early(u)
                   /\ Early(u) /\ Unheard(u) => Unheard(u)'

\* A request is resolved: a task that waited for it alone runs again.
LEMMA ResolvingOrders ==
  ASSUME TasksInv, RequestInv, GoroutinesRest, NEW p \in Requests, NEW t \in Tasks,
         requests[p].task = t, requests[p].state = "active", Known(t), Resolve(p)
  PROVE  RequestInv'
<1>1. requests \in [Requests -> RequestRecords] /\ tasks[t] \in TaskRecords /\ TaskTypes
  BY KnownTask DEF TasksInv, RequestTypes
<1>2. /\ \A q \in Requests \ {p} : requests'[q] = requests[q]
      /\ requests'[p].state = "resolved" /\ requests'[p].task = t
  <2> DEFINE r == [requests[p] EXCEPT !.state = "resolved", !.inFlight = Null]
  <2>1. requests' = [requests EXCEPT ![p] = r]
    BY ResolveGoesOn
  <2>2. r.state = "resolved" /\ r.task = t
    BY <1>1 DEF RequestRecords
  <2> HIDE DEF r
  <2> QED BY <1>1, <2>1, <2>2
<1>3. /\ tasks'[t].turn = tasks[t].turn /\ tasks'[t].preInterruptState = tasks[t].preInterruptState
      /\ tasks'[t].state = StateWithout(t, {p}) /\ tasks'[t] # Null
      /\ \A u \in Tasks \ {t} : tasks'[u] = tasks[u]
  <2> DEFINE r == [tasks[t] EXCEPT !.state = StateWithout(t, {p})]
  <2>1. /\ r \in TaskRecords /\ r.turn = tasks[t].turn /\ r.state = StateWithout(t, {p})
        /\ r.preInterruptState = tasks[t].preInterruptState
    BY <1>1 DEF TaskRecords, StateWithout, States
  <2>2. tasks' = [tasks EXCEPT ![t] = r]
    BY DEF Resolve
  <2> HIDE DEF r
  <2> QED BY <1>1, <2>1, <2>2, TaskChanges, NullIsNothing
<1>4. ActiveRequests(t)' = ActiveRequests(t) \ {p} /\ p \in ActiveRequests(t)
  BY <1>2 DEF ActiveRequests
<1>5. TaskOrder(t)'
  <2>1. TaskOrder(t)
    BY DEF RequestInv
  <2>2. Waits(t)'
    BY <1>3, <1>4, <2>1 DEF TaskOrder, Waits, StateWithout, Known
  <2>3. Starts(t)'
    BY <1>3, <1>4, <2>1 DEF TaskOrder, Starts, Waits, GoroutinesRest
  <2>4. tasks'[t].state = tasks[t].state \/ (tasks[t].state = "waiting" /\ tasks'[t].state = "running")
    BY <1>3 DEF StateWithout
  <2>5. Live(t)' => Live(t)
    BY <2>4 DEF Live, Terminal, EndStates
  <2>6. Senders(t)' # {} => Senders(t) # {}
    BY DEF GoroutinesRest
  <2>7. \A g, h \in Senders(t)' : g \in Senders(t) /\ h \in Senders(t)
    BY DEF GoroutinesRest
  <2>8. Early(t)' => Early(t)
    BY DEF GoroutinesRest
  <2>9. Interrupts(t)'
    <3>1. Senders(t)' # {} => ~Early(t)' /\ tasks'[t].turn
      BY <1>3, <2>1, <2>6, <2>8 DEF TaskOrder, Interrupts
    <3>2. Live(t)' /\ Senders(t)' # {} => tasks'[t].state = "interrupting"
      BY <2>1, <2>4, <2>5, <2>6 DEF TaskOrder, Interrupts
    <3>3. Live(t)' => \A g, h \in Senders(t)' : g = h
      BY <2>1, <2>5, <2>7 DEF TaskOrder, Interrupts
    <3> QED BY <3>1, <3>2, <3>3 DEF Interrupts
  <2> QED BY <2>2, <2>3, <2>9 DEF TaskOrder
<1>6. ASSUME NEW u \in Tasks, u # t PROVE TaskOrder(u)'
  <2>1. Standing(u)
    BY <1>3, <1>6 DEF Standing
  <2>2. ActiveRequests(u)' \subseteq ActiveRequests(u)
    BY <1>2, <1>6 DEF ActiveRequests
  <2> QED BY <2>1, <2>2, CalmKeeps DEF CalmFor, RequestInv, GoroutinesRest
<1>7. \A q \in Requests : Stays(q)'
  BY ResolvingStays DEF RequestInv
<1> QED BY <1>5, <1>6, <1>7 DEF RequestInv

LEMMA HandleServerRequestResolvedOrders ==
  ASSUME TasksInv, RequestInv, NEW n \in Connections, HandleServerRequestResolved(n)
  PROVE  RequestInv'
<1> DEFINE q == Head(notes[n]).request
<1>1. Reads(n, "serverRequest/resolved")
  BY DEF HandleServerRequestResolved
<1>2. q \in Requests /\ HearsLittle
  BY <1>1, ReadNote, ReadingHearsLittle
<1>3. UNCHANGED <<starters, interrupters, monitors>>
  BY DEF HandleServerRequestResolved, RestOfMonitor
<1>4. CASE UNCHANGED registry
  <2>1. UNCHANGED <<tasks, log, requests>>
    BY <1>4 DEF registry
  <2> QED BY <1>2, <1>3, <2>1, LogsKept, StandingAll, HeardOrders DEF TasksInv
<1>5. CASE requests[q].state = "active" /\ IsOn(requests[q].task, n) /\ Resolve(q)
  <2>1. PICK p \in Requests : q = p
    BY <1>2
  <2>2. PICK t \in Tasks : requests[p].task = t
    BY <1>5, <2>1 DEF TasksInv, RequestsNamed
  <2>3. Known(t) /\ Resolve(p) /\ requests[p].state = "active"
    BY <1>5, <2>1, <2>2 DEF IsOn
  <2>4. GoroutinesRest
    BY <1>2, <1>3, HeardCalm DEF GoroutinesRest
  <2> QED BY <2>2, <2>3, <2>4, ResolvingOrders
<1> QED BY <1>4, <1>5 DEF HandleServerRequestResolved

\* A request is announced, to a task that nobody is about to interrupt.
LEMMA CreatingOrders ==
  ASSUME TasksInv, RequestInv, GoroutinesRest, NEW n \in Connections, NEW p \in Requests,
         NEW t \in Tasks, requests[p].task = t, requests[p].state = "asked",
         TaskAsked(p, n), tasks[t].state # "interrupting", Create(p, n)
  PROVE  \A u \in Tasks : TaskOrder(u)'
<1> DEFINE early == p \in backlog[n]
           state == IF early /\ ActiveRequests(t) = {} THEN "running" ELSE "waiting"
<1>1. requests \in [Requests -> RequestRecords] /\ TaskTypes
  BY DEF TasksInv, RequestTypes
<1>2. Known(t) /\ Live(t) /\ tasks[t].turn /\ tasks[t] \in TaskRecords
  BY KnownTask DEF TaskAsked, IsOn, Live
<1>3. /\ requests'[p].state = IF early THEN "resolved" ELSE "active"
      /\ requests'[p].task = t /\ \A q \in Requests \ {p} : requests'[q] = requests[q]
  BY <1>1 DEF Create, RequestRecords
<1>4. /\ tasks'[t].turn /\ tasks'[t].state = state /\ tasks'[t] # Null
      /\ \A u \in Tasks \ {t} : tasks'[u] = tasks[u]
  <2> DEFINE r == [tasks[t] EXCEPT !.state = state]
  <2>1. tasks' = [tasks EXCEPT ![t] = r]
    BY DEF Create
  <2>2. state \in States
    BY DEF States
  <2> HIDE DEF state
  <2>3. r \in TaskRecords /\ r.turn /\ r.state = state
    BY <1>2, <2>2 DEF TaskRecords
  <2> HIDE DEF r
  <2> QED BY <1>1, <1>2, <2>1, <2>3, TaskChanges, NullIsNothing
<1> HIDE DEF early
<1>5. ActiveRequests(t)' = ActiveRequests(t) \cup (IF early THEN {} ELSE {p})
  BY <1>3 DEF ActiveRequests
<1>6. ActiveRequests(t)' # {} => tasks'[t].state = "waiting"
  BY <1>4, <1>5
<1>7. Senders(t) = {} /\ ~Early(t)
  BY <1>2 DEF RequestInv, TaskOrder, Interrupts, Starts
<1>8. Senders(t)' = {} /\ ~Early(t)'
  BY <1>7 DEF GoroutinesRest
<1>9. TaskOrder(t)'
  BY <1>4, <1>6, <1>8 DEF TaskOrder, Starts, Interrupts, Waits, Known
<1>10. ASSUME NEW u \in Tasks, u # t PROVE TaskOrder(u)'
  <2>1. Standing(u)
    BY <1>4, <1>10 DEF Standing
  <2>2. ActiveRequests(u)' \subseteq ActiveRequests(u)
    BY <1>3, <1>10 DEF ActiveRequests
  <2> QED BY <2>1, <2>2, CalmKeeps DEF CalmFor, RequestInv, GoroutinesRest
<1> QED BY <1>9, <1>10

\* A request nobody of the gateway may answer, or nobody is there to be asked.
LEMMA DecliningOrders ==
  ASSUME TasksInv, RequestInv, GoroutinesRest, UNCHANGED tasks, NEW p \in Requests,
         NEW r \in RequestRecords, r.state = "declined", requests' = [requests EXCEPT ![p] = r]
  PROVE  \A u \in Tasks : TaskOrder(u)'
<1>1. \A o \in Requests : requests'[o].state = "active" => requests'[o] = requests[o]
  BY DEF TasksInv, RequestTypes
<1>2. ASSUME NEW u \in Tasks PROVE TaskOrder(u)'
  <2>1. ActiveRequests(u)' \subseteq ActiveRequests(u)
    BY <1>1 DEF ActiveRequests
  <2> QED BY <2>1, StandingAll, CalmKeeps DEF CalmFor, GoroutinesRest, RequestInv
<1> QED BY <1>2

LEMMA TakeAskOrders ==
  ASSUME TasksInv, RequestInv, NEW n \in Connections, TakeAsk(n)
  PROVE  RequestInv'
<1>1. Asked(n)
  BY DEF TakeAsk
<1>2. /\ Head(asks[n]) \in Requests /\ requests[Head(asks[n])].state = "asked"
      /\ requests[Head(asks[n])].task \in Tasks
      /\ UNCHANGED <<starters, interrupters, monitors, notes>>
  BY <1>1, AskTaken DEF RestOfMonitor
<1>3. PICK p \in Requests : p = Head(asks[n])
  BY <1>2
<1>4. PICK t \in Tasks : requests[p].task = t
  BY <1>2, <1>3
<1>5. GoroutinesRest
  BY <1>2, GoroutinesCalm DEF GoroutinesRest
<1>6. \A q \in Requests : Stays(q)'
  BY TakingStays DEF RequestInv
<1>7. ASSUME NEW warns \in BOOLEAN, warns => Known(requests[Head(asks[n])].task),
             AutoResolve(Head(asks[n]), n, warns)
      PROVE  \A u \in Tasks : TaskOrder(u)'
  <2>1. /\ UNCHANGED tasks
        /\ \E r \in RequestRecords : /\ requests' = [requests EXCEPT ![Head(asks[n])] = r]
                                     /\ r.state = "declined"
    BY <1>1, <1>7, AutoResolveGoesOn
  <2>2. PICK r \in RequestRecords : requests' = [requests EXCEPT ![p] = r] /\ r.state = "declined"
    BY <2>1, <1>3
  <2> QED BY <1>5, <2>1, <2>2, DecliningOrders
<1>8. ASSUME TaskAsked(Head(asks[n]), n), Create(Head(asks[n]), n),
             tasks[requests[Head(asks[n])].task].state # "interrupting"
      PROVE  \A u \in Tasks : TaskOrder(u)'
  <2>1. /\ requests[p].state = "asked" /\ TaskAsked(p, n) /\ tasks[t].state # "interrupting"
        /\ Create(p, n)
    BY <1>2, <1>3, <1>4, <1>8
  <2> QED BY <1>4, <1>5, <2>1, CreatingOrders
<1>9. \/ AutoResolve(Head(asks[n]), n, FALSE)
      \/ Known(requests[Head(asks[n])].task) /\ AutoResolve(Head(asks[n]), n, TRUE)
      \/ /\ TaskAsked(Head(asks[n]), n)
         /\ tasks[requests[Head(asks[n])].task].state # "interrupting"
         /\ Create(Head(asks[n]), n)
  BY TakenAsk
<1>10. \A u \in Tasks : TaskOrder(u)'
  <2>1. CASE AutoResolve(Head(asks[n]), n, FALSE)
    BY <1>7, <2>1
  <2>2. CASE Known(requests[Head(asks[n])].task) /\ AutoResolve(Head(asks[n]), n, TRUE)
    BY <1>7, <2>2
  <2> QED BY <1>8, <1>9, <2>1, <2>2
<1> QED BY <1>6, <1>10 DEF RequestInv

\* The tasks that end early have no request that waits.
LEMMA MonitorEndsOrders ==
  ASSUME TasksInv, RequestInv, NEW n \in Connections, MonitorEnds(n)
  PROVE  RequestInv'
<1>1. /\ monitors' = [monitors EXCEPT ![n].pc = "none"]
      /\ UNCHANGED <<starters, interrupters, notes>>
  BY DEF MonitorEnds, RestOfMonitor, appServer
<1>2. \A m \in Connections : /\ monitors'[m].task = monitors[m].task
                             /\ monitors'[m].pc = "interrupt" => monitors[m].pc = "interrupt"
  BY <1>1, MonitorsAre DEF MonitorRecords
<1>3. ASSUME NEW u \in Tasks
      PROVE  /\ Senders(u)' \subseteq Senders(u)
             /\ Early(u)' => Early(u)
             /\ Unheard(u) => Unheard(u)'
  <2>1. Senders(u)' \subseteq Senders(u)
    BY <1>1, <1>2, SendersFewer
  <2> QED BY <1>1, <1>2, <2>1 DEF Early, Unheard
<1>4. \A t \in DOMAIN FailingEnds(n) : FailingEnds(n)[t].clears \/ ActiveRequests(t) = {}
  <2>1. ASSUME NEW t \in Failing(n) PROVE FailingEnds(n)[t].clears \/ ActiveRequests(t) = {}
    <3>1. t \in Tasks
      BY DEF Failing
    <3>2. CASE EndsEarly(t)
      BY <3>1, <3>2, NoTurnNothingWaits DEF EndsEarly, MustInterrupt
    <3>3. CASE ~EndsEarly(t)
      BY <3>3 DEF FailingEnds
    <3> QED BY <3>2, <3>3
  <2> QED BY <2>1 DEF FailingEnds
<1>5. MayEnd(FailingEnds(n)) /\ EndTasks(FailingEnds(n))
  BY FailingMayEnd, MonitorEndsDoes
<1> DEFINE ends == FailingEnds(n)
<1>6. PICK e : e = ends
  OBVIOUS
<1> HIDE DEF ends
<1>7. /\ MayEnd(e) /\ EndTasks(e)
      /\ \A t \in DOMAIN e : e[t].clears \/ ActiveRequests(t) = {}
  BY <1>4, <1>5, <1>6 DEF ends
<1> QED BY <1>3, <1>7, EndingOrders

LEMMA MonitorStepOrders ==
  ASSUME TasksInv, RequestInv, NEW n \in Connections, MonitorStep(n)
  PROVE  RequestInv'
BY HandleThreadStartedOrders, HandleTurnStartedOrders, MonitorConfirmsOrders,
   MonitorInterruptsOrders, HandleTurnCompletedOrders, HandleServerRequestResolvedOrders,
   TakeAskOrders, MonitorEndsOrders, Zenon DEF MonitorStep

\* The answers of clients.
LEMMA AnsweringOrders ==
  ASSUME TasksInv, RequestInv, NEW q \in Requests, UNCHANGED <<tasks, log, asks>>, RestOfResponse,
         \/ UNCHANGED requests
         \/ requests' = [requests EXCEPT ![q].answered = TRUE]
         \/ \E i \in ResponseIDs \cup {Null} : requests' = [requests EXCEPT ![q].inFlight = i]
  PROVE  RequestInv'
<1>1. UNCHANGED <<starters, interrupters, monitors, notes>>
  BY DEF RestOfResponse
<1>2. \A p \in Requests : /\ requests'[p].state = requests[p].state
                          /\ requests'[p].task = requests[p].task
  BY AnswerMarks
<1> QED BY <1>1, <1>2, LogsKept, StandingAll, QuietOrders DEF TasksInv

LEMMA ResponderStepOrders ==
  ASSUME TasksInv, RequestInv, NEW r \in Responders, ResponderStep(r)
  PROVE  RequestInv'
<1> DEFINE q == Answers[r][1]
           i == Answers[r][2]
<1>1. q \in Requests /\ i \in ResponseIDs
  BY AnswersAre
<1>2. CASE ClaimResponse(r)
  <2>1. /\ UNCHANGED <<tasks, log, asks>> /\ RestOfResponse
        /\ requests' = [requests EXCEPT ![q].inFlight = i] \/ UNCHANGED requests
    BY <1>2 DEF ClaimResponse, RestOfResponse
  <2> HIDE DEF q, i
  <2> QED BY <1>1, <2>1, AnsweringOrders
<1>3. CASE WriteResponse(r)
  <2>1. /\ UNCHANGED <<tasks, log, asks>> /\ RestOfResponse
        /\ requests' = [requests EXCEPT ![q].answered = TRUE] \/ UNCHANGED requests
    BY <1>3 DEF WriteResponse, RestOfResponse
  <2> HIDE DEF q, i
  <2> QED BY <1>1, <2>1, AnsweringOrders
<1>4. CASE CompleteResponse(r)
  <2>1. RestOfResponse /\ UNCHANGED asks
    BY <1>4 DEF CompleteResponse, RestOfResponse
  <2>2. \/ UNCHANGED registry
        \/ requests' = [requests EXCEPT ![q].inFlight = Null] /\ UNCHANGED <<tasks, log>>
        \/ Known(requests[q].task) /\ requests[q].state = "active" /\ Resolve(q)
    BY <1>4, Zenon DEF CompleteResponse
  <2>3. CASE UNCHANGED registry
    <3>1. UNCHANGED <<tasks, log, requests>>
      BY <2>3 DEF registry
    <3> QED BY <1>1, <2>1, <3>1, AnsweringOrders
  <2>4. CASE requests' = [requests EXCEPT ![q].inFlight = Null] /\ UNCHANGED <<tasks, log>>
    <3> HIDE DEF q, i
    <3> QED BY <1>1, <2>1, <2>4, AnsweringOrders
  <2>5. CASE Known(requests[q].task) /\ requests[q].state = "active" /\ Resolve(q)
    <3> HIDE DEF q, i
    <3>1. PICK t \in Tasks : requests[q].task = t
      BY <1>1, <2>5 DEF TasksInv, RequestsNamed
    <3>2. GoroutinesRest
      BY <2>1, GoroutinesCalm DEF GoroutinesRest, RestOfResponse
    <3>3. PICK p \in Requests : q = p
      BY <1>1
    <3> QED BY <2>5, <3>1, <3>2, <3>3, ResolvingOrders
  <2> QED BY <2>2, <2>3, <2>4, <2>5
<1>5. CASE WaitForResponse(r)
  <2>1. UNCHANGED <<tasks, log, asks, requests>> /\ RestOfResponse
    BY <1>5 DEF WaitForResponse, RestOfResponse, registry
  <2> QED BY <1>1, <2>1, AnsweringOrders
<1> QED BY <1>2, <1>3, <1>4, <1>5 DEF ResponderStep

\* The steps of the app server.
LEMMA AppServerOrders ==
  ASSUME TasksInv, RequestInv, RestOfAppServer, HearsLittle,
         \A q \in Requests : /\ requests'[q].state = requests[q].state
                             /\ requests'[q].task = requests[q].task
  PROVE  RequestInv'
<1>1. UNCHANGED <<tasks, log, starters, interrupters, monitors>>
  BY DEF RestOfAppServer
<1> QED BY <1>1, LogsKept, StandingAll, HeardOrders DEF TasksInv

LEMMA CodexStartsThreadOrders ==
  ASSUME TasksInv, RequestInv, NEW t \in Tasks, CodexStartsThread(t)
  PROVE  RequestInv'
<1>1. /\ IsOpen(Of(t)) /\ Sends(Of(t), Note("thread/started", t, "other"))
      /\ UNCHANGED requests /\ RestOfAppServer
  BY DEF CodexStartsThread
<1>2. Note("thread/started", t, "other").kind # "turn/started"
  BY DEF Note
<1>3. HearsLittle
  BY <1>1, <1>2, NotesAre, SendingHearsLittle
<1> QED BY <1>1, <1>3, AppServerOrders

\* A turn is announced only once its start asks for it.
LEMMA CodexStartsTurnOrders ==
  ASSUME TasksInv, RequestInv, NEW t \in Tasks, CodexStartsTurn(t)
  PROVE  RequestInv'
<1>1. /\ IsOpen(Of(t)) /\ starters[t].pc = "turning"
      /\ Sends(Of(t), Note("turn/started", t, "other")) \/ UNCHANGED notes
      /\ UNCHANGED requests /\ RestOfAppServer
  BY DEF CodexStartsTurn
<1>2. ~Early(Note("turn/started", t, "other").task)
  BY <1>1 DEF Early, Note
<1>3. HearsLittle
  BY <1>1, <1>2, NotesAre, SendingHearsLittle
<1> QED BY <1>1, <1>3, AppServerOrders

LEMMA CodexEndsTurnOrders ==
  ASSUME TasksInv, RequestInv, NEW t \in Tasks, CodexEndsTurn(t)
  PROVE  RequestInv'
<1>1. /\ IsOpen(Of(t)) /\ UNCHANGED requests /\ RestOfAppServer
  BY DEF CodexEndsTurn
<1>2. PICK status \in TurnStatuses : Sends(Of(t), Note("turn/completed", t, status))
  BY DEF CodexEndsTurn
<1>3. Note("turn/completed", t, status).kind # "turn/started"
  BY DEF Note
<1>4. HearsLittle
  BY <1>1, <1>2, <1>3, NotesAre, SendingHearsLittle
<1> QED BY <1>1, <1>4, AppServerOrders

LEMMA CodexAsksOrders ==
  ASSUME TasksInv, RequestInv, NEW t \in Tasks, NEW q \in Requests, CodexAsks(q, t)
  PROVE  RequestInv'
<1>1. UNCHANGED <<tasks, starters, interrupters, monitors, notes>>
  BY DEF CodexAsks, RestOfAppServer
<1>2. GoroutinesRest
  BY <1>1, GoroutinesCalm DEF GoroutinesRest
<1>3. requests'[q].state = "asked" /\ \A p \in Requests \ {q} : requests'[p] = requests[p]
  BY CodexAsksNames
<1>4. ASSUME NEW u \in Tasks PROVE TaskOrder(u)'
  <2>1. ActiveRequests(u)' \subseteq ActiveRequests(u)
    BY <1>3 DEF ActiveRequests
  <2> QED BY <1>1, <1>2, <2>1, StandingAll, CalmKeeps DEF CalmFor, GoroutinesRest, RequestInv
<1> QED BY <1>4, AskingStays DEF RequestInv

LEMMA CodexWithdrawsOrders ==
  ASSUME TasksInv, RequestInv, NEW q \in Requests, CodexWithdraws(q)
  PROVE  RequestInv'
<1>1. /\ IsOpen(Of(requests[q].task)) /\ RestOfAppServer
      /\ requests' = [requests EXCEPT ![q].withdrawn = TRUE]
      /\ Sends(Of(requests[q].task), [kind |-> "serverRequest/resolved", request |-> q])
  BY DEF CodexWithdraws
<1>2. HearsLittle
  <2> DEFINE note == [kind |-> "serverRequest/resolved", request |-> q]
  <2>1. note \in Notes /\ note.kind # "turn/started" /\ Sends(Of(requests[q].task), note)
    BY <1>1 DEF Notes
  <2> HIDE DEF note
  <2> QED BY <1>1, <2>1, SendingHearsLittle
<1>3. \A p \in Requests : /\ requests'[p].state = requests[p].state
                          /\ requests'[p].task = requests[p].task
  BY <1>1 DEF TasksInv, RequestTypes, RequestRecords
<1> QED BY <1>1, <1>2, <1>3, AppServerOrders

LEMMA ConnectionIsLostOrders ==
  ASSUME TasksInv, RequestInv, NEW n \in Connections, ConnectionIsLost(n)
  PROVE  RequestInv'
<1>1. UNCHANGED <<requests, notes>> /\ RestOfAppServer
  BY DEF ConnectionIsLost
<1>2. HearsLittle
  BY <1>1 DEF HearsLittle
<1> QED BY <1>1, <1>2, AppServerOrders

LEMMA TasksInitOrders ==
  ASSUME TasksInit
  PROVE  RequestInv
<1>1. \A q \in Requests : Stays(q)
  <2>1. \A t \in Tasks : DOMAIN log[t] = {}
    BY DEF TasksInit
  <2>2. \A q \in Requests : requests[q].state = "none" /\ requests[q].task = Null
    BY DEF TasksInit
  <2> QED BY <2>1, <2>2 DEF Stays, Untold, Has
<1>2. ASSUME NEW t \in Tasks PROVE TaskOrder(t)
  <2>1. /\ tasks[t] = Null /\ starters[t].pc = "none"
        /\ \A n \in Connections : /\ monitors[n].task = Null /\ monitors[n].pc = "none"
                                  /\ DOMAIN notes[n] = {}
        /\ \A i \in Interrupters : interrupters[i].pc = "new"
        /\ \A q \in Requests : requests[q].task = Null
    BY DEF TasksInit
  <2>2. Null # t
    BY TasksAssumption
  <2>3. Senders(t) = {} /\ ActiveRequests(t) = {} /\ Unheard(t) /\ ~Known(t)
    BY <2>1, <2>2 DEF Senders, ActiveRequests, Unheard, Known
  <2> QED BY <2>3 DEF TaskOrder, Starts, Interrupts, Waits, Live
<1> QED BY <1>1, <1>2 DEF RequestInv

LEMMA TasksNextOrders ==
  ASSUME TasksInv, RequestInv, [TasksNext]_vars
  PROVE  RequestInv'
<1>1. CASE UNCHANGED vars
  <2>1. UNCHANGED <<tasks, entries, promises, activeTask, log, requests>>
    BY <1>1 DEF vars, registry
  <2>2. UNCHANGED <<responses, backlog, idempotency, stale, called, starters, interrupters,
                    responders, monitors>>
    BY <1>1 DEF vars, pendings, retention
  <2>3. UNCHANGED notes
    BY <1>1 DEF vars, appServer
  <2>4. RestOfAppServer
    BY <2>1, <2>2 DEF RestOfAppServer, pendings, retention
  <2>5. HearsLittle
    BY <2>3 DEF HearsLittle
  <2> QED BY <2>1, <2>4, <2>5, AppServerOrders
<1>2. CASE GatewayStep
  BY <1>2, ClaimStartOrders, StartStepOrders, InterruptTaskOrders, InterruptReturnsOrders,
     MonitorStepOrders, ResponderStepOrders, Zenon DEF GatewayStep
<1>3. CASE AppServerStep
  BY <1>3, CodexStartsTurnOrders, CodexEndsTurnOrders, CodexAsksOrders, Zenon DEF AppServerStep
<1>4. CASE GetTaskStatus \/ AuthRefreshFails \/ UnsupportedRequest
  BY <1>4, GetTaskStatusOrders, AuthRefreshFailsOrders, UnsupportedRequestOrders
<1>5. CASE \E t \in Tasks : RetentionEnds(t) \/ CodexStartsThread(t)
  BY <1>5, RetentionEndsOrders, CodexStartsThreadOrders
<1>6. CASE \E q \in Requests : CodexWithdraws(q)
  BY <1>6, CodexWithdrawsOrders
<1>7. CASE \E n \in Connections : ConnectionIsLost(n)
  BY <1>7, ConnectionIsLostOrders
<1> QED BY <1>1, <1>2, <1>3, <1>4, <1>5, <1>6, <1>7, Zenon DEF TasksNext

LEMMA CountHas ==
  ASSUME NEW s \in Seq(Events), NEW e
  PROVE  /\ ~Has(s, e) => Cardinality({i \in DOMAIN s : s[i] = e}) = 0
         /\ HasOnce(s, e) => Cardinality({i \in DOMAIN s : s[i] = e}) = 1
<1>1. ASSUME ~Has(s, e) PROVE Cardinality({i \in DOMAIN s : s[i] = e}) = 0
  <2>1. {i \in DOMAIN s : s[i] = e} = {}
    BY <1>1 DEF Has
  <2> QED BY <2>1, FS_EmptySet
<1>2. ASSUME HasOnce(s, e) PROVE Cardinality({i \in DOMAIN s : s[i] = e}) = 1
  <2>1. PICK k \in DOMAIN s : \A j \in DOMAIN s : s[j] = e <=> j = k
    BY <1>2 DEF HasOnce
  <2>2. {i \in DOMAIN s : s[i] = e} = {k}
    BY <2>1
  <2> QED BY <2>2, FS_Singleton
<1> QED BY <1>1, <1>2

LEMMA CountedOnce ==
  ASSUME TasksInv, RequestInv, NEW q \in Requests, NEW t, t = requests[q].task
  PROVE  /\ requests[q].state = "active" =>
              Known(t) /\ tasks[t].state \in {"waiting", "interrupting"}
         /\ t # Null =>
              /\ Cardinality({i \in DOMAIN log[t] : log[t][i] = About("created", q)})
                   = (IF requests[q].state \in {"active", "resolved"} THEN 1 ELSE 0)
              /\ Cardinality({i \in DOMAIN log[t] : log[t][i] = About("resolved", q)})
                   = (IF requests[q].state = "resolved" THEN 1 ELSE 0)
<1>1. Stays(q) /\ requests[q] \in RequestRecords
  BY DEF RequestInv, TasksInv, RequestTypes
<1>2. requests[q].state \in {"none", "asked", "declined", "active", "resolved"}
  BY <1>1 DEF RequestRecords
<1>3. requests[q].state # "none" => t \in Tasks
  BY DEF TasksInv, RequestsNamed
<1>4. ASSUME requests[q].state = "active"
      PROVE  Known(t) /\ tasks[t].state \in {"waiting", "interrupting"}
  <2>1. t \in Tasks /\ q \in ActiveRequests(t)
    BY <1>3, <1>4 DEF ActiveRequests
  <2> QED BY <2>1 DEF RequestInv, TaskOrder, Waits
<1>5. ASSUME t # Null PROVE t \in Tasks /\ requests[q].state # "none"
  BY <1>1, <1>3, <1>5 DEF Stays
<1>6. ASSUME t \in Tasks PROVE log[t] \in Seq(Events)
  BY <1>6 DEF TasksInv, LogsType
<1>7. ASSUME t # Null, requests[q].state \in {"asked", "declined"}
      PROVE  ~Has(log[t], About("created", q)) /\ ~Has(log[t], About("resolved", q))
  BY <1>1, <1>5, <1>7 DEF Stays, Untold
<1>8. ASSUME t # Null, requests[q].state = "active"
      PROVE  HasOnce(log[t], About("created", q)) /\ ~Has(log[t], About("resolved", q))
  BY <1>1, <1>8 DEF Stays, Announced
<1>9. ASSUME t # Null, requests[q].state = "resolved"
      PROVE  HasOnce(log[t], About("created", q)) /\ HasOnce(log[t], About("resolved", q))
  BY <1>1, <1>9 DEF Stays, Announced
<1>10. ASSUME t # Null
       PROVE  /\ Cardinality({i \in DOMAIN log[t] : log[t][i] = About("created", q)})
                   = (IF requests[q].state \in {"active", "resolved"} THEN 1 ELSE 0)
              /\ Cardinality({i \in DOMAIN log[t] : log[t][i] = About("resolved", q)})
                   = (IF requests[q].state = "resolved" THEN 1 ELSE 0)
  <2>1. log[t] \in Seq(Events) /\ requests[q].state # "none"
    BY <1>5, <1>6, <1>10
  <2>2. CASE requests[q].state \in {"asked", "declined"}
    BY <1>7, <1>10, <2>1, <2>2, CountHas
  <2>3. CASE requests[q].state = "active"
    BY <1>8, <1>10, <2>1, <2>3, CountHas
  <2>4. CASE requests[q].state = "resolved"
    BY <1>9, <1>10, <2>1, <2>4, CountHas
  <2> QED BY <1>2, <2>1, <2>2, <2>3, <2>4
<1> QED BY <1>4, <1>10

\* Between the app server, which withdraws requests (pending_requests.go:523), the clients, who
\* answer them (pending_requests.go:397), and whatever ends the task, a request that was announced to
\* a task is announced once and resolved once, also one whose withdrawal came before it; while
\* it waits, its task has a record that is waiting or being interrupted.
THEOREM RequestsResolvedOnce == TasksSpec => []RequestIsResolvedOnce
<1>1. TasksInit => RequestInv
  BY TasksInitOrders
<1>2. TasksInv /\ RequestInv /\ [TasksNext]_vars => RequestInv'
  BY TasksNextOrders
<1>3. ASSUME TasksInv, RequestInv PROVE RequestIsResolvedOnce
  <2>1. ASSUME NEW q \in Requests
        PROVE  LET t == requests[q].task
                   events(kind) == {i \in DOMAIN log[t] : log[t][i] = About(kind, q)} IN
               /\ requests[q].state = "active" =>
                    Known(t) /\ tasks[t].state \in {"waiting", "interrupting"}
               /\ t # Null =>
                    /\ Cardinality(events("created")) = (IF requests[q].state \in {"active", "resolved"} THEN 1 ELSE 0)
                    /\ Cardinality(events("resolved")) = (IF requests[q].state = "resolved" THEN 1 ELSE 0)
    BY <1>3, CountedOnce, Zenon
  <2> QED BY <2>1 DEF RequestIsResolvedOnce
<1> QED BY <1>1, <1>2, <1>3, TasksInvHolds, PTL DEF TasksSpec

-----------------------------------------------------------------------------
(* How logs grow and tasks end, as far as the streams are concerned        *)

\* An interrupt that is rejected does not end the task. Finitely many tasks have begun.
Begun == {t \in Tasks : log[t] # <<>>}
Rejectable(t) == Known(t) => tasks[t].preInterruptState \notin EndStates
Ready == TasksInv /\ IsFiniteSet(Begun) /\ \A t \in Tasks : Rejectable(t)

EndsAnew(t) == \E i \in (Len(log[t]) + 1)..Len(log'[t]) : log'[t][i].kind \in EndStates
TaskKeeps(t) ==
  tasks'[t] # Null => /\ tasks'[t].preInterruptState \notin EndStates
                      /\ tasks'[t].state \in EndStates =>
                           (Known(t) /\ Terminal(t)) \/ EndsAnew(t)

\* Logs only become longer, a task comes to its end with an event that says so, and one
\* task begins at most.
Growth ==
  /\ \A t \in Tasks : Len(log[t]) <= Len(log'[t]) /\ TaskKeeps(t)
  /\ \E u : \A t \in Tasks : t # u /\ log[t] = <<>> => log'[t] = <<>>

LEMMA GrowthNone ==
  ASSUME Ready, \A t \in Tasks : tasks'[t] \in {tasks[t], Null}, UNCHANGED log
  PROVE  Growth
<1>1. \A t \in Tasks : Len(log[t]) \in Nat
  BY DEF Ready, TasksInv, LogsType
<1>2. \A t \in Tasks : TaskKeeps(t)
  BY Zenon DEF Ready, Rejectable, TaskKeeps, Known, Terminal
<1> QED BY <1>1, <1>2 DEF Growth

LEMMA GrowthOne ==
  ASSUME Ready, NEW t \in Tasks, Known(t),
         \A u \in Tasks \ {t} : tasks'[u] \in {tasks[u], Null} /\ log'[u] = log[u],
         Len(log[t]) <= Len(log'[t]), TaskKeeps(t)
  PROVE  Growth
<1>1. \A u \in Tasks : Len(log[u]) \in Nat
  BY DEF Ready, TasksInv, LogsType
<1>2. \A u \in Tasks \ {t} : TaskKeeps(u)
  BY Zenon DEF Ready, Rejectable, TaskKeeps, Known, Terminal
<1>3. log[t] # <<>>
  BY KnownTask DEF Ready
<1>4. \A u \in Tasks : log[u] = <<>> => log'[u] = <<>>
  BY <1>3, Zenon
<1> QED BY <1>1, <1>2, <1>4 DEF Growth

LEMMA GrowthRecord ==
  ASSUME Ready, NEW t \in Tasks, Known(t),
         \A u \in Tasks \ {t} : tasks'[u] \in {tasks[u], Null},
         tasks'[t].preInterruptState \notin EndStates,
         tasks'[t].state \notin EndStates \/ tasks'[t].state = tasks[t].state,
         UNCHANGED log \/ \E x \in Seq(Events) : log' = [log EXCEPT ![t] = log[t] \o x]
  PROVE  Growth
<1>1. log \in [Tasks -> Seq(Events)]
  BY DEF Ready, TasksInv, LogsType
<1>2. TaskKeeps(t)
  BY Zenon DEF TaskKeeps, Terminal
<1>3. (\A u \in Tasks \ {t} : log'[u] = log[u]) /\ Len(log[t]) <= Len(log'[t])
  <2>1. CASE UNCHANGED log
    BY <1>1, <2>1
  <2>2. ASSUME NEW x \in Seq(Events), log' = [log EXCEPT ![t] = log[t] \o x]
        PROVE  <1>3!:
    <3>1. log'[t] = log[t] \o x /\ \A u \in Tasks \ {t} : log'[u] = log[u]
      BY <1>1, <2>2
    <3>2. Len(log[t] \o x) = Len(log[t]) + Len(x) /\ Len(log[t]) \in Nat /\ Len(x) \in Nat
      BY <1>1
    <3> QED BY <3>1, <3>2
  <2> QED BY <2>1, <2>2
<1> QED BY <1>2, <1>3, GrowthOne

LEMMA AppendsOne ==
  ASSUME Ready, NEW t \in Tasks, NEW e \in Events, log' = [log EXCEPT ![t] = Append(@, e)]
  PROVE  \E x \in Seq(Events) : log' = [log EXCEPT ![t] = log[t] \o x]
<1>1. log[t] \in Seq(Events)
  BY DEF Ready, TasksInv, LogsType
<1>2. Append(log[t], e) = log[t] \o <<e>> /\ <<e>> \in Seq(Events)
  BY <1>1, OneMore
<1> QED BY <1>2

LEMMA AppendsPlain ==
  ASSUME Ready, NEW t \in Tasks, NEW kind \in EventKinds, Append1(t, kind)
  PROVE  \E x \in Seq(Events) : log' = [log EXCEPT ![t] = log[t] \o x]
BY AppendsOne, EventsAre DEF Append1

\* The events with which tasks end.
LEMMA EndTasksGrow ==
  ASSUME Ready, NEW ends, MayEnd(ends), EndTasks(ends)
  PROVE  Growth
<1> DEFINE cleared == {q \in Requests : \E t \in DOMAIN ends : ends[t].clears /\ q \in ActiveRequests(t)}
           mine(t) == cleared \cap ActiveRequests(t)
           resolved(t) == [i \in 1..Cardinality(mine(t)) |-> About("resolved", SetToSeq(mine(t))[i])]
<1>1. /\ tasks' = [t \in Tasks |->
            IF t \in DOMAIN ends THEN [tasks[t] EXCEPT !.state = ends[t].state,
                                !.deferred = @ /\ Plain("unsupported") \notin Range(ends[t].first)]
                                 ELSE tasks[t]]
      /\ log' = [t \in Tasks |->
            IF t \in DOMAIN ends
            THEN log[t] \o ends[t].first \o resolved(t) \o <<Plain(ends[t].state)>> ELSE log[t]]
  BY Zenon DEF EndTasks
<1>2. /\ DOMAIN ends \subseteq Tasks
      /\ \A t \in DOMAIN ends : Known(t) /\ ends[t].state \in EndStates /\ ends[t].first \in Seq(Events)
  BY DEF MayEnd
<1>3. \A t \in Tasks : Len(log[t]) \in Nat
  BY DEF Ready, TasksInv, LogsType
<1>4. ASSUME NEW t \in DOMAIN ends PROVE resolved(t) \in Seq(Events)
  <2> DEFINE S == mine(t)
             n == Cardinality(S)
             f == SetToSeq(S)
  <2>1. IsFiniteSet(S) /\ S \subseteq Requests
    <3>1. S \in SUBSET {q \in Requests : requests[q].state # "none"}
      BY DEF ActiveRequests
    <3> QED BY <3>1, FS_Subset DEF Ready, TasksInv, RequestsNamed
  <2>2. n \in Nat /\ f \in [1..n -> S]
    <3> HIDE DEF S
    <3> QED BY <2>1, SetToSeqLists
  <2>3. resolved(t) = [i \in 1..n |-> About("resolved", f[i])]
    OBVIOUS
  <2> HIDE DEF S, n, f, resolved
  <2>4. \A i \in 1..n : About("resolved", f[i]) \in Events
    BY <2>1, <2>2, EventsAre DEF EventKinds
  <2> QED BY <2>2, <2>3, <2>4
<1> HIDE DEF resolved, cleared
<1>5. ASSUME NEW t \in DOMAIN ends
      PROVE  /\ Len(log[t]) <= Len(log'[t]) /\ log[t] # <<>> /\ EndsAnew(t)
             /\ tasks'[t].preInterruptState \notin EndStates
  <2> DEFINE last == Plain(ends[t].state)
             b == log[t] \o ends[t].first
             c == b \o resolved(t)
  <2>1. log[t] \in Seq(Events) /\ log[t] # <<>> /\ tasks[t] \in TaskRecords
    BY <1>2, KnownTask DEF Ready, TasksInv, LogsType
  <2>2. last \in Events /\ last.kind \in EndStates
    BY <1>2, EventsAre
  <2>3. b \in Seq(Events) /\ Len(log[t]) <= Len(b) /\ Len(log[t]) \in Nat /\ Len(b) \in Nat
    <3> DEFINE f == ends[t].first
    <3>1. f \in Seq(Events)
      BY <1>2
    <3> HIDE DEF f
    <3>2. b = log[t] \o f
      BY DEF f
    <3> QED BY <2>1, <3>1, <3>2
  <2> HIDE DEF b, last
  <2>4. c \in Seq(Events) /\ Len(b) <= Len(c) /\ Len(c) \in Nat
    BY <1>4, <2>3
  <2>5. log'[t] = c \o <<last>>
    BY <1>1, <1>2 DEF b, last
  <2> HIDE DEF c
  <2>6. Len(log'[t]) = Len(c) + 1 /\ log'[t][Len(c) + 1] = last
    BY <2>2, <2>4, <2>5
  <2>7. Len(c) + 1 \in (Len(log[t]) + 1)..Len(log'[t])
    BY <2>3, <2>4, <2>6
  <2>8. EndsAnew(t)
    BY <2>2, <2>6, <2>7, Zenon DEF EndsAnew
  <2>9. tasks'[t].preInterruptState = tasks[t].preInterruptState
    <3>1. tasks'[t] = [tasks[t] EXCEPT !.state = ends[t].state,
                       !.deferred = @ /\ Plain("unsupported") \notin Range(ends[t].first)]
      BY <1>1, <1>2
    <3> QED BY <2>1, <3>1 DEF TaskRecords
  <2>10. tasks[t].preInterruptState \notin EndStates
    BY <1>2, Zenon DEF Ready, Rejectable
  <2>11. Len(log[t]) <= Len(log'[t])
    BY <2>3, <2>4, <2>6
  <2> QED BY <2>1, <2>8, <2>9, <2>10, <2>11, Zenon
<1>6. ASSUME NEW t \in Tasks, t \notin DOMAIN ends
      PROVE  tasks'[t] = tasks[t] /\ log'[t] = log[t]
  BY <1>1, <1>6
<1>7. \A t \in Tasks : TaskKeeps(t)
  BY <1>5, <1>6, Zenon DEF TaskKeeps, Ready, Rejectable, Known, Terminal
<1>8. \A t \in Tasks : Len(log[t]) <= Len(log'[t])
  BY <1>3, <1>5, <1>6
<1>9. \A t \in Tasks : log[t] = <<>> => log'[t] = <<>>
  BY <1>5, <1>6, Zenon
<1> QED BY <1>7, <1>8, <1>9 DEF Growth

\* The record of a task is as before, but for what the streams do not look at.
LEMMA GrowthTouched ==
  ASSUME Ready, NEW t \in Tasks, Known(t), \A u \in Tasks \ {t} : tasks'[u] \in {tasks[u], Null},
         tasks'[t].preInterruptState = tasks[t].preInterruptState,
         tasks'[t].state \notin EndStates \/ tasks'[t].state = tasks[t].state,
         UNCHANGED log \/ \E x \in Seq(Events) : log' = [log EXCEPT ![t] = log[t] \o x]
  PROVE  Growth
<1>1. tasks'[t].preInterruptState \notin EndStates
  BY Zenon DEF Ready, Rejectable
<1> QED BY <1>1, GrowthRecord, Zenon

LEMMA TasksAre ==
  ASSUME Ready
  PROVE  /\ tasks \in [Tasks -> TaskRecords \cup {Null}]
         /\ \A t \in Tasks : Known(t) => tasks[t] \in TaskRecords
         /\ \A t \in Tasks : starters[t].pc \notin {"none", "done"} => Known(t)
BY KnownTask DEF Ready, TasksInv, TaskTypes

LEMMA ConfirmThreadGrows ==
  ASSUME Ready, NEW t \in Tasks, Known(t), ConfirmThreadStarted(t)
  PROVE  Growth
<1>1. CASE UNCHANGED <<tasks, log>>
  BY <1>1, GrowthNone
<1>2. CASE tasks' = [tasks EXCEPT ![t].thread = TRUE] /\ Append1(t, "thread_started")
  <2>1. /\ tasks'[t].preInterruptState = tasks[t].preInterruptState
        /\ tasks'[t].state = tasks[t].state
        /\ \A u \in Tasks \ {t} : tasks'[u] \in {tasks[u], Null}
    BY <1>2, TasksAre DEF TaskRecords
  <2>2. "thread_started" \in EventKinds
    BY DEF EventKinds
  <2> QED BY <1>2, <2>1, <2>2, AppendsPlain, GrowthTouched
<1> QED BY <1>1, <1>2 DEF ConfirmThreadStarted

LEMMA ConfirmTurnGrows ==
  ASSUME Ready, NEW t \in Tasks, Known(t), ConfirmTurnStartedOnce(t)
  PROVE  Growth
<1>1. CASE UNCHANGED <<tasks, log>>
  BY <1>1, GrowthNone
<1>2. CASE /\ tasks' = [tasks EXCEPT ![t].turn = TRUE, ![t].state = "interrupting",
                                     ![t].preInterruptState = "running"]
           /\ Append1(t, "interrupting")
  <2>1. /\ tasks'[t].preInterruptState \notin EndStates
        /\ tasks'[t].state \notin EndStates
        /\ \A u \in Tasks \ {t} : tasks'[u] \in {tasks[u], Null}
    BY <1>2, TasksAre DEF TaskRecords, EndStates
  <2>2. "interrupting" \in EventKinds
    BY DEF EventKinds
  <2> QED BY <1>2, <2>1, <2>2, AppendsPlain, GrowthRecord
<1>3. CASE /\ tasks' = [tasks EXCEPT ![t].turn = TRUE, ![t].state = "running"]
           /\ Append1(t, "turn_started")
  <2>1. /\ tasks'[t].preInterruptState = tasks[t].preInterruptState
        /\ tasks'[t].state \notin EndStates
        /\ \A u \in Tasks \ {t} : tasks'[u] \in {tasks[u], Null}
    BY <1>3, TasksAre DEF TaskRecords, EndStates
  <2>2. "turn_started" \in EventKinds
    BY DEF EventKinds
  <2> QED BY <1>3, <2>1, <2>2, AppendsPlain, GrowthTouched
<1> QED BY <1>1, <1>2, <1>3 DEF ConfirmTurnStartedOnce

LEMMA InterruptTurnGrows ==
  ASSUME Ready, NEW t \in Tasks, NEW n, InterruptTurn(t, n)
  PROVE  Growth
<1>1. CASE UNCHANGED <<tasks, log>>
  BY <1>1, GrowthNone
<1>2. CASE /\ Live(t)
           /\ tasks' = [tasks EXCEPT ![t].preInterruptState = Null,
                ![t].state = IF tasks[t].preInterruptState \in {Null, "interrupting"}
                             THEN "running" ELSE tasks[t].preInterruptState]
           /\ Append1(t, "interrupt_rejected")
  <2>1. Known(t) /\ tasks[t].preInterruptState \notin EndStates /\ Null \notin EndStates
    BY <1>2, NullIsNothing, EventsAre DEF Live, Ready, Rejectable
  <2>2. /\ tasks'[t].preInterruptState = Null
        /\ tasks'[t].state \in {"running", tasks[t].preInterruptState}
        /\ \A u \in Tasks \ {t} : tasks'[u] \in {tasks[u], Null}
    BY <1>2, <2>1, TasksAre DEF TaskRecords
  <2>3. tasks'[t].state \notin EndStates /\ "interrupt_rejected" \in EventKinds
    BY <2>1, <2>2 DEF EndStates, EventKinds
  <2> QED BY <1>2, <2>1, <2>2, <2>3, AppendsPlain, GrowthRecord
<1> QED BY <1>1, <1>2 DEF InterruptTurn, RollbackInterrupt

LEMMA BeginStartGrows ==
  ASSUME Ready, NEW t \in Tasks, BeginStart(t) \/ Connect(t) \/ SetTaskConnection(t)
  PROVE  Growth
<1>1. starters[t].pc \in {"begin", "connect", "attach"} /\ UNCHANGED log
  BY DEF BeginStart, Connect, SetTaskConnection, Step
<1>2. Known(t)
  BY <1>1, TasksAre
<1>3. \/ UNCHANGED tasks
      \/ tasks' = [tasks EXCEPT ![t].connectionCancel = "set"]
      \/ tasks' = [tasks EXCEPT ![t].connectionCancel = "none"]
      \/ tasks' = [tasks EXCEPT ![t].connection = Of(t)]
  BY DEF BeginStart, Connect, SetTaskConnection
<1>4. /\ tasks'[t].preInterruptState = tasks[t].preInterruptState
      /\ tasks'[t].state = tasks[t].state
      /\ \A u \in Tasks \ {t} : tasks'[u] \in {tasks[u], Null}
  BY <1>2, <1>3, TasksAre DEF TaskRecords
<1> QED BY <1>1, <1>2, <1>4, GrowthTouched

LEMMA StartMovesGrows ==
  ASSUME Ready, NEW t \in Tasks,
         EnsureMonitor(t) \/ ThreadReturns(t) \/ BeforeTurn(t) \/ TurnReturns(t)
  PROVE  Growth
BY GrowthNone DEF EnsureMonitor, ThreadReturns, BeforeTurn, TurnReturns, registry

LEMMA ConfirmingGrows ==
  ASSUME Ready, NEW t \in Tasks, BindThread(t) \/ ConfirmTurn(t) \/ SendInterrupt(t)
  PROVE  Growth
<1>1. Known(t)
  BY TasksAre DEF BindThread, ConfirmTurn, SendInterrupt, Step
<1> QED BY <1>1, ConfirmThreadGrows, ConfirmTurnGrows, InterruptTurnGrows, Zenon
        DEF BindThread, ConfirmTurn, SendInterrupt

LEMMA CompleteStartSuccessGrows ==
  ASSUME Ready, NEW t \in Tasks, CompleteStartSuccess(t)
  PROVE  Growth
<1>1. CASE UNCHANGED registry
  BY <1>1, GrowthNone DEF registry
<1>2. CASE /\ tasks' = [tasks EXCEPT ![t].deferred = FALSE]
           /\ log' = [log EXCEPT ![t] = @ \o Deferred(t)]
  <2>1. Known(t) /\ Deferred(t) \in Seq(Events)
    BY TasksAre, DeferredTells DEF CompleteStartSuccess, Step, Ready
  <2>2. /\ tasks'[t].preInterruptState = tasks[t].preInterruptState
        /\ tasks'[t].state = tasks[t].state
        /\ \A u \in Tasks \ {t} : tasks'[u] \in {tasks[u], Null}
    BY <1>2, <2>1, TasksAre DEF TaskRecords
  <2> QED BY <1>2, <2>1, <2>2, GrowthTouched
<1> QED BY <1>1, <1>2 DEF CompleteStartSuccess

\* One task comes to its end.
LEMMA EndTaskGrows ==
  ASSUME Ready, NEW t \in Tasks, Known(t), NEW state \in EndStates, EndTask(t, state, <<>>)
  PROVE  Growth
<1>1. <<>> \in Seq(Events)
  OBVIOUS
<1>2. \E ends : MayEnd(ends) /\ EndTasks(ends)
  BY <1>1, NothingFirst, EndTaskEnds DEF Ready
<1> QED BY <1>2, EndTasksGrow

LEMMA PreTurnInterruptGrows ==
  ASSUME Ready, NEW t \in Tasks, Known(t), entries[t] = "pending", PreTurnInterrupt(t)
  PROVE  Growth
<1>1. \E ends : MayEnd(ends) /\ EndTasks(ends)
  BY PreTurnInterruptEnds DEF Ready
<1> QED BY <1>1, EndTasksGrow

LEMMA CompletingGrows ==
  ASSUME Ready, NEW t \in Tasks, CompleteStartFailure(t) \/ CompletePreTurnInterrupt(t)
  PROVE  Growth
<1>1. Known(t) /\ "failed" \in EndStates
  BY TasksAre DEF CompleteStartFailure, CompletePreTurnInterrupt, Step, EndStates
<1>2. \/ UNCHANGED registry \/ UNCHANGED <<tasks, activeTask, log, requests>>
      \/ entries[t] = "pending" /\ PreTurnInterrupt(t)
      \/ EndTask(t, "failed", <<>>)
  BY Zenon DEF CompleteStartFailure, CompletePreTurnInterrupt
<1>3. CASE UNCHANGED registry \/ UNCHANGED <<tasks, activeTask, log, requests>>
  BY <1>3, GrowthNone DEF registry
<1> QED BY <1>1, <1>2, <1>3, PreTurnInterruptGrows, EndTaskGrows

LEMMA StartStepGrows ==
  ASSUME Ready, NEW t \in Tasks, StartStep(t)
  PROVE  Growth
BY BeginStartGrows, StartMovesGrows, ConfirmingGrows, CompleteStartSuccessGrows, CompletingGrows,
   Zenon DEF StartStep

LEMMA RetainedGrows ==
  ASSUME Ready, tasks' = RetainedTasks, UNCHANGED log
  PROVE  Growth
BY Retained, GrowthNone, Zenon DEF Ready

LEMMA InterruptTaskGrows ==
  ASSUME Ready, NEW i \in Interrupters, InterruptTask(i)
  PROVE  Growth
<1> DEFINE t == RetainedKeys[Targets[i]]
<1>1. t \in Tasks \cup {Null}
  BY TasksAssumption, Retained DEF Ready
<1>2. /\ RetainedTasks \in [Tasks -> TaskRecords \cup {Null}]
      /\ \A u \in Tasks : RetainedTasks[u] \in {tasks[u], Null}
  BY Retained, Zenon DEF Ready
<1>3. ASSUME t # Null, Live(t)
      PROVE  /\ t \in Tasks /\ tasks[t] \in TaskRecords /\ RetainedTasks[t] = tasks[t]
             /\ tasks[t].state \notin EndStates /\ Known(t)
  <2>1. Targets[i] \in Keys
    BY TasksAssumption
  <2> QED BY <1>1, <1>3, <2>1, Retained, TasksAre DEF Live, Terminal, Ready
<1>4. CASE tasks' = RetainedTasks /\ UNCHANGED log
  BY <1>4, RetainedGrows
<1>5. ASSUME t # Null, Live(t), UNCHANGED log,
             tasks' = [RetainedTasks EXCEPT ![t].cancelBeforeTurn = TRUE,
                           ![t].connectionCancel = IF @ = "set" THEN "called" ELSE @]
      PROVE  Growth
  <2>1. t \in Tasks /\ tasks[t] \in TaskRecords /\ RetainedTasks[t] = tasks[t] /\ Known(t)
    BY <1>3, <1>5
  <2> HIDE DEF t
  <2>2. /\ tasks'[t].preInterruptState = tasks[t].preInterruptState
        /\ tasks'[t].state = tasks[t].state
        /\ \A u \in Tasks \ {t} : tasks'[u] \in {tasks[u], Null}
    BY <1>2, <1>5, <2>1 DEF TaskRecords
  <2> QED BY <1>5, <2>1, <2>2, GrowthTouched
<1>6. ASSUME t # Null, Live(t), Append1(t, "interrupting"),
             tasks' = [RetainedTasks EXCEPT ![t].preInterruptState = tasks[t].state,
                                            ![t].state = "interrupting"]
      PROVE  Growth
  <2>1. /\ t \in Tasks /\ tasks[t] \in TaskRecords /\ RetainedTasks[t] = tasks[t] /\ Known(t)
        /\ tasks[t].state \notin EndStates
    BY <1>3, <1>6
  <2> HIDE DEF t
  <2>2. /\ tasks'[t].preInterruptState = tasks[t].state
        /\ tasks'[t].state = "interrupting"
        /\ \A u \in Tasks \ {t} : tasks'[u] \in {tasks[u], Null}
    BY <1>2, <1>6, <2>1 DEF TaskRecords
  <2>3. "interrupting" \in EventKinds /\ "interrupting" \notin EndStates
    BY DEF EventKinds, EndStates
  <2> QED BY <1>6, <2>1, <2>2, <2>3, AppendsPlain, GrowthRecord
<1> QED BY <1>4, <1>5, <1>6, Zenon DEF InterruptTask

LEMMA InterruptReturnsGrows ==
  ASSUME Ready, NEW i \in Interrupters, InterruptReturns(i)
  PROVE  Growth
<1>1. interrupters[i].task \in Tasks
  BY DEF InterruptReturns, Ready, TasksInv, GoroutinesNamed
<1> QED BY <1>1, InterruptTurnGrows DEF InterruptReturns

LEMMA HandleTurnCompletedGrows ==
  ASSUME Ready, NEW n \in Connections, HandleTurnCompleted(n)
  PROVE  Growth
<1> DEFINE note == Head(notes[n])
           t == note.task
<1>1. t \in Tasks /\ note.status \in {"completed", "interrupted", "other"}
  BY ReadNote DEF HandleTurnCompleted, Ready
<1>2. CASE UNCHANGED <<tasks, activeTask, log, requests>>
  BY <1>2, GrowthNone
<1>3. CASE /\ IsOn(t, n)
           /\ IF note.status = "other" THEN EndTask(t, "failed", <<Plain("unknown_status")>>)
                                       ELSE EndTask(t, note.status, <<>>)
  <2>1. Known(t)
    BY <1>3 DEF IsOn
  <2>2. \E ends : MayEnd(ends) /\ EndTasks(ends)
    <3> HIDE DEF t, note
    <3> QED BY <1>1, <1>3, <2>1, TurnCompletedEnds DEF Ready
  <2> QED BY <2>2, EndTasksGrow
<1> QED BY <1>2, <1>3 DEF HandleTurnCompleted

LEMMA ResolveGrows ==
  ASSUME Ready, NEW q \in Requests, requests[q].task \in Tasks, Known(requests[q].task), Resolve(q)
  PROVE  Growth
<1> DEFINE t == requests[q].task
<1>1. /\ tasks' = [tasks EXCEPT ![t].state = StateWithout(t, {q})]
      /\ log' = [log EXCEPT ![t] = Append(@, About("resolved", q))]
      /\ StateWithout(t, {q}) \in {"running", tasks[t].state}
  BY DEF Resolve, StateWithout
<1>2. About("resolved", q) \in Events
  BY EventsAre DEF EventKinds
<1> HIDE DEF t
<1>3. /\ tasks'[t].preInterruptState = tasks[t].preInterruptState
      /\ tasks'[t].state \notin EndStates \/ tasks'[t].state = tasks[t].state
      /\ \A u \in Tasks \ {t} : tasks'[u] \in {tasks[u], Null}
  BY <1>1, TasksAre DEF TaskRecords, EndStates, t
<1> QED BY <1>1, <1>2, <1>3, AppendsOne, GrowthTouched DEF t

LEMMA RequestOfTask ==
  ASSUME Ready, NEW q \in Requests, requests[q].state # "none"
  PROVE  requests[q].task \in Tasks
BY DEF Ready, TasksInv, RequestsNamed

LEMMA HandleServerRequestResolvedGrows ==
  ASSUME Ready, NEW n \in Connections, HandleServerRequestResolved(n)
  PROVE  Growth
<1> DEFINE q == Head(notes[n]).request
<1>1. q \in Requests
  BY ReadNote DEF HandleServerRequestResolved, Ready
<1>2. CASE UNCHANGED <<registry, responses>>
  BY <1>2, GrowthNone DEF registry
<1>3. CASE requests[q].state = "active" /\ IsOn(requests[q].task, n) /\ Resolve(q)
  BY <1>1, <1>3, RequestOfTask, ResolveGrows DEF IsOn
<1> QED BY <1>2, <1>3 DEF HandleServerRequestResolved

LEMMA ConcatThree ==
  ASSUME NEW a \in Seq(Events), NEW b \in Seq(Events), NEW c \in Seq(Events)
  PROVE  b \o c \in Seq(Events) /\ (a \o b) \o c = a \o (b \o c)
<1>1. Len(b \o c) = Len(b) + Len(c) /\ b \o c \in Seq(Events) /\ a \o b \in Seq(Events)
  OBVIOUS
<1>2. Len((a \o b) \o c) = Len(a \o (b \o c))
  BY <1>1
<1>3. \A i \in 1..Len((a \o b) \o c) : ((a \o b) \o c)[i] = (a \o (b \o c))[i]
  BY <1>1
<1> QED BY <1>1, <1>2, <1>3

LEMMA TakeAskGrows ==
  ASSUME Ready, NEW n \in Connections, TakeAsk(n)
  PROVE  Growth
<1> DEFINE q == Head(asks[n])
           t == requests[q].task
<1>1. q \in Requests /\ t \in Tasks
  BY AskTaken DEF TakeAsk, Ready
<1>2. /\ About("created", q) \in Events /\ About("resolved", q) \in Events
      /\ "over_limit" \in EventKinds
  BY <1>1, EventsAre DEF EventKinds
<1>3. ASSUME NEW warns \in BOOLEAN, warns => Known(t), AutoResolve(q, n, warns)
      PROVE  Growth
  <2>1. UNCHANGED tasks /\ (UNCHANGED log \/ (warns /\ Append1(t, "over_limit")))
    BY <1>3, Zenon DEF AutoResolve
  <2> HIDE DEF q, t
  <2>2. CASE UNCHANGED log
    BY <2>1, <2>2, GrowthNone
  <2>3. CASE warns /\ Append1(t, "over_limit")
    BY <1>1, <1>2, <1>3, <2>1, <2>3, AppendsPlain, GrowthTouched
  <2> QED BY <2>1, <2>2, <2>3
<1>4. CASE Known(t) /\ Create(q, n)
  <2> DEFINE x == <<About("created", q)>>
             y == IF q \in backlog[n] THEN <<About("resolved", q)>> ELSE <<>>
  <2>1. /\ log' = [log EXCEPT ![t] = @ \o x \o y]
        /\ \/ tasks' = [tasks EXCEPT ![t].state = "running"]
           \/ tasks' = [tasks EXCEPT ![t].state = "waiting"]
    BY <1>4 DEF Create
  <2> HIDE DEF q, t
  <2>2. x \in Seq(Events) /\ y \in Seq(Events)
    BY <1>2
  <2>3. log[t] \in Seq(Events)
    BY <1>1 DEF Ready, TasksInv, LogsType
  <2> HIDE DEF x, y
  <2>4. x \o y \in Seq(Events) /\ log[t] \o x \o y = log[t] \o (x \o y)
    BY <2>2, <2>3, ConcatThree
  <2>5. log' = [log EXCEPT ![t] = log[t] \o (x \o y)]
    BY <2>1, <2>4
  <2>6. /\ tasks'[t].preInterruptState = tasks[t].preInterruptState
        /\ tasks'[t].state \notin EndStates
        /\ \A u \in Tasks \ {t} : tasks'[u] \in {tasks[u], Null}
    BY <1>1, <1>4, <2>1, TasksAre DEF TaskRecords, EndStates
  <2> QED BY <1>1, <1>4, <2>4, <2>5, <2>6, GrowthTouched
<1>5. TaskAsked(q, n) => Known(t)
  BY DEF TaskAsked, IsOn
<1>6. \/ AutoResolve(q, n, FALSE)
      \/ TaskAsked(q, n) /\ AutoResolve(q, n, TRUE)
      \/ TaskAsked(q, n) /\ Create(q, n)
  BY Zenon DEF TakeAsk
<1> HIDE DEF q, t
<1> QED BY <1>3, <1>4, <1>5, <1>6

LEMMA MonitorStepGrows ==
  ASSUME Ready, NEW n \in Connections, MonitorStep(n)
  PROVE  Growth
<1>1. CASE HandleThreadStarted(n)
  <2> DEFINE t == Head(notes[n]).task
  <2>1. t \in Tasks
    BY <1>1, ReadNote DEF HandleThreadStarted, Ready
  <2>2. \/ UNCHANGED <<tasks, log>>
        \/ Known(t) /\ ConfirmThreadStarted(t)
    BY <1>1 DEF HandleThreadStarted, IsOn
  <2> HIDE DEF t
  <2> QED BY <2>1, <2>2, GrowthNone, ConfirmThreadGrows
<1>2. CASE HandleTurnStarted(n)
  BY <1>2, GrowthNone DEF HandleTurnStarted, registry
<1>3. CASE MonitorConfirms(n) \/ MonitorInterrupts(n)
  <2>1. monitors[n].task \in Tasks
    BY <1>3, MonitorsAre DEF Ready, MonitorConfirms, MonitorInterrupts
  <2>2. CASE MonitorConfirms(n)
    BY <2>1, <2>2, GrowthNone, ConfirmTurnGrows DEF MonitorConfirms
  <2>3. CASE MonitorInterrupts(n)
    BY <2>1, <2>3, InterruptTurnGrows DEF MonitorInterrupts
  <2> QED BY <1>3, <2>2, <2>3
<1>4. CASE MonitorEnds(n)
  BY <1>4, FailingMayEnd, MonitorEndsDoes, EndTasksGrow DEF Ready
<1> QED BY <1>1, <1>2, <1>3, <1>4, HandleTurnCompletedGrows, HandleServerRequestResolvedGrows,
           TakeAskGrows, Zenon DEF MonitorStep

LEMMA ResponderStepGrows ==
  ASSUME Ready, NEW r \in Responders, ResponderStep(r)
  PROVE  Growth
<1> DEFINE q == Answers[r][1]
<1>1. q \in Requests
  BY AnswersAre DEF Ready
<1>2. CASE UNCHANGED <<tasks, log>>
  BY <1>2, GrowthNone
<1>3. CASE Known(requests[q].task) /\ requests[q].state = "active" /\ Resolve(q)
  BY <1>1, <1>3, RequestOfTask, ResolveGrows
<1> QED BY <1>2, <1>3 DEF ResponderStep, ClaimResponse, WriteResponse, CompleteResponse,
                          WaitForResponse, registry

LEMMA HookGrows ==
  ASSUME Ready, AuthRefreshFails \/ UnsupportedRequest
  PROVE  Growth
<1> DEFINE t == activeTask
<1>1. t \in Tasks /\ Known(t) /\ "failed" \in EndStates /\ "unsupported" \in EventKinds
  BY DEF AuthRefreshFails, UnsupportedRequest, Live, Ready, TasksInv, TaskTypes, EndStates, EventKinds
<1>2. CASE AuthRefreshFails
  BY <1>1, <1>2, EndTaskGrows DEF AuthRefreshFails
<1>3. CASE UnsupportedRequest
  <2>1. \/ tasks' = [tasks EXCEPT ![t].deferred = TRUE] /\ UNCHANGED log
        \/ Append1(t, "unsupported") /\ UNCHANGED tasks
    BY <1>3 DEF UnsupportedRequest
  <2> HIDE DEF t
  <2>2. /\ tasks'[t].preInterruptState = tasks[t].preInterruptState
        /\ tasks'[t].state = tasks[t].state
        /\ \A u \in Tasks \ {t} : tasks'[u] \in {tasks[u], Null}
    BY <1>1, <2>1, TasksAre DEF TaskRecords
  <2> QED BY <1>1, <2>1, <2>2, AppendsPlain, GrowthTouched
<1> QED BY <1>2, <1>3

\* A task that begins is not known to any stream.
LEMMA ClaimStartGrows ==
  ASSUME Ready, NEW c \in Clients, ClaimStart(c)
  PROVE  Growth /\ \A t \in Tasks : log[t] # <<>> => log'[t] = log[t]
<1>1. CASE tasks' = RetainedTasks /\ UNCHANGED log
  BY <1>1, RetainedGrows
<1>2. ASSUME NEW t \in Tasks, starters[t].pc = "none", Append1(t, "task_started"),
             NEW r, r.state = "starting", r.preInterruptState = Null,
             tasks' = [RetainedTasks EXCEPT ![t] = r]
      PROVE  Growth /\ \A u \in Tasks : log[u] # <<>> => log'[u] = log[u]
  <2>1. /\ RetainedTasks \in [Tasks -> TaskRecords \cup {Null}]
        /\ \A u \in Tasks : RetainedTasks[u] \in {tasks[u], Null}
    BY Retained, Zenon DEF Ready
  <2>2. /\ tasks'[t] = r /\ \A u \in Tasks \ {t} : tasks'[u] \in {tasks[u], Null}
    BY <1>2, <2>1
  <2>3. log \in [Tasks -> Seq(Events)] /\ log[t] = <<>>
    BY <1>2 DEF Ready, TasksInv, LogsType, Lives
  <2>4. \A u \in Tasks \ {t} : log'[u] = log[u] /\ Len(log[u]) \in Nat
    BY <1>2, <2>3 DEF Append1
  <2>5. log'[t] = Append(<<>>, Plain("task_started"))
    BY <1>2, <2>3 DEF Append1
  <2>6. Len(log[t]) <= Len(log'[t])
    BY <2>3, <2>5
  <2>7. r.state \notin EndStates /\ r.preInterruptState \notin EndStates
    BY <1>2, NullIsNothing, EventsAre DEF EndStates
  <2>8. \A u \in Tasks : TaskKeeps(u)
    BY <2>2, <2>7, Zenon DEF Ready, Rejectable, TaskKeeps, Known, Terminal
  <2>9. \A u \in Tasks : Len(log[u]) <= Len(log'[u])
    BY <2>4, <2>6
  <2>10. \A u \in Tasks : t # u /\ log[u] = <<>> => log'[u] = <<>>
    BY <2>4, Zenon
  <2>11. \A u \in Tasks : log[u] # <<>> => log'[u] = log[u]
    BY <2>3, <2>4, Zenon
  <2> QED BY <2>8, <2>9, <2>10, <2>11, Zenon DEF Growth
<1>3. ASSUME NEW t \in Tasks, starters[t].pc = "none", Append1(t, "task_started"),
             tasks' = [RetainedTasks EXCEPT ![t] =
                  [key |-> Commands[c].key, state |-> "starting", thread |-> FALSE, turn |-> FALSE,
                   connection |-> Null, connectionCancel |-> "none", cancelBeforeTurn |-> FALSE,
                   preInterruptState |-> Null, deferred |-> FALSE]]
      PROVE  Growth /\ \A u \in Tasks : log[u] # <<>> => log'[u] = log[u]
  <2> DEFINE r == [key |-> Commands[c].key, state |-> "starting", thread |-> FALSE, turn |-> FALSE,
                   connection |-> Null, connectionCancel |-> "none", cancelBeforeTurn |-> FALSE,
                   preInterruptState |-> Null, deferred |-> FALSE]
  <2>1. r.state = "starting" /\ r.preInterruptState = Null
    OBVIOUS
  <2>2. tasks' = [RetainedTasks EXCEPT ![t] = r]
    BY <1>3
  <2> HIDE DEF r
  <2> QED BY <1>2, <1>3, <2>1, <2>2
<1>4. \/ tasks' = RetainedTasks /\ UNCHANGED log
      \/ \E t \in Tasks :
           /\ starters[t].pc = "none" /\ Append1(t, "task_started")
           /\ tasks' = [RetainedTasks EXCEPT ![t] =
                  [key |-> Commands[c].key, state |-> "starting", thread |-> FALSE, turn |-> FALSE,
                   connection |-> Null, connectionCancel |-> "none", cancelBeforeTurn |-> FALSE,
                   preInterruptState |-> Null, deferred |-> FALSE]]
  BY Zenon DEF ClaimStart
<1> QED BY <1>1, <1>3, <1>4, Zenon

LEMMA AppServerGrows ==
  ASSUME Ready, RestOfAppServer
  PROVE  Growth
BY GrowthNone DEF RestOfAppServer

LEMMA TasksNextGrows ==
  ASSUME Ready, TasksNext
  PROVE  Growth
<1>1. CASE GatewayStep
  BY <1>1, ClaimStartGrows, StartStepGrows, InterruptTaskGrows, InterruptReturnsGrows,
     MonitorStepGrows, ResponderStepGrows, Zenon DEF GatewayStep
<1>2. CASE \/ AppServerStep \/ \E t \in Tasks : CodexStartsThread(t)
           \/ \E q \in Requests : CodexWithdraws(q)
           \/ \E n \in Connections : ConnectionIsLost(n)
  <2>1. RestOfAppServer
    BY <1>2, Zenon DEF AppServerStep, CodexStartsThread, CodexStartsTurn, CodexEndsTurn, CodexAsks,
                       CodexWithdraws, ConnectionIsLost
  <2> QED BY <2>1, AppServerGrows
<1>3. CASE GetTaskStatus
  BY <1>3, RetainedGrows DEF GetTaskStatus
<1>4. ASSUME NEW t \in Tasks, RetentionEnds(t) PROVE Growth
  BY <1>4, GrowthNone DEF RetentionEnds, registry
<1> QED BY <1>1, <1>2, <1>3, <1>4, HookGrows, Zenon DEF TasksNext

LEMMA ReadyKept ==
  ASSUME Ready, TasksNext \/ UNCHANGED vars
  PROVE  Ready'
<1>1. CASE TasksNext
  <2>1. TasksInv' /\ Growth
    BY <1>1, TasksNextKeeps, TasksNextGrows DEF Ready
  <2>2. \A t \in Tasks : Rejectable(t)'
    BY <2>1, Zenon DEF Growth, TaskKeeps, Rejectable, Known
  <2>3. IsFiniteSet(Begun')
    <3>1. PICK u : \A t \in Tasks : t # u /\ log[t] = <<>> => log'[t] = <<>>
      BY <2>1, Zenon DEF Growth
    <3>2. Begun' \subseteq Begun \cup {u}
      BY <3>1 DEF Begun
    <3>3. IsFiniteSet(Begun \cup {u})
      BY FS_AddElement, Zenon DEF Ready
    <3> QED BY <3>2, <3>3, FS_Subset, Zenon
  <2> QED BY <2>1, <2>2, <2>3 DEF Ready
<1>2. CASE UNCHANGED vars
  <2>1. UNCHANGED <<tasks, log>> /\ TasksInv'
    BY <1>2, TasksNextKeeps DEF Ready, vars, registry
  <2> QED BY <2>1 DEF Ready, Rejectable, Known, Begun
<1> QED BY <1>1, <1>2

LEMMA ReadyAtFirst ==
  ASSUME TasksInit
  PROVE  Ready
<1>1. TasksInv
  BY TasksInitEstablishes
<1>2. \A t \in Tasks : tasks[t] = Null /\ log[t] = <<>>
  BY DEF TasksInit
<1>3. Begun = {}
  BY <1>2 DEF Begun
<1> QED BY <1>1, <1>2, <1>3, FS_EmptySet DEF Ready, Rejectable, Known

-----------------------------------------------------------------------------
(* Publications                                                            *)

Publications == [event : Nat \ {0}, to : SUBSET Streams, closeAfter : BOOLEAN]

\* The events a list of publications has for a stream; that none comes twice; whether one
\* of them closes the stream.
Due(pubs, s) == {pubs[i].event : i \in {j \in DOMAIN pubs : s \in pubs[j].to}}
Once(pubs, s) ==
  \A i, j \in DOMAIN pubs :
    s \in pubs[i].to /\ s \in pubs[j].to /\ pubs[i].event = pubs[j].event => i = j
Closes(pubs, s) == \E i \in DOMAIN pubs : s \in pubs[i].to /\ pubs[i].closeAfter

-----------------------------------------------------------------------------
(* The inductive invariant                                                 *)

StreamRecords ==
  [pc : {"new", "open", "done"}, task : Tasks \cup {Null}, first : Nat, replay : Seq(Nat),
   registered : BOOLEAN, queue : Seq(Nat), closed : BOOLEAN, received : SUBSET Nat]
StreamsType ==
  /\ streams \in [Streams -> StreamRecords]
  /\ publishing \in [Goroutines -> Seq(Publications)]

\* What is to be sent to a stream is with one goroutine, once.
SentOnce(s) ==
  /\ \A g \in Goroutines : Once(publishing[g], s)
  /\ \A g, h \in Goroutines : g # h => Due(publishing[g], s) \cap Due(publishing[h], s) = {}

\* What a stream holds, has handed out and is still to be sent, of the events up to last.
Fits(stream, sent, last) ==
  LET held == stream.replay \o stream.queue IN
  /\ IsInjective(held)
  /\ Range(held) \cap (stream.received \cup sent) = {} /\ stream.received \cap sent = {}
  /\ Range(held) \cup stream.received \cup sent \subseteq 0..last
  /\ stream.first <= last + 1
  /\ ~stream.closed =>
       (Range(held) \cup stream.received \cup sent) \ {Notice} = stream.first..last

\* One that is not closed is told of the end of its task.
OpenStream(s) ==
  LET t == streams[s].task IN
  /\ t \in Tasks /\ log[t] # <<>>
  /\ SentOnce(s)
  /\ Fits(streams[s], SentTo(s), Len(log[t]))
  /\ ~streams[s].closed =>
       /\ streams[s].registered
       /\ Known(t) /\ Terminal(t) => \E g \in Goroutines : Closes(publishing[g], s)

StreamIs(s) ==
  /\ streams[s].pc # "open" => ~streams[s].registered
  /\ streams[s].pc = "new" => \A g \in Goroutines : Due(publishing[g], s) = {}
  /\ streams[s].pc = "open" => OpenStream(s)

TaskStreamsInv == StreamsType /\ \A s \in Streams : StreamIs(s)

-----------------------------------------------------------------------------
(* Lists of publications                                                   *)

LEMMA ConcatOf ==
  ASSUME NEW a \in Seq(Publications), NEW b \in Seq(Publications)
  PROVE  /\ a \o b \in Seq(Publications)
         /\ DOMAIN a = 1..Len(a) /\ DOMAIN b = 1..Len(b)
         /\ DOMAIN (a \o b) = 1..(Len(a) + Len(b))
         /\ Len(a) \in Nat /\ Len(b) \in Nat
         /\ \A i \in 1..Len(a) : (a \o b)[i] = a[i]
         /\ \A i \in 1..Len(b) : (a \o b)[Len(a) + i] = b[i]
         /\ \A i \in DOMAIN (a \o b) :
              i \in 1..Len(a) \/ \E j \in 1..Len(b) : i = Len(a) + j
<1> HIDE DEF Publications
<1>1. /\ a \o b \in Seq(Publications) /\ Len(a \o b) = Len(a) + Len(b)
      /\ Len(a) \in Nat /\ Len(b) \in Nat
  OBVIOUS
<1>2. \A i \in 1..Len(a) : (a \o b)[i] = a[i]
  OBVIOUS
<1>3. \A i \in 1..Len(b) : (a \o b)[Len(a) + i] = b[i]
  OBVIOUS
<1>4. ASSUME NEW i \in 1..(Len(a) + Len(b)), i \notin 1..Len(a)
      PROVE  \E j \in 1..Len(b) : i = Len(a) + j
  <2>1. i - Len(a) \in 1..Len(b) /\ i = Len(a) + (i - Len(a))
    BY <1>1, <1>4
  <2> QED BY <2>1
<1>5. /\ DOMAIN a = 1..Len(a) /\ DOMAIN b = 1..Len(b)
      /\ DOMAIN (a \o b) = 1..(Len(a) + Len(b))
  BY <1>1
<1> QED BY <1>1, <1>2, <1>3, <1>4, <1>5

LEMMA DueOfConcat ==
  ASSUME NEW a \in Seq(Publications), NEW b \in Seq(Publications), NEW s
  PROVE  /\ Due(a \o b, s) = Due(a, s) \cup Due(b, s)
         /\ Closes(a \o b, s) <=> Closes(a, s) \/ Closes(b, s)
         /\ Once(a \o b, s) <=>
              Once(a, s) /\ Once(b, s) /\ Due(a, s) \cap Due(b, s) = {}
<1> DEFINE c == a \o b
           n == Len(a)
<1>1. /\ DOMAIN a = 1..n /\ DOMAIN b = 1..Len(b) /\ DOMAIN c = 1..(n + Len(b))
      /\ n \in Nat /\ Len(b) \in Nat
      /\ \A i \in 1..n : i \in DOMAIN c /\ c[i] = a[i]
      /\ \A i \in 1..Len(b) : n + i \in DOMAIN c /\ c[n + i] = b[i] /\ n + i \notin 1..n
      /\ \A i \in DOMAIN c : i \in 1..n \/ \E j \in 1..Len(b) : i = n + j
      /\ \A i, j \in 1..Len(b) : n + i = n + j => i = j
  BY ConcatOf
<1> HIDE DEF c, n
<1>2. Due(c, s) = Due(a, s) \cup Due(b, s)
  <2>1. ASSUME NEW e \in Due(a, s) PROVE e \in Due(c, s)
    <3>1. PICK i \in DOMAIN a : s \in a[i].to /\ e = a[i].event
      BY DEF Due
    <3> QED BY <1>1, <3>1 DEF Due
  <2>2. ASSUME NEW e \in Due(b, s) PROVE e \in Due(c, s)
    <3>1. PICK i \in DOMAIN b : s \in b[i].to /\ e = b[i].event
      BY DEF Due
    <3>2. n + i \in DOMAIN c /\ c[n + i] = b[i]
      BY <1>1
    <3> QED BY <3>1, <3>2 DEF Due
  <2>3. ASSUME NEW e \in Due(c, s) PROVE e \in Due(a, s) \cup Due(b, s)
    <3>1. PICK i \in DOMAIN c : s \in c[i].to /\ e = c[i].event
      BY DEF Due
    <3>2. CASE i \in 1..n
      BY <1>1, <3>1, <3>2 DEF Due
    <3>3. ASSUME NEW j \in 1..Len(b), i = n + j PROVE e \in Due(b, s)
      BY <1>1, <3>1, <3>3 DEF Due
    <3> QED BY <1>1, <3>2, <3>3
  <2> QED BY <2>1, <2>2, <2>3
<1>3. Closes(c, s) <=> Closes(a, s) \/ Closes(b, s)
  <2>1. ASSUME Closes(a, s) PROVE Closes(c, s)
    BY <1>1, <2>1 DEF Closes
  <2>2. ASSUME Closes(b, s) PROVE Closes(c, s)
    <3>1. PICK i \in DOMAIN b : s \in b[i].to /\ b[i].closeAfter
      BY <2>2 DEF Closes
    <3>2. n + i \in DOMAIN c /\ c[n + i] = b[i]
      BY <1>1
    <3> QED BY <3>1, <3>2 DEF Closes
  <2>3. ASSUME Closes(c, s) PROVE Closes(a, s) \/ Closes(b, s)
    <3>1. PICK i \in DOMAIN c : s \in c[i].to /\ c[i].closeAfter
      BY <2>3 DEF Closes
    <3>2. CASE i \in 1..n
      BY <1>1, <3>1, <3>2 DEF Closes
    <3>3. ASSUME NEW j \in 1..Len(b), i = n + j PROVE Closes(b, s)
      BY <1>1, <3>1, <3>3 DEF Closes
    <3> QED BY <1>1, <3>2, <3>3
  <2> QED BY <2>1, <2>2, <2>3
<1>4. ASSUME Once(c, s) PROVE Once(a, s) /\ Once(b, s) /\ Due(a, s) \cap Due(b, s) = {}
  <2>1. \A i, j \in DOMAIN c :
          s \in c[i].to /\ s \in c[j].to /\ c[i].event = c[j].event => i = j
    BY <1>4 DEF Once
  <2>2. Once(a, s)
    <3> SUFFICES ASSUME NEW i \in DOMAIN a, NEW j \in DOMAIN a, s \in a[i].to, s \in a[j].to,
                        a[i].event = a[j].event
                 PROVE  i = j
      BY DEF Once
    <3>1. i \in DOMAIN c /\ j \in DOMAIN c /\ c[i] = a[i] /\ c[j] = a[j]
      BY <1>1
    <3> QED BY <2>1, <3>1, Zenon
  <2>3. Once(b, s)
    <3> SUFFICES ASSUME NEW i \in DOMAIN b, NEW j \in DOMAIN b, s \in b[i].to, s \in b[j].to,
                        b[i].event = b[j].event
                 PROVE  i = j
      BY DEF Once
    <3>1. n + i \in DOMAIN c /\ n + j \in DOMAIN c /\ c[n + i] = b[i] /\ c[n + j] = b[j]
      BY <1>1
    <3>2. n + i = n + j
      BY <2>1, <3>1, Zenon
    <3> QED BY <1>1, <3>2, Zenon
  <2>4. ASSUME NEW e \in Due(a, s), e \in Due(b, s) PROVE FALSE
    <3>1. PICK i \in DOMAIN a : s \in a[i].to /\ e = a[i].event
      BY DEF Due
    <3>2. PICK j \in DOMAIN b : s \in b[j].to /\ e = b[j].event
      BY <2>4 DEF Due
    <3>3. i \in DOMAIN c /\ c[i] = a[i] /\ n + j \in DOMAIN c /\ c[n + j] = b[j]
          /\ n + j \notin 1..n /\ i \in 1..n
      BY <1>1
    <3>4. i = n + j
      BY <2>1, <3>1, <3>2, <3>3, Zenon
    <3> QED BY <3>3, <3>4, Zenon
  <2> QED BY <2>2, <2>3, <2>4
<1>5. ASSUME Once(a, s), Once(b, s), Due(a, s) \cap Due(b, s) = {} PROVE Once(c, s)
  <2> SUFFICES ASSUME NEW i \in DOMAIN c, NEW j \in DOMAIN c, s \in c[i].to, s \in c[j].to,
                      c[i].event = c[j].event
               PROVE  i = j
    BY DEF Once
  <2>1. ASSUME NEW k \in DOMAIN a, NEW l \in DOMAIN b, s \in a[k].to, s \in b[l].to
        PROVE  a[k].event # b[l].event
    <3>1. a[k].event \in Due(a, s) /\ b[l].event \in Due(b, s)
      BY <2>1 DEF Due
    <3> QED BY <1>5, <3>1
  <2>2. CASE i \in 1..n /\ j \in 1..n
    BY <1>1, <1>5, <2>2 DEF Once
  <2>3. ASSUME i \in 1..n, NEW l \in 1..Len(b), j = n + l PROVE i = j
    <3>1. i \in DOMAIN a /\ l \in DOMAIN b /\ c[i] = a[i] /\ c[j] = b[l]
      BY <1>1, <2>3
    <3> QED BY <2>1, <3>1, Zenon
  <2>4. ASSUME j \in 1..n, NEW l \in 1..Len(b), i = n + l PROVE i = j
    <3>1. j \in DOMAIN a /\ l \in DOMAIN b /\ c[j] = a[j] /\ c[i] = b[l]
      BY <1>1, <2>4
    <3> QED BY <2>1, <3>1, Zenon
  <2>5. ASSUME NEW k \in 1..Len(b), NEW l \in 1..Len(b), i = n + k, j = n + l PROVE i = j
    <3>1. k \in DOMAIN b /\ l \in DOMAIN b /\ c[i] = b[k] /\ c[j] = b[l]
      BY <1>1, <2>5
    <3>2. k = l
      BY <1>5, <3>1, Zenon DEF Once
    <3> QED BY <2>5, <3>2
  <2> QED BY <1>1, <2>2, <2>3, <2>4, <2>5, Zenon
<1> QED BY <1>2, <1>3, <1>4, <1>5 DEF c

LEMMA DueOfOne ==
  ASSUME NEW p \in Publications, NEW s
  PROVE  /\ <<p>> \in Seq(Publications)
         /\ Due(<<p>>, s) = IF s \in p.to THEN {p.event} ELSE {}
         /\ Closes(<<p>>, s) <=> s \in p.to /\ p.closeAfter
         /\ Once(<<p>>, s)
<1>1. DOMAIN <<p>> = {1} /\ <<p>>[1] = p /\ <<p>> \in Seq(Publications)
  OBVIOUS
<1>2. Due(<<p>>, s) = IF s \in p.to THEN {p.event} ELSE {}
  BY <1>1 DEF Due
<1> QED BY <1>1, <1>2 DEF Closes, Once

LEMMA DueOfNone ==
  ASSUME NEW s
  PROVE  Due(<<>>, s) = {} /\ Once(<<>>, s) /\ ~Closes(<<>>, s) /\ <<>> \in Seq(Publications)
BY DEF Due, Once, Closes

\* What a goroutine has yet to send once the head of its list has been sent to s.
Rest(pubs, s) ==
  IF Head(pubs).to = {s} THEN Tail(pubs)
                         ELSE <<[Head(pubs) EXCEPT !.to = @ \ {s}]>> \o Tail(pubs)

LEMMA DueOfRest ==
  ASSUME NEW pubs \in Seq(Publications), pubs # <<>>, NEW s \in Head(pubs).to
  PROVE  /\ Rest(pubs, s) \in Seq(Publications) /\ Head(pubs) \in Publications
         /\ \A u : u # s => /\ Due(Rest(pubs, s), u) = Due(pubs, u)
                            /\ Once(pubs, u) => Once(Rest(pubs, s), u)
                            /\ Closes(pubs, u) => Closes(Rest(pubs, s), u)
         /\ Head(pubs).event \in Due(pubs, s)
         /\ Once(pubs, s) => /\ Due(Rest(pubs, s), s) = Due(pubs, s) \ {Head(pubs).event}
                             /\ Once(Rest(pubs, s), s)
         /\ Closes(pubs, s) /\ ~Head(pubs).closeAfter => Closes(Rest(pubs, s), s)
<1> DEFINE p == Head(pubs)
           rest == Tail(pubs)
           q == [p EXCEPT !.to = @ \ {s}]
<1>1. p \in Publications /\ rest \in Seq(Publications) /\ pubs = <<p>> \o rest
  <2> HIDE DEF Publications
  <2> QED OBVIOUS
<1>2. q \in Publications /\ q.to = p.to \ {s} /\ q.event = p.event /\ q.closeAfter = p.closeAfter
  BY <1>1 DEF Publications
<1>3. Rest(pubs, s) = IF p.to = {s} THEN rest ELSE <<q>> \o rest
  BY DEF Rest
<1> HIDE DEF p, rest, q
<1>4. /\ <<p>> \in Seq(Publications) /\ <<q>> \in Seq(Publications)
      /\ \A u : /\ Due(<<p>>, u) = IF u \in p.to THEN {p.event} ELSE {}
                /\ Closes(<<p>>, u) <=> u \in p.to /\ p.closeAfter
                /\ Once(<<p>>, u)
      /\ \A u : /\ Due(<<q>>, u) = IF u \in q.to THEN {q.event} ELSE {}
                /\ Closes(<<q>>, u) <=> u \in q.to /\ q.closeAfter
                /\ Once(<<q>>, u)
  BY <1>1, <1>2, DueOfOne
<1>5. \A u : /\ Due(pubs, u) = Due(<<p>>, u) \cup Due(rest, u)
             /\ Closes(pubs, u) <=> Closes(<<p>>, u) \/ Closes(rest, u)
             /\ Once(pubs, u) <=> Once(<<p>>, u) /\ Once(rest, u) /\ Due(<<p>>, u) \cap Due(rest, u) = {}
  BY <1>1, <1>4, DueOfConcat
<1>6. \A u : /\ Due(<<q>> \o rest, u) = Due(<<q>>, u) \cup Due(rest, u)
             /\ Closes(<<q>> \o rest, u) <=> Closes(<<q>>, u) \/ Closes(rest, u)
             /\ Once(<<q>> \o rest, u) <=>
                  Once(<<q>>, u) /\ Once(rest, u) /\ Due(<<q>>, u) \cap Due(rest, u) = {}
  BY <1>1, <1>4, DueOfConcat
<1>7. Rest(pubs, s) \in Seq(Publications)
  <2>1. <<q>> \o rest \in Seq(Publications)
    BY <1>1, <1>4, ConcatOf
  <2> QED BY <1>1, <1>3, <2>1, Zenon
<1>8. s \in p.to /\ s \notin q.to
  BY <1>2 DEF p
<1>9. ASSUME NEW u, u # s
      PROVE  /\ Due(Rest(pubs, s), u) = Due(pubs, u)
             /\ Once(pubs, u) => Once(Rest(pubs, s), u)
             /\ Closes(pubs, u) => Closes(Rest(pubs, s), u)
  <2>1. CASE p.to = {s}
    <3>1. u \notin p.to /\ Rest(pubs, s) = rest
      BY <1>3, <1>9, <2>1
    <3>2. Due(<<p>>, u) = {} /\ ~Closes(<<p>>, u)
      BY <1>4, <3>1
    <3> QED BY <1>5, <3>1, <3>2
  <2>2. CASE p.to # {s}
    <3>1. (u \in p.to <=> u \in q.to) /\ Rest(pubs, s) = <<q>> \o rest
      BY <1>2, <1>3, <1>9, <2>2
    <3>2. Due(<<p>>, u) = Due(<<q>>, u) /\ (Closes(<<p>>, u) <=> Closes(<<q>>, u))
      BY <1>2, <1>4, <3>1
    <3> QED BY <1>4, <1>5, <1>6, <3>1, <3>2
  <2> QED BY <2>1, <2>2
<1>10. Due(<<p>>, s) = {p.event} /\ Due(<<q>>, s) = {} /\ ~Closes(<<q>>, s)
       /\ (Closes(<<p>>, s) <=> p.closeAfter)
  BY <1>4, <1>8
<1>11. Due(Rest(pubs, s), s) = Due(rest, s) /\ (Closes(Rest(pubs, s), s) <=> Closes(rest, s))
       /\ (Once(Rest(pubs, s), s) <=> Once(rest, s))
  BY <1>3, <1>4, <1>6, <1>10
<1>12. Once(pubs, s) => /\ Due(Rest(pubs, s), s) = Due(pubs, s) \ {p.event}
                        /\ Once(Rest(pubs, s), s)
  BY <1>5, <1>10, <1>11
<1>13. Closes(pubs, s) /\ ~p.closeAfter => Closes(Rest(pubs, s), s)
  BY <1>5, <1>10, <1>11
<1>14. p.event \in Due(pubs, s)
  BY <1>5, <1>10
<1> QED BY <1>1, <1>7, <1>9, <1>12, <1>13, <1>14 DEF p

-----------------------------------------------------------------------------
(* Several lists of publications, one after the other                      *)

LEMMA LeastOf ==
  ASSUME NEW S, S \subseteq Nat, S # {}
  PROVE  \E x \in S : \A y \in S : x <= y
<1> DEFINE Below == {p \in Nat \X Nat : p[1] < p[2]}
<1>1. OpToRel(<, Nat) = Below
  BY Zenon DEF OpToRel
<1>2. IsWellFoundedOn(Below, Nat)
  BY <1>1, NatLessThanWellFounded, Zenon
<1>3. PICK x \in S : \A y \in S : ~ (<<y, x>> \in Below)
  BY <1>2, WFMin, Zenon
<1>4. ASSUME NEW y \in S PROVE x <= y
  <2>1. x \in Nat /\ y \in Nat
    BY SMT
  <2>2. y < x => <<y, x>> \in Below
    BY <2>1, Zenon
  <2>3. ~ (y < x)
    BY <1>3, <2>2, Zenon
  <2> QED BY <2>1, <2>3, SMT
<1> QED BY <1>4, Zenon

\* The lists up to the i-th one, joined.
Joins(f, lists, n) ==
  f = [i \in 1..n |-> IF i = 1 THEN lists[i] ELSE f[i - 1] \o lists[i]]

LEMMA JoinsExist ==
  ASSUME NEW lists, NEW n \in Nat
  PROVE  \E f : Joins(f, lists, n)
<1> DEFINE Bad == {m \in Nat : ~ \E f : Joins(f, lists, m)}
<1> SUFFICES ASSUME Bad # {} PROVE FALSE
  OBVIOUS
<1>1. PICK m \in Bad : \A k \in Bad : m <= k
  <2>1. Bad \subseteq Nat
    OBVIOUS
  <2> HIDE DEF Bad
  <2> QED BY <2>1, LeastOf
<1>2. m \in Nat /\ ~ \E f : Joins(f, lists, m)
  OBVIOUS
<1>3. m # 0
  <2> DEFINE e == [i \in 1..0 |-> lists[i]]
  <2>1. Joins(e, lists, 0)
    BY DEF Joins
  <2> QED BY <1>2, <2>1
<1>4. m - 1 \in Nat /\ m - 1 \notin Bad
  <2> HIDE DEF Bad
  <2> QED BY <1>1, <1>2, <1>3
<1>5. PICK f : Joins(f, lists, m - 1)
  BY <1>4
<1> DEFINE g == [i \in 1..m |-> IF i = 1 THEN lists[i] ELSE f[i - 1] \o lists[i]]
<1>6. f = [i \in 1..(m - 1) |-> IF i = 1 THEN lists[i] ELSE f[i - 1] \o lists[i]]
  BY <1>5 DEF Joins
<1>7. ASSUME NEW i \in 1..m, i # 1 PROVE g[i - 1] = f[i - 1]
  <2>1. i - 1 \in 1..(m - 1) /\ i - 1 \in 1..m
    BY <1>2, <1>7
  <2>2. f[i - 1] = IF i - 1 = 1 THEN lists[i - 1] ELSE f[i - 1 - 1] \o lists[i - 1]
    BY <1>6, <2>1
  <2>3. g[i - 1] = IF i - 1 = 1 THEN lists[i - 1] ELSE f[i - 1 - 1] \o lists[i - 1]
    BY <2>1
  <2> QED BY <2>2, <2>3
<1>8. \A i \in 1..m : g[i] = IF i = 1 THEN lists[i] ELSE g[i - 1] \o lists[i]
  <2>1. \A i \in 1..m : g[i] = IF i = 1 THEN lists[i] ELSE f[i - 1] \o lists[i]
    OBVIOUS
  <2> HIDE DEF g
  <2> QED BY <1>7, <2>1, Zenon
<1>9. g = [i \in 1..m |-> IF i = 1 THEN lists[i] ELSE g[i - 1] \o lists[i]]
  <2>1. g = [i \in 1..m |-> g[i]]
    OBVIOUS
  <2> HIDE DEF g
  <2> QED BY <1>8, <2>1
<1>10. Joins(g, lists, m)
  <2> HIDE DEF g
  <2> QED BY <1>9, Zenon DEF Joins
<1> QED BY <1>2, <1>10

LEMMA FlattenJoins ==
  ASSUME NEW lists, NEW n \in Nat \ {0}, Len(lists) = n
  PROVE  \E f : Joins(f, lists, n) /\ FlattenSeq(lists) = f[n]
<1> DEFINE f == CHOOSE f : f = [i \in 1..n |-> IF i = 1 THEN lists[i] ELSE f[i - 1] \o lists[i]]
<1>1. \E g : g = [i \in 1..n |-> IF i = 1 THEN lists[i] ELSE g[i - 1] \o lists[i]]
  BY JoinsExist DEF Joins
<1>2. f = [i \in 1..n |-> IF i = 1 THEN lists[i] ELSE f[i - 1] \o lists[i]]
  BY <1>1, Zenon
<1>3. n # 0
  OBVIOUS
<1>4. FlattenSeq(lists) = f[n]
  BY <1>3, Zenon DEF FlattenSeq
<1> HIDE DEF f
<1> QED BY <1>2, <1>4, Zenon DEF Joins

\* Together they have for a stream what each of them has.
LEMMA DueOfJoined ==
  ASSUME NEW n \in Nat, NEW lists \in [1..n -> Seq(Publications)]
  PROVE  /\ FlattenSeq(lists) \in Seq(Publications)
         /\ \A s : Due(FlattenSeq(lists), s) = UNION {Due(lists[i], s) : i \in 1..n}
         /\ \A s : Closes(FlattenSeq(lists), s) <=> \E i \in 1..n : Closes(lists[i], s)
         /\ \A s : (/\ \A i \in 1..n : Once(lists[i], s)
                    /\ \A i, j \in 1..n : i # j => Due(lists[i], s) \cap Due(lists[j], s) = {})
                   => Once(FlattenSeq(lists), s)
<1> HIDE DEF Publications
<1>1. Len(lists) = n
  OBVIOUS
<1>2. CASE n = 0
  <2>1. FlattenSeq(lists) = lists /\ lists = <<>>
    BY <1>1, <1>2 DEF FlattenSeq
  <2>2. 1..n = {}
    BY <1>2
  <2> QED BY <2>1, <2>2, DueOfNone
<1>3. CASE n # 0
  <2>1. PICK f : Joins(f, lists, n) /\ FlattenSeq(lists) = f[n]
    BY <1>1, <1>3, FlattenJoins
  <2>2. /\ f[1] = lists[1]
        /\ \A i \in 2..n : f[i] = f[i - 1] \o lists[i]
    <3>1. f = [i \in 1..n |-> IF i = 1 THEN lists[i] ELSE f[i - 1] \o lists[i]]
      BY <2>1, Zenon DEF Joins
    <3>2. \A i \in 1..n : f[i] = IF i = 1 THEN lists[i] ELSE f[i - 1] \o lists[i]
      BY <3>1, Zenon
    <3>3. 1 \in 1..n /\ \A i \in 2..n : i \in 1..n /\ i # 1
      BY <1>3
    <3> QED BY <3>2, <3>3, Zenon
  <2> DEFINE Alone(s, k) ==
               /\ \A i \in 1..k : Once(lists[i], s)
               /\ \A i, j \in 1..k : i # j => Due(lists[i], s) \cap Due(lists[j], s) = {}
             Good(k) ==
               /\ f[k] \in Seq(Publications)
               /\ \A s : Due(f[k], s) = UNION {Due(lists[i], s) : i \in 1..k}
               /\ \A s : Closes(f[k], s) <=> \E i \in 1..k : Closes(lists[i], s)
               /\ \A s : Alone(s, k) => Once(f[k], s)
             Bad == {k \in 1..n : ~Good(k)}
  <2>3. Good(1)
    <3>1. f[1] \in Seq(Publications) /\ 1..1 = {1}
      BY <1>3, <2>2
    <3> QED BY <2>2, <3>1
  <2>4. ASSUME NEW k \in 2..n, Good(k - 1) PROVE Good(k)
    <3>1. /\ k - 1 \in 1..n /\ k \in 1..n /\ k \notin 1..(k - 1)
          /\ 1..k = (1..(k - 1)) \cup {k}
      OBVIOUS
    <3>2. f[k] = f[k - 1] \o lists[k] /\ lists[k] \in Seq(Publications)
      BY <2>2, <3>1
    <3>3. /\ f[k - 1] \in Seq(Publications)
          /\ \A s : Due(f[k - 1], s) = UNION {Due(lists[i], s) : i \in 1..(k - 1)}
          /\ \A s : Closes(f[k - 1], s) <=> \E i \in 1..(k - 1) : Closes(lists[i], s)
          /\ \A s : Alone(s, k - 1) => Once(f[k - 1], s)
      BY <2>4
    <3>4. /\ f[k] \in Seq(Publications)
          /\ \A s : /\ Due(f[k], s) = Due(f[k - 1], s) \cup Due(lists[k], s)
                    /\ Closes(f[k], s) <=> Closes(f[k - 1], s) \/ Closes(lists[k], s)
                    /\ Once(f[k], s) <=> /\ Once(f[k - 1], s) /\ Once(lists[k], s)
                                         /\ Due(f[k - 1], s) \cap Due(lists[k], s) = {}
      BY <3>2, <3>3, ConcatOf, DueOfConcat
    <3>5. ASSUME NEW s PROVE Due(f[k], s) = UNION {Due(lists[i], s) : i \in 1..k}
      <4>1. Due(f[k], s) = (UNION {Due(lists[i], s) : i \in 1..(k - 1)}) \cup Due(lists[k], s)
        BY <3>3, <3>4, Zenon
      <4>2. \A i : i \in 1..k <=> i \in 1..(k - 1) \/ i = k
        BY <3>1, Zenon
      <4> QED BY <4>1, <4>2, Zenon
    <3>6. ASSUME NEW s PROVE Closes(f[k], s) <=> \E i \in 1..k : Closes(lists[i], s)
      BY <3>1, <3>3, <3>4
    <3>7. ASSUME NEW s, Alone(s, k) PROVE Once(f[k], s)
      <4>1. Alone(s, k - 1) /\ Once(lists[k], s)
        BY <3>1, <3>7
      <4>2. \A i \in 1..(k - 1) : Due(lists[i], s) \cap Due(lists[k], s) = {}
        BY <3>1, <3>7
      <4>3. Due(f[k - 1], s) \cap Due(lists[k], s) = {}
        BY <3>3, <4>2
      <4> QED BY <3>3, <3>4, <4>1, <4>3
    <3> QED BY <3>4, <3>5, <3>6, <3>7
  <2>5. Bad = {}
    <3> SUFFICES ASSUME Bad # {} PROVE FALSE
      OBVIOUS
    <3> HIDE DEF Good
    <3>1. PICK m \in Bad : \A k \in Bad : m <= k
      <4>1. Bad \subseteq Nat
        OBVIOUS
      <4> HIDE DEF Bad
      <4> QED BY <4>1, LeastOf
    <3>2. m \in 1..n /\ ~Good(m)
      OBVIOUS
    <3>3. m \in 2..n /\ m - 1 \in 1..n
      BY <2>3, <3>2
    <3>4. Good(m - 1)
      BY <3>1, <3>3
    <3> QED BY <2>4, <3>2, <3>3, <3>4
  <2>6. Good(n)
    <3> HIDE DEF Good
    <3> QED BY <1>3, <2>5
  <2> QED BY <2>1, <2>6
<1> QED BY <1>2, <1>3

-----------------------------------------------------------------------------
(* What a step appends and who is to be told                               *)

\* The events of t that this step appends.
NewEvents(t) == (Len(log[t]) + 1)..Len(log'[t])

LEMMA DueOfAppended ==
  ASSUME StreamsType, LogsType, LogsType', NEW t \in Tasks, Len(log[t]) <= Len(log'[t]), NEW s
  PROVE  /\ AppendedTo(t) \in Seq(Publications)
         /\ Due(AppendedTo(t), s) = IF s \in Subscribers(t) THEN NewEvents(t) ELSE {}
         /\ Once(AppendedTo(t), s)
         /\ s \in Subscribers(t) /\ EndsAnew(t) => Closes(AppendedTo(t), s)
<1> DEFINE a == Len(log[t])
           b == Len(log'[t])
           list == AppendedTo(t)
<1>1. a \in Nat /\ b \in Nat /\ a <= b
  BY DEF LogsType
<1>2. list = [i \in 1..(b - a) |->
         [event |-> a + i, to |-> Subscribers(t), closeAfter |-> log'[t][a + i].kind \in EndStates]]
  BY DEF AppendedTo
<1> HIDE DEF a, b, list
<1>3. ASSUME NEW i \in 1..(b - a) PROVE list[i] \in Publications
  <2>1. Subscribers(t) \in SUBSET Streams /\ a + i \in Nat \ {0}
    BY <1>1 DEF Subscribers
  <2>2. (log'[t][a + i].kind \in EndStates) \in BOOLEAN
    OBVIOUS
  <2> HIDE DEF Subscribers
  <2> QED BY <1>2, <2>1, <2>2 DEF Publications
<1>4. list \in Seq(Publications)
  <2> HIDE DEF Publications
  <2>1. b - a \in Nat
    BY <1>1
  <2>2. list = [i \in 1..(b - a) |-> list[i]]
    BY <1>2
  <2>3. list \in [1..(b - a) -> Publications]
    BY <1>3, <2>2
  <2> QED BY <2>1, <2>3
<1>5. /\ DOMAIN list = 1..(b - a)
      /\ \A i \in 1..(b - a) : /\ list[i].event = a + i /\ list[i].to = Subscribers(t)
                               /\ list[i].closeAfter <=> log'[t][a + i].kind \in EndStates
  BY <1>2
<1>6. CASE s \notin Subscribers(t)
  BY <1>4, <1>5, <1>6 DEF Due, Once, list
<1>7. CASE s \in Subscribers(t)
  <2>1. \A i \in DOMAIN list : s \in list[i].to
    BY <1>5, <1>7, Zenon
  <2>2. Due(list, s) = {a + i : i \in 1..(b - a)}
    BY <1>5, <2>1 DEF Due
  <2>3. {a + i : i \in 1..(b - a)} = (a + 1)..b
    <3>1. \A x \in (a + 1)..b : x - a \in 1..(b - a) /\ x = a + (x - a)
      BY <1>1
    <3>2. \A i \in 1..(b - a) : a + i \in (a + 1)..b
      BY <1>1
    <3> QED BY <3>1, <3>2
  <2>4. Once(list, s)
    <3>1. \A i, j \in 1..(b - a) : a + i = a + j => i = j
      BY <1>1
    <3> QED BY <1>5, <3>1 DEF Once
  <2>5. ASSUME EndsAnew(t) PROVE Closes(list, s)
    <3>1. PICK x \in (a + 1)..b : log'[t][x].kind \in EndStates
      BY <2>5, Zenon DEF EndsAnew, a, b
    <3>2. x - a \in 1..(b - a) /\ a + (x - a) = x
      BY <1>1, <3>1
    <3>3. list[x - a].closeAfter
      BY <1>5, <3>1, <3>2
    <3> QED BY <1>5, <2>1, <3>2, <3>3, Zenon DEF Closes
  <2> QED BY <1>4, <1>7, <2>2, <2>3, <2>4, <2>5 DEF list, a, b, NewEvents
<1> QED BY <1>6, <1>7

\* A goroutine that has appended is to tell the subscribers of every task.
LEMMA AppendsTells ==
  ASSUME StreamsType, Ready, Ready', Growth, NEW g \in Goroutines, Appends(g)
  PROVE  /\ publishing'[g] \in Seq(Publications)
         /\ publishing' = [publishing EXCEPT ![g] = publishing'[g]]
         /\ \A s \in Streams :
              /\ Once(publishing'[g], s)
              /\ ~streams[s].registered => Due(publishing'[g], s) = {}
              /\ \A t \in Tasks : streams[s].task = t /\ streams[s].registered =>
                   /\ Due(publishing'[g], s) = NewEvents(t)
                   /\ EndsAnew(t) => Closes(publishing'[g], s)
<1> DEFINE T == {u \in Tasks : log'[u] # log[u] /\ Subscribers(u) # {}}
           S == {AppendedTo(t) : t \in T}
           lists == SetToSeq(S)
           n == Cardinality(S)
           pubs == FlattenSeq(lists)
<1>1. /\ LogsType /\ LogsType' /\ IsFiniteSet(Begun')
      /\ \A t \in Tasks : Len(log[t]) <= Len(log'[t])
  BY DEF Ready, TasksInv, Growth
<1>2. publishing' = [publishing EXCEPT ![g] = pubs]
  BY Zenon DEF Appends
<1>3. publishing'[g] = pubs /\ publishing' = [publishing EXCEPT ![g] = publishing'[g]]
  BY <1>2 DEF StreamsType
<1>4. \A t \in Tasks : \A s :
        /\ AppendedTo(t) \in Seq(Publications)
        /\ Due(AppendedTo(t), s) = IF s \in Subscribers(t) THEN NewEvents(t) ELSE {}
        /\ Once(AppendedTo(t), s)
        /\ s \in Subscribers(t) /\ EndsAnew(t) => Closes(AppendedTo(t), s)
  BY <1>1, DueOfAppended, Zenon
<1>5. IsFiniteSet(S)
  <2>1. \A t \in Tasks : log'[t] = <<>> => log[t] = <<>>
    BY <1>1 DEF LogsType
  <2>2. T \subseteq Begun'
    BY <2>1, Zenon DEF Begun
  <2>3. IsFiniteSet(T)
    BY <1>1, <2>2, FS_Subset, Zenon
  <2> DEFINE f == [t \in T |-> AppendedTo(t)]
  <2>4. f \in Surjection(T, S)
    <3> HIDE DEF T
    <3> QED BY Zenon DEF Surjection
  <2> HIDE DEF T, S, f
  <2> QED BY <2>3, <2>4, FS_Surjection
<1>6. /\ lists \in [1..n -> S] /\ n \in Nat
      /\ \A x \in S : \E i \in 1..n : \A j \in 1..n : lists[j] = x <=> j = i
  <2> HIDE DEF S
  <2> QED BY <1>5, SetToSeqLists, Zenon
<1>7. S \subseteq Seq(Publications) /\ lists \in [1..n -> Seq(Publications)]
  <2>1. S \subseteq Seq(Publications)
    BY <1>4, Zenon
  <2> HIDE DEF S, Publications, lists, n
  <2> QED BY <1>6, <2>1
<1> HIDE DEF pubs
<1>8. /\ pubs \in Seq(Publications)
      /\ \A s : Due(pubs, s) = UNION {Due(lists[i], s) : i \in 1..n}
      /\ \A s : Closes(pubs, s) <=> \E i \in 1..n : Closes(lists[i], s)
      /\ \A s : (/\ \A i \in 1..n : Once(lists[i], s)
                 /\ \A i, j \in 1..n : i # j => Due(lists[i], s) \cap Due(lists[j], s) = {})
                => Once(pubs, s)
  <2> HIDE DEF lists, n, S
  <2> QED BY <1>6, <1>7, DueOfJoined DEF pubs
<1>9. \A i \in 1..n : \E t \in T : lists[i] = AppendedTo(t)
  <2> HIDE DEF T, lists, n
  <2>1. \A i \in 1..n : lists[i] \in S
    <3> HIDE DEF S
    <3> QED BY <1>6
  <2> QED BY <2>1, Zenon
<1>10. \A t \in T : \E i \in 1..n : lists[i] = AppendedTo(t)
  <2> HIDE DEF T, lists, n
  <2>1. \A t \in T : AppendedTo(t) \in S
    OBVIOUS
  <2> HIDE DEF S
  <2> QED BY <1>6, <2>1, Zenon
<1>11. ASSUME NEW i \in 1..n, NEW j \in 1..n, i # j PROVE lists[i] # lists[j]
  <2> HIDE DEF S, lists, n
  <2>1. lists[i] \in S
    BY <1>6
  <2> QED BY <1>6, <1>11, <2>1, Zenon
<1> HIDE DEF S, lists, n
<1>12. ASSUME NEW s \in Streams
       PROVE  /\ Once(pubs, s)
              /\ ~streams[s].registered => Due(pubs, s) = {}
              /\ \A t \in Tasks : streams[s].task = t /\ streams[s].registered =>
                   /\ Due(pubs, s) = NewEvents(t)
                   /\ EndsAnew(t) => Closes(pubs, s)
  <2>1. \A t \in Tasks : s \in Subscribers(t) <=> streams[s].task = t /\ streams[s].registered
    BY DEF Subscribers
  <2>2. \A i \in 1..n : Once(lists[i], s)
    BY <1>4, <1>9, Zenon DEF T
  <2>3. ASSUME NEW i \in 1..n, NEW j \in 1..n, i # j
        PROVE  Due(lists[i], s) \cap Due(lists[j], s) = {}
    <3>1. PICK t \in T : lists[i] = AppendedTo(t)
      BY <1>9, Zenon
    <3>2. PICK u \in T : lists[j] = AppendedTo(u)
      BY <1>9, Zenon
    <3>3. t # u /\ t \in Tasks /\ u \in Tasks
      BY <1>11, <2>3, <3>1, <3>2, Zenon DEF T
    <3>4. s \notin Subscribers(t) \/ s \notin Subscribers(u)
      BY <2>1, <3>3, Zenon
    <3> HIDE DEF T
    <3>5. Due(lists[i], s) = {} \/ Due(lists[j], s) = {}
      BY <1>4, <3>1, <3>2, <3>3, <3>4, Zenon
    <3> QED BY <3>5
  <2>4. Once(pubs, s)
    BY <1>8, <2>2, <2>3, Zenon
  <2>5. ASSUME ~streams[s].registered PROVE Due(pubs, s) = {}
    <3>1. \A i \in 1..n : Due(lists[i], s) = {}
      BY <1>4, <1>9, <2>1, <2>5, Zenon DEF T
    <3>2. Due(pubs, s) = UNION {Due(lists[i], s) : i \in 1..n}
      BY <1>8, Zenon
    <3> QED BY <3>1, <3>2, Zenon
  <2>6. ASSUME NEW t \in Tasks, streams[s].task = t, streams[s].registered
        PROVE  /\ Due(pubs, s) = NewEvents(t)
               /\ EndsAnew(t) => Closes(pubs, s)
    <3>1. s \in Subscribers(t) /\ \A u \in Tasks : u # t => s \notin Subscribers(u)
      BY <2>1, <2>6
    <3>2. CASE t \in T
      <4>1. PICK k \in 1..n : lists[k] = AppendedTo(t)
        BY <1>10, <3>2, Zenon
      <4>2. Due(lists[k], s) = NewEvents(t)
        BY <1>4, <3>1, <4>1, Zenon
      <4>3. ASSUME NEW i \in 1..n, i # k PROVE Due(lists[i], s) = {}
        <5>1. PICK u \in T : lists[i] = AppendedTo(u)
          BY <1>9, Zenon
        <5>2. u # t /\ u \in Tasks
          BY <1>11, <4>1, <4>3, <5>1, Zenon DEF T
        <5> QED BY <1>4, <3>1, <5>1, <5>2, Zenon
      <4>4. Due(pubs, s) = NewEvents(t)
        <5> HIDE DEF NewEvents
        <5>1. Due(pubs, s) = UNION {Due(lists[i], s) : i \in 1..n}
          BY <1>8, Zenon
        <5>2. \A i \in 1..n : Due(lists[i], s) \subseteq NewEvents(t)
          BY <4>2, <4>3, Zenon
        <5>3. \E i \in 1..n : Due(lists[i], s) = NewEvents(t)
          BY <4>2, Zenon
        <5> QED BY <5>1, <5>2, <5>3, Zenon
      <4>5. EndsAnew(t) => Closes(pubs, s)
        BY <1>4, <1>8, <3>1, <4>1, Zenon
      <4> QED BY <4>4, <4>5
    <3>3. CASE t \notin T
      <4>1. log'[t] = log[t]
        BY <3>1, <3>3, Zenon
      <4>2. NewEvents(t) = {} /\ ~EndsAnew(t)
        <5>1. Len(log[t]) \in Nat
          BY <1>1 DEF LogsType
        <5>2. (Len(log[t]) + 1)..Len(log'[t]) = {}
          BY <4>1, <5>1
        <5> QED BY <5>2, Zenon DEF NewEvents, EndsAnew
      <4>3. \A i \in 1..n : Due(lists[i], s) = {}
        <5> SUFFICES ASSUME NEW i \in 1..n PROVE Due(lists[i], s) = {}
          OBVIOUS
        <5>1. PICK u \in T : lists[i] = AppendedTo(u)
          BY <1>9, Zenon
        <5>2. u # t /\ u \in Tasks
          BY <3>3, <5>1, Zenon DEF T
        <5> QED BY <1>4, <3>1, <5>1, <5>2, Zenon
      <4>4. Due(pubs, s) = {}
        <5>1. Due(pubs, s) = UNION {Due(lists[i], s) : i \in 1..n}
          BY <1>8, Zenon
        <5> QED BY <4>3, <5>1, Zenon
      <4> QED BY <4>2, <4>4
    <3> QED BY <3>2, <3>3
  <2> QED BY <2>4, <2>5, <2>6, Zenon
<1> QED BY <1>3, <1>8, <1>12

-----------------------------------------------------------------------------
(* What a stream holds                                                     *)

LEMMA SentToIs ==
  ASSUME NEW s
  PROVE  /\ SentTo(s) = UNION {Due(publishing[g], s) : g \in Goroutines}
         /\ SentTo(s)' = UNION {Due(publishing'[g], s) : g \in Goroutines}
BY DEF SentTo, Due, Range

LEMMA HeldTail ==
  ASSUME NEW a \in Seq(Nat), a # <<>>, IsInjective(a)
  PROVE  /\ Tail(a) \in Seq(Nat) /\ Head(a) \in Nat /\ IsInjective(Tail(a))
         /\ Range(a) = Range(Tail(a)) \cup {Head(a)} /\ Head(a) \notin Range(Tail(a))
<1>1. /\ Len(a) \in Nat \ {0} /\ DOMAIN a = 1..Len(a) /\ Head(a) = a[1] /\ Head(a) \in Nat
      /\ Tail(a) \in Seq(Nat) /\ DOMAIN Tail(a) = 1..(Len(a) - 1)
      /\ \A i \in 1..(Len(a) - 1) : Tail(a)[i] = a[i + 1]
  OBVIOUS
<1>2. \A i, j \in 1..Len(a) : a[i] = a[j] => i = j
  BY <1>1 DEF IsInjective
<1>3. IsInjective(Tail(a))
  <2> DEFINE n == Len(a)
             b == Tail(a)
  <2>1. /\ n \in Nat /\ DOMAIN b = 1..(n - 1) /\ \A i \in 1..(n - 1) : b[i] = a[i + 1]
        /\ \A i, j \in 1..n : a[i] = a[j] => i = j
    BY <1>1, <1>2
  <2> HIDE DEF n, b
  <2>2. \A i \in 1..(n - 1) : i \in Nat /\ i + 1 \in 1..n
    BY <2>1
  <2>3. ASSUME NEW i \in 1..(n - 1), NEW j \in 1..(n - 1), b[i] = b[j] PROVE i = j
    <3>1. i + 1 = j + 1
      BY <2>1, <2>2, <2>3, Zenon
    <3> QED BY <2>2, <3>1
  <2>4. IsInjective(b)
    BY <2>1, <2>3, Zenon DEF IsInjective
  <2> QED BY <2>4 DEF b
<1>4. Head(a) \notin Range(Tail(a))
  BY <1>1, <1>2 DEF Range
<1>5. Range(a) = Range(Tail(a)) \cup {Head(a)}
  <2>1. \A i \in 1..(Len(a) - 1) : a[i + 1] \in Range(a)
    BY <1>1 DEF Range
  <2>2. \A i \in 1..Len(a) : i = 1 \/ (i - 1 \in 1..(Len(a) - 1) /\ a[i] = Tail(a)[i - 1])
    BY <1>1
  <2>3. Range(a) \subseteq Range(Tail(a)) \cup {Head(a)}
    <3> SUFFICES ASSUME NEW i \in 1..Len(a) PROVE a[i] \in Range(Tail(a)) \cup {Head(a)}
      BY <1>1 DEF Range
    <3> QED BY <1>1, <2>2 DEF Range
  <2>4. 1 \in DOMAIN a
    BY <1>1
  <2>5. Range(Tail(a)) \cup {Head(a)} \subseteq Range(a)
    BY <1>1, <2>1, <2>4 DEF Range
  <2> QED BY <2>3, <2>5
<1> QED BY <1>1, <1>3, <1>4, <1>5

LEMMA HeldAppend ==
  ASSUME NEW a \in Seq(Nat), IsInjective(a), NEW e \in Nat, e \notin Range(a)
  PROVE  IsInjective(Append(a, e)) /\ Range(Append(a, e)) = Range(a) \cup {e}
<1> DEFINE b == Append(a, e)
<1>1. /\ Len(a) \in Nat /\ DOMAIN a = 1..Len(a) /\ DOMAIN b = 1..(Len(a) + 1)
      /\ b[Len(a) + 1] = e /\ \A i \in 1..Len(a) : b[i] = a[i]
  OBVIOUS
<1> HIDE DEF b
<1>2. /\ \A i, j \in 1..Len(a) : a[i] = a[j] => i = j
      /\ \A i \in 1..Len(a) : a[i] # e
  BY <1>1 DEF IsInjective, Range
<1>3. \A i \in 1..(Len(a) + 1) : i = Len(a) + 1 \/ i \in 1..Len(a)
  BY <1>1
<1>4. IsInjective(b)
  BY <1>1, <1>2, <1>3 DEF IsInjective
<1>5. Range(b) = Range(a) \cup {e}
  <2>1. \A i \in 1..Len(a) : i \in 1..(Len(a) + 1)
    BY <1>1
  <2>2. Len(a) + 1 \in 1..(Len(a) + 1)
    BY <1>1
  <2> QED BY <1>1, <1>3, <2>1, <2>2 DEF Range
<1> QED BY <1>4, <1>5 DEF b

LEMMA HeldParts ==
  ASSUME NEW a \in Seq(Nat), NEW b \in Seq(Nat)
  PROVE  /\ a \o b \in Seq(Nat)
         /\ a # <<>> => a \o b # <<>> /\ Head(a \o b) = Head(a) /\ Tail(a \o b) = Tail(a) \o b
         /\ a = <<>> => a \o b = b
         /\ \A e \in Nat : a \o Append(b, e) = Append(a \o b, e)
<1>1. a \o b \in Seq(Nat)
  OBVIOUS
<1>2. a # <<>> => a \o b # <<>> /\ Head(a \o b) = Head(a)
  OBVIOUS
<1>3. a # <<>> => Tail(a \o b) = Tail(a) \o b
  OBVIOUS
<1>4. a = <<>> => a \o b = b
  OBVIOUS
<1>5. \A e \in Nat : a \o Append(b, e) = Append(a \o b, e)
  OBVIOUS
<1> QED BY <1>1, <1>2, <1>3, <1>4, <1>5

\* Reading moves the next message to the client.
LEMMA FitsRead ==
  ASSUME NEW stream \in StreamRecords, NEW sent, NEW last, Fits(stream, sent, last),
         NEW read \in StreamRecords, read.first = stream.first, read.closed = stream.closed,
         stream.replay \o stream.queue # <<>>,
         read.replay \o read.queue = Tail(stream.replay \o stream.queue),
         read.received = stream.received \cup {Head(stream.replay \o stream.queue)}
  PROVE  Fits(read, sent, last)
<1> DEFINE held == stream.replay \o stream.queue
<1>1. held \in Seq(Nat) /\ IsInjective(held)
  BY HeldParts DEF Fits, StreamRecords
<1> HIDE DEF held
<1>2. /\ IsInjective(Tail(held)) /\ Range(held) = Range(Tail(held)) \cup {Head(held)}
      /\ Head(held) \notin Range(Tail(held))
  BY <1>1, HeldTail DEF held
<1>3. read.replay \o read.queue = Tail(held) /\ read.received = stream.received \cup {Head(held)}
  BY DEF held
<1>4. /\ Range(held) \cap (stream.received \cup sent) = {} /\ stream.received \cap sent = {}
      /\ Range(held) \cup stream.received \cup sent \subseteq 0..last
      /\ stream.first <= last + 1
      /\ ~stream.closed =>
           (Range(held) \cup stream.received \cup sent) \ {Notice} = stream.first..last
  BY DEF Fits, held
<1>5. Range(Tail(held)) \cup read.received = Range(held) \cup stream.received
  BY <1>2, <1>3
<1>6. /\ Range(Tail(held)) \cap (read.received \cup sent) = {} /\ read.received \cap sent = {}
  BY <1>2, <1>3, <1>4
<1>7. Range(Tail(held)) \cup read.received \cup sent = Range(held) \cup stream.received \cup sent
  BY <1>5
<1> QED BY <1>2, <1>3, <1>4, <1>6, <1>7 DEF Fits

\* An event that was to be sent is in the queue then.
LEMMA FitsSent ==
  ASSUME NEW stream \in StreamRecords, NEW sent, NEW last \in Nat, Fits(stream, sent, last),
         ~stream.closed, NEW p \in Publications, p.event \in sent
  PROVE  Fits(Sent(stream, p), sent \ {p.event}, last) /\ Sent(stream, p) \in StreamRecords
<1> DEFINE held == stream.replay \o stream.queue
           e == p.event
           s2 == Sent(stream, p)
<1>1. held \in Seq(Nat) /\ IsInjective(held) /\ e \in Nat
  BY HeldParts DEF Fits, StreamRecords, Publications
<1>2. /\ s2 \in StreamRecords /\ s2.replay = stream.replay /\ s2.queue = Append(stream.queue, e)
      /\ s2.first = stream.first /\ s2.received = stream.received
  <2> DEFINE q == Append(stream.queue, e)
             c == p.closeAfter
  <2>1. q \in Seq(Nat) /\ c \in BOOLEAN
    BY <1>1 DEF StreamRecords, Publications
  <2>2. s2 = [stream EXCEPT !.queue = q, !.closed = c]
    BY DEF Sent
  <2> HIDE DEF q, c, s2
  <2>3. s2 \in StreamRecords /\ s2.queue = q
    BY <2>1, <2>2 DEF StreamRecords
  <2>4. s2.replay = stream.replay /\ s2.first = stream.first /\ s2.received = stream.received
    BY <2>2 DEF StreamRecords
  <2> QED BY <2>3, <2>4 DEF q
<1>3. s2.replay \o s2.queue = Append(held, e)
  <2>1. stream.replay \in Seq(Nat) /\ stream.queue \in Seq(Nat)
    BY DEF StreamRecords
  <2>2. stream.replay \o Append(stream.queue, e) = Append(held, e)
    <3> HIDE DEF e
    <3>1. \A x \in Nat : stream.replay \o Append(stream.queue, x)
                          = Append(stream.replay \o stream.queue, x)
      BY <2>1, HeldParts, Zenon
    <3> QED BY <1>1, <3>1, Zenon
  <2> HIDE DEF e, s2, held
  <2> QED BY <1>2, <2>2, Zenon
<1>4. /\ Range(held) \cap (stream.received \cup sent) = {} /\ stream.received \cap sent = {}
      /\ Range(held) \cup stream.received \cup sent \subseteq 0..last
      /\ stream.first <= last + 1
      /\ (Range(held) \cup stream.received \cup sent) \ {Notice} = stream.first..last
  BY DEF Fits
<1> HIDE DEF held, e, s2
<1>5. e \in sent
  BY DEF e
<1>6. IsInjective(Append(held, e)) /\ Range(Append(held, e)) = Range(held) \cup {e}
  BY <1>1, <1>4, <1>5, HeldAppend
<1>7. /\ (Range(held) \cup {e}) \cap (stream.received \cup (sent \ {e})) = {}
      /\ stream.received \cap (sent \ {e}) = {}
      /\ (Range(held) \cup {e}) \cup stream.received \cup (sent \ {e})
           = Range(held) \cup stream.received \cup sent
  BY <1>4, <1>5
<1>8. Fits(s2, sent \ {e}, last)
  BY <1>2, <1>3, <1>4, <1>6, <1>7 DEF Fits
<1> QED BY <1>2, <1>8 DEF s2, e

\* A stream that is closed may have missed something.
LEMMA FitsRemoved ==
  ASSUME NEW stream \in StreamRecords, NEW sent, NEW last, Fits(stream, sent, last),
         NEW left, left \subseteq sent
  PROVE  Fits(Removed(stream), left, last) /\ Removed(stream) \in StreamRecords
<1> DEFINE s2 == Removed(stream)
<1>1. /\ s2 \in StreamRecords /\ s2.replay = stream.replay /\ s2.queue = stream.queue
      /\ s2.first = stream.first /\ s2.received = stream.received /\ s2.closed
  BY DEF Removed, StreamRecords
<1> HIDE DEF s2
<1>2. Fits(s2, left, last)
  BY <1>1 DEF Fits
<1> QED BY <1>1, <1>2 DEF s2

\* The log becomes longer, and who subscribes to it is to be told.
LEMMA FitsGrown ==
  ASSUME NEW stream \in StreamRecords, NEW sent, NEW last \in Nat, Fits(stream, sent, last),
         NEW later \in Nat, last <= later,
         NEW new, new = {} \/ new = (last + 1)..later, ~stream.closed => new = (last + 1)..later
  PROVE  Fits(stream, sent \cup new, later)
<1> DEFINE held == Range(stream.replay \o stream.queue)
           got == stream.received
<1>1. /\ held \cap (got \cup sent) = {} /\ got \cap sent = {}
      /\ held \cup got \cup sent \subseteq 0..last
      /\ stream.first <= last + 1
      /\ ~stream.closed => (held \cup got \cup sent) \ {Notice} = stream.first..last
      /\ IsInjective(stream.replay \o stream.queue)
  BY DEF Fits
<1> HIDE DEF held, got
<1>2. stream.first \in Nat
  BY DEF StreamRecords
<1>3. /\ 0..last \subseteq 0..later /\ new \subseteq 0..later /\ new \cap 0..last = {}
      /\ stream.first <= later + 1 /\ 0 \notin new
  BY <1>1, <1>2
<1>4. stream.first..later = (stream.first..last) \cup ((last + 1)..later)
  BY <1>1, <1>2
<1>5. /\ held \cap (got \cup (sent \cup new)) = {} /\ got \cap (sent \cup new) = {}
      /\ held \cup got \cup (sent \cup new) \subseteq 0..later
  BY <1>1, <1>3
<1>6. ASSUME ~stream.closed
      PROVE  (held \cup got \cup (sent \cup new)) \ {Notice} = stream.first..later
  <2>1. (held \cup got \cup sent) \ {Notice} = stream.first..last
    BY <1>1, <1>6
  <2>2. new = (last + 1)..later /\ Notice \notin new
    BY <1>3, <1>6 DEF Notice
  <2>3. (held \cup got \cup (sent \cup new)) \ {Notice}
          = ((held \cup got \cup sent) \ {Notice}) \cup new
    BY <2>2
  <2> QED BY <1>4, <2>1, <2>2, <2>3
<1> QED BY <1>1, <1>3, <1>5, <1>6 DEF Fits, held, got

LEMMA EventsFromAre ==
  ASSUME LogsType, NEW t \in Tasks, NEW begin \in 1..(Len(log[t]) + 1)
  PROVE  /\ EventsFrom(t, begin) \in Seq(Nat) /\ IsInjective(EventsFrom(t, begin))
         /\ Range(EventsFrom(t, begin)) = begin..Len(log[t])
<1> DEFINE n == Len(log[t])
           list == EventsFrom(t, begin)
<1>1. n \in Nat /\ begin \in Nat /\ n - begin + 1 \in Nat
  BY DEF LogsType
<1>2. list = [i \in 1..(n - begin + 1) |-> begin + i - 1]
  BY DEF EventsFrom
<1> HIDE DEF n, list
<1>3. list \in Seq(Nat)
  <2>1. list \in [1..(n - begin + 1) -> Nat]
    BY <1>1, <1>2
  <2> QED BY <1>1, <2>1
<1>4. IsInjective(list)
  BY <1>1, <1>2 DEF IsInjective
<1>5. Range(list) = begin..n
  <2>1. Range(list) \subseteq begin..n
    BY <1>1, <1>2 DEF Range
  <2>2. ASSUME NEW x \in begin..n PROVE x \in Range(list)
    <3>1. x - begin + 1 \in 1..(n - begin + 1) /\ x = begin + (x - begin + 1) - 1
      BY <1>1, <2>2
    <3> QED BY <1>2, <3>1 DEF Range
  <2> QED BY <2>1, <2>2
<1> QED BY <1>3, <1>4, <1>5 DEF list, n

LEMMA NoticeGoesFirst ==
  ASSUME NEW a \in Seq(Nat), IsInjective(a), Notice \notin Range(a)
  PROVE  /\ <<Notice>> \o a \in Seq(Nat) /\ IsInjective(<<Notice>> \o a)
         /\ Range(<<Notice>> \o a) = Range(a) \cup {Notice}
<1> DEFINE b == <<Notice>> \o a
<1>1. /\ Len(a) \in Nat /\ DOMAIN a = 1..Len(a) /\ DOMAIN b = 1..(Len(a) + 1) /\ b \in Seq(Nat)
      /\ b[1] = Notice /\ \A i \in 1..(Len(a) + 1) : i # 1 => b[i] = a[i - 1]
  BY DEF Notice
<1> HIDE DEF b
<1>2. /\ \A i, j \in 1..Len(a) : a[i] = a[j] => i = j
      /\ \A i \in 1..Len(a) : a[i] # Notice
  BY <1>1 DEF IsInjective, Range
<1>3. \A i \in 1..(Len(a) + 1) : i # 1 => i - 1 \in 1..Len(a)
  BY <1>1
<1>4. IsInjective(b)
  <2> SUFFICES ASSUME NEW i \in 1..(Len(a) + 1), NEW j \in 1..(Len(a) + 1), b[i] = b[j] PROVE i = j
    BY <1>1 DEF IsInjective
  <2> QED BY <1>1, <1>2, <1>3
<1>5. Range(b) \subseteq Range(a) \cup {Notice}
  <2> SUFFICES ASSUME NEW i \in 1..(Len(a) + 1) PROVE b[i] \in Range(a) \cup {Notice}
    BY <1>1 DEF Range
  <2> QED BY <1>1, <1>3 DEF Range
<1>6. ASSUME NEW i \in 1..Len(a) PROVE a[i] \in Range(b)
  <2>1. i + 1 \in 1..(Len(a) + 1) /\ i + 1 # 1 /\ i + 1 - 1 = i
    BY <1>1
  <2>2. b[i + 1] = a[i]
    BY <1>1, <2>1
  <2> QED BY <1>1, <2>1, <2>2 DEF Range
<1>7. Notice \in Range(b)
  <2>1. 1 \in DOMAIN b
    BY <1>1
  <2> QED BY <1>1, <2>1 DEF Range
<1>8. Range(a) \subseteq Range(b)
  BY <1>1, <1>6 DEF Range
<1> QED BY <1>1, <1>4, <1>5, <1>7, <1>8 DEF b

\* A new stream replays what is kept of the log from its cursor on.
LEMMA FitsSubscribed ==
  ASSUME LogsType, NEW t \in Tasks, log[t] # <<>>, NEW cursor \in Cursors,
         ~(cursor.from = "after" /\ cursor.id > Len(log[t]))
  PROVE  /\ Subscribed(t, cursor) \in StreamRecords
         /\ Subscribed(t, cursor).pc = "open" /\ Subscribed(t, cursor).task = t
         /\ Subscribed(t, cursor).registered <=> ~Terminal(t)
         /\ Subscribed(t, cursor).closed <=> Terminal(t)
         /\ Fits(Subscribed(t, cursor), {}, Len(log[t]))
<1> DEFINE n == Len(log[t])
           evicted == IF cursor.from = "start" THEN Oldest(t) > 1 ELSE cursor.id < Oldest(t)
           begin == IF evicted \/ cursor.from = "start" THEN Oldest(t) ELSE cursor.id + 1
           events == EventsFrom(t, begin)
           messages == (IF evicted THEN <<Notice>> ELSE <<>>) \o events
           ended == Terminal(t)
           s2 == Subscribed(t, cursor)
<1>1. /\ n \in Nat \ {0} /\ MaxEvents \in Nat \ {0} /\ cursor.id \in Nat
      /\ cursor.from \in {"start", "after"} /\ (cursor.from = "after" => cursor.id <= n)
  BY TaskStreamsAssumption DEF LogsType
<1>2. Oldest(t) \in 1..n
  BY <1>1 DEF Oldest
<1>3. begin \in 1..(n + 1)
  BY <1>1, <1>2
<1>4. s2 = [NewStream EXCEPT !.pc = "open", !.task = t, !.first = begin,
                             !.replay = messages, !.registered = ~ended, !.closed = ended]
  BY DEF Subscribed, Replay
<1> HIDE DEF begin
<1>5. events \in Seq(Nat) /\ IsInjective(events) /\ Range(events) = begin..n
  BY <1>3, EventsFromAre
<1> HIDE DEF events, n
<1>6. Notice \notin Range(events)
  BY <1>1, <1>3, <1>5 DEF Notice
<1>7. /\ messages \in Seq(Nat) /\ IsInjective(messages)
      /\ Range(messages) \in {begin..n, (begin..n) \cup {Notice}}
  <2>1. CASE evicted
    BY <1>5, <1>6, <2>1, NoticeGoesFirst
  <2>2. CASE ~evicted
    <3>1. messages = events
      BY <1>5, <2>2
    <3> QED BY <1>5, <3>1
  <2> QED BY <2>1, <2>2
<1> HIDE DEF messages, evicted, ended, s2
<1>8. /\ s2.pc = "open" /\ s2.task = t /\ s2.first = begin /\ s2.replay = messages
      /\ s2.queue = <<>> /\ s2.received = {} /\ s2.registered = ~ended /\ s2.closed = ended
      /\ DOMAIN s2 = {"pc", "task", "first", "replay", "registered", "queue", "closed", "received"}
      /\ s2 = [pc |-> "open", task |-> t, first |-> begin, replay |-> messages,
               registered |-> ~ended, queue |-> <<>>, closed |-> ended, received |-> {}]
  BY <1>4 DEF NewStream
<1>9. ended \in BOOLEAN /\ (~ended) \in BOOLEAN
  BY DEF ended, Terminal
<1>10. s2 \in StreamRecords
  BY <1>1, <1>3, <1>7, <1>8, <1>9 DEF StreamRecords
<1>11. s2.replay \o s2.queue = messages
  BY <1>7, <1>8
<1>12. Fits(s2, {}, n)
  <2>1. 0..n = (1..n) \cup {0} /\ begin..n \subseteq 1..n /\ begin <= n + 1
    BY <1>1, <1>3
  <2>2. Range(messages) \subseteq 0..n /\ Range(messages) \ {Notice} = begin..n
    BY <1>7, <2>1, <1>3, <1>1 DEF Notice
  <2>3. s2.first = begin /\ s2.received = {}
    BY <1>8
  <2> QED BY <1>7, <1>11, <2>1, <2>2, <2>3 DEF Fits
<1> QED BY <1>8, <1>10, <1>12 DEF n, ended, s2

-----------------------------------------------------------------------------
(* The steps                                                               *)

\* A stream that the step leaves alone.
LEMMA StreamStays ==
  ASSUME NEW s \in Streams, StreamIs(s), streams'[s] = streams[s],
         streams[s].pc = "open" =>
           LET t == streams[s].task IN
           log'[t] = log[t] /\ (Known(t)' /\ Terminal(t)' => Known(t) /\ Terminal(t)),
         \A g \in Goroutines :
           /\ Due(publishing'[g], s) = Due(publishing[g], s)
           /\ Once(publishing[g], s) => Once(publishing'[g], s)
           /\ Closes(publishing[g], s) => Closes(publishing'[g], s)
  PROVE  StreamIs(s)'
<1>1. \A g \in Goroutines :
        /\ Due(publishing[g], s)' = Due(publishing[g], s)
        /\ Once(publishing[g], s) => Once(publishing[g], s)'
        /\ Closes(publishing[g], s) => Closes(publishing[g], s)'
  BY DEF Due, Once, Closes
<1>2. SentTo(s)' = SentTo(s)
  <2>1. SentTo(s)' = UNION {Due(publishing'[g], s) : g \in Goroutines}
    BY SentToIs
  <2>2. SentTo(s) = UNION {Due(publishing[g], s) : g \in Goroutines}
    BY SentToIs
  <2> QED BY <1>1, <2>1, <2>2
<1>3. SentOnce(s) => SentOnce(s)'
  BY <1>1, Zenon DEF SentOnce
<1>4. CASE streams[s].pc = "open"
  <2> DEFINE t == streams[s].task
  <2>1. OpenStream(s)
    BY <1>4 DEF StreamIs
  <2>2. Fits(streams[s], SentTo(s), Len(log[t]))'
    <3>1. Fits(streams[s], SentTo(s), Len(log[t]))
      BY <2>1, Zenon DEF OpenStream
    <3> QED BY <1>2, <1>4, <3>1 DEF Fits
  <2>3. OpenStream(s)'
    BY <1>1, <1>3, <1>4, <2>1, <2>2, Zenon DEF OpenStream
  <2> QED BY <1>4, <2>3, Zenon DEF StreamIs
<1>5. CASE streams[s].pc # "open"
  BY <1>1, <1>5, Zenon DEF StreamIs
<1> QED BY <1>4, <1>5

\* A goroutine that appends.
LEMMA AppendingKeeps ==
  ASSUME TaskStreamsInv, Ready, Ready', Growth, NEW g \in Goroutines, publishing[g] = <<>>,
         Appends(g), UNCHANGED streams
  PROVE  TaskStreamsInv'
<1> DEFINE pubs == publishing'[g]
<1>1. StreamsType /\ LogsType /\ LogsType'
  BY DEF TaskStreamsInv, Ready, TasksInv
<1>2. /\ pubs \in Seq(Publications) /\ publishing' = [publishing EXCEPT ![g] = pubs]
      /\ \A s \in Streams :
           /\ Once(pubs, s)
           /\ ~streams[s].registered => Due(pubs, s) = {}
           /\ \A t \in Tasks : streams[s].task = t /\ streams[s].registered =>
                /\ Due(pubs, s) = NewEvents(t)
                /\ EndsAnew(t) => Closes(pubs, s)
  BY <1>1, AppendsTells, Zenon
<1> HIDE DEF pubs
<1>3. StreamsType'
  BY <1>1, <1>2 DEF StreamsType
<1>4. /\ publishing'[g] = pubs
      /\ \A h \in Goroutines \ {g} : publishing'[h] = publishing[h]
  BY <1>1, <1>2 DEF StreamsType
<1>5. ASSUME NEW s \in Streams, streams[s].pc # "open" PROVE StreamIs(s)'
  <2>1. ~streams[s].registered /\ Due(pubs, s) = {} /\ StreamIs(s)
    BY <1>2, <1>5, Zenon DEF TaskStreamsInv, StreamIs
  <2>2. streams[s].pc = "new" => \A h \in Goroutines : Due(publishing'[h], s) = {}
    BY <1>4, <2>1, Zenon DEF StreamIs
  <2> QED BY <1>5, <2>1, <2>2 DEF StreamIs, Due
<1>6. ASSUME NEW s \in Streams, streams[s].pc = "open" PROVE StreamIs(s)'
  <2> DEFINE t == streams[s].task
             stream == streams[s]
             n == Len(log[t])
             later == Len(log'[t])
             sent == SentTo(s)
  <2>1. OpenStream(s) /\ stream \in StreamRecords
    BY <1>1, <1>6 DEF TaskStreamsInv, StreamIs, StreamsType
  <2>2. /\ t \in Tasks /\ log[t] # <<>> /\ SentOnce(s) /\ Fits(stream, sent, n)
        /\ ~stream.closed =>
             /\ stream.registered
             /\ Known(t) /\ Terminal(t) => \E h \in Goroutines : Closes(publishing[h], s)
    BY <2>1, Zenon DEF OpenStream
  <2>3. n \in Nat \ {0} /\ later \in Nat \ {0} /\ n <= later /\ TaskKeeps(t)
    BY <1>1, <2>2 DEF LogsType, Growth
  <2>4. /\ sent = UNION {Due(publishing[h], s) : h \in Goroutines}
        /\ SentTo(s)' = UNION {Due(publishing'[h], s) : h \in Goroutines}
    BY SentToIs
  <2>5. Due(publishing[g], s) = {}
    BY DueOfNone
  <2>6. SentTo(s)' = sent \cup Due(pubs, s)
    BY <1>4, <2>4, <2>5
  <2>7. stream.registered \in BOOLEAN /\ stream.closed \in BOOLEAN
    BY <2>1 DEF StreamRecords
  <2>8. /\ Due(pubs, s) = {} \/ Due(pubs, s) = (n + 1)..later
        /\ ~stream.closed => Due(pubs, s) = (n + 1)..later
    BY <1>2, <2>2, Zenon DEF NewEvents
  <2>9. Fits(stream, sent \cup Due(pubs, s), later)
    <3> HIDE DEF stream, sent, n, later
    <3> QED BY <2>1, <2>2, <2>3, <2>8, FitsGrown
  <2>10. SentOnce(s)'
    <3>1. /\ \A h \in Goroutines : Once(publishing[h], s)
          /\ \A h, k \in Goroutines : h # k => Due(publishing[h], s) \cap Due(publishing[k], s) = {}
      BY <2>2, Zenon DEF SentOnce
    <3>2. \A h \in Goroutines : Once(publishing'[h], s)
      BY <1>2, <1>4, <3>1, Zenon
    <3>3. sent \subseteq 0..n
      BY <2>2 DEF Fits
    <3>4. \A h \in Goroutines : Due(publishing[h], s) \subseteq 0..n
      <4> HIDE DEF sent, n
      <4> QED BY <2>4, <3>3, Zenon
    <3>5. Due(pubs, s) \cap 0..n = {}
      <4> HIDE DEF n, later
      <4> QED BY <2>3, <2>8
    <3>6. \A h \in Goroutines \ {g} : Due(pubs, s) \cap Due(publishing'[h], s) = {}
      <4> HIDE DEF n
      <4> QED BY <1>4, <3>4, <3>5
    <3>7. \A h, k \in Goroutines : h # k =>
            Due(publishing'[h], s) \cap Due(publishing'[k], s) = {}
      <4> SUFFICES ASSUME NEW h \in Goroutines, NEW k \in Goroutines, h # k
                   PROVE  Due(publishing'[h], s) \cap Due(publishing'[k], s) = {}
        OBVIOUS
      <4>1. CASE h = g
        BY <1>4, <3>6, <4>1
      <4>2. CASE k = g
        BY <1>4, <3>6, <4>2
      <4>3. CASE h # g /\ k # g
        BY <1>4, <3>1, <4>3
      <4> QED BY <4>1, <4>2, <4>3
    <3> QED BY <3>2, <3>7 DEF SentOnce, Once, Due
  <2>11. ASSUME ~stream.closed, tasks'[t] # Null, tasks'[t].state \in EndStates
         PROVE  \E h \in Goroutines : Closes(publishing'[h], s)
    <3>1. (Known(t) /\ Terminal(t)) \/ EndsAnew(t)
      BY <2>3, <2>11, Zenon DEF TaskKeeps
    <3>2. CASE EndsAnew(t)
      BY <1>2, <1>4, <2>2, <2>11, <3>2, Zenon
    <3>3. CASE Known(t) /\ Terminal(t)
      <4>1. PICK h \in Goroutines : Closes(publishing[h], s)
        BY <2>2, <2>11, <3>3, Zenon
      <4>2. h # g
        BY <4>1, DueOfNone
      <4> QED BY <1>4, <4>1, <4>2, Zenon
    <3> QED BY <3>1, <3>2, <3>3
  <2>12. \A h \in Goroutines : Closes(publishing[h], s)' <=> Closes(publishing'[h], s)
    BY DEF Closes
  <2>13. Fits(stream, sent, n)'
    <3>1. (stream = streams[s])' /\ stream' = stream /\ n' = later /\ sent' = sent \cup Due(pubs, s)
      BY <2>6
    <3> QED BY <2>9, <3>1 DEF Fits
  <2>14. log'[t] # <<>>
    BY <2>3
  <2>15. OpenStream(s)'
    BY <2>2, <2>10, <2>11, <2>12, <2>13, <2>14, Zenon DEF OpenStream, Known, Terminal
  <2> QED BY <1>6, <2>15, Zenon DEF StreamIs
<1> QED BY <1>3, <1>5, <1>6 DEF TaskStreamsInv

\* A step that appends to no log that is read.
LEMMA ElsewhereKeeps ==
  ASSUME TaskStreamsInv, Ready, Growth, UNCHANGED streamVars,
         \A t \in Tasks : log[t] # <<>> => log'[t] = log[t]
  PROVE  TaskStreamsInv'
<1>1. UNCHANGED <<streams, publishing>>
  BY DEF streamVars
<1>2. StreamsType'
  BY <1>1 DEF TaskStreamsInv, StreamsType
<1>3. ASSUME NEW s \in Streams PROVE StreamIs(s)'
  <2>1. ASSUME streams[s].pc = "open"
        PROVE  LET t == streams[s].task IN
               log'[t] = log[t] /\ (Known(t)' /\ Terminal(t)' => Known(t) /\ Terminal(t))
    <3> DEFINE t == streams[s].task
    <3>1. t \in Tasks /\ log[t] # <<>>
      BY <2>1, Zenon DEF TaskStreamsInv, StreamIs, OpenStream
    <3>2. log'[t] = log[t] /\ Len(log[t]) \in Nat /\ TaskKeeps(t)
      BY <3>1 DEF Ready, TasksInv, LogsType, Growth
    <3>3. ~EndsAnew(t)
      <4>1. (Len(log[t]) + 1)..Len(log'[t]) = {}
        BY <3>2
      <4> QED BY <4>1, Zenon DEF EndsAnew
    <3> HIDE DEF t
    <3>4. Known(t)' /\ Terminal(t)' => tasks'[t] # Null /\ tasks'[t].state \in EndStates
      BY <1>1 DEF t, Known, Terminal
    <3> QED BY <3>2, <3>3, <3>4, Zenon DEF TaskKeeps, t
  <2>2. streams'[s] = streams[s] /\ \A g \in Goroutines : publishing'[g] = publishing[g]
    BY <1>1
  <2>3. StreamIs(s)
    BY DEF TaskStreamsInv
  <2> QED BY <2>1, <2>2, <2>3, StreamStays
<1> QED BY <1>2, <1>3 DEF TaskStreamsInv

LEMMA DoneStream ==
  ASSUME NEW done, done = [NewStream EXCEPT !.pc = "done"]
  PROVE  done \in StreamRecords /\ done.pc = "done" /\ ~done.registered
<1>1. /\ done.pc = "done" /\ done.task = Null /\ done.first = 1 /\ done.replay = <<>>
      /\ done.queue = <<>> /\ done.received = {} /\ done.registered = FALSE /\ done.closed = FALSE
      /\ done = [pc |-> "done", task |-> Null, first |-> 1, replay |-> <<>>, registered |-> FALSE,
                 queue |-> <<>>, closed |-> FALSE, received |-> {}]
  BY DEF NewStream
<1>2. <<>> \in Seq(Nat) /\ {} \in SUBSET Nat /\ 1 \in Nat
  OBVIOUS
<1> QED BY <1>1, <1>2 DEF StreamRecords

LEMMA StreamEndsKeeps ==
  ASSUME TaskStreamsInv, NEW s \in Streams, StreamEnds(s)
  PROVE  TaskStreamsInv'
<1>1. /\ streams[s].pc = "open"
      /\ streams' = [streams EXCEPT ![s] = [NewStream EXCEPT !.pc = "done"]]
      /\ UNCHANGED <<publishing, log, tasks>> /\ StreamsType
  BY DEF StreamEnds, vars, registry, TaskStreamsInv
<1> DEFINE done == [NewStream EXCEPT !.pc = "done"]
<1>2. done \in StreamRecords /\ done.pc = "done" /\ ~done.registered
  BY DoneStream
<1> HIDE DEF done
<1>3. /\ streams' = [streams EXCEPT ![s] = done]
      /\ streams'[s] = done /\ \A u \in Streams \ {s} : streams'[u] = streams[u]
  BY <1>1 DEF done, StreamsType
<1>4. StreamsType'
  BY <1>1, <1>2, <1>3 DEF StreamsType
<1>5. StreamIs(s)'
  BY <1>2, <1>3 DEF StreamIs
<1>6. ASSUME NEW u \in Streams \ {s} PROVE StreamIs(u)'
  <2>1. StreamIs(u) /\ streams'[u] = streams[u]
    BY <1>3 DEF TaskStreamsInv
  <2>2. LET t == streams[u].task IN
        log'[t] = log[t] /\ (Known(t)' /\ Terminal(t)' => Known(t) /\ Terminal(t))
    BY <1>1, <2>1 DEF Known, Terminal
  <2> QED BY <1>1, <2>1, <2>2, StreamStays
<1> QED BY <1>4, <1>5, <1>6 DEF TaskStreamsInv

\* Only the record of one stream changes, and nothing that is to be sent.
LEMMA OneStreamKeeps ==
  ASSUME TaskStreamsInv, NEW s \in Streams, NEW stream \in StreamRecords,
         streams' = [streams EXCEPT ![s] = stream], UNCHANGED <<publishing, log>>,
         \A t \in Tasks : Known(t)' /\ Terminal(t)' => Known(t) /\ Terminal(t),
         StreamIs(s)'
  PROVE  TaskStreamsInv'
<1>1. StreamsType /\ StreamsType'
  BY DEF TaskStreamsInv, StreamsType
<1>2. ASSUME NEW u \in Streams \ {s} PROVE StreamIs(u)'
  <2>1. StreamIs(u) /\ streams'[u] = streams[u]
    BY <1>1 DEF TaskStreamsInv, StreamsType
  <2>2. streams[u].pc = "open" => streams[u].task \in Tasks
    BY <2>1, Zenon DEF StreamIs, OpenStream
  <2> QED BY <2>1, <2>2, StreamStays
<1> QED BY <1>1, <1>2 DEF TaskStreamsInv

LEMMA NextMessageKeeps ==
  ASSUME TaskStreamsInv, NEW s \in Streams, NextMessage(s)
  PROVE  TaskStreamsInv'
<1> DEFINE stream == streams[s]
           t == stream.task
           held == stream.replay \o stream.queue
           replayed == [stream EXCEPT !.replay = Tail(@),
                                      !.received = @ \cup {Head(stream.replay)}]
           queued == [stream EXCEPT !.queue = Tail(@),
                                    !.received = @ \cup {Head(stream.queue)}]
<1>1. /\ StreamsType /\ stream \in StreamRecords /\ stream.pc = "open" /\ OpenStream(s)
      /\ UNCHANGED <<publishing, log, tasks>>
  BY DEF NextMessage, vars, registry, TaskStreamsInv, StreamIs, StreamsType
<1>2. stream.replay \in Seq(Nat) /\ stream.queue \in Seq(Nat) /\ stream.received \subseteq Nat
  BY <1>1 DEF StreamRecords
<1>3. held \in Seq(Nat) /\ IsInjective(held)
  BY <1>1, <1>2, HeldParts DEF OpenStream, Fits
<1>4. \E read \in StreamRecords :
        /\ streams' = [streams EXCEPT ![s] = read]
        /\ held # <<>> /\ read.replay \o read.queue = Tail(held)
        /\ read.received = stream.received \cup {Head(held)}
        /\ read.pc = stream.pc /\ read.task = stream.task /\ read.first = stream.first
        /\ read.closed = stream.closed /\ read.registered = stream.registered
  <2>1. CASE stream.replay # <<>>
    <3>1. held # <<>> /\ Head(held) = Head(stream.replay) /\ Tail(held) = Tail(stream.replay) \o stream.queue
      BY <1>2, <2>1, HeldParts
    <3>2. streams' = [streams EXCEPT ![s] = replayed]
      BY <1>1, <2>1 DEF NextMessage, StreamsType
    <3>3. Tail(stream.replay) \in Seq(Nat) /\ Head(stream.replay) \in Nat
      BY <1>2, <2>1
    <3>4. /\ replayed \in StreamRecords
          /\ replayed.replay = Tail(stream.replay) /\ replayed.queue = stream.queue
          /\ replayed.received = stream.received \cup {Head(stream.replay)}
          /\ replayed.pc = stream.pc /\ replayed.task = stream.task /\ replayed.first = stream.first
          /\ replayed.closed = stream.closed /\ replayed.registered = stream.registered
      BY <1>1, <3>3 DEF StreamRecords
    <3> HIDE DEF replayed, held, stream
    <3> QED BY <3>1, <3>2, <3>4, Zenon
  <2>2. CASE stream.replay = <<>> /\ stream.queue # <<>>
    <3>1. held = stream.queue
      BY <1>2, <2>2, HeldParts
    <3>2. streams' = [streams EXCEPT ![s] = queued]
      BY <1>1, <2>2 DEF NextMessage, StreamsType
    <3>3. Tail(stream.queue) \in Seq(Nat) /\ Head(stream.queue) \in Nat
      BY <1>2, <2>2
    <3>4. /\ queued \in StreamRecords
          /\ queued.replay = stream.replay /\ queued.queue = Tail(stream.queue)
          /\ queued.received = stream.received \cup {Head(stream.queue)}
          /\ queued.pc = stream.pc /\ queued.task = stream.task /\ queued.first = stream.first
          /\ queued.closed = stream.closed /\ queued.registered = stream.registered
      BY <1>1, <3>3 DEF StreamRecords
    <3>5. queued.replay \o queued.queue = Tail(held)
      <4>1. <<>> \o Tail(stream.queue) = Tail(stream.queue)
        BY <3>3
      <4> HIDE DEF queued, held, stream
      <4> QED BY <2>2, <3>1, <3>4, <4>1
    <3> HIDE DEF queued, held, stream
    <3> QED BY <2>2, <3>1, <3>2, <3>4, <3>5, Zenon
  <2> QED BY <2>1, <2>2 DEF NextMessage
<1>5. PICK read \in StreamRecords :
        /\ streams' = [streams EXCEPT ![s] = read]
        /\ held # <<>> /\ read.replay \o read.queue = Tail(held)
        /\ read.received = stream.received \cup {Head(held)}
        /\ read.pc = stream.pc /\ read.task = stream.task /\ read.first = stream.first
        /\ read.closed = stream.closed /\ read.registered = stream.registered
  BY <1>4, Zenon
<1>6. streams'[s] = read
  BY <1>1, <1>5 DEF StreamsType
<1>7. Fits(stream, SentTo(s), Len(log[t]))
  BY <1>1, Zenon DEF OpenStream
<1>8. Fits(read, SentTo(s), Len(log[t]))
  <2> HIDE DEF stream, t
  <2> QED BY <1>1, <1>5, <1>7, FitsRead
<1>9. /\ SentTo(s)' = SentTo(s) /\ (SentOnce(s) => SentOnce(s)')
      /\ \A g \in Goroutines : Closes(publishing[g], s)' <=> Closes(publishing[g], s)
  <2> HIDE DEF stream, held, replayed, queued, t
  <2>1. publishing' = publishing
    BY <1>1
  <2>2. SentTo(s)' = SentTo(s)
    BY <2>1 DEF SentTo
  <2>3. SentOnce(s) => SentOnce(s)'
    <3>1. \A g \in Goroutines : /\ Once(publishing[g], s)' <=> Once(publishing[g], s)
                               /\ Due(publishing[g], s)' = Due(publishing[g], s)
      BY <2>1 DEF Once, Due
    <3> QED BY <3>1, Zenon DEF SentOnce
  <2>4. \A g \in Goroutines : Closes(publishing[g], s)' <=> Closes(publishing[g], s)
    BY <2>1 DEF Closes
  <2> QED BY <2>2, <2>3, <2>4
<1>10. Fits(streams[s], SentTo(s), Len(log[streams[s].task]))'
  <2>1. /\ streams[s]' = read /\ SentTo(s)' = SentTo(s)
        /\ Len(log[streams[s].task])' = Len(log[t])
    BY <1>1, <1>5, <1>6, <1>9
  <2> QED BY <1>8, <2>1 DEF Fits
<1>11. OpenStream(s)'
  BY <1>1, <1>5, <1>6, <1>9, <1>10, Zenon DEF OpenStream, Known, Terminal
<1>12. StreamIs(s)'
  BY <1>1, <1>5, <1>6, <1>11, Zenon DEF StreamIs
<1>13. \A u \in Tasks : Known(u)' /\ Terminal(u)' => Known(u) /\ Terminal(u)
  BY <1>1 DEF Known, Terminal
<1> QED BY <1>1, <1>5, <1>12, <1>13, OneStreamKeeps

LEMMA StreamTaskReads ==
  ASSUME NEW s \in Streams, StreamTask(s)
  PROVE  TasksNext /\ UNCHANGED <<publishing, log>>
<1>1. GetTaskStatus
  BY DEF StreamTask, GetTaskStatus, appServer, pendings
<1> QED BY <1>1 DEF TasksNext, StreamTask

LEMMA StreamTaskKeeps ==
  ASSUME TaskStreamsInv, Ready, NEW s \in Streams, StreamTask(s)
  PROVE  TaskStreamsInv'
<1>1. /\ StreamsType /\ StreamIs(s) /\ streams[s].pc = "new" /\ LogsType
      /\ tasks' = RetainedTasks /\ UNCHANGED <<publishing, log>>
  BY DEF StreamTask, TaskStreamsInv, Ready, TasksInv
<1>2. \A t \in Tasks : RetainedTasks[t] \in {tasks[t], Null}
  BY Retained, Zenon DEF Ready
<1>3. \A t \in Tasks : Known(t)' /\ Terminal(t)' => Known(t) /\ Terminal(t)
  BY <1>1, <1>2, Zenon DEF Known, Terminal
<1>4. PICK t \in Tasks, cursor \in Cursors :
        /\ log[t] # <<>>
        /\ streams' = [streams EXCEPT ![s] =
             IF RetainedTasks[t] = Null \/ (cursor.from = "after" /\ cursor.id > Len(log[t]))
             THEN [NewStream EXCEPT !.pc = "done"] ELSE Subscribed(t, cursor)]
  BY Zenon DEF StreamTask
<1>5. CASE RetainedTasks[t] = Null \/ (cursor.from = "after" /\ cursor.id > Len(log[t]))
  <2> DEFINE done == [NewStream EXCEPT !.pc = "done"]
  <2>1. done \in StreamRecords /\ done.pc = "done" /\ ~done.registered
    BY DoneStream
  <2> HIDE DEF done
  <2>2. streams' = [streams EXCEPT ![s] = done]
    BY <1>4, <1>5 DEF done
  <2>3. streams'[s] = done
    BY <1>1, <2>2 DEF StreamsType
  <2>4. StreamIs(s)'
    BY <2>1, <2>3 DEF StreamIs
  <2> QED BY <1>1, <1>3, <2>1, <2>2, <2>4, OneStreamKeeps
<1>6. CASE ~(RetainedTasks[t] = Null \/ (cursor.from = "after" /\ cursor.id > Len(log[t])))
  <2> DEFINE stream == Subscribed(t, cursor)
             n == Len(log[t])
  <2>1. /\ stream \in StreamRecords
        /\ stream.pc = "open" /\ stream.task = t
        /\ stream.registered <=> ~Terminal(t)
        /\ stream.closed <=> Terminal(t)
        /\ Fits(stream, {}, n)
    BY <1>1, <1>4, <1>6, FitsSubscribed
  <2> HIDE DEF stream
  <2>2. streams' = [streams EXCEPT ![s] = stream]
    BY <1>4, <1>6 DEF stream
  <2>3. streams'[s] = stream
    BY <1>1, <2>2 DEF StreamsType
  <2>4. \A g \in Goroutines : Due(publishing[g], s) = {}
    BY <1>1, Zenon DEF StreamIs
  <2>5. publishing' = publishing /\ log' = log
    BY <1>1
  <2>6. SentTo(s)' = {}
    BY <2>4, <2>5, SentToIs
  <2>7. SentOnce(s)'
    <3>1. \A g \in Goroutines : Once(publishing[g], s)
      BY <2>4 DEF Once, Due
    <3>2. \A g, h \in Goroutines : g # h => Due(publishing[g], s) \cap Due(publishing[h], s) = {}
      BY <2>4
    <3>3. SentOnce(s)
      BY <3>1, <3>2, Zenon DEF SentOnce
    <3>4. \A g \in Goroutines : /\ Once(publishing[g], s)' <=> Once(publishing[g], s)
                               /\ Due(publishing[g], s)' = Due(publishing[g], s)
      BY <2>5 DEF Once, Due
    <3> QED BY <3>3, <3>4, Zenon DEF SentOnce
  <2>8. Fits(streams[s], SentTo(s), Len(log[streams[s].task]))'
    <3>1. /\ streams[s]' = stream /\ SentTo(s)' = {} /\ Len(log[streams[s].task])' = n
      BY <2>1, <2>3, <2>5, <2>6
    <3> QED BY <2>1, <3>1 DEF Fits
  <2>9. ASSUME ~stream.closed PROVE stream.registered /\ ~(Known(t)' /\ Terminal(t)')
    BY <1>3, <2>1, <2>9, Zenon
  <2>10. OpenStream(s)'
    BY <1>4, <2>1, <2>3, <2>5, <2>7, <2>8, <2>9, Zenon DEF OpenStream, Known, Terminal
  <2>11. StreamIs(s)'
    BY <2>1, <2>3, <2>10, Zenon DEF StreamIs
  <2> QED BY <1>1, <1>3, <2>1, <2>2, <2>11, OneStreamKeeps
<1> QED BY <1>5, <1>6

\* Sending one event to one stream.
LEMMA PublishKeeps ==
  ASSUME TaskStreamsInv, Ready, NEW g \in Goroutines, Publish(g)
  PROVE  TaskStreamsInv'
<1> DEFINE pubs == publishing[g]
           p == Head(pubs)
           e == p.event
<1>1. StreamsType /\ pubs \in Seq(Publications) /\ pubs # <<>> /\ UNCHANGED <<log, tasks>>
  BY DEF TaskStreamsInv, StreamsType, Publish, vars, registry
<1>2. p \in Publications /\ p.to \subseteq Streams
  <2>1. p \in Publications
    <3> HIDE DEF Publications
    <3> QED BY <1>1
  <2> QED BY <2>1 DEF Publications
<1>3. PICK s \in p.to :
        /\ streams' = [streams EXCEPT ![s] = IF @.pc = "open" THEN Deliver(@, p) ELSE @]
        /\ publishing' = [publishing EXCEPT ![g] =
             IF p.to = {s} THEN Tail(@) ELSE <<[p EXCEPT !.to = @ \ {s}]>> \o Tail(@)]
  BY Zenon DEF Publish
<1> DEFINE rest == Rest(pubs, s)
           stream == streams[s]
           next == IF stream.pc = "open" THEN Deliver(stream, p) ELSE stream
<1>4. publishing' = [publishing EXCEPT ![g] = rest]
  BY <1>1, <1>3 DEF Rest, StreamsType
<1>5. s \in Streams /\ streams' = [streams EXCEPT ![s] = next]
  BY <1>1, <1>2, <1>3 DEF StreamsType
<1>6. /\ rest \in Seq(Publications)
      /\ \A u : u # s => /\ Due(rest, u) = Due(pubs, u)
                         /\ Once(pubs, u) => Once(rest, u)
                         /\ Closes(pubs, u) => Closes(rest, u)
      /\ e \in Due(pubs, s)
      /\ Once(pubs, s) => /\ Due(rest, s) = Due(pubs, s) \ {e}
                          /\ Once(rest, s)
      /\ Closes(pubs, s) /\ ~p.closeAfter => Closes(rest, s)
  BY <1>1, <1>3, DueOfRest
<1> HIDE DEF rest, next
<1>7. /\ publishing'[g] = rest /\ \A h \in Goroutines \ {g} : publishing'[h] = publishing[h]
      /\ streams'[s] = next /\ \A u \in Streams \ {s} : streams'[u] = streams[u]
  BY <1>1, <1>4, <1>5 DEF StreamsType
<1>8. stream \in StreamRecords /\ StreamIs(s)
  BY <1>1, <1>5 DEF TaskStreamsInv, StreamsType
<1>9. ASSUME NEW u \in Streams \ {s} PROVE StreamIs(u)'
  <2>1. StreamIs(u) /\ streams'[u] = streams[u]
    BY <1>7 DEF TaskStreamsInv
  <2>2. \A h \in Goroutines :
          /\ Due(publishing'[h], u) = Due(publishing[h], u)
          /\ Once(publishing[h], u) => Once(publishing'[h], u)
          /\ Closes(publishing[h], u) => Closes(publishing'[h], u)
    BY <1>6, <1>7, Zenon
  <2>3. LET t == streams[u].task IN
        log'[t] = log[t] /\ (Known(t)' /\ Terminal(t)' => Known(t) /\ Terminal(t))
    BY <1>1, <2>1 DEF Known, Terminal
  <2> QED BY <2>1, <2>2, <2>3, StreamStays
<1>10. CASE stream.pc # "open"
  <2>1. stream.pc # "new" /\ next = stream /\ ~stream.registered
    BY <1>6, <1>8, <1>10 DEF StreamIs, next
  <2>2. StreamIs(s)'
    BY <1>7, <1>10, <2>1 DEF StreamIs
  <2>3. StreamsType'
    BY <1>1, <1>4, <1>5, <1>6, <1>8, <2>1 DEF StreamsType
  <2> QED BY <1>9, <2>2, <2>3 DEF TaskStreamsInv
<1>11. CASE stream.pc = "open"
  <2> DEFINE t == stream.task
             n == Len(log[t])
             sent == SentTo(s)
  <2>1. OpenStream(s) /\ next = Deliver(stream, p)
    BY <1>8, <1>11 DEF StreamIs, next
  <2>2. /\ t \in Tasks /\ log[t] # <<>> /\ SentOnce(s) /\ Fits(stream, sent, n)
        /\ ~stream.closed =>
             /\ stream.registered
             /\ Known(t) /\ Terminal(t) => \E h \in Goroutines : Closes(publishing[h], s)
    BY <2>1, Zenon DEF OpenStream
  <2>3. n \in Nat
    BY <2>2 DEF Ready, TasksInv, LogsType
  <2>4. /\ \A h \in Goroutines : Once(publishing[h], s)
        /\ \A h, k \in Goroutines : h # k => Due(publishing[h], s) \cap Due(publishing[k], s) = {}
    BY <2>2, Zenon DEF SentOnce
  <2>5. Due(rest, s) = Due(pubs, s) \ {e} /\ Once(rest, s) /\ e \in Due(pubs, s)
    BY <1>6, <2>4
  <2>6. \A h \in Goroutines \ {g} : e \notin Due(publishing[h], s)
    <3> HIDE DEF e
    <3> QED BY <2>4, <2>5
  <2>7. SentTo(s)' = sent \ {e} /\ e \in sent
    <3>1. /\ sent = UNION {Due(publishing[h], s) : h \in Goroutines}
          /\ SentTo(s)' = UNION {Due(publishing'[h], s) : h \in Goroutines}
      BY SentToIs
    <3>2. \A h \in Goroutines : Due(publishing'[h], s) = Due(publishing[h], s) \ {e}
      <4> HIDE DEF e
      <4> QED BY <1>7, <2>5, <2>6
    <3> HIDE DEF e, sent
    <3>3. UNION {Due(publishing'[h], s) : h \in Goroutines}
            = (UNION {Due(publishing[h], s) : h \in Goroutines}) \ {e}
      BY <3>2
    <3>4. e \in UNION {Due(publishing[h], s) : h \in Goroutines}
      BY <2>5
    <3> QED BY <3>1, <3>3, <3>4
  <2>8. SentOnce(s)'
    <3>1. \A h \in Goroutines : Once(publishing'[h], s)
      BY <1>7, <2>4, <2>5, Zenon
    <3>2. \A h \in Goroutines : Due(publishing'[h], s) \subseteq Due(publishing[h], s)
      <4> HIDE DEF e
      <4> QED BY <1>7, <2>5
    <3>3. \A h, k \in Goroutines : h # k =>
            Due(publishing'[h], s) \cap Due(publishing'[k], s) = {}
      <4> SUFFICES ASSUME NEW h \in Goroutines, NEW k \in Goroutines, h # k
                   PROVE  Due(publishing'[h], s) \cap Due(publishing'[k], s) = {}
        OBVIOUS
      <4> QED BY <2>4, <3>2
    <3> QED BY <3>1, <3>3 DEF SentOnce, Once, Due
  <2>9. /\ next \in StreamRecords /\ next.pc = "open" /\ next.task = t
        /\ Fits(next, sent \ {e}, n)
        /\ ~next.closed => ~stream.closed /\ next.registered = stream.registered /\ ~p.closeAfter
    <3>1. CASE ~stream.closed /\ Len(stream.queue) < SubscriberQueue
      <4>1. next = Sent(stream, p)
        BY <2>1, <3>1 DEF Deliver
      <4>2. Fits(Sent(stream, p), sent \ {e}, n) /\ Sent(stream, p) \in StreamRecords
        <5> HIDE DEF sent, n, stream, p
        <5> QED BY <1>2, <1>8, <2>2, <2>3, <2>7, <3>1, FitsSent
      <4>3. /\ Sent(stream, p).pc = stream.pc /\ Sent(stream, p).task = t
            /\ Sent(stream, p).registered = stream.registered
            /\ Sent(stream, p).closed = p.closeAfter
        BY <1>8 DEF Sent, StreamRecords
      <4> HIDE DEF stream, sent, n, p
      <4> QED BY <1>11, <3>1, <4>1, <4>2, <4>3 DEF stream
    <3>2. CASE ~(~stream.closed /\ Len(stream.queue) < SubscriberQueue)
      <4>1. next = Removed(stream)
        BY <2>1, <3>2 DEF Deliver
      <4>2. Fits(Removed(stream), sent \ {e}, n) /\ Removed(stream) \in StreamRecords
        <5> HIDE DEF sent, n, stream, e
        <5>1. sent \ {e} \subseteq sent
          OBVIOUS
        <5> QED BY <1>8, <2>2, <5>1, FitsRemoved
      <4>3. /\ Removed(stream).pc = stream.pc /\ Removed(stream).task = t
            /\ Removed(stream).closed
        BY <1>8 DEF Removed, StreamRecords
      <4> QED BY <1>11, <4>1, <4>2, <4>3
    <3> QED BY <3>1, <3>2
  <2>10. ASSUME ~next.closed
         PROVE  /\ next.registered
                /\ Known(t) /\ Terminal(t) => \E h \in Goroutines : Closes(publishing'[h], s)
    <3>1. next.registered /\ ~p.closeAfter /\ ~stream.closed
      BY <2>2, <2>9, <2>10
    <3>2. ASSUME NEW h \in Goroutines, Closes(publishing[h], s) PROVE Closes(publishing'[h], s)
      BY <1>6, <1>7, <3>1, <3>2
    <3> QED BY <2>2, <3>1, <3>2, Zenon
  <2>11. \A h \in Goroutines : Closes(publishing[h], s)' <=> Closes(publishing'[h], s)
    BY DEF Closes
  <2>12. Fits(streams[s], SentTo(s), Len(log[streams[s].task]))'
    <3>1. /\ streams[s]' = next /\ SentTo(s)' = sent \ {e} /\ Len(log[streams[s].task])' = n
      BY <1>1, <1>7, <2>7, <2>9
    <3> QED BY <2>9, <3>1 DEF Fits
  <2>13. tasks' = tasks /\ log' = log
    BY <1>1
  <2>14. OpenStream(s)'
    BY <1>7, <2>2, <2>8, <2>9, <2>10, <2>11, <2>12, <2>13, Zenon DEF OpenStream, Known, Terminal
  <2>15. StreamIs(s)'
    BY <1>7, <2>9, <2>14, Zenon DEF StreamIs
  <2>16. StreamsType'
    BY <1>1, <1>4, <1>5, <1>6, <2>9 DEF StreamsType
  <2> QED BY <1>9, <2>15, <2>16 DEF TaskStreamsInv
<1> QED BY <1>10, <1>11

\* A goroutine of the task service that has told everybody of what it did before.
LEMMA ThenKeeps ==
  ASSUME TaskStreamsInv, Ready, NEW g \in Goroutines, TasksNext, publishing[g] = <<>>,
         Appends(g), UNCHANGED streams
  PROVE  TaskStreamsInv'
<1>1. Ready' /\ Growth
  BY ReadyKept, TasksNextGrows
<1> QED BY <1>1, AppendingKeeps

\* A goroutine of the task service takes a step, or it is a step of another that appends
\* to no log that is read, or of the streams.
LEMMA StreamsSteps ==
  ASSUME Ready, StreamsNext
  PROVE  \/ \E g \in Goroutines : /\ TasksNext /\ publishing[g] = <<>>
                                  /\ Appends(g) /\ UNCHANGED streams
         \/ /\ TasksNext /\ UNCHANGED streamVars
            /\ \A t \in Tasks : log[t] # <<>> => log'[t] = log[t]
         \/ \E s \in Streams : StreamTask(s) \/ NextMessage(s) \/ StreamEnds(s)
         \/ \E g \in Goroutines : Publish(g)
<1> DEFINE Tells == \E g \in Goroutines : /\ TasksNext /\ publishing[g] = <<>>
                                         /\ Appends(g) /\ UNCHANGED streams
           Alone == /\ TasksNext /\ UNCHANGED streamVars
                    /\ \A t \in Tasks : log[t] # <<>> => log'[t] = log[t]
<1>1. ASSUME NEW c \in Clients, Elsewhere(ClaimStart(c)) PROVE Alone
  <2>1. ClaimStart(c) /\ UNCHANGED streamVars
    BY <1>1 DEF Elsewhere
  <2>2. TasksNext
    BY <2>1, Zenon DEF TasksNext, GatewayStep
  <2> QED BY <2>1, <2>2, ClaimStartGrows, Zenon
<1>2. ASSUME NEW t \in Tasks, Start(t) PROVE Tells
  <2>1. t \in Goroutines
    BY DEF Goroutines
  <2> QED BY <1>2, <2>1, Zenon DEF Start, Then, TasksNext, GatewayStep
<1>3. ASSUME NEW i \in Interrupters, InterruptBegins(i) \/ InterruptGoesOn(i) PROVE Tells
  <2>1. i \in Goroutines
    BY DEF Goroutines
  <2> QED BY <1>3, <2>1, Zenon DEF InterruptBegins, InterruptGoesOn, Then, TasksNext, GatewayStep
<1>4. ASSUME NEW n \in Connections, Monitors(n) PROVE Tells
  <2>1. n \in Goroutines
    BY DEF Goroutines
  <2> QED BY <1>4, <2>1, Zenon DEF Monitors, Then, TasksNext, GatewayStep
<1>5. ASSUME NEW r \in Responders, Claims(r) \/ Answering(r) PROVE Tells
  <2>1. r \in Goroutines
    BY DEF Goroutines
  <2> QED BY <1>5, <2>1, Zenon DEF Claims, Answering, Then, TasksNext, GatewayStep, ResponderStep
<1>6. ASSUME Refreshes \/ Warns PROVE Tells
  <2>1. Hook \in Goroutines
    BY DEF Goroutines
  <2> QED BY <1>6, <2>1, Zenon DEF Refreshes, Warns, Then, TasksNext
<1>7. ASSUME Elsewhere(AppServerStep \/ GetTaskStatus) PROVE Alone
  <2>1. (AppServerStep \/ GetTaskStatus) /\ UNCHANGED streamVars
    BY <1>7 DEF Elsewhere
  <2>2. UNCHANGED log
    BY <2>1 DEF AppServerStep, CodexStartsTurn, CodexEndsTurn, CodexAsks, RestOfAppServer, GetTaskStatus
  <2> QED BY <2>1, <2>2 DEF TasksNext
<1>8. ASSUME NEW t \in Tasks, Elsewhere(RetentionEnds(t) \/ CodexStartsThread(t)) PROVE Alone
  <2>1. (RetentionEnds(t) \/ CodexStartsThread(t)) /\ UNCHANGED streamVars
    BY <1>8 DEF Elsewhere
  <2>2. UNCHANGED log
    BY <2>1 DEF RetentionEnds, CodexStartsThread, RestOfAppServer, registry
  <2>3. TasksNext
    BY <2>1, Zenon DEF TasksNext
  <2> QED BY <2>1, <2>2, <2>3
<1>9. ASSUME NEW q \in Requests, Elsewhere(CodexWithdraws(q)) PROVE Alone
  <2>1. CodexWithdraws(q) /\ UNCHANGED streamVars
    BY <1>9 DEF Elsewhere
  <2>2. UNCHANGED log
    BY <2>1 DEF CodexWithdraws, RestOfAppServer
  <2>3. TasksNext
    BY <2>1, Zenon DEF TasksNext
  <2> QED BY <2>1, <2>2, <2>3
<1>10. ASSUME NEW n \in Connections, Elsewhere(ConnectionIsLost(n)) PROVE Alone
  <2>1. ConnectionIsLost(n) /\ UNCHANGED streamVars
    BY <1>10 DEF Elsewhere
  <2>2. UNCHANGED log
    BY <2>1 DEF ConnectionIsLost, RestOfAppServer
  <2>3. TasksNext
    BY <2>1, Zenon DEF TasksNext
  <2> QED BY <2>1, <2>2, <2>3
<1> HIDE DEF Tells, Alone
<1>11. \/ Tells \/ Alone
       \/ \E s \in Streams : StreamTask(s) \/ NextMessage(s) \/ StreamEnds(s)
       \/ \E g \in Goroutines : Publish(g)
  BY <1>1, <1>2, <1>3, <1>4, <1>5, <1>6, <1>7, <1>8, <1>9, <1>10, Zenon DEF StreamsNext
<1> QED BY <1>11 DEF Tells, Alone

LEMMA StreamsNextFollows ==
  ASSUME Ready, StreamsNext
  PROVE  TasksNext \/ UNCHANGED vars
BY StreamsSteps, StreamTaskReads, Zenon DEF NextMessage, StreamEnds, Publish

LEMMA StreamsNextKeeps ==
  ASSUME TaskStreamsInv, Ready, [StreamsNext]_allVars
  PROVE  TaskStreamsInv' /\ Ready'
<1>1. CASE StreamsNext
  <2>1. Ready'
    BY <1>1, StreamsNextFollows, ReadyKept
  <2>2. CASE \E g \in Goroutines : /\ TasksNext /\ publishing[g] = <<>>
                                   /\ Appends(g) /\ UNCHANGED streams
    BY <2>1, <2>2, ThenKeeps, Zenon
  <2>3. CASE /\ TasksNext /\ UNCHANGED streamVars
             /\ \A t \in Tasks : log[t] # <<>> => log'[t] = log[t]
    BY <2>1, <2>3, TasksNextGrows, ElsewhereKeeps, Zenon
  <2> QED BY <1>1, <2>1, <2>2, <2>3, StreamsSteps, StreamTaskKeeps, NextMessageKeeps,
             StreamEndsKeeps, PublishKeeps, Zenon
<1>2. CASE UNCHANGED allVars
  <2>1. UNCHANGED vars /\ UNCHANGED streamVars
    BY <1>2 DEF allVars
  <2>2. Ready' /\ UNCHANGED <<streams, publishing, log, tasks>>
    BY <2>1, ReadyKept DEF vars, registry, streamVars
  <2>3. Growth
    BY <2>2, GrowthNone
  <2> QED BY <2>1, <2>2, <2>3, ElsewhereKeeps
<1> QED BY <1>1, <1>2

LEMMA StreamsInitEstablishes ==
  ASSUME TasksInit, StreamsInit
  PROVE  TaskStreamsInv /\ Ready
<1>1. NewStream \in StreamRecords /\ NewStream.pc = "new" /\ ~NewStream.registered
  <2>1. <<>> \in Seq(Nat) /\ {} \in SUBSET Nat /\ 1 \in Nat
    OBVIOUS
  <2> QED BY <2>1 DEF NewStream, StreamRecords
<1>2. StreamsType
  BY <1>1, DueOfNone DEF StreamsInit, StreamsType
<1>3. ASSUME NEW s \in Streams PROVE StreamIs(s)
  <2>1. streams[s] = NewStream /\ \A g \in Goroutines : publishing[g] = <<>>
    BY DEF StreamsInit
  <2> QED BY <1>1, <2>1, DueOfNone DEF StreamIs
<1> QED BY <1>2, <1>3, ReadyAtFirst DEF TaskStreamsInv

\* The task service that is read by streams is the task service: whatever it tells them and
\* whoever reads does not change what it may do (publishEvent is called without Service.mu).
THEOREM StreamsFollowTasks == StreamsSpec => TasksInit /\ [][TasksNext]_vars
<1>1. TasksInit /\ StreamsInit => TaskStreamsInv /\ Ready
  BY StreamsInitEstablishes
<1>2. TaskStreamsInv /\ Ready /\ [StreamsNext]_allVars => (TaskStreamsInv /\ Ready)'
  BY StreamsNextKeeps
<1>3. Ready /\ [StreamsNext]_allVars => [TasksNext]_vars
  BY StreamsNextFollows DEF allVars
<1> QED BY <1>1, <1>2, <1>3, PTL DEF StreamsSpec

\* The inductive invariant of the streams of tasks: what a stream holds, has handed out and
\* is still to be sent are events of its task, each of them in one place, and one of the
\* goroutines that publish will close it once the task has ended.
THEOREM TaskStreamsInvHolds == StreamsSpec => [](TaskStreamsInv /\ Ready)
<1>1. TasksInit /\ StreamsInit => TaskStreamsInv /\ Ready
  BY StreamsInitEstablishes
<1>2. TaskStreamsInv /\ Ready /\ [StreamsNext]_allVars => (TaskStreamsInv /\ Ready)'
  BY StreamsNextKeeps
<1> QED BY <1>1, <1>2, PTL DEF StreamsSpec

\* However many goroutines append to the log of a task and deliver to a stream of it in any
\* order, while it is opened, read and given up, an open stream misses none of the events it
\* was promised and has none twice, and a stream of a task that has ended is closed once
\* nobody has anything left for it (subscribeLocked, publishEvent, taskSubscriber.send).
THEOREM TaskStreamsAreComplete == StreamsSpec => []OpenTaskStreamMissesNothing
<1>1. ASSUME TaskStreamsInv PROVE OpenTaskStreamMissesNothing
  <2> SUFFICES ASSUME NEW s \in Streams, streams[s].pc = "open"
      PROVE  LET stream == streams[s]
                 held == stream.replay \o stream.queue IN
             /\ IsInjective(held)
             /\ Range(held) \cap (stream.received \cup SentTo(s)) = {}
             /\ stream.received \cap SentTo(s) = {}
             /\ ~stream.closed =>
                  (Range(held) \cup stream.received \cup SentTo(s)) \ {Notice}
                    = stream.first..Len(log[stream.task])
             /\ Known(stream.task) /\ Terminal(stream.task) /\ SentTo(s) = {} => stream.closed
    BY Zenon DEF OpenTaskStreamMissesNothing
  <2> DEFINE stream == streams[s]
             t == stream.task
  <2>1. OpenStream(s)
    BY <1>1, Zenon DEF TaskStreamsInv, StreamIs
  <2>2. Fits(stream, SentTo(s), Len(log[t]))
    BY <2>1, Zenon DEF OpenStream
  <2>3. ASSUME Known(t), Terminal(t), SentTo(s) = {}, ~stream.closed PROVE FALSE
    <3>1. PICK g \in Goroutines : Closes(publishing[g], s)
      BY <2>1, <2>3, Zenon DEF OpenStream
    <3>2. Due(publishing[g], s) # {}
      BY <3>1 DEF Closes, Due
    <3>3. SentTo(s) = UNION {Due(publishing[h], s) : h \in Goroutines}
      BY SentToIs
    <3> QED BY <2>3, <3>2, <3>3
  <2> QED BY <2>2, <2>3 DEF Fits
<1> QED BY <1>1, TaskStreamsInvHolds, PTL
=============================================================================
