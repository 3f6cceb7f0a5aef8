------------------------------ MODULE Supervisor ------------------------------
(***************************************************************************)
(* Supervisors of app server connections                                   *)
(* (gateway/internal/appserver/supervisor.go): requests that want a        *)
(* connection share one, the first of them starts it while the others      *)
(* wait, starts that keep failing are refused for a while, and Close ends  *)
(* a start in progress.                                                    *)
(*                                                                         *)
(* One action is one critical section of Supervisor.mu, or what happens    *)
(* between two of them.  A connection is open from the moment its process  *)
(* is started until its dispatcher is closed, which the process's exit, an *)
(* uncertain call or Close may do.                                         *)
(***************************************************************************)
EXTENDS Integers, FiniteSets

CONSTANTS
  Supervisors,
  Callers,                 \* goroutines that ask for a connection
  RestartFailureThreshold, \* failed starts after which starts are refused
  Connections,             \* connections, of which a behaviour makes at most these
  MaxFailures,             \* bound on the failures a supervisor counts
  Null

ASSUME SupervisorAssumption ==
  /\ RestartFailureThreshold \in Nat \ {0}
  /\ MaxFailures \in Nat
  /\ Null \notin Callers \cup Supervisors \cup Connections

VARIABLES
  active,      \* supervisor -> the connection it hands out
  connecting,  \* supervisor -> the caller that starts one
  failures,    \* supervisor -> starts that failed since the last success
  cooling,     \* supervisor -> whether cooldownUntil lies ahead
  closed,      \* supervisor -> whether Close was called
  closing,     \* supervisor -> where Close is, and what it waits for
  callers,     \* caller -> where its call of Connection is
  owner,       \* connection -> the supervisor it was made for, Null if not made yet
  open         \* connections that are open

supervisorVars ==
  <<active, connecting, failures, cooling, closed, closing, callers, owner, open>>
-----------------------------------------------------------------------------
Errors == {"canceled", "deadline", "failed", "backoff"}
ASSUME ErrorsAssumption == Connections \cap Errors = {}

CallerLabels == {"idle", "enter", "connect", "handshake", "finish", "discard", "wait", "done"}
ClosingLabels == {"open", "cancel", "wait", "closed"}

\* result is what a call returns; offer what the start it waits for came to.
CallerRecords ==
  [pc : CallerLabels, sup : Supervisors \cup {Null}, expired : BOOLEAN,
   result : Connections \cup Errors \cup {Null}, offer : Connections \cup Errors \cup {Null}]
ClosingRecords ==
  [pc : ClosingLabels, conn : Connections \cup {Null}, leader : Callers \cup {Null}]

Idle == [pc |-> "idle", sup |-> Null, expired |-> FALSE, result |-> Null, offer |-> Null]

SupervisorInit ==
  /\ active = [s \in Supervisors |-> Null]
  /\ connecting = [s \in Supervisors |-> Null]
  /\ failures = [s \in Supervisors |-> 0]
  /\ cooling = [s \in Supervisors |-> FALSE]
  /\ closed = [s \in Supervisors |-> FALSE]
  /\ closing = [s \in Supervisors |-> [pc |-> "open", conn |-> Null, leader |-> Null]]
  /\ callers = [c \in Callers |-> Idle]
  /\ owner = [n \in Connections |-> Null]
  /\ open = {}

IsOpen(n) == n \in open
Asking(c) == callers[c].sup
Return(c, result) == [callers EXCEPT ![c].pc = "done", ![c].result = result]

Ask(c, s) ==
  /\ callers[c].pc = "idle"
  /\ callers' = [callers EXCEPT ![c] = [Idle EXCEPT !.pc = "enter", !.sup = s]]
  /\ UNCHANGED <<active, connecting, failures, cooling, closed, closing, owner, open>>

\* The first critical section of Connection: what there is, a refusal, a place
\* among those that wait, or the task of starting a connection.
Enter(c) ==
  LET s == Asking(c)
      usable == IF active[s] # Null /\ IsOpen(active[s]) THEN active[s] ELSE Null IN
  /\ callers[c].pc = "enter"
  /\ active' = IF closed[s] THEN active ELSE [active EXCEPT ![s] = usable]
  /\ \/ closed[s] /\ callers' = Return(c, "canceled") /\ UNCHANGED connecting
     \/ ~closed[s] /\ usable # Null /\ callers' = Return(c, usable) /\ UNCHANGED connecting
     \/ /\ ~closed[s] /\ usable = Null /\ cooling[s]
        /\ callers' = Return(c, "backoff")
        /\ UNCHANGED connecting
     \/ /\ ~closed[s] /\ usable = Null /\ ~cooling[s] /\ connecting[s] # Null
        /\ callers' = [callers EXCEPT ![c].pc = "wait"]
        /\ UNCHANGED connecting
     \/ /\ ~closed[s] /\ usable = Null /\ ~cooling[s] /\ connecting[s] = Null
        /\ callers' = [callers EXCEPT ![c].pc = "connect"]
        /\ connecting' = [connecting EXCEPT ![s] = c]
  /\ UNCHANGED <<failures, cooling, closed, closing, owner, open>>

\* Why a start gives up: it is refused, its caller or Close cancelled it, or the
\* startup timeout or the caller's own deadline has passed.
StartErrors(c) ==
  {"deadline"}
    \cup (IF failures[Asking(c)] < MaxFailures THEN {"failed"} ELSE {})
    \cup (IF callers[c].expired \/ closing[Asking(c)].pc \notin {"open", "cancel"}
          THEN {"canceled"} ELSE {})

\* StartProcessConnection without the mutex: a process, then the handshake with it,
\* after whose failure the connection is closed before the error is returned.
StartProcess(c) ==
  /\ callers[c].pc = "connect"
  /\ \/ \E n \in Connections :
          /\ owner[n] = Null
          /\ owner' = [owner EXCEPT ![n] = Asking(c)]
          /\ open' = open \cup {n}
          /\ callers' = [callers EXCEPT ![c].pc = "handshake", ![c].result = n]
     \/ /\ \E e \in StartErrors(c) :
             callers' = [callers EXCEPT ![c].pc = "finish", ![c].result = e]
        /\ UNCHANGED <<owner, open>>
  /\ UNCHANGED <<active, connecting, failures, cooling, closed, closing>>

Initialize(c) ==
  /\ callers[c].pc = "handshake"
  /\ \/ /\ IsOpen(callers[c].result)
        /\ callers' = [callers EXCEPT ![c].pc = "finish"]
        /\ UNCHANGED open
     \/ /\ \E e \in StartErrors(c) :
             callers' = [callers EXCEPT ![c].pc = "finish", ![c].result = e]
        /\ open' = open \ {callers[c].result}
  /\ UNCHANGED <<active, connecting, failures, cooling, closed, closing, owner>>


\* The start is over: those that wait for it are offered what it came to.
EndAttempt(c, result) ==
  LET s == Asking(c) IN
  /\ connecting' = [connecting EXCEPT ![s] = Null]
  /\ callers' = [d \in Callers |->
       IF d = c THEN [callers[d] EXCEPT !.pc = "done", !.result = result]
       ELSE IF callers[d].pc = "wait" /\ Asking(d) = s /\ callers[d].offer = Null
       THEN [callers[d] EXCEPT !.offer = result]
       ELSE callers[d]]

\* The second critical section of Connection.  Only a failure that is neither a
\* cancellation nor a deadline counts.
Finish(c) ==
  LET s == Asking(c)
      result == callers[c].result IN
  /\ callers[c].pc = "finish"
  /\ \/ /\ closed[s] /\ result \in Connections
        /\ callers' = [callers EXCEPT ![c].pc = "discard"]
        /\ UNCHANGED <<connecting, failures, cooling, active>>
     \/ /\ closed[s] /\ result \in Errors
        /\ EndAttempt(c, result)
        /\ UNCHANGED <<failures, cooling, active>>
     \/ /\ ~closed[s] /\ result = "failed"
        /\ failures' = [failures EXCEPT ![s] = @ + 1]
        /\ cooling' = [cooling EXCEPT ![s] = @ \/ failures[s] + 1 >= RestartFailureThreshold]
        /\ EndAttempt(c, result)
        /\ UNCHANGED active
     \/ /\ ~closed[s] /\ result \in {"canceled", "deadline"}
        /\ EndAttempt(c, result)
        /\ UNCHANGED <<failures, cooling, active>>
     \/ /\ ~closed[s] /\ result \in Connections
        /\ failures' = [failures EXCEPT ![s] = 0]
        /\ cooling' = [cooling EXCEPT ![s] = FALSE]
        /\ active' = [active EXCEPT ![s] = result]
        /\ EndAttempt(c, result)
  /\ UNCHANGED <<closed, closing, owner, open>>

\* The supervisor was closed during the start: the connection is closed before
\* the start is over.
Discard(c) ==
  /\ callers[c].pc = "discard"
  /\ open' = open \ {callers[c].result}
  /\ EndAttempt(c, "canceled")
  /\ UNCHANGED <<active, failures, cooling, closed, closing, owner>>

\* The select of a caller that waits for another's start: either branch when both are ready.
TakeOffer(c) ==
  /\ callers[c].pc = "wait"
  /\ callers[c].offer # Null
  /\ callers' = Return(c, callers[c].offer)
  /\ UNCHANGED <<active, connecting, failures, cooling, closed, closing, owner, open>>

StopWaiting(c) ==
  /\ callers[c].pc = "wait"
  /\ callers[c].expired
  /\ callers' = Return(c, "canceled")
  /\ UNCHANGED <<active, connecting, failures, cooling, closed, closing, owner, open>>

CallerStep(c) == \/ Enter(c) \/ StartProcess(c) \/ Initialize(c) \/ Finish(c)
                 \/ Discard(c) \/ TakeOffer(c) \/ StopWaiting(c)
-----------------------------------------------------------------------------
(* Closing a supervisor, and what happens around it                        *)

CloseBegins(s) ==
  /\ closing[s].pc = "open"
  /\ closed' = [closed EXCEPT ![s] = TRUE]
  /\ active' = [active EXCEPT ![s] = Null]
  /\ closing' = [closing EXCEPT ![s] =
       [pc |-> "cancel", conn |-> active[s], leader |-> connecting[s]]]
  /\ UNCHANGED <<connecting, failures, cooling, callers, owner, open>>

CloseConnection(s) ==
  /\ closing[s].pc = "cancel"
  /\ open' = open \ {closing[s].conn}
  /\ closing' = [closing EXCEPT ![s].pc = "wait"]
  /\ UNCHANGED <<active, connecting, failures, cooling, closed, callers, owner>>

\* Mutant: Close does not wait for a start in progress.
CloseEndsEarly(s) ==
  /\ closing[s].pc = "wait"
  /\ closing' = [closing EXCEPT ![s].pc = "closed"]
  /\ UNCHANGED <<active, connecting, failures, cooling, closed, callers, owner, open>>

CloseEnds(s) ==
  /\ closing[s].pc = "wait"
  /\ closing[s].leader = Null \/ connecting[s] # closing[s].leader
  /\ closing' = [closing EXCEPT ![s].pc = "closed"]
  /\ UNCHANGED <<active, connecting, failures, cooling, closed, callers, owner, open>>

CloseStep(s) == CloseConnection(s) \/ CloseEnds(s)

\* The app server exits, or a call whose effect is uncertain closes the connection.
ConnectionIsLost(n) ==
  /\ IsOpen(n)
  /\ open' = open \ {n}
  /\ UNCHANGED <<active, connecting, failures, cooling, closed, closing, callers, owner>>

\* The task service has read the connection's notifications to their end.
MarkClosed(s, n) ==
  /\ active[s] = n /\ ~IsOpen(n)
  /\ active' = [active EXCEPT ![s] = Null]
  /\ UNCHANGED <<connecting, failures, cooling, closed, closing, callers, owner, open>>

CooldownEnds(s) ==
  /\ cooling[s]
  /\ cooling' = [cooling EXCEPT ![s] = FALSE]
  /\ UNCHANGED <<active, connecting, failures, closed, closing, callers, owner, open>>

ContextExpires(c) ==
  /\ callers[c].pc \in {"enter", "connect", "handshake", "wait"}
  /\ ~callers[c].expired
  /\ callers' = [callers EXCEPT ![c].expired = TRUE]
  /\ UNCHANGED <<active, connecting, failures, cooling, closed, closing, owner, open>>

SupervisorEnvironment ==
  \/ \E n \in Connections : ConnectionIsLost(n)
  \/ \E s \in Supervisors : CooldownEnds(s)
  \/ \E c \in Callers : ContextExpires(c)

SupervisorNext ==
  \/ \E c \in Callers, s \in Supervisors : Ask(c, s)
  \/ \E c \in Callers : CallerStep(c)
  \/ \E s \in Supervisors : CloseBegins(s) \/ CloseStep(s)
  \/ \E s \in Supervisors, n \in Connections : MarkClosed(s, n)
  \/ SupervisorEnvironment

\* A start ends by itself within the startup timeout, and Close within the start.
SupervisorFairness ==
  /\ \A c \in Callers : WF_supervisorVars(CallerStep(c))
  /\ \A s \in Supervisors : WF_supervisorVars(CloseStep(s))

SupervisorSpec == SupervisorInit /\ [][SupervisorNext]_supervisorVars /\ SupervisorFairness
-----------------------------------------------------------------------------
(* Properties                                                              *)

SupervisorTypeOK ==
  /\ active \in [Supervisors -> Connections \cup {Null}]
  /\ connecting \in [Supervisors -> Callers \cup {Null}]
  /\ failures \in [Supervisors -> 0..MaxFailures]
  /\ cooling \in [Supervisors -> BOOLEAN]
  /\ closed \in [Supervisors -> BOOLEAN]
  /\ closing \in [Supervisors -> ClosingRecords]
  /\ callers \in [Callers -> CallerRecords]
  /\ owner \in [Connections -> Supervisors \cup {Null}]
  /\ open \subseteq Connections

OpenOf(s) == {n \in open : owner[n] = s}

\* What Status reports.
SupervisorStatus(s) ==
  IF closed[s] THEN "closed"
  ELSE IF cooling[s] THEN "backoff"
  ELSE IF connecting[s] # Null THEN "connecting"
  ELSE IF active[s] # Null /\ IsOpen(active[s]) THEN "active"
  ELSE "idle"

\* While starts are refused there is no connection that could be used and none is being
\* started: Status, which looks at the cooldown first, and Connection, which looks at the
\* connection first, agree, however lost connections, failures of several callers and the
\* end of a cooldown follow each other. Nor is there once Close has returned: it leaves
\* nothing behind, not even a start that could still make a connection.
DownMeansGone ==
  \A s \in Supervisors :
    SupervisorStatus(s) = "backoff" \/ closing[s].pc = "closed"
      => OpenOf(s) = {} /\ connecting[s] = Null
=============================================================================
