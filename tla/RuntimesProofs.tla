---------------------------- MODULE RuntimesProofs ----------------------------
(***************************************************************************)
(* Proofs about Supervisor and WorkflowRuntimes.                           *)
(***************************************************************************)
EXTENDS WorkflowRuntimes, TLAPS

-----------------------------------------------------------------------------
(* The inductive invariant of the supervisors                              *)

\* A caller that has the task of starting a connection; one that may have started it.
Starting(c) == callers[c].pc \in {"connect", "handshake", "finish", "discard"}
Made(c) == callers[c].pc \in {"handshake", "finish", "discard"}

CallerAgrees(c) ==
  /\ callers[c].pc # "idle" => Asking(c) \in Supervisors
  /\ Starting(c) => connecting[Asking(c)] = c
  /\ callers[c].pc \in {"handshake", "discard"} => callers[c].result \in Connections
  /\ callers[c].pc = "finish" => callers[c].result \in Connections \cup Errors
  /\ Made(c) /\ callers[c].result \in Connections => owner[callers[c].result] = Asking(c)
  /\ callers[c].pc = "finish" /\ callers[c].result = "failed"
       => failures[Asking(c)] < MaxFailures

StartAgrees(s) ==
  connecting[s] # Null => Starting(connecting[s]) /\ Asking(connecting[s]) = s

CloseAgrees(s) ==
  /\ closed[s] <=> closing[s].pc # "open"
  /\ closed[s] => active[s] = Null /\ connecting[s] \in {Null, closing[s].leader}
  /\ closing[s].pc = "closed" => connecting[s] = Null

\* A connection in use, or being closed, was made; while one is started, or starts are
\* refused, there is no other that is open.
OneAtATime(s) ==
  /\ active[s] # Null => owner[active[s]] = s
  /\ closing[s].conn # Null => owner[closing[s].conn] = s
  /\ closing[s].conn \in open => closing[s].pc = "cancel"
  /\ connecting[s] # Null => active[s] \notin open /\ closing[s].conn \notin open
  /\ cooling[s] /\ ~closed[s] => connecting[s] = Null /\ active[s] \notin open

\* Every open connection is somewhere where it will be found.
Holds(s, n) ==
  \/ active[s] = n
  \/ closing[s].conn = n
  \/ connecting[s] # Null /\ Made(connecting[s]) /\ callers[connecting[s]].result = n

Accounted(n) == owner[n] # Null /\ Holds(owner[n], n)

SupervisorInv ==
  /\ SupervisorTypeOK
  /\ \A c \in Callers : CallerAgrees(c)
  /\ \A s \in Supervisors : StartAgrees(s) /\ CloseAgrees(s) /\ OneAtATime(s)
  /\ \A n \in open : Accounted(n)

-----------------------------------------------------------------------------
(* The inductive invariant of the manager                                  *)

Holding(u) == users[u].pc \in {"close", "closing", "create", "register", "shutdown"}

UserAgrees(u) ==
  /\ users[u].pc # "idle" => users[u].op \in UserOps
  /\ users[u].op \in {"EnsureWorkflowRuntime", "CloseWorkflowRuntime"}
       => users[u].group \in SessionGroups
  /\ users[u].op = "EnsureWorkflowRuntime" => users[u].epoch \in Epochs
  /\ users[u].pc \in {"validate", "create", "register"}
       => users[u].op = "EnsureWorkflowRuntime"
  /\ users[u].pc = "shutdown" => users[u].op = "Close"
  /\ Holding(u) <=> manager = u

\* The supervisor a user of the manager has in its hands.
InHands(u, s) == users[u].pc \in {"close", "closing", "register"} /\ users[u].sup = s

HandAgrees(u) ==
  /\ users[u].pc \in {"close", "closing", "register"} =>
       /\ users[u].sup \in Supervisors
       /\ groupOf[users[u].sup] \in SessionGroups
       /\ entries[groupOf[users[u].sup]] = Null
  /\ users[u].pc \in {"close", "register"} => closing[users[u].sup].pc = "open"
  /\ users[u].pc = "register" => groupOf[users[u].sup] = users[u].group
  /\ users[u].pc = "create" => entries[users[u].group] = Null
  /\ users[u].pc \in {"close", "closing"} /\ users[u].op = "EnsureWorkflowRuntime"
       => users[u].group = groupOf[users[u].sup]

EntryAgrees(g) ==
  /\ sessions[g] = IF entries[g] = Null THEN Null ELSE entries[g].sup
  /\ entries[g] # Null =>
       groupOf[entries[g].sup] = g /\ closing[entries[g].sup].pc = "open"

\* No supervisor that is not closed is forgotten, and none is used before it is made.
SupervisorIsKnown(s) ==
  IF groupOf[s] = Null
  THEN /\ closing[s].pc = "open" /\ connecting[s] = Null
       /\ \A c \in Callers : Asking(c) # s
       /\ \A n \in Connections : owner[n] # s
  ELSE \/ closing[s].pc = "closed"
       \/ entries[groupOf[s]] # Null /\ entries[groupOf[s]].sup = s
       \/ \E u \in Users : InHands(u, s)

EndedForGood ==
  /\ managerClosed =>
       \A u \in Users : Holding(u) => users[u].op # "EnsureWorkflowRuntime"
  /\ \A u \in Users : users[u].op = "Close" => users[u].pc = "lock" \/ managerClosed
  /\ ManagerHasEnded =>
       /\ \A g \in SessionGroups : entries[g] = Null
       /\ \A u \in Users : users[u].pc \notin {"close", "closing", "create", "register"}

RuntimesInv ==
  /\ SupervisorInv
  /\ RuntimesTypeOK
  /\ \A u \in Users : UserAgrees(u) /\ HandAgrees(u)
  /\ \A g \in SessionGroups : EntryAgrees(g)
  /\ \A s \in Supervisors : SupervisorIsKnown(s)
  /\ EndedForGood

-----------------------------------------------------------------------------
\* What Return does to the callers.
LEMMA ReturnFrame ==
  ASSUME callers \in [Callers -> CallerRecords], NEW c \in Callers,
         NEW result \in Connections \cup Errors \cup {Null},
         callers' = Return(c, result)
  PROVE  /\ callers' \in [Callers -> CallerRecords]
         /\ callers'[c].pc = "done" /\ callers'[c].sup = callers[c].sup
         /\ \A d \in Callers : d # c => callers'[d] = callers[d]
<1> DEFINE r == [callers[c] EXCEPT !.pc = "done", !.result = result]
<1>1. callers' = [callers EXCEPT ![c] = r]
  BY DEF Return
<1>2. r \in CallerRecords /\ r.pc = "done" /\ r.sup = callers[c].sup
  BY DEF CallerRecords, CallerLabels
<1> QED BY <1>1, <1>2

\* What EndAttempt does to the callers.
LEMMA EndAttemptFrame ==
  ASSUME callers \in [Callers -> CallerRecords], NEW c \in Callers,
         NEW result \in Connections \cup Errors, EndAttempt(c, result)
  PROVE  /\ callers' \in [Callers -> CallerRecords]
         /\ callers'[c].pc = "done"
         /\ \A d \in Callers :
              /\ callers'[d].sup = callers[d].sup
              /\ d # c => callers'[d].pc = callers[d].pc /\ callers'[d].result = callers[d].result
<1> SUFFICES ASSUME NEW d \in Callers
             PROVE  /\ callers'[d] \in CallerRecords
                    /\ callers'[d].sup = callers[d].sup
                    /\ d = c => callers'[d].pc = "done"
                    /\ d # c => /\ callers'[d].pc = callers[d].pc
                               /\ callers'[d].result = callers[d].result
  BY DEF EndAttempt
<1>1. CASE d = c
  <2>1. callers'[d] = [callers[d] EXCEPT !.pc = "done", !.result = result]
    BY <1>1 DEF EndAttempt
  <2> QED BY <1>1, <2>1 DEF CallerRecords, CallerLabels
<1>2. CASE d # c
  <2>1. callers'[d] \in {callers[d], [callers[d] EXCEPT !.offer = result]}
    BY <1>2 DEF EndAttempt
  <2> QED BY <1>2, <2>1 DEF CallerRecords
<1> QED BY <1>1, <1>2

\* A caller enters EnsureSession: its gateway supervisor decides who starts.
LEMMA EnterStep ==
  ASSUME SupervisorInv, NEW c \in Callers, Enter(c)
  PROVE  SupervisorInv'
<1> USE SupervisorAssumption, ErrorsAssumption
<1> DEFINE s == Asking(c)
<1>0. /\ s \in Supervisors
      /\ \A d \in Callers : d # c => callers'[d] = callers[d]
      /\ Asking(c)' = s /\ ~Made(c)'
      /\ Starting(c)' => connecting'[s] = c
      /\ connecting[s] # Null => connecting'[s] = connecting[s]
      /\ connecting'[s] = IF Starting(c)' THEN c ELSE connecting[s]
      /\ connecting' = [connecting EXCEPT ![s] = connecting'[s]]
      /\ UNCHANGED <<failures, cooling, closed, closing, owner, open>>
  BY DEF SupervisorInv, SupervisorTypeOK, Enter, Return, Asking, IsOpen, CallerAgrees,
     CallerRecords, CallerLabels, Errors, Starting, Made
<1>1. SupervisorTypeOK'
  BY SMTT(30) DEF SupervisorInv, SupervisorTypeOK, Enter, Return, Asking, IsOpen, CallerAgrees,
     CallerRecords, CallerLabels, Errors
<1>2. \A d \in Callers : CallerAgrees(d)'
  BY <1>0 DEF SupervisorInv, SupervisorTypeOK, Asking, CallerAgrees, Starting, Made
<1>3. \A t \in Supervisors : StartAgrees(t)'
  BY DEF SupervisorInv, SupervisorTypeOK, Enter, Return, Asking, IsOpen, CallerAgrees,
     CallerRecords, CallerLabels, Errors, Starting, Made, StartAgrees
<1>4. \A t \in Supervisors : CloseAgrees(t)'
  BY DEF SupervisorInv, SupervisorTypeOK, Enter, Return, Asking, IsOpen, CallerAgrees,
     CallerRecords, CallerLabels, Errors, Starting, Made, StartAgrees, CloseAgrees
<1>5. \A t \in Supervisors : OneAtATime(t)'
  <2> TAKE t \in Supervisors
  <2>1. CASE t # s
    BY <1>0, <2>1 DEF SupervisorInv, SupervisorTypeOK, Enter, OneAtATime
  <2>2. CASE t = s
    BY <1>0, <2>2 DEF SupervisorInv, SupervisorTypeOK, Enter, IsOpen, CloseAgrees, OneAtATime
  <2> QED BY <2>1, <2>2
<1>6. \A m \in open' : Accounted(m)'
  BY SMTT(30) DEF SupervisorInv, SupervisorTypeOK, Enter, Return, Asking, IsOpen, CallerAgrees,
     CallerRecords, CallerLabels, Errors, Starting, Made, StartAgrees, Accounted, Holds
<1> QED BY <1>1, <1>2, <1>3, <1>4, <1>5, <1>6 DEF SupervisorInv

\* A caller asks a supervisor for a session.
LEMMA AskStep ==
  ASSUME SupervisorInv, NEW c \in Callers, NEW s \in Supervisors, Ask(c, s)
  PROVE  SupervisorInv'
<1> USE SupervisorAssumption, ErrorsAssumption
<1>0. /\ callers[c].pc = "idle" /\ callers'[c] = [Idle EXCEPT !.pc = "enter", !.sup = s]
      /\ callers' = [callers EXCEPT ![c] = callers'[c]]
      /\ \A d \in Callers : d # c => callers'[d] = callers[d]
      /\ UNCHANGED <<active, connecting, failures, cooling, closed, closing, owner, open>>
  BY DEF SupervisorInv, SupervisorTypeOK, Ask
<1>a. /\ callers'[c] \in CallerRecords
      /\ callers'[c].pc = "enter" /\ callers'[c].sup = s
  BY <1>0 DEF Idle, CallerRecords, CallerLabels
<1>1. SupervisorTypeOK'
  BY <1>0, <1>a DEF SupervisorInv, SupervisorTypeOK
<1>2. \A d \in Callers : CallerAgrees(d)'
  BY <1>0, <1>a, ZenonT(30) DEF SupervisorInv, CallerAgrees, Asking, Starting, Made
<1>3. \A t \in Supervisors : StartAgrees(t)'
  BY <1>0, <1>a DEF SupervisorInv, SupervisorTypeOK, StartAgrees, Asking, Starting
<1>4. \A t \in Supervisors : CloseAgrees(t)'
  BY <1>0, <1>a DEF SupervisorInv, CloseAgrees, IsOpen
<1>5. \A t \in Supervisors : OneAtATime(t)'
  BY <1>0, <1>a DEF SupervisorInv, OneAtATime, IsOpen
<1>6. \A m \in open' : Accounted(m)'
  BY <1>0, <1>a DEF SupervisorInv, SupervisorTypeOK, Accounted, Holds, Asking, Starting, Made,
     IsOpen
<1> QED BY <1>1, <1>2, <1>3, <1>4, <1>5, <1>6 DEF SupervisorInv

\* The process of a start comes up, or fails to.
LEMMA StartProcessStep ==
  ASSUME SupervisorInv, NEW c \in Callers, StartProcess(c)
  PROVE  SupervisorInv'
<1> USE SupervisorAssumption, ErrorsAssumption
<1>0. /\ Asking(c) \in Supervisors /\ connecting[Asking(c)] = c
      /\ \A d \in Callers : d # c => callers'[d] = callers[d]
      /\ Asking(c)' = Asking(c) /\ callers'[c].pc \in {"handshake", "finish"}
      /\ callers'[c] \in CallerRecords
      /\ callers' \in [Callers -> CallerRecords]
      /\ UNCHANGED <<active, connecting, failures, cooling, closed, closing>>
  BY SMTT(30) DEF SupervisorInv, SupervisorTypeOK, StartProcess, StartErrors, CallerAgrees, Asking,
     Starting, Made, Errors, CallerRecords, CallerLabels
<1>1. SupervisorTypeOK'
  BY <1>0, ZenonT(30) DEF SupervisorInv, SupervisorTypeOK, StartProcess, Asking, IsOpen, CallerAgrees,
     CallerRecords, CallerLabels, ClosingRecords, ClosingLabels, Errors, Starting, Made, StartErrors
<1>2. \A d \in Callers : CallerAgrees(d)'
  BY <1>0 DEF SupervisorInv, SupervisorTypeOK, StartProcess, Asking, IsOpen, CallerAgrees,
     CallerRecords, CallerLabels, ClosingRecords, ClosingLabels, Errors, Starting, Made, StartErrors
<1>3. \A t \in Supervisors : StartAgrees(t)'
  BY <1>0 DEF SupervisorInv, SupervisorTypeOK, StartProcess, Asking, IsOpen, CallerAgrees,
     CallerRecords, CallerLabels, ClosingRecords, ClosingLabels, Errors, Starting, Made, StartErrors, StartAgrees
<1>4. \A t \in Supervisors : CloseAgrees(t)'
  BY <1>0 DEF SupervisorInv, SupervisorTypeOK, StartProcess, Asking, IsOpen, CallerAgrees,
     CallerRecords, CallerLabels, ClosingRecords, ClosingLabels, Errors, Starting, Made, StartErrors, StartAgrees, CloseAgrees
<1>5. \A t \in Supervisors : OneAtATime(t)'
  BY <1>0 DEF SupervisorInv, SupervisorTypeOK, StartProcess, Asking, IsOpen, CallerAgrees,
     CallerRecords, CallerLabels, ClosingRecords, ClosingLabels, Errors, Starting, Made, StartErrors, StartAgrees, CloseAgrees,
     OneAtATime, Accounted, Holds
<1>6. \A m \in open' : Accounted(m)'
  <2> SUFFICES ASSUME NEW n \in open'
               PROVE  Accounted(n)'
    OBVIOUS
  <2>1. CASE n \in open
    <3>1. Accounted(n) /\ owner'[n] = owner[n]
      BY <2>1 DEF SupervisorInv, SupervisorTypeOK, StartProcess, Accounted
    <3> QED
      BY <1>0, <3>1 DEF SupervisorInv, SupervisorTypeOK, Accounted, Holds, Made, StartAgrees,
         StartProcess
  <2>2. CASE n \notin open
    <3>1. PICK m \in Connections :
            /\ owner' = [owner EXCEPT ![m] = Asking(c)]
            /\ open' = open \cup {m}
            /\ callers' = [callers EXCEPT ![c].pc = "handshake", ![c].result = m]
      BY <2>2 DEF StartProcess
    <3>2. n = m /\ owner'[n] = Asking(c)
      BY <2>2, <3>1 DEF SupervisorInv, SupervisorTypeOK
    <3>3. Made(c)' /\ callers'[c].result = n
      BY <3>1, <3>2 DEF SupervisorInv, SupervisorTypeOK, CallerRecords, Made
    <3> QED BY <1>0, <3>2, <3>3 DEF SupervisorInv, SupervisorTypeOK, Accounted, Holds
  <2> QED BY <2>1, <2>2
<1> QED BY <1>1, <1>2, <1>3, <1>4, <1>5, <1>6 DEF SupervisorInv

\* The handshake of a started process succeeds or fails.
LEMMA InitializeStep ==
  ASSUME SupervisorInv, NEW c \in Callers, Initialize(c)
  PROVE  SupervisorInv'
<1> USE SupervisorAssumption, ErrorsAssumption
<1>0. /\ Asking(c) \in Supervisors /\ connecting[Asking(c)] = c
      /\ \A d \in Callers : d # c => callers'[d] = callers[d]
      /\ Asking(c)' = Asking(c) /\ callers'[c].pc = "finish"
      /\ callers'[c].result \in {callers[c].result} \cup StartErrors(c)
      /\ callers' \in [Callers -> CallerRecords]
      /\ open' \subseteq open
      /\ UNCHANGED <<active, connecting, failures, cooling, closed, closing, owner>>
  BY DEF SupervisorInv, SupervisorTypeOK, Initialize, StartErrors, CallerAgrees, Asking,
     Starting, Made, Errors, CallerRecords, CallerLabels
<1>1. SupervisorTypeOK'
  BY <1>0 DEF SupervisorInv, SupervisorTypeOK, Initialize, Asking, IsOpen, CallerAgrees,
     CallerRecords, CallerLabels, ClosingRecords, ClosingLabels, Errors, Starting, Made, StartErrors
<1>2. \A d \in Callers : CallerAgrees(d)'
  BY <1>0 DEF SupervisorInv, SupervisorTypeOK, Initialize, Asking, IsOpen, CallerAgrees,
     CallerRecords, CallerLabels, ClosingRecords, ClosingLabels, Errors, Starting, Made, StartErrors
<1>3. \A t \in Supervisors : StartAgrees(t)'
  BY <1>0 DEF SupervisorInv, SupervisorTypeOK, Initialize, Asking, IsOpen, CallerAgrees,
     CallerRecords, CallerLabels, ClosingRecords, ClosingLabels, Errors, Starting, Made, StartErrors, StartAgrees
<1>4. \A t \in Supervisors : CloseAgrees(t)'
  BY <1>0 DEF SupervisorInv, SupervisorTypeOK, Initialize, Asking, IsOpen, CallerAgrees,
     CallerRecords, CallerLabels, ClosingRecords, ClosingLabels, Errors, Starting, Made, StartErrors, StartAgrees, CloseAgrees
<1>5. \A t \in Supervisors : OneAtATime(t)'
  BY <1>0 DEF SupervisorInv, SupervisorTypeOK, Initialize, Asking, IsOpen, CallerAgrees,
     CallerRecords, CallerLabels, ClosingRecords, ClosingLabels, Errors, Starting, Made, StartErrors, StartAgrees, CloseAgrees,
     OneAtATime, Accounted, Holds
<1>6. \A m \in open' : Accounted(m)'
  BY <1>0 DEF SupervisorInv, SupervisorTypeOK, Initialize, Asking, IsOpen, CallerAgrees,
     CallerRecords, CallerLabels, ClosingRecords, ClosingLabels, Errors, Starting, Made, StartErrors, StartAgrees, CloseAgrees,
     OneAtATime, Accounted, Holds
<1> QED BY <1>1, <1>2, <1>3, <1>4, <1>5, <1>6 DEF SupervisorInv

\* A start ends: its connection has become the active one, or is not open any more.
LEMMA EndOfStart ==
  ASSUME SupervisorInv, NEW c \in Callers, Starting(c), SupervisorTypeOK',
         NEW result \in Connections \cup Errors, EndAttempt(c, result),
         UNCHANGED <<closed, closing, owner>>, open' \subseteq open,
         \A s \in Supervisors \ {Asking(c)} :
           failures'[s] = failures[s] /\ cooling'[s] = cooling[s] /\ active'[s] = active[s],
         \/ active'[Asking(c)] = active[Asking(c)] /\ callers[c].result \notin open'
         \/ /\ ~closed[Asking(c)] /\ Made(c) /\ callers[c].result \in Connections
            /\ active'[Asking(c)] = callers[c].result /\ ~cooling'[Asking(c)]
  PROVE  SupervisorInv'
<1> USE SupervisorAssumption, ErrorsAssumption
<1> DEFINE s == Asking(c)
<1>0. /\ s \in Supervisors /\ connecting[s] = c /\ c # Null
      /\ connecting' = [connecting EXCEPT ![s] = Null]
      /\ callers'[c].pc = "done"
      /\ \A d \in Callers :
           /\ Asking(d)' = Asking(d)
           /\ d # c => callers'[d].pc = callers[d].pc /\ callers'[d].result = callers[d].result
  <2>1. s \in Supervisors /\ connecting[s] = c /\ c # Null
    BY DEF SupervisorInv, CallerAgrees, Starting
  <2>2. connecting' = [connecting EXCEPT ![s] = Null]
    BY DEF EndAttempt
  <2> QED BY <2>1, <2>2, EndAttemptFrame DEF SupervisorInv, SupervisorTypeOK, Asking
<1>1. \A d \in Callers : Starting(d) /\ d # c => Asking(d) \in Supervisors \ {s}
  BY <1>0 DEF SupervisorInv, CallerAgrees, Starting
<1>2. \A d \in Callers : CallerAgrees(d)'
  <2> SUFFICES ASSUME NEW d \in Callers
               PROVE  CallerAgrees(d)'
    OBVIOUS
  <2>1. CASE d = c
    BY <1>0, <2>1 DEF CallerAgrees, Starting, Made
  <2>2. CASE d # c
    <3>1. CallerAgrees(d)
      BY DEF SupervisorInv
    <3> QED
      BY <1>0, <1>1, <2>2, <3>1 DEF SupervisorInv, SupervisorTypeOK, CallerAgrees, Starting, Made
  <2> QED BY <2>1, <2>2
<1>3. \A t \in Supervisors : StartAgrees(t)'
  BY <1>0 DEF SupervisorInv, SupervisorTypeOK, StartAgrees, Starting
<1>4. \A t \in Supervisors : CloseAgrees(t)'
  BY <1>0 DEF SupervisorInv, SupervisorTypeOK, CloseAgrees
<1>5. \A t \in Supervisors : OneAtATime(t)'
  <2> SUFFICES ASSUME NEW t \in Supervisors
               PROVE  OneAtATime(t)'
    OBVIOUS
  <2>0. OneAtATime(t) /\ CloseAgrees(t) /\ CallerAgrees(c)
    BY DEF SupervisorInv
  <2>1. CASE t # s
    BY <1>0, <2>0, <2>1 DEF SupervisorInv, SupervisorTypeOK, OneAtATime
  <2>2. CASE t = s
    BY <1>0, <2>0, <2>2 DEF SupervisorInv, SupervisorTypeOK, OneAtATime, CloseAgrees, CallerAgrees
  <2> QED BY <2>1, <2>2
<1>6. \A m \in open' : Accounted(m)'
  <2> SUFFICES ASSUME NEW n \in open'
               PROVE  Accounted(n)'
    OBVIOUS
  <2>0. Accounted(n) /\ n \in open
    BY DEF SupervisorInv
  <2>1. CASE owner[n] # s
    BY <1>0, <2>0, <2>1 DEF SupervisorInv, SupervisorTypeOK, Accounted, Holds, Made, StartAgrees
  <2>2. CASE owner[n] = s
    BY <1>0, <2>0, <2>2 DEF SupervisorInv, SupervisorTypeOK, Accounted, Holds, OneAtATime
  <2> QED BY <2>1, <2>2
<1> QED BY <1>2, <1>3, <1>4, <1>5, <1>6 DEF SupervisorInv

\* The starter takes the lock again and publishes what it made.
LEMMA FinishStep ==
  ASSUME SupervisorInv, NEW c \in Callers, Finish(c)
  PROVE  SupervisorInv'
<1> USE SupervisorAssumption, ErrorsAssumption
<1> DEFINE s == Asking(c)
           result == callers[c].result
<1>0. /\ s \in Supervisors /\ connecting[s] = c
      /\ result \in Connections \cup Errors
      /\ Starting(c) /\ Made(c) /\ CallerAgrees(c)
  BY DEF SupervisorInv, CallerAgrees, Starting, Made, Finish
<1>1. CASE closed[s] /\ result \in Connections
  <2> DEFINE r == [callers[c] EXCEPT !.pc = "discard"]
  <2>1. callers' = [callers EXCEPT ![c] = r]
    BY <1>1 DEF Finish, Errors
  <2>2. /\ r \in CallerRecords /\ r.pc = "discard" /\ r.sup = s /\ r.result = result
    BY DEF SupervisorInv, SupervisorTypeOK, CallerRecords, CallerLabels, Asking
  <2>3. UNCHANGED <<active, connecting, failures, cooling, closed, closing, owner, open>>
    BY <1>1 DEF Finish, Errors
  <2>4. SupervisorTypeOK'
    BY <2>1, <2>2, <2>3 DEF SupervisorInv, SupervisorTypeOK
  <2>5. \A d \in Callers : CallerAgrees(d)'
    BY <1>0, <1>1, <2>1, <2>2, <2>3
       DEF SupervisorInv, SupervisorTypeOK, CallerAgrees, Starting, Made, Asking
  <2>6. \A t \in Supervisors : StartAgrees(t)'
    BY <1>0, <2>1, <2>2, <2>3
       DEF SupervisorInv, SupervisorTypeOK, StartAgrees, Starting, Asking
  <2>7. \A t \in Supervisors : CloseAgrees(t)' /\ OneAtATime(t)'
    BY <2>3 DEF SupervisorInv, CloseAgrees, OneAtATime
  <2>8. \A n \in open' : Accounted(n)'
    BY <1>0, <2>1, <2>2, <2>3
       DEF SupervisorInv, SupervisorTypeOK, StartAgrees, Starting, Accounted, Holds, Made, Asking
  <2> QED BY <2>4, <2>5, <2>6, <2>7, <2>8 DEF SupervisorInv
<1>2. CASE ~(closed[s] /\ result \in Connections)
  <2>1. /\ EndAttempt(c, result)
        /\ UNCHANGED <<closed, closing, owner, open>>
    BY <1>0, <1>2 DEF Finish
  <2>2. /\ failures' \in [Supervisors -> 0..MaxFailures]
        /\ cooling' \in [Supervisors -> BOOLEAN]
        /\ \A t \in Supervisors \ {s} : failures'[t] = failures[t] /\ cooling'[t] = cooling[t]
    <3>1. \/ /\ result = "failed"
             /\ failures' = [failures EXCEPT ![s] = @ + 1]
             /\ \E b \in BOOLEAN : cooling' = [cooling EXCEPT ![s] = b]
          \/ UNCHANGED <<failures, cooling>>
          \/ failures' = [failures EXCEPT ![s] = 0] /\ cooling' = [cooling EXCEPT ![s] = FALSE]
      BY <1>2 DEF Finish
    <3>2. result = "failed" => failures[s] + 1 \in 0..MaxFailures
      BY <1>0 DEF SupervisorInv, SupervisorTypeOK, CallerAgrees, Finish
    <3>3. failures \in [Supervisors -> 0..MaxFailures] /\ cooling \in [Supervisors -> BOOLEAN]
      BY DEF SupervisorInv, SupervisorTypeOK
    <3>4. failures' \in [Supervisors -> 0..MaxFailures]
      BY <1>0, <3>1, <3>2, <3>3
    <3>5. cooling' \in [Supervisors -> BOOLEAN]
      BY <1>0, <3>1, <3>3
    <3> QED BY <1>0, <3>1, <3>3, <3>4, <3>5
  <2>3. /\ active' \in [Supervisors -> Connections \cup {Null}]
        /\ \A t \in Supervisors \ {s} : active'[t] = active[t]
        /\ \/ active'[s] = active[s] /\ result \in Errors
           \/ ~closed[s] /\ result \in Connections /\ active'[s] = result /\ ~cooling'[s]
    BY <1>0, <1>2 DEF SupervisorInv, SupervisorTypeOK, Finish, Errors
  <2>4. SupervisorTypeOK'
    <3>1. callers' \in [Callers -> CallerRecords]
      BY <1>0, <2>1, EndAttemptFrame DEF SupervisorInv, SupervisorTypeOK
    <3>2. connecting' \in [Supervisors -> Callers \cup {Null}]
      BY <2>1 DEF EndAttempt, SupervisorInv, SupervisorTypeOK
    <3> QED BY <2>1, <2>2, <2>3, <3>1, <3>2 DEF SupervisorInv, SupervisorTypeOK
  <2>5. \/ active'[s] = active[s] /\ result \notin open'
        \/ ~closed[s] /\ result \in Connections /\ active'[s] = result /\ ~cooling'[s]
    BY <2>1, <2>3 DEF SupervisorInv, SupervisorTypeOK
  <2>6. open' \subseteq open /\ UNCHANGED <<closed, closing, owner>>
    BY <2>1
  <2>7. EndAttempt(c, result) /\ Starting(c) /\ Made(c) /\ result \in Connections \cup Errors
    BY <1>0, <2>1
  <2> QED BY <2>2, <2>3, <2>4, <2>5, <2>6, <2>7, EndOfStart
<1> QED BY <1>1, <1>2

\* A starter that lost its claim closes the session it made.
LEMMA DiscardStep ==
  ASSUME SupervisorInv, NEW c \in Callers, Discard(c)
  PROVE  SupervisorInv'
<1>1. Starting(c) /\ "canceled" \in Connections \cup Errors
  BY DEF Discard, Starting, Errors
<1>2. /\ EndAttempt(c, "canceled")
      /\ open' = open \ {callers[c].result}
      /\ UNCHANGED <<active, failures, cooling, closed, closing, owner>>
  BY DEF Discard
<1>3. SupervisorTypeOK'
  <2>1. callers' \in [Callers -> CallerRecords]
    BY <1>1, <1>2, EndAttemptFrame DEF SupervisorInv, SupervisorTypeOK
  <2>2. connecting' \in [Supervisors -> Callers \cup {Null}]
    BY <1>2 DEF EndAttempt, SupervisorInv, SupervisorTypeOK
  <2> QED BY <1>2, <2>1, <2>2 DEF SupervisorInv, SupervisorTypeOK
<1>4. callers[c].result \notin open' /\ open' \subseteq open
  BY <1>2
<1> QED BY <1>1, <1>2, <1>3, <1>4, EndOfStart

\* A waiter reads what the start it waits for came to.
LEMMA TakeOfferStep ==
  ASSUME SupervisorInv, NEW c \in Callers, TakeOffer(c)
  PROVE  SupervisorInv'
<1> USE SupervisorAssumption, ErrorsAssumption
<1>0. /\ callers' \in [Callers -> CallerRecords]
      /\ callers'[c].pc = "done" /\ callers'[c].sup = callers[c].sup
      /\ \A d \in Callers : d # c => callers'[d] = callers[d]
  BY ReturnFrame DEF SupervisorInv, SupervisorTypeOK, TakeOffer, CallerRecords
<1>1. SupervisorTypeOK'
  BY <1>0 DEF SupervisorInv, SupervisorTypeOK, TakeOffer, Asking, IsOpen, CallerAgrees,
     CallerRecords, CallerLabels, ClosingRecords, ClosingLabels, Errors, Starting, Made
<1>2. \A d \in Callers : CallerAgrees(d)'
  BY <1>0 DEF SupervisorInv, SupervisorTypeOK, TakeOffer, Asking, IsOpen, CallerAgrees,
     CallerRecords, CallerLabels, ClosingRecords, ClosingLabels, Errors, Starting, Made
<1>3. \A t \in Supervisors : StartAgrees(t)'
  BY <1>0 DEF SupervisorInv, SupervisorTypeOK, TakeOffer, Asking, IsOpen, CallerAgrees,
     CallerRecords, CallerLabels, ClosingRecords, ClosingLabels, Errors, Starting, Made, StartAgrees
<1>4. \A t \in Supervisors : CloseAgrees(t)'
  BY <1>0 DEF SupervisorInv, SupervisorTypeOK, TakeOffer, Asking, IsOpen, CallerAgrees,
     CallerRecords, CallerLabels, ClosingRecords, ClosingLabels, Errors, Starting, Made, StartAgrees, CloseAgrees
<1>5. \A t \in Supervisors : OneAtATime(t)'
  BY <1>0 DEF SupervisorInv, SupervisorTypeOK, TakeOffer, Asking, IsOpen, CallerAgrees,
     CallerRecords, CallerLabels, ClosingRecords, ClosingLabels, Errors, Starting, Made, StartAgrees, CloseAgrees,
     OneAtATime, Accounted, Holds
<1>6. \A m \in open' : Accounted(m)'
  BY <1>0 DEF SupervisorInv, SupervisorTypeOK, TakeOffer, Asking, IsOpen, CallerAgrees,
     CallerRecords, CallerLabels, ClosingRecords, ClosingLabels, Errors, Starting, Made, StartAgrees, CloseAgrees,
     OneAtATime, Accounted, Holds
<1> QED BY <1>1, <1>2, <1>3, <1>4, <1>5, <1>6 DEF SupervisorInv

\* A waiter whose context ended, or whose start was closed, gives up.
LEMMA StopWaitingStep ==
  ASSUME SupervisorInv, NEW c \in Callers, StopWaiting(c)
  PROVE  SupervisorInv'
<1> USE SupervisorAssumption, ErrorsAssumption
<1>0. /\ callers' \in [Callers -> CallerRecords]
      /\ callers'[c].pc = "done" /\ callers'[c].sup = callers[c].sup
      /\ \A d \in Callers : d # c => callers'[d] = callers[d]
  BY ReturnFrame DEF SupervisorInv, SupervisorTypeOK, StopWaiting, Errors
<1>1. SupervisorTypeOK'
  BY <1>0 DEF SupervisorInv, SupervisorTypeOK, StopWaiting, Asking, IsOpen, CallerAgrees,
     CallerRecords, CallerLabels, ClosingRecords, ClosingLabels, Errors, Starting, Made
<1>2. \A d \in Callers : CallerAgrees(d)'
  BY <1>0 DEF SupervisorInv, SupervisorTypeOK, StopWaiting, Asking, IsOpen, CallerAgrees,
     CallerRecords, CallerLabels, ClosingRecords, ClosingLabels, Errors, Starting, Made
<1>3. \A t \in Supervisors : StartAgrees(t)'
  BY <1>0, SMTT(30) DEF SupervisorInv, SupervisorTypeOK, StopWaiting, Asking, IsOpen, CallerAgrees,
     CallerRecords, CallerLabels, ClosingRecords, ClosingLabels, Errors, Starting, Made, StartAgrees
<1>4. \A t \in Supervisors : CloseAgrees(t)'
  BY <1>0 DEF SupervisorInv, SupervisorTypeOK, StopWaiting, Asking, IsOpen, CallerAgrees,
     CallerRecords, CallerLabels, ClosingRecords, ClosingLabels, Errors, Starting, Made, StartAgrees, CloseAgrees
<1>5. \A t \in Supervisors : OneAtATime(t)'
  BY <1>0 DEF SupervisorInv, SupervisorTypeOK, StopWaiting, Asking, IsOpen, CallerAgrees,
     CallerRecords, CallerLabels, ClosingRecords, ClosingLabels, Errors, Starting, Made, StartAgrees, CloseAgrees,
     OneAtATime, Accounted, Holds
<1>6. \A m \in open' : Accounted(m)'
  BY <1>0 DEF SupervisorInv, SupervisorTypeOK, StopWaiting, Asking, IsOpen, CallerAgrees,
     CallerRecords, CallerLabels, ClosingRecords, ClosingLabels, Errors, Starting, Made, StartAgrees, CloseAgrees,
     OneAtATime, Accounted, Holds
<1> QED BY <1>1, <1>2, <1>3, <1>4, <1>5, <1>6 DEF SupervisorInv

\* A caller's context ends.
LEMMA ContextExpiresStep ==
  ASSUME SupervisorInv, NEW c \in Callers, ContextExpires(c)
  PROVE  SupervisorInv'
<1> USE SupervisorAssumption, ErrorsAssumption
<1> DEFINE r == [callers[c] EXCEPT !.expired = TRUE]
<1>0. callers' = [callers EXCEPT ![c] = r] /\ r \in CallerRecords
  BY ZenonT(30) DEF SupervisorInv, SupervisorTypeOK, ContextExpires, CallerRecords, CallerLabels
<1>1. SupervisorTypeOK'
  BY <1>0 DEF SupervisorInv, SupervisorTypeOK, ContextExpires
<1>2. \A d \in Callers : CallerAgrees(d)'
  BY DEF SupervisorInv, SupervisorTypeOK, ContextExpires, Asking, IsOpen, CallerAgrees,
     CallerRecords, CallerLabels, ClosingRecords, ClosingLabels, Errors, Starting, Made
<1>3. \A t \in Supervisors : StartAgrees(t)'
  BY DEF SupervisorInv, SupervisorTypeOK, ContextExpires, Asking, IsOpen, CallerAgrees,
     CallerRecords, CallerLabels, ClosingRecords, ClosingLabels, Errors, Starting, Made, StartAgrees
<1>4. \A t \in Supervisors : CloseAgrees(t)'
  BY DEF SupervisorInv, SupervisorTypeOK, ContextExpires, Asking, IsOpen, CallerAgrees,
     CallerRecords, CallerLabels, ClosingRecords, ClosingLabels, Errors, Starting, Made, StartAgrees, CloseAgrees
<1>5. \A t \in Supervisors : OneAtATime(t)'
  BY DEF SupervisorInv, SupervisorTypeOK, ContextExpires, Asking, IsOpen, CallerAgrees,
     CallerRecords, CallerLabels, ClosingRecords, ClosingLabels, Errors, Starting, Made, StartAgrees, CloseAgrees,
     OneAtATime, Accounted, Holds
<1>6. \A m \in open' : Accounted(m)'
  BY DEF SupervisorInv, SupervisorTypeOK, ContextExpires, Asking, IsOpen, CallerAgrees,
     CallerRecords, CallerLabels, ClosingRecords, ClosingLabels, Errors, Starting, Made, StartAgrees, CloseAgrees,
     OneAtATime, Accounted, Holds
<1> QED BY <1>1, <1>2, <1>3, <1>4, <1>5, <1>6 DEF SupervisorInv

\* Close marks the supervisor closed and takes its connection.
LEMMA CloseBeginsStep ==
  ASSUME SupervisorInv, NEW s \in Supervisors, CloseBegins(s)
  PROVE  SupervisorInv'
<1> USE SupervisorAssumption, ErrorsAssumption
<1>1. SupervisorTypeOK'
  BY DEF SupervisorInv, SupervisorTypeOK, CloseBegins, Asking, IsOpen, CallerAgrees,
     CallerRecords, CallerLabels, ClosingRecords, ClosingLabels, Errors, Starting, Made
<1>2. \A d \in Callers : CallerAgrees(d)'
  BY DEF SupervisorInv, SupervisorTypeOK, CloseBegins, Asking, IsOpen, CallerAgrees,
     CallerRecords, CallerLabels, ClosingRecords, ClosingLabels, Errors, Starting, Made
<1>3. \A t \in Supervisors : StartAgrees(t)'
  BY DEF SupervisorInv, SupervisorTypeOK, CloseBegins, Asking, IsOpen, CallerAgrees,
     CallerRecords, CallerLabels, ClosingRecords, ClosingLabels, Errors, Starting, Made, StartAgrees
<1>4. \A t \in Supervisors : CloseAgrees(t)'
  BY DEF SupervisorInv, SupervisorTypeOK, CloseBegins, Asking, IsOpen, CallerAgrees,
     CallerRecords, CallerLabels, ClosingRecords, ClosingLabels, Errors, Starting, Made, StartAgrees, CloseAgrees
<1>5. \A t \in Supervisors : OneAtATime(t)'
  BY DEF SupervisorInv, SupervisorTypeOK, CloseBegins, Asking, IsOpen, CallerAgrees,
     CallerRecords, CallerLabels, ClosingRecords, ClosingLabels, Errors, Starting, Made, StartAgrees, CloseAgrees,
     OneAtATime, Accounted, Holds
<1>6. \A m \in open' : Accounted(m)'
  BY DEF SupervisorInv, SupervisorTypeOK, CloseBegins, Asking, IsOpen, CallerAgrees,
     CallerRecords, CallerLabels, ClosingRecords, ClosingLabels, Errors, Starting, Made, StartAgrees, CloseAgrees,
     OneAtATime, Accounted, Holds
<1> QED BY <1>1, <1>2, <1>3, <1>4, <1>5, <1>6 DEF SupervisorInv

\* Close closes the connection it took, outside the lock.
LEMMA CloseConnectionStep ==
  ASSUME SupervisorInv, NEW s \in Supervisors, CloseConnection(s)
  PROVE  SupervisorInv'
<1> USE SupervisorAssumption, ErrorsAssumption
<1>1. SupervisorTypeOK'
  BY SMTT(30) DEF SupervisorInv, SupervisorTypeOK, CloseConnection, Asking, IsOpen, CallerAgrees,
     CallerRecords, CallerLabels, ClosingRecords, ClosingLabels, Errors, Starting, Made
<1>2. \A d \in Callers : CallerAgrees(d)'
  BY DEF SupervisorInv, SupervisorTypeOK, CloseConnection, Asking, IsOpen, CallerAgrees,
     CallerRecords, CallerLabels, ClosingRecords, ClosingLabels, Errors, Starting, Made
<1>3. \A t \in Supervisors : StartAgrees(t)'
  BY DEF SupervisorInv, SupervisorTypeOK, CloseConnection, Asking, IsOpen, CallerAgrees,
     CallerRecords, CallerLabels, ClosingRecords, ClosingLabels, Errors, Starting, Made, StartAgrees
<1>4. \A t \in Supervisors : CloseAgrees(t)'
  BY DEF SupervisorInv, SupervisorTypeOK, CloseConnection, Asking, IsOpen, CallerAgrees,
     CallerRecords, CallerLabels, ClosingRecords, ClosingLabels, Errors, Starting, Made, StartAgrees, CloseAgrees
<1>5. \A t \in Supervisors : OneAtATime(t)'
  BY DEF SupervisorInv, SupervisorTypeOK, CloseConnection, Asking, IsOpen, CallerAgrees,
     CallerRecords, CallerLabels, ClosingRecords, ClosingLabels, Errors, Starting, Made, StartAgrees, CloseAgrees,
     OneAtATime, Accounted, Holds
<1>6. \A m \in open' : Accounted(m)'
  BY DEF SupervisorInv, SupervisorTypeOK, CloseConnection, Asking, IsOpen, CallerAgrees,
     CallerRecords, CallerLabels, ClosingRecords, ClosingLabels, Errors, Starting, Made, StartAgrees, CloseAgrees,
     OneAtATime, Accounted, Holds
<1> QED BY <1>1, <1>2, <1>3, <1>4, <1>5, <1>6 DEF SupervisorInv

\* Close returns.
LEMMA CloseEndsStep ==
  ASSUME SupervisorInv, NEW s \in Supervisors, CloseEnds(s)
  PROVE  SupervisorInv'
<1> USE SupervisorAssumption, ErrorsAssumption
<1> DEFINE r == [closing[s] EXCEPT !.pc = "closed"]
<1>0. closing' = [closing EXCEPT ![s] = r] /\ r \in ClosingRecords
  BY ZenonT(30) DEF SupervisorInv, SupervisorTypeOK, CloseEnds, ClosingRecords, ClosingLabels
<1>1. SupervisorTypeOK'
  BY <1>0 DEF SupervisorInv, SupervisorTypeOK, CloseEnds
<1>2. \A d \in Callers : CallerAgrees(d)'
  BY DEF SupervisorInv, SupervisorTypeOK, CloseEnds, Asking, IsOpen, CallerAgrees,
     CallerRecords, CallerLabels, ClosingRecords, ClosingLabels, Errors, Starting, Made
<1>3. \A t \in Supervisors : StartAgrees(t)'
  BY DEF SupervisorInv, SupervisorTypeOK, CloseEnds, Asking, IsOpen, CallerAgrees,
     CallerRecords, CallerLabels, ClosingRecords, ClosingLabels, Errors, Starting, Made, StartAgrees
<1>4. \A t \in Supervisors : CloseAgrees(t)'
  BY DEF SupervisorInv, SupervisorTypeOK, CloseEnds, Asking, IsOpen, CallerAgrees,
     CallerRecords, CallerLabels, ClosingRecords, ClosingLabels, Errors, Starting, Made, StartAgrees, CloseAgrees
<1>5. \A t \in Supervisors : OneAtATime(t)'
  BY DEF SupervisorInv, SupervisorTypeOK, CloseEnds, Asking, IsOpen, CallerAgrees,
     CallerRecords, CallerLabels, ClosingRecords, ClosingLabels, Errors, Starting, Made, StartAgrees, CloseAgrees,
     OneAtATime, Accounted, Holds
<1>6. \A m \in open' : Accounted(m)'
  BY DEF SupervisorInv, SupervisorTypeOK, CloseEnds, Asking, IsOpen, CallerAgrees,
     CallerRecords, CallerLabels, ClosingRecords, ClosingLabels, Errors, Starting, Made, StartAgrees, CloseAgrees,
     OneAtATime, Accounted, Holds
<1> QED BY <1>1, <1>2, <1>3, <1>4, <1>5, <1>6 DEF SupervisorInv

\* A process exits on its own.
LEMMA ConnectionIsLostStep ==
  ASSUME SupervisorInv, NEW n \in Connections, ConnectionIsLost(n)
  PROVE  SupervisorInv'
<1> USE SupervisorAssumption, ErrorsAssumption
<1>1. SupervisorTypeOK'
  BY DEF SupervisorInv, SupervisorTypeOK, ConnectionIsLost, Asking, IsOpen, CallerAgrees,
     CallerRecords, CallerLabels, ClosingRecords, ClosingLabels, Errors, Starting, Made
<1>2. \A d \in Callers : CallerAgrees(d)'
  BY DEF SupervisorInv, SupervisorTypeOK, ConnectionIsLost, Asking, IsOpen, CallerAgrees,
     CallerRecords, CallerLabels, ClosingRecords, ClosingLabels, Errors, Starting, Made
<1>3. \A t \in Supervisors : StartAgrees(t)'
  BY DEF SupervisorInv, SupervisorTypeOK, ConnectionIsLost, Asking, IsOpen, CallerAgrees,
     CallerRecords, CallerLabels, ClosingRecords, ClosingLabels, Errors, Starting, Made, StartAgrees
<1>4. \A t \in Supervisors : CloseAgrees(t)'
  BY DEF SupervisorInv, SupervisorTypeOK, ConnectionIsLost, Asking, IsOpen, CallerAgrees,
     CallerRecords, CallerLabels, ClosingRecords, ClosingLabels, Errors, Starting, Made, StartAgrees, CloseAgrees
<1>5. \A t \in Supervisors : OneAtATime(t)'
  BY DEF SupervisorInv, SupervisorTypeOK, ConnectionIsLost, Asking, IsOpen, CallerAgrees,
     CallerRecords, CallerLabels, ClosingRecords, ClosingLabels, Errors, Starting, Made, StartAgrees, CloseAgrees,
     OneAtATime, Accounted, Holds
<1>6. \A m \in open' : Accounted(m)'
  BY DEF SupervisorInv, SupervisorTypeOK, ConnectionIsLost, Asking, IsOpen, CallerAgrees,
     CallerRecords, CallerLabels, ClosingRecords, ClosingLabels, Errors, Starting, Made, StartAgrees, CloseAgrees,
     OneAtATime, Accounted, Holds
<1> QED BY <1>1, <1>2, <1>3, <1>4, <1>5, <1>6 DEF SupervisorInv

\* The watcher of a connection that closed clears the session, if it is still the
\* current one.
LEMMA MarkClosedStep ==
  ASSUME SupervisorInv, NEW s \in Supervisors, NEW n \in Connections, MarkClosed(s, n)
  PROVE  SupervisorInv'
<1> USE SupervisorAssumption, ErrorsAssumption
<1>1. SupervisorTypeOK'
  BY DEF SupervisorInv, SupervisorTypeOK, MarkClosed, Asking, IsOpen, CallerAgrees,
     CallerRecords, CallerLabels, ClosingRecords, ClosingLabels, Errors, Starting, Made
<1>2. \A d \in Callers : CallerAgrees(d)'
  BY DEF SupervisorInv, SupervisorTypeOK, MarkClosed, Asking, IsOpen, CallerAgrees,
     CallerRecords, CallerLabels, ClosingRecords, ClosingLabels, Errors, Starting, Made
<1>3. \A t \in Supervisors : StartAgrees(t)'
  BY DEF SupervisorInv, SupervisorTypeOK, MarkClosed, Asking, IsOpen, CallerAgrees,
     CallerRecords, CallerLabels, ClosingRecords, ClosingLabels, Errors, Starting, Made, StartAgrees
<1>4. \A t \in Supervisors : CloseAgrees(t)'
  BY DEF SupervisorInv, SupervisorTypeOK, MarkClosed, Asking, IsOpen, CallerAgrees,
     CallerRecords, CallerLabels, ClosingRecords, ClosingLabels, Errors, Starting, Made, StartAgrees, CloseAgrees
<1>5. \A t \in Supervisors : OneAtATime(t)'
  BY DEF SupervisorInv, SupervisorTypeOK, MarkClosed, Asking, IsOpen, CallerAgrees,
     CallerRecords, CallerLabels, ClosingRecords, ClosingLabels, Errors, Starting, Made, StartAgrees, CloseAgrees,
     OneAtATime, Accounted, Holds
<1>6. \A m \in open' : Accounted(m)'
  BY DEF SupervisorInv, SupervisorTypeOK, MarkClosed, Asking, IsOpen, CallerAgrees,
     CallerRecords, CallerLabels, ClosingRecords, ClosingLabels, Errors, Starting, Made, StartAgrees, CloseAgrees,
     OneAtATime, Accounted, Holds
<1> QED BY <1>1, <1>2, <1>3, <1>4, <1>5, <1>6 DEF SupervisorInv

\* The time a failed start holds others off is over.
LEMMA CooldownEndsStep ==
  ASSUME SupervisorInv, NEW s \in Supervisors, CooldownEnds(s)
  PROVE  SupervisorInv'
<1> USE SupervisorAssumption, ErrorsAssumption
<1>1. SupervisorTypeOK'
  BY DEF SupervisorInv, SupervisorTypeOK, CooldownEnds, Asking, IsOpen, CallerAgrees,
     CallerRecords, CallerLabels, ClosingRecords, ClosingLabels, Errors, Starting, Made
<1>2. \A d \in Callers : CallerAgrees(d)'
  BY DEF SupervisorInv, SupervisorTypeOK, CooldownEnds, Asking, IsOpen, CallerAgrees,
     CallerRecords, CallerLabels, ClosingRecords, ClosingLabels, Errors, Starting, Made
<1>3. \A t \in Supervisors : StartAgrees(t)'
  BY DEF SupervisorInv, SupervisorTypeOK, CooldownEnds, Asking, IsOpen, CallerAgrees,
     CallerRecords, CallerLabels, ClosingRecords, ClosingLabels, Errors, Starting, Made, StartAgrees
<1>4. \A t \in Supervisors : CloseAgrees(t)'
  BY DEF SupervisorInv, SupervisorTypeOK, CooldownEnds, Asking, IsOpen, CallerAgrees,
     CallerRecords, CallerLabels, ClosingRecords, ClosingLabels, Errors, Starting, Made, StartAgrees, CloseAgrees
<1>5. \A t \in Supervisors : OneAtATime(t)'
  BY DEF SupervisorInv, SupervisorTypeOK, CooldownEnds, Asking, IsOpen, CallerAgrees,
     CallerRecords, CallerLabels, ClosingRecords, ClosingLabels, Errors, Starting, Made, StartAgrees, CloseAgrees,
     OneAtATime, Accounted, Holds
<1>6. \A m \in open' : Accounted(m)'
  BY DEF SupervisorInv, SupervisorTypeOK, CooldownEnds, Asking, IsOpen, CallerAgrees,
     CallerRecords, CallerLabels, ClosingRecords, ClosingLabels, Errors, Starting, Made, StartAgrees, CloseAgrees,
     OneAtATime, Accounted, Holds
<1> QED BY <1>1, <1>2, <1>3, <1>4, <1>5, <1>6 DEF SupervisorInv


\* The invariant mentions no variable of the manager.
LEMMA SupervisorStutter ==
  ASSUME SupervisorInv, UNCHANGED supervisorVars
  PROVE  SupervisorInv'
  BY DEF supervisorVars, SupervisorInv, SupervisorTypeOK, CallerAgrees, StartAgrees, CloseAgrees,
     OneAtATime, Accounted, Holds, Asking, Starting, Made

\* Every step of a caller keeps the invariant of the supervisors.
LEMMA CallerStepKeeps ==
  ASSUME SupervisorInv, NEW c \in Callers, CallerStep(c)
  PROVE  SupervisorInv'
  BY EnterStep, StartProcessStep, InitializeStep, FinishStep, DiscardStep, TakeOfferStep,
     StopWaitingStep DEF CallerStep

\* Every step of the processes, the watchers and the clock keeps it.
LEMMA EnvironmentKeeps ==
  ASSUME SupervisorInv, SupervisorEnvironment
  PROVE  SupervisorInv'
  BY ConnectionIsLostStep, CooldownEndsStep, ContextExpiresStep DEF SupervisorEnvironment

\* The first states satisfy it.
LEMMA InitSupervisorInv ==
  ASSUME SupervisorInit
  PROVE  SupervisorInv
<1> USE SupervisorAssumption
<1>1. SupervisorTypeOK
  BY DEF SupervisorInit, SupervisorTypeOK, Idle, CallerRecords, CallerLabels, ClosingRecords,
     ClosingLabels
<1> QED
  BY <1>1 DEF SupervisorInit, SupervisorInv, CallerAgrees, StartAgrees, CloseAgrees, OneAtATime,
     Accounted, Idle, Asking, Starting, Made

\* The inductive invariant of the supervisors holds in every state.
LEMMA SupervisorInvariant == SupervisorSpec => []SupervisorInv
<1>1. SupervisorInv /\ [SupervisorNext]_supervisorVars => SupervisorInv'
  BY SupervisorStutter, AskStep, CallerStepKeeps, CloseBeginsStep, CloseConnectionStep,
     CloseEndsStep, MarkClosedStep, EnvironmentKeeps DEF SupervisorNext, CloseStep
<1> QED BY InitSupervisorInv, <1>1, PTL DEF SupervisorSpec

\* The supervisors' state stays well typed (the fields of Supervisor and startAttempt,
\* appserver/supervisor.go), for any supervisors, callers, connections and threshold.
THEOREM SupervisorTypeCorrect == SupervisorSpec => []SupervisorTypeOK
<1>1. SupervisorInv => SupervisorTypeOK
  BY DEF SupervisorInv
<1> QED BY SupervisorInvariant, <1>1, PTL

\* It makes every supervisor that is down own no running app server.
LEMMA InvMeansGone ==
  ASSUME SupervisorInv
  PROVE  DownMeansGone
<1> USE SupervisorAssumption
<1> SUFFICES ASSUME NEW s \in Supervisors,
                    (cooling[s] /\ ~closed[s]) \/ closing[s].pc = "closed"
             PROVE  OpenOf(s) = {} /\ connecting[s] = Null
  BY DEF DownMeansGone, SupervisorStatus
<1>1. CloseAgrees(s) /\ OneAtATime(s) /\ SupervisorTypeOK
  BY DEF SupervisorInv
<1>2. connecting[s] = Null /\ active[s] \notin open /\ closing[s].conn \notin open
  BY <1>1 DEF CloseAgrees, OneAtATime, SupervisorTypeOK
<1>3. \A n \in open : owner[n] # s
  BY <1>2 DEF SupervisorInv, Accounted, Holds
<1> QED BY <1>2, <1>3 DEF OpenOf

\* No connection and no start outlives a Close that has returned, and none is there while
\* starts are refused (Connection, Close and Status, appserver/supervisor.go), however many
\* requests share a supervisor and whatever they meet.
THEOREM SupervisorLeavesNothing == SupervisorSpec => []DownMeansGone
  BY SupervisorInvariant, InvMeansGone, PTL

-----------------------------------------------------------------------------
(* The manager                                                             *)

\* What a supervisor does by itself, as far as the manager is concerned.
LEMMA SupervisorStepFrame ==
  ASSUME SupervisorInv, SupervisorStep
  PROVE  /\ \A s \in Supervisors :
              /\ closing'[s].pc = "open" <=> closing[s].pc = "open"
              /\ closing[s].pc = "closed" => closing'[s].pc = "closed"
              /\ \/ connecting'[s] \in {connecting[s], Null}
                 \/ \E c \in Callers : Asking(c) = s
         /\ \A c \in Callers : Asking(c)' = Asking(c)
         /\ \A n \in Connections :
              owner'[n] = owner[n] \/ \E c \in Callers : Asking(c) = owner'[n]
<1> USE DEF SupervisorInv, SupervisorTypeOK, Asking
<1>1. ASSUME NEW c \in Callers, Enter(c) \/ TakeOffer(c) \/ StopWaiting(c) \/ ContextExpires(c)
      PROVE  /\ UNCHANGED <<closing, owner>>
             /\ \A d \in Callers : Asking(d)' = Asking(d)
             /\ \A s \in Supervisors : connecting'[s] = connecting[s] \/ Asking(c) = s
  BY <1>1 DEF Enter, TakeOffer, StopWaiting, ContextExpires, Return, CallerRecords
<1>2. ASSUME NEW c \in Callers, StartProcess(c) \/ Initialize(c)
      PROVE  /\ UNCHANGED <<closing, connecting>>
             /\ \A d \in Callers : Asking(d)' = Asking(d)
             /\ \A n \in Connections : owner'[n] \in {owner[n], Asking(c)}
  BY <1>2 DEF StartProcess, Initialize, CallerRecords
<1>3. ASSUME NEW c \in Callers, Finish(c) \/ Discard(c)
      PROVE  /\ UNCHANGED <<closing, owner>>
             /\ \A d \in Callers : Asking(d)' = Asking(d)
             /\ \A s \in Supervisors : connecting'[s] = connecting[s] \/ Asking(c) = s
  <2>1. ASSUME NEW r, EndAttempt(c, r)
        PROVE  /\ \A d \in Callers : callers'[d].sup = callers[d].sup
               /\ \A s \in Supervisors : connecting'[s] = connecting[s] \/ Asking(c) = s
    BY <2>1 DEF EndAttempt, CallerRecords
  <2>2. ASSUME callers' = [callers EXCEPT ![c].pc = "discard"]
        PROVE  \A d \in Callers : callers'[d].sup = callers[d].sup
    BY <2>2 DEF CallerRecords
  <2> QED BY <1>3, <2>1, <2>2 DEF Finish, Discard
<1>4. ASSUME NEW s \in Supervisors, CloseStep(s) \/ CooldownEnds(s)
      PROVE  /\ UNCHANGED <<callers, connecting, owner>>
             /\ \A t \in Supervisors :
                  /\ closing'[t].pc = "open" <=> closing[t].pc = "open"
                  /\ closing[t].pc = "closed" => closing'[t].pc = "closed"
  BY <1>4 DEF CloseStep, CloseConnection, CloseEnds, CooldownEnds, ClosingRecords
<1>5. ASSUME NEW n \in Connections, ConnectionIsLost(n)
      PROVE  UNCHANGED <<callers, connecting, owner, closing>>
  BY <1>5 DEF ConnectionIsLost
<1>6. CASE \E c \in Callers : CallerStep(c) \/ ContextExpires(c)
  <2>1. PICK c \in Callers : CallerStep(c) \/ ContextExpires(c)
    BY <1>6
  <2>2. CASE StartProcess(c) \/ Initialize(c)
    BY <1>2, <2>2, Zenon
  <2>3. CASE Enter(c) \/ TakeOffer(c) \/ StopWaiting(c) \/ ContextExpires(c)
    BY <1>1, <2>3, Zenon
  <2>4. CASE Finish(c) \/ Discard(c)
    BY <1>3, <2>4, Zenon
  <2> QED BY <2>1, <2>2, <2>3, <2>4 DEF CallerStep
<1>7. CASE \E s \in Supervisors : CloseStep(s) \/ CooldownEnds(s)
  BY <1>4, <1>7, Zenon
<1>8. CASE \E n \in Connections : ConnectionIsLost(n)
  BY <1>5, <1>8
<1> QED BY <1>6, <1>7, <1>8, Zenon DEF SupervisorStep, SupervisorEnvironment

\* What the manager's module calls a step of its supervisors keeps their invariant.
LEMMA SupervisorStepKeeps ==
  ASSUME SupervisorInv, SupervisorStep
  PROVE  SupervisorInv'
  BY CallerStepKeeps, CloseConnectionStep, CloseEndsStep, EnvironmentKeeps
     DEF SupervisorStep, CloseStep

\* A step of the supervisors that neither closes one nor touches one that is not made yet
\* is none of the manager's business.
LEMMA SupervisorMoves ==
  ASSUME RuntimesInv, SupervisorInv', UNCHANGED managerVars,
         \A s \in Supervisors :
           /\ closing'[s].pc = "open" <=> closing[s].pc = "open"
           /\ closing[s].pc = "closed" => closing'[s].pc = "closed"
           /\ groupOf[s] = Null =>
                /\ connecting'[s] = Null
                /\ \A c \in Callers : Asking(c)' # s
                /\ \A n \in Connections : owner'[n] # s
  PROVE  RuntimesInv'
<1> USE DEF managerVars
<1>1. RuntimesTypeOK'
  BY DEF RuntimesInv, RuntimesTypeOK, SupervisorInv
<1>2. \A u \in Users : UserAgrees(u)' /\ HandAgrees(u)'
  BY DEF RuntimesInv, RuntimesTypeOK, UserAgrees, HandAgrees, Holding
<1>3. \A g \in SessionGroups : EntryAgrees(g)'
  BY DEF RuntimesInv, RuntimesTypeOK, EntryAgrees
<1>4. \A s \in Supervisors : SupervisorIsKnown(s)'
  BY DEF RuntimesInv, SupervisorIsKnown, InHands
<1>5. EndedForGood'
  BY DEF RuntimesInv, EndedForGood, Holding, ManagerHasEnded
<1> QED BY <1>1, <1>2, <1>3, <1>4, <1>5 DEF RuntimesInv

\* A supervisor stays known if its entry stays, is closed, or comes into somebody's hands.
LEMMA KnownStays ==
  ASSUME \A s \in Supervisors : SupervisorIsKnown(s),
         UNCHANGED <<connecting, callers, owner, groupOf>>,
         NEW u \in Users,
         \A v \in Users : v # u => users'[v] = users[v],
         \A s \in Supervisors :
           /\ groupOf[s] = Null => closing'[s].pc = closing[s].pc
           /\ closing[s].pc = "closed" => closing'[s].pc = "closed"
           /\ InHands(u, s) =>
                \/ closing'[s].pc = "closed"
                \/ InHands(u, s)'
                \/ entries'[groupOf[s]] # Null /\ entries'[groupOf[s]].sup = s,
         \A s \in Supervisors :
           groupOf[s] # Null /\ entries[groupOf[s]] # Null /\ entries[groupOf[s]].sup = s
           => entries'[groupOf[s]] = entries[groupOf[s]] \/ InHands(u, s)'
  PROVE  \A s \in Supervisors : SupervisorIsKnown(s)'
<1> SUFFICES ASSUME NEW s \in Supervisors
             PROVE  SupervisorIsKnown(s)'
  OBVIOUS
<1>1. CASE groupOf[s] = Null
  BY <1>1 DEF SupervisorIsKnown, Asking
<1>2. CASE groupOf[s] # Null /\ closing[s].pc = "closed"
  BY <1>2 DEF SupervisorIsKnown
<1>3. CASE groupOf[s] # Null /\ entries[groupOf[s]] # Null /\ entries[groupOf[s]].sup = s
  BY <1>3 DEF SupervisorIsKnown
<1>4. ASSUME groupOf[s] # Null, NEW v \in Users, InHands(v, s)
      PROVE  SupervisorIsKnown(s)'
  <2>1. CASE v = u
    BY <1>4, <2>1 DEF SupervisorIsKnown
  <2>2. CASE v # u
    <3>1. InHands(v, s)'
      BY <1>4, <2>2 DEF InHands
    <3> QED BY <1>4, <3>1 DEF SupervisorIsKnown
  <2> QED BY <2>1, <2>2
<1> QED BY <1>1, <1>2, <1>3, <1>4 DEF SupervisorIsKnown

\* While a user works under the mutex the others hold nothing.
LEMMA OthersWait ==
  ASSUME RuntimesInv, NEW u \in Users, manager \in {Null, u}, manager' \in {Null, u},
         NEW v \in Users, v # u, users'[v] = users[v]
  PROVE  UserAgrees(v)' /\ HandAgrees(v)' /\ ~Holding(v) /\ ~Holding(v)'
<1>1. UserAgrees(v) /\ ~Holding(v)
  BY RuntimesAssumption DEF RuntimesInv, UserAgrees
<1> QED BY <1>1, RuntimesAssumption DEF UserAgrees, HandAgrees, Holding

\* What Leave does to the users.
LEMMA LeaveFrame ==
  ASSUME users \in [Users -> UserRecords], NEW u \in Users, NEW ok \in BOOLEAN, Leave(u, ok)
  PROVE  /\ users' \in [Users -> UserRecords] /\ manager' = Null
         /\ users'[u] = [users[u] EXCEPT !.pc = "done", !.ok = ok]
         /\ users'[u].pc = "done" /\ users'[u].op = users[u].op
         /\ users'[u].group = users[u].group /\ users'[u].epoch = users[u].epoch
         /\ \A v \in Users : v # u => users'[v] = users[v]
<1> DEFINE r == [users[u] EXCEPT !.pc = "done", !.ok = ok]
<1>1. users' = [users EXCEPT ![u] = r] /\ manager' = Null
  BY DEF Leave
<1>2. /\ r \in UserRecords /\ r.pc = "done" /\ r.op = users[u].op
      /\ r.group = users[u].group /\ r.epoch = users[u].epoch
  BY DEF UserRecords, UserLabels
<1> QED BY <1>1, <1>2

\* What Goto does to the users.
LEMMA GotoFrame ==
  ASSUME users \in [Users -> UserRecords], NEW u \in Users, NEW pc \in UserLabels, Goto(u, pc)
  PROVE  /\ users' \in [Users -> UserRecords]
         /\ users'[u].pc = pc /\ users'[u].op = users[u].op /\ users'[u].sup = users[u].sup
         /\ users'[u].group = users[u].group /\ users'[u].epoch = users[u].epoch
         /\ \A v \in Users : v # u => users'[v] = users[v]
  BY DEF Goto, UserRecords

\* What TakeEntry does.
LEMMA TakeEntryFrame ==
  ASSUME RuntimesTypeOK, NEW u \in Users, NEW g \in SessionGroups, entries[g] # Null,
         TakeEntry(u, g)
  PROVE  /\ users' \in [Users -> UserRecords]
         /\ users'[u].pc = "close" /\ users'[u].sup = entries[g].sup
         /\ users'[u].op = users[u].op
         /\ users'[u].group = users[u].group /\ users'[u].epoch = users[u].epoch
         /\ \A v \in Users : v # u => users'[v] = users[v]
         /\ entries' = [entries EXCEPT ![g] = Null]
         /\ sessions' = [sessions EXCEPT ![g] = Null]
<1> DEFINE r == [users[u] EXCEPT !.pc = "close", !.sup = entries[g].sup]
<1>1. users' = [users EXCEPT ![u] = r]
  BY DEF TakeEntry
<1>2. /\ r \in UserRecords /\ r.pc = "close" /\ r.sup = entries[g].sup
      /\ r.op = users[u].op /\ r.group = users[u].group /\ r.epoch = users[u].epoch
  BY DEF RuntimesTypeOK, UserRecords, UserLabels
<1> QED BY <1>1, <1>2 DEF RuntimesTypeOK, TakeEntry

\* A user begins to ensure the runtime of a group.
LEMMA EnsureStep ==
  ASSUME RuntimesInv, NEW u \in Users, NEW g \in SessionGroups, NEW e \in Epochs,
         EnsureWorkflowRuntime(u, g, e), UNCHANGED supervisorVars
  PROVE  RuntimesInv'
<1> USE SupervisorAssumption, RuntimesAssumption
<1>0. SupervisorInv' /\ UNCHANGED <<closing, connecting, callers, owner>>
  BY SupervisorStutter DEF RuntimesInv, supervisorVars
<1>1. RuntimesTypeOK'
  BY <1>0 DEF RuntimesInv, RuntimesTypeOK, EnsureWorkflowRuntime, IdleUser, UserAgrees, Holding, SupervisorInv, UserRecords, UserLabels, UserOps
<1>2. \A v \in Users : UserAgrees(v)'
  BY <1>0 DEF RuntimesInv, RuntimesTypeOK, EnsureWorkflowRuntime, IdleUser, UserAgrees, Holding, UserRecords, UserOps
<1>3. \A v \in Users : HandAgrees(v)'
  BY <1>0 DEF RuntimesInv, RuntimesTypeOK, EnsureWorkflowRuntime, IdleUser, UserAgrees, Holding, HandAgrees, UserRecords
<1>4. \A h \in SessionGroups : EntryAgrees(h)'
  BY <1>0 DEF RuntimesInv, RuntimesTypeOK, EnsureWorkflowRuntime, IdleUser, UserAgrees, Holding, EntryAgrees, HandAgrees, UserRecords
<1>5. \A s \in Supervisors : SupervisorIsKnown(s)'
  BY <1>0, KnownStays DEF RuntimesInv, RuntimesTypeOK, EnsureWorkflowRuntime, IdleUser, UserAgrees, Holding, InHands, UserRecords
<1>6. EndedForGood'
  BY <1>0 DEF RuntimesInv, RuntimesTypeOK, EnsureWorkflowRuntime, IdleUser, UserAgrees, Holding, EndedForGood, ManagerHasEnded, HandAgrees, UserRecords
<1> QED BY <1>0, <1>1, <1>2, <1>3, <1>4, <1>5, <1>6 DEF RuntimesInv

\* A user begins to close the runtime of a group.
LEMMA CloseRuntimeStep ==
  ASSUME RuntimesInv, NEW u \in Users, NEW g \in SessionGroups,
         CloseWorkflowRuntime(u, g), UNCHANGED supervisorVars
  PROVE  RuntimesInv'
<1> USE SupervisorAssumption, RuntimesAssumption
<1>0. SupervisorInv' /\ UNCHANGED <<closing, connecting, callers, owner>>
  BY SupervisorStutter DEF RuntimesInv, supervisorVars
<1>1. RuntimesTypeOK'
  BY <1>0 DEF RuntimesInv, RuntimesTypeOK, CloseWorkflowRuntime, IdleUser, UserAgrees, Holding, SupervisorInv, UserRecords, UserLabels, UserOps
<1>2. \A v \in Users : UserAgrees(v)'
  BY <1>0 DEF RuntimesInv, RuntimesTypeOK, CloseWorkflowRuntime, IdleUser, UserAgrees, Holding, UserRecords, UserOps
<1>3. \A v \in Users : HandAgrees(v)'
  BY <1>0 DEF RuntimesInv, RuntimesTypeOK, CloseWorkflowRuntime, IdleUser, UserAgrees, Holding, HandAgrees, UserRecords
<1>4. \A h \in SessionGroups : EntryAgrees(h)'
  BY <1>0 DEF RuntimesInv, RuntimesTypeOK, CloseWorkflowRuntime, IdleUser, UserAgrees, Holding, EntryAgrees, HandAgrees, UserRecords
<1>5. \A s \in Supervisors : SupervisorIsKnown(s)'
  BY <1>0, KnownStays DEF RuntimesInv, RuntimesTypeOK, CloseWorkflowRuntime, IdleUser, UserAgrees, Holding, InHands, UserRecords
<1>6. EndedForGood'
  BY <1>0 DEF RuntimesInv, RuntimesTypeOK, CloseWorkflowRuntime, IdleUser, UserAgrees, Holding, EndedForGood, ManagerHasEnded, HandAgrees, UserRecords
<1> QED BY <1>0, <1>1, <1>2, <1>3, <1>4, <1>5, <1>6 DEF RuntimesInv

\* The gateway begins to close the manager.
LEMMA CloseManagerStep ==
  ASSUME RuntimesInv, NEW u \in Users, CloseManager(u), UNCHANGED supervisorVars
  PROVE  RuntimesInv'
<1> USE SupervisorAssumption, RuntimesAssumption
<1>0. SupervisorInv' /\ UNCHANGED <<closing, connecting, callers, owner>>
  BY SupervisorStutter DEF RuntimesInv, supervisorVars
<1>1. RuntimesTypeOK'
  BY <1>0 DEF RuntimesInv, RuntimesTypeOK, CloseManager, IdleUser, UserAgrees, Holding, SupervisorInv, UserRecords, UserLabels, UserOps
<1>2. \A v \in Users : UserAgrees(v)'
  BY <1>0 DEF RuntimesInv, RuntimesTypeOK, CloseManager, IdleUser, UserAgrees, Holding, UserRecords, UserOps
<1>3. \A v \in Users : HandAgrees(v)'
  BY <1>0 DEF RuntimesInv, RuntimesTypeOK, CloseManager, IdleUser, UserAgrees, Holding, HandAgrees, UserRecords
<1>4. \A h \in SessionGroups : EntryAgrees(h)'
  BY <1>0 DEF RuntimesInv, RuntimesTypeOK, CloseManager, IdleUser, UserAgrees, Holding, EntryAgrees, HandAgrees, UserRecords
<1>5. \A s \in Supervisors : SupervisorIsKnown(s)'
  BY <1>0, KnownStays DEF RuntimesInv, RuntimesTypeOK, CloseManager, IdleUser, UserAgrees, Holding, InHands, UserRecords
<1>6. EndedForGood'
  BY <1>0 DEF RuntimesInv, RuntimesTypeOK, CloseManager, IdleUser, UserAgrees, Holding, EndedForGood, ManagerHasEnded, HandAgrees, UserRecords
<1> QED BY <1>0, <1>1, <1>2, <1>3, <1>4, <1>5, <1>6 DEF RuntimesInv

\* The workspace of the entry is looked for, found or not.
LEMMA ValidateStep ==
  ASSUME RuntimesInv, NEW u \in Users, NEW found \in BOOLEAN,
         ValidateRuntimeWorkspace(u, found), UNCHANGED supervisorVars
  PROVE  RuntimesInv'
<1> USE SupervisorAssumption, RuntimesAssumption
<1>0. SupervisorInv' /\ UNCHANGED <<closing, connecting, callers, owner>>
  BY SupervisorStutter DEF RuntimesInv, supervisorVars
<1>1. RuntimesTypeOK'
  BY <1>0 DEF RuntimesInv, RuntimesTypeOK, ValidateRuntimeWorkspace, UserAgrees, Holding, SupervisorInv, UserRecords, UserLabels, UserOps
<1>2. \A v \in Users : UserAgrees(v)'
  BY <1>0 DEF RuntimesInv, RuntimesTypeOK, ValidateRuntimeWorkspace, UserAgrees, Holding, UserRecords, UserOps
<1>3. \A v \in Users : HandAgrees(v)'
  BY <1>0 DEF RuntimesInv, RuntimesTypeOK, ValidateRuntimeWorkspace, UserAgrees, Holding, HandAgrees, UserRecords
<1>4. \A h \in SessionGroups : EntryAgrees(h)'
  BY <1>0 DEF RuntimesInv, RuntimesTypeOK, ValidateRuntimeWorkspace, UserAgrees, Holding, EntryAgrees, HandAgrees, UserRecords
<1>5. \A s \in Supervisors : SupervisorIsKnown(s)'
  BY <1>0, KnownStays DEF RuntimesInv, RuntimesTypeOK, ValidateRuntimeWorkspace, UserAgrees, Holding, InHands, UserRecords
<1>6. EndedForGood'
  BY <1>0 DEF RuntimesInv, RuntimesTypeOK, ValidateRuntimeWorkspace, UserAgrees, Holding, EndedForGood, ManagerHasEnded, HandAgrees, UserRecords
<1> QED BY <1>0, <1>1, <1>2, <1>3, <1>4, <1>5, <1>6 DEF RuntimesInv

\* A user that holds the mutex, or takes it, takes an entry to close its supervisor.
LEMMA TakeEntryKeeps ==
  ASSUME RuntimesInv, SupervisorInv', NEW u \in Users, NEW g \in SessionGroups,
         UNCHANGED <<closing, connecting, callers, owner, groupOf, managerClosed>>,
         entries[g] # Null, TakeEntry(u, g), ~ManagerHasEnded,
         manager \in {Null, u}, manager' = u,
         users[u].pc \in {"lock", "shutdown"},
         users[u].op = "EnsureWorkflowRuntime" => users[u].group = g /\ ~managerClosed,
         users[u].op = "Close" => managerClosed
  PROVE  RuntimesInv'
<1> USE SupervisorAssumption, RuntimesAssumption
<1>1. /\ users' \in [Users -> UserRecords]
      /\ users'[u].pc = "close" /\ users'[u].sup = entries[g].sup
      /\ users'[u].op = users[u].op
      /\ users'[u].group = users[u].group /\ users'[u].epoch = users[u].epoch
      /\ \A v \in Users : v # u => users'[v] = users[v]
      /\ entries' = [entries EXCEPT ![g] = Null]
      /\ sessions' = [sessions EXCEPT ![g] = Null]
  BY TakeEntryFrame DEF RuntimesInv
<1>2. RuntimesTypeOK'
  BY <1>1 DEF RuntimesInv, RuntimesTypeOK, SupervisorInv
<1>3. /\ entries[g].sup \in Supervisors /\ groupOf[entries[g].sup] = g
      /\ closing[entries[g].sup].pc = "open"
  BY DEF RuntimesInv, RuntimesTypeOK, EntryAgrees
<1>4. \A v \in Users : UserAgrees(v)' /\ HandAgrees(v)'
  <2>1. UserAgrees(u)'
    BY <1>1 DEF RuntimesInv, UserAgrees, Holding
  <2>2. HandAgrees(u)'
    BY <1>1, <1>3 DEF RuntimesInv, RuntimesTypeOK, HandAgrees
  <2> QED BY <1>1, <2>1, <2>2, OthersWait
<1>5. \A h \in SessionGroups : EntryAgrees(h)'
  BY <1>1 DEF RuntimesInv, RuntimesTypeOK, EntryAgrees
<1>6. \A s \in Supervisors : SupervisorIsKnown(s)'
  <2>1. \A s \in Supervisors : ~InHands(u, s)
    BY DEF InHands
  <2>2. \A s \in Supervisors :
          groupOf[s] # Null /\ entries[groupOf[s]] # Null /\ entries[groupOf[s]].sup = s
          => entries'[groupOf[s]] = entries[groupOf[s]] \/ InHands(u, s)'
    BY <1>1 DEF InHands, RuntimesInv, RuntimesTypeOK
  <2> QED BY <1>1, <2>1, <2>2, KnownStays DEF RuntimesInv
<1>7. EndedForGood'
  <2>1. \A v \in Users : v # u => ~Holding(v)'
    BY <1>1, OthersWait
  <2> QED BY <1>1, <2>1 DEF RuntimesInv, EndedForGood, ManagerHasEnded, Holding
<1> QED BY <1>2, <1>4, <1>5, <1>6, <1>7 DEF RuntimesInv

\* A user takes the lock of the manager.
LEMMA LockStep ==
  ASSUME RuntimesInv, NEW u \in Users, Lock(u), UNCHANGED supervisorVars
  PROVE  RuntimesInv'
<1> USE SupervisorAssumption, RuntimesAssumption
<1> DEFINE g == users[u].group
           op == users[u].op
<1>0. /\ SupervisorInv' /\ UNCHANGED <<closing, connecting, callers, owner, groupOf>>
      /\ users \in [Users -> UserRecords] /\ users[u].pc = "lock" /\ ~Holding(u)
      /\ manager = Null /\ manager' \in {Null, u}
      /\ op \in UserOps /\ (op # "Close" => g \in SessionGroups)
      /\ op = "EnsureWorkflowRuntime" => users[u].epoch \in Epochs
  BY SupervisorStutter
     DEF RuntimesInv, RuntimesTypeOK, supervisorVars, Lock, Leave, UserAgrees, UserOps, Holding
<1>1. CASE /\ \E ok \in BOOLEAN : Leave(u, ok)
           /\ op # "Close"
           /\ UNCHANGED <<entries, sessions, managerClosed>>
  <2>1. /\ users' \in [Users -> UserRecords] /\ manager' = Null
        /\ users'[u].pc = "done" /\ users'[u].op = op
        /\ users'[u].group = g /\ users'[u].epoch = users[u].epoch
        /\ \A v \in Users : v # u => users'[v] = users[v]
    BY <1>0, <1>1, LeaveFrame
  <2>2. RuntimesTypeOK'
    BY <1>0, <1>1, <2>1 DEF RuntimesInv, RuntimesTypeOK, SupervisorInv
  <2>3. \A v \in Users : UserAgrees(v)' /\ HandAgrees(v)'
    <3>1. UserAgrees(u)' /\ HandAgrees(u)'
      BY <1>0, <2>1 DEF UserAgrees, HandAgrees, Holding
    <3> QED BY <1>0, <2>1, <3>1, OthersWait
  <2>4. \A h \in SessionGroups : EntryAgrees(h)'
    BY <1>0, <1>1 DEF RuntimesInv, EntryAgrees
  <2>5. \A s \in Supervisors : SupervisorIsKnown(s)'
    BY <1>0, <1>1, <2>1, KnownStays DEF RuntimesInv, InHands
  <2>6. EndedForGood'
    BY <1>0, <1>1, <2>1 DEF RuntimesInv, EndedForGood, ManagerHasEnded, Holding
  <2> QED BY <1>0, <2>2, <2>3, <2>4, <2>5, <2>6 DEF RuntimesInv
<1>2. CASE \/ /\ op = "EnsureWorkflowRuntime" /\ ~managerClosed /\ entries[g] = Null
              /\ Goto(u, "create")
              /\ UNCHANGED <<entries, sessions, managerClosed>>
              /\ manager' = u
           \/ /\ op = "Close" /\ managerClosed' /\ Goto(u, "shutdown")
              /\ UNCHANGED <<entries, sessions>>
              /\ manager' = u
  <2>1. /\ users' \in [Users -> UserRecords]
        /\ users'[u].pc = IF op = "Close" THEN "shutdown" ELSE "create"
        /\ users'[u].op = op
        /\ users'[u].group = g /\ users'[u].epoch = users[u].epoch
        /\ \A v \in Users : v # u => users'[v] = users[v]
    BY <1>0, <1>2, GotoFrame DEF UserLabels
  <2>2. RuntimesTypeOK'
    BY <1>0, <1>2, <2>1 DEF RuntimesInv, RuntimesTypeOK, SupervisorInv
  <2>3. \A v \in Users : UserAgrees(v)' /\ HandAgrees(v)'
    <3>1. UserAgrees(u)' /\ HandAgrees(u)'
      BY <1>0, <1>2, <2>1 DEF UserAgrees, HandAgrees, Holding
    <3> QED BY <1>0, <2>1, <3>1, OthersWait
  <2>4. \A h \in SessionGroups : EntryAgrees(h)'
    BY <1>0, <1>2 DEF RuntimesInv, EntryAgrees
  <2>5. \A s \in Supervisors : SupervisorIsKnown(s)'
    BY <1>0, <1>2, <2>1, KnownStays DEF RuntimesInv, InHands
  <2>6. EndedForGood'
    <3>1. \A v \in Users : v # u => ~Holding(v)'
      BY <1>0, <2>1, OthersWait
    <3> QED
      BY <1>0, <1>2, <2>1, <3>1 DEF RuntimesInv, EndedForGood, ManagerHasEnded, Holding
  <2> QED BY <1>0, <2>2, <2>3, <2>4, <2>5, <2>6 DEF RuntimesInv
<1>3. CASE /\ entries[g] # Null /\ TakeEntry(u, g) /\ manager' = u
           /\ op = "EnsureWorkflowRuntime" => ~managerClosed
           /\ op # "Close"
           /\ UNCHANGED managerClosed
  <2>1. ~ManagerHasEnded
    BY <1>0, <1>3 DEF RuntimesInv, EndedForGood
  <2> QED BY <1>0, <1>3, <2>1, TakeEntryKeeps DEF Holding
<1> QED BY <1>1, <1>2, <1>3 DEF Lock

\* The manager's Close takes all entries at once.
LEMMA ShutdownStep ==
  ASSUME RuntimesInv, NEW u \in Users, Shutdown(u), UNCHANGED supervisorVars
  PROVE  RuntimesInv'
<1> USE SupervisorAssumption, RuntimesAssumption
<1>0. /\ SupervisorInv' /\ UNCHANGED <<closing, connecting, callers, owner, groupOf>>
      /\ users \in [Users -> UserRecords] /\ users[u].pc = "shutdown"
      /\ manager = u /\ manager' \in {Null, u} /\ users[u].op = "Close"
      /\ UNCHANGED managerClosed
  BY SupervisorStutter
     DEF RuntimesInv, RuntimesTypeOK, supervisorVars, Shutdown, Leave, UserAgrees, Holding
<1>1. ASSUME NEW g \in SessionGroups, entries[g] # Null, TakeEntry(u, g), UNCHANGED manager
      PROVE  RuntimesInv'
  <2>1. ~ManagerHasEnded /\ managerClosed
    BY <1>0, <1>1 DEF RuntimesInv, EndedForGood
  <2> QED BY <1>0, <1>1, <2>1, TakeEntryKeeps
<1>2. CASE /\ \A g \in SessionGroups : entries[g] = Null
           /\ Leave(u, TRUE) /\ UNCHANGED <<entries, sessions>>
  <2>1. /\ users' \in [Users -> UserRecords] /\ manager' = Null
        /\ users'[u].pc = "done" /\ users'[u].op = "Close"
        /\ \A v \in Users : v # u => users'[v] = users[v]
    BY <1>0, <1>2, LeaveFrame
  <2>2. RuntimesTypeOK'
    BY <1>0, <1>2, <2>1 DEF RuntimesInv, RuntimesTypeOK, SupervisorInv
  <2>3. \A v \in Users : UserAgrees(v)' /\ HandAgrees(v)'
    <3>1. UserAgrees(u)' /\ HandAgrees(u)'
      BY <1>0, <2>1 DEF UserAgrees, HandAgrees, Holding, UserOps
    <3> QED BY <1>0, <2>1, <3>1, OthersWait
  <2>4. \A h \in SessionGroups : EntryAgrees(h)'
    BY <1>0, <1>2 DEF RuntimesInv, EntryAgrees
  <2>5. \A s \in Supervisors : SupervisorIsKnown(s)'
    BY <1>0, <1>2, <2>1, KnownStays DEF RuntimesInv, InHands
  <2>6. EndedForGood'
    <3>1. \A v \in Users : ~Holding(v)'
      BY <1>0, <2>1, OthersWait DEF Holding
    <3>2. managerClosed
      BY <1>0 DEF RuntimesInv, EndedForGood
    <3> QED
      BY <1>0, <1>2, <3>1, <3>2 DEF EndedForGood, Holding
  <2> QED BY <1>0, <2>2, <2>3, <2>4, <2>5, <2>6 DEF RuntimesInv
<1> QED BY <1>0, <1>1, <1>2 DEF Shutdown

\* A user learns that the supervisor it closed is closed.
LEMMA SupervisorIsClosedStep ==
  ASSUME RuntimesInv, NEW u \in Users, SupervisorIsClosed(u), UNCHANGED supervisorVars
  PROVE  RuntimesInv'
<1> USE SupervisorAssumption, RuntimesAssumption
<1>0. /\ SupervisorInv' /\ UNCHANGED <<closing, connecting, callers, owner, groupOf>>
      /\ users \in [Users -> UserRecords] /\ users[u].pc = "closing"
      /\ manager = u /\ UNCHANGED <<entries, sessions, managerClosed>>
      /\ users[u].op \in UserOps
      /\ closing[users[u].sup].pc = "closed"
  BY SupervisorStutter
     DEF RuntimesInv, RuntimesTypeOK, supervisorVars, SupervisorIsClosed, UserAgrees, Holding
<1>1. /\ users' \in [Users -> UserRecords]
      /\ users'[u].op = users[u].op
      /\ users'[u].group = users[u].group /\ users'[u].epoch = users[u].epoch
      /\ \A v \in Users : v # u => users'[v] = users[v]
      /\ IF users[u].op = "CloseWorkflowRuntime"
         THEN users'[u].pc = "done" /\ manager' = Null
         ELSE /\ users'[u].pc = IF users[u].op = "Close" THEN "shutdown" ELSE "create"
              /\ manager' = u
  <2>1. CASE users[u].op = "CloseWorkflowRuntime"
    <3>1. Leave(u, TRUE)
      BY <2>1 DEF SupervisorIsClosed
    <3> QED BY <1>0, <2>1, <3>1, LeaveFrame
  <2>2. CASE users[u].op \in {"EnsureWorkflowRuntime", "Close"}
    <3>1. Goto(u, IF users[u].op = "Close" THEN "shutdown" ELSE "create") /\ manager' = u
      BY <1>0, <2>2 DEF SupervisorIsClosed
    <3> QED BY <1>0, <2>2, <3>1, GotoFrame DEF UserLabels
  <2> QED BY <1>0, <2>1, <2>2 DEF UserOps
<1>2. RuntimesTypeOK'
  BY <1>0, <1>1 DEF RuntimesInv, RuntimesTypeOK, SupervisorInv
<1>3. \A v \in Users : UserAgrees(v)' /\ HandAgrees(v)'
  <2>1. UserAgrees(u) /\ HandAgrees(u)
    BY DEF RuntimesInv
  <2>2. UserAgrees(u)' /\ HandAgrees(u)'
    BY <1>0, <1>1, <2>1 DEF UserAgrees, HandAgrees, Holding, UserOps
  <2> QED BY <1>0, <1>1, <2>2, OthersWait
<1>4. \A h \in SessionGroups : EntryAgrees(h)'
  BY <1>0 DEF RuntimesInv, EntryAgrees
<1>5. \A s \in Supervisors : SupervisorIsKnown(s)'
  BY <1>0, <1>1, KnownStays DEF RuntimesInv, InHands
<1>6. EndedForGood'
  <2>1. \A v \in Users : v # u => ~Holding(v)'
    BY <1>0, <1>1, OthersWait
  <2>2. managerClosed => users[u].op # "EnsureWorkflowRuntime"
    BY <1>0 DEF RuntimesInv, EndedForGood, Holding
  <2> QED
    BY <1>0, <1>1, <2>1, <2>2 DEF RuntimesInv, EndedForGood, ManagerHasEnded, Holding, UserOps
<1> QED BY <1>0, <1>2, <1>3, <1>4, <1>5, <1>6 DEF RuntimesInv

\* A user that holds the lock creates a supervisor.
LEMMA CreateStep ==
  ASSUME RuntimesInv, NEW u \in Users, Create(u), UNCHANGED supervisorVars
  PROVE  RuntimesInv'
<1>0. /\ SupervisorInv' /\ UNCHANGED <<closing, connecting, callers, owner>>
      /\ users \in [Users -> UserRecords] /\ users[u].pc = "create"
      /\ manager = u /\ UNCHANGED <<entries, sessions, managerClosed>>
      /\ users[u].op = "EnsureWorkflowRuntime"
      /\ users[u].group \in SessionGroups /\ entries[users[u].group] = Null
      /\ ~managerClosed /\ UserAgrees(u)
      /\ Null \notin Users /\ Null \notin SessionGroups
  BY SupervisorStutter, RuntimesAssumption
     DEF RuntimesInv, RuntimesTypeOK, supervisorVars, Create, UserAgrees, HandAgrees, EndedForGood,
         Holding
<1>1. ASSUME NEW s \in Supervisors, groupOf[s] = Null,
             groupOf' = [groupOf EXCEPT ![s] = users[u].group],
             users' = [users EXCEPT ![u].pc = "register", ![u].sup = s],
             UNCHANGED manager
      PROVE  RuntimesInv'
  <2> DEFINE r == [users[u] EXCEPT !.pc = "register", !.sup = s]
  <2>1. users' = [users EXCEPT ![u] = r]
    BY <1>1
  <2>2. /\ r \in UserRecords /\ r.pc = "register" /\ r.sup = s
        /\ r.op = users[u].op /\ r.group = users[u].group /\ r.epoch = users[u].epoch
    BY <1>0, ZenonT(30) DEF UserRecords, UserLabels
  <2> HIDE DEF r
  <2>3. /\ users'[u] = r /\ \A v \in Users : v # u => users'[v] = users[v]
    BY <1>0, <2>1
  <2>4. RuntimesTypeOK'
    BY <1>0, <1>1, <2>1, <2>2 DEF RuntimesInv, RuntimesTypeOK, SupervisorInv
  <2>5. closing[s].pc = "open"
    BY <1>1 DEF RuntimesInv, SupervisorIsKnown
  <2>6. \A v \in Users : UserAgrees(v)' /\ HandAgrees(v)'
    <3>1. UserAgrees(u)' /\ HandAgrees(u)'
      BY <1>0, <1>1, <2>2, <2>3, <2>5
         DEF RuntimesInv, RuntimesTypeOK, UserAgrees, HandAgrees, Holding
    <3>2. ASSUME NEW v \in Users, v # u
          PROVE  UserAgrees(v)' /\ HandAgrees(v)'
      BY <1>0, <1>1, <2>3, <3>2, OthersWait
    <3> QED BY <3>1, <3>2
  <2>7. \A g \in SessionGroups : EntryAgrees(g)'
    BY <1>0, <1>1 DEF RuntimesInv, RuntimesTypeOK, EntryAgrees
  <2>8. \A t \in Supervisors : SupervisorIsKnown(t)'
    <3> SUFFICES ASSUME NEW t \in Supervisors
                 PROVE  SupervisorIsKnown(t)'
      OBVIOUS
    <3>1. CASE t = s
      <4>1. InHands(u, s)' /\ groupOf'[s] # Null
        BY <1>0, <1>1, <2>2, <2>3 DEF InHands, RuntimesInv, RuntimesTypeOK
      <4> QED BY <3>1, <4>1 DEF SupervisorIsKnown
    <3>2. CASE t # s
      <4>1. groupOf'[t] = groupOf[t] /\ SupervisorIsKnown(t)
        BY <1>1, <3>2 DEF RuntimesInv, RuntimesTypeOK
      <4>2. \A v \in Users : InHands(v, t) => InHands(v, t)'
        BY <1>0, <2>3 DEF InHands
      <4> QED BY <1>0, <4>1, <4>2 DEF SupervisorIsKnown, Asking
    <3> QED BY <3>1, <3>2
  <2>9. EndedForGood'
    BY <1>0, <2>2, <2>3 DEF RuntimesInv, EndedForGood, ManagerHasEnded, Holding
  <2> QED BY <1>0, <2>4, <2>6, <2>7, <2>8, <2>9 DEF RuntimesInv
<1>2. CASE Leave(u, FALSE) /\ UNCHANGED groupOf
  <2>1. /\ users' \in [Users -> UserRecords] /\ manager' = Null
        /\ users'[u].pc = "done" /\ users'[u].op = "EnsureWorkflowRuntime"
        /\ users'[u].group = users[u].group /\ users'[u].epoch = users[u].epoch
        /\ \A v \in Users : v # u => users'[v] = users[v]
    BY <1>0, <1>2, LeaveFrame
  <2>2. RuntimesTypeOK'
    BY <1>0, <1>2, <2>1 DEF RuntimesInv, RuntimesTypeOK, SupervisorInv
  <2>3. \A v \in Users : UserAgrees(v)' /\ HandAgrees(v)'
    <3>1. UserAgrees(u)' /\ HandAgrees(u)'
      BY <1>0, <2>1 DEF UserAgrees, HandAgrees, Holding
    <3> QED BY <1>0, <2>1, <3>1, OthersWait
  <2>4. \A g \in SessionGroups : EntryAgrees(g)'
    BY <1>0, <1>2 DEF RuntimesInv, EntryAgrees
  <2>5. \A s \in Supervisors : SupervisorIsKnown(s)'
    BY <1>0, <1>2, <2>1, KnownStays DEF RuntimesInv, InHands
  <2>6. EndedForGood'
    BY <1>0, <2>1 DEF RuntimesInv, EndedForGood, ManagerHasEnded, Holding
  <2> QED BY <1>0, <2>2, <2>3, <2>4, <2>5, <2>6 DEF RuntimesInv
<1> QED BY <1>1, <1>2 DEF Create

\* A user registers the supervisor it created, or a racing close has won.
LEMMA RegisterStep ==
  ASSUME RuntimesInv, NEW u \in Users, Register(u), UNCHANGED supervisorVars
  PROVE  RuntimesInv'
<1> USE SupervisorAssumption, RuntimesAssumption
<1> DEFINE g == users[u].group
           s == users[u].sup
           entry == [epoch |-> users[u].epoch, sup |-> s]
<1>0. /\ SupervisorInv' /\ UNCHANGED <<closing, connecting, callers, owner, groupOf>>
      /\ users \in [Users -> UserRecords] /\ users[u].pc = "register"
      /\ manager = u /\ UNCHANGED managerClosed
      /\ users[u].op = "EnsureWorkflowRuntime"
      /\ g \in SessionGroups /\ s \in Supervisors /\ users[u].epoch \in Epochs
      /\ groupOf[s] = g /\ closing[s].pc = "open"
      /\ ~managerClosed /\ ~ManagerHasEnded /\ UserAgrees(u)
  BY SupervisorStutter
     DEF RuntimesInv, RuntimesTypeOK, supervisorVars, Register, UserAgrees, HandAgrees, EndedForGood,
         Holding
<1>1. /\ users' \in [Users -> UserRecords] /\ manager' = Null
      /\ users'[u].pc = "done" /\ users'[u].op = "EnsureWorkflowRuntime"
      /\ users'[u].group = g /\ users'[u].epoch = users[u].epoch
      /\ \A v \in Users : v # u => users'[v] = users[v]
  BY <1>0, LeaveFrame DEF Register
<1>2. /\ entry \in [epoch : Epochs, sup : Supervisors] /\ entry.sup = s
      /\ entries' = [entries EXCEPT ![g] = entry]
      /\ sessions' = [sessions EXCEPT ![g] = s]
  BY <1>0 DEF Register
<1> HIDE DEF entry
<1>3. RuntimesTypeOK'
  BY <1>0, <1>1, <1>2 DEF RuntimesInv, RuntimesTypeOK, SupervisorInv
<1>4. \A v \in Users : UserAgrees(v)' /\ HandAgrees(v)'
  <2>1. UserAgrees(u)' /\ HandAgrees(u)'
    BY <1>0, <1>1 DEF UserAgrees, HandAgrees, Holding
  <2> QED BY <1>0, <1>1, <2>1, OthersWait
<1>5. \A h \in SessionGroups : EntryAgrees(h)'
  <2>1. entry # Null
    BY <1>0, <1>2 DEF RuntimesInv, RuntimesTypeOK
  <2> QED BY <1>0, <1>2, <2>1 DEF RuntimesInv, RuntimesTypeOK, EntryAgrees
<1>6. \A t \in Supervisors : SupervisorIsKnown(t)'
  <2>1. entries[g] = Null
    BY <1>0 DEF RuntimesInv, HandAgrees
  <2>2. \A t \in Supervisors :
          InHands(u, t) => t = s /\ entries'[groupOf[t]] # Null /\ entries'[groupOf[t]].sup = t
    BY <1>0, <1>2 DEF RuntimesInv, RuntimesTypeOK, InHands
  <2>3. \A t \in Supervisors :
          groupOf[t] # Null /\ entries[groupOf[t]] # Null
          => entries'[groupOf[t]] = entries[groupOf[t]]
    BY <1>0, <1>2, <2>1 DEF RuntimesInv, RuntimesTypeOK
  <2> QED BY <1>0, <1>1, <2>2, <2>3, KnownStays DEF RuntimesInv
<1>7. EndedForGood'
  BY <1>0, <1>1 DEF RuntimesInv, EndedForGood, ManagerHasEnded, Holding
<1> QED BY <1>0, <1>3, <1>4, <1>5, <1>6, <1>7 DEF RuntimesInv

\* A user starts to close the supervisor it took out of the entries.
LEMMA CloseSupervisorStep ==
  ASSUME RuntimesInv, NEW u \in Users, CloseSupervisor(u)
  PROVE  RuntimesInv'
<1> DEFINE s == users[u].sup
<1>0. /\ users \in [Users -> UserRecords] /\ users[u].pc = "close"
      /\ s \in Supervisors /\ groupOf[s] \in SessionGroups /\ entries[groupOf[s]] = Null
      /\ manager = u /\ UserAgrees(u) /\ HandAgrees(u)
      /\ CloseBegins(s) /\ Goto(u, "closing")
      /\ UNCHANGED <<connecting, callers, owner, entries, sessions, groupOf, manager, managerClosed>>
  BY DEF RuntimesInv, RuntimesTypeOK, CloseSupervisor, CloseBegins, UserAgrees, HandAgrees, Holding
<1>1. SupervisorInv'
  BY <1>0, CloseBeginsStep DEF RuntimesInv
<1>2. /\ users' \in [Users -> UserRecords]
      /\ users'[u].pc = "closing" /\ users'[u].op = users[u].op /\ users'[u].sup = s
      /\ users'[u].group = users[u].group /\ users'[u].epoch = users[u].epoch
      /\ \A v \in Users : v # u => users'[v] = users[v]
  BY <1>0, GotoFrame DEF UserLabels
<1>3. /\ closing[s].pc = "open"
      /\ \A t \in Supervisors : t # s => closing'[t] = closing[t]
  BY <1>0 DEF CloseBegins, RuntimesInv, SupervisorInv, SupervisorTypeOK
<1>4. RuntimesTypeOK'
  BY <1>0, <1>1, <1>2 DEF RuntimesInv, RuntimesTypeOK, SupervisorInv
<1>5. \A v \in Users : UserAgrees(v)' /\ HandAgrees(v)'
  <2>1. UserAgrees(u)' /\ HandAgrees(u)'
    BY <1>0, <1>2 DEF UserAgrees, HandAgrees, Holding
  <2> QED BY <1>0, <1>2, <2>1, OthersWait
<1>6. \A g \in SessionGroups : EntryAgrees(g)'
  BY <1>0, <1>3 DEF RuntimesInv, RuntimesTypeOK, EntryAgrees
<1>7. \A t \in Supervisors : SupervisorIsKnown(t)'
  <2>1. groupOf[s] # Null
    BY <1>0, RuntimesAssumption
  <2>2. \A t \in Supervisors : InHands(u, t) => InHands(u, t)'
    BY <1>0, <1>2 DEF InHands
  <2> QED BY <1>0, <1>2, <1>3, <2>1, <2>2, KnownStays DEF RuntimesInv
<1>8. EndedForGood'
  BY <1>0, <1>2 DEF RuntimesInv, EndedForGood, ManagerHasEnded, Holding
<1> QED BY <1>1, <1>4, <1>5, <1>6, <1>7, <1>8 DEF RuntimesInv

\* A request asks a supervisor through its session, which is made by then.
LEMMA AskSessionStep ==
  ASSUME RuntimesInv, NEW c \in Callers, NEW g \in SessionGroups, AskSession(c, g)
  PROVE  RuntimesInv'
<1>1. /\ sessions[g] \in Supervisors /\ groupOf[sessions[g]] # Null
      /\ Ask(c, sessions[g]) /\ UNCHANGED managerVars
  BY RuntimesAssumption DEF RuntimesInv, RuntimesTypeOK, EntryAgrees, AskSession
<1>2. SupervisorInv'
  BY <1>1, AskStep DEF RuntimesInv
<1>3. \A d \in Callers : Asking(d)' \in {Asking(d), sessions[g]}
  BY <1>1 DEF Ask, Asking, Idle, RuntimesInv, SupervisorInv, SupervisorTypeOK
<1> QED BY <1>1, <1>2, <1>3, SupervisorMoves DEF Ask, RuntimesInv, SupervisorIsKnown

\* Steps of the supervisors keep the invariant of the manager.
LEMMA SupervisorStepInv ==
  ASSUME RuntimesInv, SupervisorStep
  PROVE  RuntimesInv'
<1>1. SupervisorInv' /\ UNCHANGED managerVars
  BY SupervisorStepKeeps DEF RuntimesInv, SupervisorStep
<1> QED
  BY <1>1, SupervisorStepFrame, SupervisorMoves DEF RuntimesInv, SupervisorIsKnown

\* Steps of the manager's users keep it.
LEMMA ManagerStepInv ==
  ASSUME RuntimesInv, NEW u \in Users, ManagerStep(u)
  PROVE  RuntimesInv'
  BY LockStep, ShutdownStep, SupervisorIsClosedStep, CreateStep, RegisterStep, CloseSupervisorStep
     DEF ManagerStep

\* It reads nothing but the variables of the module.
LEMMA RuntimesStutter ==
  ASSUME RuntimesInv, UNCHANGED runtimesVars
  PROVE  RuntimesInv'
<1>1. SupervisorInv' /\ UNCHANGED <<managerVars, closing, connecting, callers, owner>>
  BY SupervisorStutter DEF runtimesVars, supervisorVars, RuntimesInv
<1> QED BY <1>1, SupervisorMoves DEF RuntimesInv, SupervisorIsKnown, Asking

\* It is inductive.
LEMMA RuntimesStepInv ==
  ASSUME RuntimesInv, [RuntimesNext]_runtimesVars
  PROVE  RuntimesInv'
  BY ManagerStepInv, EnsureStep, CloseRuntimeStep, CloseManagerStep, ValidateStep, AskSessionStep,
     SupervisorStepInv, RuntimesStutter DEF RuntimesNext

\* The first states satisfy it.
LEMMA InitRuntimesInv ==
  ASSUME RuntimesInit
  PROVE  RuntimesInv
<1> USE SupervisorAssumption, RuntimesAssumption, UserOpsAssumption
<1>1. SupervisorInv
  BY InitSupervisorInv DEF RuntimesInit
<1>2. IdleUser \in UserRecords
  BY DEF IdleUser, UserRecords, UserLabels
<1>3. RuntimesTypeOK
  BY <1>1, <1>2 DEF RuntimesInit, RuntimesTypeOK, SupervisorInv
<1>4. \A u \in Users : UserAgrees(u) /\ HandAgrees(u)
  BY DEF RuntimesInit, IdleUser, UserAgrees, HandAgrees, Holding, UserOps
<1>5. \A g \in SessionGroups : EntryAgrees(g)
  BY DEF RuntimesInit, EntryAgrees
<1>6. \A s \in Supervisors : SupervisorIsKnown(s)
  BY DEF RuntimesInit, SupervisorInit, SupervisorIsKnown, Asking, Idle
<1>7. EndedForGood
  BY DEF RuntimesInit, IdleUser, EndedForGood, ManagerHasEnded, UserOps
<1> QED BY <1>1, <1>3, <1>4, <1>5, <1>6, <1>7 DEF RuntimesInv

\* The inductive invariant of the manager holds in every state.
LEMMA RuntimesInvariant == RuntimesSpec => []RuntimesInv
  BY InitRuntimesInv, RuntimesStepInv, PTL DEF RuntimesSpec

\* The manager's state, the sessions and what the manager's callers hold stay well typed
\* (the fields of Manager, workflowruntime/manager.go).
THEOREM RuntimesTypeCorrect == RuntimesSpec => []RuntimesTypeOK
<1>1. RuntimesInv => RuntimesTypeOK
  BY DEF RuntimesInv
<1> QED BY RuntimesInvariant, <1>1, PTL

\* It makes the supervisor of every session one the entries name, or one in the
\* hands of a user.
LEMMA InvMeansRegistered ==
  ASSUME RuntimesInv
  PROVE  EntriesAreRegistered
<1> SUFFICES ASSUME NEW g \in SessionGroups
             PROVE  /\ sessions[g] = IF entries[g] = Null THEN Null ELSE entries[g].sup
                    /\ sessions[g] # Null => ~closed[sessions[g]] /\ groupOf[sessions[g]] = g
  BY DEF EntriesAreRegistered
<1>1. EntryAgrees(g)
  BY DEF RuntimesInv
<1>2. ASSUME entries[g] # Null
      PROVE  ~closed[entries[g].sup]
  <2>1. entries[g].sup \in Supervisors
    BY <1>2 DEF RuntimesInv, RuntimesTypeOK
  <2> QED BY <1>1, <1>2, <2>1 DEF EntryAgrees, RuntimesInv, SupervisorInv, CloseAgrees
<1> QED BY <1>1, <1>2 DEF EntryAgrees

\* Whenever Manager.mu is free the chat service's sessions and the manager's entries name the
\* same supervisors, each open and made for its workflow (EnsureWorkflowRuntime and
\* closeLocked, workflowruntime/manager.go), for any workflows and any number of requests.
THEOREM SessionsAreEntries == RuntimesSpec => []EntriesAreRegistered
  BY RuntimesInvariant, InvMeansRegistered, PTL

\* What DownMeansGone says of a supervisor holds of those the manager makes and closes.
THEOREM RuntimeLeavesNothing == RuntimesSpec => []DownMeansGone
<1>1. RuntimesInv => DownMeansGone
  BY InvMeansGone DEF RuntimesInv
<1> QED BY RuntimesInvariant, <1>1, PTL

-----------------------------------------------------------------------------
(* The manager and its supervisors implement ConnectionSlot                *)

Used == {n \in Connections : owner[n] # Null}

\* A supervisor has at most one open connection, and one that starts another has none
\* but the one it starts.
LEMMA OneOpenEach ==
  ASSUME SupervisorInv, NEW s \in Supervisors
  PROVE  /\ \A n, m \in OpenOf(s) : n = m
         /\ connecting[s] # Null /\ ~Made(connecting[s]) => OpenOf(s) = {}
<1> USE SupervisorAssumption
<1>1. StartAgrees(s) /\ CloseAgrees(s) /\ OneAtATime(s)
  BY DEF SupervisorInv
<1>2. \A n \in OpenOf(s) : n \in open /\ n # Null /\ Holds(s, n)
  BY DEF SupervisorInv, SupervisorTypeOK, OpenOf, Accounted
<1> QED BY <1>1, <1>2 DEF CloseAgrees, OneAtATime, Holds, OpenOf

\* A workflow has at most one supervisor that is not closed.
LEMMA OneSupervisorEach ==
  ASSUME RuntimesInv, NEW s \in Supervisors, NEW t \in Supervisors,
         groupOf[s] # Null, groupOf[t] = groupOf[s],
         closing[s].pc # "closed", closing[t].pc # "closed"
  PROVE  s = t
<1> DEFINE HasEntry(x) == entries[groupOf[x]] # Null /\ entries[groupOf[x]].sup = x
<1>1. /\ HasEntry(s) \/ \E u \in Users : InHands(u, s)
      /\ HasEntry(t) \/ \E u \in Users : InHands(u, t)
  BY DEF RuntimesInv, SupervisorIsKnown
<1>2. \A u \in Users, x \in Supervisors :
        InHands(u, x) => manager = u /\ entries[groupOf[x]] = Null
  BY DEF RuntimesInv, UserAgrees, HandAgrees, InHands, Holding
<1>3. \A u \in Users : InHands(u, s) /\ InHands(u, t) => s = t
  BY DEF InHands
<1> QED BY <1>1, <1>2, <1>3

\* An open connection belongs to a supervisor of some workflow that is not closed.
LEMMA OpenBelongs ==
  ASSUME RuntimesInv, NEW n \in open
  PROVE  /\ n \in Connections /\ owner[n] \in Supervisors
         /\ groupOf[owner[n]] \in SessionGroups /\ closing[owner[n]].pc # "closed"
<1>1. n \in Connections /\ owner[n] \in Supervisors
  BY DEF RuntimesInv, SupervisorInv, SupervisorTypeOK, Accounted
<1>2. groupOf[owner[n]] # Null
  BY <1>1 DEF RuntimesInv, SupervisorIsKnown
<1>3. closing[owner[n]].pc # "closed"
  BY <1>1, InvMeansGone DEF RuntimesInv, DownMeansGone, OpenOf
<1> QED BY <1>1, <1>2, <1>3 DEF RuntimesInv, RuntimesTypeOK

\* A step that leaves connections, owners and groups alone changes nothing the slot
\* sees.
LEMMA StutterOfSlot ==
  ASSUME UNCHANGED <<open, owner, groupOf>>, ManagerHasEnded' <=> ManagerHasEnded
  PROVE  UNCHANGED Slot!slotVars
<1>1. UNCHANGED [g \in SessionGroups |-> OpenOfGroup(g)]
  BY DEF OpenOfGroup
<1>2. UNCHANGED {n \in Connections : owner[n] # Null}
  OBVIOUS
<1>3. UNCHANGED ManagerHasEnded
  BY DEF ManagerHasEnded
<1> QED BY <1>1, <1>2, <1>3 DEF Slot!slotVars

\* A connection that ends is a loss of the slot, or nothing.
LEMMA LoseOfSlot ==
  ASSUME RuntimesInv, NEW n, open' = open \ {n}, UNCHANGED <<owner, groupOf>>,
         ManagerHasEnded' <=> ManagerHasEnded
  PROVE  [Slot!SlotNext]_(Slot!slotVars)
<1>1. UNCHANGED <<Used, ManagerHasEnded>>
  BY DEF Used, ManagerHasEnded
<1>2. CASE n \notin open
  <2>1. UNCHANGED open
    BY <1>2
  <2> QED BY <1>1, <2>1, StutterOfSlot
<1>3. CASE n \in open
  <2> DEFINE g == groupOf[owner[n]]
             up == [h \in SessionGroups |-> OpenOfGroup(h)]
  <2>1. g \in SessionGroups /\ n \in Connections /\ n \in OpenOfGroup(g)
    BY <1>3, OpenBelongs DEF OpenOfGroup
  <2>2. \A h \in SessionGroups :
          OpenOfGroup(h)' = IF h = g THEN OpenOfGroup(g) \ {n} ELSE OpenOfGroup(h)
    BY DEF OpenOfGroup
  <2>3. up' = [up EXCEPT ![g] = @ \ {n}]
    BY <2>1, <2>2
  <2>4. Slot!Lose(g, n)
    BY <1>1, <2>1, <2>3 DEF Slot!Lose, Used
  <2> QED BY <2>1, <2>4 DEF Slot!SlotNext
<1> QED BY <1>2, <1>3

\* A connection that opens is an opening of the slot: no other of its group is open.
LEMMA OpenOfSlot ==
  ASSUME RuntimesInv, NEW c \in Callers, NEW n \in Connections,
         callers[c].pc = "connect", owner[n] = Null,
         owner' = [owner EXCEPT ![n] = Asking(c)], open' = open \cup {n},
         UNCHANGED <<groupOf, users>>
  PROVE  Slot!SlotNext
<1> USE SupervisorAssumption, RuntimesAssumption
<1> DEFINE s == Asking(c)
           g == groupOf[s]
           up == [h \in SessionGroups |-> OpenOfGroup(h)]
<1>1. s \in Supervisors /\ connecting[s] = c /\ connecting[s] # Null /\ ~Made(c)
  BY DEF RuntimesInv, SupervisorInv, CallerAgrees, Starting, Made
<1>2. g # Null /\ g \in SessionGroups /\ closing[s].pc # "closed"
  BY <1>1 DEF RuntimesInv, RuntimesTypeOK, SupervisorIsKnown, SupervisorInv, CloseAgrees
<1>3. ~ManagerHasEnded
  BY <1>1, <1>2 DEF RuntimesInv, SupervisorIsKnown, EndedForGood, InHands
<1>4. OpenOfGroup(g) = {}
  <2> SUFFICES ASSUME NEW m \in OpenOfGroup(g)
               PROVE  FALSE
    OBVIOUS
  <2>1. m \in open /\ groupOf[owner[m]] = g
    BY DEF OpenOfGroup
  <2>2. owner[m] = s
    BY <1>1, <1>2, <2>1, OpenBelongs, OneSupervisorEach
  <2> QED BY <1>1, <2>1, <2>2, OneOpenEach DEF RuntimesInv, OpenOf
<1>5. \A m \in open : owner'[m] = owner[m] /\ m # n
  <2>1. \A m \in open : owner[m] # Null
    BY DEF RuntimesInv, SupervisorInv, Accounted
  <2> QED BY <2>1 DEF RuntimesInv, SupervisorInv, SupervisorTypeOK
<1>6. owner'[n] = s
  BY DEF RuntimesInv, SupervisorInv, SupervisorTypeOK
<1>7. \A h \in SessionGroups : OpenOfGroup(h)' = IF h = g THEN {n} ELSE OpenOfGroup(h)
  <2>1. \A h : OpenOfGroup(h)' = OpenOfGroup(h) \cup (IF h = g THEN {n} ELSE {})
    BY <1>5, <1>6 DEF OpenOfGroup
  <2> QED BY <1>4, <2>1
<1>8. up' = [up EXCEPT ![g] = {n}]
  BY <1>2, <1>7
<1>9. Used' = Used \cup {n} /\ n \notin Used
  <2>1. s # Null
    BY <1>1
  <2> QED BY <2>1 DEF Used, RuntimesInv, SupervisorInv, SupervisorTypeOK
<1>10. UNCHANGED ManagerHasEnded
  BY DEF ManagerHasEnded
<1>11. up[g] = {}
  BY <1>2, <1>4
<1>12. Slot!Open(g, n)
  BY <1>3, <1>8, <1>9, <1>10, <1>11 DEF Slot!Open, Used
<1> QED BY <1>2, <1>12 DEF Slot!SlotNext

\* The manager makes a supervisor: nothing is open of it yet.
LEMMA CreateOfSlot ==
  ASSUME RuntimesInv, NEW s \in Supervisors, groupOf[s] = Null,
         \A t \in Supervisors : t # s => groupOf'[t] = groupOf[t],
         UNCHANGED <<open, owner>>, ManagerHasEnded' <=> ManagerHasEnded
  PROVE  UNCHANGED Slot!slotVars
<1>1. \A n \in open : owner[n] \in Supervisors /\ groupOf[owner[n]] # Null
  BY OpenBelongs, RuntimesAssumption
<1>2. \A n \in open : groupOf'[owner[n]] = groupOf[owner[n]]
  BY <1>1
<1>3. UNCHANGED [g \in SessionGroups |-> OpenOfGroup(g)]
  BY <1>2 DEF OpenOfGroup
<1>4. UNCHANGED ManagerHasEnded
  BY DEF ManagerHasEnded
<1> QED BY <1>3, <1>4 DEF Slot!slotVars

\* Close has taken every entry: all supervisors are closed.
LEMMA EndOfSlot ==
  ASSUME RuntimesInv, RuntimesInv', ManagerHasEnded', UNCHANGED supervisorVars, UNCHANGED groupOf
  PROVE  [Slot!SlotNext]_(Slot!slotVars)
<1>1. open = {}
  <2> SUFFICES ASSUME NEW n \in open
               PROVE  FALSE
    OBVIOUS
  <2>1. /\ owner[n] \in Supervisors /\ groupOf[owner[n]] \in SessionGroups
        /\ closing[owner[n]].pc # "closed"
    BY OpenBelongs
  <2>2. groupOf'[owner[n]] = groupOf[owner[n]] /\ closing'[owner[n]].pc # "closed"
    BY <2>1 DEF supervisorVars
  <2> QED
    BY <2>1, <2>2, RuntimesAssumption DEF RuntimesInv, SupervisorIsKnown, EndedForGood, InHands
<1>2. UNCHANGED <<open, owner, groupOf>>
  BY DEF supervisorVars
<1>3. UNCHANGED [g \in SessionGroups |-> OpenOfGroup(g)] /\ UNCHANGED Used
  BY <1>2 DEF OpenOfGroup, Used
<1>4. \A g \in SessionGroups : [h \in SessionGroups |-> OpenOfGroup(h)][g] = {}
  BY <1>1 DEF OpenOfGroup
<1>5. ManagerHasEnded' = TRUE
  BY DEF ManagerHasEnded
<1>6. Slot!End
  BY <1>3, <1>4, <1>5 DEF Slot!End, Used
<1> QED BY <1>6 DEF Slot!SlotNext

\* The end of the manager is a matter of the users that call Close.
LEMMA EndedStays ==
  ASSUME NEW u \in Users, \A v \in Users : v # u => users'[v] = users[v],
         ~(users[u].op = "Close" /\ users[u].pc = "done"),
         ~(users'[u].op = "Close" /\ users'[u].pc = "done")
  PROVE  ManagerHasEnded' <=> ManagerHasEnded
  BY DEF ManagerHasEnded

\* Steps of the manager that only move its own state stutter.
LEMMA UserStepOfSlot ==
  ASSUME RuntimesInv, NEW u \in Users, UNCHANGED supervisorVars,
         \/ \E g \in SessionGroups, e \in Epochs : EnsureWorkflowRuntime(u, g, e)
         \/ \E g \in SessionGroups : CloseWorkflowRuntime(u, g)
         \/ CloseManager(u)
         \/ \E found \in BOOLEAN : ValidateRuntimeWorkspace(u, found)
         \/ Lock(u)
         \/ SupervisorIsClosed(u)
         \/ Register(u)
  PROVE  UNCHANGED Slot!slotVars
<1>1. users \in [Users -> UserRecords] /\ UserAgrees(u)
  BY DEF RuntimesInv, RuntimesTypeOK
<1>2. UNCHANGED <<open, owner, groupOf>>
  BY DEF supervisorVars, EnsureWorkflowRuntime, CloseWorkflowRuntime, CloseManager,
     ValidateRuntimeWorkspace, Lock, SupervisorIsClosed, Register
<1>3. ManagerHasEnded' <=> ManagerHasEnded
  <2>1. CASE \/ \E g \in SessionGroups, e \in Epochs : EnsureWorkflowRuntime(u, g, e)
             \/ \E g \in SessionGroups : CloseWorkflowRuntime(u, g)
             \/ CloseManager(u)
    BY <1>1, <2>1, EndedStays DEF EnsureWorkflowRuntime, CloseWorkflowRuntime, CloseManager, IdleUser
  <2>2. ASSUME NEW found \in BOOLEAN, ValidateRuntimeWorkspace(u, found)
        PROVE  ManagerHasEnded' <=> ManagerHasEnded
    BY <1>1, <2>2, EndedStays DEF ValidateRuntimeWorkspace, UserAgrees, UserRecords
  <2>3. CASE Lock(u)
    BY <1>1, <2>3, EndedStays DEF Lock, Leave, Goto, TakeEntry, UserRecords
  <2>4. CASE SupervisorIsClosed(u)
    BY <1>1, <2>4, EndedStays DEF SupervisorIsClosed, Leave, Goto, UserRecords, UserAgrees, UserOps
  <2>5. CASE Register(u)
    BY <1>1, <2>5, EndedStays DEF Register, Leave, UserRecords, UserAgrees
  <2> QED BY <2>1, <2>2, <2>3, <2>4, <2>5
<1> QED BY <1>2, <1>3, StutterOfSlot

\* Every step of a user of the manager is a step of the slot, or a stutter.
LEMMA ManagerStepOfSlot ==
  ASSUME RuntimesInv, RuntimesInv', NEW u \in Users, ManagerStep(u)
  PROVE  [Slot!SlotNext]_(Slot!slotVars)
<1>1. users \in [Users -> UserRecords] /\ UserAgrees(u)
  BY DEF RuntimesInv, RuntimesTypeOK
<1>2. CASE (Lock(u) \/ SupervisorIsClosed(u) \/ Register(u)) /\ UNCHANGED supervisorVars
  BY <1>2, UserStepOfSlot
<1>3. CASE Create(u) /\ UNCHANGED supervisorVars
  <2>1. ManagerHasEnded' <=> ManagerHasEnded
    BY <1>1, <1>3, EndedStays DEF Create, Leave, UserRecords, UserAgrees
  <2>2. CASE \E s \in Supervisors :
               groupOf[s] = Null /\ groupOf' = [groupOf EXCEPT ![s] = users[u].group]
    BY <1>3, <2>1, <2>2, CreateOfSlot DEF supervisorVars, RuntimesInv, RuntimesTypeOK
  <2>3. CASE UNCHANGED groupOf
    BY <1>3, <2>1, <2>3, StutterOfSlot DEF supervisorVars
  <2> QED BY <1>3, <2>2, <2>3 DEF Create
<1>4. CASE Shutdown(u) /\ UNCHANGED supervisorVars
  <2>1. CASE \E g \in SessionGroups : TakeEntry(u, g)
    <3>1. ManagerHasEnded' <=> ManagerHasEnded
      BY <1>1, <1>4, <2>1, EndedStays, ZenonT(30) DEF Shutdown, TakeEntry, UserRecords
    <3> QED BY <1>4, <3>1, StutterOfSlot DEF Shutdown, supervisorVars
  <2>2. CASE Leave(u, TRUE)
    <3>1. ManagerHasEnded'
      BY <1>1, <1>4, <2>2 DEF Shutdown, Leave, UserAgrees, UserRecords, ManagerHasEnded
    <3> QED BY <1>4, <3>1, EndOfSlot DEF Shutdown
  <2> QED BY <1>4, <2>1, <2>2 DEF Shutdown
<1>5. CASE CloseSupervisor(u)
  <2>1. ManagerHasEnded' <=> ManagerHasEnded
    BY <1>1, <1>5, EndedStays DEF CloseSupervisor, Goto, UserRecords
  <2> QED BY <1>5, <2>1, StutterOfSlot DEF CloseSupervisor, CloseBegins
<1> QED BY <1>2, <1>3, <1>4, <1>5 DEF ManagerStep

\* Every step of a supervisor is a step of the slot, or a stutter.
LEMMA SupervisorStepOfSlot ==
  ASSUME RuntimesInv, SupervisorStep
  PROVE  [Slot!SlotNext]_(Slot!slotVars)
<1>1. UNCHANGED <<groupOf, users>>
  BY DEF SupervisorStep, managerVars
<1>2. ManagerHasEnded' <=> ManagerHasEnded
  BY <1>1 DEF ManagerHasEnded
<1>3. ASSUME NEW c \in Callers, CallerStep(c)
      PROVE  [Slot!SlotNext]_(Slot!slotVars)
  <2>1. CASE Enter(c) \/ Finish(c) \/ TakeOffer(c) \/ StopWaiting(c)
    BY <1>1, <1>2, <2>1, StutterOfSlot DEF Enter, Finish, TakeOffer, StopWaiting
  <2>2. CASE StartProcess(c)
    <3>1. CASE UNCHANGED <<owner, open>>
      BY <1>1, <1>2, <3>1, StutterOfSlot
    <3>2. ASSUME NEW n \in Connections, owner[n] = Null,
                 owner' = [owner EXCEPT ![n] = Asking(c)], open' = open \cup {n}
          PROVE  Slot!SlotNext
      BY <1>1, <2>2, <3>2, OpenOfSlot DEF StartProcess
    <3> QED BY <2>2, <3>1, <3>2 DEF StartProcess
  <2>3. CASE Initialize(c)
    <3>1. CASE UNCHANGED open
      BY <1>1, <1>2, <2>3, <3>1, StutterOfSlot DEF Initialize
    <3>2. CASE open' = open \ {callers[c].result}
      BY <1>1, <1>2, <2>3, <3>2, LoseOfSlot DEF Initialize
    <3> QED BY <2>3, <3>1, <3>2 DEF Initialize
  <2>4. CASE Discard(c)
    BY <1>1, <1>2, <2>4, LoseOfSlot DEF Discard
  <2> QED BY <1>3, <2>1, <2>2, <2>3, <2>4 DEF CallerStep
<1>4. ASSUME NEW s \in Supervisors, CloseStep(s)
      PROVE  [Slot!SlotNext]_(Slot!slotVars)
  <2>1. CASE CloseConnection(s)
    BY <1>1, <1>2, <2>1, LoseOfSlot DEF CloseConnection
  <2>2. CASE CloseEnds(s)
    BY <1>1, <1>2, <2>2, StutterOfSlot DEF CloseEnds
  <2> QED BY <1>4, <2>1, <2>2 DEF CloseStep
<1>5. CASE SupervisorEnvironment
  <2>1. ASSUME NEW n \in Connections, ConnectionIsLost(n)
        PROVE  [Slot!SlotNext]_(Slot!slotVars)
    BY <1>1, <1>2, <2>1, LoseOfSlot DEF ConnectionIsLost
  <2>2. CASE \/ \E s \in Supervisors : CooldownEnds(s)
             \/ \E c \in Callers : ContextExpires(c)
    BY <1>1, <1>2, <2>2, StutterOfSlot DEF CooldownEnds, ContextExpires
  <2> QED BY <1>5, <2>1, <2>2 DEF SupervisorEnvironment
<1> QED BY <1>3, <1>4, <1>5 DEF SupervisorStep

\* To ask for a session changes nothing the slot sees.
LEMMA AskOfSlot ==
  ASSUME NEW c \in Callers, NEW g \in SessionGroups, AskSession(c, g)
  PROVE  UNCHANGED Slot!slotVars
<1>1. UNCHANGED <<open, owner, groupOf, users>>
  BY DEF AskSession, Ask, managerVars
<1> QED BY <1>1, StutterOfSlot DEF ManagerHasEnded

\* Every step of the manager and its supervisors is a step of the slot, or a stutter.
LEMMA RuntimesStepOfSlot ==
  ASSUME RuntimesInv, RuntimesInv', [RuntimesNext]_runtimesVars
  PROVE  [Slot!SlotNext]_(Slot!slotVars)
<1>1. CASE UNCHANGED runtimesVars
  <2>1. UNCHANGED <<open, owner, groupOf, users>>
    BY <1>1 DEF runtimesVars, supervisorVars, managerVars
  <2> QED BY <2>1, StutterOfSlot DEF ManagerHasEnded
<1>2. CASE RuntimesNext
  BY <1>2, ManagerStepOfSlot, UserStepOfSlot, AskOfSlot, SupervisorStepOfSlot DEF RuntimesNext
<1> QED BY <1>1, <1>2

\* The first states are first states of the slot.
LEMMA InitOfSlot ==
  ASSUME RuntimesInit
  PROVE  Slot!SlotInit
<1>1. [g \in SessionGroups |-> OpenOfGroup(g)] = [g \in SessionGroups |-> {}]
  BY DEF RuntimesInit, SupervisorInit, OpenOfGroup
<1>2. {n \in Connections : owner[n] # Null} = {}
  BY DEF RuntimesInit, SupervisorInit
<1>3. ManagerHasEnded = FALSE
  BY UserOpsAssumption DEF RuntimesInit, IdleUser, ManagerHasEnded, UserOps
<1> QED BY <1>1, <1>2, <1>3 DEF Slot!SlotInit

\* A workflow never has two app servers, not even while its runtime is replaced or when a
\* start outlives the supervisor that began it, and none once Close has returned
\* (EnsureWorkflowRuntime, CloseWorkflowRuntime and Close, workflowruntime/manager.go, on
\* appserver/supervisor.go): the manager and its supervisors implement ConnectionSlot.
THEOREM OneAppServer == RuntimesSpec => OneAppServerPerWorkflow
<1>1. RuntimesInit => Slot!SlotInit
  BY InitOfSlot
<1>2. RuntimesInv /\ RuntimesInv' /\ [RuntimesNext]_runtimesVars
      => [Slot!SlotNext]_(Slot!slotVars)
  BY RuntimesStepOfSlot
<1> QED
  BY <1>1, <1>2, RuntimesInvariant, PTL DEF RuntimesSpec, OneAppServerPerWorkflow, Slot!SlotSpec
=============================================================================
