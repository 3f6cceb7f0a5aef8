-------------------------------- MODULE MCTasks --------------------------------
(***************************************************************************)
(* Tasks for TLC: a few requests about two tasks in scenarios that mix     *)
(* starts, interrupts, requests of the app server and their answers, each  *)
(* with the failures it is about.                                          *)
(***************************************************************************)
EXTENDS TaskStreams

CONSTANT ChosenScenarios   \* the ids of the scenarios of a run
CONSTANTS t1, t2, k1, k2, c1, c2, c3, c4, i1, i2, r1, r2, r3, s1, q1, q2, q3, x, y, n1, n2

VARIABLE scenario

mcVars == <<allVars, scenario>>

MCTaskIds      == {t1, t2}
MCKeys         == {k1, k2}
MCClients      == {c1, c2, c3, c4}
MCInterrupters == {i1, i2}
MCResponders   == {r1, r2, r3}
MCRequests     == {q1, q2, q3}
MCResponseIDs  == {x, y}
MCConnections  == {n1, n2}
MCStreams      == {s1}
MCCursors      == {[from |-> "start", id |-> 0], [from |-> "after", id |-> 3]}

\* c3 repeats the request of c1; c4 names a thread.
MCCommands == [c \in MCClients |-> [key |-> IF c \in {c1, c3} THEN k1 ELSE k2, resumes |-> c = c4]]
MCTargets == [i \in MCInterrupters |-> k1]
\* r2 repeats the answer of r1.
MCAnswers == [r \in MCResponders |-> <<q1, IF r = r3 THEN y ELSE x>>]

Scenarios == {
  [id |-> "start", who |-> {c1, c3}, with |-> {"announced", "lost", "retention"}],
  [id |-> "resume", who |-> {c4, c1, i1}, with |-> {}],
  [id |-> "interrupt", who |-> {c1, i1, i2}, with |-> {"announced", "lost"}],
  [id |-> "auth", who |-> {c1, i1, q1}, with |-> {"auth", "unsupported"}],
  [id |-> "two tasks", who |-> {c1, c2}, with |-> {"auth"}],
  [id |-> "requests", who |-> {c1, i1, q1, q2}, with |-> {"withdraw"}],
  [id |-> "answers", who |-> {c1, q1, r1, r2, r3}, with |-> {"withdraw", "lost"}],
  [id |-> "forgotten", who |-> {c1, q1, r1, r2}, with |-> {"withdraw", "retention"}],
  [id |-> "limit", who |-> {c1, q1, q2, q3}, with |-> {"lost"}],
  [id |-> "stream", who |-> {c1, i1, s1}, with |-> {"auth"}]}

MCInit ==
  /\ TasksInit /\ StreamsInit
  /\ scenario \in {s \in Scenarios : s.id \in ChosenScenarios}

With(what) == what \in scenario.with
Who(set) == set \cap scenario.who

Environment ==
  \/ With("lost") /\ \E n \in Connections : Elsewhere(ConnectionIsLost(n))
  \/ With("announced") /\ \E t \in Tasks : Elsewhere(CodexStartsThread(t))
  \/ With("auth") /\ Refreshes
  \/ With("unsupported") /\ Warns
  \/ With("retention") /\ Elsewhere(GetTaskStatus \/ \E t \in Tasks : RetentionEnds(t))
  \/ With("withdraw") /\ \E q \in Requests : Elsewhere(CodexWithdraws(q))

\* Calls run out of time where connections may be lost; tasks and connections are used in
\* order; a stream is opened once there is a thread, and read until it is closed.
Permitted ==
  /\ With("lost") \/ \A n \in Connections : link'[n] = "closed" => link[n] = "closed"
  /\ starters'[t2].pc # "none" => starters'[t1].pc # "none"
  /\ link'[n2] # "new" => link'[n1] # "new"
  /\ \A s \in Streams : /\ streams'[s].pc # "new" => tasks[t1] # Null /\ tasks[t1].thread
                        /\ streams'[s].pc = "done" /\ streams[s].pc = "open" => streams[s].closed

MCNext ==
  /\ \/ \E c \in Who(Clients) : Elsewhere(ClaimStart(c))
     \/ \E t \in Tasks : Start(t)
     \/ \E i \in Who(Interrupters) : InterruptBegins(i) \/ InterruptGoesOn(i)
     \/ \E n \in Connections : Monitors(n)
     \/ \E r \in Who(Responders) : Claims(r) \/ Answering(r)
     \/ \E s \in Who(Streams) : StreamTask(s) \/ NextMessage(s) \/ StreamEnds(s)
     \/ \E g \in Goroutines : Publish(g)
     \/ \E t \in Tasks : Elsewhere(CodexStartsTurn(t) \/ CodexEndsTurn(t))
     \/ \E t \in Tasks, q \in Who(Requests) : Elsewhere(CodexAsks(q, t))
     \/ Environment
  /\ Permitted
  /\ UNCHANGED scenario

MCSpec == MCInit /\ [][MCNext]_mcVars /\ StreamsFairness
=============================================================================
