---------------------------- MODULE MCDispatcher ----------------------------
(***************************************************************************)
(* Dispatcher for TLC.  A scenario names the calls and the server requests *)
(* of a behaviour; every channel has a capacity of one.                    *)
(***************************************************************************)
EXTENDS Dispatcher, TLC

CONSTANTS s1, s2, s3, s4, s5, s6, s7, t1, t2, q1, q2, q3, q4, g1, g2

VARIABLE scenario

mcVars == <<vars, scenario>>

MCCalls == {s1, s2, s3, s4, s5, s6, s7}
MCThreads == {t1, t2}
MCServerRequests == {q1, q2, q3, q4}
MCResponders == {g1, g2}
MCMethodOf ==
  s1 :> "turn/start" @@ s2 :> "turn/start" @@ s3 :> "thread/start"
  @@ s4 :> "thread/start"
  @@ s5 :> "thread/resume" @@ s6 :> "thread/read" @@ s7 :> "send turn/interrupt"
MCThreadOf ==
  s1 :> t1 @@ s2 :> t2 @@ s3 :> Null @@ s4 :> Null @@ s5 :> t1 @@ s6 :> t1 @@ s7 :> t1
MCKindOf == q1 :> "pending" @@ q2 :> "pending" @@ q3 :> "unsupported" @@ q4 :> "refresh"

Scenarios == {
  [id |-> "two turns", calls |-> {s1, s2}, requests |-> {}, with |-> {}],
  [id |-> "resume", calls |-> {s5}, requests |-> {},
   with |-> {"conflict", "error", "exit", "close"}],
  [id |-> "read and interrupt", calls |-> {s6, s7}, requests |-> {},
   with |-> {"error", "exit", "close"}],
  [id |-> "requests", calls |-> {}, requests |-> {q1, q2}, with |-> {"close"}],
  [id |-> "request", calls |-> {}, requests |-> {q1}, with |-> {"race", "exit"}],
  [id |-> "own requests", calls |-> {}, requests |-> {q3, q4}, with |-> {"close"}],
  [id |-> "start", calls |-> {s3}, requests |-> {}, with |-> {"conflict"}],
  [id |-> "two starts", calls |-> {s3, s4}, requests |-> {}, with |-> {}]}

MCInit == Init /\ scenario \in Scenarios

MCNext ==
  /\ scenario' = scenario
  /\ Next
  /\ \A c \in Calls \ scenario.calls : calls'[c].pc = "idle"
  /\ asked' \subseteq scenario.requests
  /\ "exit" \in scenario.with \/ alive'
  /\ "close" \in scenario.with \/ ~CloseConnection
  /\ "conflict" \in scenario.with \/ conflicting' = {}
  /\ "race" \in scenario.with \/ workers'[g2].pc = "idle"
  /\ "error" \in scenario.with \/ \A j \in DOMAIN stdout' :
       stdout'[j].type = "response" => ~stdout'[j].failed

MCSpec == MCInit /\ [][MCNext]_mcVars /\ Fairness
=============================================================================
