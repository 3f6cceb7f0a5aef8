---------------------------- MODULE MCChatStream ----------------------------
(***************************************************************************)
(* ChatStream for TLC: one or two streams, a queue and a replay buffer     *)
(* that are too small, and the liveness of the handlers of ChatRuntime in  *)
(* scenarios without streams.  A quiet scenario has no deltas, to leave    *)
(* room for a second stream or a second client.                            *)
(***************************************************************************)
EXTENDS ChatStream, TLC

CONSTANT ChosenScenarios   \* the ids of the scenarios of a run
CONSTANTS c1, c2, t1, t2, p1, k1, k2, m1, m2, h1, h2, i1, i2

VARIABLE scenario

mcVars == <<streamVars, scenario>>

MCChats    == {c1, c2}
MCTurns    == {t1, t2}
MCKeys     == {k1, k2}
MCMessages == {m1, m2}
MCPendingIds    == {p1}
MCHandlers      == {h1, h2}
MCInitialChats  == {c1}
MCFollowedChats == {c1}
MCRuns          == MCTurns \cup {ProvisionalRunID(k) : k \in MCKeys}
MCSubscriberIds == {i1, i2}
MCEventSizes    == {1}
MCEventKinds    == Deltas \cup Statuses \cup Terminals \cup Creations \cup Resolutions

Start(m, k) == [op |-> "StartChatRun", chat |-> Null, run |-> Null, request |-> Null,
                message |-> m, key |-> k]
Run(m, k)   == [op |-> "RunChatTurn", chat |-> c1, run |-> Null, request |-> Null,
                message |-> m, key |-> k]
Respond(m, k) == [op |-> "RespondChatPending", chat |-> c1, run |-> Null,
                  request |-> p1, message |-> m, key |-> k]
Look        == [op |-> "GetChatStatus", chat |-> c1, run |-> Null, request |-> Null,
                message |-> Null, key |-> Null]
NoCommand   == [op |-> "Idle", chat |-> Null, run |-> Null, request |-> Null,
                message |-> Null, key |-> Null]

Clients(a, b) == (h1 :> a) @@ (h2 :> b)

Scenarios == {
  [id |-> "one run", clients |-> Clients(Run(m1, k1), NoCommand),
   streams |-> {i1}, with |-> {"cursors", "cancel"}],
  [id |-> "two streams", clients |-> Clients(Run(m1, k1), NoCommand),
   streams |-> {i1, i2}, with |-> {"quiet"}],
  [id |-> "status", clients |-> Clients(Run(m1, k1), Look),
   streams |-> {i1}, with |-> {"quiet"}],
  [id |-> "start", clients |-> Clients(Start(m1, k1), NoCommand),
   streams |-> {}, with |-> {"restart"}],
  [id |-> "respond", clients |-> Clients(Run(m1, k1), Respond(m2, k2)),
   streams |-> {}, with |-> {"ask"}]}

MCAssignments == {s.clients : s \in Scenarios}
MCOperations  == UNION {{ScopedOperation(f[h]) : h \in MCHandlers} : f \in MCAssignments}

MCInit == /\ StreamInit
          /\ scenario \in {s \in Scenarios : s.id \in ChosenScenarios}
          /\ \A h \in Handlers : handlers[h].cmd = scenario.clients[h]

MCNext ==
  /\ \/ /\ \/ \E h \in Handlers : HandlerStep(h)
           \/ ConsumerStep
           \/ CodexStep
           \/ "ask" \in scenario.with /\ (HookStep \/ CodexAsks)
           \/ "restart" \in scenario.with /\ CodexRestarts
        /\ UNCHANGED streams
     \/ \E i \in scenario.streams :
          \/ OpenStream(i) /\ ("cursors" \in scenario.with \/ streams'[i].after = 0)
          \/ Serve(i)
          \/ "cancel" \in scenario.with /\ CancelStream(i)
  /\ "quiet" \notin scenario.with \/ \A t \in Turns : turns'[t] # Null => turns'[t].deltas = 0
  /\ UNCHANGED scenario

MCSpec == MCInit /\ [][MCNext]_mcVars /\ RuntimeFairness /\ StreamFairness
=============================================================================
