--------------------------- MODULE MCChatRuntime ---------------------------
(***************************************************************************)
(* ChatRuntime for TLC.  Each behaviour follows one scenario: the commands *)
(* of three concurrent clients, and whether the app server may restart or  *)
(* send a request of its own and whether time passes.                      *)
(***************************************************************************)
EXTENDS ChatRuntime, TLC

CONSTANTS c1, c2, t1, t2, p1, k1, k2, k3, m1, m2, m3, h1, h2, h3

VARIABLE scenario

mcVars == <<runtimeVars, scenario>>

MCChats    == {c1, c2}
MCTurns    == {t1, t2}
MCKeys     == {k1, k2, k3}
MCMessages == {m1, m2, m3}
MCPendingIds == {p1}
MCHandlers   == {h1, h2, h3}
MCInitialChats  == {c1}
MCRuns          == MCTurns \cup {ProvisionalRunID(k) : k \in MCKeys}
MCSubscriberIds == {}
MCEventSizes    == {1}
MCEventKinds    == Deltas \cup Statuses \cup Terminals \cup Creations \cup Resolutions

Start(m, k)  == [op |-> "StartChatRun", chat |-> Null, run |-> Null, request |-> Null,
                 message |-> m, key |-> k]
Run(c, m, k) == [op |-> "RunChatTurn", chat |-> c, run |-> Null, request |-> Null,
                 message |-> m, key |-> k]
Interrupt(m, k) == [op |-> "InterruptChatRun", chat |-> c1, run |-> t1, request |-> Null,
                    message |-> m, key |-> k]
Respond(m, k)   == [op |-> "RespondChatPending", chat |-> c1, run |-> Null,
                    request |-> p1, message |-> m, key |-> k]
Look            == [op |-> "GetChatStatus", chat |-> c1, run |-> Null, request |-> Null,
                    message |-> Null, key |-> Null]

NoCommand == [op |-> "Idle", chat |-> Null, run |-> Null, request |-> Null,
         message |-> Null, key |-> Null]

Clients(a, b, c) == (h1 :> a) @@ (h2 :> b) @@ (h3 :> c)

Scenarios == {
  \* Reservations and a run compete for the capacity of two; no turn is started.
  [id |-> "capacity", clients |-> Clients(Start(m1, k1), Start(m2, k2), Run(c1, m3, k3)),
   with |-> {"no turns"}],
  \* Somebody uses the chat before the run that created it is installed.
  [id |-> "start", clients |-> Clients(Start(m1, k1), Run(c2, m2, k2), NoCommand),
   with |-> {}],
  [id |-> "start again", clients |-> Clients(Start(m1, k1), Start(m1, k1), NoCommand),
   with |-> {"restart"}],
  \* RunChatTurn is repeated while the status of the chat is read.
  [id |-> "turn again", clients |-> Clients(Run(c1, m1, k1), Run(c1, m1, k1), Look),
   with |-> {"restart"}],
  [id |-> "two turns", clients |-> Clients(Run(c1, m1, k1), Run(c1, m2, k2), NoCommand),
   with |-> {}],
  [id |-> "interrupts",
   clients |-> Clients(Run(c1, m1, k1), Interrupt(m2, k2), Interrupt(m3, k3)), with |-> {}],
  \* Responses to a request, which may expire or lose its connection.
  [id |-> "two responses",
   clients |-> Clients(Run(c1, m1, k1), Respond(m2, k2), Respond(m3, k3)), with |-> {"ask"}],
  [id |-> "late response",
   clients |-> Clients(Run(c1, m1, k1), Respond(m2, k2), NoCommand), with |-> {"ask", "time"}],
  [id |-> "lost response",
   clients |-> Clients(Run(c1, m1, k1), Respond(m2, k2), NoCommand), with |-> {"ask", "restart"}],
  [id |-> "response, interrupt",
   clients |-> Clients(Run(c1, m1, k1), Respond(m2, k2), Interrupt(m3, k3)),
   with |-> {"ask"}]}

MCAssignments == {s.clients : s \in Scenarios}
MCOperations  == UNION {{ScopedOperation(f[h]) : h \in MCHandlers} : f \in MCAssignments}

MCInit == /\ RuntimeInit
          /\ scenario \in Scenarios
          /\ \A h \in Handlers : handlers[h].cmd = scenario.clients[h]

MCNext ==
  /\ \/ \E h \in Handlers : HandlerStep(h)
     \/ ConsumerStep
     \/ "no turns" \notin scenario.with /\ CodexStep
     \/ "ask" \in scenario.with /\ (HookStep \/ CodexAsks)
     \/ "restart" \in scenario.with /\ CodexRestarts
     \/ /\ "time" \in scenario.with
        /\ \E k \in PendingKeys : pending[k] # Null
        /\ TimePasses
  /\ UNCHANGED scenario

MCSpec == MCInit /\ [][MCNext]_mcVars /\ RuntimeFairness
=============================================================================
