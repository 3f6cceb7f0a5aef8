------------------------------ MODULE MCWorkflow ------------------------------
(***************************************************************************)
(* Workflow for TLC: three requests about one workflow in scenarios that   *)
(* mix updates, restarts and deletions with turns, each with the failures  *)
(* it is about.                                                            *)
(***************************************************************************)
EXTENDS Workflow, TLC

CONSTANT ChosenScenarios   \* the ids of the scenarios of a run
CONSTANTS W, v1, v2, v3, s1, s2, n1, n2, h1, h2, h3

VARIABLE scenario

mcVars == <<workflowVars, scenario>>

MCSessionGroups == {W}
MCPackages      == {v1, v2, v3}
MCSupervisors   == {s1, s2}
MCConnections   == {n1, n2}
MCHandlers      == {h1, h2, h3}
MCEpochs        == 1..3

\* v3 differs from v1 in its references, from v2 in its MCP servers.
MCUpdateKind ==
  [pair \in MCPackages \X MCPackages |->
     CASE pair = <<v1, v3>> -> "hot" [] pair = <<v2, v3>> -> "mcp" [] OTHER -> "restart"]

Request(op) == [op |-> op, pkg |-> Null, reload |-> FALSE, force |-> FALSE,
                cleanup |-> FALSE, remove |-> FALSE, run |-> Null]
Update(pkg) == [Request("InitWorkflow") EXCEPT !.pkg = pkg, !.reload = TRUE]
Restart == Request("RestartWorkflow")
Forced(command) == [command EXCEPT !.force = TRUE]
Delete == [Request("DeleteWorkflow") EXCEPT !.cleanup = TRUE, !.remove = TRUE]
Forget == Request("DeleteWorkflow")
Start == Request("StartWorkflowChatRun")
Turn == Request("RunWorkflowChatTurn")
Follow(run) == [Request("StreamWorkflowChatEvents") EXCEPT !.run = run]
Interrupt(run) == [Request("InterruptWorkflowChatRun") EXCEPT !.run = run]
Close == Request("Close")

Requests(a, b, c) == (h1 :> a) @@ (h2 :> b) @@ (h3 :> c)

Scenarios == {
  [id |-> "update", requests |-> Requests(Start, Update(v2), Restart),
   installed |-> v1, with |-> {}],
  [id |-> "hot update", requests |-> Requests(Start, Update(v3), Interrupt(h1)),
   installed |-> v1, with |-> {"lost"}],
  [id |-> "reload", requests |-> Requests(Update(v3), Restart, Start),
   installed |-> v2, with |-> {}],
  [id |-> "failures", requests |-> Requests(Update(v2), Restart, Update(v3)),
   installed |-> v1, with |-> {"faults"}],
  [id |-> "failed deletion", requests |-> Requests(Update(v3), Delete, Update(v1)),
   installed |-> v2, with |-> {"faults"}],
  [id |-> "first", requests |-> Requests(Update(v1), Update(v3), Update(v2)),
   installed |-> Absent, with |-> {"crash"}],
  [id |-> "crash", requests |-> Requests(Update(v2), Restart, Update(v3)),
   installed |-> v1, with |-> {"crash"}],
  [id |-> "force", requests |-> Requests(Start, Forced(Restart), Turn),
   installed |-> v1, with |-> {}],
  [id |-> "follow", requests |-> Requests(Start, Follow(h1), Restart),
   installed |-> v1, with |-> {}],
  [id |-> "delete", requests |-> Requests(Start, Delete, Update(v1)),
   installed |-> v1, with |-> {}],
  [id |-> "forced delete", requests |-> Requests(Start, Forced(Forget), Restart),
   installed |-> v1, with |-> {}],
  [id |-> "close", requests |-> Requests(Start, Start, Close),
   installed |-> v1, with |-> {"lost", "expire"}],
  [id |-> "backoff", requests |-> Requests(Start, Start, Start),
   installed |-> v1, with |-> {"failed starts"}]}

MCAssignments == {s.requests : s \in Scenarios}

MCInit ==
  /\ scenario \in {s \in Scenarios : s.id \in ChosenScenarios}
  /\ IF scenario.installed = Absent THEN WorkflowInit
                                    ELSE WorkflowInstalled(scenario.installed)
  /\ \A h \in Handlers : handlers[h].cmd = scenario.requests[h]

RestVars == <<storageVars, serviceVars>>
With(what) == what \in scenario.with

Environment ==
  \/ With("lost") /\ \E n \in Connections : ConnectionIsLost(n)
  \/ With("expire") /\ \E h \in Handlers : ContextExpires(h)
  \/ With("failed starts") /\ \E s \in Supervisors : CooldownEnds(s)

\* What may happen in a scenario; supervisors and connections are made in order.
Permitted ==
  /\ With("faults") \/ With("crash") \/ faults' = faults
  /\ With("failed starts") \/ \A h \in Handlers : callers'[h].result # "failed"
  /\ groupOf'[s2] # Null => groupOf'[s1] # Null
  /\ owner'[n2] # Null => owner'[n1] # Null

MCNext ==
  /\ \/ \E h \in Handlers : HandlerStep(h) \/ PollExpires(h)
     \/ \E h \in Handlers : ManagerStep(h) /\ UNCHANGED RestVars
     \/ /\ \/ \E h \in Handlers : CallerStep(h)
           \/ \E s \in Supervisors : CloseStep(s)
           \/ Environment
        /\ UNCHANGED <<managerVars, RestVars>>
     \/ StorageStep /\ UNCHANGED <<runtimesVars, serviceVars>>
     \/ \E h \in Handlers : TurnEnds(h)
     \/ With("crash") /\ GatewayStops
  /\ Permitted
  /\ UNCHANGED scenario

MCSpec == MCInit /\ [][MCNext]_mcVars /\ WorkflowFairness
=============================================================================
