--------------------------- MODULE WorkflowRuntimes ---------------------------
(***************************************************************************)
(* The manager of workflow runtimes                                        *)
(* (gateway/internal/workflowruntime/manager.go): one supervisor per       *)
(* session group, replaced when a launch asks for another process epoch,   *)
(* and the sessions it registers with the chat service, through which      *)
(* requests reach the supervisor.                                          *)
(*                                                                         *)
(* The manager holds its mutex for all of an operation, which includes     *)
(* waiting until the supervisor it closes has ended a start in progress.   *)
(* A user is a goroutine that performs one operation.  What makes a launch *)
(* valid but for the workspace's config file is not modelled, and closing  *)
(* a supervisor succeeds.                                                  *)
(***************************************************************************)
EXTENDS Supervisor

CONSTANTS
  SessionGroups,
  Users,          \* goroutines that call the manager
  Epochs          \* process epochs that launches name

ASSUME RuntimesAssumption ==
  /\ Null \notin Users \cup SessionGroups \cup Epochs
  /\ Null \notin [epoch : Epochs, sup : Supervisors]

VARIABLES
  entries,        \* session group -> its entry: process epoch and supervisor
  sessions,       \* chatruntime's sessions: session group -> supervisor
  groupOf,        \* supervisor -> the session group it was made for
  manager,        \* the user that holds Manager.mu
  managerClosed,
  users           \* user -> where its operation is

managerVars == <<entries, sessions, groupOf, manager, managerClosed, users>>
runtimesVars == <<supervisorVars, managerVars>>
-----------------------------------------------------------------------------
UserLabels == {"idle", "validate", "lock", "close", "closing", "create", "register",
               "shutdown", "done"}
UserOps == {"EnsureWorkflowRuntime", "CloseWorkflowRuntime", "Close"}
UserRecords == [pc : UserLabels, op : UserOps \cup {Null}, group : SessionGroups \cup {Null},
                epoch : Epochs \cup {Null}, sup : Supervisors \cup {Null}, ok : BOOLEAN]

ASSUME UserOpsAssumption == Null \notin UserOps

IdleUser == [pc |-> "idle", op |-> Null, group |-> Null, epoch |-> Null, sup |-> Null,
             ok |-> FALSE]

RuntimesInit ==
  /\ SupervisorInit
  /\ entries = [g \in SessionGroups |-> Null]
  /\ sessions = [g \in SessionGroups |-> Null]
  /\ groupOf = [s \in Supervisors |-> Null]
  /\ manager = Null
  /\ managerClosed = FALSE
  /\ users = [u \in Users |-> IdleUser]

Goto(u, pc) == users' = [users EXCEPT ![u].pc = pc]
Leave(u, ok) == /\ users' = [users EXCEPT ![u].pc = "done", ![u].ok = ok]
                /\ manager' = Null

EnsureWorkflowRuntime(u, g, e) ==
  /\ users[u].pc = "idle"
  /\ users' = [users EXCEPT ![u] = [IdleUser EXCEPT !.pc = "validate",
                 !.op = "EnsureWorkflowRuntime", !.group = g, !.epoch = e]]
  /\ UNCHANGED <<entries, sessions, groupOf, manager, managerClosed>>

CloseWorkflowRuntime(u, g) ==
  /\ users[u].pc = "idle"
  /\ users' = [users EXCEPT ![u] = [IdleUser EXCEPT !.pc = "lock",
                 !.op = "CloseWorkflowRuntime", !.group = g]]
  /\ UNCHANGED <<entries, sessions, groupOf, manager, managerClosed>>

CloseManager(u) ==
  /\ users[u].pc = "idle"
  /\ users' = [users EXCEPT ![u] = [IdleUser EXCEPT !.pc = "lock", !.op = "Close"]]
  /\ UNCHANGED <<entries, sessions, groupOf, manager, managerClosed>>

\* The config file of the workspace is looked for before the mutex is taken.
ValidateRuntimeWorkspace(u, found) ==
  /\ users[u].pc = "validate"
  /\ users' = [users EXCEPT ![u].pc = IF found THEN "lock" ELSE "done"]
  /\ UNCHANGED <<entries, sessions, groupOf, manager, managerClosed>>

\* Mutant: the session is not unregistered.
TakeEntryOnly(u, g) ==
  /\ entries' = [entries EXCEPT ![g] = Null]
  /\ UNCHANGED sessions
  /\ users' = [users EXCEPT ![u].pc = "close", ![u].sup = entries[g].sup]

\* The beginning of closeLocked: nobody finds the supervisor any more.
TakeEntry(u, g) ==
  /\ entries' = [entries EXCEPT ![g] = Null]
  /\ sessions' = [sessions EXCEPT ![g] = Null]
  /\ users' = [users EXCEPT ![u].pc = "close", ![u].sup = entries[g].sup]

Lock(u) ==
  LET g == users[u].group
      op == users[u].op
      has == IF op = "Close" THEN FALSE ELSE entries[g] # Null IN
  /\ users[u].pc = "lock"
  /\ manager = Null
  /\ \/ /\ op = "EnsureWorkflowRuntime" /\ managerClosed
        /\ Leave(u, FALSE)
        /\ UNCHANGED <<entries, sessions, managerClosed>>
     \/ /\ op = "EnsureWorkflowRuntime" /\ ~managerClosed
        /\ has /\ entries[g].epoch = users[u].epoch
        /\ Leave(u, TRUE)
        /\ UNCHANGED <<entries, sessions, managerClosed>>
     \/ /\ op = "EnsureWorkflowRuntime" /\ ~managerClosed /\ ~has
        /\ manager' = u
        /\ Goto(u, "create")
        /\ UNCHANGED <<entries, sessions, managerClosed>>
     \/ /\ \/ /\ op = "EnsureWorkflowRuntime" /\ ~managerClosed
              /\ has /\ entries[g].epoch # users[u].epoch
           \/ op = "CloseWorkflowRuntime" /\ has
        /\ manager' = u
        /\ TakeEntry(u, g)
        /\ UNCHANGED managerClosed
     \/ /\ op = "CloseWorkflowRuntime" /\ ~has
        /\ Leave(u, TRUE)
        /\ UNCHANGED <<entries, sessions, managerClosed>>
     \/ /\ op = "Close"
        /\ managerClosed' = TRUE
        /\ manager' = u
        /\ Goto(u, "shutdown")
        /\ UNCHANGED <<entries, sessions>>
  /\ UNCHANGED groupOf

\* Close takes the entries one after the other.
Shutdown(u) ==
  /\ users[u].pc = "shutdown"
  /\ \/ /\ \E g \in SessionGroups : entries[g] # Null /\ TakeEntry(u, g)
        /\ UNCHANGED manager
     \/ /\ \A g \in SessionGroups : entries[g] = Null
        /\ Leave(u, TRUE)
        /\ UNCHANGED <<entries, sessions>>
  /\ UNCHANGED <<groupOf, managerClosed>>

\* Mutant: the next runtime is made while the supervisor is being closed.
CloseSupervisorAsync(u) ==
  /\ users[u].pc = "close"
  /\ CloseBegins(users[u].sup)
  /\ Goto(u, IF users[u].op = "EnsureWorkflowRuntime" THEN "create" ELSE "closing")
  /\ UNCHANGED <<entries, sessions, groupOf, manager, managerClosed>>

CloseSupervisor(u) ==
  /\ users[u].pc = "close"
  /\ CloseBegins(users[u].sup)
  /\ Goto(u, "closing")
  /\ UNCHANGED <<entries, sessions, groupOf, manager, managerClosed>>

SupervisorIsClosed(u) ==
  /\ users[u].pc = "closing"
  /\ closing[users[u].sup].pc = "closed"
  /\ CASE users[u].op = "EnsureWorkflowRuntime" -> Goto(u, "create") /\ UNCHANGED manager
       [] users[u].op = "CloseWorkflowRuntime" -> Leave(u, TRUE)
       [] users[u].op = "Close" -> Goto(u, "shutdown") /\ UNCHANGED manager
  /\ UNCHANGED <<entries, sessions, groupOf, managerClosed>>

\* The workspace or the executable may be unusable by now.
Create(u) ==
  /\ users[u].pc = "create"
  /\ \/ /\ \E s \in Supervisors :
             /\ groupOf[s] = Null
             /\ groupOf' = [groupOf EXCEPT ![s] = users[u].group]
             /\ users' = [users EXCEPT ![u].pc = "register", ![u].sup = s]
        /\ UNCHANGED manager
     \/ Leave(u, FALSE) /\ UNCHANGED groupOf
  /\ UNCHANGED <<entries, sessions, managerClosed>>

\* RegisterSession refuses a group that has a session; EntriesAreRegistered says
\* that it has none here.
Register(u) ==
  LET g == users[u].group IN
  /\ users[u].pc = "register"
  /\ sessions' = [sessions EXCEPT ![g] = users[u].sup]
  /\ entries' = [entries EXCEPT ![g] = [epoch |-> users[u].epoch, sup |-> users[u].sup]]
  /\ Leave(u, TRUE)
  /\ UNCHANGED <<groupOf, managerClosed>>

ManagerStep(u) ==
  \/ (Lock(u) \/ Shutdown(u) \/ SupervisorIsClosed(u) \/ Create(u) \/ Register(u))
     /\ UNCHANGED supervisorVars
  \/ CloseSupervisor(u)

\* A request reaches a supervisor through the session that is registered when it asks.
AskSession(c, g) == /\ sessions[g] # Null
                    /\ Ask(c, sessions[g])
                    /\ UNCHANGED managerVars

SupervisorStep ==
  /\ \/ \E c \in Callers : CallerStep(c)
     \/ \E s \in Supervisors : CloseStep(s)
     \/ SupervisorEnvironment
  /\ UNCHANGED managerVars

RuntimesNext ==
  \/ \E u \in Users : ManagerStep(u)
  \/ /\ \E u \in Users :
          \/ \E g \in SessionGroups, e \in Epochs : EnsureWorkflowRuntime(u, g, e)
          \/ \E g \in SessionGroups : CloseWorkflowRuntime(u, g)
          \/ CloseManager(u)
          \/ \E found \in BOOLEAN : ValidateRuntimeWorkspace(u, found)
     /\ UNCHANGED supervisorVars
  \/ \E c \in Callers, g \in SessionGroups : AskSession(c, g)
  \/ SupervisorStep

RuntimesFairness ==
  /\ \A u \in Users : WF_runtimesVars(ManagerStep(u))
  /\ \A c \in Callers : WF_runtimesVars(CallerStep(c) /\ UNCHANGED managerVars)
  /\ \A s \in Supervisors : WF_runtimesVars(CloseStep(s) /\ UNCHANGED managerVars)

RuntimesSpec == RuntimesInit /\ [][RuntimesNext]_runtimesVars /\ RuntimesFairness
-----------------------------------------------------------------------------
(* Properties                                                              *)

RuntimesTypeOK ==
  /\ SupervisorTypeOK
  /\ entries \in [SessionGroups -> [epoch : Epochs, sup : Supervisors] \cup {Null}]
  /\ sessions \in [SessionGroups -> Supervisors \cup {Null}]
  /\ groupOf \in [Supervisors -> SessionGroups \cup {Null}]
  /\ manager \in Users \cup {Null}
  /\ managerClosed \in BOOLEAN
  /\ users \in [Users -> UserRecords]

\* Whenever the manager's mutex is free, requests find exactly the supervisors
\* the manager would hand to the next launch, and none of them is closed: no
\* interleaving of launches, closes and failures leaves a session behind that
\* refuses all requests, or a supervisor that only the manager knows.
EntriesAreRegistered ==
  manager = Null => \A g \in SessionGroups :
    /\ sessions[g] = IF entries[g] = Null THEN Null ELSE entries[g].sup
    /\ sessions[g] # Null => ~closed[sessions[g]] /\ groupOf[sessions[g]] = g

OpenOfGroup(g) == {n \in open : groupOf[owner[n]] = g}
ManagerHasEnded == \E u \in Users : users[u].op = "Close" /\ users[u].pc = "done"

Slot == INSTANCE ConnectionSlot WITH
  Slots <- SessionGroups,
  up    <- [g \in SessionGroups |-> OpenOfGroup(g)],
  used  <- {n \in Connections : owner[n] # Null},
  ended <- ManagerHasEnded

\* The manager and its supervisors implement ConnectionSlot: a workflow never has
\* two app servers, not even for a moment while its runtime is replaced or when
\* a start outlives the supervisor that began it, and none once Close returned.
OneAppServerPerWorkflow == Slot!SlotSpec
=============================================================================
