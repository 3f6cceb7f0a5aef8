------------------------------- MODULE Workflow -------------------------------
(***************************************************************************)
(* The handlers of the workflow service                                    *)
(* (gateway/internal/grpcapi/workflow_handlers.go) on top of the storage   *)
(* of the workflow's package and the manager of its runtime.               *)
(*                                                                         *)
(* A handler is a goroutine that serves one request about one workflow.    *)
(* InitWorkflow, RestartWorkflow and DeleteWorkflow hold the workflow's    *)
(* lock; all others work with a copy of its record that they took when     *)
(* they began.  A step is one critical section of the service's mutex, one *)
(* file system step, or one exchange with the manager or the chat service. *)
(*                                                                         *)
(* A chat run is named by the handler that starts it.  A turn is in        *)
(* progress as long as its connection is open and it has not ended.        *)
(***************************************************************************)
EXTENDS WorkflowRuntimes, WorkflowStorage

CONSTANTS
  Workflow,       \* the session group of the workflow
  Handlers,       \* requests; each is a user of the manager, and a caller of supervisors
  Assignments,    \* the commands that handlers may have
  UpdateKind,     \* package, package -> how the second updates the first
  MCPReloader,    \* whether the service can reload MCP servers
  Ended           \* a turn that has ended

ASSUME WorkflowAssumption ==
  /\ SessionGroups = {Workflow}
  /\ Users = Handlers /\ Callers = Handlers
  /\ UpdateKind \in [Packages \X Packages -> {"hot", "mcp", "restart"}]
  /\ MCPReloader \in BOOLEAN
  /\ Null \notin Packages
  /\ Ended \notin Connections \cup {Null}
  /\ 1 \in Epochs /\ Epochs \subseteq Nat
  /\ \A commands \in Assignments : \A h \in Handlers :
       commands[h].op = "InitWorkflow" => commands[h].pkg \in Packages

VARIABLES
  record,         \* the workflow's record, Null if the service does not know it
  lock,           \* the handler that holds the workflow's lock
  handlers,       \* handler -> where it is
  runs            \* handler -> the connection of the turn it started

serviceVars == <<record, lock, handlers, runs>>
workflowVars == <<runtimesVars, storageVars, serviceVars>>
-----------------------------------------------------------------------------
Records == [active : Packages, pending : Packages \cup {Absent}, restartRequired : BOOLEAN,
            epoch : Epochs, runs : SUBSET Handlers]

ASSUME RecordsAssumption == Null \notin Records

LockedOps == {"InitWorkflow", "RestartWorkflow", "DeleteWorkflow"}
TurnOps == {"StartWorkflowChatRun", "RunWorkflowChatTurn"}
FollowingOps == {"StreamWorkflowChatEvents", "InterruptWorkflowChatRun"}
HandlerLabels == {"new", "lock", "decide", "store", "reload", "promote", "put", "refresh",
                  "ensure", "ensuring", "poll", "interrupt", "advance", "close", "closing",
                  "delete", "forget", "ask", "asking", "turn", "mark", "clear", "done"}
\* copy is the copy of the record a handler works with, then what follows ensureRuntime.
Commands == {commands[h] : commands \in Assignments, h \in Handlers}
HandlerRecords ==
  [cmd : Commands, pc : HandlerLabels, copy : Records \cup {Null}, then : HandlerLabels,
   ok : BOOLEAN]

ServiceInit ==
  /\ lock = Null
  /\ \E commands \in Assignments :
       handlers = [h \in Handlers |->
         [cmd |-> commands[h], pc |-> "new", copy |-> Null, then |-> "done", ok |-> FALSE]]
  /\ runs = [h \in Handlers |-> Null]

WorkflowInit == RuntimesInit /\ StorageInit /\ ServiceInit /\ record = Null

FirstRecord(p) == [active |-> p, pending |-> Absent, restartRequired |-> FALSE,
                   epoch |-> 1, runs |-> {}]

\* As after one InitWorkflow of p, whose runtime has been closed or was never needed.
WorkflowInstalled(p) ==
  RuntimesInit /\ StorageInstalled(p) /\ ServiceInit /\ record = FirstRecord(p)

Cmd(h) == handlers[h].cmd
At(h, pc) == handlers[h].pc = pc
Copy(h) == handlers[h].copy
Has(h, kind) == Cmd(h).op = kind

Move(h, pc) == handlers' = [handlers EXCEPT ![h].pc = pc]
MoveWith(h, pc, copy) == handlers' = [handlers EXCEPT ![h].pc = pc, ![h].copy = copy]
Ensure(h, then) == handlers' = [handlers EXCEPT ![h].pc = "ensure", ![h].then = then]
Conclude(h, ok) == /\ handlers' = [handlers EXCEPT ![h].pc = "done", ![h].ok = ok]
                  /\ lock' = IF lock = h THEN Null ELSE lock
Refuse(h) == Conclude(h, FALSE)

Elsewhere == UNCHANGED <<runtimesVars, storageVars>>

\* requireRecord, for InitWorkflow the validation of the package; turns are refused
\* while a restart is required.
BeginRequest(h) ==
  /\ At(h, "new")
  /\ \/ Has(h, "InitWorkflow") /\ Move(h, "lock") /\ UNCHANGED lock
     \/ ~Has(h, "InitWorkflow") /\ record = Null /\ Refuse(h)
     \/ /\ Cmd(h).op \in LockedOps \ {"InitWorkflow"} /\ record # Null
        /\ MoveWith(h, "lock", record) /\ UNCHANGED lock
     \/ /\ Cmd(h).op \in TurnOps /\ record # Null /\ record.restartRequired
        /\ Refuse(h)
     \/ /\ Cmd(h).op \in TurnOps /\ record # Null /\ ~record.restartRequired
        /\ handlers' = [handlers EXCEPT ![h].pc = "ensure", ![h].then = "ask", ![h].copy = record]
        /\ UNCHANGED lock
     \/ /\ Cmd(h).op \in FollowingOps /\ record # Null
        /\ handlers' = [handlers EXCEPT ![h].pc = "ensure", ![h].copy = record,
             ![h].then = "clear"]
        /\ UNCHANGED lock
  /\ UNCHANGED <<record, runs>> /\ Elsewhere

TakeLock(h) ==
  /\ At(h, "lock") /\ lock = Null
  /\ lock' = h
  /\ Move(h, IF Has(h, "InitWorkflow") THEN "decide" ELSE "refresh")
  /\ UNCHANGED <<record, runs>> /\ Elsewhere
-----------------------------------------------------------------------------
(* InitWorkflow                                                            *)

\* classifyWorkflowUpdate compares the new package with the files on disk; of a revision that
\* is not whole any may be missing.
Classifications(p) ==
  IF current \in Packages
  THEN {IF current = p THEN "hot" ELSE UpdateKind[<<current, p>>]}
  ELSE {"hot", "mcp", "restart"}

Reloads(h, class) == MCPReloader /\ Cmd(h).reload /\ class = "mcp"

DecideInit(h) ==
  LET p == Cmd(h).pkg IN
  /\ At(h, "decide")
  /\ \/ /\ record # Null /\ record.active = p
        /\ handlers' = [handlers EXCEPT ![h].pc = "ensure", ![h].then = "done", ![h].copy = record]
        /\ UNCHANGED <<lock, job>>
     \/ /\ record # Null /\ record.active # p /\ current = Absent
        /\ Refuse(h)
        /\ UNCHANGED job
     \/ /\ record # Null /\ record.active # p /\ current # Absent
        /\ \E class \in Classifications(p) :
             /\ Begin(IF class = "hot" THEN "Materialize" ELSE "Stage", p)
             /\ handlers' = [handlers EXCEPT ![h].pc = "store", ![h].copy = record,
                  ![h].then = IF Reloads(h, class) THEN "reload" ELSE "put"]
        /\ UNCHANGED lock
     \/ /\ record = Null
        /\ Begin("Materialize", p)
        /\ handlers' = [handlers EXCEPT ![h].pc = "store", ![h].then = "put"]
        /\ UNCHANGED lock
  /\ UNCHANGED <<directories, faults, record, runs, runtimesVars>>

\* A storage operation has returned.
Stored(h) ==
  /\ At(h, "store") /\ job.pc = "done"
  /\ job' = IdleJob
  /\ IF job.ok THEN Move(h, handlers[h].then) /\ UNCHANGED lock ELSE Refuse(h)
  /\ UNCHANGED <<directories, faults, record, runs, runtimesVars>>

ReloadMCP(h) ==
  /\ At(h, "reload")
  /\ \/ /\ Begin("PromotePending", Absent)
        /\ handlers' = [handlers EXCEPT ![h].pc = "store", ![h].then = "put"]
        /\ UNCHANGED lock
     \/ Refuse(h) /\ UNCHANGED <<job, faults, directories>>
  /\ UNCHANGED <<record, runs, runtimesVars>>

\* Mutant: an update counts the epoch on.
PutInitCounts(h) ==
  LET copy == Copy(h)
      staged == metadata.pending # Absent
      updated ==
        IF copy = Null THEN FirstRecord(metadata.active)
        ELSE [active |-> metadata.active, pending |-> metadata.pending,
              restartRequired |-> staged, epoch |-> copy.epoch + 1, runs |-> copy.runs] IN
  /\ At(h, "put") /\ Has(h, "InitWorkflow")
  /\ record' = updated
  /\ \/ staged /\ Conclude(h, TRUE)
     \/ /\ ~staged
        /\ UNCHANGED lock
        /\ handlers' = [handlers EXCEPT ![h].pc = "ensure", ![h].then = "done", ![h].copy = updated]
  /\ UNCHANGED runs /\ Elsewhere

\* The record of what is stored now.  Staging and hot updates keep the epoch and the
\* runs the handler has copied; a restart counts the epoch on and forgets the runs.
PutInit(h) ==
  LET copy == Copy(h)
      staged == metadata.pending # Absent
      updated ==
        IF copy = Null THEN FirstRecord(metadata.active)
        ELSE [active |-> metadata.active, pending |-> metadata.pending,
              restartRequired |-> staged, epoch |-> copy.epoch, runs |-> copy.runs] IN
  /\ At(h, "put") /\ Has(h, "InitWorkflow")
  /\ record' = updated
  /\ \/ staged /\ Conclude(h, TRUE)
     \/ /\ ~staged
        /\ UNCHANGED lock
        /\ handlers' = [handlers EXCEPT ![h].pc = "ensure", ![h].then = "done", ![h].copy = updated]
  /\ UNCHANGED runs /\ Elsewhere
-----------------------------------------------------------------------------
(* RestartWorkflow and DeleteWorkflow                                      *)

\* Under the lock the record is read again.  RestartWorkflow gives up when it is gone;
\* DeleteWorkflow goes on with the one it had.
Refresh(h) ==
  LET now == IF record = Null THEN Copy(h) ELSE record IN
  /\ At(h, "refresh")
  /\ \/ Has(h, "RestartWorkflow") /\ record = Null /\ Refuse(h)
     \/ /\ Has(h, "RestartWorkflow") /\ record # Null /\ ~Cmd(h).force
        /\ MoveWith(h, "poll", now) /\ UNCHANGED lock
     \/ /\ Has(h, "DeleteWorkflow") /\ now.runs # {} /\ ~Cmd(h).force
        /\ Refuse(h)
     \/ /\ Has(h, "DeleteWorkflow") /\ now.runs = {} /\ ~Cmd(h).force
        /\ MoveWith(h, "close", now) /\ UNCHANGED lock
     \/ /\ record # Null \/ Has(h, "DeleteWorkflow")
        /\ Cmd(h).force
        /\ handlers' = [handlers EXCEPT ![h].pc = "ensure", ![h].then = "interrupt", ![h].copy = now]
        /\ UNCHANGED lock
  /\ UNCHANGED <<record, runs>> /\ Elsewhere

\* The runs of the copy are interrupted one by one: the turn has ended already, it ends,
\* it goes on although the interrupt was sent, or the interrupt fails.
InterruptNext(h) ==
  LET left == Copy(h).runs IN
  /\ At(h, "interrupt")
  /\ \/ /\ \E r \in left :
             /\ handlers' = [handlers EXCEPT ![h].copy.runs = @ \ {r}]
             /\ runs' = IF runs[r] \in open THEN [runs EXCEPT ![r] = Ended] ELSE runs
        /\ UNCHANGED lock
     \/ /\ \E r \in left : handlers' = [handlers EXCEPT ![h].copy.runs = @ \ {r}]
        /\ UNCHANGED <<lock, runs>>
     \/ left # {} /\ Refuse(h) /\ UNCHANGED runs
     \/ /\ left = {}
        /\ Move(h, IF Has(h, "RestartWorkflow") THEN "advance" ELSE "close")
        /\ UNCHANGED <<lock, runs>>
  /\ UNCHANGED record /\ Elsewhere

\* A restart without force looks again every ten milliseconds.
Poll(h) ==
  /\ At(h, "poll")
  /\ \/ Copy(h).runs = {} /\ Move(h, "advance") /\ UNCHANGED lock
     \/ Copy(h).runs # {} /\ record # Null /\ MoveWith(h, "poll", record) /\ UNCHANGED lock
     \/ Copy(h).runs # {} /\ record = Null /\ Refuse(h)
  /\ UNCHANGED <<record, runs>> /\ Elsewhere

\* The client has given a deadline, or goes away.
PollExpires(h) ==
  /\ At(h, "poll") /\ Copy(h).runs # {}
  /\ Refuse(h)
  /\ UNCHANGED <<record, runs>> /\ Elsewhere

AdvanceRestart(h) ==
  /\ At(h, "advance")
  /\ \/ /\ Copy(h).pending # Absent
        /\ Begin("PromotePending", Absent)
        /\ handlers' = [handlers EXCEPT ![h].pc = "store", ![h].then = "put"]
     \/ /\ Copy(h).pending = Absent
        /\ Move(h, "put")
        /\ UNCHANGED <<job, faults, directories>>
  /\ UNCHANGED <<lock, record, runs, runtimesVars>>

\* Mutant: the record keeps the package it had.
PutRestartKeeps(h) ==
  LET copy == Copy(h)
      updated == [copy EXCEPT !.pending = Absent, !.restartRequired = FALSE,
                              !.epoch = @ + 1, !.runs = {}] IN
  /\ At(h, "put") /\ Has(h, "RestartWorkflow")
  /\ copy.epoch + 1 \in Epochs
  /\ record' = updated
  /\ handlers' = [handlers EXCEPT ![h].pc = "ensure", ![h].then = "done", ![h].copy = updated]
  /\ UNCHANGED <<lock, runs>> /\ Elsewhere

PutRestart(h) ==
  LET copy == Copy(h)
      updated == [active |-> IF copy.pending # Absent THEN metadata.active ELSE copy.active,
                  pending |-> Absent, restartRequired |-> FALSE,
                  epoch |-> copy.epoch + 1, runs |-> {}] IN
  /\ At(h, "put") /\ Has(h, "RestartWorkflow")
  /\ copy.epoch + 1 \in Epochs
  /\ record' = updated
  /\ handlers' = [handlers EXCEPT ![h].pc = "ensure", ![h].then = "done", ![h].copy = updated]
  /\ UNCHANGED <<lock, runs>> /\ Elsewhere

DeleteCloses(h) ==
  /\ At(h, "close")
  /\ \/ /\ Cmd(h).cleanup
        /\ CloseWorkflowRuntime(h, Workflow)
        /\ Move(h, "closing")
     \/ /\ ~Cmd(h).cleanup
        /\ Move(h, "delete")
        /\ UNCHANGED managerVars
  /\ UNCHANGED <<lock, record, runs, supervisorVars, storageVars>>

RuntimeIsClosed(h) ==
  /\ At(h, "closing") /\ users[h].pc = "done"
  /\ users' = [users EXCEPT ![h] = IdleUser]
  /\ Move(h, "delete")
  /\ UNCHANGED <<entries, sessions, groupOf, manager, managerClosed>>
  /\ UNCHANGED <<lock, record, runs, supervisorVars, storageVars>>

DeleteFiles(h) ==
  /\ At(h, "delete")
  /\ \/ /\ Cmd(h).remove
        /\ Begin("Delete", Absent)
        /\ handlers' = [handlers EXCEPT ![h].pc = "store", ![h].then = "forget"]
     \/ /\ ~Cmd(h).remove
        /\ Move(h, "forget")
        /\ UNCHANGED <<job, faults, directories>>
  /\ UNCHANGED <<lock, record, runs, runtimesVars>>

DeleteRecord(h) ==
  /\ At(h, "forget")
  /\ record' = Null
  /\ Conclude(h, TRUE)
  /\ UNCHANGED runs /\ Elsewhere
-----------------------------------------------------------------------------
(* ensureRuntime, turns, and what keeps the record's runs up to date       *)

BeginEnsure(h) ==
  /\ At(h, "ensure")
  /\ EnsureWorkflowRuntime(h, Workflow, Copy(h).epoch)
  /\ Move(h, "ensuring")
  /\ UNCHANGED <<lock, record, runs, supervisorVars, storageVars>>

\* Whether a workspace that was written or removed in part has its config file is open.
FindsConfig(h) ==
  /\ At(h, "ensuring")
  /\ \/ workspace.config \notin {Empty, Absent} /\ ValidateRuntimeWorkspace(h, TRUE)
     \/ workspace.config \notin Packages /\ ValidateRuntimeWorkspace(h, FALSE)
  /\ UNCHANGED <<supervisorVars, storageVars, serviceVars>>

EnsureEnds(h) ==
  LET then == handlers[h].then IN
  /\ At(h, "ensuring") /\ users[h].pc = "done"
  /\ users' = [users EXCEPT ![h] = IdleUser]
  /\ IF ~users[h].ok THEN Refuse(h)
     ELSE IF then = "done" THEN Conclude(h, TRUE)
     ELSE Move(h, then) /\ UNCHANGED lock
  /\ UNCHANGED <<entries, sessions, groupOf, manager, managerClosed>>
  /\ UNCHANGED <<record, runs, supervisorVars, storageVars>>

\* StartChatRun and RunChatTurn find the session and ask its supervisor.
AskConnection(h) ==
  /\ At(h, "ask")
  /\ \/ sessions[Workflow] = Null /\ Refuse(h) /\ UNCHANGED supervisorVars
     \/ /\ sessions[Workflow] # Null
        /\ Ask(h, sessions[Workflow])
        /\ Move(h, "asking")
        /\ UNCHANGED lock
  /\ UNCHANGED <<record, runs, managerVars, storageVars>>

GetConnection(h) ==
  /\ At(h, "asking") /\ callers[h].pc = "done"
  /\ IF callers[h].result \in Connections THEN Move(h, "turn") /\ UNCHANGED lock
                                          ELSE Refuse(h)
  /\ UNCHANGED <<record, runs>> /\ Elsewhere

\* The app server accepts the turn, or the call fails.
StartTurn(h) ==
  /\ At(h, "turn")
  /\ \/ /\ IsOpen(callers[h].result)
        /\ runs' = [runs EXCEPT ![h] = callers[h].result]
        /\ Move(h, "mark")
        /\ UNCHANGED lock
     \/ Refuse(h) /\ UNCHANGED runs
  /\ UNCHANGED record /\ Elsewhere

MarkWorkflowActive(h) ==
  /\ At(h, "mark")
  /\ record' = IF record = Null THEN Null ELSE [record EXCEPT !.runs = @ \cup {h}]
  /\ Conclude(h, TRUE)
  /\ UNCHANGED runs /\ Elsewhere

InProgress(r) == runs[r] \in open

\* A stream has seen the terminal event, an interrupt was sent or came too late; or the
\* stream is cancelled, the interrupt fails.
ClearWorkflowActive(h) ==
  LET r == Cmd(h).run IN
  /\ At(h, "clear")
  /\ \/ /\ Has(h, "InterruptWorkflowChatRun") \/ (runs[r] # Null /\ ~InProgress(r))
        /\ record' = IF record = Null THEN Null ELSE [record EXCEPT !.runs = @ \ {r}]
        /\ Conclude(h, TRUE)
     \/ Refuse(h) /\ UNCHANGED record
  /\ UNCHANGED runs /\ Elsewhere

\* The gateway command ends: it closes the manager while handlers may still be at work.
GatewayCloses(h) ==
  /\ At(h, "new") /\ Has(h, "Close")
  /\ CloseManager(h)
  /\ Conclude(h, TRUE)
  /\ UNCHANGED <<record, runs, supervisorVars, storageVars>>

TurnEnds(r) ==
  /\ InProgress(r)
  /\ runs' = [runs EXCEPT ![r] = Ended]
  /\ UNCHANGED <<record, lock, handlers>> /\ Elsewhere
-----------------------------------------------------------------------------
\* The gateway stops and is started again: what is in memory is lost, app servers lose
\* their standard input and exit, requests fail.
GatewayStops ==
  /\ faults < MaxFaults /\ faults' = faults + 1
  /\ ~managerClosed
  /\ \E h \in Handlers : ~At(h, "done")
  /\ StorageStops
  /\ record' = Null /\ lock' = Null
  /\ handlers' = [h \in Handlers |->
       IF At(h, "new") THEN handlers[h] ELSE [handlers[h] EXCEPT !.pc = "done"]]
  /\ entries' = [g \in SessionGroups |-> Null]
  /\ sessions' = [g \in SessionGroups |-> Null]
  /\ manager' = Null
  /\ users' = [u \in Users |-> IdleUser]
  /\ active' = [s \in Supervisors |-> Null]
  /\ connecting' = [s \in Supervisors |-> Null]
  /\ cooling' = [s \in Supervisors |-> FALSE]
  /\ closed' = [s \in Supervisors |-> groupOf[s] # Null]
  /\ closing' = [s \in Supervisors |-> IF groupOf[s] # Null THEN [closing[s] EXCEPT !.pc = "closed"]
                                                           ELSE closing[s]]
  /\ callers' = [c \in Callers |->
       IF callers[c].pc = "idle" THEN callers[c]
       ELSE [callers[c] EXCEPT !.pc = "done", !.result = "canceled"]]
  /\ open' = {}
  /\ UNCHANGED <<failures, owner, groupOf, managerClosed, runs>>

HandlerStep(h) ==
  \/ BeginRequest(h) \/ TakeLock(h) \/ DecideInit(h) \/ Stored(h) \/ ReloadMCP(h)
  \/ PutInit(h) \/ Refresh(h) \/ InterruptNext(h) \/ Poll(h) \/ AdvanceRestart(h)
  \/ PutRestart(h) \/ DeleteCloses(h) \/ RuntimeIsClosed(h) \/ DeleteFiles(h)
  \/ DeleteRecord(h) \/ BeginEnsure(h) \/ FindsConfig(h) \/ EnsureEnds(h)
  \/ AskConnection(h) \/ GetConnection(h) \/ StartTurn(h) \/ MarkWorkflowActive(h)
  \/ ClearWorkflowActive(h) \/ GatewayCloses(h)

RuntimeStep == \/ \E h \in Handlers : ManagerStep(h)
               \/ SupervisorStep

WorkflowNext ==
  \/ \E h \in Handlers : HandlerStep(h) \/ PollExpires(h)
  \/ RuntimeStep /\ UNCHANGED <<storageVars, serviceVars>>
  \/ StorageStep /\ UNCHANGED <<runtimesVars, serviceVars>>
  \/ \E r \in Handlers : TurnEnds(r)
  \/ GatewayStops

\* Handlers run; the manager, callers, closing supervisors and the file system get on.
\* Neither the gateway nor the SDK gives a request a deadline, so that nothing but the end of
\* the turns ends a restart that polls.
WorkflowFairness ==
  /\ \A h \in Handlers :
       /\ WF_workflowVars(HandlerStep(h))
       /\ WF_workflowVars(ManagerStep(h) /\ UNCHANGED <<storageVars, serviceVars>>)
       /\ WF_workflowVars(CallerStep(h) /\ UNCHANGED <<managerVars, storageVars, serviceVars>>)
  /\ \A s \in Supervisors :
       WF_workflowVars(CloseStep(s) /\ UNCHANGED <<managerVars, storageVars, serviceVars>>)
  /\ WF_workflowVars(StorageStep /\ UNCHANGED <<runtimesVars, serviceVars>>)

WorkflowSpec == WorkflowInit /\ [][WorkflowNext]_workflowVars /\ WorkflowFairness
-----------------------------------------------------------------------------
(* Properties                                                              *)

WorkflowTypeOK ==
  /\ RuntimesTypeOK
  /\ StorageTypeOK
  /\ record \in Records \cup {Null}
  /\ lock \in Handlers \cup {Null}
  /\ handlers \in [Handlers -> HandlerRecords]
  /\ runs \in [Handlers -> Connections \cup {Null, Ended}]

DeletionHasBegun ==
  \E h \in Handlers : Has(h, "DeleteWorkflow") /\ handlers[h].pc \in {"store", "forget", "done"}

\* One failure or one stop never loses the workflow: while the metadata names an
\* active package, and unless a deletion has begun, one of the three directories
\* holds a whole package.
PackageSurvives ==
  faults <= 1 /\ metadata # Absent /\ ~DeletionHasBegun
  => {current, previous, pending} \cap Packages # {}

\* Between the operations on a workflow the service and the metadata file name the same
\* active package, whichever file system step failed, when it was tried again, and
\* although the record is written long after the file and from a copy.
RecordAgreesWithMetadata ==
  lock = Null /\ record # Null /\ metadata # Absent => record.active = metadata.active

Restarted(e) ==
  \E h \in Handlers : Has(h, "RestartWorkflow") /\ Copy(h) # Null /\ Copy(h).epoch > e

\* The running app server is replaced only after a restart has counted the epoch on, or
\* on behalf of a request that holds an older copy of the record, and taken away only by
\* a deletion or the end of the gateway: a hot update, a reload, a staged update and a
\* repeated InitWorkflow never disturb the turns in progress.
RuntimeReplacedOnlyByRestart ==
  [][\A h \in Handlers :
       entries[Workflow] # Null /\ entries'[Workflow] # entries[Workflow] /\ manager' = h
       => \/ Restarted(entries[Workflow].epoch)
          \/ Copy(h) # Null /\ (record = Null \/ Copy(h).epoch # record.epoch)
          \/ DeletionHasBegun \/ Has(h, "DeleteWorkflow")
          \/ managerClosed]_workflowVars

\* docs/troubleshooting.ru.md:77-83: after a successful restart, turns run with the version
\* of the workflow that required it.
ReadyWorkspaceIsActive ==
  lock = Null /\ record # Null /\ faults = 0 /\ ~record.restartRequired
  => workspace.config = record.active

\* A restart without force waits until the record names no turn in progress, and keeps the
\* workflow's lock meanwhile.
WaitsForTurns(h) ==
  \E p \in Handlers : /\ At(p, "poll") /\ Copy(p).runs # {}
                      /\ p = h \/ At(h, "lock")

=============================================================================
