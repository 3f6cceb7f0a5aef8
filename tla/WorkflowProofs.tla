---------------------------- MODULE WorkflowProofs ----------------------------
(***************************************************************************)
(* Proofs about WorkflowStorage and Workflow.                              *)
(***************************************************************************)
EXTENDS Workflow, RuntimesProofs

-----------------------------------------------------------------------------
(* The inductive invariant of the storage                                  *)

\* What a job is at each of its steps, and what it has found by then.
JobAgrees ==
  /\ job.pc \in {"prepare", "write"} => job.kind \in {"Materialize", "Stage"}
  /\ job.pc \in {"clear", "keep", "promote", "layout"}
       => job.kind \in {"Materialize", "PromotePending"}
  /\ job.pc \in {"copy", "unlink", "link", "instructions"} => job.kind \in {"Materialize", "Stage"}
  /\ job.pc = "metadata" => job.kind \in {"Materialize", "Stage", "PromotePending"}
  /\ job.pc = "delete" => job.kind = "Delete"
  /\ job.kind \in {"Materialize", "Stage"} => job.pkg \in Packages
  /\ job.kind = "Stage" /\ job.pc \notin {"prepare", "done"} => metadata # Absent
  /\ job.kind = "PromotePending" /\ job.pc \notin {"clear", "done"}
       => metadata # Absent /\ metadata.pending # Absent
  /\ job.pc = "done" /\ job.ok =>
       IF job.kind = "Delete" THEN metadata = Absent ELSE metadata \in Metadata

\* What a job that writes a package has put where by then.
InPlace ==
  /\ job.kind = "Materialize" /\ job.pc \in {"clear", "keep", "promote"} => pending = job.pkg
  /\ job.kind = "Materialize" /\ job.pc \in {"layout", "copy", "unlink", "link", "instructions",
                                             "metadata"} => current = job.pkg
  /\ job.kind = "Stage" /\ job.pc \in {"copy", "unlink", "link", "instructions", "metadata"}
       => pending = job.pkg
  /\ job.pc \in {"unlink", "link"} => job.copied = current
  /\ job.pc = "instructions" => workspace.config = current
  /\ job.pc = "metadata" /\ job.kind # "PromotePending"
       => workspace = [config |-> current, instructions |-> current]

\* As long as nothing fails the metadata name what is in the directories.
CurrentStands == \/ job.pc \in {"idle", "prepare", "write", "clear", "keep", "delete", "done"}
                 \/ job.kind = "Stage"

PendingStands == \/ job.pc \in {"idle", "done"}
                 \/ job.kind = "PromotePending" /\ job.pc \in {"clear", "keep", "promote"}

Faultless ==
  faults = 0 /\ metadata # Absent =>
    /\ CurrentStands => current = metadata.active
    /\ PendingStands /\ metadata.pending # Absent => pending = metadata.pending
    /\ job.kind = "PromotePending" /\ job.pc \in {"layout", "metadata"}
         => current = metadata.pending

StorageInv == StorageTypeOK /\ JobAgrees /\ InPlace /\ Faultless /\ SuccessIsWhole

\* Where a whole package is while there is metadata, after at most one failure.
IsWhole(dir) == dir \in Packages

WholeSomewhere ==
  CASE job.pc = "keep" -> IsWhole(current) \/ IsWhole(pending)
    [] job.pc = "promote" -> IsWhole(previous) \/ IsWhole(pending)
    [] OTHER -> IsWhole(current) \/ IsWhole(previous)

\* What is pending, and promised by the metadata, can take the place of current.
PendingReplaces ==
  /\ job.pc \in {"idle", "done", "clear"} /\ metadata.pending # Absent /\ pending # Absent
       => IsWhole(current) \/ IsWhole(pending)
  /\ job.pc \in {"idle", "done", "clear", "keep", "promote"} /\ metadata.pending # Absent
     /\ faults = 0 => IsWhole(pending)

NothingFailedYet ==
  faults = 0 => IF job.pc = "promote" THEN IsWhole(previous) ELSE IsWhole(current)

Survives ==
  faults <= 1 /\ metadata # Absent => WholeSomewhere /\ PendingReplaces /\ NothingFailedYet

-----------------------------------------------------------------------------
(* The inductive invariant of the handlers                                 *)

ServiceTypeOK ==
  /\ record \in Records \cup {Null}
  /\ lock \in Handlers \cup {Null}
  /\ handlers \in [Handlers -> HandlerRecords]
  /\ runs \in [Handlers -> Connections \cup {Null, Ended}]

Op(h) == handlers[h].cmd.op
PC(h) == handlers[h].pc
ThenOf(h) == handlers[h].then

LockedLabels == {"decide", "store", "reload", "put", "refresh", "poll", "interrupt", "advance",
                 "close", "closing", "delete", "forget"}
Locks(h) == \/ PC(h) \in LockedLabels
            \/ PC(h) \in {"ensure", "ensuring"} /\ Op(h) \in LockedOps

\* Which requests come to which step, and with what.
PhaseAgrees(h) ==
  /\ PC(h) = "lock" => Op(h) \in LockedOps
  /\ PC(h) \in {"decide", "reload"} => Op(h) = "InitWorkflow"
  /\ PC(h) \in {"poll", "advance"} => Op(h) = "RestartWorkflow"
  /\ PC(h) \in {"close", "closing", "delete", "forget"} => Op(h) = "DeleteWorkflow"
  /\ PC(h) \in {"refresh", "interrupt"} => Op(h) \in {"RestartWorkflow", "DeleteWorkflow"}
  /\ PC(h) = "put" => Op(h) \in {"InitWorkflow", "RestartWorkflow"}
  /\ PC(h) = "store" =>
       \/ Op(h) = "InitWorkflow" /\ ThenOf(h) \in {"put", "reload"}
       \/ Op(h) = "RestartWorkflow" /\ ThenOf(h) = "put"
       \/ Op(h) = "DeleteWorkflow" /\ ThenOf(h) = "forget"
  /\ PC(h) \in {"ensure", "ensuring"} =>
       \/ Op(h) \in TurnOps /\ ThenOf(h) = "ask"
       \/ Op(h) \in FollowingOps /\ ThenOf(h) = "clear"
       \/ Op(h) \in {"RestartWorkflow", "DeleteWorkflow"} /\ ThenOf(h) = "interrupt"
       \/ Op(h) \in {"InitWorkflow", "RestartWorkflow"} /\ ThenOf(h) = "done"

HasCopy(h) ==
  /\ PC(h) \in {"ensure", "ensuring", "refresh", "poll", "interrupt", "advance"} => Copy(h) \in Records
  /\ PC(h) = "lock" /\ Op(h) # "InitWorkflow" => Copy(h) \in Records
  /\ PC(h) \in {"store", "put"} /\ Op(h) = "RestartWorkflow" => Copy(h) \in Records

\* A storage operation is under way exactly while the handler that holds the lock waits for it.
Waits(h) ==
  PC(h) = "store" =>
    /\ job.pc # "idle"
    /\ ThenOf(h) = "put" => job.kind \in {"Materialize", "Stage", "PromotePending"}
    /\ ThenOf(h) = "reload" => job.kind = "Stage"
    /\ ThenOf(h) = "forget" <=> job.kind = "Delete"

LockAgrees ==
  /\ \A h \in Handlers : Locks(h) => lock = h
  /\ \A h \in Handlers : Waits(h)
  /\ job.pc # "idle" => \E h \in Handlers : PC(h) = "store"

\* The record and the metadata name the same package, or the handler that holds the lock has
\* replaced the one and is about to replace the other.
Settled == record # Null /\ metadata # Absent => record.active = metadata.active

Changing(h) == \/ PC(h) = "put"
               \/ PC(h) = "store" /\ ThenOf(h) = "put" /\ job.pc = "done" /\ job.ok

\* The copy a restart works with stays up to date: it holds the lock.
Restarts(h) ==
  /\ Op(h) = "RestartWorkflow"
  /\ \/ PC(h) \in {"poll", "interrupt", "advance", "store", "put"}
     \/ PC(h) \in {"ensure", "ensuring"} /\ ThenOf(h) = "interrupt"

RecordAgrees ==
  /\ Settled \/ \E h \in Handlers : Changing(h)
  /\ \A h \in Handlers :
       /\ PC(h) = "put" => \/ metadata \in Metadata
                           \/ Op(h) = "RestartWorkflow" /\ Copy(h).pending = Absent /\ Settled
       /\ Restarts(h) => record # Null /\ Copy(h).active = record.active
       /\ PC(h) = "store" /\ Op(h) = "RestartWorkflow" => Copy(h).pending # Absent
       /\ PC(h) = "put" /\ Op(h) = "RestartWorkflow" /\ Copy(h).pending = Absent => Settled

ServiceInv ==
  /\ StorageInv /\ ServiceTypeOK
  /\ \A h \in Handlers : PhaseAgrees(h) /\ HasCopy(h)
  /\ LockAgrees
  /\ RecordAgrees

-----------------------------------------------------------------------------
(* The storage                                                             *)

\* What the steps of an operation do to it.
LEMMA JobFrame ==
  ASSUME job \in Jobs, NEW pc \in JobLabels
  PROVE  /\ Then(pc) => /\ job' \in Jobs /\ job'.pc = pc /\ job'.ok = job.ok
                        /\ job'.kind = job.kind /\ job'.pkg = job.pkg
                        /\ job'.copied = job.copied
         /\ Succeed => /\ job' \in Jobs /\ job'.pc = "done" /\ job'.ok
                       /\ job'.kind = job.kind /\ job'.pkg = job.pkg
         /\ Fail => /\ job' \in Jobs /\ job'.pc = "done" /\ ~job'.ok
                    /\ job'.kind = job.kind /\ job'.pkg = job.pkg
  BY DEF Then, Succeed, Fail, Jobs, JobLabels

\* The same, with the step named and the failures counted.
LEMMA StepFrame ==
  ASSUME StorageTypeOK
  PROVE  /\ \A pc \in JobLabels : Then(pc) =>
              /\ job' \in Jobs /\ job'.pc = pc /\ job'.ok = job.ok
              /\ job'.kind = job.kind /\ job'.pkg = job.pkg /\ job'.copied = job.copied
         /\ Succeed => /\ job' \in Jobs /\ job'.pc = "done" /\ job'.ok
                       /\ job'.kind = job.kind /\ job'.pkg = job.pkg
         /\ Fail => /\ job' \in Jobs /\ job'.pc = "done" /\ ~job'.ok
                    /\ job'.kind = job.kind /\ job'.pkg = job.pkg
         /\ Works => faults' \in 0..MaxFaults
         /\ Fault => faults' \in 0..MaxFaults /\ faults' = faults + 1 /\ Fail
<1>1. job \in Jobs /\ faults \in 0..MaxFaults
  BY DEF StorageTypeOK
<1>2. Works => faults' \in 0..MaxFaults
  BY <1>1 DEF Works
<1>3. Fault => faults' \in 0..MaxFaults /\ faults' = faults + 1 /\ Fail
  BY <1>1, StorageAssumption DEF Fault
<1>4. \E pc \in JobLabels : TRUE
  BY DEF JobLabels
<1> QED BY <1>1, <1>2, <1>3, <1>4, JobFrame

\* A job of the storage begins.
LEMMA BeginKeeps ==
  ASSUME StorageInv, NEW kind \in JobKinds, NEW pkg \in Packages \cup {Absent}, Begin(kind, pkg),
         kind \in {"Materialize", "Stage"} => pkg \in Packages
  PROVE  /\ StorageInv' /\ UNCHANGED <<directories, faults>>
         /\ job.pc = "idle" /\ job'.kind = kind /\ ~job'.ok
         /\ job'.pc = IF kind \in {"Materialize", "Stage"} THEN "prepare"
                      ELSE IF kind = "PromotePending" THEN "clear" ELSE "delete"
<1> USE StorageAssumption DEF StorageInv, Begin, directories
<1>0. /\ job' \in Jobs /\ job'.kind = kind /\ job'.pkg = pkg /\ ~job'.ok /\ job.pc = "idle"
      /\ job'.pc = IF kind \in {"Materialize", "Stage"} THEN "prepare"
                   ELSE IF kind = "PromotePending" THEN "clear" ELSE "delete"
  BY DEF IdleJob, Jobs, JobLabels, JobKinds, Contents
<1>1. StorageTypeOK'
  BY <1>0 DEF StorageTypeOK
<1>2. JobAgrees'
  BY <1>0 DEF JobAgrees, JobKinds
<1>3. InPlace'
  BY <1>0 DEF InPlace, JobKinds
<1>4. Faultless'
  BY <1>0 DEF Faultless, CurrentStands, PendingStands, JobKinds
<1>5. SuccessIsWhole'
  BY <1>0 DEF SuccessIsWhole
<1> QED BY <1>0, <1>1, <1>2, <1>3, <1>4, <1>5

\* The step in which the new tree is prepared keeps the invariant of the storage.
LEMMA PrepareKeeps ==
  ASSUME StorageInv, Prepare
  PROVE  StorageInv'
<1> USE StorageAssumption DEF StorageInv, Prepare, Removed
<1>0. /\ job' \in Jobs /\ faults' \in 0..MaxFaults /\ faults \in 0..MaxFaults
      /\ faults' = faults \/ (faults' = faults + 1 /\ job'.pc = "done" /\ ~job'.ok)
      /\ job'.kind = job.kind /\ job'.pkg = job.pkg
      /\ job'.pc \in {"write", "done"}
  BY StepFrame DEF StorageTypeOK, Works, JobLabels
<1>1. StorageTypeOK'
  BY <1>0 DEF StorageTypeOK, JobAgrees, Contents, Workspaces, Metadata, Jobs
<1>2. JobAgrees'
  BY <1>0, StepFrame DEF StorageTypeOK, JobAgrees, Metadata, JobLabels
<1>3. InPlace'
  BY <1>0, StepFrame DEF StorageTypeOK, JobAgrees, InPlace, JobLabels, Workspaces
<1>4. Faultless'
  BY <1>0, StepFrame DEF StorageTypeOK, JobAgrees, InPlace, Faultless, CurrentStands, PendingStands,
                         JobLabels, Metadata
<1>5. SuccessIsWhole'
  BY <1>0, <1>2, <1>4, StepFrame DEF StorageTypeOK, JobAgrees, InPlace, Faultless, CurrentStands,
                                     SuccessIsWhole, JobLabels, Metadata
<1> QED BY <1>1, <1>2, <1>3, <1>4, <1>5

\* The step in which its files are written keeps the invariant of the storage.
LEMMA WriteFilesKeeps ==
  ASSUME StorageInv, WriteFiles
  PROVE  StorageInv'
<1> USE StorageAssumption DEF StorageInv, WriteFiles
<1>0. /\ job' \in Jobs /\ faults' \in 0..MaxFaults /\ faults \in 0..MaxFaults
      /\ faults' = faults \/ (faults' = faults + 1 /\ job'.pc = "done" /\ ~job'.ok)
      /\ job'.kind = job.kind /\ job'.pkg = job.pkg
      /\ job'.pc \in {"copy", "clear", "done"}
  BY StepFrame DEF StorageTypeOK, Works, JobLabels
<1>1. StorageTypeOK'
  BY <1>0 DEF StorageTypeOK, JobAgrees, Contents, Workspaces, Metadata, Jobs
<1>2. JobAgrees'
  BY <1>0, StepFrame DEF StorageTypeOK, JobAgrees, Metadata, JobLabels
<1>3. InPlace'
  BY <1>0, StepFrame DEF StorageTypeOK, JobAgrees, InPlace, JobLabels, Workspaces
<1>4. Faultless'
  BY <1>0, StepFrame DEF StorageTypeOK, JobAgrees, InPlace, Faultless, CurrentStands, PendingStands,
                         JobLabels, Metadata
<1>5. SuccessIsWhole'
  BY <1>0, <1>2, <1>4, StepFrame DEF StorageTypeOK, JobAgrees, InPlace, Faultless, CurrentStands,
                                     SuccessIsWhole, JobLabels, Metadata
<1> QED BY <1>1, <1>2, <1>3, <1>4, <1>5

\* The step in which the previous tree is removed keeps the invariant of the storage.
LEMMA ClearPreviousKeeps ==
  ASSUME StorageInv, ClearPrevious
  PROVE  StorageInv'
<1> USE StorageAssumption DEF StorageInv, ClearPrevious, Removed, GivenUp, HasToPromote, NothingPending
<1>0. /\ job' \in Jobs /\ faults' \in 0..MaxFaults /\ faults \in 0..MaxFaults
      /\ faults' = faults \/ (faults' = faults + 1 /\ job'.pc = "done" /\ ~job'.ok)
      /\ job'.kind = job.kind /\ job'.pkg = job.pkg
      /\ job'.pc \in {"keep", "done"}
  BY StepFrame DEF StorageTypeOK, Works, JobLabels
<1>1. StorageTypeOK'
  BY <1>0 DEF StorageTypeOK, JobAgrees, Contents, Workspaces, Metadata, Jobs
<1>2. JobAgrees'
  BY <1>0, StepFrame DEF StorageTypeOK, JobAgrees, Metadata, JobLabels
<1>3. InPlace'
  BY <1>0, StepFrame DEF StorageTypeOK, JobAgrees, InPlace, JobLabels, Workspaces
<1>4. Faultless'
  BY <1>0, StepFrame DEF StorageTypeOK, JobAgrees, InPlace, Faultless, CurrentStands, PendingStands,
                         JobLabels, Metadata
<1>5. SuccessIsWhole'
  BY <1>0, <1>2, <1>4, StepFrame DEF StorageTypeOK, JobAgrees, InPlace, Faultless, CurrentStands,
                                     SuccessIsWhole, JobLabels, Metadata
<1> QED BY <1>1, <1>2, <1>3, <1>4, <1>5

\* The step in which current is renamed to previous keeps the invariant of the
\* storage.
LEMMA KeepPreviousKeeps ==
  ASSUME StorageInv, KeepPrevious
  PROVE  StorageInv'
<1> USE StorageAssumption DEF StorageInv, KeepPrevious, Removed, GivenUp
<1>0. /\ job' \in Jobs /\ faults' \in 0..MaxFaults /\ faults \in 0..MaxFaults
      /\ faults' = faults \/ (faults' = faults + 1 /\ job'.pc = "done" /\ ~job'.ok)
      /\ job'.kind = job.kind /\ job'.pkg = job.pkg
      /\ job'.pc \in {"promote", "done"}
  BY StepFrame DEF StorageTypeOK, Works, JobLabels
<1>1. StorageTypeOK'
  BY <1>0 DEF StorageTypeOK, JobAgrees, Contents, Workspaces, Metadata, Jobs
<1>2. JobAgrees'
  BY <1>0, StepFrame DEF StorageTypeOK, JobAgrees, Metadata, JobLabels
<1>3. InPlace'
  BY <1>0, StepFrame DEF StorageTypeOK, JobAgrees, InPlace, JobLabels, Workspaces
<1>4. Faultless'
  BY <1>0, StepFrame DEF StorageTypeOK, JobAgrees, InPlace, Faultless, CurrentStands, PendingStands,
                         JobLabels, Metadata
<1>5. SuccessIsWhole'
  BY <1>0, <1>2, <1>4, StepFrame DEF StorageTypeOK, JobAgrees, InPlace, Faultless, CurrentStands,
                                     SuccessIsWhole, JobLabels, Metadata
<1> QED BY <1>1, <1>2, <1>3, <1>4, <1>5

\* The step in which the staged tree is renamed to current keeps the invariant of
\* the storage.
LEMMA PromoteKeeps ==
  ASSUME StorageInv, Promote
  PROVE  StorageInv'
<1> USE StorageAssumption DEF StorageInv, Promote
<1>0. /\ job' \in Jobs /\ faults' \in 0..MaxFaults /\ faults \in 0..MaxFaults
      /\ faults' = faults \/ (faults' = faults + 1 /\ job'.pc = "done" /\ ~job'.ok)
      /\ job'.kind = job.kind /\ job'.pkg = job.pkg
      /\ job'.pc \in {"layout", "done"}
  BY StepFrame DEF StorageTypeOK, Works, JobLabels
<1>1. StorageTypeOK'
  BY <1>0 DEF StorageTypeOK, JobAgrees, Contents, Workspaces, Metadata, Jobs
<1>2. JobAgrees'
  BY <1>0, StepFrame DEF StorageTypeOK, JobAgrees, Metadata, JobLabels
<1>3. InPlace'
  BY <1>0, StepFrame DEF StorageTypeOK, JobAgrees, InPlace, JobLabels, Workspaces
<1>4. Faultless'
  BY <1>0, StepFrame DEF StorageTypeOK, JobAgrees, InPlace, Faultless, CurrentStands, PendingStands,
                         JobLabels, Metadata
<1>5. SuccessIsWhole'
  BY <1>0, <1>2, <1>4, StepFrame DEF StorageTypeOK, JobAgrees, InPlace, Faultless, CurrentStands,
                                     SuccessIsWhole, JobLabels, Metadata
<1> QED BY <1>1, <1>2, <1>3, <1>4, <1>5

\* The step in which the layout is made keeps the invariant of the storage.
LEMMA LayoutKeeps ==
  ASSUME StorageInv, Layout
  PROVE  StorageInv'
<1> USE StorageAssumption DEF StorageInv, Layout
<1>0. /\ job' \in Jobs /\ faults' \in 0..MaxFaults /\ faults \in 0..MaxFaults
      /\ faults' = faults \/ (faults' = faults + 1 /\ job'.pc = "done" /\ ~job'.ok)
      /\ job'.kind = job.kind /\ job'.pkg = job.pkg
      /\ job'.pc \in {"metadata", "copy", "done"}
  BY StepFrame DEF StorageTypeOK, Works, JobLabels
<1>1. StorageTypeOK'
  BY <1>0 DEF StorageTypeOK, JobAgrees, Contents, Workspaces, Metadata, Jobs
<1>2. JobAgrees'
  BY <1>0, StepFrame DEF StorageTypeOK, JobAgrees, Metadata, JobLabels
<1>3. InPlace'
  BY <1>0, StepFrame DEF StorageTypeOK, JobAgrees, InPlace, JobLabels, Workspaces
<1>4. Faultless'
  BY <1>0, StepFrame DEF StorageTypeOK, JobAgrees, InPlace, Faultless, CurrentStands, PendingStands,
                         JobLabels, Metadata
<1>5. SuccessIsWhole'
  BY <1>0, <1>2, <1>4, StepFrame DEF StorageTypeOK, JobAgrees, InPlace, Faultless, CurrentStands,
                                     SuccessIsWhole, JobLabels, Metadata
<1> QED BY <1>1, <1>2, <1>3, <1>4, <1>5

\* The step in which the old link to the configuration is removed keeps the
\* invariant of the storage.
LEMMA UnlinkConfigKeeps ==
  ASSUME StorageInv, UnlinkConfig
  PROVE  StorageInv'
<1> USE StorageAssumption DEF StorageInv, UnlinkConfig, Removed
<1>0. /\ job' \in Jobs /\ faults' \in 0..MaxFaults /\ faults \in 0..MaxFaults
      /\ faults' = faults \/ (faults' = faults + 1 /\ job'.pc = "done" /\ ~job'.ok)
      /\ job'.kind = job.kind /\ job'.pkg = job.pkg
      /\ job'.pc \in {"link", "done"}
  BY StepFrame DEF StorageTypeOK, Works, JobLabels
<1>1. StorageTypeOK'
  BY <1>0 DEF StorageTypeOK, JobAgrees, Contents, Workspaces, Metadata, Jobs
<1>2. JobAgrees'
  BY <1>0, StepFrame DEF StorageTypeOK, JobAgrees, Metadata, JobLabels
<1>3. InPlace'
  BY <1>0, StepFrame DEF StorageTypeOK, JobAgrees, InPlace, JobLabels, Workspaces
<1>4. Faultless'
  BY <1>0, StepFrame DEF StorageTypeOK, JobAgrees, InPlace, Faultless, CurrentStands, PendingStands,
                         JobLabels, Metadata
<1>5. SuccessIsWhole'
  BY <1>0, <1>2, <1>4, StepFrame DEF StorageTypeOK, JobAgrees, InPlace, Faultless, CurrentStands,
                                     SuccessIsWhole, JobLabels, Metadata
<1> QED BY <1>1, <1>2, <1>3, <1>4, <1>5

\* The step in which the link to the configuration is made keeps the invariant of
\* the storage.
LEMMA LinkConfigKeeps ==
  ASSUME StorageInv, LinkConfig
  PROVE  StorageInv'
<1> USE StorageAssumption DEF StorageInv, LinkConfig
<1>0. /\ job' \in Jobs /\ faults' \in 0..MaxFaults /\ faults \in 0..MaxFaults
      /\ faults' = faults \/ (faults' = faults + 1 /\ job'.pc = "done" /\ ~job'.ok)
      /\ job'.kind = job.kind /\ job'.pkg = job.pkg
      /\ job'.pc \in {"instructions", "done"}
  BY StepFrame DEF StorageTypeOK, Works, JobLabels
<1>1. StorageTypeOK'
  BY <1>0 DEF StorageTypeOK, JobAgrees, Contents, Workspaces, Metadata, Jobs
<1>2. JobAgrees'
  BY <1>0, StepFrame DEF StorageTypeOK, JobAgrees, Metadata, JobLabels
<1>3. InPlace'
  BY <1>0, StepFrame DEF StorageTypeOK, JobAgrees, InPlace, JobLabels, Workspaces
<1>4. Faultless'
  BY <1>0, StepFrame DEF StorageTypeOK, JobAgrees, InPlace, Faultless, CurrentStands, PendingStands,
                         JobLabels, Metadata
<1>5. SuccessIsWhole'
  BY <1>0, <1>2, <1>4, StepFrame DEF StorageTypeOK, JobAgrees, InPlace, Faultless, CurrentStands,
                                     SuccessIsWhole, JobLabels, Metadata
<1> QED BY <1>1, <1>2, <1>3, <1>4, <1>5

\* The step in which the instructions are synchronised keeps the invariant of the
\* storage.
LEMMA SyncInstructionsKeeps ==
  ASSUME StorageInv, SyncInstructions
  PROVE  StorageInv'
<1> USE StorageAssumption DEF StorageInv, SyncInstructions
<1>0. /\ job' \in Jobs /\ faults' \in 0..MaxFaults /\ faults \in 0..MaxFaults
      /\ faults' = faults \/ (faults' = faults + 1 /\ job'.pc = "done" /\ ~job'.ok)
      /\ job'.kind = job.kind /\ job'.pkg = job.pkg
      /\ job'.pc \in {"metadata", "done"}
  BY StepFrame DEF StorageTypeOK, Works, JobLabels
<1>1. StorageTypeOK'
  BY <1>0 DEF StorageTypeOK, JobAgrees, Contents, Workspaces, Metadata, Jobs
<1>2. JobAgrees'
  BY <1>0, StepFrame DEF StorageTypeOK, JobAgrees, Metadata, JobLabels
<1>3. InPlace'
  BY <1>0, StepFrame DEF StorageTypeOK, JobAgrees, InPlace, JobLabels, Workspaces
<1>4. Faultless'
  BY <1>0, StepFrame DEF StorageTypeOK, JobAgrees, InPlace, Faultless, CurrentStands, PendingStands,
                         JobLabels, Metadata
<1>5. SuccessIsWhole'
  BY <1>0, <1>2, <1>4, StepFrame DEF StorageTypeOK, JobAgrees, InPlace, Faultless, CurrentStands,
                                     SuccessIsWhole, JobLabels, Metadata
<1> QED BY <1>1, <1>2, <1>3, <1>4, <1>5

\* The step in which the metadata file is replaced keeps the invariant of the
\* storage.
LEMMA WriteMetadataKeeps ==
  ASSUME StorageInv, WriteMetadata
  PROVE  StorageInv'
<1> USE StorageAssumption DEF StorageInv, WriteMetadata, NewMetadata
<1>0. /\ job' \in Jobs /\ faults' \in 0..MaxFaults /\ faults \in 0..MaxFaults
      /\ faults' = faults \/ (faults' = faults + 1 /\ job'.pc = "done" /\ ~job'.ok)
      /\ job'.kind = job.kind /\ job'.pkg = job.pkg
      /\ job'.pc \in {"done"}
  BY StepFrame DEF StorageTypeOK, Works, JobLabels
<1>1. StorageTypeOK'
  BY <1>0 DEF StorageTypeOK, JobAgrees, Contents, Workspaces, Metadata, Jobs
<1>2. JobAgrees'
  BY <1>0, StepFrame DEF StorageTypeOK, JobAgrees, Metadata, JobLabels
<1>3. InPlace'
  BY <1>0, StepFrame DEF StorageTypeOK, JobAgrees, InPlace, JobLabels, Workspaces
<1>4. Faultless'
  BY <1>0, StepFrame DEF StorageTypeOK, JobAgrees, InPlace, Faultless, CurrentStands, PendingStands,
                         JobLabels, Metadata
<1>5. SuccessIsWhole'
  <2>1. job.kind \in {"Materialize", "Stage", "PromotePending"} /\ UNCHANGED <<current, pending, workspace>>
    BY DEF JobAgrees
  <2>2. CASE Succeed /\ metadata' = NewMetadata
    <3>1. CASE job.kind \in {"Materialize", "Stage"}
      BY <1>0, <2>1, <2>2, <3>1 DEF InPlace, JobAgrees, StorageTypeOK, Metadata, SuccessIsWhole
    <3>2. CASE job.kind = "PromotePending"
      BY <1>0, <1>2, <1>4, <2>1, <2>2, <3>2, StepFrame
         DEF JobAgrees, Faultless, CurrentStands, SuccessIsWhole, StorageTypeOK, Metadata
    <3> QED BY <2>1, <3>1, <3>2
  <2>3. CASE Fault
    BY <1>0, <2>3, StepFrame DEF SuccessIsWhole
  <2> QED BY <2>2, <2>3
<1> QED BY <1>1, <1>2, <1>3, <1>4, <1>5

\* The step in which the workflow's directory is removed keeps the invariant of the
\* storage.
LEMMA DeleteRootKeeps ==
  ASSUME StorageInv, DeleteRoot
  PROVE  StorageInv'
<1> USE StorageAssumption DEF StorageInv, DeleteRoot, Removed
<1>0. /\ job' \in Jobs /\ faults' \in 0..MaxFaults /\ faults \in 0..MaxFaults
      /\ faults' = faults \/ (faults' = faults + 1 /\ job'.pc = "done" /\ ~job'.ok)
      /\ job'.kind = job.kind /\ job'.pkg = job.pkg
      /\ job'.pc \in {"done"}
  BY StepFrame DEF StorageTypeOK, Works, JobLabels
<1>1. StorageTypeOK'
  BY <1>0 DEF StorageTypeOK, JobAgrees, Contents, Workspaces, Metadata, Jobs
<1>2. JobAgrees'
  BY <1>0, StepFrame DEF StorageTypeOK, JobAgrees, Metadata, JobLabels
<1>3. InPlace'
  BY <1>0, StepFrame DEF StorageTypeOK, JobAgrees, InPlace, JobLabels, Workspaces
<1>4. Faultless'
  BY <1>0, StepFrame DEF StorageTypeOK, JobAgrees, InPlace, Faultless, CurrentStands, PendingStands,
                         JobLabels, Metadata
<1>5. SuccessIsWhole'
  <2>1. job'.kind = "Delete"
    BY <1>0 DEF JobAgrees
  <2>2. job'.ok => current' = Absent /\ previous' = Absent /\ pending' = Absent /\ metadata' = Absent
    BY <1>0, StepFrame
  <2> QED BY <2>1, <2>2 DEF SuccessIsWhole
<1> QED BY <1>1, <1>2, <1>3, <1>4, <1>5

\* The step in which current is copied into the staged tree keeps the invariant of
\* the storage.
LEMMA CopyCurrentKeeps ==
  ASSUME StorageInv, CopyCurrent
  PROVE  StorageInv'
<1>1. /\ job' \in Jobs /\ job'.kind = job.kind /\ job'.pkg = job.pkg
      /\ \/ job'.pc = "unlink" /\ job'.copied = current /\ faults' = faults
         \/ job'.pc = "done" /\ ~job'.ok /\ faults' = faults + 1
         \/ job'.pc = "done" /\ ~job'.ok /\ faults' = faults /\ current = Absent
  <2>1. job \in Jobs /\ current \in Contents
    BY DEF StorageInv, StorageTypeOK
  <2>2. job' = [job EXCEPT !.pc = "unlink", !.copied = current]
        => /\ job' \in Jobs /\ job'.kind = job.kind /\ job'.pkg = job.pkg
           /\ job'.pc = "unlink" /\ job'.copied = current
    BY <2>1 DEF Jobs, JobLabels
  <2>3. Fail => /\ job' \in Jobs /\ job'.kind = job.kind /\ job'.pkg = job.pkg
                /\ job'.pc = "done" /\ ~job'.ok
    BY <2>1 DEF Fail, Jobs, JobLabels
  <2> QED BY <2>2, <2>3, Zenon DEF CopyCurrent, Fault, Works
<1>2. /\ faults \in 0..MaxFaults /\ faults' \in 0..MaxFaults
      /\ UNCHANGED directories /\ job.pc = "copy"
  BY StepFrame DEF StorageInv, StorageTypeOK, CopyCurrent, Works
<1> USE <1>1, <1>2 DEF StorageInv, directories
<1>3. StorageTypeOK'
  BY DEF StorageTypeOK
<1>4. JobAgrees'
  BY DEF JobAgrees
<1>5. InPlace'
  BY DEF InPlace, JobAgrees
<1>6. Faultless'
  BY StorageAssumption DEF Faultless, CurrentStands, PendingStands, InPlace, JobAgrees,
                           StorageTypeOK, Metadata
<1>7. SuccessIsWhole'
  BY DEF SuccessIsWhole
<1> QED BY <1>3, <1>4, <1>5, <1>6, <1>7

\* Every step of the storage keeps its invariant.
LEMMA StorageStepKeeps ==
  ASSUME StorageInv, StorageStep
  PROVE  StorageInv'
  BY PrepareKeeps, WriteFilesKeeps, ClearPreviousKeeps, KeepPreviousKeeps, PromoteKeeps,
     LayoutKeeps, CopyCurrentKeeps, UnlinkConfigKeeps, LinkConfigKeeps, SyncInstructionsKeeps,
     WriteMetadataKeeps, DeleteRootKeeps DEF StorageStep

-----------------------------------------------------------------------------
(* One failure does not lose the package                                   *)

\* The step in which the new tree is prepared loses no package.
LEMMA PrepareSurvives ==
  ASSUME StorageInv, Survives, Prepare
  PROVE  Survives'
<1> USE StorageAssumption DEF Prepare, Removed, IsWhole
<1>0. /\ StorageTypeOK /\ JobAgrees /\ faults \in Nat
      /\ faults' = faults \/ (faults' = faults + 1 /\ job'.pc = "done")
      /\ job'.kind = job.kind
  BY StepFrame DEF StorageInv, StorageTypeOK, Works, JobLabels
<1> SUFFICES ASSUME faults' <= 1, metadata' # Absent
             PROVE  WholeSomewhere' /\ PendingReplaces' /\ NothingFailedYet'
  BY DEF Survives
<1>1. InPlace /\ (metadata # Absent => WholeSomewhere /\ PendingReplaces /\ NothingFailedYet)
  BY <1>0 DEF Survives, StorageInv
<1>2. WholeSomewhere'
  BY <1>0, <1>1, StepFrame DEF InPlace, WholeSomewhere, PendingReplaces, NothingFailedYet, JobAgrees,
                               JobLabels
<1>3. PendingReplaces'
  BY <1>0, <1>1, StepFrame DEF InPlace, WholeSomewhere, PendingReplaces, NothingFailedYet, JobAgrees,
                               JobLabels, StorageTypeOK, Metadata
<1>4. NothingFailedYet'
  BY <1>0, <1>1, StepFrame DEF InPlace, WholeSomewhere, PendingReplaces, NothingFailedYet, JobAgrees,
                               JobLabels
<1> QED BY <1>2, <1>3, <1>4

\* The step in which its files are written loses no package, whether it succeeds or
\* fails.
LEMMA WriteFilesSurvives ==
  ASSUME StorageInv, Survives, WriteFiles
  PROVE  Survives'
<1> USE StorageAssumption DEF WriteFiles, IsWhole
<1>0. /\ StorageTypeOK /\ JobAgrees /\ faults \in Nat
      /\ faults' = faults \/ (faults' = faults + 1 /\ job'.pc = "done")
      /\ job'.kind = job.kind
  BY StepFrame DEF StorageInv, StorageTypeOK, Works, JobLabels
<1> SUFFICES ASSUME faults' <= 1, metadata' # Absent
             PROVE  WholeSomewhere' /\ PendingReplaces' /\ NothingFailedYet'
  BY DEF Survives
<1>1. InPlace /\ (metadata # Absent => WholeSomewhere /\ PendingReplaces /\ NothingFailedYet)
  BY <1>0 DEF Survives, StorageInv
<1>2. WholeSomewhere'
  BY <1>0, <1>1, StepFrame DEF InPlace, WholeSomewhere, PendingReplaces, NothingFailedYet, JobAgrees,
                               JobLabels
<1>3. PendingReplaces'
  BY <1>0, <1>1, StepFrame DEF InPlace, WholeSomewhere, PendingReplaces, NothingFailedYet, JobAgrees,
                               JobLabels, StorageTypeOK, Metadata
<1>4. NothingFailedYet'
  BY <1>0, <1>1, StepFrame DEF InPlace, WholeSomewhere, PendingReplaces, NothingFailedYet, JobAgrees,
                               JobLabels
<1> QED BY <1>2, <1>3, <1>4

\* The step in which the previous tree is removed loses no package, whether it
\* succeeds or fails.
LEMMA ClearPreviousSurvives ==
  ASSUME StorageInv, Survives, ClearPrevious
  PROVE  Survives'
<1> USE StorageAssumption DEF ClearPrevious, Removed, GivenUp, HasToPromote, NothingPending, IsWhole
<1>0. /\ StorageTypeOK /\ JobAgrees /\ faults \in Nat
      /\ faults' = faults \/ (faults' = faults + 1 /\ job'.pc = "done")
      /\ job'.kind = job.kind
  BY StepFrame DEF StorageInv, StorageTypeOK, Works, JobLabels
<1> SUFFICES ASSUME faults' <= 1, metadata' # Absent
             PROVE  WholeSomewhere' /\ PendingReplaces' /\ NothingFailedYet'
  BY DEF Survives
<1>1. InPlace /\ (metadata # Absent => WholeSomewhere /\ PendingReplaces /\ NothingFailedYet)
  BY <1>0 DEF Survives, StorageInv
<1>2. WholeSomewhere'
  BY <1>0, <1>1, StepFrame DEF InPlace, WholeSomewhere, PendingReplaces, NothingFailedYet, JobAgrees,
                               JobLabels
<1>3. PendingReplaces'
  BY <1>0, <1>1, StepFrame DEF InPlace, WholeSomewhere, PendingReplaces, NothingFailedYet, JobAgrees,
                               JobLabels, StorageTypeOK, Metadata
<1>4. NothingFailedYet'
  BY <1>0, <1>1, StepFrame DEF InPlace, WholeSomewhere, PendingReplaces, NothingFailedYet, JobAgrees,
                               JobLabels
<1> QED BY <1>2, <1>3, <1>4

\* The step in which current is renamed to previous loses no package, whether it
\* succeeds or fails.
LEMMA KeepPreviousSurvives ==
  ASSUME StorageInv, Survives, KeepPrevious
  PROVE  Survives'
<1> USE StorageAssumption DEF KeepPrevious, Removed, GivenUp, IsWhole
<1>0. /\ StorageTypeOK /\ JobAgrees /\ faults \in Nat
      /\ faults' = faults \/ (faults' = faults + 1 /\ job'.pc = "done")
      /\ job'.kind = job.kind
  BY StepFrame DEF StorageInv, StorageTypeOK, Works, JobLabels
<1> SUFFICES ASSUME faults' <= 1, metadata' # Absent
             PROVE  WholeSomewhere' /\ PendingReplaces' /\ NothingFailedYet'
  BY DEF Survives
<1>1. InPlace /\ (metadata # Absent => WholeSomewhere /\ PendingReplaces /\ NothingFailedYet)
  BY <1>0 DEF Survives, StorageInv
<1>2. WholeSomewhere'
  BY <1>0, <1>1, StepFrame DEF InPlace, WholeSomewhere, PendingReplaces, NothingFailedYet, JobAgrees,
                               JobLabels
<1>3. PendingReplaces'
  BY <1>0, <1>1, StepFrame DEF InPlace, WholeSomewhere, PendingReplaces, NothingFailedYet, JobAgrees,
                               JobLabels, StorageTypeOK, Metadata
<1>4. NothingFailedYet'
  BY <1>0, <1>1, StepFrame DEF InPlace, WholeSomewhere, PendingReplaces, NothingFailedYet, JobAgrees,
                               JobLabels
<1> QED BY <1>2, <1>3, <1>4

\* The step in which the staged tree is renamed to current loses no package, whether
\* it succeeds or fails.
LEMMA PromoteSurvives ==
  ASSUME StorageInv, Survives, Promote
  PROVE  Survives'
<1> USE StorageAssumption DEF Promote, IsWhole
<1>0. /\ StorageTypeOK /\ JobAgrees /\ faults \in Nat
      /\ faults' = faults \/ (faults' = faults + 1 /\ job'.pc = "done")
      /\ job'.kind = job.kind
  BY StepFrame DEF StorageInv, StorageTypeOK, Works, JobLabels
<1> SUFFICES ASSUME faults' <= 1, metadata' # Absent
             PROVE  WholeSomewhere' /\ PendingReplaces' /\ NothingFailedYet'
  BY DEF Survives
<1>1. InPlace /\ (metadata # Absent => WholeSomewhere /\ PendingReplaces /\ NothingFailedYet)
  BY <1>0 DEF Survives, StorageInv
<1>2. WholeSomewhere'
  BY <1>0, <1>1, StepFrame DEF InPlace, WholeSomewhere, PendingReplaces, NothingFailedYet, JobAgrees,
                               JobLabels
<1>3. PendingReplaces'
  BY <1>0, <1>1, StepFrame DEF InPlace, WholeSomewhere, PendingReplaces, NothingFailedYet, JobAgrees,
                               JobLabels, StorageTypeOK, Metadata
<1>4. NothingFailedYet'
  BY <1>0, <1>1, StepFrame DEF InPlace, WholeSomewhere, PendingReplaces, NothingFailedYet, JobAgrees,
                               JobLabels
<1> QED BY <1>2, <1>3, <1>4

\* The step in which the layout is made loses no package, whether it succeeds or
\* fails.
LEMMA LayoutSurvives ==
  ASSUME StorageInv, Survives, Layout
  PROVE  Survives'
<1> USE StorageAssumption DEF Layout, IsWhole
<1>0. /\ StorageTypeOK /\ JobAgrees /\ faults \in Nat
      /\ faults' = faults \/ (faults' = faults + 1 /\ job'.pc = "done")
      /\ job'.kind = job.kind
  BY StepFrame DEF StorageInv, StorageTypeOK, Works, JobLabels
<1> SUFFICES ASSUME faults' <= 1, metadata' # Absent
             PROVE  WholeSomewhere' /\ PendingReplaces' /\ NothingFailedYet'
  BY DEF Survives
<1>1. InPlace /\ (metadata # Absent => WholeSomewhere /\ PendingReplaces /\ NothingFailedYet)
  BY <1>0 DEF Survives, StorageInv
<1>2. WholeSomewhere'
  BY <1>0, <1>1, StepFrame DEF InPlace, WholeSomewhere, PendingReplaces, NothingFailedYet, JobAgrees,
                               JobLabels
<1>3. PendingReplaces'
  BY <1>0, <1>1, StepFrame DEF InPlace, WholeSomewhere, PendingReplaces, NothingFailedYet, JobAgrees,
                               JobLabels, StorageTypeOK, Metadata
<1>4. NothingFailedYet'
  BY <1>0, <1>1, StepFrame DEF InPlace, WholeSomewhere, PendingReplaces, NothingFailedYet, JobAgrees,
                               JobLabels
<1> QED BY <1>2, <1>3, <1>4

\* The step in which the old link to the configuration is removed loses no package,
\* whether it succeeds or fails.
LEMMA UnlinkConfigSurvives ==
  ASSUME StorageInv, Survives, UnlinkConfig
  PROVE  Survives'
<1> USE StorageAssumption DEF UnlinkConfig, IsWhole
<1>0. /\ StorageTypeOK /\ JobAgrees /\ faults \in Nat
      /\ faults' = faults \/ (faults' = faults + 1 /\ job'.pc = "done")
      /\ job'.kind = job.kind
  BY StepFrame DEF StorageInv, StorageTypeOK, Works, JobLabels
<1> SUFFICES ASSUME faults' <= 1, metadata' # Absent
             PROVE  WholeSomewhere' /\ PendingReplaces' /\ NothingFailedYet'
  BY DEF Survives
<1>1. InPlace /\ (metadata # Absent => WholeSomewhere /\ PendingReplaces /\ NothingFailedYet)
  BY <1>0 DEF Survives, StorageInv
<1>2. WholeSomewhere'
  BY <1>0, <1>1, StepFrame DEF InPlace, WholeSomewhere, PendingReplaces, NothingFailedYet, JobAgrees,
                               JobLabels
<1>3. PendingReplaces'
  BY <1>0, <1>1, StepFrame DEF InPlace, WholeSomewhere, PendingReplaces, NothingFailedYet, JobAgrees,
                               JobLabels, StorageTypeOK, Metadata
<1>4. NothingFailedYet'
  BY <1>0, <1>1, StepFrame DEF InPlace, WholeSomewhere, PendingReplaces, NothingFailedYet, JobAgrees,
                               JobLabels
<1> QED BY <1>2, <1>3, <1>4

\* The step in which the link to the configuration is made loses no package, whether
\* it succeeds or fails.
LEMMA LinkConfigSurvives ==
  ASSUME StorageInv, Survives, LinkConfig
  PROVE  Survives'
<1> USE StorageAssumption DEF LinkConfig, IsWhole
<1>0. /\ StorageTypeOK /\ JobAgrees /\ faults \in Nat
      /\ faults' = faults \/ (faults' = faults + 1 /\ job'.pc = "done")
      /\ job'.kind = job.kind
  BY StepFrame DEF StorageInv, StorageTypeOK, Works, JobLabels
<1> SUFFICES ASSUME faults' <= 1, metadata' # Absent
             PROVE  WholeSomewhere' /\ PendingReplaces' /\ NothingFailedYet'
  BY DEF Survives
<1>1. InPlace /\ (metadata # Absent => WholeSomewhere /\ PendingReplaces /\ NothingFailedYet)
  BY <1>0 DEF Survives, StorageInv
<1>2. WholeSomewhere'
  BY <1>0, <1>1, StepFrame DEF InPlace, WholeSomewhere, PendingReplaces, NothingFailedYet, JobAgrees,
                               JobLabels
<1>3. PendingReplaces'
  BY <1>0, <1>1, StepFrame DEF InPlace, WholeSomewhere, PendingReplaces, NothingFailedYet, JobAgrees,
                               JobLabels, StorageTypeOK, Metadata
<1>4. NothingFailedYet'
  BY <1>0, <1>1, StepFrame DEF InPlace, WholeSomewhere, PendingReplaces, NothingFailedYet, JobAgrees,
                               JobLabels
<1> QED BY <1>2, <1>3, <1>4

\* The step in which the instructions are synchronised loses no package, whether it
\* succeeds or fails.
LEMMA SyncInstructionsSurvives ==
  ASSUME StorageInv, Survives, SyncInstructions
  PROVE  Survives'
<1> USE StorageAssumption DEF SyncInstructions, IsWhole
<1>0. /\ StorageTypeOK /\ JobAgrees /\ faults \in Nat
      /\ faults' = faults \/ (faults' = faults + 1 /\ job'.pc = "done")
      /\ job'.kind = job.kind
  BY StepFrame DEF StorageInv, StorageTypeOK, Works, JobLabels
<1> SUFFICES ASSUME faults' <= 1, metadata' # Absent
             PROVE  WholeSomewhere' /\ PendingReplaces' /\ NothingFailedYet'
  BY DEF Survives
<1>1. InPlace /\ (metadata # Absent => WholeSomewhere /\ PendingReplaces /\ NothingFailedYet)
  BY <1>0 DEF Survives, StorageInv
<1>2. WholeSomewhere'
  BY <1>0, <1>1, StepFrame DEF InPlace, WholeSomewhere, PendingReplaces, NothingFailedYet, JobAgrees,
                               JobLabels
<1>3. PendingReplaces'
  BY <1>0, <1>1, StepFrame DEF InPlace, WholeSomewhere, PendingReplaces, NothingFailedYet, JobAgrees,
                               JobLabels, StorageTypeOK, Metadata
<1>4. NothingFailedYet'
  BY <1>0, <1>1, StepFrame DEF InPlace, WholeSomewhere, PendingReplaces, NothingFailedYet, JobAgrees,
                               JobLabels
<1> QED BY <1>2, <1>3, <1>4

\* The step in which the metadata file is replaced loses no package, whether it
\* succeeds or fails.
LEMMA WriteMetadataSurvives ==
  ASSUME StorageInv, Survives, WriteMetadata
  PROVE  Survives'
<1> USE StorageAssumption DEF WriteMetadata, NewMetadata, IsWhole
<1>0. /\ StorageTypeOK /\ JobAgrees /\ faults \in Nat
      /\ faults' = faults \/ (faults' = faults + 1 /\ job'.pc = "done")
      /\ job'.kind = job.kind
  BY StepFrame DEF StorageInv, StorageTypeOK, Works, JobLabels
<1> SUFFICES ASSUME faults' <= 1, metadata' # Absent
             PROVE  WholeSomewhere' /\ PendingReplaces' /\ NothingFailedYet'
  BY DEF Survives
<1>1. InPlace /\ (metadata # Absent => WholeSomewhere /\ PendingReplaces /\ NothingFailedYet)
  BY <1>0 DEF Survives, StorageInv
<1>2. WholeSomewhere'
  BY <1>0, <1>1, StepFrame DEF InPlace, WholeSomewhere, PendingReplaces, NothingFailedYet, JobAgrees,
                               JobLabels
<1>3. PendingReplaces'
  BY <1>0, <1>1, StepFrame DEF InPlace, WholeSomewhere, PendingReplaces, NothingFailedYet, JobAgrees,
                               JobLabels, StorageTypeOK, Metadata
<1>4. NothingFailedYet'
  BY <1>0, <1>1, StepFrame DEF InPlace, WholeSomewhere, PendingReplaces, NothingFailedYet, JobAgrees,
                               JobLabels
<1> QED BY <1>2, <1>3, <1>4

\* The step in which current is copied into the staged tree loses no package,
\* whether it succeeds or fails.
LEMMA CopyCurrentSurvives ==
  ASSUME StorageInv, Survives, CopyCurrent
  PROVE  Survives'
<1> USE DEF Survives, WholeSomewhere, PendingReplaces, NothingFailedYet, directories, IsWhole
<1>1. /\ job.pc = "copy" /\ UNCHANGED directories /\ job'.kind = job.kind
      /\ job'.pc \in {"unlink", "done"}
      /\ \/ faults' = faults /\ (job'.pc = "done" => current = Absent)
         \/ faults' = faults + 1
  <2>1. job \in Jobs /\ job.pc = "copy" /\ UNCHANGED directories
    BY DEF StorageInv, StorageTypeOK, CopyCurrent
  <2>2. job' = [job EXCEPT !.pc = "unlink", !.copied = current]
        => job'.kind = job.kind /\ job'.pc = "unlink"
    BY <2>1 DEF Jobs
  <2>3. Fail => job'.kind = job.kind /\ job'.pc = "done"
    BY <2>1 DEF Fail, Jobs
  <2> QED BY <2>1, <2>2, <2>3, Zenon DEF CopyCurrent, Fault, Works
<1>2. faults \in Nat /\ JobAgrees /\ InPlace
  BY DEF StorageInv, StorageTypeOK
<1> QED BY <1>1, <1>2, StorageAssumption DEF JobAgrees, InPlace

\* Every step of the storage but those of a deletion loses no package.
LEMMA StorageStepSurvives ==
  ASSUME StorageInv, Survives, StorageStep, job.kind # "Delete"
  PROVE  Survives'
<1>1. ~DeleteRoot
  BY DEF StorageInv, JobAgrees, DeleteRoot
<1> QED
  BY <1>1, PrepareSurvives, WriteFilesSurvives, ClearPreviousSurvives, KeepPreviousSurvives,
     PromoteSurvives, LayoutSurvives, CopyCurrentSurvives, UnlinkConfigSurvives,
     LinkConfigSurvives, SyncInstructionsSurvives, WriteMetadataSurvives DEF StorageStep

\* An operation begins or its result is taken.
LEMMA BeginSurvives ==
  ASSUME Survives, job.pc \in {"idle", "done"}, UNCHANGED <<directories, faults>>,
         job'.pc \in {"idle", "prepare", "clear", "delete"},
         job'.pc = "clear" => job'.kind = "PromotePending"
  PROVE  Survives'
  BY DEF Survives, WholeSomewhere, PendingReplaces, NothingFailedYet, directories, IsWhole

\* A stop of the process between two steps of the storage loses none either, unless it is one
\* of a deletion.
LEMMA StopSurvives ==
  ASSUME StorageInv, Survives, StorageStops, faults' = faults + 1, job.pc # "delete"
  PROVE  Survives'
<1> USE DEF Survives, WholeSomewhere, PendingReplaces, NothingFailedYet, IsWhole
<1>1. faults \in Nat /\ JobAgrees /\ InPlace
  BY DEF StorageInv, StorageTypeOK
<1>2. /\ job'.pc = "idle" /\ current' = current
      /\ previous' = previous \/ job.pc = "clear"
      /\ pending' = pending \/ job.pc \in {"write", "prepare"}
      /\ metadata' \in {metadata, Absent}
  BY <1>1 DEF StorageStops, Left, IdleJob, JobAgrees
<1> QED BY <1>1, <1>2 DEF JobAgrees, InPlace

\* A stop of the process keeps the invariant of the storage.
LEMMA StopKeeps ==
  ASSUME StorageInv, StorageStops, faults' \in 0..MaxFaults, faults' = faults + 1
  PROVE  StorageInv'
<1> USE DEF StorageInv, StorageStops, IdleJob, Left, Removed
<1>1. StorageTypeOK'
  BY DEF StorageTypeOK, Contents, Workspaces, Jobs, JobLabels
<1>2. JobAgrees'
  BY KindsAssumption DEF JobAgrees, JobKinds
<1>3. InPlace'
  BY KindsAssumption DEF InPlace, JobKinds
<1>4. Faultless'
  BY DEF Faultless, StorageTypeOK
<1>5. SuccessIsWhole'
  BY DEF SuccessIsWhole
<1> QED BY <1>1, <1>2, <1>3, <1>4, <1>5

-----------------------------------------------------------------------------
(* The handlers                                                            *)

\* What a step of h does to the handlers.
StepTo(h, pc, copy, then) ==
  /\ handlers' \in [Handlers -> HandlerRecords]
  /\ PC(h)' = pc /\ Copy(h)' = copy /\ ThenOf(h)' = then
  /\ Cmd(h)' = Cmd(h)
  /\ \A g \in Handlers : g # h => handlers'[g] = handlers[g]

\* A step that replaces the record of one handler and leaves its command alone.
LEMMA RecordFrame ==
  ASSUME handlers \in [Handlers -> HandlerRecords], NEW h \in Handlers, NEW r \in HandlerRecords,
         handlers' = [handlers EXCEPT ![h] = r], r.cmd = handlers[h].cmd
  PROVE  StepTo(h, r.pc, r.copy, r.then)
<1>1. /\ handlers' \in [Handlers -> HandlerRecords] /\ handlers'[h] = r
      /\ \A g \in Handlers : g # h => handlers'[g] = handlers[g]
  OBVIOUS
<1>2. PC(h)' = r.pc /\ Copy(h)' = r.copy /\ ThenOf(h)' = r.then /\ Cmd(h)' = Cmd(h)
  BY <1>1 DEF PC, Copy, ThenOf, Cmd
<1> QED BY <1>1, <1>2 DEF StepTo

\* Move changes the label of one handler and nothing else of the handlers.
LEMMA MoveFrame ==
  ASSUME handlers \in [Handlers -> HandlerRecords], NEW h \in Handlers, NEW pc \in HandlerLabels
  PROVE  Move(h, pc) => StepTo(h, pc, Copy(h), ThenOf(h))
  BY DEF Move, StepTo, HandlerRecords, Copy, ThenOf, PC, Cmd

\* MoveWith changes the label and the copy of one handler.
LEMMA MoveWithFrame ==
  ASSUME handlers \in [Handlers -> HandlerRecords], NEW h \in Handlers, NEW pc \in HandlerLabels,
         NEW copy \in Records \cup {Null}
  PROVE  MoveWith(h, pc, copy) => StepTo(h, pc, copy, ThenOf(h))
<1> SUFFICES ASSUME MoveWith(h, pc, copy) PROVE StepTo(h, pc, copy, ThenOf(h))
  OBVIOUS
<1> DEFINE r == [handlers[h] EXCEPT !.pc = pc, !.copy = copy]
<1>1. handlers' = [handlers EXCEPT ![h] = r]
  BY DEF MoveWith
<1>2. /\ r \in HandlerRecords /\ r.pc = pc /\ r.copy = copy
      /\ r.then = handlers[h].then /\ r.cmd = handlers[h].cmd
  BY DEF HandlerRecords
<1> HIDE DEF r
<1> QED BY <1>1, <1>2, RecordFrame DEF Copy, ThenOf

\* An update of label and continuation is a StepTo.
LEMMA ThenFrame ==
  ASSUME handlers \in [Handlers -> HandlerRecords], NEW h \in Handlers, NEW pc \in HandlerLabels,
         NEW then \in HandlerLabels,
         handlers' = [handlers EXCEPT ![h].pc = pc, ![h].then = then]
  PROVE  StepTo(h, pc, Copy(h), then)
<1> DEFINE r == [handlers[h] EXCEPT !.pc = pc, !.then = then]
<1>1. handlers' = [handlers EXCEPT ![h] = r]
  OBVIOUS
<1>2. /\ r \in HandlerRecords /\ r.pc = pc /\ r.then = then
      /\ r.copy = handlers[h].copy /\ r.cmd = handlers[h].cmd
  BY DEF HandlerRecords
<1> HIDE DEF r
<1> QED BY <1>1, <1>2, RecordFrame DEF Copy, ThenOf

\* An update of label, continuation and copy is a StepTo, in this order of the
\* fields.
LEMMA ThenWithFrame ==
  ASSUME handlers \in [Handlers -> HandlerRecords], NEW h \in Handlers, NEW pc \in HandlerLabels,
         NEW then \in HandlerLabels, NEW copy \in Records \cup {Null},
         handlers' = [handlers EXCEPT ![h].pc = pc, ![h].then = then, ![h].copy = copy]
  PROVE  StepTo(h, pc, copy, then)
<1> DEFINE r == [handlers[h] EXCEPT !.pc = pc, !.then = then, !.copy = copy]
<1>1. handlers' = [handlers EXCEPT ![h] = r]
  OBVIOUS
<1>2. /\ r \in HandlerRecords /\ r.pc = pc /\ r.then = then
      /\ r.copy = copy /\ r.cmd = handlers[h].cmd
  BY DEF HandlerRecords
<1> HIDE DEF r
<1> QED BY <1>1, <1>2, RecordFrame DEF Copy, ThenOf

\* And in this one.
LEMMA WithThenFrame ==
  ASSUME handlers \in [Handlers -> HandlerRecords], NEW h \in Handlers, NEW pc \in HandlerLabels,
         NEW then \in HandlerLabels, NEW copy \in Records \cup {Null},
         handlers' = [handlers EXCEPT ![h].pc = pc, ![h].copy = copy, ![h].then = then]
  PROVE  StepTo(h, pc, copy, then)
<1> DEFINE r == [handlers[h] EXCEPT !.pc = pc, !.copy = copy, !.then = then]
<1>1. handlers' = [handlers EXCEPT ![h] = r]
  OBVIOUS
<1>2. /\ r \in HandlerRecords /\ r.pc = pc /\ r.then = then
      /\ r.copy = copy /\ r.cmd = handlers[h].cmd
  BY DEF HandlerRecords
<1> HIDE DEF r
<1> QED BY <1>1, <1>2, RecordFrame DEF Copy, ThenOf

\* Conclude ends one handler and gives its lock back.
LEMMA ConcludeFrame ==
  ASSUME handlers \in [Handlers -> HandlerRecords], NEW h \in Handlers, NEW ok \in BOOLEAN
  PROVE  Conclude(h, ok) => /\ StepTo(h, "done", Copy(h), ThenOf(h))
                            /\ lock' = IF lock = h THEN Null ELSE lock
<1> SUFFICES ASSUME Conclude(h, ok) PROVE StepTo(h, "done", Copy(h), ThenOf(h))
  BY DEF Conclude
<1> DEFINE r == [handlers[h] EXCEPT !.pc = "done", !.ok = ok]
<1>1. handlers' = [handlers EXCEPT ![h] = r]
  BY DEF Conclude
<1>2. /\ r \in HandlerRecords /\ r.pc = "done" /\ r.then = handlers[h].then
      /\ r.copy = handlers[h].copy /\ r.cmd = handlers[h].cmd
  BY ZenonT(30) DEF HandlerRecords, HandlerLabels
<1> HIDE DEF r
<1> QED BY <1>1, <1>2, RecordFrame DEF Copy, ThenOf

\* The handlers that do not move, as far as nothing they rely on changes.
LEMMA OthersAgree ==
  ASSUME ServiceInv, NEW h \in Handlers, NEW g \in Handlers, g # h, handlers'[g] = handlers[g]
  PROVE  /\ PhaseAgrees(g)' /\ HasCopy(g)'
         /\ PC(g)' = PC(g) /\ Op(g)' = Op(g) /\ ThenOf(g)' = ThenOf(g) /\ Copy(g)' = Copy(g)
         /\ Locks(g)' = Locks(g) /\ Restarts(g)' = Restarts(g)
  BY DEF ServiceInv, PhaseAgrees, HasCopy, PC, Op, ThenOf, Copy, Locks, Restarts

\* A step of a handler that touches neither the storage nor what the record says of the
\* package.
LEMMA HandlerMoves ==
  ASSUME ServiceInv, NEW h \in Handlers, NEW pc, NEW copy, NEW then, StepTo(h, pc, copy, then),
         UNCHANGED storageVars,
         record' \in Records \cup {Null},
         record = Null => record' = Null,
         record # Null => record' # Null /\ record'.active = record.active,
         runs' \in [Handlers -> Connections \cup {Null, Ended}],
         lock' \in Handlers \cup {Null},
         \A g \in Handlers : g # h /\ lock = g => lock' = g,
         PC(h) \notin {"store", "put"}, pc \notin {"store", "put"},
         PhaseAgrees(h)', HasCopy(h)',
         Locks(h)' => lock' = h,
         Restarts(h)' => record # Null /\ copy.active = record.active
  PROVE  ServiceInv'
<1>1. StorageInv'
  BY DEF ServiceInv, StorageInv, StorageTypeOK, JobAgrees, InPlace, Faultless,
        SuccessIsWhole, CurrentStands, PendingStands, storageVars
<1>2. ServiceTypeOK'
  BY DEF ServiceTypeOK, StepTo
<1>3. \A g \in Handlers : PhaseAgrees(g)' /\ HasCopy(g)'
  BY OthersAgree DEF StepTo
<1>4. LockAgrees'
  <2>1. \A g \in Handlers : Locks(g)' => lock' = g
    BY OthersAgree DEF StepTo, ServiceInv, LockAgrees
  <2>2. \A g \in Handlers : Waits(g)'
    BY OthersAgree DEF StepTo, ServiceInv, LockAgrees, Waits, storageVars
  <2>3. job' # job \/ \A g \in Handlers : PC(g)' = "store" <=> PC(g) = "store"
    BY OthersAgree DEF StepTo
  <2> QED BY <2>1, <2>2, <2>3 DEF ServiceInv, LockAgrees, storageVars
<1>5. RecordAgrees'
  <2>1. Settled' <=> Settled
    BY DEF Settled, storageVars
  <2>2. \A g \in Handlers : Changing(g)' <=> Changing(g)
    BY OthersAgree DEF StepTo, Changing, storageVars
  <2>3. \A g \in Handlers :
          /\ PC(g)' = "put" => \/ metadata' \in Metadata
                               \/ Op(g)' = "RestartWorkflow" /\ Copy(g)'.pending = Absent /\ Settled'
          /\ PC(g)' = "store" /\ Op(g)' = "RestartWorkflow" => Copy(g)'.pending # Absent
          /\ PC(g)' = "put" /\ Op(g)' = "RestartWorkflow" /\ Copy(g)'.pending = Absent => Settled'
    BY <2>1, OthersAgree DEF StepTo, storageVars, ServiceInv, RecordAgrees
  <2>4. \A g \in Handlers : Restarts(g)' => record' # Null /\ Copy(g)'.active = record'.active
    BY OthersAgree DEF StepTo, ServiceInv, RecordAgrees
  <2> QED BY <2>1, <2>2, <2>3, <2>4 DEF ServiceInv, RecordAgrees
<1> QED BY <1>1, <1>2, <1>3, <1>4, <1>5 DEF ServiceInv

-----------------------------------------------------------------------------
(* The steps that leave the storage alone                                  *)

\* What every step of a handler is proved from.
LEMMA HandlerFacts ==
  ASSUME ServiceInv, NEW h \in Handlers
  PROVE  /\ handlers \in [Handlers -> HandlerRecords]
         /\ record \in Records \cup {Null}
         /\ record # Null => record \in Records
         /\ lock \in Handlers \cup {Null}
         /\ runs \in [Handlers -> Connections \cup {Null, Ended}]
         /\ Copy(h) \in Records \cup {Null} /\ ThenOf(h) \in HandlerLabels
         /\ PhaseAgrees(h) /\ HasCopy(h)
         /\ Locks(h) => lock = h
         /\ Restarts(h) => record # Null /\ Copy(h).active = record.active
         /\ Null \notin Handlers
  BY RecordsAssumption, WorkflowAssumption, RuntimesAssumption
     DEF ServiceInv, ServiceTypeOK, LockAgrees, RecordAgrees, HandlerRecords, Copy,
         ThenOf

\* A handler ends and gives the lock back if it holds it.
LEMMA HandlerEnds ==
  ASSUME ServiceInv, NEW h \in Handlers, NEW ok \in BOOLEAN, Conclude(h, ok),
         PC(h) \notin {"store", "put"}, UNCHANGED storageVars,
         record' \in Records \cup {Null},
         record = Null => record' = Null,
         record # Null => record' # Null /\ record'.active = record.active,
         runs' \in [Handlers -> Connections \cup {Null, Ended}]
  PROVE  ServiceInv'
<1>1. /\ StepTo(h, "done", Copy(h), ThenOf(h))
      /\ lock' = IF lock = h THEN Null ELSE lock
  BY HandlerFacts, ConcludeFrame
<1>2. PhaseAgrees(h)' /\ HasCopy(h)' /\ ~Locks(h)' /\ ~Restarts(h)'
  BY <1>1 DEF StepTo, PhaseAgrees, HasCopy, Locks, Restarts, LockedLabels
<1>3. lock' \in Handlers \cup {Null} /\ \A g \in Handlers : g # h /\ lock = g => lock' = g
  BY <1>1, HandlerFacts
<1> HIDE DEF ServiceInv
<1> QED BY <1>1, <1>2, <1>3, HandlerMoves

\* A request begins.
LEMMA BeginRequestKeeps ==
  ASSUME ServiceInv, NEW h \in Handlers, BeginRequest(h)
  PROVE  ServiceInv'
<1>0. /\ PC(h) = "new" /\ UNCHANGED storageVars /\ UNCHANGED <<record, runs>>
      /\ handlers \in [Handlers -> HandlerRecords]
  BY HandlerFacts DEF BeginRequest, At, PC, Elsewhere, ServiceInv, ServiceTypeOK
<1>1. CASE Refuse(h)
  BY <1>0, <1>1, HandlerFacts, HandlerEnds DEF Refuse
<1>2. CASE Has(h, "InitWorkflow") /\ Move(h, "lock") /\ UNCHANGED lock
  <2>1. StepTo(h, "lock", Copy(h), ThenOf(h))
    BY <1>0, <1>2, MoveFrame DEF HandlerLabels
  <2>2. PhaseAgrees(h)' /\ HasCopy(h)' /\ ~Locks(h)' /\ ~Restarts(h)'
    BY <1>2, <2>1 DEF StepTo, Has, Cmd, Op, PhaseAgrees, HasCopy, Locks, LockedLabels, Restarts,
       LockedOps
  <2> QED BY <1>0, <1>2, <2>1, <2>2, HandlerFacts, HandlerMoves DEF Has, Cmd, Op
<1>3. CASE /\ Cmd(h).op \in LockedOps \ {"InitWorkflow"} /\ record # Null
           /\ MoveWith(h, "lock", record) /\ UNCHANGED lock
  <2>1. StepTo(h, "lock", record, ThenOf(h))
    BY <1>0, <1>3, MoveWithFrame, HandlerFacts DEF HandlerLabels
  <2>2. PhaseAgrees(h)' /\ HasCopy(h)' /\ ~Locks(h)' /\ ~Restarts(h)'
    BY <1>3, <2>1, HandlerFacts DEF StepTo, Cmd, Op, PhaseAgrees, HasCopy, Locks, LockedLabels, Restarts
  <2> QED BY <1>0, <1>3, <2>1, <2>2, HandlerFacts, HandlerMoves
<1>4. CASE /\ Cmd(h).op \in TurnOps /\ record # Null
           /\ handlers' = [handlers EXCEPT ![h].pc = "ensure", ![h].then = "ask", ![h].copy = record]
           /\ UNCHANGED lock
  <2>1. StepTo(h, "ensure", record, "ask")
    BY <1>0, <1>4, ThenWithFrame, HandlerFacts DEF HandlerLabels
  <2>2. PhaseAgrees(h)' /\ HasCopy(h)' /\ ~Locks(h)' /\ ~Restarts(h)'
    BY <1>4, <2>1, HandlerFacts
       DEF StepTo, Cmd, Op, PhaseAgrees, HasCopy, Locks, LockedLabels, Restarts, LockedOps, TurnOps
  <2> QED BY <1>0, <1>4, <2>1, <2>2, HandlerFacts, HandlerMoves
<1>5. CASE /\ Cmd(h).op \in FollowingOps /\ record # Null
           /\ handlers' = [handlers EXCEPT ![h].pc = "ensure", ![h].copy = record,
                ![h].then = "clear"]
           /\ UNCHANGED lock
  <2>1. StepTo(h, "ensure", record, "clear")
    BY <1>0, <1>5, WithThenFrame, HandlerFacts DEF HandlerLabels
  <2>2. PhaseAgrees(h)' /\ HasCopy(h)' /\ ~Locks(h)' /\ ~Restarts(h)'
    BY <1>5, <2>1, HandlerFacts
       DEF StepTo, Cmd, Op, PhaseAgrees, HasCopy, Locks, LockedLabels, Restarts, LockedOps,
           FollowingOps
  <2> QED BY <1>0, <1>5, <2>1, <2>2, HandlerFacts, HandlerMoves
<1> QED BY <1>1, <1>2, <1>3, <1>4, <1>5, Zenon DEF BeginRequest

\* A handler takes the lock of the workflow.
LEMMA TakeLockKeeps ==
  ASSUME ServiceInv, NEW h \in Handlers, TakeLock(h)
  PROVE  ServiceInv'
<1> DEFINE pc == IF Has(h, "InitWorkflow") THEN "decide" ELSE "refresh"
<1>0. /\ PC(h) = "lock" /\ UNCHANGED storageVars /\ UNCHANGED <<record, runs>>
      /\ lock = Null /\ lock' = h
      /\ StepTo(h, pc, Copy(h), ThenOf(h))
  BY HandlerFacts, MoveFrame DEF TakeLock, At, PC, Elsewhere, HandlerLabels
<1>1. PhaseAgrees(h)' /\ HasCopy(h)' /\ ~Restarts(h)'
  BY <1>0, HandlerFacts
     DEF StepTo, Has, Cmd, Op, PhaseAgrees, HasCopy, Restarts, LockedOps
<1> QED BY <1>0, <1>1, HandlerFacts, HandlerMoves

\* A handler reads the record again while it waits for turns to end.
LEMMA RefreshKeeps ==
  ASSUME ServiceInv, NEW h \in Handlers, Refresh(h)
  PROVE  ServiceInv'
<1> DEFINE now == IF record = Null THEN Copy(h) ELSE record
<1>0. /\ PC(h) = "refresh" /\ UNCHANGED storageVars /\ UNCHANGED <<record, runs>>
      /\ Op(h) \in {"RestartWorkflow", "DeleteWorkflow"} /\ lock = h
      /\ now \in Records
  BY HandlerFacts
     DEF Refresh, At, PC, Elsewhere, PhaseAgrees, HasCopy, Locks, LockedLabels
<1>1. CASE Refuse(h)
  BY <1>0, <1>1, HandlerFacts, HandlerEnds DEF Refuse
<1>2. CASE Has(h, "RestartWorkflow") /\ record # Null /\ MoveWith(h, "poll", now) /\ UNCHANGED lock
  <2>1. StepTo(h, "poll", now, ThenOf(h))
    BY <1>0, <1>2, MoveWithFrame, HandlerFacts DEF HandlerLabels
  <2>2. PhaseAgrees(h)' /\ HasCopy(h)'
    BY <1>0, <1>2, <2>1 DEF StepTo, Has, Cmd, Op, PhaseAgrees, HasCopy
  <2> QED BY <1>0, <1>2, <2>1, <2>2, HandlerFacts, HandlerMoves
<1>3. CASE Has(h, "DeleteWorkflow") /\ MoveWith(h, "close", now) /\ UNCHANGED lock
  <2>1. StepTo(h, "close", now, ThenOf(h))
    BY <1>0, <1>3, MoveWithFrame, HandlerFacts DEF HandlerLabels
  <2>2. PhaseAgrees(h)' /\ HasCopy(h)' /\ ~Restarts(h)'
    BY <1>0, <1>3, <2>1 DEF StepTo, Has, Cmd, Op, PhaseAgrees, HasCopy, Restarts
  <2> QED BY <1>0, <1>3, <2>1, <2>2, HandlerFacts, HandlerMoves
<1>4. CASE /\ record # Null \/ Has(h, "DeleteWorkflow")
           /\ handlers' = [handlers EXCEPT ![h].pc = "ensure", ![h].then = "interrupt", ![h].copy = now]
           /\ UNCHANGED lock
  <2>1. StepTo(h, "ensure", now, "interrupt")
    BY <1>0, <1>4, ThenWithFrame, HandlerFacts DEF HandlerLabels
  <2>2. PhaseAgrees(h)' /\ HasCopy(h)'
    BY <1>0, <1>4, <2>1 DEF StepTo, Has, Cmd, Op, PhaseAgrees, HasCopy
  <2>3. Restarts(h)' => record # Null /\ now.active = record.active
    BY <1>4, <2>1 DEF StepTo, Restarts, Has, Cmd, Op
  <2> QED BY <1>0, <1>4, <2>1, <2>2, <2>3, HandlerFacts, HandlerMoves
<1> QED BY <1>1, <1>2, <1>3, <1>4, Zenon DEF Refresh

\* A handler polls for the end of the turns, until it does so no longer.
LEMMA PollKeeps ==
  ASSUME ServiceInv, NEW h \in Handlers, Poll(h) \/ PollExpires(h)
  PROVE  ServiceInv'
<1>0. /\ PC(h) = "poll" /\ UNCHANGED storageVars /\ UNCHANGED <<record, runs>>
      /\ Op(h) = "RestartWorkflow" /\ lock = h
      /\ Copy(h) \in Records
      /\ record # Null /\ Copy(h).active = record.active
  BY HandlerFacts
     DEF Poll, PollExpires, At, PC, Elsewhere, PhaseAgrees, HasCopy, Locks, LockedLabels, Restarts
<1>1. CASE Refuse(h)
  BY <1>0, <1>1, HandlerFacts, HandlerEnds DEF Refuse
<1>2. CASE Move(h, "advance") /\ UNCHANGED lock
  <2>1. StepTo(h, "advance", Copy(h), ThenOf(h))
    BY <1>2, MoveFrame, HandlerFacts DEF HandlerLabels
  <2>2. PhaseAgrees(h)' /\ HasCopy(h)'
    BY <1>0, <2>1 DEF StepTo, Cmd, Op, PhaseAgrees, HasCopy
  <2> QED BY <1>0, <1>2, <2>1, <2>2, HandlerFacts, HandlerMoves
<1>3. CASE MoveWith(h, "poll", record) /\ UNCHANGED lock
  <2>1. StepTo(h, "poll", record, ThenOf(h))
    BY <1>3, MoveWithFrame, HandlerFacts DEF HandlerLabels
  <2>2. PhaseAgrees(h)' /\ HasCopy(h)'
    BY <1>0, <2>1, HandlerFacts DEF StepTo, Cmd, Op, PhaseAgrees, HasCopy
  <2> QED BY <1>0, <1>3, <2>1, <2>2, HandlerFacts, HandlerMoves
<1> QED BY <1>1, <1>2, <1>3, Zenon DEF Poll, PollExpires

\* A restart interrupts the turns one by one.
LEMMA InterruptNextKeeps ==
  ASSUME ServiceInv, NEW h \in Handlers, InterruptNext(h)
  PROVE  ServiceInv'
<1>0. /\ PC(h) = "interrupt" /\ UNCHANGED storageVars /\ UNCHANGED record
      /\ Op(h) \in {"RestartWorkflow", "DeleteWorkflow"} /\ lock = h
      /\ Copy(h) \in Records
      /\ Op(h) = "RestartWorkflow" => record # Null /\ Copy(h).active = record.active
  BY HandlerFacts
     DEF InterruptNext, At, PC, Elsewhere, PhaseAgrees, HasCopy, Locks, LockedLabels, Restarts
<1>1. CASE Refuse(h) /\ UNCHANGED runs
  BY <1>0, <1>1, HandlerFacts, HandlerEnds DEF Refuse
<1>2. ASSUME NEW r, handlers' = [handlers EXCEPT ![h].copy.runs = @ \ {r}],
             UNCHANGED lock, runs' \in [Handlers -> Connections \cup {Null, Ended}]
      PROVE  ServiceInv'
  <2> DEFINE copy == [Copy(h) EXCEPT !.runs = @ \ {r}]
             moved == [handlers[h] EXCEPT !.copy = copy]
  <2>1. handlers' = [handlers EXCEPT ![h] = moved]
    BY <1>2 DEF Copy
  <2>2. copy \in Records /\ copy.active = Copy(h).active
    BY <1>0 DEF Records
  <2> HIDE DEF copy
  <2>3. /\ moved \in HandlerRecords /\ moved.copy = copy /\ moved.pc = handlers[h].pc
        /\ moved.then = handlers[h].then /\ moved.cmd = handlers[h].cmd
    BY <2>2, HandlerFacts DEF HandlerRecords
  <2> HIDE DEF moved
  <2>4. StepTo(h, "interrupt", copy, ThenOf(h))
    BY <1>0, <2>1, <2>3, HandlerFacts DEF StepTo, Copy, ThenOf, PC, Cmd
  <2>5. PhaseAgrees(h)' /\ HasCopy(h)'
    BY <1>0, <2>2, <2>4 DEF StepTo, Cmd, Op, PhaseAgrees, HasCopy
  <2>6. Restarts(h)' => record # Null /\ copy.active = record.active
    BY <1>0, <2>2, <2>4 DEF StepTo, Restarts, Cmd, Op
  <2> QED BY <1>0, <1>2, <2>4, <2>5, <2>6, HandlerFacts, HandlerMoves
<1>3. CASE /\ Move(h, IF Has(h, "RestartWorkflow") THEN "advance" ELSE "close")
           /\ UNCHANGED <<lock, runs>>
  <2> DEFINE pc == IF Has(h, "RestartWorkflow") THEN "advance" ELSE "close"
  <2>1. StepTo(h, pc, Copy(h), ThenOf(h))
    BY <1>3, MoveFrame, HandlerFacts DEF HandlerLabels
  <2>2. PhaseAgrees(h)' /\ HasCopy(h)'
    BY <1>0, <2>1 DEF StepTo, Has, Cmd, Op, PhaseAgrees, HasCopy
  <2>3. Restarts(h)' => record # Null /\ Copy(h).active = record.active
    BY <1>0, <2>1 DEF StepTo, Restarts, Cmd, Op
  <2> QED BY <1>0, <1>3, <2>1, <2>2, <2>3, HandlerFacts, HandlerMoves
<1>4. ASSUME NEW r, runs' = IF runs[r] \in open THEN [runs EXCEPT ![r] = Ended] ELSE runs
      PROVE  runs' \in [Handlers -> Connections \cup {Null, Ended}]
  BY <1>4, HandlerFacts
<1> QED BY <1>1, <1>2, <1>3, <1>4, HandlerFacts DEF InterruptNext

\* A handler goes on to a step about which the invariant says nothing more.
LEMMA HandlerGoesOn ==
  ASSUME ServiceInv, NEW h \in Handlers, NEW pc \in {"ask", "asking", "turn", "mark", "clear"},
         Move(h, pc), UNCHANGED storageVars, UNCHANGED <<record, lock>>,
         runs' \in [Handlers -> Connections \cup {Null, Ended}],
         PC(h) \notin {"new", "lock", "decide", "store", "put", "done"}
  PROVE  ServiceInv'
<1>1. StepTo(h, pc, Copy(h), ThenOf(h))
  BY MoveFrame, HandlerFacts DEF HandlerLabels
<1>2. PhaseAgrees(h)' /\ HasCopy(h)' /\ ~Locks(h)' /\ ~Restarts(h)'
  BY <1>1 DEF StepTo, PhaseAgrees, HasCopy, Locks, LockedLabels, Restarts
<1> QED BY <1>1, <1>2, HandlerFacts, HandlerMoves

\* The deletion goes on.
LEMMA DeletionGoesOn ==
  ASSUME ServiceInv, NEW h \in Handlers, NEW pc \in {"closing", "delete", "forget"},
         Move(h, pc), UNCHANGED storageVars, UNCHANGED <<record, lock, runs>>,
         PC(h) \in {"close", "closing", "delete"}
  PROVE  ServiceInv'
<1>1. StepTo(h, pc, Copy(h), ThenOf(h))
  BY MoveFrame, HandlerFacts DEF HandlerLabels
<1>2. Op(h) = "DeleteWorkflow" /\ lock = h
  BY HandlerFacts DEF PhaseAgrees, Locks, LockedLabels
<1>3. PhaseAgrees(h)' /\ HasCopy(h)' /\ ~Restarts(h)'
  BY <1>1, <1>2 DEF StepTo, Cmd, Op, PhaseAgrees, HasCopy, Restarts
<1> QED BY <1>1, <1>2, <1>3, HandlerFacts, HandlerMoves

\* A deletion closes the runtime, and goes on when its files are gone.
LEMMA CloseStepsKeep ==
  ASSUME ServiceInv, NEW h \in Handlers,
         \/ DeleteCloses(h) \/ RuntimeIsClosed(h)
         \/ DeleteFiles(h) /\ Move(h, "forget") /\ UNCHANGED <<job, faults, directories>>
  PROVE  ServiceInv'
<1>1. CASE DeleteCloses(h) \/ RuntimeIsClosed(h)
  BY <1>1, DeletionGoesOn DEF DeleteCloses, RuntimeIsClosed, At, PC
<1>2. CASE DeleteFiles(h) /\ Move(h, "forget") /\ UNCHANGED <<job, faults, directories>>
  BY <1>2, DeletionGoesOn DEF DeleteFiles, At, PC, storageVars, directories
<1> QED BY <1>1, <1>2

\* A handler has the runtime ensured.
LEMMA BeginEnsureKeeps ==
  ASSUME ServiceInv, NEW h \in Handlers, BeginEnsure(h)
  PROVE  ServiceInv'
<1>0. /\ PC(h) = "ensure" /\ UNCHANGED storageVars /\ UNCHANGED <<record, runs, lock>>
      /\ StepTo(h, "ensuring", Copy(h), ThenOf(h))
  BY MoveFrame, HandlerFacts DEF BeginEnsure, At, PC, HandlerLabels
<1>1. PhaseAgrees(h)' /\ HasCopy(h)' /\ (Locks(h)' <=> Locks(h)) /\ (Restarts(h)' <=> Restarts(h))
  BY <1>0, HandlerFacts
     DEF StepTo, Cmd, Op, PhaseAgrees, HasCopy, Locks, LockedLabels, Restarts
<1> QED BY <1>0, <1>1, HandlerFacts, HandlerMoves

\* The runtime is ensured, or is not.
LEMMA EnsureEndsKeeps ==
  ASSUME ServiceInv, NEW h \in Handlers, EnsureEnds(h)
  PROVE  ServiceInv'
<1>0. /\ PC(h) = "ensuring" /\ UNCHANGED storageVars /\ UNCHANGED <<record, runs>>
      /\ ThenOf(h) \in {"ask", "clear", "interrupt", "done"} /\ Copy(h) \in Records
  BY HandlerFacts DEF EnsureEnds, At, PC, PhaseAgrees, HasCopy
<1>1. CASE Refuse(h) \/ Conclude(h, TRUE)
  BY <1>0, <1>1, HandlerFacts, HandlerEnds DEF Refuse
<1>2. CASE ThenOf(h) # "done" /\ Move(h, ThenOf(h)) /\ UNCHANGED lock
  <2>1. CASE ThenOf(h) \in {"ask", "clear"}
    BY <1>0, <1>2, <2>1, HandlerFacts, HandlerGoesOn
  <2>2. CASE ThenOf(h) = "interrupt"
    <3>1. StepTo(h, "interrupt", Copy(h), ThenOf(h))
      BY <1>2, <2>2, MoveFrame, HandlerFacts DEF HandlerLabels
    <3>2. Op(h) \in {"RestartWorkflow", "DeleteWorkflow"} /\ lock = h
      BY <1>0, <2>2, HandlerFacts DEF PhaseAgrees, Locks, LockedOps
    <3>3. PhaseAgrees(h)' /\ HasCopy(h)'
      BY <1>0, <3>1, <3>2 DEF StepTo, Cmd, Op, PhaseAgrees, HasCopy
    <3>4. Restarts(h)' => record # Null /\ Copy(h).active = record.active
      BY <1>0, <2>2, <3>1, HandlerFacts DEF StepTo, Cmd, Op, Restarts
    <3> QED BY <1>0, <1>2, <3>1, <3>2, <3>3, <3>4, HandlerFacts, HandlerMoves
  <2> QED BY <1>0, <1>2, <2>1, <2>2
<1> QED BY <1>1, <1>2 DEF EnsureEnds, ThenOf

\* A turn asks for a connection, gets one and starts.
LEMMA TurnStepsKeep ==
  ASSUME ServiceInv, open \subseteq Connections, NEW h \in Handlers,
         AskConnection(h) \/ GetConnection(h) \/ StartTurn(h)
  PROVE  ServiceInv'
<1>0. /\ PC(h) \in {"ask", "asking", "turn"} /\ UNCHANGED storageVars /\ UNCHANGED record
      /\ runs' = runs \/ runs' = [runs EXCEPT ![h] = callers[h].result]
      /\ runs' = runs \/ (Move(h, "mark") /\ IsOpen(callers[h].result))
      /\ \/ Refuse(h)
         \/ \E pc \in {"asking", "turn", "mark"} : Move(h, pc) /\ UNCHANGED lock
  BY Zenon DEF AskConnection, GetConnection, StartTurn, At, PC, Elsewhere
<1>1. runs' \in [Handlers -> Connections \cup {Null, Ended}]
  <2>1. CASE IsOpen(callers[h].result)
    <3>1. callers[h].result \in Connections
      BY <2>1 DEF IsOpen
    <3> QED BY <1>0, <3>1, HandlerFacts
  <2> QED BY <1>0, <2>1, HandlerFacts
<1>2. CASE Refuse(h)
  BY <1>0, <1>1, <1>2, HandlerFacts, HandlerEnds DEF Refuse
<1>3. ASSUME NEW pc \in {"asking", "turn", "mark"}, Move(h, pc), UNCHANGED lock
      PROVE  ServiceInv'
  BY <1>0, <1>1, <1>3, HandlerGoesOn
<1> QED BY <1>0, <1>2, <1>3

\* What a turn that begins or ends does to the record.
LEMMA RunsOnly ==
  ASSUME ServiceInv, NEW R \in SUBSET Handlers, record # Null,
         record' = [record EXCEPT !.runs = R]
  PROVE  record' \in Records \cup {Null} /\ record' # Null /\ record'.active = record.active
<1>1. record \in Records
  BY HandlerFacts DEF ServiceInv, ServiceTypeOK
<1> QED BY <1>1, RecordsAssumption DEF Records

\* The record's mark of an active turn is set and cleared.
LEMMA ActiveStepsKeep ==
  ASSUME ServiceInv, NEW h \in Handlers, MarkWorkflowActive(h) \/ ClearWorkflowActive(h)
  PROVE  ServiceInv'
<1>0. /\ PC(h) \in {"mark", "clear"} /\ UNCHANGED storageVars /\ UNCHANGED runs
      /\ Conclude(h, TRUE) \/ Conclude(h, FALSE)
  BY DEF MarkWorkflowActive, ClearWorkflowActive, At, PC, Elsewhere, Refuse
<1>1. /\ record' \in Records \cup {Null}
      /\ record = Null => record' = Null
      /\ record # Null => record' # Null /\ record'.active = record.active
  <2>1. CASE record' = record
    BY <2>1, HandlerFacts
  <2>2. CASE record = Null /\ record' = Null
    BY <2>2
  <2>3. CASE record # Null /\ \E R \in SUBSET Handlers : record' = [record EXCEPT !.runs = R]
    BY <2>3, RunsOnly
  <2>4. record # Null => record.runs \in SUBSET Handlers
    BY HandlerFacts DEF Records
  <2>5. CASE record # Null /\ record' = [record EXCEPT !.runs = @ \cup {h}]
    <3>1. record.runs \cup {h} \in SUBSET Handlers
      BY <2>4, <2>5
    <3> QED BY <2>3, <2>5, <3>1
  <2>6. CASE record # Null /\ record' = [record EXCEPT !.runs = @ \ {Cmd(h).run}]
    <3>1. record.runs \ {Cmd(h).run} \in SUBSET Handlers
      BY <2>4, <2>6
    <3> QED BY <2>3, <2>6, <3>1
  <2> QED BY <2>1, <2>2, <2>5, <2>6 DEF MarkWorkflowActive, ClearWorkflowActive
<1> QED BY <1>0, <1>1, HandlerFacts, HandlerEnds

\* The gateway begins to close.
LEMMA GatewayClosesKeeps ==
  ASSUME ServiceInv, NEW h \in Handlers, GatewayCloses(h)
  PROVE  ServiceInv'
  BY HandlerFacts, HandlerEnds DEF GatewayCloses, At, PC

\* What is none of the handlers' business.
LEMMA ServiceStutter ==
  ASSUME ServiceInv, UNCHANGED storageVars, UNCHANGED <<record, lock, handlers>>,
         runs' \in [Handlers -> Connections \cup {Null, Ended}]
  PROVE  ServiceInv'
<1>1. StorageInv'
  BY DEF ServiceInv, StorageInv, StorageTypeOK, JobAgrees, InPlace, Faultless,
        SuccessIsWhole, CurrentStands, PendingStands, storageVars
<1>2. ServiceTypeOK'
  BY DEF ServiceInv, ServiceTypeOK
<1>3. \A h \in Handlers : PhaseAgrees(h)' /\ HasCopy(h)'
  BY DEF ServiceInv, PhaseAgrees, HasCopy, PC, Op, ThenOf, Copy
<1>4. LockAgrees'
  BY DEF ServiceInv, LockAgrees, Waits, Locks, PC, Op, ThenOf, storageVars
<1>5. RecordAgrees'
  BY DEF ServiceInv, RecordAgrees, Settled, Changing, Restarts, PC, Op, ThenOf, Copy, storageVars
<1> QED BY <1>1, <1>2, <1>3, <1>4, <1>5 DEF ServiceInv

\* A turn ends.
LEMMA TurnEndsKeeps ==
  ASSUME ServiceInv, NEW r \in Handlers, TurnEnds(r)
  PROVE  ServiceInv'
<1>1. runs' \in [Handlers -> Connections \cup {Null, Ended}]
  BY DEF TurnEnds, ServiceInv, ServiceTypeOK
<1> QED BY <1>1, ServiceStutter DEF TurnEnds, Elsewhere

-----------------------------------------------------------------------------
(* The steps that use the storage, and those that write the record         *)

\* The handler that holds the lock is the only one that waits for the storage or writes the
\* record.
LEMMA OneHolder ==
  ASSUME ServiceInv, NEW h \in Handlers, lock = h
  PROVE  /\ \A g \in Handlers : g # h => ~Locks(g) /\ ~Changing(g) /\ ~Restarts(g)
         /\ \A g \in Handlers : g # h => PC(g) \notin {"store", "put"}
  BY DEF ServiceInv, LockAgrees, Locks, LockedLabels, Changing, Restarts, LockedOps

\* A handler that holds the lock begins an operation on the storage.
LEMMA StorageBegins ==
  ASSUME ServiceInv, NEW h \in Handlers, NEW copy, NEW then, StepTo(h, "store", copy, then),
         NEW kind \in JobKinds, NEW pkg \in Packages \cup {Absent}, Begin(kind, pkg),
         lock = h, PC(h) \in {"decide", "reload", "advance", "delete"},
         UNCHANGED <<directories, faults, record, runs, lock>>,
         kind \in {"Materialize", "Stage"} => pkg \in Packages,
         then = "put" => kind # "Delete",
         then = "reload" => kind = "Stage",
         then = "forget" <=> kind = "Delete",
         PhaseAgrees(h)', HasCopy(h)',
         Op(h) = "RestartWorkflow" => /\ record # Null /\ copy.active = record.active
                                      /\ copy.pending # Absent
  PROVE  ServiceInv'
<1>1. /\ StorageInv' /\ job'.kind = kind /\ ~job'.ok
      /\ job'.pc \in {"prepare", "clear", "delete"}
      /\ kind = "Materialize" => job'.pc = "prepare"
  BY BeginKeeps, StorageAssumption DEF ServiceInv
<1>2. ServiceTypeOK'
  BY DEF ServiceInv, ServiceTypeOK, StepTo
<1>3. \A g \in Handlers : PhaseAgrees(g)' /\ HasCopy(g)'
  BY OthersAgree DEF StepTo
<1>4. \A g \in Handlers : g # h => PC(g)' \notin {"store", "put"} /\ ~Locks(g)' /\ ~Restarts(g)'
  BY OneHolder, OthersAgree DEF StepTo
<1>5. LockAgrees'
  BY <1>1, <1>4 DEF StepTo, LockAgrees, Waits, JobKinds
<1>6. RecordAgrees'
  <2>1. Settled /\ Settled'
    BY OneHolder DEF ServiceInv, RecordAgrees, Settled, Changing, directories
  <2>2. PC(h)' = "store" /\ Copy(h)' = copy /\ Op(h)' = Op(h)
    BY DEF StepTo, Op, Cmd
  <2>3. Restarts(h)' => record' # Null /\ Copy(h)'.active = record'.active
    BY <2>2 DEF Restarts
  <2> QED BY <1>4, <2>1, <2>2, <2>3 DEF RecordAgrees
<1> QED BY <1>1, <1>2, <1>3, <1>5, <1>6 DEF ServiceInv

\* InitWorkflow decides between a first installation, a stage and no change.
LEMMA DecideInitKeeps ==
  ASSUME ServiceInv, NEW h \in Handlers, DecideInit(h)
  PROVE  ServiceInv'
<1> DEFINE p == Cmd(h).pkg
<1>0. /\ PC(h) = "decide" /\ UNCHANGED <<directories, faults, record, runs>>
      /\ Op(h) = "InitWorkflow" /\ lock = h
      /\ handlers \in [Handlers -> HandlerRecords]
  BY HandlerFacts
     DEF DecideInit, At, PC, PhaseAgrees, Locks, LockedLabels
<1>1. p \in Packages
  <2>1. Cmd(h) \in Commands
    BY <1>0 DEF HandlerRecords, Cmd
  <2> QED BY <1>0, <2>1, WorkflowAssumption DEF Commands, Op, Cmd
<1>2. CASE /\ record # Null
           /\ handlers' = [handlers EXCEPT ![h].pc = "ensure", ![h].then = "done", ![h].copy = record]
           /\ UNCHANGED <<lock, job>>
  <2>1. StepTo(h, "ensure", record, "done") /\ UNCHANGED storageVars
    BY <1>0, <1>2, ThenWithFrame, HandlerFacts DEF HandlerLabels, storageVars, directories
  <2>2. PhaseAgrees(h)' /\ HasCopy(h)' /\ ~Restarts(h)'
    BY <1>0, <1>2, <2>1, HandlerFacts DEF StepTo, Cmd, Op, PhaseAgrees, HasCopy, Restarts
  <2> QED BY <1>0, <1>2, <2>1, <2>2, HandlerFacts, HandlerMoves
<1>3. CASE Refuse(h) /\ UNCHANGED job
  <2>1. UNCHANGED storageVars
    BY <1>0, <1>3 DEF storageVars, directories
  <2> QED BY <1>0, <1>3, <2>1, HandlerFacts, HandlerEnds DEF Refuse
<1>4. ASSUME NEW then \in {"put", "reload"}, NEW kind \in {"Materialize", "Stage"},
             NEW copy \in Records \cup {Null},
             then = "reload" => kind = "Stage",
             Begin(kind, p), StepTo(h, "store", copy, then), UNCHANGED lock
      PROVE  ServiceInv'
  <2>1. PhaseAgrees(h)' /\ HasCopy(h)'
    BY <1>0, <1>4 DEF StepTo, Cmd, Op, PhaseAgrees, HasCopy
  <2>2. kind \in JobKinds
    BY DEF JobKinds
  <2> QED BY <1>0, <1>1, <1>4, <2>1, <2>2, StorageBegins
<1>5. ASSUME NEW class \in Classifications(p), record # Null,
             Begin(IF class = "hot" THEN "Materialize" ELSE "Stage", p),
             handlers' = [handlers EXCEPT ![h].pc = "store", ![h].copy = record,
               ![h].then = IF Reloads(h, class) THEN "reload" ELSE "put"],
             UNCHANGED lock
      PROVE  ServiceInv'
  <2> DEFINE kind == IF class = "hot" THEN "Materialize" ELSE "Stage"
             then == IF Reloads(h, class) THEN "reload" ELSE "put"
  <2>1. StepTo(h, "store", record, then)
    BY <1>0, <1>5, WithThenFrame, HandlerFacts DEF HandlerLabels
  <2>2. then = "reload" => kind = "Stage"
    BY DEF Reloads
  <2>3. then \in {"put", "reload"} /\ kind \in {"Materialize", "Stage"} /\ Begin(kind, p)
    BY <1>5
  <2> HIDE DEF kind, then
  <2> QED BY <1>4, <1>5, <2>1, <2>2, <2>3, HandlerFacts
<1>6. CASE /\ Begin("Materialize", p)
           /\ handlers' = [handlers EXCEPT ![h].pc = "store", ![h].then = "put"]
           /\ UNCHANGED lock
  <2>1. StepTo(h, "store", Copy(h), "put")
    BY <1>0, <1>6, ThenFrame DEF HandlerLabels
  <2> QED BY <1>4, <1>6, <2>1, HandlerFacts
<1> QED BY <1>2, <1>3, <1>5, <1>6, Zenon DEF DecideInit

\* A reload of the servers of tools ends.
LEMMA ReloadMCPKeeps ==
  ASSUME ServiceInv, NEW h \in Handlers, ReloadMCP(h)
  PROVE  ServiceInv'
<1>0. /\ PC(h) = "reload" /\ UNCHANGED <<directories, faults, record, runs>>
      /\ Op(h) = "InitWorkflow" /\ lock = h
  BY HandlerFacts
     DEF ReloadMCP, Begin, At, PC, PhaseAgrees, Locks, LockedLabels
<1>1. CASE Refuse(h) /\ UNCHANGED <<job, faults, directories>>
  <2>1. UNCHANGED storageVars
    BY <1>1 DEF storageVars, directories
  <2> QED BY <1>0, <1>1, <2>1, HandlerFacts, HandlerEnds DEF Refuse
<1>2. CASE /\ Begin("PromotePending", Absent)
           /\ handlers' = [handlers EXCEPT ![h].pc = "store", ![h].then = "put"]
           /\ UNCHANGED lock
  <2>1. StepTo(h, "store", Copy(h), "put")
    BY <1>2, ThenFrame, HandlerFacts DEF HandlerLabels
  <2>2. PhaseAgrees(h)' /\ HasCopy(h)'
    BY <1>0, <2>1 DEF StepTo, Cmd, Op, PhaseAgrees, HasCopy
  <2>3. "PromotePending" \in JobKinds
    BY DEF JobKinds
  <2> QED BY <1>0, <1>2, <2>1, <2>2, <2>3, StorageBegins
<1> QED BY <1>1, <1>2, Zenon DEF ReloadMCP

\* A deletion begins to remove the files.
LEMMA DeleteFilesKeeps ==
  ASSUME ServiceInv, NEW h \in Handlers, DeleteFiles(h)
  PROVE  ServiceInv'
<1>0. /\ PC(h) = "delete" /\ UNCHANGED <<directories, faults, record, runs, lock>>
      /\ Op(h) = "DeleteWorkflow" /\ lock = h
  BY HandlerFacts
     DEF DeleteFiles, Begin, At, PC, PhaseAgrees, Locks, LockedLabels
<1>1. CASE Move(h, "forget") /\ UNCHANGED <<job, faults, directories>>
  BY <1>1, CloseStepsKeep
<1>2. CASE /\ Begin("Delete", Absent)
           /\ handlers' = [handlers EXCEPT ![h].pc = "store", ![h].then = "forget"]
  <2>1. StepTo(h, "store", Copy(h), "forget")
    BY <1>2, ThenFrame, HandlerFacts DEF HandlerLabels
  <2>2. PhaseAgrees(h)' /\ HasCopy(h)'
    BY <1>0, <2>1 DEF StepTo, Cmd, Op, PhaseAgrees, HasCopy
  <2>3. "Delete" \in JobKinds
    BY DEF JobKinds
  <2> QED BY <1>0, <1>2, <2>1, <2>2, <2>3, StorageBegins
<1> QED BY <1>1, <1>2, Zenon DEF DeleteFiles

\* A restart advances: promotes a staged package, or goes straight to the runtime.
LEMMA AdvanceRestartKeeps ==
  ASSUME ServiceInv, NEW h \in Handlers, AdvanceRestart(h)
  PROVE  ServiceInv'
<1>0. /\ PC(h) = "advance" /\ UNCHANGED <<directories, faults, record, runs, lock>>
      /\ Op(h) = "RestartWorkflow" /\ lock = h
      /\ Copy(h) \in Records /\ record # Null /\ Copy(h).active = record.active
  BY HandlerFacts
     DEF AdvanceRestart, Begin, At, PC, PhaseAgrees, HasCopy, Locks, LockedLabels, Restarts
<1>1. CASE /\ Copy(h).pending # Absent
           /\ Begin("PromotePending", Absent)
           /\ handlers' = [handlers EXCEPT ![h].pc = "store", ![h].then = "put"]
  <2>1. StepTo(h, "store", Copy(h), "put")
    BY <1>1, ThenFrame, HandlerFacts DEF HandlerLabels
  <2>2. PhaseAgrees(h)' /\ HasCopy(h)'
    BY <1>0, <2>1 DEF StepTo, Cmd, Op, PhaseAgrees, HasCopy
  <2>3. "PromotePending" \in JobKinds
    BY DEF JobKinds
  <2> QED BY <1>0, <1>1, <2>1, <2>2, <2>3, StorageBegins
<1>2. CASE Copy(h).pending = Absent /\ Move(h, "put") /\ UNCHANGED <<job, faults, directories>>
  <2>1. StepTo(h, "put", Copy(h), ThenOf(h)) /\ UNCHANGED storageVars
    BY <1>2, MoveFrame, HandlerFacts DEF HandlerLabels, storageVars, directories
  <2>2. Op(h)' = Op(h) /\ PC(h)' = "put" /\ Copy(h)' = Copy(h)
    BY <2>1 DEF StepTo, Cmd, Op
  <2>3. StorageInv'
    BY <2>1 DEF ServiceInv, StorageInv, StorageTypeOK, JobAgrees, InPlace, Faultless,
        SuccessIsWhole, CurrentStands, PendingStands, storageVars
  <2>4. ServiceTypeOK'
    BY <1>0, <2>1 DEF ServiceInv, ServiceTypeOK, StepTo
  <2>5. \A g \in Handlers : PhaseAgrees(g)' /\ HasCopy(g)'
    <3>1. PhaseAgrees(h)' /\ HasCopy(h)'
      BY <1>0, <2>2 DEF PhaseAgrees, HasCopy
    <3> QED BY <2>1, <3>1, OthersAgree DEF StepTo
  <2>6. \A g \in Handlers : g # h => PC(g)' \notin {"store", "put"} /\ ~Locks(g)' /\ ~Restarts(g)'
    BY <1>0, <2>1, OneHolder, OthersAgree DEF StepTo
  <2>7. job.pc = "idle"
    BY <1>0, OneHolder DEF ServiceInv, LockAgrees
  <2>8. LockAgrees'
    BY <1>0, <2>1, <2>2, <2>6, <2>7 DEF LockAgrees, Waits, storageVars
  <2>9. RecordAgrees'
    <3>1. Settled'
      BY <1>0, <2>1, OneHolder DEF ServiceInv, RecordAgrees, Settled, Changing, storageVars
    <3> QED BY <1>0, <1>2, <2>2, <2>6, <3>1 DEF RecordAgrees
  <2> QED BY <2>3, <2>4, <2>5, <2>8, <2>9 DEF ServiceInv
<1> QED BY <1>1, <1>2, Zenon DEF AdvanceRestart

\* The handler that holds the lock has read or written what it was about to.
LEMMA HolderMoves ==
  ASSUME ServiceInv, NEW h \in Handlers, NEW pc, NEW copy, NEW then, StepTo(h, pc, copy, then),
         lock = h, pc \notin {"store", "ensuring"}, lock' \in {Null, h}, pc \in LockedLabels \cup {"ensure"} => lock' = h,
         UNCHANGED runs, record' \in Records \cup {Null},
         PhaseAgrees(h)', HasCopy(h)',
         StorageInv', pending' = pending, job'.pc = "idle",
         Settled' \/ pc = "put",
         Restarts(h)' => record' # Null /\ copy.active = record'.active,
         pc = "put" => \/ metadata' \in Metadata
                       \/ Op(h) = "RestartWorkflow" /\ copy.pending = Absent,
         pc = "put" /\ Op(h) = "RestartWorkflow" => copy.pending # Absent
  PROVE  ServiceInv'
<1>1. ServiceTypeOK'
  BY DEF ServiceInv, ServiceTypeOK, StepTo
<1>2. \A g \in Handlers : PhaseAgrees(g)' /\ HasCopy(g)'
  BY OthersAgree DEF StepTo
<1>3. \A g \in Handlers : g # h => PC(g)' \notin {"store", "put"} /\ ~Locks(g)' /\ ~Restarts(g)'
  BY OneHolder, OthersAgree DEF StepTo
<1>4. PC(h)' = pc /\ Copy(h)' = copy /\ Op(h)' = Op(h)
  BY DEF StepTo, Op, Cmd
<1>5. LockAgrees'
  <2>1. Locks(h)' => lock' = h
    BY <1>4 DEF Locks
  <2> QED BY <1>3, <1>4, <2>1 DEF LockAgrees, Waits
<1>6. RecordAgrees'
  BY <1>3, <1>4 DEF RecordAgrees, Changing
<1> QED BY <1>1, <1>2, <1>5, <1>6 DEF ServiceInv

\* A handler that has read the result of its job leaves the storage idle.
LEMMA JobIsTaken ==
  ASSUME StorageInv, job.pc = "done", job' = IdleJob, UNCHANGED <<directories, faults>>
  PROVE  StorageInv' /\ job'.pc = "idle"
<1> USE DEF StorageInv, IdleJob, directories
<1>1. StorageTypeOK'
  BY DEF StorageTypeOK, Contents, Jobs, JobLabels
<1>2. JobAgrees'
  BY KindsAssumption DEF JobAgrees, JobKinds
<1>3. InPlace'
  BY KindsAssumption DEF InPlace, JobKinds
<1>4. Faultless'
  BY DEF Faultless, CurrentStands, PendingStands
<1>5. SuccessIsWhole'
  BY DEF SuccessIsWhole
<1> QED BY <1>1, <1>2, <1>3, <1>4, <1>5

\* A handler reads the result of its job.
LEMMA StoredKeeps ==
  ASSUME ServiceInv, NEW h \in Handlers, Stored(h)
  PROVE  ServiceInv'
<1>0. /\ PC(h) = "store" /\ UNCHANGED <<directories, faults, record, runs>>
      /\ UNCHANGED <<pending, metadata>> /\ job.pc = "done"
      /\ lock = h /\ PhaseAgrees(h) /\ HasCopy(h)
      /\ StorageInv' /\ job'.pc = "idle"
  BY HandlerFacts, JobIsTaken
     DEF Stored, At, PC, Locks, LockedLabels, ServiceInv, directories
<1>1. /\ ThenOf(h) = "forget" <=> job.kind = "Delete"
      /\ Settled \/ (ThenOf(h) = "put" /\ job.ok)
      /\ job.ok /\ job.kind # "Delete" => metadata \in Metadata
      /\ Op(h) = "RestartWorkflow" => /\ record # Null /\ Copy(h).active = record.active
                                      /\ Copy(h).pending # Absent
  BY <1>0, OneHolder
     DEF ServiceInv, LockAgrees, Waits, RecordAgrees, Changing, Restarts, StorageInv, JobAgrees
<1>2. Settled' <=> Settled
  BY <1>0 DEF Settled
<1>3. CASE ~job.ok /\ Refuse(h)
  <2>1. StepTo(h, "done", Copy(h), ThenOf(h)) /\ lock' = IF lock = h THEN Null ELSE lock
    BY <1>3, HandlerFacts, ConcludeFrame DEF Refuse
  <2>2. PhaseAgrees(h)' /\ HasCopy(h)' /\ ~Restarts(h)' /\ "done" \notin LockedLabels
    BY <2>1 DEF StepTo, PhaseAgrees, HasCopy, Restarts, LockedLabels
  <2> QED BY <1>0, <1>1, <1>2, <1>3, <2>1, <2>2, HandlerFacts, HolderMoves
<1>4. CASE job.ok /\ Move(h, ThenOf(h)) /\ UNCHANGED lock
  <2>1. StepTo(h, ThenOf(h), Copy(h), ThenOf(h))
    BY <1>4, MoveFrame, HandlerFacts
  <2>2. ThenOf(h) \in {"put", "reload", "forget"}
    BY <1>0 DEF PhaseAgrees
  <2>3. PhaseAgrees(h)' /\ HasCopy(h)'
    BY <1>0, <2>1, <2>2 DEF StepTo, Cmd, Op, PhaseAgrees, HasCopy, Restarts
  <2>4. Restarts(h)' => Op(h) = "RestartWorkflow"
    BY <2>1 DEF StepTo, Cmd, Op, Restarts
  <2> QED BY <1>0, <1>1, <1>2, <1>4, <2>1, <2>2, <2>3, <2>4, HandlerFacts, HolderMoves
<1> QED BY <1>3, <1>4 DEF Stored, ThenOf

\* The handler that writes the record holds the lock, and no storage operation is under way.
LEMMA PutFacts ==
  ASSUME ServiceInv, NEW h \in Handlers, PC(h) = "put"
  PROVE  /\ lock = h /\ job.pc = "idle" /\ StorageInv
         /\ \/ metadata \in Metadata
            \/ Op(h) = "RestartWorkflow" /\ Copy(h).pending = Absent /\ Settled
<1>1. lock = h
  BY HandlerFacts DEF Locks, LockedLabels
<1>2. job.pc = "idle"
  BY <1>1, OneHolder DEF ServiceInv, LockAgrees
<1> QED BY <1>1, <1>2 DEF ServiceInv, RecordAgrees

\* What does not touch the storage keeps its invariant.
LEMMA SameStorage ==
  ASSUME StorageInv, UNCHANGED storageVars
  PROVE  StorageInv' /\ UNCHANGED <<pending, metadata, job>>
  BY DEF StorageInv, StorageTypeOK, JobAgrees, InPlace, Faultless,
        SuccessIsWhole, CurrentStands, PendingStands, storageVars

\* InitWorkflow writes the record.
LEMMA PutInitKeeps ==
  ASSUME ServiceInv, NEW h \in Handlers, PutInit(h)
  PROVE  ServiceInv'
<1> DEFINE copy == Copy(h)
           staged == metadata.pending # Absent
           updated ==
             IF copy = Null THEN FirstRecord(metadata.active)
             ELSE [active |-> metadata.active, pending |-> metadata.pending,
                   restartRequired |-> staged, epoch |-> copy.epoch, runs |-> copy.runs]
<1>0. /\ PC(h) = "put" /\ UNCHANGED runs /\ UNCHANGED storageVars
      /\ Op(h) = "InitWorkflow" /\ record' = updated
  BY DEF PutInit, At, PC, Has, Cmd, Op, Elsewhere
<1>1. lock = h /\ job.pc = "idle" /\ metadata \in Metadata
  BY <1>0, PutFacts
<1>2. StorageInv' /\ UNCHANGED <<pending, metadata, job>>
  BY <1>0, PutFacts, SameStorage
<1>3. updated \in Records /\ updated.active = metadata.active
  <2>1. copy \in Records \cup {Null}
    BY HandlerFacts
  <2> QED
    BY <1>1, <2>1, WorkflowAssumption, StorageAssumption DEF FirstRecord, Records, Metadata
<1> HIDE DEF updated
<1>4. Settled'
  BY <1>0, <1>2, <1>3 DEF Settled
<1>5. CASE Conclude(h, TRUE)
  <2>1. StepTo(h, "done", Copy(h), ThenOf(h)) /\ lock' = IF lock = h THEN Null ELSE lock
    BY <1>5, HandlerFacts, ConcludeFrame
  <2>2. PhaseAgrees(h)' /\ HasCopy(h)' /\ ~Restarts(h)' /\ "done" \notin LockedLabels
    BY <2>1 DEF StepTo, PhaseAgrees, HasCopy, Restarts, LockedLabels
  <2> QED BY <1>0, <1>1, <1>2, <1>3, <1>4, <2>1, <2>2, HandlerFacts, HolderMoves
<1>6. CASE /\ handlers' = [handlers EXCEPT ![h].pc = "ensure", ![h].then = "done", ![h].copy = updated]
           /\ UNCHANGED lock
  <2>1. StepTo(h, "ensure", updated, "done")
    BY <1>3, <1>6, ThenWithFrame, HandlerFacts DEF HandlerLabels
  <2>2. PhaseAgrees(h)' /\ HasCopy(h)' /\ ~Restarts(h)'
    BY <1>0, <1>3, <2>1 DEF StepTo, Cmd, Op, PhaseAgrees, HasCopy, Restarts
  <2> QED BY <1>0, <1>1, <1>2, <1>3, <1>4, <1>6, <2>1, <2>2, HandlerFacts, HolderMoves
<1> QED BY <1>5, <1>6 DEF PutInit, updated

\* A restart writes the record.
LEMMA PutAfterRestartKeeps ==
  ASSUME ServiceInv, NEW h \in Handlers, PutRestart(h)
  PROVE  ServiceInv'
<1> DEFINE updated == [active |-> IF Copy(h).pending # Absent THEN metadata.active ELSE Copy(h).active,
                       pending |-> Absent, restartRequired |-> FALSE,
                       epoch |-> Copy(h).epoch + 1, runs |-> {}]
<1>0. /\ PC(h) = "put" /\ UNCHANGED <<runs, lock>> /\ UNCHANGED storageVars
      /\ Op(h) = "RestartWorkflow" /\ record' = updated
      /\ handlers' = [handlers EXCEPT ![h].pc = "ensure", ![h].then = "done", ![h].copy = updated]
      /\ Copy(h).epoch + 1 \in Epochs
  BY DEF PutRestart, At, PC, Has, Cmd, Op, Elsewhere
<1>1. /\ lock = h /\ job.pc = "idle"
      /\ metadata \in Metadata \/ (Copy(h).pending = Absent /\ Settled)
  BY <1>0, PutFacts
<1>2. StorageInv' /\ UNCHANGED <<pending, metadata, job>>
  BY <1>0, PutFacts, SameStorage
<1>3. Copy(h) \in Records /\ record # Null /\ Copy(h).active = record.active
      /\ (Copy(h).pending = Absent => Settled)
  BY <1>0, HandlerFacts DEF HasCopy, Restarts, ServiceInv, RecordAgrees
<1>4. updated \in Records
  BY <1>0, <1>1, <1>3, StorageAssumption DEF Records, Metadata
<1>5. updated.active = IF Copy(h).pending # Absent THEN metadata.active ELSE Copy(h).active
  OBVIOUS
<1> HIDE DEF updated
<1>6. Settled'
  BY <1>0, <1>2, <1>3, <1>5 DEF Settled
<1>7. StepTo(h, "ensure", updated, "done")
  BY <1>0, <1>4, ThenWithFrame, HandlerFacts DEF HandlerLabels
<1>8. PhaseAgrees(h)' /\ HasCopy(h)' /\ ~Restarts(h)'
  BY <1>0, <1>4, <1>7 DEF StepTo, Cmd, Op, PhaseAgrees, HasCopy, Restarts
<1>9. record' \in Records \cup {Null} /\ UNCHANGED <<runs, lock, pending, job>>
  BY <1>0, <1>2, <1>4
<1> QED BY <1>1, <1>2, <1>6, <1>7, <1>8, <1>9, HolderMoves

\* A deletion removes the record.
LEMMA DeleteRecordKeeps ==
  ASSUME ServiceInv, NEW h \in Handlers, DeleteRecord(h)
  PROVE  ServiceInv'
<1>0. /\ PC(h) = "forget" /\ UNCHANGED runs /\ UNCHANGED storageVars /\ record' = Null
      /\ StepTo(h, "done", Copy(h), ThenOf(h)) /\ lock' = IF lock = h THEN Null ELSE lock
  BY HandlerFacts, ConcludeFrame DEF DeleteRecord, At, PC, Elsewhere
<1>1. lock = h
  BY <1>0, HandlerFacts DEF Locks, LockedLabels
<1>2. job.pc = "idle"
  BY <1>0, <1>1, OneHolder DEF ServiceInv, LockAgrees
<1>3. StorageInv' /\ UNCHANGED <<pending, metadata, job>>
  BY <1>0, SameStorage DEF ServiceInv
<1>4. PhaseAgrees(h)' /\ HasCopy(h)' /\ ~Restarts(h)' /\ "done" \notin LockedLabels
  BY <1>0 DEF StepTo, PhaseAgrees, HasCopy, Restarts, LockedLabels
<1>5. Settled'
  BY <1>0 DEF Settled
<1> QED BY <1>0, <1>1, <1>2, <1>3, <1>4, <1>5, HolderMoves

-----------------------------------------------------------------------------
(* A step of the storage, a stop, and the specification                    *)

\* What a step of a storage operation means for the handler that waits for it.
StepOfJob ==
  /\ job.pc \notin {"idle", "done"} /\ job'.pc # "idle" /\ job'.kind = job.kind
  /\ metadata' # Absent =>
       \/ metadata # Absent /\ metadata'.active = metadata.active
       \/ job'.pc = "done" /\ job'.ok /\ job.kind \in {"Materialize", "PromotePending"}

\* What the service sees of the step in which the new tree is prepared.
LEMMA PrepareOfJob ==
  ASSUME StorageInv, Prepare
  PROVE  StepOfJob
<1>1. /\ StorageTypeOK /\ job.pc \notin {"idle", "done"}
      /\ job'.kind = job.kind /\ job'.pc # "idle"
  BY StepFrame DEF StorageInv, Prepare, JobLabels
<1>2. metadata' # Absent =>
        \/ metadata # Absent /\ metadata'.active = metadata.active
        \/ job'.pc = "done" /\ job'.ok /\ job.kind \in {"Materialize", "PromotePending"}
  BY <1>1, StepFrame DEF Prepare, StorageInv, StorageTypeOK, JobAgrees, Metadata, JobLabels
<1> QED BY <1>1, <1>2 DEF StepOfJob

\* What the service sees of the step in which its files are written.
LEMMA WriteFilesOfJob ==
  ASSUME StorageInv, WriteFiles
  PROVE  StepOfJob
<1>1. /\ StorageTypeOK /\ job.pc \notin {"idle", "done"}
      /\ job'.kind = job.kind /\ job'.pc # "idle"
  BY StepFrame DEF StorageInv, WriteFiles, JobLabels
<1>2. metadata' # Absent =>
        \/ metadata # Absent /\ metadata'.active = metadata.active
        \/ job'.pc = "done" /\ job'.ok /\ job.kind \in {"Materialize", "PromotePending"}
  BY <1>1, StepFrame DEF WriteFiles, StorageInv, StorageTypeOK, JobAgrees, Metadata, JobLabels
<1> QED BY <1>1, <1>2 DEF StepOfJob

\* What the service sees of the step in which the previous tree is removed.
LEMMA ClearPreviousOfJob ==
  ASSUME StorageInv, ClearPrevious
  PROVE  StepOfJob
<1>1. /\ StorageTypeOK /\ job.pc \notin {"idle", "done"}
      /\ job'.kind = job.kind /\ job'.pc # "idle"
  BY StepFrame DEF StorageInv, ClearPrevious, JobLabels
<1>2. metadata' # Absent =>
        \/ metadata # Absent /\ metadata'.active = metadata.active
        \/ job'.pc = "done" /\ job'.ok /\ job.kind \in {"Materialize", "PromotePending"}
  BY <1>1, StepFrame DEF ClearPrevious, StorageInv, StorageTypeOK, JobAgrees, Metadata, JobLabels
<1> QED BY <1>1, <1>2 DEF StepOfJob

\* What the service sees of the step in which current is renamed to previous.
LEMMA KeepPreviousOfJob ==
  ASSUME StorageInv, KeepPrevious
  PROVE  StepOfJob
<1>1. /\ StorageTypeOK /\ job.pc \notin {"idle", "done"}
      /\ job'.kind = job.kind /\ job'.pc # "idle"
  BY StepFrame DEF StorageInv, KeepPrevious, JobLabels
<1>2. metadata' # Absent =>
        \/ metadata # Absent /\ metadata'.active = metadata.active
        \/ job'.pc = "done" /\ job'.ok /\ job.kind \in {"Materialize", "PromotePending"}
  BY <1>1, StepFrame DEF KeepPrevious, StorageInv, StorageTypeOK, JobAgrees, Metadata, JobLabels
<1> QED BY <1>1, <1>2 DEF StepOfJob

\* What the service sees of the step in which the staged tree is renamed to current.
LEMMA PromoteOfJob ==
  ASSUME StorageInv, Promote
  PROVE  StepOfJob
<1>1. /\ StorageTypeOK /\ job.pc \notin {"idle", "done"}
      /\ job'.kind = job.kind /\ job'.pc # "idle"
  BY StepFrame DEF StorageInv, Promote, JobLabels
<1>2. metadata' # Absent =>
        \/ metadata # Absent /\ metadata'.active = metadata.active
        \/ job'.pc = "done" /\ job'.ok /\ job.kind \in {"Materialize", "PromotePending"}
  BY <1>1, StepFrame DEF Promote, StorageInv, StorageTypeOK, JobAgrees, Metadata, JobLabels
<1> QED BY <1>1, <1>2 DEF StepOfJob

\* What the service sees of the step in which the layout is made.
LEMMA LayoutOfJob ==
  ASSUME StorageInv, Layout
  PROVE  StepOfJob
<1>1. /\ StorageTypeOK /\ job.pc \notin {"idle", "done"}
      /\ job'.kind = job.kind /\ job'.pc # "idle"
  BY StepFrame DEF StorageInv, Layout, JobLabels
<1>2. metadata' # Absent =>
        \/ metadata # Absent /\ metadata'.active = metadata.active
        \/ job'.pc = "done" /\ job'.ok /\ job.kind \in {"Materialize", "PromotePending"}
  BY <1>1, StepFrame DEF Layout, StorageInv, StorageTypeOK, JobAgrees, Metadata, JobLabels
<1> QED BY <1>1, <1>2 DEF StepOfJob

\* What the service sees of the step in which the old link to the configuration is
\* removed.
LEMMA UnlinkConfigOfJob ==
  ASSUME StorageInv, UnlinkConfig
  PROVE  StepOfJob
<1>1. /\ StorageTypeOK /\ job.pc \notin {"idle", "done"}
      /\ job'.kind = job.kind /\ job'.pc # "idle"
  BY StepFrame DEF StorageInv, UnlinkConfig, JobLabels
<1>2. metadata' # Absent =>
        \/ metadata # Absent /\ metadata'.active = metadata.active
        \/ job'.pc = "done" /\ job'.ok /\ job.kind \in {"Materialize", "PromotePending"}
  BY <1>1, StepFrame DEF UnlinkConfig, StorageInv, StorageTypeOK, JobAgrees, Metadata, JobLabels
<1> QED BY <1>1, <1>2 DEF StepOfJob

\* What the service sees of the step in which the link to the configuration is made.
LEMMA LinkConfigOfJob ==
  ASSUME StorageInv, LinkConfig
  PROVE  StepOfJob
<1>1. /\ StorageTypeOK /\ job.pc \notin {"idle", "done"}
      /\ job'.kind = job.kind /\ job'.pc # "idle"
  BY StepFrame DEF StorageInv, LinkConfig, JobLabels
<1>2. metadata' # Absent =>
        \/ metadata # Absent /\ metadata'.active = metadata.active
        \/ job'.pc = "done" /\ job'.ok /\ job.kind \in {"Materialize", "PromotePending"}
  BY <1>1, StepFrame DEF LinkConfig, StorageInv, StorageTypeOK, JobAgrees, Metadata, JobLabels
<1> QED BY <1>1, <1>2 DEF StepOfJob

\* What the service sees of the step in which the instructions are synchronised.
LEMMA SyncInstructionsOfJob ==
  ASSUME StorageInv, SyncInstructions
  PROVE  StepOfJob
<1>1. /\ StorageTypeOK /\ job.pc \notin {"idle", "done"}
      /\ job'.kind = job.kind /\ job'.pc # "idle"
  BY StepFrame DEF StorageInv, SyncInstructions, JobLabels
<1>2. metadata' # Absent =>
        \/ metadata # Absent /\ metadata'.active = metadata.active
        \/ job'.pc = "done" /\ job'.ok /\ job.kind \in {"Materialize", "PromotePending"}
  BY <1>1, StepFrame DEF SyncInstructions, StorageInv, StorageTypeOK, JobAgrees, Metadata, JobLabels
<1> QED BY <1>1, <1>2 DEF StepOfJob

\* What the service sees of the step in which the metadata file is replaced.
LEMMA WriteMetadataOfJob ==
  ASSUME StorageInv, WriteMetadata
  PROVE  StepOfJob
<1>1. /\ StorageTypeOK /\ job.pc \notin {"idle", "done"}
      /\ job'.kind = job.kind /\ job'.pc # "idle"
  BY StepFrame DEF StorageInv, WriteMetadata, JobLabels
<1>2. metadata' # Absent =>
        \/ metadata # Absent /\ metadata'.active = metadata.active
        \/ job'.pc = "done" /\ job'.ok /\ job.kind \in {"Materialize", "PromotePending"}
  BY <1>1, StepFrame DEF WriteMetadata, NewMetadata, StorageInv, StorageTypeOK, JobAgrees, Metadata, JobLabels
<1> QED BY <1>1, <1>2 DEF StepOfJob

\* What the service sees of the step in which the workflow's directory is removed.
LEMMA DeleteRootOfJob ==
  ASSUME StorageInv, DeleteRoot
  PROVE  StepOfJob
<1>1. /\ StorageTypeOK /\ job.pc \notin {"idle", "done"}
      /\ job'.kind = job.kind /\ job'.pc # "idle"
  BY StepFrame DEF StorageInv, DeleteRoot, JobLabels
<1>2. metadata' # Absent =>
        \/ metadata # Absent /\ metadata'.active = metadata.active
        \/ job'.pc = "done" /\ job'.ok /\ job.kind \in {"Materialize", "PromotePending"}
  BY <1>1, StepFrame DEF DeleteRoot, Removed, StorageInv, StorageTypeOK, JobAgrees, Metadata, JobLabels
<1> QED BY <1>1, <1>2 DEF StepOfJob

\* What the service sees of the step in which current is copied into the staged tree.
LEMMA CopyCurrentOfJob ==
  ASSUME StorageInv, CopyCurrent
  PROVE  StepOfJob
<1>1. job \in Jobs /\ job.pc = "copy" /\ UNCHANGED <<pending, metadata>>
  BY DEF StorageInv, StorageTypeOK, CopyCurrent, directories
<1>2. job' = [job EXCEPT !.pc = "unlink", !.copied = current]
      => job'.kind = job.kind /\ job'.pc = "unlink"
  BY <1>1 DEF Jobs
<1>3. Fail => job'.kind = job.kind /\ job'.pc = "done"
  BY <1>1 DEF Fail, Jobs
<1>4. job'.kind = job.kind /\ job'.pc \in {"unlink", "done"}
  BY <1>2, <1>3, Zenon DEF CopyCurrent, Fault
<1> QED BY <1>1, <1>4 DEF StepOfJob

\* What the service sees of any step of the storage.
LEMMA StorageStepOfJob ==
  ASSUME StorageInv, StorageStep
  PROVE  StepOfJob
  BY PrepareOfJob, WriteFilesOfJob, ClearPreviousOfJob, KeepPreviousOfJob, PromoteOfJob,
     LayoutOfJob, CopyCurrentOfJob, UnlinkConfigOfJob, LinkConfigOfJob, SyncInstructionsOfJob,
     WriteMetadataOfJob, DeleteRootOfJob DEF StorageStep

\* A step of the storage keeps the invariant of the service.
LEMMA StorageStepInv ==
  ASSUME ServiceInv, StorageStep, UNCHANGED serviceVars
  PROVE  ServiceInv'
<1>1. StorageInv' /\ StepOfJob /\ UNCHANGED <<record, lock, handlers, runs>>
  BY StorageStepKeeps, StorageStepOfJob DEF ServiceInv, serviceVars
<1>2. ServiceTypeOK'
  BY <1>1 DEF ServiceInv, ServiceTypeOK
<1>3. \A h \in Handlers :
        /\ PhaseAgrees(h)' /\ HasCopy(h)'
        /\ PC(h)' = PC(h) /\ Op(h)' = Op(h) /\ ThenOf(h)' = ThenOf(h) /\ Copy(h)' = Copy(h)
        /\ Locks(h)' = Locks(h) /\ Restarts(h)' = Restarts(h)
  BY <1>1 DEF ServiceInv, PhaseAgrees, HasCopy, PC, Op, ThenOf, Copy, Locks, Restarts
<1>4. LockAgrees'
  BY <1>1, <1>3 DEF ServiceInv, LockAgrees, Waits, StepOfJob
<1>5. PICK h \in Handlers : PC(h) = "store" /\ lock = h
  BY <1>1 DEF StepOfJob, ServiceInv, LockAgrees, Locks, LockedLabels
<1>6. \A g \in Handlers : g # h => PC(g) \notin {"store", "put"}
  BY <1>5, OneHolder
<1>7. Settled
  BY <1>1, <1>5, <1>6 DEF ServiceInv, RecordAgrees, Changing, StepOfJob
<1>8. Settled' \/ Changing(h)'
  <2>1. job.kind \in {"Materialize", "PromotePending"} => ThenOf(h) = "put"
    BY <1>5 DEF ServiceInv, LockAgrees, Waits, PhaseAgrees
  <2> QED BY <1>1, <1>3, <1>5, <1>7, <2>1 DEF Settled, Changing, StepOfJob
<1>9. RecordAgrees'
  <2>1. \A g \in Handlers : PC(g)' # "put"
    BY <1>3, <1>5, <1>6
  <2> QED BY <1>1, <1>3, <1>8, <2>1 DEF ServiceInv, RecordAgrees
<1> QED BY <1>1, <1>2, <1>3, <1>4, <1>9 DEF ServiceInv

\* A stop of the gateway, and its start from what the disk holds, keep it.
LEMMA GatewayStopsKeeps ==
  ASSUME ServiceInv, GatewayStops
  PROVE  ServiceInv'
<1>1. /\ record' = Null /\ lock' = Null /\ UNCHANGED runs
      /\ handlers' = [h \in Handlers |->
           IF At(h, "new") THEN handlers[h] ELSE [handlers[h] EXCEPT !.pc = "done"]]
      /\ StorageStops /\ faults' = faults + 1 /\ faults < MaxFaults
      /\ handlers \in [Handlers -> HandlerRecords]
  BY DEF GatewayStops, ServiceInv, ServiceTypeOK
<1>2. StorageInv' /\ job'.pc = "idle"
  <2>1. faults' \in 0..MaxFaults
    BY <1>1, StorageAssumption DEF ServiceInv, StorageInv, StorageTypeOK
  <2> QED BY <1>1, <2>1, StopKeeps DEF ServiceInv, StorageStops, IdleJob
<1>3. \A h \in Handlers : PC(h)' \in {"new", "done"} /\ handlers'[h] \in HandlerRecords
  BY <1>1 DEF PC, At, HandlerRecords, HandlerLabels
<1>4. ServiceTypeOK'
  BY <1>1, <1>3 DEF ServiceInv, ServiceTypeOK
<1>5. \A h \in Handlers : /\ PhaseAgrees(h)' /\ HasCopy(h)' /\ ~Locks(h)' /\ ~Restarts(h)'
                          /\ PC(h)' \notin {"store", "put"}
  BY <1>3 DEF PhaseAgrees, HasCopy, Locks, LockedLabels, Restarts
<1>6. LockAgrees'
  BY <1>2, <1>5 DEF LockAgrees, Waits
<1>7. RecordAgrees'
  BY <1>1, <1>5 DEF RecordAgrees, Settled
<1> QED BY <1>2, <1>4, <1>5, <1>6, <1>7 DEF ServiceInv

\* Every step of a handler keeps it.
LEMMA HandlerStepKeeps ==
  ASSUME ServiceInv, open \subseteq Connections, NEW h \in Handlers, HandlerStep(h) \/ PollExpires(h)
  PROVE  ServiceInv'
<1>1. CASE FindsConfig(h)
  BY <1>1, ServiceStutter DEF FindsConfig, serviceVars, ServiceInv, ServiceTypeOK
<1> QED
  BY <1>1, BeginRequestKeeps, TakeLockKeeps, DecideInitKeeps, StoredKeeps, ReloadMCPKeeps,
     PutInitKeeps, RefreshKeeps, InterruptNextKeeps, PollKeeps, AdvanceRestartKeeps,
     PutAfterRestartKeeps, CloseStepsKeep, DeleteFilesKeeps, DeleteRecordKeeps, BeginEnsureKeeps,
     EnsureEndsKeeps, TurnStepsKeep, ActiveStepsKeep, GatewayClosesKeeps DEF HandlerStep

\* It is inductive, given that open connections are connections.
LEMMA ServiceStepInv ==
  ASSUME ServiceInv, open \subseteq Connections, [WorkflowNext]_workflowVars
  PROVE  ServiceInv'
<1>1. CASE UNCHANGED <<storageVars, serviceVars>>
  BY <1>1, ServiceStutter DEF serviceVars, ServiceInv, ServiceTypeOK
<1> QED
  BY <1>1, HandlerStepKeeps, StorageStepInv, TurnEndsKeeps, GatewayStopsKeeps
     DEF WorkflowNext, workflowVars

\* The first states satisfy it.
LEMMA InitServiceInv ==
  ASSUME WorkflowInit \/ \E p \in Packages : WorkflowInstalled(p)
  PROVE  ServiceInv
<1>1. /\ lock = Null /\ runs = [h \in Handlers |-> Null]
      /\ \A h \in Handlers : PC(h) = "new"
      /\ handlers \in [Handlers -> HandlerRecords]
  <2>1. PICK commands \in Assignments :
          handlers = [h \in Handlers |->
            [cmd |-> commands[h], pc |-> "new", copy |-> Null, then |-> "done", ok |-> FALSE]]
    BY Zenon DEF WorkflowInit, WorkflowInstalled, ServiceInit
  <2>2. \A h \in Handlers : commands[h] \in Commands
    BY DEF Commands
  <2> QED
    BY <2>1, <2>2 DEF WorkflowInit, WorkflowInstalled, ServiceInit, HandlerRecords, HandlerLabels, PC
<1>2. job = IdleJob /\ faults = 0 /\ pending \in Contents
  BY StorageAssumption DEF WorkflowInit, WorkflowInstalled, StorageInit, StorageInstalled, Contents
<1>3. IdleJob \in Jobs /\ IdleJob.pc = "idle" /\ IdleJob.kind \notin JobKinds
  BY KindsAssumption DEF IdleJob, Jobs, JobLabels, Contents
<1>4. StorageInv
  <2>1. CASE WorkflowInit
    BY <1>2, <1>3, <2>1, StorageAssumption
       DEF WorkflowInit, StorageInit, StorageInv, StorageTypeOK, JobAgrees, InPlace, Faultless,
           SuccessIsWhole, Contents, Workspaces, JobKinds
  <2>2. ASSUME NEW p \in Packages, WorkflowInstalled(p)
        PROVE  StorageInv
    BY <1>2, <1>3, <2>2, StorageAssumption
       DEF WorkflowInstalled, StorageInstalled, StorageInv, StorageTypeOK, JobAgrees, InPlace,
           Faultless, CurrentStands, PendingStands, SuccessIsWhole, Contents, Workspaces, JobKinds,
           Metadata
  <2> QED BY <2>1, <2>2
<1>5. record \in Records \cup {Null} /\ Settled
  <2>1. \A p \in Packages : FirstRecord(p) \in Records /\ FirstRecord(p).active = p
    BY WorkflowAssumption DEF FirstRecord, Records
  <2> QED
    BY <2>1 DEF WorkflowInit, WorkflowInstalled, StorageInit, StorageInstalled, Settled
<1>6. ServiceTypeOK
  BY <1>1, <1>5 DEF ServiceTypeOK
<1>7. \A h \in Handlers : PhaseAgrees(h) /\ HasCopy(h) /\ ~Locks(h) /\ ~Restarts(h)
  BY <1>1 DEF PhaseAgrees, HasCopy, Locks, LockedLabels, Restarts
<1>8. LockAgrees /\ RecordAgrees
  BY <1>1, <1>2, <1>3, <1>5, <1>7 DEF LockAgrees, Waits, RecordAgrees
<1> QED BY <1>4, <1>6, <1>7, <1>8 DEF ServiceInv

-----------------------------------------------------------------------------
(* The manager and its supervisors under the handlers                      *)

\* A handler takes the result of its operation of the manager.
Retires(u) ==
  /\ users[u].pc = "done" /\ users' = [users EXCEPT ![u] = IdleUser]
  /\ UNCHANGED <<entries, sessions, groupOf, manager, managerClosed, supervisorVars>>

\* A handler that gives its place among the users of the manager up keeps the
\* manager's invariant.
LEMMA RetireStep ==
  ASSUME RuntimesInv, NEW u \in Users, Retires(u)
  PROVE  RuntimesInv'
<1> USE SupervisorAssumption, RuntimesAssumption, UserOpsAssumption DEF Retires
<1>0. SupervisorInv' /\ UNCHANGED <<closing, connecting, callers, owner>>
  BY SupervisorStutter DEF RuntimesInv, supervisorVars
<1>1. /\ users' \in [Users -> UserRecords] /\ users'[u] = IdleUser
      /\ \A v \in Users : v # u => users'[v] = users[v]
  BY DEF RuntimesInv, RuntimesTypeOK, IdleUser, UserRecords, UserLabels
<1>2. RuntimesTypeOK'
  BY <1>0, <1>1 DEF RuntimesInv, RuntimesTypeOK, SupervisorInv
<1>3. \A v \in Users : UserAgrees(v)' /\ HandAgrees(v)'
  BY <1>0, <1>1 DEF RuntimesInv, IdleUser, UserAgrees, HandAgrees, Holding, UserOps
<1>4. \A g \in SessionGroups : EntryAgrees(g)'
  BY <1>0 DEF RuntimesInv, EntryAgrees
<1>5. \A s \in Supervisors : SupervisorIsKnown(s)'
  BY <1>0, <1>1, KnownStays DEF RuntimesInv, InHands
<1>6. EndedForGood'
  BY <1>0, <1>1 DEF RuntimesInv, IdleUser, EndedForGood, ManagerHasEnded, Holding, UserOps
<1> QED BY <1>0, <1>2, <1>3, <1>4, <1>5, <1>6 DEF RuntimesInv

\* A stop of the gateway leaves the supervisors in a state their invariant allows,
\* all of them closed.
LEMMA StopOfSupervisors ==
  ASSUME RuntimesInv, GatewayStops
  PROVE  /\ SupervisorInv'
         /\ \A s \in Supervisors :
              IF groupOf[s] = Null
              THEN closing'[s] = closing[s] ELSE closing'[s].pc = "closed"
         /\ \A c \in Callers : Asking(c)' = Asking(c)
<1> USE SupervisorAssumption, ErrorsAssumption
<1>1. \A c \in Callers : /\ callers'[c] \in CallerRecords
                         /\ callers'[c].pc \in {"idle", "done"}
                         /\ callers[c].pc = "idle" => callers'[c].pc = "idle"
                         /\ Asking(c)' = Asking(c)
  <2> SUFFICES ASSUME NEW c \in Callers
               PROVE  /\ callers'[c] \in CallerRecords
                      /\ callers'[c].pc \in {"idle", "done"}
                      /\ callers[c].pc = "idle" => callers'[c].pc = "idle"
                      /\ callers'[c].sup = callers[c].sup
    BY DEF Asking
  <2> DEFINE r == [callers[c] EXCEPT !.pc = "done", !.result = "canceled"]
  <2>1. callers[c] \in CallerRecords
    BY DEF RuntimesInv, SupervisorInv, SupervisorTypeOK
  <2>2. r \in CallerRecords /\ r.pc = "done" /\ r.sup = callers[c].sup
    BY <2>1 DEF CallerRecords, CallerLabels, Errors
  <2>3. callers'[c] = IF callers[c].pc = "idle" THEN callers[c] ELSE r
    BY DEF GatewayStops
  <2> QED BY <2>1, <2>2, <2>3
<1>2. \A s \in Supervisors :
        /\ closing'[s] \in ClosingRecords
        /\ closing'[s].pc # "open" => closing'[s].pc = "closed"
        /\ closing'[s].pc = "open" <=> groupOf[s] = Null
        /\ closing'[s].conn = closing[s].conn
        /\ groupOf[s] = Null => closing'[s] = closing[s]
  <2> SUFFICES ASSUME NEW s \in Supervisors
               PROVE  /\ closing'[s] \in ClosingRecords
                      /\ closing'[s].pc # "open" => closing'[s].pc = "closed"
                      /\ closing'[s].pc = "open" <=> groupOf[s] = Null
                      /\ closing'[s].conn = closing[s].conn
                      /\ groupOf[s] = Null => closing'[s] = closing[s]
    OBVIOUS
  <2>1. closing[s] \in ClosingRecords /\ (groupOf[s] = Null => closing[s].pc = "open")
    BY DEF RuntimesInv, SupervisorInv, SupervisorTypeOK, SupervisorIsKnown
  <2>2. closing'[s] = IF groupOf[s] # Null THEN [closing[s] EXCEPT !.pc = "closed"] ELSE closing[s]
    BY DEF GatewayStops
  <2> QED BY <2>1, <2>2 DEF ClosingRecords, ClosingLabels
<1>3. SupervisorTypeOK'
  <2>1. /\ callers' \in [Callers -> CallerRecords] /\ closing' \in [Supervisors -> ClosingRecords]
    BY <1>1, <1>2 DEF GatewayStops
  <2>2. closed' \in [Supervisors -> BOOLEAN]
    BY DEF GatewayStops
  <2> QED BY <2>1, <2>2 DEF GatewayStops, RuntimesInv, SupervisorInv, SupervisorTypeOK
<1>4. \A c \in Callers : CallerAgrees(c)'
  BY <1>1 DEF CallerAgrees, Starting, Made, RuntimesInv, SupervisorInv
<1>5. \A s \in Supervisors : active'[s] = Null /\ connecting'[s] = Null /\ ~cooling'[s]
                             /\ (closed'[s] <=> groupOf[s] # Null)
  BY DEF GatewayStops
<1>7. open' = {} /\ UNCHANGED <<owner, groupOf>>
  BY DEF GatewayStops
<1>6. \A s \in Supervisors : StartAgrees(s)' /\ CloseAgrees(s)' /\ OneAtATime(s)'
  BY <1>2, <1>5, <1>7 DEF StartAgrees, CloseAgrees, OneAtATime, RuntimesInv, SupervisorInv
<1> QED BY <1>1, <1>2, <1>3, <1>4, <1>6, <1>7 DEF SupervisorInv

\* So it does the manager.
LEMMA StopOfRuntimes ==
  ASSUME RuntimesInv, GatewayStops
  PROVE  RuntimesInv'
<1> USE SupervisorAssumption, RuntimesAssumption, UserOpsAssumption
<1>1. /\ entries' = [g \in SessionGroups |-> Null] /\ sessions' = [g \in SessionGroups |-> Null]
      /\ manager' = Null /\ users' = [u \in Users |-> IdleUser]
      /\ ~managerClosed /\ UNCHANGED <<groupOf, managerClosed, owner>>
      /\ \A s \in Supervisors : connecting'[s] = Null
  BY DEF GatewayStops
<1>2. RuntimesTypeOK'
  BY <1>1, StopOfSupervisors
     DEF RuntimesInv, RuntimesTypeOK, SupervisorInv, IdleUser, UserRecords, UserLabels
<1>3. \A u \in Users : UserAgrees(u)' /\ HandAgrees(u)'
  BY <1>1 DEF UserAgrees, HandAgrees, Holding, IdleUser, UserOps
<1>4. \A g \in SessionGroups : EntryAgrees(g)'
  BY <1>1 DEF EntryAgrees
<1>5. \A s \in Supervisors : SupervisorIsKnown(s)'
  BY <1>1, StopOfSupervisors DEF SupervisorIsKnown, RuntimesInv
<1>6. EndedForGood'
  BY <1>1 DEF EndedForGood, Holding, ManagerHasEnded, IdleUser, UserOps
<1> QED BY <1>2, <1>3, <1>4, <1>5, <1>6, StopOfSupervisors DEF RuntimesInv

\* What each step of a handler is for the manager and the supervisors.
HandlerStepOfRuntimes(h) ==
  \/ UNCHANGED runtimesVars
  \/ EnsureWorkflowRuntime(h, Workflow, Copy(h).epoch) /\ UNCHANGED supervisorVars
     /\ PC(h) = "ensure" /\ Move(h, "ensuring")
  \/ CloseWorkflowRuntime(h, Workflow) /\ UNCHANGED supervisorVars
     /\ PC(h) = "close" /\ Move(h, "closing")
  \/ CloseManager(h) /\ UNCHANGED supervisorVars /\ Conclude(h, TRUE)
  \/ UNCHANGED <<supervisorVars, handlers>>
     /\ \E found \in BOOLEAN : ValidateRuntimeWorkspace(h, found)
  \/ AskSession(h, Workflow)
  \/ Retires(h) /\ PC(h) \in {"ensuring", "closing"}

\* What the manager sees of a step of a handler.
LEMMA HandlerStepIs ==
  ASSUME NEW h \in Handlers, HandlerStep(h) \/ PollExpires(h)
  PROVE  HandlerStepOfRuntimes(h)
<1> USE DEF HandlerStepOfRuntimes
<1>1. CASE \/ BeginRequest(h) \/ TakeLock(h) \/ PutInit(h) \/ Refresh(h) \/ InterruptNext(h)
           \/ Poll(h) \/ PollExpires(h) \/ PutRestart(h) \/ DeleteRecord(h) \/ GetConnection(h)
           \/ StartTurn(h) \/ MarkWorkflowActive(h) \/ ClearWorkflowActive(h)
  BY <1>1, Zenon DEF BeginRequest, TakeLock, PutInit, Refresh, InterruptNext, Poll, PollExpires,
     PutRestart, DeleteRecord, GetConnection, StartTurn, MarkWorkflowActive, ClearWorkflowActive,
     Elsewhere
<1>2. CASE \/ DecideInit(h) \/ Stored(h) \/ ReloadMCP(h) \/ AdvanceRestart(h) \/ DeleteFiles(h)
  BY <1>2 DEF DecideInit, Stored, ReloadMCP, AdvanceRestart, DeleteFiles
<1>3. CASE DeleteCloses(h)
  BY <1>3 DEF DeleteCloses, runtimesVars, At, PC
<1>4. CASE RuntimeIsClosed(h) \/ EnsureEnds(h)
  BY <1>4 DEF RuntimeIsClosed, EnsureEnds, Retires, At, PC
<1>5. CASE BeginEnsure(h)
  BY <1>5 DEF BeginEnsure, At, PC
<1>6. CASE FindsConfig(h)
  BY <1>6 DEF FindsConfig, serviceVars
<1>7. CASE AskConnection(h)
  BY <1>7 DEF AskConnection, AskSession, runtimesVars
<1>8. CASE GatewayCloses(h)
  BY <1>8 DEF GatewayCloses
<1> QED BY <1>1, <1>2, <1>3, <1>4, <1>5, <1>6, <1>7, <1>8 DEF HandlerStep

\* Such a step keeps the invariant of the manager.
LEMMA HandlerStepInv ==
  ASSUME ServiceInv, RuntimesInv, NEW h \in Handlers, HandlerStepOfRuntimes(h)
  PROVE  RuntimesInv'
<1>1. h \in Users /\ h \in Callers /\ Workflow \in SessionGroups
  BY WorkflowAssumption
<1>2. PC(h) = "ensure" => Copy(h).epoch \in Epochs
  BY DEF ServiceInv, HasCopy, Records
<1> QED
  BY <1>1, <1>2, RuntimesStutter, EnsureStep, CloseRuntimeStep, CloseManagerStep, ValidateStep,
     AskSessionStep, RetireStep DEF HandlerStepOfRuntimes

\* Every step of the whole keeps the invariant of the manager.
LEMMA WorkflowStepOfRuntimes ==
  ASSUME ServiceInv, RuntimesInv, [WorkflowNext]_workflowVars
  PROVE  RuntimesInv'
<1>1. ASSUME NEW h \in Handlers, HandlerStep(h) \/ PollExpires(h)
      PROVE  RuntimesInv'
  BY <1>1, HandlerStepIs, HandlerStepInv
<1>2. CASE RuntimeStep
  BY <1>2, WorkflowAssumption, ManagerStepInv, SupervisorStepInv DEF RuntimeStep
<1>3. CASE GatewayStops
  BY <1>3, StopOfRuntimes
<1>4. CASE UNCHANGED runtimesVars
  BY <1>4, RuntimesStutter
<1>5. ASSUME NEW r \in Handlers, TurnEnds(r)
      PROVE  RuntimesInv'
  BY <1>4, <1>5 DEF TurnEnds, Elsewhere
<1> QED BY <1>1, <1>2, <1>3, <1>4, <1>5 DEF WorkflowNext, workflowVars

-----------------------------------------------------------------------------
(* What survives as long as no deletion has begun                          *)

\* A handler leaves the others where they are.
LEMMA OthersStay ==
  ASSUME ServiceInv, NEW h \in Handlers, HandlerStep(h) \/ PollExpires(h),
         NEW g \in Handlers, g # h
  PROVE  handlers'[g] = handlers[g]
<1>0. handlers \in [Handlers -> HandlerRecords]
  BY HandlerFacts
<1>1. /\ \A pc : Move(h, pc) => handlers'[g] = handlers[g]
      /\ \A pc, copy : MoveWith(h, pc, copy) => handlers'[g] = handlers[g]
      /\ \A ok : Conclude(h, ok) => handlers'[g] = handlers[g]
      /\ Refuse(h) => handlers'[g] = handlers[g]
  BY <1>0 DEF Move, MoveWith, Conclude, Refuse
<1>2. CASE BeginRequest(h)
  <2>1. handlers' = [handlers EXCEPT ![h].pc = "ensure", ![h].then = "ask", ![h].copy = record]
        => handlers'[g] = handlers[g]
    BY <1>0
  <2>2. handlers' = [handlers EXCEPT ![h].pc = "ensure", ![h].copy = record, ![h].then = "clear"]
        => handlers'[g] = handlers[g]
    BY <1>0
  <2> QED BY <1>1, <1>2, <2>1, <2>2, Zenon DEF BeginRequest
<1>3. CASE PutInit(h)
  <2>1. \A copy :
          handlers' = [handlers EXCEPT ![h].pc = "ensure", ![h].then = "done", ![h].copy = copy]
          => handlers'[g] = handlers[g]
    BY <1>0
  <2> QED BY <1>1, <1>3, <2>1, Zenon DEF PutInit
<1>4. CASE DecideInit(h)
  <2>1. handlers' = [handlers EXCEPT ![h].pc = "ensure", ![h].then = "done", ![h].copy = record]
        => handlers'[g] = handlers[g]
    BY <1>0
  <2>2. \A then :
          handlers' = [handlers EXCEPT ![h].pc = "store", ![h].copy = record, ![h].then = then]
          => handlers'[g] = handlers[g]
    BY <1>0
  <2>3. handlers' = [handlers EXCEPT ![h].pc = "store", ![h].then = "put"]
        => handlers'[g] = handlers[g]
    BY <1>0
  <2> QED BY <1>1, <1>4, <2>1, <2>2, <2>3, Zenon DEF DecideInit
<1>5. /\ \A pc, then : handlers' = [handlers EXCEPT ![h].pc = pc, ![h].then = then]
                       => handlers'[g] = handlers[g]
      /\ \A copy, then :
           handlers' = [handlers EXCEPT ![h].pc = "ensure", ![h].then = then, ![h].copy = copy]
           => handlers'[g] = handlers[g]
      /\ \A r : handlers' = [handlers EXCEPT ![h].copy.runs = @ \ {r}]
                => handlers'[g] = handlers[g]
  BY <1>0
<1>6. CASE \/ Poll(h) \/ PollExpires(h) \/ PutRestart(h) \/ DeleteRecord(h) \/ GetConnection(h)
           \/ TakeLock(h) \/ Refresh(h)
  BY <1>1, <1>5, <1>6, Zenon DEF Poll, PollExpires, PutRestart, DeleteRecord, GetConnection,
     TakeLock, Refresh
<1>7. CASE \/ StartTurn(h) \/ MarkWorkflowActive(h) \/ ClearWorkflowActive(h) \/ InterruptNext(h)
           \/ Stored(h) \/ ReloadMCP(h)
  BY <1>1, <1>5, <1>7, Zenon DEF StartTurn, MarkWorkflowActive, ClearWorkflowActive,
     InterruptNext, Stored, ReloadMCP
<1>8. CASE AdvanceRestart(h) \/ DeleteFiles(h) \/ DeleteCloses(h) \/ RuntimeIsClosed(h)
  BY <1>1, <1>5, <1>8, Zenon DEF AdvanceRestart, DeleteFiles, DeleteCloses, RuntimeIsClosed
<1>9. CASE EnsureEnds(h) \/ BeginEnsure(h) \/ AskConnection(h) \/ GatewayCloses(h)
  BY <1>1, <1>9, Zenon DEF EnsureEnds, BeginEnsure, AskConnection, GatewayCloses
<1>10. CASE FindsConfig(h)
  BY <1>10 DEF FindsConfig, serviceVars
<1> QED BY <1>2, <1>3, <1>4, <1>6, <1>7, <1>8, <1>9, <1>10 DEF HandlerStep

\* A deletion that has begun has begun for good.
LEMMA DeletionStays ==
  ASSUME ServiceInv, [WorkflowNext]_workflowVars, DeletionHasBegun
  PROVE  DeletionHasBegun'
<1>1. PICK h \in Handlers : Op(h) = "DeleteWorkflow" /\ PC(h) \in {"store", "forget", "done"}
  BY DEF DeletionHasBegun, Has, Op, Cmd, PC
<1>2. SUFFICES Op(h)' = "DeleteWorkflow" /\ PC(h)' \in {"store", "forget", "done"}
  BY DEF DeletionHasBegun, Has, Op, Cmd, PC
<1>3. ASSUME NEW g \in Handlers, HandlerStep(g) \/ PollExpires(g), g # h
      PROVE  Op(h)' = Op(h) /\ PC(h)' = PC(h)
  BY <1>3, OthersStay DEF Op, PC
<1>4. CASE HandlerStep(h) \/ PollExpires(h)
  <2>1. CASE Stored(h)
    <3>1. ThenOf(h) = "forget" \/ PC(h) # "store"
      BY <1>1, HandlerFacts DEF PhaseAgrees
    <3>2. StepTo(h, "done", Copy(h), ThenOf(h)) \/ StepTo(h, "forget", Copy(h), ThenOf(h))
      BY <2>1, <3>1, HandlerFacts, ConcludeFrame, MoveFrame
         DEF Stored, Refuse, HandlerLabels, ThenOf, At, PC
    <3> QED BY <1>1, <3>2 DEF StepTo, Cmd, Op
  <2>2. CASE DeleteRecord(h)
    <3>1. StepTo(h, "done", Copy(h), ThenOf(h))
      BY <2>2, HandlerFacts, ConcludeFrame DEF DeleteRecord
    <3> QED BY <1>1, <3>1 DEF StepTo, Cmd, Op
  <2> QED
    BY <1>1, <1>4, <2>1, <2>2, Zenon
       DEF HandlerStep, At, PC, BeginRequest, TakeLock, DecideInit, ReloadMCP, PutInit, Refresh,
           InterruptNext, Poll, PollExpires, AdvanceRestart, PutRestart, DeleteCloses,
           RuntimeIsClosed, DeleteFiles, BeginEnsure, FindsConfig, EnsureEnds, AskConnection,
           GetConnection, StartTurn, MarkWorkflowActive, ClearWorkflowActive, GatewayCloses
<1>5. CASE GatewayStops
  <2>1. handlers'[h] = IF At(h, "new") THEN handlers[h] ELSE [handlers[h] EXCEPT !.pc = "done"]
    BY <1>5 DEF GatewayStops
  <2>2. handlers[h] \in HandlerRecords
    BY HandlerFacts
  <2> QED BY <1>1, <2>1, <2>2 DEF At, PC, Op, HandlerRecords
<1>6. CASE UNCHANGED handlers
  BY <1>1, <1>6 DEF Op, PC
<1> QED
  BY <1>1, <1>3, <1>4, <1>5, <1>6 DEF WorkflowNext, workflowVars, serviceVars, TurnEnds

\* What each step of a handler is for the storage.
HandlerStepOfStorage ==
  /\ UNCHANGED <<directories, faults>>
  /\ \/ UNCHANGED job
     \/ \E kind \in JobKinds : \E pkg : Begin(kind, pkg)
     \/ job.pc = "done" /\ job' = IdleJob

\* What the storage sees of a step of a handler.
LEMMA HandlerStepIsOfStorage ==
  ASSUME NEW h \in Handlers, HandlerStep(h) \/ PollExpires(h)
  PROVE  HandlerStepOfStorage
<1> USE DEF HandlerStepOfStorage
<1>1. UNCHANGED storageVars => UNCHANGED <<directories, faults, job>>
  BY DEF storageVars, directories
<1>2. CASE \/ BeginRequest(h) \/ TakeLock(h) \/ PutInit(h) \/ Refresh(h) \/ InterruptNext(h)
           \/ Poll(h) \/ PollExpires(h) \/ PutRestart(h) \/ DeleteRecord(h) \/ GetConnection(h)
           \/ StartTurn(h) \/ MarkWorkflowActive(h) \/ ClearWorkflowActive(h)
  BY <1>1, <1>2, Zenon DEF BeginRequest, TakeLock, PutInit, Refresh, InterruptNext, Poll, PollExpires,
     PutRestart, DeleteRecord, GetConnection, StartTurn, MarkWorkflowActive, ClearWorkflowActive,
     Elsewhere
<1>3. CASE \/ DeleteCloses(h) \/ RuntimeIsClosed(h) \/ BeginEnsure(h) \/ FindsConfig(h)
           \/ EnsureEnds(h) \/ AskConnection(h) \/ GatewayCloses(h)
  BY <1>1, <1>3, Zenon DEF DeleteCloses, RuntimeIsClosed, BeginEnsure, FindsConfig, EnsureEnds,
     AskConnection, GatewayCloses
<1>4. CASE DecideInit(h)
  <2>1. /\ "Materialize" \in JobKinds
        /\ \A class : (IF class = "hot" THEN "Materialize" ELSE "Stage") \in JobKinds
    BY DEF JobKinds
  <2> QED BY <1>4, <2>1, Zenon DEF DecideInit
<1>5. CASE Stored(h)
  BY <1>5, Zenon DEF Stored
<1>6. CASE ReloadMCP(h) \/ AdvanceRestart(h) \/ DeleteFiles(h)
  <2>1. "PromotePending" \in JobKinds /\ "Delete" \in JobKinds
    BY DEF JobKinds
  <2> QED BY <1>6, <2>1 DEF ReloadMCP, AdvanceRestart, DeleteFiles, Begin
<1> QED BY <1>2, <1>3, <1>4, <1>5, <1>6 DEF HandlerStep

\* The inductive step: as long as no deletion has begun the package survives.
LEMMA WorkflowStepSurvives ==
  ASSUME ServiceInv, Survives, [WorkflowNext]_workflowVars, ~DeletionHasBegun
  PROVE  Survives'
<1>1. CASE UNCHANGED storageVars
  BY <1>1 DEF storageVars, Survives, WholeSomewhere, PendingReplaces, NothingFailedYet,
              IsWhole
<1>2. ASSUME NEW h \in Handlers, HandlerStep(h) \/ PollExpires(h)
      PROVE  Survives'
  <2>1. HandlerStepOfStorage
    BY <1>2, HandlerStepIsOfStorage
  <2>2. CASE UNCHANGED job
    BY <1>1, <2>1, <2>2 DEF HandlerStepOfStorage, storageVars, directories
  <2>3. ASSUME NEW kind \in JobKinds, NEW pkg, Begin(kind, pkg)
        PROVE  Survives'
    <3>1. /\ job.pc = "idle" /\ UNCHANGED <<directories, faults>>
          /\ job'.pc \in {"prepare", "clear", "delete"}
          /\ job'.pc = "clear" => job'.kind = "PromotePending"
      BY <2>3 DEF Begin, IdleJob, JobKinds
    <3> QED BY <3>1, BeginSurvives
  <2>4. CASE job.pc = "done" /\ job' = IdleJob
    BY <2>1, <2>4, BeginSurvives DEF HandlerStepOfStorage, IdleJob
  <2> QED BY <2>1, <2>2, <2>3, <2>4 DEF HandlerStepOfStorage
<1>3. job.pc # "idle" => job.kind # "Delete"
  <2> SUFFICES ASSUME job.pc # "idle" PROVE job.kind # "Delete"
    OBVIOUS
  <2>1. PICK h \in Handlers : PC(h) = "store"
    BY DEF ServiceInv, LockAgrees
  <2>2. ThenOf(h) # "forget"
    BY <2>1 DEF ServiceInv, PhaseAgrees, DeletionHasBegun, Has, Op, Cmd, PC
  <2> QED BY <2>1, <2>2 DEF ServiceInv, LockAgrees, Waits
<1>4. CASE StorageStep
  <2>1. job.pc # "idle"
    BY <1>4 DEF StorageStep, Prepare, WriteFiles, ClearPrevious, KeepPrevious, Promote, Layout,
       CopyCurrent, UnlinkConfig, LinkConfig, SyncInstructions, WriteMetadata, DeleteRoot
  <2> QED BY <1>3, <1>4, <2>1, StorageStepSurvives DEF ServiceInv
<1>5. CASE GatewayStops
  <2>1. job.pc # "delete"
    BY <1>3 DEF ServiceInv, StorageInv, JobAgrees
  <2> QED BY <1>5, <2>1, StopSurvives DEF GatewayStops, ServiceInv
<1> QED
  BY <1>1, <1>2, <1>4, <1>5 DEF WorkflowNext, workflowVars, TurnEnds, Elsewhere

\* In the first states no package is lost.
LEMMA InitSurvives ==
  ASSUME WorkflowInit \/ \E p \in Packages : WorkflowInstalled(p)
  PROVE  Survives
<1>1. IdleJob.pc = "idle" /\ IdleJob.kind = Absent
  BY DEF IdleJob
<1> QED
  BY <1>1, KindsAssumption
     DEF WorkflowInit, WorkflowInstalled, StorageInit, StorageInstalled, Survives,
         WholeSomewhere, PendingReplaces, NothingFailedYet, IsWhole, JobKinds

\* The inductive form gives the property.
LEMMA SurvivesMeans ==
  ASSUME Survives \/ DeletionHasBegun
  PROVE  PackageSurvives
  BY DEF Survives, PackageSurvives, WholeSomewhere, IsWhole

-----------------------------------------------------------------------------
(* The workflow's app server                                               *)

\* The gateway's Close is the last thing its handler does.
CloseIsLast == \A h \in Handlers : users[h].op = "Close" => PC(h) = "done"

WorkflowInv == ServiceInv /\ RuntimesInv /\ CloseIsLast

SameRequest(v) == users'[v].op = users[v].op /\ users'[v].epoch = users[v].epoch

\* No step of the manager changes what its users ask for.
LEMMA ManagerKeepsOps ==
  ASSUME RuntimesInv, NEW u \in Users, ManagerStep(u)
  PROVE  \A v \in Users : SameRequest(v)
<1>1. users \in [Users -> UserRecords]
  BY DEF RuntimesInv, RuntimesTypeOK
<1>2. /\ \A ok \in BOOLEAN : Leave(u, ok) => \A v \in Users : SameRequest(v)
      /\ \A pc \in UserLabels : Goto(u, pc) => \A v \in Users : SameRequest(v)
  BY <1>1, LeaveFrame, GotoFrame DEF SameRequest
<1>3. \A g \in SessionGroups : TakeEntry(u, g) /\ entries[g] # Null
                               => \A v \in Users : SameRequest(v)
  BY TakeEntryFrame DEF RuntimesInv, SameRequest
<1>4. CASE Lock(u)
  <2>1. users[u].op # "Close" => users[u].group \in SessionGroups
    BY <1>4 DEF Lock, RuntimesInv, UserAgrees, UserOps
  <2>2. "create" \in UserLabels /\ "shutdown" \in UserLabels
    BY DEF UserLabels
  <2> QED BY <1>2, <1>3, <1>4, <2>1, <2>2 DEF Lock
<1>5. CASE Shutdown(u)
  BY <1>2, <1>3, <1>5 DEF Shutdown
<1>6. CASE SupervisorIsClosed(u)
  <2>1. users[u].op \in UserOps
    BY <1>6 DEF SupervisorIsClosed, RuntimesInv, UserAgrees
  <2>2. "create" \in UserLabels /\ "shutdown" \in UserLabels
    BY DEF UserLabels
  <2> QED BY <1>2, <1>6, <2>1, <2>2 DEF SupervisorIsClosed, UserOps
<1>7. CASE Create(u)
  <2>1. ASSUME NEW s \in Supervisors, users' = [users EXCEPT ![u].pc = "register", ![u].sup = s]
        PROVE  \A v \in Users : SameRequest(v)
    BY <1>1, <2>1 DEF UserRecords, SameRequest
  <2> QED BY <1>2, <1>7, <2>1, Zenon DEF Create
<1>8. CASE Register(u)
  BY <1>2, <1>8 DEF Register
<1>9. CASE CloseSupervisor(u)
  <2>1. "closing" \in UserLabels
    BY DEF UserLabels
  <2> QED BY <1>2, <1>9, <2>1 DEF CloseSupervisor
<1> QED BY <1>4, <1>5, <1>6, <1>7, <1>8, <1>9 DEF ManagerStep

\* A handler that is done takes no step.
LEMMA DoneIsDone ==
  ASSUME NEW h \in Handlers, HandlerStep(h) \/ PollExpires(h)
  PROVE  PC(h) # "done"
  BY Zenon
     DEF HandlerStep, At, PC, BeginRequest, TakeLock, DecideInit, Stored, ReloadMCP, PutInit, Refresh,
         InterruptNext, Poll, PollExpires, AdvanceRestart, PutRestart, DeleteCloses,
         RuntimeIsClosed, DeleteFiles, DeleteRecord, BeginEnsure, FindsConfig, EnsureEnds,
         AskConnection, GetConnection, StartTurn, MarkWorkflowActive, ClearWorkflowActive,
         GatewayCloses

\* The handler through which the gateway closes the manager has no step left.
LEMMA HandlerKeepsCloseLast ==
  ASSUME WorkflowInv, NEW h \in Handlers, HandlerStep(h) \/ PollExpires(h)
  PROVE  CloseIsLast'
<1>0. users \in [Users -> UserRecords] /\ Users = Handlers
  BY WorkflowAssumption DEF WorkflowInv, RuntimesInv, RuntimesTypeOK
<1>1. users[h].op # "Close"
  BY DoneIsDone DEF WorkflowInv, CloseIsLast
<1>2. /\ \A g \in Handlers : g # h => users'[g] = users[g]
      /\ users'[h].op = "Close" => Conclude(h, TRUE)
  <2>1. CASE CloseManager(h) /\ Conclude(h, TRUE)
    BY <1>0, <2>1 DEF CloseManager
  <2>2. CASE UNCHANGED users
    BY <1>1, <2>2
  <2>3. CASE EnsureWorkflowRuntime(h, Workflow, Copy(h).epoch) \/ CloseWorkflowRuntime(h, Workflow)
    BY <1>0, <2>3 DEF EnsureWorkflowRuntime, CloseWorkflowRuntime, IdleUser
  <2>4. ASSUME NEW found \in BOOLEAN, ValidateRuntimeWorkspace(h, found)
        PROVE  \A g \in Handlers : users'[g].op = users[g].op /\ (g # h => users'[g] = users[g])
    BY <1>0, <2>4 DEF ValidateRuntimeWorkspace, UserRecords
  <2>5. CASE Retires(h)
    BY <1>0, <2>5, UserOpsAssumption DEF Retires, IdleUser, UserOps
  <2> QED
    BY <1>1, <2>1, <2>2, <2>3, <2>4, <2>5, HandlerStepIs
       DEF HandlerStepOfRuntimes, runtimesVars, managerVars, AskSession
<1>3. Conclude(h, TRUE) => PC(h)' = "done"
  BY HandlerFacts, ConcludeFrame DEF WorkflowInv, StepTo
<1>4. \A g \in Handlers : g # h => PC(g)' = PC(g)
  BY OthersStay DEF WorkflowInv, PC
<1> QED BY <1>2, <1>3, <1>4 DEF WorkflowInv, CloseIsLast

\* The whole invariant is inductive.
LEMMA WorkflowStepInv ==
  ASSUME WorkflowInv, [WorkflowNext]_workflowVars
  PROVE  WorkflowInv'
<1> USE DEF WorkflowInv
<1>1. open \subseteq Connections
  BY DEF RuntimesInv, SupervisorInv, SupervisorTypeOK
<1>2. ServiceInv' /\ RuntimesInv'
  BY <1>1, ServiceStepInv, WorkflowStepOfRuntimes
<1>3. CloseIsLast'
  <2>1. CASE \E h \in Handlers : HandlerStep(h) \/ PollExpires(h)
    BY <2>1, HandlerKeepsCloseLast
  <2>2. CASE RuntimeStep /\ UNCHANGED serviceVars
    <3>1. \A h \in Handlers : PC(h)' = PC(h)
      BY <2>2 DEF serviceVars, PC
    <3>2. \A h \in Handlers : users'[h].op = users[h].op
      BY <2>2, ManagerKeepsOps, WorkflowAssumption
         DEF RuntimeStep, SupervisorStep, managerVars, SameRequest
    <3> QED BY <3>1, <3>2 DEF CloseIsLast
  <2>3. CASE GatewayStops
    <3>1. \A h \in Handlers : users'[h] = IdleUser
      BY <2>3, WorkflowAssumption DEF GatewayStops
    <3> QED BY <3>1, UserOpsAssumption DEF CloseIsLast, IdleUser, UserOps
  <2>4. CASE UNCHANGED <<users, handlers>>
    BY <2>4 DEF CloseIsLast, PC
  <2> QED
    BY <2>1, <2>2, <2>3, <2>4
       DEF WorkflowNext, workflowVars, serviceVars, runtimesVars, managerVars, TurnEnds, Elsewhere
<1> QED BY <1>2, <1>3

\* The first states satisfy it.
LEMMA InitWorkflowInv ==
  ASSUME WorkflowInit \/ \E p \in Packages : WorkflowInstalled(p)
  PROVE  WorkflowInv
<1>1. RuntimesInit
  BY DEF WorkflowInit, WorkflowInstalled
<1>2. CloseIsLast
  BY <1>1, UserOpsAssumption, WorkflowAssumption DEF RuntimesInit, CloseIsLast, IdleUser, UserOps
<1> QED BY <1>1, <1>2, InitServiceInv, InitRuntimesInv DEF WorkflowInv

\* The whole invariant holds in every state.
LEMMA WorkflowInvariant == WorkflowSpec => []WorkflowInv
<1>1. WorkflowInit => WorkflowInv
  BY InitWorkflowInv
<1>2. WorkflowInv /\ [WorkflowNext]_workflowVars => WorkflowInv'
  BY WorkflowStepInv
<1> QED BY <1>1, <1>2, PTL DEF WorkflowSpec

\* The handlers' state, the storage's, and that of the manager and the supervisors below
\* them stay well typed (workflow_handlers.go, workflowstorage, workflowruntime, appserver).
THEOREM WorkflowTypeCorrect == WorkflowSpec => []WorkflowTypeOK
<1>1. WorkflowInv => WorkflowTypeOK
  BY DEF WorkflowInv, ServiceInv, ServiceTypeOK, RuntimesInv, StorageInv, WorkflowTypeOK
<1> QED BY <1>1, WorkflowInvariant, PTL

\* Whatever failed before, wherever the gateway stopped, and whatever half-written and
\* half-removed directories that left behind: when Materialize, Stage, PromotePending or Delete
\* (workflowstorage/storage.go) reports success, the directories, the runtime's workspace and
\* the metadata file are what it promises.
THEOREM SuccessfulUpdatesAreWhole == WorkflowSpec => []SuccessIsWhole
<1>1. WorkflowInv => SuccessIsWhole
  BY DEF WorkflowInv, ServiceInv, StorageInv
<1> QED BY <1>1, WorkflowInvariant, PTL

\* Between operations the service's record and the metadata file name the same active
\* package (PutWorkflow after the storage's operation, workflow_handlers.go), although the
\* record is written from a copy and after the file.
THEOREM RecordIsMetadata == WorkflowSpec => []RecordAgreesWithMetadata
<1>1. WorkflowInv => RecordAgreesWithMetadata
  <2> SUFFICES ASSUME ServiceInv, lock = Null
               PROVE  Settled
    BY DEF WorkflowInv, RecordAgreesWithMetadata, Settled
  <2>1. \A h \in Handlers : ~Changing(h)
    BY HandlerFacts DEF ServiceInv, LockAgrees, Locks, LockedLabels, Changing
  <2> QED BY <2>1 DEF ServiceInv, RecordAgrees
<1> QED BY <1>1, WorkflowInvariant, PTL

\* One failure, or one stop of the gateway, at any step of any operation never loses the
\* workflow's package, unless a deletion has begun (Materialize, Stage and PromotePending,
\* workflowstorage/storage.go, called by the handlers in every order the lock admits).
THEOREM PackageIsNeverLost == WorkflowSpec => []PackageSurvives
<1>1. WorkflowInit => Survives \/ DeletionHasBegun
  BY InitSurvives
<1>2. /\ WorkflowInv /\ (Survives \/ DeletionHasBegun) /\ [WorkflowNext]_workflowVars
      => (Survives \/ DeletionHasBegun)'
  BY WorkflowStepSurvives, DeletionStays DEF WorkflowInv
<1>3. Survives \/ DeletionHasBegun => PackageSurvives
  BY SurvivesMeans
<1> QED BY <1>1, <1>2, <1>3, WorkflowInvariant, PTL DEF WorkflowSpec

\* What a closed or refusing supervisor leaves behind under the handlers: nothing
\* (Close and Connection, appserver/supervisor.go).
THEOREM WorkflowLeavesNothing == WorkflowSpec => []DownMeansGone
<1>1. WorkflowInv => DownMeansGone
  BY InvMeansGone DEF WorkflowInv, RuntimesInv
<1> QED BY <1>1, WorkflowInvariant, PTL

\* Under the handlers too, and across stops of the gateway, requests find the supervisor
\* that the manager would hand out (RegisterSession, closeLocked, workflowruntime/manager.go).
THEOREM WorkflowSessionsAreEntries == WorkflowSpec => []EntriesAreRegistered
<1>1. WorkflowInv => EntriesAreRegistered
  BY InvMeansRegistered DEF WorkflowInv
<1> QED BY <1>1, WorkflowInvariant, PTL

-----------------------------------------------------------------------------
(* The handlers, the manager and its supervisors implement ConnectionSlot  *)

\* A step of a handler opens and ends no connection.
LEMMA HandlerStepOfSlot ==
  ASSUME WorkflowInv, NEW h \in Handlers, HandlerStep(h) \/ PollExpires(h)
  PROVE  UNCHANGED Slot!slotVars
<1>1. /\ RuntimesInv /\ h \in Users /\ h \in Callers /\ Workflow \in SessionGroups
      /\ PC(h) = "ensure" => Copy(h).epoch \in Epochs
  BY WorkflowAssumption DEF WorkflowInv, ServiceInv, HasCopy, Records
<1>2. CASE UNCHANGED runtimesVars
  <2>1. UNCHANGED <<open, owner, groupOf, users>>
    BY <1>2 DEF runtimesVars, supervisorVars, managerVars
  <2> QED BY <2>1, StutterOfSlot DEF ManagerHasEnded
<1>3. CASE Retires(h) /\ PC(h) \in {"ensuring", "closing"}
  <2>1. users[h].op # "Close" /\ users \in [Users -> UserRecords]
    BY <1>3 DEF WorkflowInv, CloseIsLast, RuntimesInv, RuntimesTypeOK
  <2>2. ManagerHasEnded' <=> ManagerHasEnded
    BY <1>1, <1>3, <2>1, EndedStays, UserOpsAssumption DEF Retires, IdleUser
  <2> QED BY <1>3, <2>2, StutterOfSlot DEF Retires, supervisorVars
<1> QED
  BY <1>1, <1>2, <1>3, HandlerStepIs, UserStepOfSlot, AskOfSlot DEF HandlerStepOfRuntimes

\* When the gateway stops, the app server there may be is lost.
LEMMA StopOfSlot ==
  ASSUME WorkflowInv, GatewayStops
  PROVE  [Slot!SlotNext]_(Slot!slotVars)
<1> USE DEF WorkflowInv
<1>1. /\ open' = {} /\ UNCHANGED <<owner, groupOf>> /\ ~managerClosed
      /\ users' = [u \in Users |-> IdleUser]
  BY DEF GatewayStops
<1>2. ManagerHasEnded' <=> ManagerHasEnded
  <2>1. ~ManagerHasEnded
    BY <1>1 DEF RuntimesInv, EndedForGood, ManagerHasEnded
  <2>2. ~ManagerHasEnded'
    BY <1>1, UserOpsAssumption DEF ManagerHasEnded, IdleUser, UserOps
  <2> QED BY <2>1, <2>2
<1>3. \A n, m \in open : n = m
  <2> SUFFICES ASSUME NEW n \in open, NEW m \in open
               PROVE  n = m
    OBVIOUS
  <2>1. owner[n] = owner[m]
    BY OpenBelongs, OneSupervisorEach, WorkflowAssumption, RuntimesAssumption
  <2> QED BY <2>1, OpenBelongs, OneOpenEach DEF RuntimesInv, OpenOf
<1>4. \E n : open' = open \ {n}
  BY <1>1, <1>3
<1> QED BY <1>1, <1>2, <1>4, LoseOfSlot

\* Every step of the whole is a step of the slot, or a stutter.
LEMMA WorkflowStepOfSlot ==
  ASSUME WorkflowInv, WorkflowInv', [WorkflowNext]_workflowVars
  PROVE  [Slot!SlotNext]_(Slot!slotVars)
<1>1. RuntimesInv /\ RuntimesInv'
  BY DEF WorkflowInv
<1>2. CASE RuntimeStep
  BY <1>1, <1>2, WorkflowAssumption, ManagerStepOfSlot, SupervisorStepOfSlot DEF RuntimeStep
<1>3. CASE UNCHANGED runtimesVars
  <2>1. UNCHANGED <<open, owner, groupOf, users>>
    BY <1>3 DEF runtimesVars, supervisorVars, managerVars
  <2> QED BY <2>1, StutterOfSlot DEF ManagerHasEnded
<1> QED
  BY <1>2, <1>3, HandlerStepOfSlot, StopOfSlot DEF WorkflowNext, workflowVars, TurnEnds, Elsewhere

\* However requests about a workflow follow each other, whichever of them fail, and though
\* the gateway stops and is started again: the workflow never has two app servers, and none
\* once the manager's Close has returned (ensureRuntime, RestartWorkflow and DeleteWorkflow,
\* workflow_handlers.go, on workflowruntime/manager.go and appserver/supervisor.go).
THEOREM WorkflowHasOneAppServer == WorkflowSpec => OneAppServerPerWorkflow
<1>1. WorkflowInit => Slot!SlotInit
  BY InitOfSlot DEF WorkflowInit
<1>2. WorkflowInv /\ WorkflowInv' /\ [WorkflowNext]_workflowVars
      => [Slot!SlotNext]_(Slot!slotVars)
  BY WorkflowStepOfSlot
<1> QED
  BY <1>1, <1>2, WorkflowInvariant, PTL DEF WorkflowSpec, OneAppServerPerWorkflow, Slot!SlotSpec

-----------------------------------------------------------------------------
(* Which runtime is replaced, and on whose behalf                          *)

\* The epoch of a record, of a copy of it or of an entry of the manager, 0 where there is none.
EpochOf(x) == IF x = Null THEN 0 ELSE x.epoch

Counted(x) == x # Null => x.epoch >= 1

SameEpoch(x, y) == (x = Null <=> y = Null) /\ (x # Null => x.epoch = y.epoch)

\* The copy of an update or of a restart that holds the lock is no older than the record.
CopyIsCurrent(h) ==
  Restarts(h) \/ (Op(h) = "InitWorkflow" /\ PC(h) \in {"store", "reload", "put"})

\* What a handler asks of the manager it asks with the epoch of its copy.
LaunchAgrees(h) ==
  /\ users[h].op = "EnsureWorkflowRuntime" => PC(h) = "ensuring" /\ users[h].epoch = Copy(h).epoch
  /\ users[h].op = "CloseWorkflowRuntime" => PC(h) = "closing"
  /\ PC(h) = "new" => Copy(h) = Null

EpochsCounted ==
  /\ Counted(record) /\ Counted(entries[Workflow])
  /\ \A h \in Handlers : Counted(Copy(h))

\* Neither the manager nor a handler at work is ahead of the record, and the record is ahead
\* of an epoch only if a restart has counted on.
EpochsGrow ==
  /\ EpochOf(entries[Workflow]) <= EpochOf(record)
  /\ \A h \in Handlers :
       /\ PC(h) # "done" => EpochOf(Copy(h)) <= EpochOf(record)
       /\ CopyIsCurrent(h) => EpochOf(Copy(h)) = EpochOf(record)
  /\ \A e \in Nat : 1 <= e /\ e < EpochOf(record) => Restarted(e)

EpochInv ==
  /\ EpochsCounted
  /\ \A h \in Handlers : LaunchAgrees(h)
  /\ DeletionHasBegun \/ EpochsGrow

\* What a step of a handler does to its copy and to the record.
CountingStep(h) ==
  \/ /\ SameEpoch(record, record') /\ SameEpoch(Copy(h), Copy(h)')
     /\ CopyIsCurrent(h)' => CopyIsCurrent(h)
  \/ record' = record /\ Copy(h)' = record
  \/ record = Null /\ record' = Null /\ Copy(h)' = Copy(h)
  \/ /\ CopyIsCurrent(h) /\ Copy(h) = Null /\ ~CopyIsCurrent(h)'
     /\ record' # Null /\ record'.epoch = 1 /\ Copy(h)' \in {Null, record'}
  \/ /\ CopyIsCurrent(h) /\ Copy(h) # Null
     /\ SameEpoch(Copy(h), record') /\ SameEpoch(Copy(h), Copy(h)')
  \/ /\ CopyIsCurrent(h) /\ Copy(h) # Null /\ Op(h) = "RestartWorkflow"
     /\ record' # Null /\ record'.epoch = Copy(h).epoch + 1 /\ Copy(h)' = record'
  \/ DeletionHasBegun /\ record' = Null /\ Copy(h)' = Copy(h)

HandlerCounts(h) == Op(h)' = Op(h) /\ PC(h)' # "new" /\ CountingStep(h)

\* A step that leaves the record and the handler's copy alone.
LEMMA StepCountsNothing ==
  ASSUME NEW h \in Handlers, NEW pc, NEW then, StepTo(h, pc, Copy(h), then), UNCHANGED record,
         pc # "new", CopyIsCurrent(h)' => CopyIsCurrent(h)
  PROVE  HandlerCounts(h)
  BY DEF StepTo, HandlerCounts, CountingStep, SameEpoch, Op, Cmd

\* A step that copies the record.
LEMMA StepCopies ==
  ASSUME NEW h \in Handlers, NEW pc, NEW then, StepTo(h, pc, record, then), UNCHANGED record,
         pc # "new"
  PROVE  HandlerCounts(h)
  BY DEF StepTo, HandlerCounts, CountingStep, Op, Cmd

\* A handler that ends and leaves the record alone.
LEMMA EndCountsNothing ==
  ASSUME ServiceInv, NEW h \in Handlers, NEW ok \in BOOLEAN, Conclude(h, ok),
         SameEpoch(record, record')
  PROVE  HandlerCounts(h)
<1>1. StepTo(h, "done", Copy(h), ThenOf(h))
  BY HandlerFacts, ConcludeFrame
<1>2. ~CopyIsCurrent(h)'
  BY <1>1 DEF StepTo, CopyIsCurrent, Restarts
<1> QED BY <1>1, <1>2 DEF StepTo, HandlerCounts, CountingStep, SameEpoch, Op, Cmd

\* A request copies the record when it begins.
LEMMA BeginRequestCounts ==
  ASSUME ServiceInv, NEW h \in Handlers, BeginRequest(h)
  PROVE  HandlerCounts(h)
<1>0. UNCHANGED record /\ handlers \in [Handlers -> HandlerRecords]
  BY HandlerFacts DEF BeginRequest
<1>1. CASE Refuse(h)
  BY <1>0, <1>1, EndCountsNothing DEF Refuse, SameEpoch
<1>2. CASE Has(h, "InitWorkflow") /\ Move(h, "lock")
  <2>1. StepTo(h, "lock", Copy(h), ThenOf(h))
    BY <1>0, <1>2, MoveFrame DEF HandlerLabels
  <2>2. ~CopyIsCurrent(h)'
    BY <2>1 DEF StepTo, CopyIsCurrent, Restarts
  <2> QED BY <1>0, <2>1, <2>2, StepCountsNothing
<1>3. CASE MoveWith(h, "lock", record)
  <2>1. StepTo(h, "lock", record, ThenOf(h))
    BY <1>0, <1>3, MoveWithFrame, HandlerFacts DEF HandlerLabels
  <2> QED BY <1>0, <2>1, StepCopies
<1>4. CASE handlers' = [handlers EXCEPT ![h].pc = "ensure", ![h].then = "ask", ![h].copy = record]
  <2>1. StepTo(h, "ensure", record, "ask")
    BY <1>0, <1>4, ThenWithFrame, HandlerFacts DEF HandlerLabels
  <2> QED BY <1>0, <2>1, StepCopies
<1>5. CASE handlers' = [handlers EXCEPT ![h].pc = "ensure", ![h].copy = record, ![h].then = "clear"]
  <2>1. StepTo(h, "ensure", record, "clear")
    BY <1>0, <1>5, WithThenFrame, HandlerFacts DEF HandlerLabels
  <2> QED BY <1>0, <2>1, StepCopies
<1> QED BY <1>1, <1>2, <1>3, <1>4, <1>5, Zenon DEF BeginRequest

\* So it does under the lock.
LEMMA RefreshCounts ==
  ASSUME ServiceInv, NEW h \in Handlers, Refresh(h)
  PROVE  HandlerCounts(h)
<1> DEFINE now == IF record = Null THEN Copy(h) ELSE record
<1>0. UNCHANGED record /\ handlers \in [Handlers -> HandlerRecords] /\ now \in Records \cup {Null}
  BY HandlerFacts DEF Refresh
<1>1. CASE Refuse(h)
  BY <1>0, <1>1, EndCountsNothing DEF Refuse, SameEpoch
<1>2. ASSUME NEW pc, NEW then, pc # "new", StepTo(h, pc, now, then)
      PROVE  HandlerCounts(h)
  <2>1. CASE record = Null
    BY <1>0, <1>2, <2>1 DEF StepTo, HandlerCounts, CountingStep, Op, Cmd
  <2>2. CASE record # Null
    BY <1>0, <1>2, <2>2, StepCopies
  <2> QED BY <2>1, <2>2
<1> HIDE DEF now
<1>3. CASE MoveWith(h, "poll", now) \/ MoveWith(h, "close", now)
  <2>1. StepTo(h, "poll", now, ThenOf(h)) \/ StepTo(h, "close", now, ThenOf(h))
    BY <1>0, <1>3, MoveWithFrame DEF HandlerLabels
  <2> QED BY <1>2, <2>1
<1>4. CASE handlers' = [handlers EXCEPT ![h].pc = "ensure", ![h].then = "interrupt", ![h].copy = now]
  <2>1. StepTo(h, "ensure", now, "interrupt")
    BY <1>0, <1>4, ThenWithFrame DEF HandlerLabels
  <2> QED BY <1>2, <2>1
<1> QED BY <1>1, <1>3, <1>4, Zenon DEF Refresh, now

\* And while it waits for turns to end.
LEMMA PollCounts ==
  ASSUME ServiceInv, NEW h \in Handlers, Poll(h) \/ PollExpires(h)
  PROVE  HandlerCounts(h)
<1>0. /\ UNCHANGED record /\ handlers \in [Handlers -> HandlerRecords]
      /\ PC(h) = "poll" /\ Op(h) = "RestartWorkflow"
  BY HandlerFacts DEF Poll, PollExpires, At, PC, PhaseAgrees
<1>1. CASE Refuse(h)
  BY <1>0, <1>1, EndCountsNothing DEF Refuse, SameEpoch
<1>2. CASE Move(h, "advance")
  <2>1. StepTo(h, "advance", Copy(h), ThenOf(h))
    BY <1>0, <1>2, MoveFrame DEF HandlerLabels
  <2> QED BY <1>0, <2>1, StepCountsNothing DEF CopyIsCurrent, Restarts
<1>3. CASE MoveWith(h, "poll", record)
  <2>1. StepTo(h, "poll", record, ThenOf(h))
    BY <1>0, <1>3, MoveWithFrame, HandlerFacts DEF HandlerLabels
  <2> QED BY <1>0, <2>1, StepCopies
<1> QED BY <1>1, <1>2, <1>3, Zenon DEF Poll, PollExpires

\* To interrupt the turns of a copy leaves its epoch alone.
LEMMA InterruptNextCounts ==
  ASSUME ServiceInv, NEW h \in Handlers, InterruptNext(h)
  PROVE  HandlerCounts(h)
<1>0. /\ UNCHANGED record /\ handlers \in [Handlers -> HandlerRecords]
      /\ PC(h) = "interrupt" /\ Op(h) \in {"RestartWorkflow", "DeleteWorkflow"}
      /\ Copy(h) \in Records
  BY HandlerFacts DEF InterruptNext, At, PC, PhaseAgrees, HasCopy
<1>1. CASE Refuse(h)
  BY <1>0, <1>1, EndCountsNothing DEF Refuse, SameEpoch
<1>2. ASSUME NEW r, handlers' = [handlers EXCEPT ![h].copy.runs = @ \ {r}]
      PROVE  HandlerCounts(h)
  <2> DEFINE copy == [Copy(h) EXCEPT !.runs = @ \ {r}]
             moved == [handlers[h] EXCEPT !.copy = copy]
  <2>1. handlers' = [handlers EXCEPT ![h] = moved]
    BY <1>2 DEF Copy
  <2>2. copy \in Records /\ copy.epoch = Copy(h).epoch
    BY <1>0 DEF Records
  <2> HIDE DEF copy
  <2>3. /\ moved.copy = copy /\ moved.pc = handlers[h].pc
        /\ moved.then = handlers[h].then /\ moved.cmd = handlers[h].cmd
    BY <1>0 DEF HandlerRecords
  <2> HIDE DEF moved
  <2>4. Copy(h)' = copy /\ PC(h)' = PC(h) /\ ThenOf(h)' = ThenOf(h) /\ Op(h)' = Op(h)
    BY <1>0, <2>1, <2>3 DEF Copy, ThenOf, PC, Op
  <2>5. SameEpoch(Copy(h), Copy(h)')
    BY <1>0, <2>2, <2>4, RecordsAssumption DEF SameEpoch
  <2> QED
    BY <1>0, <2>4, <2>5 DEF HandlerCounts, CountingStep, SameEpoch, CopyIsCurrent, Restarts
<1>3. CASE Move(h, IF Has(h, "RestartWorkflow") THEN "advance" ELSE "close")
  <2> DEFINE pc == IF Has(h, "RestartWorkflow") THEN "advance" ELSE "close"
  <2>1. StepTo(h, pc, Copy(h), ThenOf(h))
    BY <1>0, <1>3, MoveFrame DEF HandlerLabels
  <2>2. CopyIsCurrent(h)' => CopyIsCurrent(h)
    BY <1>0, <2>1 DEF StepTo, CopyIsCurrent, Restarts, Op, Cmd
  <2> QED BY <1>0, <2>1, <2>2, StepCountsNothing
<1> QED BY <1>1, <1>2, <1>3, Zenon DEF InterruptNext

\* InitWorkflow copies the record when it decides; where there is none its copy stays as it is.
LEMMA DecideInitCounts ==
  ASSUME ServiceInv, NEW h \in Handlers, DecideInit(h)
  PROVE  HandlerCounts(h)
<1>0. UNCHANGED record /\ handlers \in [Handlers -> HandlerRecords]
  BY HandlerFacts DEF DecideInit
<1>1. CASE Refuse(h)
  BY <1>0, <1>1, EndCountsNothing DEF Refuse, SameEpoch
<1>2. CASE handlers' = [handlers EXCEPT ![h].pc = "ensure", ![h].then = "done", ![h].copy = record]
  <2>1. StepTo(h, "ensure", record, "done")
    BY <1>0, <1>2, ThenWithFrame, HandlerFacts DEF HandlerLabels
  <2> QED BY <1>0, <2>1, StepCopies
<1>3. ASSUME NEW class,
             handlers' = [handlers EXCEPT ![h].pc = "store", ![h].copy = record,
               ![h].then = IF Reloads(h, class) THEN "reload" ELSE "put"]
      PROVE  HandlerCounts(h)
  <2> DEFINE then == IF Reloads(h, class) THEN "reload" ELSE "put"
  <2>1. /\ then \in HandlerLabels /\ "store" \in HandlerLabels
        /\ handlers' = [handlers EXCEPT ![h].pc = "store", ![h].copy = record, ![h].then = then]
    BY <1>3 DEF HandlerLabels
  <2> HIDE DEF then
  <2>2. record \in Records \cup {Null}
    BY HandlerFacts
  <2>3. StepTo(h, "store", record, then)
    BY <1>0, <2>1, <2>2, WithThenFrame
  <2> QED BY <1>0, <2>3, StepCopies
<1>4. CASE record = Null /\ handlers' = [handlers EXCEPT ![h].pc = "store", ![h].then = "put"]
  <2>1. StepTo(h, "store", Copy(h), "put")
    BY <1>0, <1>4, ThenFrame DEF HandlerLabels
  <2> QED BY <1>0, <1>4, <2>1 DEF StepTo, HandlerCounts, CountingStep, Op, Cmd
<1> QED BY <1>1, <1>2, <1>3, <1>4, Zenon DEF DecideInit

\* The steps of a handler that only move on: to a label that is not one of an update's or a
\* restart's under the lock, or from one such to another.
LEMMA MovesCount ==
  ASSUME ServiceInv, NEW h \in Handlers,
         \/ TakeLock(h) \/ Stored(h) \/ DeleteCloses(h) \/ RuntimeIsClosed(h) \/ BeginEnsure(h)
         \/ EnsureEnds(h) \/ AskConnection(h) \/ GetConnection(h) \/ StartTurn(h)
  PROVE  HandlerCounts(h)
<1>0. UNCHANGED record /\ PhaseAgrees(h) /\ ThenOf(h) \in HandlerLabels
  BY HandlerFacts, Zenon
     DEF TakeLock, Stored, DeleteCloses, RuntimeIsClosed, BeginEnsure, EnsureEnds, AskConnection,
         GetConnection, StartTurn
<1>1. CASE Refuse(h) \/ Conclude(h, TRUE)
  BY <1>0, <1>1, EndCountsNothing DEF Refuse, SameEpoch
<1>2. ASSUME NEW pc \in HandlerLabels \ {"new"}, Move(h, pc),
             \/ pc \in {"decide", "refresh", "closing", "delete", "ask", "asking", "turn", "mark"}
             \/ PC(h) = "store" /\ pc = ThenOf(h)
             \/ PC(h) = "ensure" /\ pc = "ensuring"
             \/ PC(h) = "ensuring" /\ pc = ThenOf(h)
      PROVE  HandlerCounts(h)
  <2>1. StepTo(h, pc, Copy(h), ThenOf(h))
    BY <1>2, MoveFrame, HandlerFacts
  <2>2. CopyIsCurrent(h)' => CopyIsCurrent(h)
    BY <1>0, <1>2, <2>1
       DEF StepTo, CopyIsCurrent, Restarts, PhaseAgrees, Op, Cmd, TurnOps, FollowingOps
  <2> QED BY <1>0, <1>2, <2>1, <2>2, StepCountsNothing
<1>3. CASE TakeLock(h)
  <2>1. Move(h, "decide") \/ Move(h, "refresh")
    BY <1>3 DEF TakeLock
  <2> QED BY <1>2, <2>1 DEF HandlerLabels
<1>4. CASE Stored(h)
  <2>1. PC(h) = "store" /\ ThenOf(h) # "new"
    BY <1>0, <1>4 DEF Stored, At, PC, PhaseAgrees
  <2> QED BY <1>0, <1>1, <1>2, <1>4, <2>1 DEF Stored, ThenOf
<1>5. CASE DeleteCloses(h) \/ RuntimeIsClosed(h) \/ AskConnection(h) \/ GetConnection(h) \/ StartTurn(h)
  <2>1. Refuse(h) \/ \E pc \in {"closing", "delete", "asking", "turn", "mark"} : Move(h, pc)
    BY <1>5 DEF DeleteCloses, RuntimeIsClosed, AskConnection, GetConnection, StartTurn
  <2> QED BY <1>1, <1>2, <2>1 DEF HandlerLabels
<1>6. CASE BeginEnsure(h)
  BY <1>2, <1>6 DEF BeginEnsure, At, PC, HandlerLabels
<1>7. CASE EnsureEnds(h)
  <2>1. PC(h) = "ensuring" /\ ThenOf(h) # "new"
    BY <1>0, <1>7 DEF EnsureEnds, At, PC, PhaseAgrees
  <2> QED BY <1>0, <1>1, <1>2, <1>7, <2>1 DEF EnsureEnds, ThenOf
<1> QED BY <1>3, <1>4, <1>5, <1>6, <1>7

\* The steps that begin an operation on the storage.
LEMMA StorageStepsCount ==
  ASSUME ServiceInv, NEW h \in Handlers, ReloadMCP(h) \/ AdvanceRestart(h) \/ DeleteFiles(h)
  PROVE  HandlerCounts(h)
<1>0. UNCHANGED record /\ PhaseAgrees(h) /\ handlers \in [Handlers -> HandlerRecords]
  BY HandlerFacts DEF ReloadMCP, AdvanceRestart, DeleteFiles
<1>1. CASE Refuse(h)
  BY <1>0, <1>1, EndCountsNothing DEF Refuse, SameEpoch
<1>2. ASSUME NEW pc \in {"store", "put", "forget"}, NEW then, StepTo(h, pc, Copy(h), then),
             PC(h) \in {"reload", "advance", "delete"}, pc = "put" => PC(h) = "advance"
      PROVE  HandlerCounts(h)
  <2>1. CopyIsCurrent(h)' => CopyIsCurrent(h)
    BY <1>0, <1>2 DEF StepTo, CopyIsCurrent, Restarts, PhaseAgrees, Op, Cmd
  <2> QED BY <1>0, <1>2, <2>1, StepCountsNothing
<1>3. PC(h) \in {"reload", "advance", "delete"}
  BY DEF ReloadMCP, AdvanceRestart, DeleteFiles, At, PC
<1>4. ASSUME NEW then \in {"put", "forget"},
             handlers' = [handlers EXCEPT ![h].pc = "store", ![h].then = then]
      PROVE  HandlerCounts(h)
  <2>1. then \in HandlerLabels /\ "store" \in HandlerLabels
    BY DEF HandlerLabels
  <2>2. StepTo(h, "store", Copy(h), then)
    BY <1>0, <1>4, <2>1, ThenFrame
  <2> QED BY <1>2, <1>3, <2>2
<1>5. CASE (Move(h, "put") /\ PC(h) = "advance") \/ Move(h, "forget")
  <2>1. \/ StepTo(h, "put", Copy(h), ThenOf(h)) /\ PC(h) = "advance"
        \/ StepTo(h, "forget", Copy(h), ThenOf(h))
    BY <1>0, <1>5, MoveFrame DEF HandlerLabels
  <2> QED BY <1>2, <1>3, <2>1
<1> QED BY <1>1, <1>4, <1>5, Zenon DEF ReloadMCP, AdvanceRestart, DeleteFiles, At, PC

\* The record that InitWorkflow writes has the epoch of the handler's copy, or is a first one.
LEMMA FirstRecordCounts ==
  ASSUME ServiceInv, NEW h \in Handlers, PutInit(h)
  PROVE  HandlerCounts(h)
<1> DEFINE copy == Copy(h)
           staged == metadata.pending # Absent
           updated ==
             IF copy = Null THEN FirstRecord(metadata.active)
             ELSE [active |-> metadata.active, pending |-> metadata.pending,
                   restartRequired |-> staged, epoch |-> copy.epoch, runs |-> copy.runs]
<1>0. /\ PC(h) = "put" /\ Op(h) = "InitWorkflow" /\ record' = updated
      /\ handlers \in [Handlers -> HandlerRecords]
  BY HandlerFacts DEF PutInit, At, PC, Has, Cmd, Op
<1>1. metadata \in Metadata
  BY <1>0, PutFacts
<1>2. /\ updated \in Records /\ updated # Null
      /\ updated.epoch = IF copy = Null THEN 1 ELSE copy.epoch
  <2>1. copy \in Records \cup {Null}
    BY HandlerFacts
  <2>2. updated \in Records
    BY <1>1, <2>1, WorkflowAssumption, StorageAssumption DEF FirstRecord, Records, Metadata
  <2>3. updated.epoch = IF copy = Null THEN 1 ELSE copy.epoch
    BY DEF FirstRecord
  <2> QED BY <2>2, <2>3, RecordsAssumption
<1> HIDE DEF updated
<1>3. CopyIsCurrent(h)
  BY <1>0 DEF CopyIsCurrent
<1>4. ASSUME NEW pc \in {"done", "ensure"}, NEW then, NEW now \in {copy, updated},
             pc = "done" => now = copy, pc = "ensure" => now = updated, StepTo(h, pc, now, then)
      PROVE  HandlerCounts(h)
  <2>1. /\ Op(h)' = Op(h) /\ PC(h)' = pc /\ Copy(h)' = now
        /\ ~CopyIsCurrent(h)'
    BY <1>0, <1>4 DEF StepTo, CopyIsCurrent, Restarts, Op, Cmd
  <2> QED BY <1>0, <1>2, <1>3, <1>4, <2>1 DEF HandlerCounts, CountingStep, SameEpoch
<1>5. CASE Conclude(h, TRUE)
  <2>1. StepTo(h, "done", Copy(h), ThenOf(h))
    BY <1>5, HandlerFacts, ConcludeFrame
  <2> QED BY <1>4, <2>1
<1>6. CASE handlers' = [handlers EXCEPT ![h].pc = "ensure", ![h].then = "done", ![h].copy = updated]
  <2>1. StepTo(h, "ensure", updated, "done")
    BY <1>0, <1>2, <1>6, ThenWithFrame DEF HandlerLabels
  <2> QED BY <1>4, <2>1
<1> QED BY <1>5, <1>6 DEF PutInit, updated

\* That which RestartWorkflow writes is counted on.
LEMMA PutRestartCounts ==
  ASSUME ServiceInv, NEW h \in Handlers, PutRestart(h)
  PROVE  HandlerCounts(h)
<1> DEFINE updated == [active |-> IF Copy(h).pending # Absent THEN metadata.active ELSE Copy(h).active,
                       pending |-> Absent, restartRequired |-> FALSE,
                       epoch |-> Copy(h).epoch + 1, runs |-> {}]
<1>0. /\ PC(h) = "put" /\ Op(h) = "RestartWorkflow" /\ record' = updated
      /\ handlers' = [handlers EXCEPT ![h].pc = "ensure", ![h].then = "done", ![h].copy = updated]
      /\ Copy(h).epoch + 1 \in Epochs /\ handlers \in [Handlers -> HandlerRecords]
  BY HandlerFacts DEF PutRestart, At, PC, Has, Cmd, Op
<1>1. Copy(h) \in Records /\ Copy(h) # Null
  BY <1>0, HandlerFacts, RecordsAssumption DEF HasCopy
<1>2. updated \in Records /\ updated.epoch = Copy(h).epoch + 1
  <2>1. metadata \in Metadata \/ Copy(h).pending = Absent
    BY <1>0, PutFacts
  <2> QED BY <1>0, <1>1, <2>1, StorageAssumption DEF Records, Metadata
<1> HIDE DEF updated
<1>3. StepTo(h, "ensure", updated, "done")
  BY <1>0, <1>2, ThenWithFrame DEF HandlerLabels
<1>4. CopyIsCurrent(h) /\ updated # Null
  BY <1>0, <1>2, RecordsAssumption DEF CopyIsCurrent, Restarts
<1> QED BY <1>0, <1>1, <1>2, <1>3, <1>4 DEF StepTo, HandlerCounts, CountingStep, Op, Cmd

\* The marks of turns leave the record's epoch alone; when the record is removed the deletion
\* has begun.
LEMMA LastStepsCount ==
  ASSUME ServiceInv, NEW h \in Handlers,
         MarkWorkflowActive(h) \/ ClearWorkflowActive(h) \/ GatewayCloses(h) \/ DeleteRecord(h)
  PROVE  HandlerCounts(h)
<1>1. CASE MarkWorkflowActive(h) \/ ClearWorkflowActive(h) \/ GatewayCloses(h)
  <2>1. Conclude(h, TRUE) \/ Conclude(h, FALSE)
    BY <1>1 DEF MarkWorkflowActive, ClearWorkflowActive, GatewayCloses, Refuse
  <2>2. \/ record' = record
        \/ record = Null /\ record' = Null
        \/ record # Null /\ \E R \in SUBSET Handlers : record' = [record EXCEPT !.runs = R]
    <3>1. record # Null => record.runs \in SUBSET Handlers
      BY HandlerFacts DEF Records
    <3>2. record # Null => /\ record.runs \cup {h} \in SUBSET Handlers
                           /\ record.runs \ {Cmd(h).run} \in SUBSET Handlers
      BY <3>1
    <3> QED BY <1>1, <3>2 DEF MarkWorkflowActive, ClearWorkflowActive, GatewayCloses
  <2>3. ASSUME NEW R \in SUBSET Handlers, record # Null, record' = [record EXCEPT !.runs = R]
        PROVE  SameEpoch(record, record')
    <3>1. record \in Records
      BY <2>3, HandlerFacts
    <3>2. record' \in Records /\ record'.epoch = record.epoch
      BY <2>3, <3>1 DEF Records
    <3> QED BY <2>3, <3>2, RecordsAssumption DEF SameEpoch
  <2>4. SameEpoch(record, record')
    BY <2>2, <2>3 DEF SameEpoch
  <2> QED BY <2>1, <2>4, EndCountsNothing
<1>2. CASE DeleteRecord(h)
  <2>1. StepTo(h, "done", Copy(h), ThenOf(h)) /\ record' = Null /\ PC(h) = "forget"
    BY <1>2, HandlerFacts, ConcludeFrame DEF DeleteRecord, At, PC
  <2>2. DeletionHasBegun
    BY <2>1, HandlerFacts DEF DeletionHasBegun, PhaseAgrees, Has, Op, Cmd, PC
  <2> QED BY <2>1, <2>2 DEF StepTo, HandlerCounts, CountingStep, Op, Cmd
<1> QED BY <1>1, <1>2

\* Every step of a handler is one of these, but that of looking for the config file.
LEMMA HandlerStepCounts ==
  ASSUME ServiceInv, NEW h \in Handlers, HandlerStep(h) \/ PollExpires(h)
  PROVE  HandlerCounts(h) \/ (FindsConfig(h) /\ UNCHANGED serviceVars)
<1> HIDE DEF ServiceInv, HandlerCounts
<1>1. CASE FindsConfig(h)
  BY <1>1 DEF FindsConfig
<1>2. CASE \/ BeginRequest(h) \/ DecideInit(h) \/ PutInit(h) \/ Refresh(h) \/ InterruptNext(h)
           \/ Poll(h) \/ PollExpires(h) \/ PutRestart(h)
  BY <1>2, BeginRequestCounts, DecideInitCounts, FirstRecordCounts, RefreshCounts,
     InterruptNextCounts, PollCounts, PutRestartCounts
<1>3. CASE \/ TakeLock(h) \/ Stored(h) \/ DeleteCloses(h) \/ RuntimeIsClosed(h) \/ BeginEnsure(h)
           \/ EnsureEnds(h) \/ AskConnection(h) \/ GetConnection(h) \/ StartTurn(h)
  BY <1>3, MovesCount
<1>4. CASE ReloadMCP(h) \/ AdvanceRestart(h) \/ DeleteFiles(h)
  BY <1>4, StorageStepsCount
<1>5. CASE MarkWorkflowActive(h) \/ ClearWorkflowActive(h) \/ GatewayCloses(h) \/ DeleteRecord(h)
  BY <1>5, LastStepsCount
<1> QED BY <1>1, <1>2, <1>3, <1>4, <1>5 DEF HandlerStep

\* The epoch of a record is a number.
LEMMA RecordEpochs ==
  \A x \in Records \cup {Null} : EpochOf(x) \in Nat /\ (x # Null => x.epoch \in Nat)
  BY WorkflowAssumption DEF Records, EpochOf

\* All epochs are numbers.
LEMMA EpochsAreNumbers ==
  ASSUME ServiceInv, RuntimesInv
  PROVE  /\ EpochOf(record) \in Nat
         /\ \A h \in Handlers : EpochOf(Copy(h)) \in Nat
         /\ EpochOf(entries[Workflow]) \in Nat
         /\ record # Null => record.epoch \in Nat
         /\ \A h \in Handlers : Copy(h) # Null => Copy(h).epoch \in Nat
<1>2. \A x \in [epoch : Epochs, sup : Supervisors] \cup {Null} : EpochOf(x) \in Nat
  BY WorkflowAssumption DEF EpochOf
<1>3. entries[Workflow] \in [epoch : Epochs, sup : Supervisors] \cup {Null}
  BY WorkflowAssumption DEF RuntimesInv, RuntimesTypeOK
<1>4. record \in Records \cup {Null} /\ \A h \in Handlers : Copy(h) \in Records \cup {Null}
  BY HandlerFacts DEF ServiceInv, ServiceTypeOK
<1> QED BY <1>2, <1>3, <1>4, RecordEpochs

\* What a counting step keeps of what is counted.
LEMMA CountingKeepsCounted ==
  ASSUME ServiceInv, RuntimesInv, EpochsCounted, NEW h \in Handlers, CountingStep(h)
  PROVE  Counted(record)' /\ Counted(Copy(h))'
<1>1. /\ record # Null => record.epoch \in Nat /\ record.epoch >= 1
      /\ Copy(h) # Null => Copy(h).epoch \in Nat /\ Copy(h).epoch >= 1
  BY EpochsAreNumbers DEF EpochsCounted, Counted
<1> QED BY <1>1 DEF CountingStep, Counted, SameEpoch

\* A copy that is current is a lock holder's.
LEMMA CurrentLocks ==
  ASSUME ServiceInv, NEW h \in Handlers, CopyIsCurrent(h)
  PROVE  lock = h
<1>1. Locks(h)
  BY DEF CopyIsCurrent, Restarts, Locks, LockedLabels, LockedOps
<1> QED BY <1>1, HandlerFacts

\* What a step of a handler means for the epochs, as numbers: r of the record, c of its copy.
LEMMA CountingMeans ==
  ASSUME ServiceInv, RuntimesInv, EpochsCounted, EpochsGrow, NEW h \in Handlers,
         CountingStep(h), PC(h) # "done", ~DeletionHasBegun
  PROVE  /\ EpochOf(record) <= EpochOf(record)'
         /\ EpochOf(Copy(h))' <= EpochOf(record)'
         /\ CopyIsCurrent(h)' => EpochOf(Copy(h))' = EpochOf(record)'
         /\ \/ EpochOf(record)' = EpochOf(record)
            \/ EpochOf(record) = 0 /\ EpochOf(record)' = 1 /\ CopyIsCurrent(h)
            \/ /\ EpochOf(record)' = EpochOf(record) + 1 /\ CopyIsCurrent(h)
               /\ Op(h) = "RestartWorkflow" /\ Copy(h)' # Null
               /\ EpochOf(Copy(h))' = EpochOf(record)'
         /\ Op(h) = "RestartWorkflow" /\ Copy(h) # Null =>
              Copy(h)' # Null /\ EpochOf(Copy(h)) <= EpochOf(Copy(h))'
<1>1. /\ EpochOf(record) \in Nat /\ EpochOf(Copy(h)) \in Nat
      /\ EpochOf(Copy(h)) <= EpochOf(record)
      /\ CopyIsCurrent(h) => EpochOf(Copy(h)) = EpochOf(record)
      /\ record # Null => EpochOf(record) >= 1 /\ EpochOf(record) = record.epoch
      /\ Copy(h) # Null => EpochOf(Copy(h)) >= 1 /\ EpochOf(Copy(h)) = Copy(h).epoch
      /\ record = Null => EpochOf(record) = 0
      /\ Copy(h) = Null => EpochOf(Copy(h)) = 0
  BY EpochsAreNumbers DEF EpochsCounted, EpochsGrow, Counted, EpochOf
<1>2. /\ record' # Null => EpochOf(record)' = record'.epoch
      /\ Copy(h)' # Null => EpochOf(Copy(h))' = Copy(h)'.epoch
      /\ record' = Null => EpochOf(record)' = 0
      /\ Copy(h)' = Null => EpochOf(Copy(h))' = 0
  BY DEF EpochOf
<1>3. CASE /\ SameEpoch(record, record') /\ SameEpoch(Copy(h), Copy(h)')
           /\ CopyIsCurrent(h)' => CopyIsCurrent(h)
  <2>1. EpochOf(record)' = EpochOf(record) /\ EpochOf(Copy(h))' = EpochOf(Copy(h))
    BY <1>1, <1>2, <1>3 DEF SameEpoch
  <2> QED BY <1>1, <1>3, <2>1 DEF SameEpoch
<1>4. CASE record' = record /\ Copy(h)' = record
  <2>1. EpochOf(record)' = EpochOf(record) /\ EpochOf(Copy(h))' = EpochOf(record)
    BY <1>1, <1>2, <1>4
  <2> QED BY <1>1, <1>4, <2>1
<1>5. CASE record = Null /\ record' = Null /\ Copy(h)' = Copy(h)
  <2>1. EpochOf(record)' = 0 /\ EpochOf(Copy(h))' = 0
    BY <1>1, <1>2, <1>5
  <2> QED BY <1>1, <1>5, <2>1
<1>6. CASE /\ CopyIsCurrent(h) /\ Copy(h) = Null /\ ~CopyIsCurrent(h)'
           /\ record' # Null /\ record'.epoch = 1 /\ Copy(h)' \in {Null, record'}
  <2>1. EpochOf(record) = 0 /\ EpochOf(record)' = 1 /\ EpochOf(Copy(h))' \in {0, 1}
    BY <1>1, <1>2, <1>6
  <2> QED BY <1>1, <1>6, <2>1
<1>7. CASE /\ CopyIsCurrent(h) /\ Copy(h) # Null
           /\ SameEpoch(Copy(h), record') /\ SameEpoch(Copy(h), Copy(h)')
  <2>1. EpochOf(record)' = EpochOf(record) /\ EpochOf(Copy(h))' = EpochOf(record)
    BY <1>1, <1>2, <1>7 DEF SameEpoch
  <2> QED BY <1>1, <1>7, <2>1 DEF SameEpoch
<1>8. CASE /\ CopyIsCurrent(h) /\ Copy(h) # Null /\ Op(h) = "RestartWorkflow"
           /\ record' # Null /\ record'.epoch = Copy(h).epoch + 1 /\ Copy(h)' = record'
  <2>1. EpochOf(record)' = EpochOf(record) + 1 /\ EpochOf(Copy(h))' = EpochOf(record) + 1
    BY <1>1, <1>2, <1>8
  <2> QED BY <1>1, <1>8, <2>1
<1> QED BY <1>3, <1>4, <1>5, <1>6, <1>7, <1>8 DEF CountingStep

\* A restart's count stays.
LEMMA RestartedStays ==
  ASSUME NEW e \in Nat, Restarted(e), \A h \in Handlers : Copy(h) # Null => Copy(h).epoch \in Nat,
         \A h \in Handlers :
           /\ Op(h)' = Op(h)
           /\ Op(h) = "RestartWorkflow" /\ Copy(h) # Null =>
                Copy(h)' # Null /\ EpochOf(Copy(h)) <= EpochOf(Copy(h))' /\ EpochOf(Copy(h))' \in Nat
  PROVE  Restarted(e)'
<1>1. PICK h \in Handlers : Op(h) = "RestartWorkflow" /\ Copy(h) # Null /\ Copy(h).epoch > e
  BY DEF Restarted, Has, Cmd, Op
<1>2. Op(h)' = "RestartWorkflow" /\ Copy(h)' # Null /\ Copy(h)'.epoch > e
  BY <1>1 DEF EpochOf
<1> QED BY <1>2 DEF Restarted, Has, Cmd, Op

\* A step of a handler that counts keeps the order of the epochs.
LEMMA CountingGrows ==
  ASSUME ServiceInv, ServiceInv', RuntimesInv, RuntimesInv', EpochsCounted, EpochsGrow,
         ~DeletionHasBegun, NEW h \in Handlers, HandlerCounts(h), PC(h) # "done",
         \A g \in Handlers : g # h => handlers'[g] = handlers[g],
         entries' = entries
  PROVE  EpochsGrow'
<1>0. /\ EpochOf(record) \in Nat /\ EpochOf(record)' \in Nat
      /\ \A g \in Handlers : EpochOf(Copy(g)) \in Nat /\ EpochOf(Copy(g))' \in Nat
      /\ EpochOf(entries[Workflow]) \in Nat /\ EpochOf(entries[Workflow])' = EpochOf(entries[Workflow])
      /\ \A g \in Handlers : Copy(g) # Null => Copy(g).epoch \in Nat
  <2>1. record' \in Records \cup {Null} /\ \A g \in Handlers : Copy(g)' \in Records \cup {Null}
    BY DEF ServiceInv, ServiceTypeOK, HandlerRecords, Copy
  <2>2. EpochOf(record)' \in Nat /\ \A g \in Handlers : EpochOf(Copy(g))' \in Nat
    <3>1. EpochOf(record)' = EpochOf(record') /\ \A g \in Handlers : EpochOf(Copy(g))' = EpochOf(Copy(g)')
      BY DEF EpochOf
    <3> QED BY <2>1, <3>1, RecordEpochs
  <2>3. EpochOf(entries[Workflow])' = EpochOf(entries[Workflow])
    BY DEF EpochOf
  <2> QED BY <2>2, <2>3, EpochsAreNumbers
<1>1. /\ EpochOf(record) <= EpochOf(record)'
      /\ EpochOf(Copy(h))' <= EpochOf(record)'
      /\ CopyIsCurrent(h)' => EpochOf(Copy(h))' = EpochOf(record)'
      /\ \/ EpochOf(record)' = EpochOf(record)
         \/ EpochOf(record) = 0 /\ EpochOf(record)' = 1 /\ CopyIsCurrent(h)
         \/ /\ EpochOf(record)' = EpochOf(record) + 1 /\ CopyIsCurrent(h)
            /\ Op(h) = "RestartWorkflow" /\ Copy(h)' # Null
            /\ EpochOf(Copy(h))' = EpochOf(record)'
      /\ Op(h) = "RestartWorkflow" /\ Copy(h) # Null =>
           Copy(h)' # Null /\ EpochOf(Copy(h)) <= EpochOf(Copy(h))'
  BY CountingMeans DEF HandlerCounts
<1>2. \A g \in Handlers : g # h =>
        /\ PC(g)' = PC(g) /\ Op(g)' = Op(g) /\ Copy(g)' = Copy(g)
        /\ EpochOf(Copy(g))' = EpochOf(Copy(g))
        /\ CopyIsCurrent(g)' = CopyIsCurrent(g)
  BY DEF PC, Op, Copy, EpochOf, CopyIsCurrent, Restarts, ThenOf
<1>3. EpochOf(entries[Workflow])' <= EpochOf(record)'
  BY <1>0, <1>1 DEF EpochsGrow
<1>4. \A g \in Handlers : PC(g)' # "done" => EpochOf(Copy(g))' <= EpochOf(record)'
  <2> SUFFICES ASSUME NEW g \in Handlers, g # h, PC(g) # "done"
               PROVE  EpochOf(Copy(g)) <= EpochOf(record)'
    BY <1>1, <1>2
  <2> QED BY <1>0, <1>1 DEF EpochsGrow
<1>5. \A g \in Handlers : CopyIsCurrent(g)' => EpochOf(Copy(g))' = EpochOf(record)'
  <2> SUFFICES ASSUME NEW g \in Handlers, g # h, CopyIsCurrent(g)
               PROVE  EpochOf(Copy(g)) = EpochOf(record)'
    BY <1>1, <1>2
  <2>1. ~CopyIsCurrent(h)
    BY CurrentLocks
  <2> QED BY <1>1, <2>1 DEF EpochsGrow
<1>6. \A e \in Nat : 1 <= e /\ e < EpochOf(record)' => Restarted(e)'
  <2> SUFFICES ASSUME NEW e \in Nat, 1 <= e, e < EpochOf(record)'
               PROVE  Restarted(e)'
    OBVIOUS
  <2>1. CASE e < EpochOf(record)
    <3>1. Restarted(e)
      BY <2>1 DEF EpochsGrow
    <3>2. \A g \in Handlers :
            /\ Op(g)' = Op(g)
            /\ Op(g) = "RestartWorkflow" /\ Copy(g) # Null =>
                 Copy(g)' # Null /\ EpochOf(Copy(g)) <= EpochOf(Copy(g))' /\ EpochOf(Copy(g))' \in Nat
      BY <1>0, <1>1, <1>2 DEF HandlerCounts
    <3> QED BY <1>0, <3>1, <3>2, RestartedStays
  <2>2. CASE ~(e < EpochOf(record))
    <3>1. Op(h) = "RestartWorkflow" /\ Copy(h)' # Null /\ EpochOf(Copy(h))' > e
      BY <1>0, <1>1, <2>2
    <3>2. Op(h)' = "RestartWorkflow" /\ Copy(h)'.epoch > e
      BY <3>1 DEF HandlerCounts, EpochOf
    <3> QED BY <3>1, <3>2 DEF Restarted, Has, Cmd, Op
  <2> QED BY <2>1, <2>2
<1> QED BY <1>3, <1>4, <1>5, <1>6 DEF EpochsGrow

\* What a step of a handler does to what it asks of the manager.
LEMMA HandlerKeepsLaunch ==
  ASSUME WorkflowInv, EpochInv, NEW h \in Handlers, HandlerStep(h) \/ PollExpires(h)
  PROVE  \A g \in Handlers : LaunchAgrees(g)'
<1>0. /\ users \in [Users -> UserRecords] /\ Users = Handlers
      /\ ServiceInv /\ RuntimesInv
      /\ handlers \in [Handlers -> HandlerRecords]
  BY HandlerFacts, WorkflowAssumption DEF WorkflowInv, RuntimesInv, RuntimesTypeOK
<1>1. HandlerCounts(h) \/ (FindsConfig(h) /\ UNCHANGED serviceVars)
  BY <1>0, HandlerStepCounts
<1>2. HandlerStepOfRuntimes(h)
  BY HandlerStepIs
<1>3. \A g \in Handlers : g # h => users'[g] = users[g] /\ handlers'[g] = handlers[g]
  <2>1. \A g \in Handlers : g # h => users'[g] = users[g]
    BY <1>0, <1>2, Zenon
       DEF HandlerStepOfRuntimes, EnsureWorkflowRuntime, CloseWorkflowRuntime, CloseManager,
           ValidateRuntimeWorkspace, AskSession, Retires, runtimesVars, managerVars
  <2> QED BY <1>0, <2>1, OthersStay
<1>4. \A g \in Handlers : g # h => LaunchAgrees(g)'
  BY <1>3 DEF EpochInv, LaunchAgrees, PC, Copy
<1>5. LaunchAgrees(h)
  BY DEF EpochInv
<1>6. CASE FindsConfig(h) /\ UNCHANGED serviceVars
  <2>1. users'[h].op = users[h].op /\ users'[h].epoch = users[h].epoch
    BY <1>0, <1>6 DEF FindsConfig, ValidateRuntimeWorkspace, UserRecords
  <2> QED BY <1>4, <1>5, <1>6, <2>1 DEF LaunchAgrees, serviceVars, PC, Copy
<1>7. CASE HandlerCounts(h) /\ ~FindsConfig(h)
  <2>1. PC(h)' # "new"
    BY <1>7 DEF HandlerCounts
  <2>2. CASE PC(h) \in {"ensuring", "closing"}
    <3>1. EnsureEnds(h) \/ RuntimeIsClosed(h)
      BY <1>7, <2>2, Zenon
         DEF HandlerStep, At, PC, BeginRequest, TakeLock, DecideInit, Stored, ReloadMCP, PutInit,
             Refresh, InterruptNext, Poll, PollExpires, AdvanceRestart, PutRestart, DeleteCloses,
             DeleteFiles, DeleteRecord, BeginEnsure, AskConnection, GetConnection, StartTurn,
             MarkWorkflowActive, ClearWorkflowActive, GatewayCloses
    <3>2. users'[h] = IdleUser
      BY <1>0, <3>1 DEF EnsureEnds, RuntimeIsClosed
    <3> QED BY <1>4, <2>1, <3>2, UserOpsAssumption DEF LaunchAgrees, IdleUser, UserOps
  <2>3. CASE PC(h) \notin {"ensuring", "closing"}
    <3>1. users[h].op \notin {"EnsureWorkflowRuntime", "CloseWorkflowRuntime"}
      BY <1>5, <2>3 DEF LaunchAgrees
    <3>2. CASE UNCHANGED users
      BY <1>4, <2>1, <3>1, <3>2 DEF LaunchAgrees
    <3>3. CASE EnsureWorkflowRuntime(h, Workflow, Copy(h).epoch) /\ Move(h, "ensuring")
      <4>1. users'[h].op = "EnsureWorkflowRuntime" /\ users'[h].epoch = Copy(h).epoch
        BY <1>0, <3>3 DEF EnsureWorkflowRuntime, IdleUser
      <4>2. PC(h)' = "ensuring" /\ Copy(h)' = Copy(h)
        BY <1>0, <3>3, MoveFrame DEF StepTo, HandlerLabels
      <4> QED BY <1>4, <4>1, <4>2 DEF LaunchAgrees
    <3>4. CASE CloseWorkflowRuntime(h, Workflow) /\ Move(h, "closing")
      <4>1. users'[h].op = "CloseWorkflowRuntime"
        BY <1>0, <3>4 DEF CloseWorkflowRuntime, IdleUser
      <4>2. PC(h)' = "closing"
        BY <1>0, <3>4, MoveFrame DEF StepTo, HandlerLabels
      <4> QED BY <1>4, <4>1, <4>2 DEF LaunchAgrees
    <3>5. CASE CloseManager(h)
      <4>1. users'[h].op = "Close"
        BY <1>0, <3>5 DEF CloseManager, IdleUser
      <4> QED BY <1>4, <2>1, <4>1 DEF LaunchAgrees
    <3>6. ASSUME NEW found \in BOOLEAN, ValidateRuntimeWorkspace(h, found)
          PROVE  FALSE
      BY <1>0, <3>1, <3>6 DEF ValidateRuntimeWorkspace, RuntimesInv, UserAgrees
    <3> QED
      BY <1>2, <2>3, <3>2, <3>3, <3>4, <3>5, <3>6
         DEF HandlerStepOfRuntimes, runtimesVars, managerVars, AskSession
  <2> QED BY <2>2, <2>3
<1> QED BY <1>1, <1>6, <1>7 DEF FindsConfig

\* A step of the manager takes an entry away, for a launch with another epoch, a close of the
\* runtime or the end of the gateway; or it enters the one of a launch.
EntryTaken(u, g) ==
  /\ entries'[g] = Null /\ manager' = u
  /\ \/ users[u].op = "EnsureWorkflowRuntime" /\ entries[g].epoch # users[u].epoch
     \/ users[u].op = "CloseWorkflowRuntime"
     \/ managerClosed

EntryMade(u, g) ==
  /\ users[u].op = "EnsureWorkflowRuntime" /\ manager' = Null
  /\ entries[g] = Null /\ entries'[g] # Null /\ entries'[g].epoch = users[u].epoch

\* A step of the manager does no more than that to an entry.
LEMMA ManagerStepEntry ==
  ASSUME RuntimesInv, NEW u \in Users, ManagerStep(u), NEW g \in SessionGroups
  PROVE  entries'[g] = entries[g] \/ EntryTaken(u, g) \/ EntryMade(u, g)
<1>0. /\ entries \in [SessionGroups -> [epoch : Epochs, sup : Supervisors] \cup {Null}]
      /\ users[u].op \in {"EnsureWorkflowRuntime", "CloseWorkflowRuntime"}
           => users[u].group \in SessionGroups
      /\ users[u].op = "EnsureWorkflowRuntime" => users[u].epoch \in Epochs
      /\ users[u].pc \in {"close", "register"} => users[u].sup \in Supervisors
      /\ Null \notin [epoch : Epochs, sup : Supervisors]
  BY RuntimesAssumption DEF RuntimesInv, RuntimesTypeOK, UserAgrees, HandAgrees
<1>1. CASE Lock(u)
  <2>1. CASE UNCHANGED entries
    BY <2>1
  <2>2. CASE /\ TakeEntry(u, users[u].group) /\ manager' = u
             /\ \/ /\ users[u].op = "EnsureWorkflowRuntime"
                   /\ entries[users[u].group].epoch # users[u].epoch
                \/ users[u].op = "CloseWorkflowRuntime"
    BY <1>0, <2>2 DEF TakeEntry, EntryTaken
  <2> QED BY <1>1, <2>1, <2>2 DEF Lock
<1>2. CASE Shutdown(u)
  <2>1. manager = u /\ managerClosed
    BY <1>2 DEF Shutdown, RuntimesInv, UserAgrees, EndedForGood, Holding
  <2>2. ASSUME NEW f \in SessionGroups, TakeEntry(u, f), UNCHANGED manager
        PROVE  entries'[g] = entries[g] \/ EntryTaken(u, g)
    BY <1>0, <2>1, <2>2 DEF TakeEntry, EntryTaken
  <2> QED BY <1>2, <2>2 DEF Shutdown
<1>3. CASE Register(u)
  <2>1. users[u].op = "EnsureWorkflowRuntime" /\ entries[users[u].group] = Null
    BY <1>3 DEF Register, RuntimesInv, UserAgrees, HandAgrees
  <2>2. manager' = Null
        /\ entries' = [entries EXCEPT ![users[u].group] =
                         [epoch |-> users[u].epoch, sup |-> users[u].sup]]
    BY <1>3 DEF Register, Leave
  <2>3. [epoch |-> users[u].epoch, sup |-> users[u].sup] # Null
    BY <1>0, <1>3, <2>1 DEF Register
  <2> QED BY <1>0, <2>1, <2>2, <2>3 DEF EntryMade
<1>4. CASE SupervisorIsClosed(u) \/ Create(u) \/ CloseSupervisor(u)
  BY <1>4 DEF SupervisorIsClosed, Create, CloseSupervisor
<1> QED BY <1>1, <1>2, <1>3, <1>4 DEF ManagerStep

\* A step of the manager or of a supervisor keeps the order of the epochs.
LEMMA RuntimeStepEpochs ==
  ASSUME WorkflowInv, EpochInv, RuntimeStep, UNCHANGED serviceVars
  PROVE  EpochInv'
<1>0. /\ ServiceInv /\ RuntimesInv /\ Users = Handlers /\ Workflow \in SessionGroups
      /\ UNCHANGED <<record, handlers>>
  BY WorkflowAssumption DEF WorkflowInv, serviceVars
<1>1. \A h \in Handlers : users'[h].op = users[h].op /\ users'[h].epoch = users[h].epoch
  BY <1>0, ManagerKeepsOps DEF RuntimeStep, SupervisorStep, managerVars, SameRequest
<1>2. \A h \in Handlers : /\ PC(h)' = PC(h) /\ Copy(h)' = Copy(h) /\ Op(h)' = Op(h)
                          /\ CopyIsCurrent(h)' = CopyIsCurrent(h)
  BY <1>0 DEF PC, Copy, Op, CopyIsCurrent, Restarts, ThenOf
<1>3. \A h \in Handlers : LaunchAgrees(h)'
  BY <1>1, <1>2 DEF EpochInv, LaunchAgrees
<1>4. \/ entries'[Workflow] = entries[Workflow]
      \/ entries'[Workflow] = Null
      \/ /\ entries'[Workflow] # Null
         /\ \E h \in Handlers : PC(h) = "ensuring" /\ entries'[Workflow].epoch = Copy(h).epoch
  <2>1. CASE SupervisorStep
    BY <2>1 DEF SupervisorStep, managerVars
  <2>2. ASSUME NEW h \in Handlers, ManagerStep(h)
        PROVE  \/ entries'[Workflow] = entries[Workflow]
               \/ entries'[Workflow] = Null
               \/ /\ entries'[Workflow] # Null
                  /\ PC(h) = "ensuring" /\ entries'[Workflow].epoch = Copy(h).epoch
    BY <1>0, <2>2, ManagerStepEntry DEF EntryTaken, EntryMade, EpochInv, LaunchAgrees
  <2> QED BY <2>1, <2>2 DEF RuntimeStep
<1>5. \A h \in Handlers : PC(h) = "ensuring" => Copy(h) # Null
  BY <1>0, HandlerFacts, RecordsAssumption DEF HasCopy
<1>6. EpochsCounted'
  BY <1>0, <1>2, <1>4, <1>5 DEF EpochInv, EpochsCounted, Counted
<1>7. DeletionHasBegun => DeletionHasBegun'
  BY <1>0 DEF DeletionHasBegun, Has, Cmd
<1>8. EpochsGrow => EpochsGrow'
  <2> SUFFICES ASSUME EpochsGrow PROVE EpochsGrow'
    OBVIOUS
  <2>1. /\ EpochOf(record)' = EpochOf(record) /\ EpochOf(record) \in Nat
        /\ \A h \in Handlers : EpochOf(Copy(h))' = EpochOf(Copy(h))
    BY <1>0, <1>2, EpochsAreNumbers DEF EpochOf
  <2>2. EpochOf(entries[Workflow])' <= EpochOf(record)
    <3>1. CASE entries'[Workflow] = entries[Workflow]
      BY <3>1 DEF EpochsGrow, EpochOf
    <3>2. CASE entries'[Workflow] = Null
      BY <2>1, <3>2 DEF EpochOf
    <3>3. ASSUME NEW h \in Handlers, PC(h) = "ensuring", entries'[Workflow] # Null,
                 entries'[Workflow].epoch = Copy(h).epoch
          PROVE  EpochOf(entries[Workflow])' <= EpochOf(record)
      <4>1. EpochOf(Copy(h)) <= EpochOf(record)
        BY <3>3 DEF EpochsGrow
      <4>2. EpochOf(entries[Workflow])' = EpochOf(Copy(h))
        BY <1>5, <3>3 DEF EpochOf
      <4> QED BY <4>1, <4>2
    <3> QED BY <1>4, <3>1, <3>2, <3>3
  <2>3. \A e \in Nat : Restarted(e)' <=> Restarted(e)
    BY <1>0 DEF Restarted, Has, Cmd, Copy
  <2> QED BY <1>2, <2>1, <2>2, <2>3 DEF EpochsGrow
<1> QED BY <1>3, <1>6, <1>7, <1>8 DEF EpochInv

\* A step of a handler does.
LEMMA HandlerStepEpochs ==
  ASSUME WorkflowInv, WorkflowInv', EpochInv, [WorkflowNext]_workflowVars,
         NEW h \in Handlers, HandlerStep(h) \/ PollExpires(h)
  PROVE  EpochInv'
<1>0. ServiceInv /\ ServiceInv' /\ RuntimesInv /\ RuntimesInv' /\ EpochsCounted
  BY DEF WorkflowInv, EpochInv
<1>1. \A g \in Handlers : LaunchAgrees(g)'
  BY HandlerKeepsLaunch
<1>2. entries' = entries
  BY HandlerStepIs, Zenon
     DEF HandlerStepOfRuntimes, EnsureWorkflowRuntime, CloseWorkflowRuntime, CloseManager,
         ValidateRuntimeWorkspace, AskSession, Retires, runtimesVars, managerVars
<1>3. \A g \in Handlers : g # h => handlers'[g] = handlers[g]
  BY <1>0, OthersStay
<1>4. HandlerCounts(h) \/ (FindsConfig(h) /\ UNCHANGED serviceVars)
  BY <1>0, HandlerStepCounts
<1>5. CASE HandlerCounts(h)
  <2>1. Counted(record)' /\ Counted(Copy(h))'
    BY <1>0, <1>5, CountingKeepsCounted DEF HandlerCounts
  <2>2. EpochsCounted'
    BY <1>0, <1>2, <1>3, <2>1 DEF EpochsCounted, Counted, Copy
  <2>3. DeletionHasBegun' \/ EpochsGrow'
    <3> SUFFICES ASSUME ~DeletionHasBegun' PROVE EpochsGrow'
      OBVIOUS
    <3>1. ~DeletionHasBegun
      BY <1>0, DeletionStays
    <3>2. EpochsGrow /\ PC(h) # "done"
      BY <3>1, DoneIsDone DEF EpochInv
    <3> QED BY <1>0, <1>2, <1>3, <1>5, <3>1, <3>2, CountingGrows
  <2> QED BY <1>1, <2>2, <2>3 DEF EpochInv
<1>6. CASE UNCHANGED serviceVars
  <2>1. UNCHANGED <<record, handlers, entries>>
    BY <1>2, <1>6 DEF serviceVars
  <2>2. EpochsCounted'
    BY <1>0, <2>1 DEF EpochsCounted, Counted, Copy
  <2>3. (DeletionHasBegun \/ EpochsGrow)'
    BY <2>1 DEF EpochInv, DeletionHasBegun, EpochsGrow, EpochOf, Restarted, Has, Cmd, Copy,
       CopyIsCurrent, Restarts, PC, Op, ThenOf
  <2> QED BY <1>1, <2>2, <2>3 DEF EpochInv
<1> QED BY <1>4, <1>5, <1>6

\* When the gateway stops no entry and no record is left.
LEMMA StopEpochs ==
  ASSUME WorkflowInv, EpochInv, GatewayStops
  PROVE  EpochInv'
<1>0. /\ handlers \in [Handlers -> HandlerRecords] /\ Users = Handlers
      /\ Workflow \in SessionGroups
  BY HandlerFacts, WorkflowAssumption DEF WorkflowInv, ServiceInv, ServiceTypeOK
<1>1. /\ record' = Null /\ entries'[Workflow] = Null
      /\ \A h \in Handlers : users'[h] = IdleUser
  BY <1>0 DEF GatewayStops
<1>2. \A h \in Handlers : /\ Copy(h)' = Copy(h)
                          /\ (PC(h) = "new" /\ PC(h)' = "new") \/ PC(h)' = "done"
  <2> SUFFICES ASSUME NEW h \in Handlers
               PROVE  /\ Copy(h)' = Copy(h)
                      /\ (PC(h) = "new" /\ PC(h)' = "new") \/ PC(h)' = "done"
    OBVIOUS
  <2>1. handlers'[h] = IF At(h, "new") THEN handlers[h] ELSE [handlers[h] EXCEPT !.pc = "done"]
    BY DEF GatewayStops
  <2>2. handlers[h] \in HandlerRecords
    BY <1>0
  <2> QED BY <2>1, <2>2 DEF At, PC, Copy, HandlerRecords
<1>3. EpochsCounted'
  BY <1>1, <1>2 DEF EpochInv, EpochsCounted, Counted
<1>4. \A h \in Handlers : LaunchAgrees(h)'
  BY <1>1, <1>2, UserOpsAssumption DEF EpochInv, LaunchAgrees, IdleUser, UserOps
<1>5. EpochsGrow'
  <2>1. EpochOf(record)' = 0 /\ EpochOf(entries[Workflow])' = 0
    BY <1>1 DEF EpochOf
  <2>2. \A h \in Handlers : PC(h)' # "done" => EpochOf(Copy(h))' = 0
    BY <1>2 DEF EpochInv, LaunchAgrees, EpochOf
  <2>3. \A h \in Handlers : ~CopyIsCurrent(h)'
    BY <1>2 DEF CopyIsCurrent, Restarts
  <2> QED BY <2>1, <2>2, <2>3 DEF EpochsGrow
<1> QED BY <1>3, <1>4, <1>5 DEF EpochInv

\* In the first states the epochs are in order.
LEMMA InitEpochs ==
  ASSUME WorkflowInit
  PROVE  EpochInv
<1>1. /\ record = Null /\ entries[Workflow] = Null
      /\ \A h \in Handlers : users[h] = IdleUser
  BY WorkflowAssumption DEF WorkflowInit, RuntimesInit
<1>2. \A h \in Handlers : PC(h) = "new" /\ Copy(h) = Null
  BY DEF WorkflowInit, ServiceInit, PC, Copy
<1> QED
  BY <1>1, <1>2, UserOpsAssumption
     DEF EpochInv, EpochsCounted, Counted, LaunchAgrees, EpochsGrow, EpochOf, CopyIsCurrent,
         Restarts, IdleUser, UserOps

\* After every step of the whole they are.
LEMMA EpochStepInv ==
  ASSUME WorkflowInv, WorkflowInv', EpochInv, [WorkflowNext]_workflowVars
  PROVE  EpochInv'
<1>1. CASE \E h \in Handlers : HandlerStep(h) \/ PollExpires(h)
  BY <1>1, HandlerStepEpochs
<1>2. CASE RuntimeStep /\ UNCHANGED serviceVars
  BY <1>2, RuntimeStepEpochs
<1>3. CASE GatewayStops
  BY <1>3, StopEpochs
<1>4. CASE UNCHANGED <<record, handlers, entries, users>>
  <2>1. EpochsCounted'
    BY <1>4 DEF EpochInv, EpochsCounted, Counted, Copy
  <2>2. \A h \in Handlers : LaunchAgrees(h)'
    BY <1>4 DEF EpochInv, LaunchAgrees, PC, Copy
  <2>3. (DeletionHasBegun \/ EpochsGrow)'
    BY <1>4 DEF EpochInv, DeletionHasBegun, EpochsGrow, EpochOf, Restarted, Has, Cmd, Copy,
       CopyIsCurrent, Restarts, PC, Op, ThenOf
  <2> QED BY <2>1, <2>2, <2>3 DEF EpochInv
<1> QED
  BY <1>1, <1>2, <1>3, <1>4
     DEF WorkflowNext, workflowVars, serviceVars, runtimesVars, managerVars, TurnEnds, Elsewhere

\* Who takes an entry away.
LEMMA WhoReplaces ==
  ASSUME WorkflowInv, EpochInv, [WorkflowNext]_workflowVars, NEW h \in Handlers,
         entries[Workflow] # Null, entries'[Workflow] # entries[Workflow], manager' = h
  PROVE  \/ Restarted(entries[Workflow].epoch)
         \/ Copy(h) # Null /\ (record = Null \/ Copy(h).epoch # record.epoch)
         \/ DeletionHasBegun \/ Has(h, "DeleteWorkflow")
         \/ managerClosed
<1>0. /\ ServiceInv /\ RuntimesInv /\ Users = Handlers /\ Workflow \in SessionGroups
      /\ Null \notin Handlers
  BY WorkflowAssumption, RuntimesAssumption DEF WorkflowInv
<1>1. EntryTaken(h, Workflow)
  <2>1. ~(\E g \in Handlers : HandlerStep(g) \/ PollExpires(g))
    <3> SUFFICES ASSUME NEW g \in Handlers, HandlerStep(g) \/ PollExpires(g)
                 PROVE  entries' = entries
      OBVIOUS
    <3> QED
      BY HandlerStepIs, Zenon
         DEF HandlerStepOfRuntimes, EnsureWorkflowRuntime, CloseWorkflowRuntime, CloseManager,
             ValidateRuntimeWorkspace, AskSession, Retires, runtimesVars, managerVars
  <2>2. ~GatewayStops
    BY <1>0 DEF GatewayStops
  <2>3. \E g \in Handlers : ManagerStep(g)
    BY <2>1, <2>2
       DEF WorkflowNext, workflowVars, runtimesVars, managerVars, TurnEnds, Elsewhere, RuntimeStep,
           SupervisorStep
  <2> QED BY <1>0, <2>3, ManagerStepEntry DEF EntryTaken, EntryMade
<1>2. CASE users[h].op = "CloseWorkflowRuntime"
  <2>1. PC(h) = "closing"
    BY <1>2 DEF EpochInv, LaunchAgrees
  <2> QED BY <1>0, <2>1, HandlerFacts DEF PhaseAgrees, Has, Op, Cmd
<1>3. CASE users[h].op = "EnsureWorkflowRuntime" /\ entries[Workflow].epoch # users[h].epoch
  <2> SUFFICES ASSUME ~DeletionHasBegun, record # Null, Copy(h).epoch = record.epoch
               PROVE  Restarted(entries[Workflow].epoch)
    <3>1. PC(h) = "ensuring"
      BY <1>3 DEF EpochInv, LaunchAgrees
    <3>2. Copy(h) # Null
      BY <1>0, <3>1, HandlerFacts, RecordsAssumption DEF HasCopy
    <3> QED BY <3>2
  <2>1. EpochsGrow
    BY DEF EpochInv
  <2>2. users[h].epoch = record.epoch
    BY <1>3 DEF EpochInv, LaunchAgrees
  <2>3. /\ entries[Workflow].epoch \in Nat /\ record.epoch \in Nat
        /\ entries[Workflow].epoch >= 1
        /\ entries[Workflow].epoch <= record.epoch
        /\ EpochOf(record) = record.epoch
    BY <1>0, <2>1, EpochsAreNumbers DEF EpochOf, EpochsGrow, EpochInv, EpochsCounted, Counted
  <2>4. entries[Workflow].epoch < EpochOf(record)
    BY <1>3, <2>2, <2>3
  <2> QED BY <2>1, <2>3, <2>4 DEF EpochsGrow
<1> QED BY <1>1, <1>2, <1>3 DEF EntryTaken

\* A hot update, a reload, a staged update and a repeated InitWorkflow never disturb the turns in
\* progress: what replaces the running app server is a launch after RestartWorkflow has counted
\* the epoch on, or one for a request whose copy of the record is older; what takes it away is
\* a deletion or the end of the gateway (ensureRuntime, workflow_handlers.go, on
\* EnsureWorkflowRuntime and closeLocked, workflowruntime/manager.go).
THEOREM RuntimeIsReplacedByRestart == WorkflowSpec => RuntimeReplacedOnlyByRestart
<1>1. WorkflowInit => EpochInv
  BY InitEpochs
<1>2. WorkflowInv /\ WorkflowInv' /\ EpochInv /\ [WorkflowNext]_workflowVars => EpochInv'
  BY EpochStepInv
<1> DEFINE Replaces ==
      \A h \in Handlers :
        entries[Workflow] # Null /\ entries'[Workflow] # entries[Workflow] /\ manager' = h
        => \/ Restarted(entries[Workflow].epoch)
           \/ Copy(h) # Null /\ (record = Null \/ Copy(h).epoch # record.epoch)
           \/ DeletionHasBegun \/ Has(h, "DeleteWorkflow")
           \/ managerClosed
<1>3. WorkflowInv /\ EpochInv /\ [WorkflowNext]_workflowVars => [Replaces]_workflowVars
  BY WhoReplaces
<1> QED
  BY <1>1, <1>2, <1>3, WorkflowInvariant, PTL DEF WorkflowSpec, RuntimeReplacedOnlyByRestart
=============================================================================
