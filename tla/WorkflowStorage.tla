---------------------------- MODULE WorkflowStorage ----------------------------
(***************************************************************************)
(* The directory of one workflow                                           *)
(* (gateway/internal/workflowstorage/storage.go): the current, the pending *)
(* and the previous revision of its package, the workspace its runtime     *)
(* works in, and the metadata file.  An operation is a sequence of file    *)
(* system steps, each of which may fail, and the gateway may stop between  *)
(* any two of them.                                                        *)
(*                                                                         *)
(* The operations on one storage key exclude each other by its mutex, and  *)
(* those on different keys share nothing, so that there is one operation   *)
(* at a time.  A package stands for its files and for its fingerprint.     *)
(***************************************************************************)
EXTENDS Integers, FiniteSets

CONSTANTS
  Packages,
  MaxFaults,     \* bound on the failures of a behaviour
  Empty,         \* a directory without files
  Torn,          \* a directory with a part of a package's files
  Remains,       \* what a removal that failed has left
  Absent         \* no directory, or no metadata that can be read

ASSUME StorageAssumption ==
  /\ MaxFaults \in Nat
  /\ Packages \cap {Empty, Torn, Remains, Absent} = {}
  /\ Torn \notin {Empty, Remains, Absent} /\ Absent \notin {Empty, Remains}

VARIABLES
  current, previous, pending,   \* the directories of the revisions
  workspace,                    \* config: runtime/workspace/.codex; instructions: AGENTS files
  metadata,                     \* the metadata file
  job,                           \* the operation in progress
  faults                        \* failures so far

storageVars == <<current, previous, pending, workspace, metadata, job, faults>>
directories == <<current, previous, pending, workspace, metadata>>
-----------------------------------------------------------------------------
Contents == Packages \cup {Empty, Torn, Remains, Absent}
Workspaces == [config : Contents, instructions : Contents]
Metadata == [active : Packages, pending : Packages \cup {Absent},
             previous : Packages \cup {Absent}]

JobKinds == {"Materialize", "Stage", "PromotePending", "Delete"}
ASSUME KindsAssumption == Absent \notin JobKinds

JobLabels == {"idle", "prepare", "write", "clear", "keep", "promote", "layout",
             "copy", "unlink", "link", "instructions", "metadata", "delete", "done"}
\* copied is what runtime/.codex-next holds.
Jobs == [pc : JobLabels, kind : JobKinds \cup {Absent}, pkg : Packages \cup {Absent},
        copied : Contents, ok : BOOLEAN]

IdleJob == [pc |-> "idle", kind |-> Absent, pkg |-> Absent, copied |-> Absent, ok |-> FALSE]

StorageInit ==
  /\ current = Absent /\ previous = Absent /\ pending = Absent
  /\ workspace = [config |-> Absent, instructions |-> Absent]
  /\ metadata = Absent
  /\ job = IdleJob
  /\ faults = 0

\* The state a Materialize of p leaves in an empty root.
StorageInstalled(p) ==
  /\ current = p /\ previous = Absent /\ pending = Empty
  /\ workspace = [config |-> p, instructions |-> p]
  /\ metadata = [active |-> p, pending |-> Absent, previous |-> Absent]
  /\ job = IdleJob
  /\ faults = 0

Then(pc) == job' = [job EXCEPT !.pc = pc]
Succeed == job' = [job EXCEPT !.pc = "done", !.ok = TRUE]
Fail == job' = [job EXCEPT !.pc = "done", !.ok = FALSE]
Works == UNCHANGED faults
Fault == faults < MaxFaults /\ faults' = faults + 1 /\ Fail

\* What may be there of a directory that was to be removed.
Removed(contents) == IF contents = Absent THEN {Absent} ELSE {contents, Remains, Absent}

Begin(kind, pkg) ==
  LET first == CASE kind \in {"Materialize", "Stage"} -> "prepare"
                 [] kind = "PromotePending" -> "clear"
                 [] kind = "Delete" -> "delete" IN
  /\ job.pc = "idle"
  /\ job' = [IdleJob EXCEPT !.pc = first, !.kind = kind, !.pkg = pkg]
  /\ UNCHANGED <<directories, faults>>

\* Mutant: files that lie in the pending directory are used again.
PrepareReuses ==
  /\ job.pc = "prepare"
  /\ \/ job.kind = "Stage" /\ metadata = Absent /\ Fail /\ Works /\ UNCHANGED pending
     \/ /\ job.kind = "Materialize" \/ metadata # Absent
        /\ \/ /\ pending \in {Empty, Absent}
              /\ pending' = Empty /\ Then("write") /\ Works
           \/ /\ pending \notin {Empty, Absent}
              /\ Then(IF job.kind = "Stage" THEN "copy" ELSE "clear") /\ Works /\ UNCHANGED pending
  /\ UNCHANGED <<current, previous, workspace, metadata>>

\* Read the metadata, which only Stage insists on, and empty the pending directory.
Prepare ==
  /\ job.pc = "prepare"
  /\ \/ job.kind = "Stage" /\ metadata = Absent /\ Fail /\ Works /\ UNCHANGED pending
     \/ /\ job.kind = "Materialize" \/ metadata # Absent
        /\ \/ pending' = Empty /\ Then("write") /\ Works
           \/ pending' \in Removed(pending) /\ Fault
  /\ UNCHANGED <<current, previous, workspace, metadata>>

\* writePackageFiles.  When a file cannot be written what was is removed, and nobody looks
\* whether that succeeds.
WriteFiles ==
  /\ job.pc = "write"
  /\ \/ /\ pending' = job.pkg
        /\ Then(IF job.kind = "Stage" THEN "copy" ELSE "clear")
        /\ Works
     \/ pending' \in {Empty, Torn, Remains, Absent} /\ Fault
  /\ UNCHANGED <<current, previous, workspace, metadata>>

NothingPending == metadata # Absent /\ metadata.pending = Absent

\* PromotePending only looks whether there is a pending directory, not what is in it.
HasToPromote == job.kind = "PromotePending"
                => metadata # Absent /\ metadata.pending # Absent /\ pending # Absent

\* What a failure leaves pending: Materialize removes it, and nobody looks whether that
\* succeeds; PromotePending keeps it.
GivenUp == IF job.kind = "Materialize" THEN Removed(pending) ELSE {pending}

\* PromotePending begins here.  Nothing pending is a success, a pending revision
\* that is not there an error.
ClearPrevious ==
  /\ job.pc = "clear"
  /\ \/ /\ ~HasToPromote
        /\ IF NothingPending THEN Succeed ELSE Fail
        /\ Works
        /\ UNCHANGED <<previous, pending>>
     \/ /\ HasToPromote
        /\ \/ previous' = Absent /\ Then("keep") /\ Works /\ UNCHANGED pending
           \/ previous' \in Removed(previous) /\ pending' \in GivenUp /\ Fault
  /\ UNCHANGED <<current, workspace, metadata>>

\* Mutant: current is removed to make room.
KeepPreviousRemoves ==
  /\ job.pc = "keep"
  /\ current' = Absent
  /\ Then("promote") /\ Works
  /\ UNCHANGED <<previous, pending, workspace, metadata>>

\* Rename current to previous, if there is one.
KeepPrevious ==
  /\ job.pc = "keep"
  /\ \/ /\ current = Absent
        /\ Then("promote") /\ Works
        /\ UNCHANGED <<current, previous, pending>>
     \/ /\ current # Absent
        /\ current' = Absent /\ previous' = current
        /\ Then("promote") /\ Works
        /\ UNCHANGED pending
     \/ /\ pending' \in GivenUp
        /\ Fault
        /\ UNCHANGED <<current, previous>>
  /\ UNCHANGED <<workspace, metadata>>

\* Rename pending to current, or else previous back to current, if that succeeds.
Promote ==
  /\ job.pc = "promote"
  /\ \/ /\ current' = pending /\ pending' = Absent
        /\ Then("layout") /\ Works
        /\ UNCHANGED previous
     \/ /\ \/ previous # Absent /\ current' = previous /\ previous' = Absent
           \/ UNCHANGED <<current, previous>>
        /\ Fault
        /\ UNCHANGED pending
  /\ UNCHANGED <<workspace, metadata>>

Layout ==
  /\ job.pc = "layout"
  /\ \/ /\ pending' = Empty
        /\ Then(IF job.kind = "PromotePending" THEN "metadata" ELSE "copy")
        /\ Works
     \/ pending' \in {Absent, Empty} /\ Fault
  /\ UNCHANGED <<current, previous, workspace, metadata>>

\* syncRuntimeWorkspace: current is copied beside the workspace's config, which is
\* then removed and replaced; the instruction files are copied last, one by one.
CopyCurrent ==
  /\ job.pc = "copy"
  /\ \/ current = Absent /\ Fail /\ Works
     \/ current # Absent /\ job' = [job EXCEPT !.pc = "unlink", !.copied = current] /\ Works
     \/ current # Absent /\ Fault
  /\ UNCHANGED directories

UnlinkConfig ==
  /\ job.pc = "unlink"
  /\ \/ workspace' = [workspace EXCEPT !.config = Absent] /\ Then("link") /\ Works
     \/ /\ \E config \in Removed(workspace.config) :
             workspace' = [workspace EXCEPT !.config = config]
        /\ Fault
  /\ UNCHANGED <<current, previous, pending, metadata>>

LinkConfig ==
  /\ job.pc = "link"
  /\ \/ /\ workspace' = [workspace EXCEPT !.config = job.copied]
        /\ Then("instructions") /\ Works
     \/ UNCHANGED workspace /\ Fault
  /\ UNCHANGED <<current, previous, pending, metadata>>

SyncInstructions ==
  /\ job.pc = "instructions"
  /\ \/ /\ workspace' = [workspace EXCEPT !.instructions = current]
        /\ Then("metadata") /\ Works
     \/ workspace' \in {workspace, [workspace EXCEPT !.instructions = Torn]} /\ Fault
  /\ UNCHANGED <<current, previous, pending, metadata>>

NewMetadata ==
  CASE job.kind = "Materialize" ->
         [active |-> job.pkg, pending |-> Absent,
          previous |-> IF metadata = Absent THEN Absent ELSE metadata.active]
    [] job.kind = "Stage" -> [metadata EXCEPT !.pending = job.pkg]
    [] job.kind = "PromotePending" ->
         [active |-> metadata.pending, pending |-> Absent, previous |-> metadata.active]

\* The file is truncated, then written.
WriteMetadata ==
  /\ job.pc = "metadata"
  /\ \/ metadata' = NewMetadata /\ Succeed /\ Works
     \/ metadata' \in {metadata, Absent} /\ Fault
  /\ UNCHANGED <<current, previous, pending, workspace>>

\* Delete removes the root, and tries again; after the last failure, or when the
\* caller gives up, some of it may be gone.
DeleteRoot ==
  /\ job.pc = "delete"
  /\ \/ /\ current' = Absent /\ previous' = Absent /\ pending' = Absent
        /\ workspace' = [config |-> Absent, instructions |-> Absent]
        /\ metadata' = Absent
        /\ Succeed /\ Works
     \/ /\ current' \in Removed(current)
        /\ previous' \in Removed(previous)
        /\ pending' \in Removed(pending)
        /\ \E config \in Removed(workspace.config) :
             workspace' = [workspace EXCEPT !.config = config]
        /\ metadata' \in {metadata, Absent}
        /\ Fault

StorageStep == \/ Prepare \/ WriteFiles \/ ClearPrevious \/ KeepPrevious \/ Promote
               \/ Layout \/ CopyCurrent \/ UnlinkConfig \/ LinkConfig
               \/ SyncInstructions \/ WriteMetadata \/ DeleteRoot

Left(contents, isBeingRemoved) == IF isBeingRemoved THEN Removed(contents) ELSE {contents}

\* The gateway stops: what was being written or removed is there in part.
StorageStops ==
  LET deletes == job.pc = "delete" IN
  /\ current' \in Left(current, deletes)
  /\ previous' \in Left(previous, deletes \/ (job.pc = "clear" /\ HasToPromote))
  /\ pending' \in IF job.pc = "write" THEN {pending, Torn}
                                      ELSE Left(pending, deletes \/ job.pc = "prepare")
  /\ \E config \in Left(workspace.config, deletes \/ job.pc = "unlink"),
        instructions \in {workspace.instructions, Torn} :
       /\ workspace' = [config |-> config, instructions |-> instructions]
       /\ instructions # workspace.instructions => job.pc = "instructions"
  /\ metadata' \in IF deletes \/ job.pc = "metadata" THEN {metadata, Absent} ELSE {metadata}
  /\ job' = IdleJob
-----------------------------------------------------------------------------
(* Properties                                                              *)

StorageTypeOK ==
  /\ current \in Contents /\ previous \in Contents /\ pending \in Contents
  /\ workspace \in Workspaces
  /\ metadata \in Metadata \cup {Absent}
  /\ job \in Jobs
  /\ faults \in 0..MaxFaults

\* What a storage operation that succeeds says is so, whatever the operations before it left
\* behind when they failed or the gateway stopped, half-written and half-removed directories
\* included: Materialize has installed its package, as the current revision, in the workspace
\* and in the metadata; Stage has put it beside the current one, of which the workspace is a
\* copy; nothing is left after Delete.  PromotePending does not look at what it moves: it has
\* made the package that the metadata name the current revision if nothing ever failed.
SuccessIsWhole ==
  LET copied == workspace = [config |-> current, instructions |-> current] IN
  job.pc = "done" /\ job.ok =>
    CASE job.kind = "Materialize" ->
           current = job.pkg /\ copied /\ metadata.active = job.pkg /\ metadata.pending = Absent
      [] job.kind = "Stage" -> pending = job.pkg /\ copied /\ metadata.pending = job.pkg
      [] job.kind = "PromotePending" ->
           metadata.pending = Absent /\ (faults = 0 => current = metadata.active)
      [] job.kind = "Delete" -> {current, previous, pending, metadata} = {Absent}
=============================================================================
