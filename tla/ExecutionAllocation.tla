------------------------- MODULE ExecutionAllocation -------------------------
(***************************************************************************)
(* The allocation of a private worktree to an agent's run: the durable     *)
(* registry (execution-allocation-registry.ts), the controllers that drive *)
(* it through the native helper and git (native-allocation-controller.ts,  *)
(* agent-workspace-controller.ts, candidate-lifecycle-controller.ts,       *)
(* candidate-importer.ts), and the helper itself (kogg-execution-helper.c).*)
(*                                                                         *)
(* Every run works in one repository.  A command of the registry checks    *)
(* admission and the row, may await an authority, and commits in one       *)
(* transaction that compares revision and state again: two actions where   *)
(* the code awaits, one where it does not.  A revision grows with every    *)
(* change of state and no run of the controllers enters a state twice      *)
(* between two starts, so the state a caller holds stands for its revision.*)
(* Request replay is left out: each stage is asked once by its controller. *)
(***************************************************************************)
EXTENDS Naturals, FiniteSets

CONSTANTS
    Runs,          \* the runs that ask for a workspace
    LastQuota,     \* the last quota project id; the first is 1
    MaxCrashes     \* bound: how often the backend dies

AllocationBounds == IsFiniteSet(Runs) /\ LastQuota \in Nat \ {0} /\ MaxCrashes \in Nat

VARIABLES
    backend,       \* "up", "recovering", "down", or "broken": refuses to start
    admission,     \* execution_meta.admission
    row,           \* run -> its rows in the registry's tables
    nextQuota,     \* execution_meta.next_quota_project_id
    todo,          \* the rows the recovery of this start has still to settle
    pc,            \* run -> where its controller stands
    held,          \* run -> the state its finalisation has read
    act,           \* run -> where the activation of its workspace stands
    child,         \* run -> its live helper or git process
    dir,           \* run -> its directory below the allocation root
    ref,           \* run -> its quarantine ref is in the repository
    crashes

durable == <<admission, row, nextQuota>>
outside == <<child, dir, ref>>
vars == <<backend, admission, row, nextQuota, todo, pc, held, act, child,
          dir, ref, crashes>>

State == {"absent", "admitted", "allocated", "seeding", "verified", "ready",
          "leased", "executing", "stopping", "sealed", "candidate-imported",
          "retained", "cleaning", "cleaned", "failed", "timed-out",
          "cancelled", "quarantined"}
QuotaPhase == {"none", "active", "allocated", "released", "quarantined"}
Where == {"idle", "reserving", "reserved", "preparing", "prepared", "helping",
          "proved", "recording", "undoing", "allocated", "seeding", "verified",
          "ready", "leased", "finalizing", "abandoning", "terminal",
          "authorizing", "clearing", "wiping", "wiped", "unwiped", "stopping",
          "sealed", "importing", "referring", "referred", "unimported",
          "imported", "lost", "ended"}
RowType == [state : State, cleanup : {"required", "cleaning", "cleaned", "failed"},
            intent : {"none", "requested", "completed", "quarantined"},
            quota : QuotaPhase, project : 0..LastQuota,
            imp : {"none", "requested", "completed", "quarantined"},
            lease : {"none", "active", "released", "quarantined"},
            retention : {"none", "pending-evidence", "completed"}]
NoRow == [state |-> "absent", cleanup |-> "required", intent |-> "none",
          quota |-> "none", project |-> 0, imp |-> "none", lease |-> "none",
          retention |-> "none"]

\* LEGAL_TRANSITIONS, for the states the controllers reach.
Legal(s) ==
    CASE s = "allocated" -> {"seeding", "cleaning", "quarantined"}
      [] s = "seeding"   -> {"verified", "failed", "timed-out"}
      [] s = "verified"  -> {"ready", "cleaning", "quarantined"}
      [] s = "ready"     -> {"leased", "cleaning", "quarantined"}
      [] s = "leased"    -> {"executing", "cancelled"}
      [] s = "executing" -> {"stopping", "timed-out", "failed"}
      [] s = "stopping"  -> {"sealed", "cleaning", "cancelled", "timed-out", "failed"}
      [] s = "sealed"    -> {"candidate-imported"}
      [] s \in {"failed", "timed-out", "cancelled", "retained"} -> {"cleaning"}
      [] s = "cleaning"  -> {"cleaned", "quarantined"}
      [] OTHER           -> {}

\* repository_mutation_leases of a phase that excludes another import.
Unsettled(r) == row[r].lease \in {"active", "quarantined"}
Identified(r) == row[r].project # 0 /\ row[r].intent = "completed"
Open == backend = "up" /\ admission = "enabled"
Goto(r, p) == pc' = [pc EXCEPT ![r] = p]

-----------------------------------------------------------------------------
(* reserve, preparePhysicalAllocation *)

\* reserve: admission is checked, then mode and target are asked.
ReserveBegin(r) ==
    /\ Open /\ pc[r] = "idle"
    /\ Goto(r, "reserving")
    /\ UNCHANGED <<backend, durable, todo, held, act, outside, crashes>>

ReserveCommit(r) ==
    /\ backend = "up" /\ pc[r] = "reserving"
    /\ row[r].state = "absent"
    /\ row' = [row EXCEPT ![r].state = "admitted"]
    /\ Goto(r, "reserved")
    /\ UNCHANGED <<backend, admission, nextQuota, todo, held, act, outside, crashes>>

\* preparePhysicalAllocation: the checks before its awaits.
PrepareBegin(r) ==
    /\ Open /\ pc[r] = "reserved"
    /\ row[r].state = "admitted" /\ row[r].intent # "requested"
    /\ Goto(r, "preparing")
    /\ UNCHANGED <<backend, durable, todo, held, act, outside, crashes>>

\* Mutant: the counter of quota project ids is not moved on.
PrepareCommitReuses(r) ==
    /\ backend = "up" /\ pc[r] = "preparing" /\ nextQuota <= LastQuota
    /\ row' = [row EXCEPT ![r].intent = "requested", ![r].quota = "active",
                          ![r].project = nextQuota]
    /\ Goto(r, "prepared")
    /\ UNCHANGED <<backend, admission, nextQuota, todo, held, act, outside, crashes>>

\* Mutant: the last quota project id is not the last.
PrepareCommitUnbounded(r) ==
    /\ backend = "up" /\ pc[r] = "preparing"
    /\ row' = [row EXCEPT ![r].intent = "requested", ![r].quota = "active",
                          ![r].project = nextQuota]
    /\ nextQuota' = nextQuota + 1
    /\ Goto(r, "prepared")
    /\ UNCHANGED <<backend, admission, todo, held, act, outside, crashes>>

\* Its transaction: an intent, and a quota project id that is never used again.
PrepareCommit(r) ==
    /\ backend = "up" /\ pc[r] = "preparing"
    /\ nextQuota <= LastQuota
    /\ row' = [row EXCEPT ![r].intent = "requested", ![r].quota = "active",
                          ![r].project = nextQuota]
    /\ nextQuota' = nextQuota + 1
    /\ Goto(r, "prepared")
    /\ UNCHANGED <<backend, admission, todo, held, act, outside, crashes>>

\* A reservation or an intent that is refused (admission, authority, no id
\* left) reaches no clean-up: a reserved row stays admitted.
Refused(r) ==
    /\ backend = "up"
    /\ pc[r] \in {"idle", "reserving", "reserved", "preparing"}
    /\ Goto(r, "ended")
    /\ UNCHANGED <<backend, durable, todo, held, act, outside, crashes>>

-----------------------------------------------------------------------------
(* The helper process: it survives the backend that spawned it. *)

Spawn(r) ==
    /\ backend = "up" /\ pc[r] = "prepared"
    /\ child' = [child EXCEPT ![r] = "allocating"]
    /\ Goto(r, "helping")
    /\ UNCHANGED <<backend, durable, todo, held, act, dir, ref, crashes>>

\* allocate of the helper makes the directory first ...
HelperMakes(r) ==
    /\ child[r] = "allocating" /\ dir[r] = "none"
    /\ dir' = [dir EXCEPT ![r] = "bare"]
    /\ UNCHANGED <<backend, durable, todo, pc, held, act, child, ref, crashes>>

\* ... then sets the project, the quota and the metadata, and reports.
HelperMade(r) ==
    /\ child[r] = "allocating" /\ dir[r] = "bare"
    /\ dir' = [dir EXCEPT ![r] = "whole"]
    /\ child' = [child EXCEPT ![r] = "none"]
    /\ pc' = IF pc[r] = "helping" THEN [pc EXCEPT ![r] = "proved"] ELSE pc
    /\ UNCHANGED <<backend, durable, todo, held, act, ref, crashes>>

\* A refusal or a kill at the deadline leaves what was made.
HelperFails(r) ==
    /\ child[r] # "none"
    /\ child' = [child EXCEPT ![r] = "none"]
    /\ pc' = CASE pc[r] = "helping"   -> [pc EXCEPT ![r] = "undoing"]
               [] pc[r] = "wiping"    -> [pc EXCEPT ![r] = "unwiped"]
               [] pc[r] = "referring" -> [pc EXCEPT ![r] = "unimported"]
               [] OTHER               -> pc
    /\ UNCHANGED <<backend, durable, todo, held, act, dir, ref, crashes>>

\* cleanup of the helper compares the identity, removes the contents ...
HelperEmpties(r) ==
    /\ child[r] = "cleaning" /\ dir[r] = "whole"
    /\ dir' = [dir EXCEPT ![r] = "partial"]
    /\ UNCHANGED <<backend, durable, todo, pc, held, act, child, ref, crashes>>

\* ... and the directory and its quota.
HelperRemoves(r) ==
    /\ child[r] = "cleaning" /\ dir[r] = "partial"
    /\ dir' = [dir EXCEPT ![r] = "none"]
    /\ child' = [child EXCEPT ![r] = "none"]
    /\ pc' = IF pc[r] = "wiping" THEN [pc EXCEPT ![r] = "wiped"] ELSE pc
    /\ UNCHANGED <<backend, durable, todo, held, act, ref, crashes>>

-----------------------------------------------------------------------------
(* recordPhysicalAllocation, failPhysicalAllocation *)

RecordBegin(r) ==
    /\ Open /\ pc[r] = "proved"
    /\ row[r].state = "admitted" /\ row[r].intent = "requested" /\ row[r].quota = "active"
    /\ Goto(r, "recording")
    /\ UNCHANGED <<backend, durable, todo, held, act, outside, crashes>>

RecordCommit(r) ==
    /\ backend = "up" /\ pc[r] = "recording"
    /\ row[r].state = "admitted" /\ row[r].intent = "requested" /\ row[r].quota = "active"
    /\ row' = [row EXCEPT ![r].state = "allocated", ![r].intent = "completed",
                          ![r].quota = "allocated"]
    /\ Goto(r, "allocated")
    /\ UNCHANGED <<backend, admission, nextQuota, todo, held, act, outside, crashes>>

\* NativeAllocationController.allocate: whatever fails after the intent.
AllocateFails(r) ==
    /\ backend = "up" /\ pc[r] \in {"prepared", "proved", "recording"}
    /\ Goto(r, "undoing")
    /\ UNCHANGED <<backend, durable, todo, held, act, outside, crashes>>

\* Mutant: admission stays enabled over a directory of unknown outcome.
FailPhysicalAllocationQuietly(r) ==
    /\ backend = "up" /\ pc[r] = "undoing"
    /\ row[r].state = "admitted" /\ row[r].intent = "requested"
    /\ row' = [row EXCEPT ![r].intent = "quarantined", ![r].state = "quarantined",
                          ![r].cleanup = "failed", ![r].quota = "quarantined"]
    /\ Goto(r, "ended")
    /\ UNCHANGED <<backend, admission, nextQuota, todo, held, act, outside, crashes>>

FailPhysicalAllocation(r) ==
    /\ backend = "up" /\ pc[r] = "undoing"
    /\ row[r].state = "admitted" /\ row[r].intent = "requested"
    /\ row' = [row EXCEPT ![r].intent = "quarantined", ![r].state = "quarantined",
                          ![r].cleanup = "failed", ![r].quota = "quarantined"]
    /\ admission' = "blocked"
    /\ Goto(r, "ended")
    /\ UNCHANGED <<backend, nextQuota, todo, held, act, outside, crashes>>

-----------------------------------------------------------------------------
(* advance, and AgentWorkspaceController.prepareWorkspace *)

\* The row moves only when it is still in the state the caller holds.
Advance(r, from, to) ==
    /\ Open
    /\ row[r].state = from /\ to \in Legal(from)
    /\ row' = [row EXCEPT ![r].state = to]
    /\ UNCHANGED <<backend, admission, nextQuota, todo, outside, crashes>>

\* allocated, seeding (then the seeder runs), verified, ready, leased.
PrepareStage(r) ==
    \E to \in {"seeding", "verified", "ready", "leased"} :
        /\ pc[r] \in {"allocated", "seeding", "verified", "ready"}
        /\ Advance(r, pc[r], to)
        /\ Goto(r, to)
        /\ UNCHANGED <<held, act>>

\* A stage or the seeder fails: cleanupAfterFailure.
PrepareFails(r) ==
    /\ backend = "up"
    /\ pc[r] \in {"allocated", "seeding", "verified", "ready"}
    /\ held' = [held EXCEPT ![r] = pc[r]]
    /\ Goto(r, IF pc[r] = "seeding" THEN "abandoning" ELSE "terminal")
    /\ UNCHANGED <<backend, durable, todo, act, outside, crashes>>

\* seeding or stopping is advanced to failed before it is cleaned.
Abandon(r) ==
    /\ pc[r] = "abandoning"
    /\ Advance(r, held[r], "failed")
    /\ held' = [held EXCEPT ![r] = "failed"]
    /\ Goto(r, "terminal")
    /\ UNCHANGED act

-----------------------------------------------------------------------------
(* activateWorkspace and finalizeWorkspace: two calls the agent side may     *)
(* have under way at once.                                                   *)

ActivateRead(r) ==
    /\ backend = "up" /\ act[r] = "idle" /\ pc[r] \in {"leased", "finalizing"}
    /\ row[r].state = "leased"
    /\ act' = [act EXCEPT ![r] = "read"]
    /\ UNCHANGED <<backend, durable, todo, pc, held, outside, crashes>>

ActivateCommit(r) ==
    /\ act[r] = "read"
    /\ Advance(r, "leased", "executing")
    /\ act' = [act EXCEPT ![r] = "done"]
    /\ UNCHANGED <<pc, held>>

ActivateRefused(r) ==
    /\ backend = "up" /\ act[r] = "read"
    /\ \/ admission # "enabled"
       \/ row[r].state # "leased"
    /\ act' = [act EXCEPT ![r] = "done"]
    /\ UNCHANGED <<backend, durable, todo, pc, held, outside, crashes>>

FinalizeRead(r) ==
    /\ backend = "up" /\ pc[r] = "leased"
    /\ row[r].state \in {"leased", "executing"}
    /\ held' = [held EXCEPT ![r] = row[r].state]
    /\ Goto(r, "finalizing")
    /\ UNCHANGED <<backend, durable, todo, act, outside, crashes>>

\* A leased workspace was never started; one that executed stops, or ends as
\* its outcome says.
FinalizeCommit(r) ==
    /\ pc[r] = "finalizing"
    /\ \E to \in {"cancelled", "timed-out", "failed", "stopping"} :
          /\ Advance(r, held[r], to)
          /\ held' = [held EXCEPT ![r] = to]
          /\ Goto(r, IF to = "stopping" THEN "stopping" ELSE "terminal")
    /\ UNCHANGED act

\* finalizeCompleted: the source is resolved again and the candidate sealed
\* (recordSeal); no change in the tree is cleaned from stopping.
Seal(r) ==
    /\ Open /\ pc[r] = "stopping"
    /\ row[r].state = "stopping"
    /\ row' = [row EXCEPT ![r].state = "sealed", ![r].retention = "pending-evidence"]
    /\ Goto(r, "sealed")
    /\ UNCHANGED <<backend, admission, nextQuota, todo, held, act, outside, crashes>>

SealNoChange(r) ==
    /\ backend = "up" /\ pc[r] = "stopping"
    /\ Goto(r, "terminal")
    /\ UNCHANGED <<backend, durable, todo, held, act, outside, crashes>>

\* cleanupCompletionFailure: only a row still stopping is failed and cleaned.
SealFails(r) ==
    /\ backend = "up" /\ pc[r] = "stopping"
    /\ Goto(r, "abandoning")
    /\ UNCHANGED <<backend, durable, todo, held, act, outside, crashes>>

\* A conflict of revisions, blocked admission, a repository in use, or the
\* refusal of a clean-up ends the call where it stands.
Stuck(r) ==
    /\ backend = "up"
    /\ \/ /\ pc[r] \in {"abandoning", "finalizing"}
          /\ admission # "enabled" \/ row[r].state # held[r]
       \/ pc[r] \in {"sealed", "imported"} /\ admission # "enabled"
       \/ pc[r] = "sealed" /\ \E s \in Runs : Unsettled(s)
       \/ pc[r] \in {"terminal", "authorizing"}
    /\ Goto(r, "ended")
    /\ UNCHANGED <<backend, durable, todo, held, act, outside, crashes>>

-----------------------------------------------------------------------------
(* The import of a sealed candidate into the user's repository *)

\* Mutant: the repository lease is not looked for.
PrepareImportUnleased(r) ==
    /\ Open /\ pc[r] = "sealed" /\ row[r].state = "sealed"
    /\ row' = [row EXCEPT ![r].imp = "requested", ![r].lease = "active"]
    /\ Goto(r, "importing")
    /\ UNCHANGED <<backend, admission, nextQuota, todo, held, act, outside, crashes>>

\* prepareCandidateImport: refused while another import is unsettled.
PrepareImport(r) ==
    /\ Open /\ pc[r] = "sealed"
    /\ row[r].state = "sealed"
    /\ \A s \in Runs : ~Unsettled(s)
    /\ row' = [row EXCEPT ![r].imp = "requested", ![r].lease = "active"]
    /\ Goto(r, "importing")
    /\ UNCHANGED <<backend, admission, nextQuota, todo, held, act, outside, crashes>>

\* CandidateImporter.import: bundle, fetch, verify, then update-ref ...
ImportRef(r) ==
    /\ backend = "up" /\ pc[r] = "importing" /\ ~ref[r]
    /\ child' = [child EXCEPT ![r] = "update-ref"]
    /\ Goto(r, "referring")
    /\ UNCHANGED <<backend, durable, todo, held, act, dir, ref, crashes>>

RefLands(r) ==
    /\ child[r] = "update-ref"
    /\ ref' = [ref EXCEPT ![r] = TRUE]
    /\ child' = [child EXCEPT ![r] = "none"]
    /\ pc' = IF pc[r] = "referring" THEN [pc EXCEPT ![r] = "referred"] ELSE pc
    /\ UNCHANGED <<backend, durable, todo, held, act, dir, crashes>>

\* ... and may fail before it, or at the second snapshot after it.
ImportFails(r) ==
    /\ backend = "up" /\ pc[r] \in {"importing", "referred"}
    /\ Goto(r, "unimported")
    /\ UNCHANGED <<backend, durable, todo, held, act, outside, crashes>>

CompleteImport(r) ==
    /\ backend = "up" /\ pc[r] = "referred"
    /\ row[r].state = "sealed" /\ row[r].imp = "requested"
    /\ row' = [row EXCEPT ![r].imp = "completed", ![r].lease = "released",
                          ![r].state = "candidate-imported"]
    /\ Goto(r, "imported")
    /\ UNCHANGED <<backend, admission, nextQuota, todo, held, act, outside, crashes>>

\* Mutant: a failed import gives its repository lease back.
FailImportReleases(r) ==
    /\ backend = "up" /\ pc[r] = "unimported"
    /\ row[r].state = "sealed" /\ row[r].imp = "requested"
    /\ row' = [row EXCEPT ![r].imp = "quarantined", ![r].lease = "released",
                          ![r].state = "quarantined"]
    /\ admission' = "blocked"
    /\ Goto(r, "ended")
    /\ UNCHANGED <<backend, nextQuota, todo, held, act, outside, crashes>>

\* failCandidateImport: the quota lease and the clean-up state stay as they are.
FailImport(r) ==
    /\ backend = "up" /\ pc[r] = "unimported"
    /\ row[r].state = "sealed" /\ row[r].imp = "requested"
    /\ row' = [row EXCEPT ![r].imp = "quarantined", ![r].lease = "quarantined",
                          ![r].state = "quarantined"]
    /\ admission' = "blocked"
    /\ Goto(r, "ended")
    /\ UNCHANGED <<backend, nextQuota, todo, held, act, outside, crashes>>

RecordRetention(r) ==
    /\ Open /\ pc[r] = "imported"
    /\ row[r].state \in {"sealed", "candidate-imported"}
    /\ row[r].retention = "pending-evidence"
    /\ row' = [row EXCEPT ![r].state = "retained", ![r].retention = "completed"]
    /\ Goto(r, "ended")
    /\ UNCHANGED <<backend, admission, nextQuota, todo, held, act, outside, crashes>>

-----------------------------------------------------------------------------
(* preparePhysicalCleanup, completePhysicalCleanup, failPhysicalCleanup, and *)
(* NativeAllocationController.cleanup around them.                           *)

CleanupBegin(r) ==
    /\ Open /\ pc[r] = "terminal"
    /\ Identified(r) /\ row[r].state = held[r] /\ "cleaning" \in Legal(held[r])
    /\ Goto(r, "authorizing")
    /\ UNCHANGED <<backend, durable, todo, held, act, outside, crashes>>

CleanupCommit(r) ==
    /\ backend = "up" /\ pc[r] = "authorizing"
    /\ row[r].state = held[r]
    /\ row' = [row EXCEPT ![r].state = "cleaning", ![r].cleanup = "cleaning"]
    /\ Goto(r, "clearing")
    /\ UNCHANGED <<backend, admission, nextQuota, todo, held, act, outside, crashes>>

SpawnCleanup(r) ==
    /\ backend = "up" /\ pc[r] = "clearing"
    /\ child' = [child EXCEPT ![r] = "cleaning"]
    /\ Goto(r, "wiping")
    /\ UNCHANGED <<backend, durable, todo, held, act, dir, ref, crashes>>

CompleteCleanup(r) ==
    /\ backend = "up" /\ pc[r] = "wiped"
    /\ row[r].state = "cleaning"
    /\ row' = [row EXCEPT ![r].state = "cleaned", ![r].cleanup = "cleaned",
                          ![r].quota = "released"]
    /\ Goto(r, "ended")
    /\ UNCHANGED <<backend, admission, nextQuota, todo, held, act, outside, crashes>>

CleanupFails(r) ==
    /\ backend = "up" /\ pc[r] \in {"clearing", "wiped"}
    /\ Goto(r, "unwiped")
    /\ UNCHANGED <<backend, durable, todo, held, act, outside, crashes>>

\* Mutant: the quota lease of a row that is quarantined stays allocated.
FailCleanupKeepsLease(r) ==
    /\ backend = "up" /\ pc[r] = "unwiped" /\ row[r].state = "cleaning"
    /\ row' = [row EXCEPT ![r].state = "quarantined", ![r].cleanup = "failed"]
    /\ admission' = "blocked"
    /\ Goto(r, "ended")
    /\ UNCHANGED <<backend, nextQuota, todo, held, act, outside, crashes>>

\* Mutant: the helper is spawned again after the row was quarantined.
FailCleanupRetries(r) ==
    /\ backend = "up" /\ pc[r] = "unwiped" /\ row[r].state = "cleaning"
    /\ row' = [row EXCEPT ![r].state = "quarantined", ![r].cleanup = "failed",
                          ![r].quota = "quarantined"]
    /\ admission' = "blocked"
    /\ Goto(r, "clearing")
    /\ UNCHANGED <<backend, nextQuota, todo, held, act, outside, crashes>>

\* The controller's failure observation is never the expected identity: the
\* row is quarantined, never left cleanup-failed.
FailCleanup(r) ==
    /\ backend = "up" /\ pc[r] = "unwiped"
    /\ row[r].state = "cleaning"
    /\ row' = [row EXCEPT ![r].state = "quarantined", ![r].cleanup = "failed",
                          ![r].quota = "quarantined"]
    /\ admission' = "blocked"
    /\ Goto(r, "ended")
    /\ UNCHANGED <<backend, nextQuota, todo, held, act, outside, crashes>>

\* The commit of any of the three failures throws: it is logged, the call ends,
\* and the row keeps saying that the work is under way.
FailureLost(r) ==
    /\ backend = "up" /\ pc[r] \in {"undoing", "unimported", "unwiped"}
    /\ Goto(r, "lost")
    /\ UNCHANGED <<backend, durable, todo, held, act, outside, crashes>>

-----------------------------------------------------------------------------
(* The end of the backend, and startDatabase *)

Crash ==
    /\ backend \in {"up", "recovering"} /\ crashes < MaxCrashes
    /\ backend' = "down" /\ crashes' = crashes + 1
    /\ todo' = {}
    /\ pc' = [r \in Runs |-> IF pc[r] = "idle" THEN "idle" ELSE "ended"]
    /\ act' = [r \in Runs |-> IF pc[r] = "idle" THEN act[r] ELSE "done"]
    /\ UNCHANGED <<durable, held, outside>>

\* quotaProjectLeasesValid
QuotaLeaseValid(r) ==
    /\ row[r].quota = "active"      => row[r].intent = "requested" /\ row[r].state = "admitted"
    /\ row[r].quota = "allocated"   => /\ row[r].intent = "completed"
                                       /\ row[r].state \notin {"admitted", "cleaned", "quarantined"}
    /\ row[r].quota = "released"    => row[r].state = "cleaned"
    /\ row[r].quota = "quarantined" => row[r].state = "quarantined"
QuotaLeasesValid ==
    /\ \A r \in Runs : QuotaLeaseValid(r)
    /\ nextQuota \in 1..(LastQuota + 1)

Unsafe(r) ==
    \/ row[r].state \notin {"absent", "cleaned", "quarantined"}
    \/ row[r].cleanup \in {"cleaning", "failed"}

\* assertIntegrity throws, or recover collects the rows it has to settle.
Start ==
    /\ backend = "down"
    /\ IF QuotaLeasesValid
         THEN backend' = "recovering" /\ admission' = "recovering"
              /\ todo' = {r \in Runs : Unsafe(r)}
         ELSE backend' = "broken" /\ UNCHANGED <<admission, todo>>
    /\ UNCHANGED <<row, nextQuota, pc, held, act, outside, crashes>>

\* One transaction of the recovery.
RecoverRow(r) ==
    /\ backend = "recovering" /\ r \in todo
    /\ row' = [row EXCEPT ![r].state = "quarantined", ![r].cleanup = "failed",
                          ![r].lease = IF @ = "active" THEN "quarantined" ELSE @,
                          ![r].quota = IF @ \in {"active", "allocated"} THEN "quarantined" ELSE @]
    /\ todo' = todo \ {r}
    /\ UNCHANGED <<backend, admission, nextQuota, pc, held, act, outside, crashes>>

\* The admission of a start: blocked as soon as one row had to be settled.
Recovered ==
    /\ backend = "recovering" /\ todo = {}
    /\ backend' = "up"
    /\ admission' = IF \E r \in Runs : Unsafe(r) THEN "blocked" ELSE "enabled"
    /\ UNCHANGED <<row, nextQuota, todo, pc, held, act, outside, crashes>>

-----------------------------------------------------------------------------
\* A registry that has given out some of its quota project ids before.
Init ==
    /\ backend = "up" /\ admission = "enabled"
    /\ row = [r \in Runs |-> NoRow]
    /\ nextQuota \in 1..(LastQuota + 1)
    /\ todo = {} /\ crashes = 0
    /\ pc = [r \in Runs |-> "idle"] /\ held = [r \in Runs |-> "absent"]
    /\ act = [r \in Runs |-> "idle"] /\ child = [r \in Runs |-> "none"]
    /\ dir = [r \in Runs |-> "none"] /\ ref = [r \in Runs |-> FALSE]

Controller(r) ==
    \/ ReserveBegin(r) \/ ReserveCommit(r) \/ PrepareBegin(r) \/ PrepareCommit(r)
    \/ Refused(r) \/ Spawn(r) \/ RecordBegin(r) \/ RecordCommit(r)
    \/ AllocateFails(r) \/ FailPhysicalAllocation(r)
    \/ PrepareStage(r) \/ PrepareFails(r) \/ Abandon(r)
    \/ ActivateRead(r) \/ ActivateCommit(r) \/ ActivateRefused(r)
    \/ FinalizeRead(r) \/ FinalizeCommit(r)
    \/ Seal(r) \/ SealNoChange(r) \/ SealFails(r) \/ Stuck(r)
    \/ PrepareImport(r) \/ ImportRef(r) \/ ImportFails(r) \/ CompleteImport(r)
    \/ FailImport(r) \/ RecordRetention(r)
    \/ CleanupBegin(r) \/ CleanupCommit(r) \/ SpawnCleanup(r)
    \/ CompleteCleanup(r) \/ CleanupFails(r) \/ FailCleanup(r)
    \/ FailureLost(r)

Process(r) ==
    \/ HelperMakes(r) \/ HelperMade(r) \/ HelperFails(r)
    \/ HelperEmpties(r) \/ HelperRemoves(r) \/ RefLands(r)

Next ==
    \/ \E r \in Runs : Controller(r) \/ Process(r) \/ RecoverRow(r)
    \/ Crash \/ Start \/ Recovered

Spec == Init /\ [][Next]_vars

-----------------------------------------------------------------------------
(* Properties *)

\* Every variable holds a value of its kind.
TypeOK ==
    /\ backend \in {"up", "recovering", "down", "broken"}
    /\ admission \in {"enabled", "recovering", "blocked"}
    /\ row \in [Runs -> RowType]
    /\ nextQuota \in 1..(LastQuota + 1)
    /\ todo \subseteq Runs
    /\ pc \in [Runs -> Where] /\ held \in [Runs -> State]
    /\ act \in [Runs -> {"idle", "read", "done"}]
    /\ child \in [Runs -> {"none", "allocating", "cleaning", "update-ref"}]
    /\ dir \in [Runs -> {"none", "bare", "whole", "partial"}]
    /\ ref \in [Runs -> BOOLEAN]
    /\ crashes \in 0..MaxCrashes

\* Whatever durable state the backend dies in passes the check of the quota
\* leases at its next start, except after a failed import.
LeasesAgree ==
    \A r \in Runs : QuotaLeaseValid(r) \/ row[r].imp = "quarantined"

\* Every state the registry commits passes the check its own next start makes
\* (assertIntegrity). A failed import does not: no run keeps this.
RestartsPass == QuotaLeasesValid

\* A directory below the allocation root, or a helper at work on one, always
\* belongs to a quota lease that was not released, under an id of its own.
DirectoriesLeased ==
    \A r \in Runs : dir[r] # "none" \/ child[r] \in {"allocating", "cleaning"} =>
        /\ row[r].quota \in {"active", "allocated", "quarantined"}
        /\ row[r].project \in 1..(nextQuota - 1)
        /\ \A s \in Runs \ {r} : row[s].project # row[r].project

\* While an import works on the repository no other is unsettled there, and no
\* git process of an earlier one can still write a ref.
OneImport ==
    \A r, s \in Runs :
        /\ r # s
        /\ child[r] = "update-ref" \/ pc[r] \in {"importing", "referring", "referred"}
        => ~Unsettled(s) /\ child[s] # "update-ref"

\* A quarantine ref in the user's repository is never unaccounted for, and a
\* completed import keeps its ref and the whole worktree it came from.
EvidenceKept ==
    \A r \in Runs :
        /\ ref[r] => row[r].imp = "completed" \/ Unsettled(r)
        /\ row[r].imp = "completed" => ref[r] /\ dir[r] = "whole"

\* Admission is enabled over a row, an import or a directory whose outcome is
\* unknown only when the failure itself could not be recorded; its row is then
\* one that the next start finds and settles.
BlockedByResidue ==
    Open => \A r \in Runs :
        /\ row[r].state # "quarantined" /\ row[r].lease # "quarantined"
        /\ pc[r] = "idle" => dir[r] = "none"
        /\ pc[r] = "ended" /\ dir[r] # "none" => row[r].state \notin {"admitted", "cleaned"}
        /\ pc[r] = "lost" => Unsafe(r) /\ row[r].quota \in {"active", "allocated"}

\* A quarantined row stays so, and its directory is touched only by a process
\* that was already at work on it.
QuarantineKeeps ==
    [][\A r \in Runs : row[r].state = "quarantined" =>
           /\ row'[r].state = "quarantined"
           /\ dir'[r] = dir[r] \/ child[r] # "none"
           /\ ref'[r] = ref[r] \/ child[r] # "none"
           /\ child'[r] \in {child[r], "none"}]_vars
=============================================================================
