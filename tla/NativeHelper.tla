----------------------------- MODULE NativeHelper -----------------------------
(***************************************************************************)
(* The native helper call by call (kogg-execution-helper.c): how it makes  *)
(* the directory of one allocation and removes it, while the controller    *)
(* may kill it at a timeout, the backend may die and leave it running, and *)
(* the machine may lose its power.  What was not synchronised by then is   *)
(* there afterwards or not, each thing for itself (XFS promises more: its  *)
(* log keeps the order).  The limits are taken for durable with the sync   *)
(* of the root that follows them.                                          *)
(*                                                                         *)
(* ExecutionAllocation takes a run of the helper for two steps; this       *)
(* module is what its answers stand on.                                    *)
(***************************************************************************)
EXTENDS Naturals

CONSTANT Files        \* what the agent's run may leave in the directory

VARIABLES
  dir,          \* [there, project, meta, files, limits]: what the kernel shows
  disk,         \* the same: what a loss of power leaves for sure
  helper,       \* [op, at]: the call that is next, or None
  controller,   \* "up" or "gone"
  answer        \* of each operation: "none", "asked", "ok", "failed"

vars == <<dir, disk, helper, controller, answer>>

None == [op |-> "none", at |-> "none"]
Absent == [there |-> FALSE, project |-> FALSE, meta |-> "none", files |-> {}, limits |-> FALSE]

Init ==
  /\ dir = Absent /\ disk = Absent /\ helper = None /\ controller = "up"
  /\ answer = [o \in {"allocate", "cleanup"} |-> "none"]

---------------------------------------------------------------------------
(* The controller.                                                         *)

\* The artifact on disk is not the qualified one: nothing is spawned.
Unqualified(o) == answer' = [answer EXCEPT ![o] = "failed"] /\ UNCHANGED helper

\* The process is registered before it is spawned.
Invoke(o) ==
  /\ controller = "up" /\ answer[o] = "none"
  /\ \/ Unqualified(o)
     \/ answer' = [answer EXCEPT ![o] = "asked"] /\ helper' = [op |-> o, at |-> "check"]
  /\ UNCHANGED <<dir, disk, controller>>

InvokeAllocate == Invoke("allocate")
InvokeCleanup == answer["allocate"] = "ok" /\ Invoke("cleanup")

Hears(result) ==
  answer' = IF controller = "up" THEN [answer EXCEPT ![helper.op] = result] ELSE answer

\* A call fails and the helper says so, or it is killed at its timeout.
Fails ==
  /\ helper # None /\ helper' = None /\ Hears("failed")
  /\ UNCHANGED <<dir, disk, controller>>

\* The run writes below the directory.
AgentWrites ==
  /\ answer["allocate"] = "ok" /\ answer["cleanup"] = "none" /\ controller = "up"
  /\ \E f \in Files \ dir.files : dir' = [dir EXCEPT !.files = @ \union {f}]
  /\ UNCHANGED <<disk, helper, controller, answer>>

---------------------------------------------------------------------------

At(o, step) == helper = [op |-> o, at |-> step]
Then(step) == helper' = [helper EXCEPT !.at = step]
Volatile == UNCHANGED <<disk, controller, answer>>

\* qualify, the absence of the directory and of any use of the project.
Check == At("allocate", "check") /\ ~dir.there /\ ~dir.limits /\ Then("mkdir") /\ Volatile /\ UNCHANGED dir

MakeDirectory ==
  /\ At("allocate", "mkdir") /\ Then("project") /\ dir' = [dir EXCEPT !.there = TRUE] /\ Volatile

SetProject ==
  /\ At("allocate", "project") /\ Then("limits") /\ dir' = [dir EXCEPT !.project = TRUE] /\ Volatile

SetQuota ==
  /\ At("allocate", "limits") /\ Then("create") /\ dir' = [dir EXCEPT !.limits = TRUE] /\ Volatile

\* write_metadata: created, written and synchronised, then its directory.
CreateMetadata ==
  /\ At("allocate", "create") /\ Then("write") /\ dir' = [dir EXCEPT !.meta = "partial"] /\ Volatile

WriteMetadata ==
  /\ At("allocate", "write") /\ Then("sync") /\ dir' = [dir EXCEPT !.meta = "whole"] /\ Volatile

SyncMetadata ==
  /\ At("allocate", "sync") /\ Then("root")
  /\ disk' = [disk EXCEPT !.project = dir.project, !.meta = dir.meta]
  /\ UNCHANGED <<dir, controller, answer>>

\* (mutant: the root is not synchronised)
AllocatedUnsynced ==
  /\ At("allocate", "root") /\ dir.project /\ dir.limits
  /\ helper' = None /\ Hears("ok")
  /\ UNCHANGED <<dir, disk, controller>>

\* The identity is read again and the root synchronised, then the answer goes out.
Allocated ==
  /\ At("allocate", "root") /\ dir.project /\ dir.limits
  /\ disk' = [disk EXCEPT !.there = dir.there, !.limits = dir.limits]
  /\ helper' = None /\ Hears("ok")
  /\ UNCHANGED <<dir, controller>>

---------------------------------------------------------------------------

\* Nothing is removed of a directory that is not, byte for byte, the allocation's.
Ours == dir.project /\ dir.meta = "whole"

Verify ==
  /\ At("cleanup", "check") /\ dir.there /\ Ours
  /\ Then("empty") /\ Volatile /\ UNCHANGED dir

\* remove_contents: in the order of the directory, allocation.json among them.
RemoveEntry ==
  /\ At("cleanup", "empty")
  /\ \/ dir.meta # "none" /\ dir' = [dir EXCEPT !.meta = "none"]
     \/ \E f \in dir.files : dir' = [dir EXCEPT !.files = @ \ {f}]
  /\ UNCHANGED <<helper, disk, controller, answer>>

SyncContents ==
  /\ At("cleanup", "empty") /\ dir.files = {} /\ dir.meta = "none" /\ Then("rmdir")
  /\ disk' = [disk EXCEPT !.meta = "none", !.files = {}]
  /\ UNCHANGED <<dir, controller, answer>>

RemoveDirectory ==
  /\ At("cleanup", "rmdir") /\ Then("root")
  /\ dir' = [dir EXCEPT !.there = FALSE, !.project = FALSE] /\ Volatile

SyncRoot ==
  /\ At("cleanup", "root") /\ Then("limits")
  /\ disk' = [disk EXCEPT !.there = FALSE, !.project = FALSE]
  /\ UNCHANGED <<dir, controller, answer>>

\* (mutant: the limits go first)
LimitsFirst ==
  /\ helper.op = "cleanup" /\ dir.limits /\ dir' = [dir EXCEPT !.limits = FALSE]
  /\ UNCHANGED <<helper, disk, controller, answer>>

ClearQuota ==
  /\ At("cleanup", "limits") /\ Then("done")
  /\ dir' = [dir EXCEPT !.limits = FALSE] /\ Volatile

Cleaned ==
  /\ At("cleanup", "done") /\ ~dir.there /\ ~dir.limits
  /\ helper' = None /\ Hears("ok")
  /\ UNCHANGED <<dir, disk, controller>>

---------------------------------------------------------------------------

\* The backend dies; its helper is not in its process group and goes on. At the
\* next start the row is quarantined: no helper is started for it again.
Crash == controller = "up" /\ controller' = "gone" /\ UNCHANGED <<dir, disk, helper, answer>>

\* Of what was not synchronised each thing is kept or lost.
PowerLoss ==
  /\ controller' = "gone" /\ helper' = None
  /\ \E there \in {dir.there, disk.there}, project \in {dir.project, disk.project}, meta \in {dir.meta, disk.meta},
        files \in SUBSET (dir.files \union disk.files), limits \in {dir.limits, disk.limits} :
       /\ dir' = IF ~there THEN [Absent EXCEPT !.limits = limits]
                 ELSE [there |-> TRUE, project |-> project, meta |-> meta, files |-> files, limits |-> limits]
       /\ disk' = dir'
  /\ UNCHANGED answer

Next ==
  \/ InvokeAllocate \/ InvokeCleanup \/ AgentWrites \/ Fails
  \/ Check \/ MakeDirectory \/ SetProject \/ SetQuota \/ CreateMetadata \/ WriteMetadata \/ SyncMetadata \/ Allocated
  \/ Verify \/ RemoveEntry \/ SyncContents \/ RemoveDirectory \/ SyncRoot \/ ClearQuota \/ Cleaned
  \/ Crash \/ PowerLoss

Spec == Init /\ [][Next]_vars

---------------------------------------------------------------------------

Shape == [there : BOOLEAN, project : BOOLEAN, meta : {"none", "partial", "whole"},
          files : SUBSET Files, limits : BOOLEAN]
TypeOK ==
  /\ dir \in Shape /\ disk \in Shape
  /\ helper = None \/ helper.op \in {"allocate", "cleanup"}
  /\ controller \in {"up", "gone"}
  /\ \A o \in DOMAIN answer : answer[o] \in {"none", "asked", "ok", "failed"}

\* What the helper answers outlives a loss of power: an allocation is there,
\* marked and bounded, until its cleanup is asked for; a cleaned one does not come
\* back.
AnswersAreDurable ==
  /\ answer["allocate"] = "ok" /\ answer["cleanup"] = "none" => dir.there /\ Ours /\ dir.limits
  /\ answer["cleanup"] = "ok" => ~dir.there /\ ~disk.there

\* Files of a run lie nowhere but in a marked directory under its limits, whatever
\* dies at whatever call.
FilesAreBounded == dir.files # {} => dir.there /\ dir.project /\ dir.limits
=============================================================================
