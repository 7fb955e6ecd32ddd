---------------------------- MODULE MCGovernance ----------------------------
(***************************************************************************)
(* The components that decide what may happen to a task, side by side: the *)
(* directories of its runs, its approval and mode, its workflow, and the   *)
(* kernel that judges it. A behaviour moves only one of them, so that a    *)
(* single run checks each by itself.                                       *)
(***************************************************************************)
EXTENDS TaskAuthority, TLC

CONSTANTS r1, r2, w1, w2, v1, c1, c2, a1, t1, p1, p2, p3, s1, s2, b1

CONSTANTS   \* of KernelBridge
  Tasks, Ids, Subjects, GateChecks, Producers, Procs, Facts, Callers, Requests, Journals,
  MaxSpawns, MaxFaults

\* Two windows, the modes from the least to the most that is allowed.
MCModes == <<"plan", "build">>

\* Graphs of the workflow: a line of nodes, a failure that is handled, and two
\* branches that are joined, or of which one ends by itself.
Edge(s, p, d) == [src |-> s, port |-> p, dst |-> d]
Line(k) == [kind |-> k, edges |-> {Edge(i, "success", i + 1) : i \in 1..Len(k) - 1}]
Failing == [kind |-> <<"agent", "condition", "tool", "group", "join">>,
            edges |-> {Edge(1, "finally", 2), Edge(2, "true", 3), Edge(2, "false", 4),
                       Edge(3, "success", 5), Edge(4, "success", 5)}]
Parallel == [kind |-> <<"join", "agent", "check", "parallel">>,
             edges |-> {Edge(4, "success", 2), Edge(4, "success", 3), Edge(2, "success", 1), Edge(3, "success", 1)}]
Unjoined == [Parallel EXCEPT !.edges = @ \ {Edge(3, "success", 1)}]
Graphs == {Line(<<"agent", "continue", "check", "check">>), Line(<<"spec", "continue", "tool">>), Failing, Parallel, Unjoined}

\* A task with two checks at the kernel: one passed, one failed, and passed when
\* it ran again under the identity of the other producer.
MCFacts ==
     p1 :> [check |-> "c1", verifier |-> "checker", subject |-> s1, outcome |-> "pass"]
  @@ p2 :> [check |-> "c2", verifier |-> "checker", subject |-> s1, outcome |-> "fail"]
  @@ p3 :> [check |-> "c2", verifier |-> "maker", subject |-> s1, outcome |-> "pass"]

\* The backend finds the task bound, a producer dispatched, its suite frozen,
\* both checks executed once, the evidence of the first admitted, and maybe that
\* of the second and a cancellation.
Evidence(i, p) == [op |-> "evidence.admit", task |-> t1, id |-> i, proc |-> p, producer |-> "writer", subject |-> s1]
Before == {[op |-> "task.bind", task |-> t1],
           [op |-> "producer.dispatch", task |-> t1, producer |-> "writer"],
           [op |-> "suite.freeze", task |-> t1, authority |-> "verifier"], Evidence(1, p1)}
             \union {[op |-> "suite.execute", task |-> t1, proc |-> p] : p \in {p1, p2}}

Cancel == [op |-> "operation.cancel", id |-> 1]
MCJournals == {Before, Before \union {Evidence(2, p2), Cancel}}

MCRequests ==
  {[op |-> "suite.execute", task |-> t1, proc |-> p3],
   Evidence(3, p3),
   [op |-> "gate.evaluate", task |-> t1, id |-> 1, subject |-> s1],
   [op |-> "verdict.read", task |-> t1, id |-> 1],
   [op |-> "operation.reconcile", target |-> [op |-> "suite.execute", task |-> t1, proc |-> p3]]}

\* The windows are not told apart.
Symmetric == Permutations({w1, w2})

VARIABLES
  part,     \* the component that moves
  backend, admission, row, nextQuota, todo, pc, held, act, child, dir, ref, crashes,
  graph, plan, run, att, waits, outbox, anchors, outcomes, idem, exec, busy, reviews,
  sends, restarts, up, replayed,
  journal, subject, expired, state, opening, kernelRef, alive, killed, inbox, kernelOutbox, residue,
  calls, expected, faults, spawns, slips

allocationVars == <<backend, admission, row, nextQuota, todo, pc, held, act, child, dir, ref, crashes>>
workflowVars == <<graph, plan, run, att, waits, outbox, anchors, outcomes, idem, exec, busy, reviews,
                  sends, restarts, up, replayed>>
kernelVars == <<journal, subject, expired, state, opening, kernelRef, alive, killed, inbox, kernelOutbox,
                residue, calls, expected, faults, spawns, slips>>

Allocation == INSTANCE ExecutionAllocation
  WITH Runs <- {r1, r2}, LastQuota <- 2, MaxCrashes <- 2
Workflow == INSTANCE WorkflowScheduler
  WITH Calls <- {c1, c2}, Admits <- {a1},
    Owners <- <<"workflow", "external", "workflow">>, Subjects <- {"s1", "s2"},
    MaxReviews <- 2, MaxSends <- 2, MaxRestarts <- 1

Kernel == INSTANCE KernelBridge
  WITH Checks <- GateChecks, ref <- kernelRef, outbox <- kernelOutbox

\* The bounds of the instance, and the journals of backends before this one.
ASSUME KernelBounds ==
  /\ Kernel!ProcsAreAttested /\ Kernel!RequestsAreFormed /\ Kernel!BoundsAreNumbers
  /\ Kernel!JournalsAreKept

Parts == {"task", "allocation", "workflow", "kernel"}
\* Where a component has a choice of initial states, only the one that moves makes
\* it; a task that is found has a mode, one that has none yet is made by the calls.
AllInit ==
  /\ part \in Parts
  /\ Init /\ Allocation!Init /\ Workflow!Init /\ Kernel!Init
  /\ (part # "task" => task = None)
  /\ (task # None => mode # None)
  /\ (part # "allocation" => nextQuota = 1)
  /\ (part # "workflow" => graph = Failing)
  /\ (part # "kernel" => subject = (CHOOSE s \in Subjects : TRUE) /\ journal = (CHOOSE j \in Journals : TRUE))

\* One component moves, the others keep their initial states.
AllNext ==
  /\ UNCHANGED part
  /\ IF part = "task" THEN Next ELSE UNCHANGED vars
  /\ IF part = "allocation" THEN Allocation!Next ELSE UNCHANGED allocationVars
  /\ IF part = "workflow" THEN Workflow!Next ELSE UNCHANGED workflowVars
  /\ IF part = "kernel" THEN Kernel!Next ELSE UNCHANGED kernelVars

AllSpec == AllInit /\ [][AllNext]_<<part, vars, allocationVars, workflowVars, kernelVars>>

-----------------------------------------------------------------------------

\* The leases, the directories and the imports of the runs agree: a directory is
\* leased to one run, one import of a repository is under way at a time, its
\* evidence is kept, and what is left behind blocks admission, unless its failure
\* could not be recorded: then its quota stays taken until the next start
\* (allocate, cleanup and recover of execution-allocation-registry.ts).
AllocationsAgree == part = "allocation" =>
  /\ Allocation!TypeOK /\ Allocation!LeasesAgree /\ Allocation!DirectoriesLeased
  /\ Allocation!OneImport /\ Allocation!EvidenceKept /\ Allocation!BlockedByResidue

\* An approval is of what was reviewed, once, and of the task's own current
\* specification, the mode in force is the one the owners qualified last, and the
\* mode registry can be started again unless a settled transition was cancelled
\* late (approve of task-registry.ts, onStart of interaction-mode-registry.ts).
ReviewsHold == part = "task" =>
  TypeOK /\ ApprovedAsReviewed /\ ApprovalMatches /\ ModesRestart

\* Nodes run after their predecessors, a completed run is attested, and a run has
\* one outcome unless a request was executed again (executeRun and
\* finishControlRun of workflow-registry.ts).
RunsAreOrdered == part = "workflow" =>
  Workflow!TypeOK /\ Workflow!PredecessorsFirst /\ Workflow!CompletedIsAttested /\ Workflow!OneOutcome

\* A pass was earned, a verdict shown as current is what the gate would decide
\* now, and an answer is taken for its own request only (the adapter's
\* gate.evaluate and verdict.read, and kernel-bridge.ts).
VerdictsHold == part = "kernel" =>
  Kernel!TypeOK /\ Kernel!PassIsEarned /\ Kernel!CurrentStillHolds /\ Kernel!AnswersMatch

\* Steps nobody may take: what is quarantined stays, a plan or a mode is never
\* committed for a task that changed meanwhile, a settled transition takes no
\* effect and is written again only by a cancellation begun before, and a
\* continuation is executed as it was reviewed.
StepsAreGoverned ==
  /\ Allocation!QuarantineKeeps
  /\ PlannedAsAllowed /\ CommittedForCurrentTask /\ TransitionsStay
  /\ Workflow!ContinuedAsReviewed

-----------------------------------------------------------------------------

\* The workflow alone, for the run that shows what a request sent again does.
ReplaySpec == AllInit /\ part = "workflow" /\ [][AllNext]_<<part, vars, allocationVars, workflowVars, kernelVars>>

\* An unknown outcome is never replayed: a quarantined run stays quarantined,
\* whatever admission is sent again after a restart (docs/v1/governed-task-loop
\* says so of workflows; executeRun and finishControlRun of workflow-registry.ts).
UnknownOutcomeStays == Workflow!UnknownOutcomeStays
=============================================================================
