--------------------------- MODULE TaskRegistry ---------------------------
(* The task registry, for one task: its specifications, the approval of    *)
(* the one that is current, the admissions given under it, the reviews     *)
(* that lead to an approval, and the calls of several windows, each of     *)
(* which asks the project registry for the binding before it writes.       *)
(* Other tasks only add conflicts: they share the registry's revision.     *)
(* Source: packages/kogg-tasks/src/node/task-registry.ts.                  *)
EXTENDS Integers, FiniteSets

CONSTANTS Windows, Sessions,  \* callers, and the sessions they act in
          MaxCalls,           \* bound: calls made, and times the binding moves
          None

VARIABLES
  task,        \* the row, or None; specifications and approvals are named by the revision that made them
  frozen,      \* the specifications that are frozen
  approvals, admissions,  \* rows, never changed
  challenges,  \* reviews begun, in memory only
  binding,     \* the repository as this task knows it: held, away for now, or changed for good
  jobs,        \* the call each window is in, or None
  made

taskVars == <<task, frozen, approvals, admissions, challenges, binding, jobs, made>>

Planning == {"edit", "freeze", "successor"}
Plain    == {"revoke", "archive", "admit"}

\* No task yet, or one whose specification was frozen in an earlier life of the backend.
TaskInit ==
  /\ \/ task = None /\ frozen = {}
     \/ task = [revision |-> 2, lifecycle |-> "active", spec |-> 2, approval |-> None] /\ frozen = {2}
  /\ approvals = {} /\ admissions = {} /\ challenges = {}
  /\ binding = "held"
  /\ jobs = [w \in Windows |-> None]
  /\ made = 0

Active == task # None /\ task.lifecycle = "active"

Job(kind) == [kind |-> kind, expect |-> IF task = None THEN 0 ELSE task.revision, row |-> task, review |-> None]

\* A call begins: what it reads before its first await is kept in the job.
Begin(w, job) ==
  /\ jobs[w] = None /\ made < MaxCalls
  /\ made' = made + 1
  /\ jobs' = [jobs EXCEPT ![w] = job]
  /\ UNCHANGED <<task, frozen, approvals, admissions, challenges, binding>>

AskCreate(w) == task = None /\ Begin(w, Job("create"))

\* requirePlanningMode comes first; a call that is refused changes nothing.
AskPlanning(w, allowed) == task # None /\ allowed /\ \E k \in Planning : Begin(w, Job(k))

AskPlain(w) == task # None /\ \E k \in Plain : Begin(w, Job(k))

\* beginApprovalReview reads the task before it waits for the binding.
AskReview(w, allowed) ==
  /\ task # None /\ allowed
  /\ \E s \in Sessions : Begin(w, [Job("review") EXCEPT !.review = [id |-> made + 1, session |-> s]])

\* approve looks for the review of its challenge first.
AskApprove(w) ==
  \E r \in challenges : Begin(w, [Job("approve") EXCEPT !.review = r])

\* resolveKernelAdmission and resolveAgentAdmission, of one admission.
AskResolve(w) ==
  \E a \in admissions : Begin(w, [Job("resolve") EXCEPT !.review = a])

-----------------------------------------------------------------------------
(* The second half of a call: the binding has come, and one transaction     *)
(* checks the revision the window saw and writes.                           *)

ExpectedAny(c) == task # None
Expected(c)    == task # None /\ task.revision = c.expect

Return(w) == jobs' = [jobs EXCEPT ![w] = None]

Writes(w, kind) ==
  /\ jobs[w] # None /\ jobs[w].kind = kind
  /\ Return(w)
  /\ UNCHANGED <<binding, made>>

\* mutate: a stale revision or another binding is a conflict.
Mutates(w, kind) ==
  /\ Writes(w, kind)
  /\ Expected(jobs[w]) /\ binding = "held"

AfterNothing(t) == t.revision
After(t)        == t.revision + 1

\* insertSpec and the update beside it; a new specification has no approval.
SucceededOnly == [task EXCEPT !.revision = After(task), !.spec = After(task)]
Succeeded     == [task EXCEPT !.revision = After(task), !.spec = After(task), !.approval = None]

Create(w) ==
  /\ Writes(w, "create") /\ task = None /\ binding = "held"
  /\ task' = [revision |-> 1, lifecycle |-> "active", spec |-> 1, approval |-> None]
  /\ UNCHANGED <<frozen, approvals, admissions, challenges>>

Edit(w) ==
  /\ Mutates(w, "edit")
  /\ Active /\ task.spec \notin frozen
  /\ task' = Succeeded
  /\ UNCHANGED <<frozen, approvals, admissions, challenges>>

Freeze(w) ==
  /\ Mutates(w, "freeze")
  /\ Active /\ task.spec \notin frozen
  /\ task' = Succeeded
  /\ frozen' = frozen \cup {After(task)}
  /\ UNCHANGED <<approvals, admissions, challenges>>

CreateSuccessorDraft(w) ==
  /\ Mutates(w, "successor")
  /\ Active /\ task.spec \in frozen
  /\ task' = Succeeded
  /\ UNCHANGED <<frozen, approvals, admissions, challenges>>

\* The challenge is of the specification that was current when the review was asked for.
BeginApprovalReview(w) ==
  /\ Writes(w, "review")
  /\ LET row == jobs[w].row
     IN  /\ row.lifecycle = "active" /\ row.spec \in frozen /\ binding = "held"
         /\ challenges' = challenges \cup {[id |-> jobs[w].review.id, spec |-> row.spec, session |-> jobs[w].review.session]}
  /\ UNCHANGED <<task, frozen, approvals, admissions>>

IsFrozenOnly(c) == task.spec \in frozen
IsReviewed(c)   == task.spec \in frozen /\ task.spec = c.review.spec

\* The lifecycle is not looked at, nor is the challenge again.
Approve(w) ==
  /\ Mutates(w, "approve")
  /\ IsReviewed(jobs[w])
  /\ approvals' = approvals \cup {[id |-> After(task), spec |-> task.spec, by |-> jobs[w].review]}
  /\ task' = [task EXCEPT !.approval = After(task), !.revision = After(task)]
  /\ challenges' = challenges \ {jobs[w].review}
  /\ UNCHANGED <<frozen, admissions>>

Revoke(w) ==
  /\ Mutates(w, "revoke") /\ task.approval # None
  /\ task' = [task EXCEPT !.approval = None, !.revision = After(task)]
  /\ UNCHANGED <<frozen, approvals, admissions, challenges>>

Archive(w) ==
  /\ Mutates(w, "archive") /\ task.lifecycle # "archived"
  /\ task' = [task EXCEPT !.lifecycle = "archived", !.approval = None, !.revision = After(task)]
  /\ UNCHANGED <<frozen, approvals, admissions, challenges>>

AuthorizeAdmission(w) ==
  /\ Mutates(w, "admit") /\ task.approval # None /\ task.spec \in frozen
  /\ task' = [task EXCEPT !.revision = After(task)]
  /\ admissions' = admissions \cup {[id |-> After(task), spec |-> task.spec, approval |-> task.approval]}
  /\ UNCHANGED <<frozen, approvals, challenges>>

\* What a call finds it may not do: nothing is written.
Refused(w) ==
  /\ jobs[w] # None /\ jobs[w].kind # "resolve"
  /\ LET c == jobs[w]
     IN  CASE c.kind = "create"    -> task # None \/ binding # "held"
           [] c.kind = "review"    -> c.row.lifecycle # "active" \/ c.row.spec \notin frozen \/ binding # "held"
           [] OTHER ->
                \/ ~Expected(c) \/ binding # "held"
                \/ c.kind \in {"edit", "freeze"} /\ (~Active \/ task.spec \in frozen)
                \/ c.kind = "successor" /\ (~Active \/ task.spec \notin frozen)
                \/ c.kind = "approve" /\ ~IsReviewed(c)
                \/ c.kind = "revoke" /\ task.approval = None
                \/ c.kind = "archive" /\ ~Active
                \/ c.kind = "admit" /\ (task.approval = None \/ task.spec \notin frozen)
  /\ Return(w)
  /\ UNCHANGED <<task, frozen, approvals, admissions, challenges, binding, made>>

\* The row that was read before the binding was asked for decides.
Resolvable(c)  == c.row.lifecycle = "active" /\ c.row.approval = c.review.approval /\ c.row.spec = c.review.spec

Resolve(w) ==
  /\ jobs[w] # None /\ jobs[w].kind = "resolve"
  /\ IF Resolvable(jobs[w]) /\ binding = "held"
     THEN jobs' = [jobs EXCEPT ![w].kind = "resolved"]
     ELSE Return(w)
  /\ UNCHANGED <<task, frozen, approvals, admissions, challenges, binding, made>>

Answer(w) ==
  /\ jobs[w] # None /\ jobs[w].kind = "resolved"
  /\ Return(w)
  /\ UNCHANGED <<task, frozen, approvals, admissions, challenges, binding, made>>

-----------------------------------------------------------------------------
\* A binding revision that moved never comes back; a project that is not active may be again.
BindingMoves ==
  /\ binding # "changed" /\ made < MaxCalls
  /\ binding' \in {"held", "away", "changed"} \ {binding}
  /\ made' = made + 1
  /\ UNCHANGED <<task, frozen, approvals, admissions, challenges, jobs>>

\* A review lasts ten minutes.
ReviewExpires ==
  /\ \E r \in challenges : challenges' = challenges \ {r}
  /\ UNCHANGED <<task, frozen, approvals, admissions, binding, jobs, made>>

\* onStop and onStart: reviews and calls are gone.
Restart ==
  /\ challenges' = {} /\ jobs' = [w \in Windows |-> None]
  /\ UNCHANGED <<task, frozen, approvals, admissions, binding, made>>

Finish(w) ==
  \/ Create(w) \/ Edit(w) \/ Freeze(w) \/ CreateSuccessorDraft(w) \/ BeginApprovalReview(w)
  \/ Approve(w) \/ Revoke(w) \/ Archive(w) \/ AuthorizeAdmission(w)
  \/ Refused(w) \/ Resolve(w) \/ Answer(w)

-----------------------------------------------------------------------------
TaskTypeOK ==
  /\ task # None =>
       /\ task.revision \in Nat /\ task.spec \in 1..task.revision
       /\ task.lifecycle \in {"active", "archived"} /\ task.approval \in 1..task.revision \cup {None}
  /\ \A a \in approvals : task # None /\ a.id <= task.revision
  /\ \A a, b \in approvals : a.id = b.id => a = b

(* The approval on the row is of the specification that is current, and    *)
(* that one is frozen: what assertIntegrity asks for before it starts.     *)
ApprovalMatches ==
  task # None /\ task.approval # None =>
    /\ task.spec \in frozen
    /\ \E a \in approvals : a.id = task.approval /\ a.spec = task.spec

(* What was approved is what the session of the challenge was shown, and a *)
(* challenge is used for one approval, whoever else was using it too.      *)
ApprovedAsReviewed ==
  /\ \A a \in approvals : a.spec = a.by.spec
  /\ \A a, b \in approvals : a.by = b.by => a = b
=============================================================================
