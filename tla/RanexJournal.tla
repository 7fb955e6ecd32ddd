---------------------------- MODULE RanexJournal ----------------------------
(***************************************************************************)
(* What the Python adapter of the kernel makes of a request and of its     *)
(* journal (packages/kogg-kernel/python/kogg_ranex_adapter.py).  A request *)
(* is a record named by its operation; its idempotency key is a digest of  *)
(* its whole body, so two requests have one key exactly when they are the  *)
(* same record.  The journal is the set of its facts: the only use the     *)
(* code makes of their order is the position a verdict was given at.       *)
(***************************************************************************)
EXTENDS Naturals, FiniteSets

CONSTANTS
  Tasks,            \* task bindings
  Ids,              \* identities of evidence, verdicts and cancellations
  Subjects,         \* states of the repository
  Checks,           \* the checks of a suite, which are also its gate catalogue
  Producers,        \* identities that may be bound as producers
  Procs,            \* registered check processes
  Facts             \* what the operation registry attests of each of Procs

ProcsAreAttested ==
  Facts \in [Procs -> [check : Checks, verifier : STRING, subject : Subjects,
                       outcome : {"pass", "fail", "cancelled", "timeout", "infrastructure"}]]

---------------------------------------------------------------------------
\* The requests that are well formed.

TaskBinding == [op : {"task.bind"}, task : Tasks]
ProducerBinding == [op : {"producer.dispatch"}, task : Tasks, producer : Producers]
FrozenSuite == [op : {"suite.freeze"}, task : Tasks, authority : {"verifier", "implementer"}]
CheckExecution == [op : {"suite.execute"}, task : Tasks, proc : Procs]
EvidenceManifest == [op : {"evidence.admit"}, task : Tasks, id : Ids, proc : Procs,
                     producer : Producers, subject : Subjects]
GateExpectation == [op : {"gate.evaluate"}, task : Tasks, id : Ids, subject : Subjects]
VerdictExpectation == [op : {"verdict.read"}, task : Tasks, id : Ids]
Mutations == TaskBinding \union ProducerBinding \union FrozenSuite \union CheckExecution
               \union EvidenceManifest \union GateExpectation
Reconciliation == [op : {"operation.reconcile"}, target : Mutations]
Cancellation == [op : {"operation.cancel"}, id : Ids]
Envelope == Mutations \union VerdictExpectation \union Reconciliation \union Cancellation

\* The facts that may come into a journal.
Verdict == [op : {"verdict"}, id : Ids, task : Tasks, subject : Subjects,
            rows : [Checks -> {"pass", "fail", "blocked"}],
            decision : {"pass", "fail", "blocked"}, sequence : Nat]
JournalFacts == TaskBinding \union ProducerBinding \union FrozenSuite \union CheckExecution
             \union EvidenceManifest \union Verdict \union Cancellation
             \union [op : {"operation.reconcile"}, target : Mutations, found : BOOLEAN]

---------------------------------------------------------------------------

\* The facts of the journal of one operation.
Of(journal, op) == {f \in journal : f.op = op}

\* The one suite of a task a verifier has frozen.
Frozen(journal, t) == [op |-> "suite.freeze", task |-> t, authority |-> "verifier"] \in journal

Bound(journal, t) == [op |-> "task.bind", task |-> t] \in journal

\* The evidence a gate selects for a check of a task about a subject.
Matches(journal, t, c, s) ==
  {f \in Of(journal, "evidence.admit") :
     f.task = t /\ Facts[f.proc].check = c /\ f.subject = s}

\* The result of one requirement: blocked unless exactly one evidence, whose
\* execution is in the journal, speaks for it.
Row(journal, t, c, s) ==
  IF \E f \in Matches(journal, t, c, s) :
       /\ Matches(journal, t, c, s) = {f}
       /\ [op |-> "suite.execute", task |-> f.task, proc |-> f.proc] \in journal
       /\ Facts[f.proc].outcome \in {"pass", "fail"}
    THEN Facts[(CHOOSE f \in Matches(journal, t, c, s) : TRUE).proc].outcome
    ELSE "blocked"

Rows(journal, t, s) == [c \in Checks |-> Row(journal, t, c, s)]

\* (mutant: a check without evidence does not count)
DecisionOpen(rows) == IF \E c \in Checks : rows[c] = "fail" THEN "fail" ELSE "pass"

\* The adapter lets a blocked row outweigh a failed one.
Decision(rows) ==
  IF \E c \in Checks : rows[c] = "blocked" THEN "blocked"
  ELSE IF \E c \in Checks : rows[c] = "fail" THEN "fail" ELSE "pass"

\* The guards of the operations that append a fact.
Binds(r, expired) == r.op = "task.bind" /\ r.task \notin expired

Dispatches(journal, r) == r.op = "producer.dispatch" /\ Bound(journal, r.task)

Freezes(journal, r) ==
  r.op = "suite.freeze" /\ Bound(journal, r.task) /\ r.authority = "verifier"

Executes(journal, r) ==
  /\ r.op = "suite.execute"
  /\ Frozen(journal, r.task) /\ Bound(journal, r.task)
  /\ \A f \in Of(journal, "producer.dispatch") :
       f.task = r.task => f.producer # Facts[r.proc].verifier

AdmitsEvidence(journal, r, subject) ==
  /\ r.op = "evidence.admit"
  /\ Bound(journal, r.task) /\ Frozen(journal, r.task)
  /\ [op |-> "producer.dispatch", task |-> r.task, producer |-> r.producer] \in journal
  /\ [op |-> "suite.execute", task |-> r.task, proc |-> r.proc] \in journal
  /\ r.subject = subject /\ r.subject = Facts[r.proc].subject
  /\ Facts[r.proc].outcome \in {"pass", "fail"}
  /\ \A f \in Of(journal, "evidence.admit") : f.id = r.id => f = r

Evaluates(journal, r, subject) ==
  /\ r.op = "gate.evaluate"
  /\ r.subject = subject
  /\ Bound(journal, r.task) /\ Frozen(journal, r.task)
  /\ \A f \in Of(journal, "verdict") : f.id # r.id

Admits(journal, r, subject, expired) ==
  \/ Binds(r, expired) \/ Dispatches(journal, r) \/ Freezes(journal, r) \/ Executes(journal, r)
  \/ AdmitsEvidence(journal, r, subject) \/ Evaluates(journal, r, subject)
  \/ r.op = "operation.cancel"

\* The verdict request r has had, if any.
Given(journal, r) == {f \in Of(journal, "verdict") : f.id = r.id /\ f.task = r.task /\ f.subject = r.subject}

\* (mutant: what came into the journal after the verdict does not matter)
CurrentEver(journal, v, subject, expired) == v.subject = subject /\ v.task \notin expired

\* A verdict that the journal, the repository and the binding still bear out.
Current(journal, v, subject, expired) ==
  /\ v.subject = subject
  /\ Cardinality(journal) = v.sequence + 1
  /\ v.task \notin expired

\* What was reconciled before about the same target.
Reconciled(journal, r) == {f \in Of(journal, "operation.reconcile") : f.target = r.target}

Acknowledged(journal, target) ==
  IF target.op = "gate.evaluate" THEN Given(journal, target) # {} ELSE target \in journal

\* The verdict on a request, and the fact a request would append.
Judged(journal, r) ==
  LET rows == Rows(journal, r.task, r.subject)
  IN [op |-> "verdict", id |-> r.id, task |-> r.task, subject |-> r.subject, rows |-> rows,
      decision |-> Decision(rows), sequence |-> Cardinality(journal)]

Reconciles(journal, r) ==
  [op |-> r.op, target |-> r.target, found |-> Acknowledged(journal, r.target)]

Fact(journal, r) == IF r.op = "gate.evaluate" THEN Judged(journal, r) ELSE r

Refusal == [status |-> "refused"]

\* The journal after a request, and the answer to it.
ReadVerdict(journal, r, subject, expired) ==
  LET found == {f \in Of(journal, "verdict") : f.id = r.id /\ f.task = r.task}
  IN IF found = {} THEN Refusal
     ELSE LET v == CHOOSE f \in found : TRUE
          IN [status |-> "ok", verdict |-> v, current |-> Current(journal, v, subject, expired)]

Reconcile(journal, r) ==
  LET fact == Reconciles(journal, r)
  IN CASE Reconciled(journal, r) = {} -> [journal |-> journal \union {fact},
                                    answer |-> [status |-> "ok", found |-> fact.found]]
       [] Reconciled(journal, r) = {fact} -> [journal |-> journal,
                                        answer |-> [status |-> "ok", found |-> fact.found]]
       [] OTHER -> [journal |-> journal, answer |-> Refusal]

Commit(journal, r, subject, expired) ==
  IF Admits(journal, r, subject, expired)
    THEN [journal |-> journal \union {Fact(journal, r)}, answer |-> [status |-> "ok"]]
    ELSE [journal |-> journal, answer |-> Refusal]

\* A verdict is the only answer repeated before the guards are looked at.
Evaluate(journal, r, subject, expired) ==
  IF r.subject = subject /\ Given(journal, r) # {}
    THEN [journal |-> journal, answer |-> [status |-> "ok"]]
    ELSE Commit(journal, r, subject, expired)

Dispatch(journal, r, subject, expired) ==
  CASE r.op = "verdict.read" ->
         [journal |-> journal, answer |-> ReadVerdict(journal, r, subject, expired)]
    [] r.op = "operation.reconcile" -> Reconcile(journal, r)
    [] r.op = "gate.evaluate" -> Evaluate(journal, r, subject, expired)
    [] r.op = "kernel.handshake" -> [journal |-> journal, answer |-> [status |-> "ok"]]
    [] OTHER -> Commit(journal, r, subject, expired)
=============================================================================
