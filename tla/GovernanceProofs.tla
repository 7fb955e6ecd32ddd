-------------------------- MODULE GovernanceProofs --------------------------
(***************************************************************************)
(* Theorems about the components that decide what may happen to a task:    *)
(* tasks and modes, for any windows, sessions, modes and bounds; from the  *)
(* proofs about them, the allocation and the workflows in the composition; *)
(* and the kernel that judges what was done, with its journal and pipes.   *)
(***************************************************************************)
EXTENDS MCGovernance, FiniteSetTheorems, TLAPS

------------------------------------------------------------------------------
(* The task registry *)

TaskRows == [revision : Nat, lifecycle : {"active", "archived"}, spec : Nat, approval : Nat \cup {None}]
Kinds == Planning \cup Plain \cup {"create", "review", "approve", "resolve", "resolved"}
Asked == [id : Nat, session : Sessions]
Shown == [id : Nat, spec : Nat, session : Sessions]
Admitted == [id : Nat, spec : Nat, approval : Nat \cup {None}]
JobRows == [kind : Kinds, expect : Nat, row : TaskRows \cup {None},
            review : {None} \cup Asked \cup Shown \cup Admitted]

RowsTyped ==
  /\ task \in TaskRows \cup {None} /\ frozen \subseteq Nat
  /\ approvals \subseteq [id : Nat, spec : Nat, by : Shown]
  /\ admissions \subseteq Admitted /\ challenges \subseteq Shown
  /\ made \in Nat /\ jobs \in [Windows -> JobRows \cup {None}]

\* What a call read is of a revision the task had, and of the one it has now
\* only if nothing was written since.
JobReads(c) ==
  /\ c.kind = "review" => c.review \in Asked /\ c.review.id <= made /\ c.row # None
  /\ c.kind = "approve" => c.review \in Shown /\ c.review.id <= made
  /\ c.kind = "resolve" => c.review \in Admitted
  /\ c.kind \in Planning => c.row # None
  /\ c.kind \in Planning \cup {"approve", "review"} => task # None /\ c.expect <= task.revision
  /\ c.kind \in Planning /\ c.expect = task.revision => c.row = task

\* The review a call will begin has a number nobody else has.
ReviewIsNew(w) ==
  LET n == jobs[w].review.id
  IN jobs[w] # None /\ jobs[w].kind = "review" =>
       /\ \A r \in challenges : r.id # n
       /\ \A a \in approvals : a.by.id # n
       /\ \A v \in Windows : v # w /\ jobs[v] # None =>
            /\ jobs[v].kind = "review" => jobs[v].review.id # n
            /\ jobs[v].kind = "approve" => jobs[v].review.id # n

\* A review is good for one approval: those who still hold it are stale by then.
ReviewsOnce ==
  /\ \A a \in approvals : a.by.id <= made /\ a.by \notin challenges
  /\ \A r \in challenges : r.id <= made /\ task # None
  /\ \A w \in Windows : jobs[w] # None /\ jobs[w].kind = "approve" =>
       \A a \in approvals : a.by = jobs[w].review => a.id > jobs[w].expect

TaskInv ==
  /\ RowsTyped /\ TaskTypeOK /\ ApprovalMatches /\ ApprovedAsReviewed /\ ReviewsOnce
  /\ \A w \in Windows : jobs[w] # None => JobReads(jobs[w])
  /\ \A w \in Windows : ReviewIsNew(w)

LEMMA BeginTyped ==
  ASSUME TaskInv, NEW w \in Windows, NEW job \in JobRows, Begin(w, job)
  PROVE  RowsTyped' /\ TaskTypeOK' /\ ApprovalMatches' /\ ApprovedAsReviewed'
  BY DEF TaskInv, RowsTyped, TaskTypeOK, ApprovalMatches, ApprovedAsReviewed, Begin

LEMMA BeginKeeps ==
  ASSUME TaskInv, NEW w \in Windows, NEW job \in JobRows, Begin(w, job), JobReads(job)',
         job.kind = "review" => job.review.id = made + 1,
         job.kind = "approve" => job.review \in challenges
  PROVE  TaskInv'
<1> USE DEF TaskInv
<1>1. RowsTyped' /\ TaskTypeOK' /\ ApprovalMatches' /\ ApprovedAsReviewed'
  BY BeginTyped
<1>2. /\ made' = made + 1 /\ made \in Nat /\ UNCHANGED <<task, approvals, challenges>>
      /\ jobs' \in [Windows -> JobRows \cup {None}] /\ jobs'[w] = job /\ jobs[w] = None
      /\ \A v \in Windows : v # w => jobs'[v] = jobs[v]
  BY <1>1 DEF RowsTyped, Begin
<1>3. ASSUME NEW v \in Windows, jobs'[v] # None PROVE JobReads(jobs[v])'
  <2>1. CASE v = w
    BY <1>2, <2>1 DEF JobReads
  <2>2. CASE v # w
    <3>1. JobReads(jobs[v]) /\ jobs'[v] = jobs[v] /\ jobs[v] \in JobRows
      BY <1>2, <1>3, <2>2 DEF RowsTyped
    <3>2. jobs[v].kind = "review" => jobs[v].review.id \in Nat
      BY <3>1 DEF JobReads, Asked
    <3>3. jobs[v].kind = "approve" => jobs[v].review.id \in Nat
      BY <3>1 DEF JobReads, Shown
    <3> QED
      BY <1>2, <3>1, <3>2, <3>3 DEF JobReads
  <2> QED
    BY <2>1, <2>2
<1>4. \A r \in challenges : r.id \in Nat /\ r.id =< made
  BY DEF RowsTyped, ReviewsOnce, Shown
<1>5. \A a \in approvals : a.by.id \in Nat /\ a.by.id =< made /\ a.by \notin challenges
  BY DEF RowsTyped, ReviewsOnce, Shown
<1>6. ReviewsOnce'
  BY <1>2, <1>4, <1>5 DEF ReviewsOnce
<1>7. ASSUME NEW v \in Windows, jobs[v] # None, jobs[v].kind \in {"review", "approve"}
      PROVE  jobs[v].review.id \in Nat /\ jobs[v].review.id =< made
  BY <1>7 DEF JobReads, Asked, Shown
<1>8. ASSUME NEW v \in Windows PROVE ReviewIsNew(v)'
  <2>1. CASE v = w
    <3>1. ASSUME NEW u \in Windows, u # v, jobs[u] # None, jobs[u].kind \in {"review", "approve"}
          PROVE  jobs[u].review.id # made + 1
      BY <1>2, <1>7, <3>1
    <3>2. /\ \A r \in challenges : r.id # made + 1
          /\ \A a \in approvals : a.by.id # made + 1
      BY <1>2, <1>4, <1>5
    <3> QED
      BY <1>2, <2>1, <3>1, <3>2 DEF ReviewIsNew
  <2>2. CASE v # w
    <3> SUFFICES ASSUME jobs[v] # None, jobs[v].kind = "review"
                 PROVE  ReviewIsNew(v)'
      BY <1>2, <2>2 DEF ReviewIsNew
    <3>1. ReviewIsNew(v) /\ jobs[v].review.id \in Nat /\ jobs[v].review.id =< made
      BY <1>7
    <3>2. /\ job.kind = "review" => job.review.id # jobs[v].review.id
          /\ job.kind = "approve" => job.review.id # jobs[v].review.id
      BY <1>2, <3>1 DEF ReviewIsNew
    <3> QED
      BY <1>2, <2>2, <3>1, <3>2 DEF ReviewIsNew
  <2> QED
    BY <2>1, <2>2
<1> QED
  BY <1>1, <1>3, <1>6, <1>8

\* A step that gives no number away: calls return or get an answer, the task
\* goes on by a revision or stays, reviews are only taken away.
Advances == task' = task \/ (task' # None /\ (task # None => task'.revision = task.revision + 1))
CallsOnlyEnd == \A v \in Windows : jobs'[v] \in {jobs[v], None} \/ jobs'[v].kind = "resolved"

LEMMA CallsKeepReads ==
  ASSUME TaskInv, RowsTyped', Advances, CallsOnlyEnd, made' = made,
         NEW v \in Windows, jobs'[v] # None
  PROVE  JobReads(jobs[v])'
<1>1. CASE jobs'[v].kind = "resolved"
  BY <1>1 DEF JobReads, Planning
<1>2. CASE jobs'[v] = jobs[v]
  <2>1. JobReads(jobs[v]) /\ jobs[v] \in JobRows /\ task \in TaskRows \cup {None} /\ task' \in TaskRows \cup {None}
    BY <1>2 DEF TaskInv, RowsTyped
  <2>2. jobs[v].kind \in Planning \cup {"approve", "review"} =>
          /\ task' # None /\ jobs[v].expect =< task'.revision
          /\ jobs[v].expect = task'.revision => task' = task
    BY <2>1 DEF JobReads, Advances, JobRows, TaskRows
  <2> QED
    BY <1>2, <2>1, <2>2 DEF JobReads
<1> QED
  BY <1>1, <1>2 DEF CallsOnlyEnd

LEMMA QuietKeeps ==
  ASSUME TaskInv, RowsTyped', TaskTypeOK', ApprovalMatches', Advances, CallsOnlyEnd,
         made' = made, challenges' \subseteq challenges, approvals' = approvals
  PROVE  TaskInv'
<1>1. \A v \in Windows : jobs'[v] # None => JobReads(jobs[v])'
  BY CallsKeepReads
<1>2. ApprovedAsReviewed' /\ ReviewsOnce'
  BY DEF TaskInv, ApprovedAsReviewed, ReviewsOnce, CallsOnlyEnd, Advances
<1>3. \A v \in Windows : ReviewIsNew(v)'
  BY DEF TaskInv, ReviewIsNew, CallsOnlyEnd
<1> QED
  BY <1>1, <1>2, <1>3 DEF TaskInv

\* A call that returns leaves the others as they were.
LEMMA Returns ==
  ASSUME TaskInv, NEW w \in Windows, Return(w)
  PROVE  jobs' \in [Windows -> JobRows \cup {None}] /\ CallsOnlyEnd
  BY DEF TaskInv, RowsTyped, Return, CallsOnlyEnd

\* A write that goes on to the next revision and keeps the approval, or drops it.
LEMMA AdvanceKeeps ==
  ASSUME TaskInv, NEW w \in Windows, Return(w), made' = made, task # None, task' \in TaskRows,
         task'.revision = task.revision + 1,
         task'.spec \in {task.spec, task.revision + 1},
         task'.approval # None => task'.approval = task.approval /\ task'.spec = task.spec,
         frozen \subseteq frozen', frozen' \subseteq Nat, admissions' \subseteq Admitted,
         challenges' = challenges, approvals' = approvals
  PROVE  TaskInv'
<1>1. task' # None /\ task \in TaskRows
  BY NoneIsNoRow DEF TaskRows, TaskInv, RowsTyped
<1>2. RowsTyped'
  BY Returns DEF TaskInv, RowsTyped
<1>3. TaskTypeOK'
  <2>1. task.revision \in Nat /\ task.spec \in 1 .. task.revision /\ task.approval \in 1 .. task.revision \cup {None}
    BY <1>1 DEF TaskInv, TaskTypeOK
  <2>2. task'.approval \in 1 .. task'.revision \cup {None} /\ task'.spec \in 1 .. task'.revision
    BY <2>1
  <2>3. \A a \in approvals : a.id \in Nat /\ a.id =< task.revision
    BY <1>1 DEF TaskInv, TaskTypeOK, RowsTyped
  <2>4. \A a, b \in approvals : a.id = b.id => a = b
    BY DEF TaskInv, TaskTypeOK
  <2> QED
    BY <1>1, <2>1, <2>2, <2>3, <2>4 DEF TaskTypeOK, TaskRows
<1>4. ApprovalMatches'
  BY <1>1 DEF TaskInv, ApprovalMatches
<1>5. Advances
  BY <1>1 DEF Advances
<1> QED
  BY <1>2, <1>3, <1>4, <1>5, Returns, QuietKeeps

LEMMA WriteKeeps ==
  ASSUME TaskInv, NEW w \in Windows,
         Edit(w) \/ Freeze(w) \/ CreateSuccessorDraft(w) \/ Revoke(w) \/ Archive(w) \/ AuthorizeAdmission(w)
  PROVE  TaskInv'
<1>1. /\ task # None /\ task \in TaskRows /\ Return(w) /\ made' = made
      /\ task.revision \in Nat /\ task.revision + 1 \in Nat
  BY DEF TaskInv, RowsTyped, TaskRows, Mutates, Expected, Writes, Edit, Freeze, CreateSuccessorDraft,
         Revoke, Archive, AuthorizeAdmission
<1>2. Succeeded \in TaskRows /\ Succeeded.revision = task.revision + 1
        /\ Succeeded.spec = task.revision + 1 /\ Succeeded.approval = None
  BY <1>1 DEF Succeeded, After, TaskRows
<1>3. CASE Edit(w) \/ CreateSuccessorDraft(w)
  <2>1. /\ task' = Succeeded /\ UNCHANGED <<frozen, approvals, admissions, challenges>>
    BY <1>3 DEF Edit, CreateSuccessorDraft
  <2> QED
    BY <1>1, <1>2, <2>1, AdvanceKeeps DEF TaskInv, RowsTyped
<1>4. CASE Freeze(w)
  <2>1. /\ task' = Succeeded /\ frozen' = frozen \cup {task.revision + 1}
        /\ UNCHANGED <<approvals, admissions, challenges>>
    BY <1>4 DEF Freeze, After
  <2> QED
    BY <1>1, <1>2, <2>1, AdvanceKeeps DEF TaskInv, RowsTyped
<1>5. CASE Revoke(w) \/ Archive(w)
  <2>1. /\ task' \in TaskRows /\ task'.revision = task.revision + 1
        /\ task'.spec = task.spec /\ task'.approval = None
    BY <1>1, <1>5 DEF Revoke, Archive, After, TaskRows
  <2>2. UNCHANGED <<frozen, approvals, admissions, challenges>>
    BY <1>5 DEF Revoke, Archive
  <2> QED
    BY <1>1, <2>1, <2>2, AdvanceKeeps DEF TaskInv, RowsTyped
<1>6. CASE AuthorizeAdmission(w)
  <2>1. /\ task' \in TaskRows /\ task'.revision = task.revision + 1
        /\ task'.spec = task.spec /\ task'.approval = task.approval
    BY <1>1, <1>6 DEF AuthorizeAdmission, After, TaskRows
  <2>2. admissions' = admissions \cup {[id |-> task.revision + 1, spec |-> task.spec, approval |-> task.approval]}
    BY <1>6 DEF AuthorizeAdmission, After
  <2>3. admissions' \subseteq Admitted
    BY <1>1, <2>2 DEF Admitted, TaskRows, TaskInv, RowsTyped
  <2>4. UNCHANGED <<frozen, approvals, challenges>>
    BY <1>6 DEF AuthorizeAdmission
  <2> QED
    BY <1>1, <2>1, <2>3, <2>4, AdvanceKeeps DEF TaskInv, RowsTyped
<1> QED
  BY <1>3, <1>4, <1>5, <1>6

\* What finds it may not write, and what only reads; a task that is made.
LEMMA AnswerKeeps ==
  ASSUME TaskInv, NEW w \in Windows, Create(w) \/ Refused(w) \/ Resolve(w) \/ Answer(w)
  PROVE  TaskInv'
<1>1. CASE Create(w)
  <2>1. /\ Return(w) /\ made' = made /\ task = None
        /\ task' = [revision |-> 1, lifecycle |-> "active", spec |-> 1, approval |-> None]
        /\ UNCHANGED <<frozen, approvals, admissions, challenges>>
    BY <1>1 DEF Create, Writes
  <2>2. task' \in TaskRows /\ task' # None /\ approvals = {}
    BY <2>1, NoneIsNoRow DEF TaskRows, TaskInv, TaskTypeOK
  <2>3. RowsTyped'
    BY <2>1, <2>2, Returns DEF TaskInv, RowsTyped
  <2>4. TaskTypeOK' /\ ApprovalMatches' /\ Advances
    BY <2>1, <2>2 DEF TaskTypeOK, ApprovalMatches, Advances
  <2> QED
    BY <2>1, <2>3, <2>4, Returns, QuietKeeps
<1>2. CASE Refused(w) \/ Resolve(w) \/ Answer(w)
  <2>1. UNCHANGED <<task, frozen, approvals, admissions, challenges, made>>
    BY <1>2 DEF Refused, Resolve, Answer
  <2>2. jobs' \in [Windows -> JobRows \cup {None}] /\ CallsOnlyEnd
    <3>1. CASE Return(w)
      BY <3>1, Returns
    <3>2. CASE jobs[w] # None /\ jobs' = [jobs EXCEPT ![w].kind = "resolved"]
      <4>1. jobs[w] \in JobRows
        BY <3>2 DEF TaskInv, RowsTyped
      <4>2. [jobs[w] EXCEPT !.kind = "resolved"] \in JobRows /\ [jobs[w] EXCEPT !.kind = "resolved"].kind = "resolved"
        BY <4>1 DEF JobRows, Kinds
      <4> QED
        BY <3>2, <4>2 DEF TaskInv, RowsTyped, CallsOnlyEnd
    <3> QED
      BY <1>2, <3>1, <3>2 DEF Refused, Resolve, Answer
  <2>3. RowsTyped' /\ TaskTypeOK' /\ ApprovalMatches' /\ Advances
    BY <2>1, <2>2 DEF TaskInv, RowsTyped, TaskTypeOK, ApprovalMatches, Advances
  <2> QED
    BY <2>1, <2>2, <2>3, QuietKeeps
<1> QED
  BY <1>1, <1>2

\* A review is begun under a number that is its own.
LEMMA ReviewKeeps ==
  ASSUME TaskInv, NEW w \in Windows, BeginApprovalReview(w)
  PROVE  TaskInv'
<1> DEFINE r == [id |-> jobs[w].review.id, spec |-> jobs[w].row.spec, session |-> jobs[w].review.session]
<1>1. /\ jobs[w] # None /\ jobs[w].kind = "review" /\ Return(w)
      /\ challenges' = challenges \cup {r}
      /\ UNCHANGED <<task, frozen, approvals, admissions, made>>
  BY DEF BeginApprovalReview, Writes
<1>2. /\ jobs[w].review \in Asked /\ jobs[w].review.id =< made /\ jobs[w].row \in TaskRows
      /\ ReviewIsNew(w) /\ task # None
  BY <1>1 DEF TaskInv, JobReads, RowsTyped, JobRows
<1>3. r \in Shown /\ r.id =< made /\ r.id = jobs[w].review.id
  BY <1>2 DEF Asked, Shown, TaskRows
<1> HIDE DEF r
<1>4. jobs' \in [Windows -> JobRows \cup {None}] /\ CallsOnlyEnd /\ jobs'[w] = None
      /\ \A v \in Windows : v # w => jobs'[v] = jobs[v]
  BY <1>1, Returns DEF Return, TaskInv, RowsTyped
<1>5. RowsTyped' /\ TaskTypeOK' /\ ApprovalMatches' /\ ApprovedAsReviewed' /\ Advances
  BY <1>1, <1>3, <1>4 DEF TaskInv, RowsTyped, TaskTypeOK, ApprovalMatches, ApprovedAsReviewed, Advances
<1>6. \A v \in Windows : jobs'[v] # None => JobReads(jobs[v])'
  BY <1>1, <1>4, <1>5, CallsKeepReads
<1>7. \A a \in approvals : a.by.id # r.id
  BY <1>1, <1>2, <1>3 DEF ReviewIsNew
<1>8. ReviewsOnce'
  BY <1>1, <1>2, <1>3, <1>4, <1>7 DEF TaskInv, ReviewsOnce
<1>9. ASSUME NEW v \in Windows, v # w, jobs[v] # None, jobs[v].kind = "review"
      PROVE  jobs[v].review.id # r.id
  BY <1>1, <1>2, <1>3, <1>9 DEF ReviewIsNew
<1>10. \A v \in Windows : ReviewIsNew(v)'
  BY <1>1, <1>4, <1>9 DEF TaskInv, ReviewIsNew
<1> QED
  BY <1>5, <1>6, <1>8, <1>10 DEF TaskInv

\* An approval takes the revision that its call expected away from all others.
LEMMA ApproveKeeps ==
  ASSUME TaskInv, NEW w \in Windows, Approve(w)
  PROVE  TaskInv'
<1> DEFINE r == jobs[w].review
           a == [id |-> task.revision + 1, spec |-> task.spec, by |-> r]
<1>1. /\ jobs[w] # None /\ jobs[w].kind = "approve" /\ Return(w)
      /\ task # None /\ task.revision = jobs[w].expect /\ task.spec \in frozen /\ task.spec = r.spec
      /\ approvals' = approvals \cup {a}
      /\ task' = [task EXCEPT !.approval = task.revision + 1, !.revision = task.revision + 1]
      /\ challenges' = challenges \ {r}
      /\ UNCHANGED <<frozen, admissions, made>>
  BY DEF Approve, Mutates, Writes, Expected, IsReviewed, After
<1>2. r \in Shown /\ r.id =< made /\ task \in TaskRows
  BY <1>1 DEF TaskInv, JobReads, RowsTyped
<1>3. /\ a \in [id : Nat, spec : Nat, by : Shown] /\ a.by = r /\ a.spec = r.spec
      /\ a.id = task.revision + 1 /\ a.spec = task.spec
  BY <1>1, <1>2 DEF TaskRows
<1>4. /\ task' \in TaskRows /\ task' # None /\ task'.revision = task.revision + 1
      /\ task'.approval = task.revision + 1 /\ task'.spec = task.spec
  <2>1. /\ task' \in TaskRows /\ task'.revision = task.revision + 1
        /\ task'.approval = task.revision + 1 /\ task'.spec = task.spec
    <3>1. task.revision \in Nat /\ task.revision + 1 \in Nat
      BY <1>2 DEF TaskRows
    <3> QED
      BY <1>1, <1>2, <3>1 DEF TaskRows
  <2> QED
    BY <2>1, NoneIsNoRow DEF TaskRows
<1> HIDE DEF a
<1>5. jobs' \in [Windows -> JobRows \cup {None}] /\ CallsOnlyEnd /\ jobs'[w] = None
      /\ \A v \in Windows : v # w => jobs'[v] = jobs[v]
  BY <1>1, Returns DEF Return, TaskInv, RowsTyped
<1>6. RowsTyped' /\ Advances
  BY <1>1, <1>3, <1>4, <1>5 DEF TaskInv, RowsTyped, Advances
<1>7. \A b \in approvals : b.id \in Nat /\ b.id =< task.revision
  BY <1>1 DEF TaskInv, TaskTypeOK, RowsTyped
<1>8. TaskTypeOK'
  <2>1. task.revision \in Nat /\ task.spec \in 1 .. task.revision
    BY <1>1, <1>2 DEF TaskInv, TaskTypeOK, TaskRows
  <2>2. \A b, c \in approvals' : b.id = c.id => b = c
    BY <1>1, <1>3, <1>7, <2>1 DEF TaskInv, TaskTypeOK
  <2>3. \A b \in approvals' : b.id =< task'.revision
    BY <1>1, <1>3, <1>4, <1>7, <2>1
  <2> QED
    BY <1>1, <1>2, <1>4, <2>1, <2>2, <2>3 DEF TaskTypeOK, TaskRows
<1>9. ApprovalMatches'
  BY <1>1, <1>3, <1>4 DEF ApprovalMatches
<1>10. \A b \in approvals : b.by # r
  BY <1>1, <1>2, <1>7 DEF TaskInv, ReviewsOnce, TaskRows
<1>11. ApprovedAsReviewed'
  BY <1>1, <1>3, <1>10 DEF TaskInv, ApprovedAsReviewed
<1>12. \A v \in Windows : jobs'[v] # None => JobReads(jobs[v])'
  BY <1>1, <1>5, <1>6, CallsKeepReads
<1>13. ReviewsOnce'
  <2>1. \A v \in Windows : jobs'[v] # None /\ jobs'[v].kind = "approve" => a.id > jobs'[v].expect
    <3> SUFFICES ASSUME NEW v \in Windows, jobs'[v] # None, jobs'[v].kind = "approve"
                 PROVE  a.id > jobs'[v].expect
      OBVIOUS
    <3>1. jobs'[v] = jobs[v] /\ jobs[v] \in JobRows /\ JobReads(jobs[v])
      BY <1>5 DEF TaskInv, RowsTyped
    <3> QED
      BY <1>2, <1>3, <3>1 DEF JobReads, JobRows, TaskRows
  <2> QED
    BY <1>1, <1>2, <1>3, <1>4, <1>5, <2>1 DEF TaskInv, ReviewsOnce
<1>14. \A v \in Windows : ReviewIsNew(v)'
  <2>1. ASSUME NEW v \in Windows, v # w, jobs[v] # None, jobs[v].kind = "review"
        PROVE  a.by.id # jobs[v].review.id
    BY <1>1, <1>3, <2>1 DEF TaskInv, ReviewIsNew
  <2> QED
    BY <1>1, <1>5, <2>1 DEF TaskInv, ReviewIsNew
<1> QED
  BY <1>6, <1>8, <1>9, <1>11, <1>12, <1>13, <1>14 DEF TaskInv

\* What happens around the calls.
LEMMA AroundKeeps ==
  ASSUME TaskInv, BindingMoves \/ ReviewExpires \/ Restart \/ UNCHANGED taskVars
  PROVE  TaskInv'
<1>1. CASE ReviewExpires \/ Restart \/ UNCHANGED taskVars
  <2>1. /\ UNCHANGED <<task, frozen, approvals, admissions, made>> /\ challenges' \subseteq challenges
        /\ jobs' = jobs \/ jobs' = [v \in Windows |-> None]
    BY <1>1 DEF ReviewExpires, Restart, taskVars
  <2>2. RowsTyped' /\ TaskTypeOK' /\ ApprovalMatches' /\ Advances /\ CallsOnlyEnd
    BY <2>1 DEF TaskInv, RowsTyped, TaskTypeOK, ApprovalMatches, Advances, CallsOnlyEnd
  <2> QED
    BY <2>1, <2>2, QuietKeeps
<1>2. CASE BindingMoves
  <2>1. made' = made + 1 /\ UNCHANGED <<task, frozen, approvals, admissions, challenges, jobs>>
    BY <1>2 DEF BindingMoves
  <2>2. RowsTyped' /\ TaskTypeOK' /\ ApprovalMatches' /\ ApprovedAsReviewed'
    BY <2>1 DEF TaskInv, RowsTyped, TaskTypeOK, ApprovalMatches, ApprovedAsReviewed
  <2>3. ReviewsOnce'
    BY <2>1 DEF TaskInv, RowsTyped, ReviewsOnce, Shown
  <2>4. ASSUME NEW v \in Windows, jobs[v] # None
        PROVE  JobReads(jobs[v])'
    <3>1. JobReads(jobs[v])
      BY <2>4 DEF TaskInv
    <3>2. jobs[v].kind \in {"review", "approve"} => jobs[v].review.id \in Nat
      BY <3>1 DEF JobReads, Asked, Shown
    <3> QED
      BY <2>1, <3>1, <3>2 DEF JobReads, TaskInv, RowsTyped
  <2>5. \A v \in Windows : ReviewIsNew(v)'
    BY <2>1 DEF TaskInv, ReviewIsNew
  <2> QED
    BY <2>1, <2>2, <2>3, <2>4, <2>5 DEF TaskInv
<1> QED
  BY <1>1, <1>2

\* A call that begins keeps what it reads.
LEMMA AskKeeps ==
  ASSUME TaskInv, NEW w \in Windows, NEW allowed \in BOOLEAN,
         AskCreate(w) \/ AskPlain(w) \/ AskApprove(w) \/ AskResolve(w)
           \/ AskPlanning(w, allowed) \/ AskReview(w, allowed)
  PROVE  TaskInv'
<1>1. \A k \in Kinds : Job(k) \in JobRows /\ Job(k).kind = k /\ Job(k).row = task
        /\ Job(k).review = None /\ (task # None => Job(k).expect = task.revision)
  BY DEF Job, JobRows, TaskInv, RowsTyped, TaskRows
<1>2. made \in Nat /\ made + 1 \in Nat /\ (task # None => task.revision \in Nat)
  BY DEF TaskInv, RowsTyped, TaskRows
<1>7. ASSUME NEW j \in JobRows, NEW x \in Asked \cup Shown \cup Admitted
      PROVE  /\ [j EXCEPT !.review = x] \in JobRows /\ [j EXCEPT !.review = x].review = x
             /\ [j EXCEPT !.review = x].kind = j.kind /\ [j EXCEPT !.review = x].row = j.row
             /\ [j EXCEPT !.review = x].expect = j.expect
  BY DEF JobRows
<1>3. CASE AskCreate(w)
  <2>1. PICK c \in JobRows : c = Job("create")
    BY <1>1 DEF Kinds
  <2>2. Begin(w, c) /\ c.kind = "create"
    BY <1>1, <1>3, <2>1 DEF AskCreate, Kinds
  <2>3. JobReads(c)'
    BY <2>2 DEF JobReads, Planning
  <2> QED
    BY <2>2, <2>3, BeginKeeps
<1>4. CASE AskPlain(w) \/ AskPlanning(w, allowed)
  <2>1. PICK k \in Planning \cup Plain : task # None /\ Begin(w, Job(k))
    BY <1>4 DEF AskPlain, AskPlanning
  <2>2. PICK c \in JobRows : c = Job(k)
    BY <1>1 DEF Kinds
  <2>3. Begin(w, c) /\ c.kind = k /\ c.row = task /\ c.expect = task.revision
    BY <1>1, <2>1, <2>2 DEF Kinds
  <2>4. task' = task /\ k \notin {"review", "approve", "resolve"}
    BY <2>3 DEF Begin, Planning, Plain
  <2>5. JobReads(c)'
    BY <1>2, <2>1, <2>3, <2>4 DEF JobReads
  <2> QED
    BY <2>3, <2>4, <2>5, BeginKeeps
<1>5. CASE AskReview(w, allowed)
  <2>1. PICK s \in Sessions : task # None /\ Begin(w, [Job("review") EXCEPT !.review = [id |-> made + 1, session |-> s]])
    BY <1>5 DEF AskReview
  <2>2. [id |-> made + 1, session |-> s] \in Asked /\ [id |-> made + 1, session |-> s].id = made + 1
    BY <1>2 DEF Asked
  <2>5. PICK c \in JobRows : c = [Job("review") EXCEPT !.review = [id |-> made + 1, session |-> s]]
    BY <1>1, <1>7, <2>2 DEF Kinds
  <2>3. /\ Begin(w, c) /\ c.kind = "review" /\ c.row = task /\ c.expect = task.revision
        /\ c.review \in Asked /\ c.review.id = made + 1
    BY <1>1, <1>7, <2>1, <2>2, <2>5 DEF Kinds
  <2>4. JobReads(c)'
    BY <1>2, <2>1, <2>3 DEF JobReads, Begin, Planning
  <2> QED
    BY <2>3, <2>4, BeginKeeps
<1>6. CASE AskApprove(w) \/ AskResolve(w)
  <2>1. PICK r \in challenges \cup admissions :
          \/ r \in challenges /\ Begin(w, [Job("approve") EXCEPT !.review = r])
          \/ r \in admissions /\ Begin(w, [Job("resolve") EXCEPT !.review = r])
    BY <1>6 DEF AskApprove, AskResolve
  <2>2. CASE r \in challenges /\ Begin(w, [Job("approve") EXCEPT !.review = r])
    <3>1. r \in Shown /\ r.id =< made /\ r.id \in Nat /\ task # None
      BY <2>2 DEF TaskInv, RowsTyped, ReviewsOnce, Shown
    <3>2. PICK c \in JobRows : c = [Job("approve") EXCEPT !.review = r]
      BY <1>1, <1>7, <3>1 DEF Kinds
    <3>3. Begin(w, c) /\ c.kind = "approve" /\ c.review = r /\ c.expect = task.revision
      BY <1>1, <1>7, <2>2, <3>1, <3>2 DEF Kinds
    <3>4. JobReads(c)'
      BY <1>2, <3>1, <3>3 DEF JobReads, Begin, Planning
    <3> QED
      BY <2>2, <3>3, <3>4, BeginKeeps
  <2>3. CASE r \in admissions /\ Begin(w, [Job("resolve") EXCEPT !.review = r])
    <3>1. r \in Admitted
      BY <2>3 DEF TaskInv, RowsTyped
    <3>2. PICK c \in JobRows : c = [Job("resolve") EXCEPT !.review = r]
      BY <1>1, <1>7, <3>1 DEF Kinds
    <3>3. Begin(w, c) /\ c.kind = "resolve" /\ c.review = r
      BY <1>1, <1>7, <2>3, <3>1, <3>2 DEF Kinds
    <3>4. JobReads(c)'
      BY <3>1, <3>3 DEF JobReads, Planning
    <3> QED
      BY <3>3, <3>4, BeginKeeps
  <2> QED
    BY <2>1, <2>2, <2>3
<1> QED
  BY <1>3, <1>4, <1>5, <1>6

------------------------------------------------------------------------------
(* The interaction modes *)

ModeRows == [selected : STRING, revision : Nat, sequence : Nat]
States == Waiting \cup {"committed", "cancelled", "expired", "refused", "quarantined"}
OwnerAnswers == {"unasked", "qualified", "unqualified"}
Transitions == [from : STRING, to : STRING, expected : Nat, by : Windows \cup {None}, state : States,
                owners : OwnerAnswers]

ModesTyped ==
  /\ mode \in ModeRows \cup {None} /\ transitions \in Seq(Transitions)
  /\ mode # None => mode.selected \in Range(Modes)
  /\ \A i \in DOMAIN transitions : transitions[i].to \in Range(Modes)
  /\ confirming \in [Windows -> [id : Nat, revision : Nat] \cup {None}]
  /\ cancelling \subseteq DOMAIN transitions

\* Only the last transition waits, and it would change the mode.
LastWaits ==
  \A i \in Pending : i = Len(transitions) /\ transitions[i].from # transitions[i].to

\* Of the transitions that changed the mode, one was the last.
LastTaken == Taken # {} => \E j \in Taken : \A k \in Taken : k <= j

\* The owners are asked about what waits, and what they qualified is on record as
\* committed until a late cancellation is written over it.
OwnersAnswered ==
  \A i \in DOMAIN transitions :
    /\ transitions[i].state \in Waiting => transitions[i].owners = "unasked"
    /\ transitions[i].owners = "qualified" =>
         transitions[i].from # transitions[i].to /\ transitions[i].state \in {"committed", "cancelled"}
    /\ transitions[i].state = "committed" /\ transitions[i].from # transitions[i].to =>
         transitions[i].owners = "qualified"

\* What the row has to say for the transitions there are.
InForce(m) == Follows(m, Taken)
RowInForce == mode # None => InForce(mode)

ModeInv ==
  /\ ModesTyped /\ LastWaits /\ LastTaken /\ OwnersAnswered /\ RowInForce
  /\ mode = None => transitions = <<>>
  /\ mode # None => task # None

LEMMA ModesAreStrings ==
  /\ Plan \in STRING /\ Plan \in Range(Modes)
  /\ Last(Modes) \in STRING /\ Last(Modes) \in Range(Modes) /\ Last(Modes) # Plan
  /\ \A i \in DOMAIN Modes : Modes[i] \in STRING /\ Modes[i] \in Range(Modes)
<1>1. 1 \in DOMAIN Modes /\ Len(Modes) \in DOMAIN Modes /\ Len(Modes) # 1
  BY ModesAreOrdered
<1>2. \A i \in DOMAIN Modes : Modes[i] \in STRING /\ Modes[i] \in Range(Modes)
  BY ModesAreOrdered DEF Range
<1>3. Last(Modes) = Modes[Len(Modes)]
  BY DEF Last
<1> QED
  BY <1>1, <1>2, <1>3, ModesAreOrdered DEF Plan

LEMMA Directions ==
  ASSUME NEW from \in Range(Modes), NEW to
  PROVE  Direction(from, to) = "preserve" <=> from = to
<1>1. CASE from = to
  <2>1. PICK i \in DOMAIN Modes : Modes[i] = from
    BY DEF Range
  <2>2. Rank(from) \in DOMAIN Modes
    BY <2>1 DEF Rank
  <2>3. ~(Rank(to) < Rank(from))
    BY <1>1, <2>2, ModesAreOrdered
  <2> QED
    BY <1>1, <2>3 DEF Direction
<1>2. CASE from # to /\ Rank(to) < Rank(from)
  BY <1>2 DEF Direction
<1>3. CASE from # to /\ ~(Rank(to) < Rank(from))
  BY <1>3 DEF Direction
<1> QED
  BY <1>1, <1>2, <1>3

LEMMA TakenFinite ==
  ASSUME transitions \in Seq(Transitions)
  PROVE  /\ Taken \subseteq 1 .. Len(transitions)
         /\ IsFiniteSet(Taken) /\ Cardinality(Taken) \in Nat /\ Cardinality(Taken) =< Len(transitions)
<1>1. Taken \subseteq 1 .. Len(transitions) /\ Len(transitions) \in Nat
  BY DEF Taken
<1>2. IsFiniteSet(1 .. Len(transitions)) /\ Cardinality(1 .. Len(transitions)) = Len(transitions)
  <2> DEFINE n == Len(transitions)
  <2>1. n \in Nat /\ 1 \in Int /\ n \in Int
    BY <1>1
  <2> HIDE DEF n
  <2>2. IsFiniteSet(1 .. n) /\ Cardinality(1 .. n) = IF 1 > n THEN 0 ELSE n - 1 + 1
    BY <2>1, FS_Interval
  <2> QED
    BY <2>1, <2>2 DEF n
<1> QED
  BY <1>1, <1>2, FS_Subset, FS_CardinalityType

\* Bringing the row up to date leaves it right, and makes it where there is none.
LEMMA ReconciledFollows ==
  ASSUME ModeInv, NEW rev \in Nat
  PROVE  /\ Reconciled(rev) \in ModeRows /\ Reconciled(rev) # None
         /\ Reconciled(rev).selected \in Range(Modes) /\ InForce(Reconciled(rev))
         /\ mode # None => Reconciled(rev).selected = mode.selected
<1>1. CASE mode = None
  <2>1. transitions = <<>>
    BY <1>1 DEF ModeInv
  <2>2. Taken = {} /\ Cardinality(Taken) = 0
    BY <2>1, FS_EmptySet DEF Taken
  <2> DEFINE m == [selected |-> Plan, revision |-> rev, sequence |-> 0]
  <2>3. Reconciled(rev) = m
    BY <1>1 DEF Reconciled
  <2>4. m \in ModeRows /\ m.selected = Plan /\ m.sequence = 0
    BY ModesAreStrings DEF ModeRows
  <2> HIDE DEF m
  <2> QED
    BY <1>1, <2>2, <2>3, <2>4, ModesAreStrings, NoneIsNoRow DEF InForce, Follows, ModeRows
<1>2. CASE mode # None
  <2>1. mode \in ModeRows /\ mode.selected \in Range(Modes) /\ InForce(mode)
    BY <1>2 DEF ModeInv, ModesTyped, RowInForce, InForce, Follows
  <2>2. /\ [mode EXCEPT !.revision = rev] \in ModeRows
        /\ [mode EXCEPT !.revision = rev].selected = mode.selected
        /\ [mode EXCEPT !.revision = rev].sequence = mode.sequence
    BY <2>1 DEF ModeRows
  <2>3. Reconciled(rev) \in {mode, [mode EXCEPT !.revision = rev]}
    BY <1>2 DEF Reconciled
  <2> QED
    BY <2>1, <2>2, <2>3, NoneIsNoRow DEF InForce, Follows, ModeRows
<1> QED
  BY <1>1, <1>2

LEMMA LastOfTaken ==
  ASSUME ModeInv, Taken # {}
  PROVE  Max(Taken) \in Taken /\ \A k \in Taken : k <= Max(Taken)
<1>1. Taken \subseteq Nat
  BY DEF Taken, ModeInv, ModesTyped
<1>2. PICK j \in Taken : \A k \in Taken : k <= j
  BY DEF ModeInv, LastTaken
<1>3. \A k \in Taken : j >= k
  BY <1>1, <1>2
<1> QED
  BY <1>1, <1>2, <1>3 DEF Max

\* The row stays right while the same transitions have taken effect.
LEMMA SameTaken ==
  ASSUME ModeInv, Taken' = Taken, \A i \in Taken : transitions'[i].to = transitions[i].to
  PROVE  /\ LastTaken'
         /\ \A m : InForce(m) => InForce(m)'
<1>1. Taken # {} => transitions'[Max(Taken)].to = transitions[Max(Taken)].to
  BY LastOfTaken
<1>2. \A m : InForce(m) =>
        /\ m.sequence = Cardinality(Taken')
        /\ m.selected = IF Taken' = {} THEN Plan ELSE transitions'[Max(Taken')].to
  BY <1>1 DEF InForce, Follows
<1> QED
  BY <1>2 DEF ModeInv, LastTaken, InForce, Follows

LEMMA RequestKeeps ==
  ASSUME TaskInv, ModeInv, task # None, task' = task,
         NEW w \in Windows, RequestTransition(w, Revision), cancelling' = cancelling
  PROVE  ModeInv'
<1>1. Revision \in Nat
  BY NoneIsNoRow DEF TaskInv, RowsTyped, TaskRows, Revision
<1>2. PICK m \in ModeRows : m = Reconciled(Revision)
  BY <1>1, ReconciledFollows
<1>3. m # None /\ m.selected \in Range(Modes) /\ InForce(m) /\ mode' = m
  BY <1>1, <1>2, ReconciledFollows DEF RequestTransition
<1>4. Pending = {}
  BY DEF RequestTransition, Ready
<1> DEFINE S(k) == CASE Direction(m.selected, Modes[k]) = "preserve" -> "committed"
                     [] Direction(m.selected, Modes[k]) = "reduce" -> "cleanup-pending"
                     [] OTHER -> "awaiting-confirmation"
           T(k) == [from |-> m.selected, to |-> Modes[k], expected |-> m.sequence, by |-> w, owners |-> "unasked", state |-> S(k)]
<1>5. PICK k \in DOMAIN Modes : transitions' = Append(transitions, T(k)) /\ UNCHANGED confirming
  BY <1>2 DEF RequestTransition
<1>6. Modes[k] \in STRING /\ Modes[k] \in Range(Modes) /\ m.selected \in STRING /\ m.sequence \in Nat
  BY ModesAreStrings DEF ModeRows
<1>7. /\ S(k) \in {"committed", "cleanup-pending", "awaiting-confirmation"}
      /\ S(k) = "committed" <=> m.selected = Modes[k]
  <2>1. Direction(m.selected, Modes[k]) = "preserve" <=> m.selected = Modes[k]
    BY <1>3, Directions
  <2> QED
    BY <2>1
<1> HIDE DEF S
<1>8. PICK t \in Transitions : t = T(k)
  BY <1>6, <1>7 DEF Transitions, States, Waiting, OwnerAnswers
<1>9. /\ t.from = m.selected /\ t.to = Modes[k] /\ t.state = S(k) /\ t.owners = "unasked"
  BY <1>8
<1> HIDE DEF T
<1> DEFINE n == Len(transitions)
<1>10. transitions \in Seq(Transitions) /\ n \in Nat /\ transitions' = Append(transitions, t)
  BY <1>5, <1>8 DEF ModeInv, ModesTyped
<1>11. /\ transitions' \in Seq(Transitions) /\ Len(transitions') = n + 1
       /\ DOMAIN transitions' = DOMAIN transitions \cup {n + 1}
       /\ DOMAIN transitions = 1 .. n /\ transitions'[n + 1] = t
       /\ \A i \in DOMAIN transitions : transitions'[i] = transitions[i]
  BY <1>10
<1> HIDE DEF n
<1>12. Taken' = Taken
  BY <1>7, <1>9, <1>11 DEF Taken
<1>13. LastTaken' /\ InForce(m)'
  BY <1>3, <1>11, <1>12, SameTaken DEF Taken
<1>14. ModesTyped'
  BY <1>3, <1>5, <1>6, <1>9, <1>11 DEF ModeInv, ModesTyped
<1>15. LastWaits'
  BY <1>4, <1>7, <1>9, <1>11 DEF LastWaits, Pending, Waiting
<1>16. RowInForce'
  BY <1>3, <1>13 DEF RowInForce
<1>17. OwnersAnswered'
  BY <1>7, <1>9, <1>11 DEF ModeInv, OwnersAnswered, Waiting
<1> QED
  BY <1>3, <1>13, <1>14, <1>15, <1>16, <1>17 DEF ModeInv

LEMMA StateOnly ==
  ASSUME NEW t \in Transitions, NEW s \in States, NEW o \in OwnerAnswers
  PROVE  /\ [t EXCEPT !.state = s, !.owners = o] \in Transitions
         /\ [t EXCEPT !.state = s, !.owners = o].state = s
         /\ [t EXCEPT !.state = s, !.owners = o].owners = o
         /\ [t EXCEPT !.state = s, !.owners = o].to = t.to
         /\ [t EXCEPT !.state = s, !.owners = o].from = t.from
  BY DEF Transitions

LEMMA TakeEffect ==
  ASSUME NEW m \in ModeRows, NEW to \in STRING
  PROVE  LET new == [m EXCEPT !.selected = to, !.sequence = @ + 1]
         IN  new \in ModeRows /\ new.selected = to /\ new.sequence = m.sequence + 1
<1> DEFINE new == [m EXCEPT !.selected = to, !.sequence = @ + 1]
<1>1. m.sequence \in Nat /\ m.revision \in Nat /\ DOMAIN m = {"selected", "revision", "sequence"}
  BY DEF ModeRows
<1>2. DOMAIN new = DOMAIN m /\ new.selected = to /\ new.revision = m.revision /\ new.sequence = m.sequence + 1
  BY <1>1
<1>3. new = [x \in {"selected", "revision", "sequence"} |-> new[x]]
  BY <1>1
<1> HIDE DEF new
<1>4. new = [selected |-> to, revision |-> m.revision, sequence |-> m.sequence + 1]
  BY <1>1, <1>2, <1>3
<1>5. m.sequence + 1 \in Nat
  BY <1>1
<1>6. [selected |-> to, revision |-> m.revision, sequence |-> m.sequence + 1] \in ModeRows
  BY <1>1, <1>5 DEF ModeRows
<1> QED
  BY <1>2, <1>4, <1>6 DEF new

\* What is settled without taking effect, or cancelled after it took effect.
LEMMA SettleKeeps ==
  ASSUME ModeInv, NEW i \in DOMAIN transitions, NEW s \in States \ (Waiting \cup {"committed"}),
         NEW o \in OwnerAnswers, o = "qualified" <=> transitions[i].owners = "qualified",
         o = "qualified" => s = "cancelled",
         transitions' = Settled(i, s, o),
         UNCHANGED mode, confirming' \in [Windows -> [id : Nat, revision : Nat] \cup {None}],
         cancelling' \subseteq DOMAIN transitions, task' = task
  PROVE  ModeInv'
<1>1. transitions \in Seq(Transitions) /\ i \in DOMAIN transitions
  BY DEF ModeInv, ModesTyped
<1>0. transitions[i] \in Transitions
  BY <1>1
<1>2. PICK t \in Transitions : t = [transitions[i] EXCEPT !.state = s, !.owners = o]
  BY <1>0, StateOnly
<1>3. t.state = s /\ t.owners = o /\ t.to = transitions[i].to /\ t.from = transitions[i].from
  BY <1>0, <1>2 DEF Transitions
<1>4. transitions' = [transitions EXCEPT ![i] = t]
  BY <1>1, <1>2 DEF Settled
<1>5. /\ transitions' \in Seq(Transitions) /\ DOMAIN transitions' = DOMAIN transitions
      /\ Len(transitions') = Len(transitions)
      /\ transitions'[i] = t /\ \A j \in DOMAIN transitions : j # i => transitions'[j] = transitions[j]
  BY <1>1, <1>4
<1>6. Taken' = Taken
  BY <1>1, <1>3, <1>5 DEF Taken
<1>7. LastTaken' /\ (\A m : InForce(m) => InForce(m)')
  BY <1>3, <1>5, <1>6, SameTaken DEF Taken
<1>8. ModesTyped'
  BY <1>1, <1>3, <1>5 DEF ModeInv, ModesTyped
<1>9. LastWaits'
  BY <1>3, <1>5 DEF ModeInv, LastWaits, Pending, Waiting
<1>10. RowInForce'
  BY <1>7 DEF ModeInv, RowInForce
<1>12. OwnersAnswered'
  BY <1>1, <1>3, <1>5 DEF ModeInv, OwnersAnswered, Waiting
<1>11. (mode = None => transitions = <<>>)' /\ (mode # None => task # None)'
  BY <1>1 DEF ModeInv
<1> QED
  BY <1>7, <1>8, <1>9, <1>10, <1>11, <1>12 DEF ModeInv

\* A transition that takes effect is the last one, and the row follows it.
LEMMA CommitKeeps ==
  ASSUME ModeInv, task' = task, NEW w \in Windows, CommitTransition(w, Revision),
         cancelling' = cancelling
  PROVE  ModeInv'
<1> DEFINE i == confirming[w].id
           n == Len(transitions)
<1>1. /\ i \in Pending /\ mode # None
      /\ mode' = [mode EXCEPT !.selected = transitions[i].to, !.sequence = @ + 1]
      /\ transitions' = Settled(i, "committed", "qualified")
      /\ confirming' = [confirming EXCEPT ![w] = None]
  BY DEF CommitTransition, Decided, StillFits, RowFits
<1>2. /\ transitions \in Seq(Transitions) /\ i \in DOMAIN transitions /\ i = n /\ n \in Nat
      /\ transitions[i].state \in Waiting /\ transitions[i].from # transitions[i].to
      /\ transitions[i].owners = "unasked"
  BY <1>1 DEF Pending, ModeInv, ModesTyped, LastWaits, OwnersAnswered
<1>0. transitions[i] \in Transitions /\ "committed" \in States
  BY <1>2 DEF States
<1>3. PICK t \in Transitions : t = [transitions[i] EXCEPT !.state = "committed", !.owners = "qualified"]
  BY <1>0, StateOnly DEF OwnerAnswers
<1>4. t.state = "committed" /\ t.owners = "qualified" /\ t.to = transitions[i].to /\ t.from = transitions[i].from
  BY <1>0, <1>3 DEF Transitions
<1>5. transitions' = [transitions EXCEPT ![i] = t]
  BY <1>1, <1>2, <1>3 DEF Settled
<1>6. /\ transitions' \in Seq(Transitions) /\ DOMAIN transitions' = DOMAIN transitions
      /\ Len(transitions') = n /\ DOMAIN transitions = 1 .. n
      /\ transitions'[i] = t /\ \A j \in DOMAIN transitions : j # i => transitions'[j] = transitions[j]
  BY <1>2, <1>5
<1>7. mode \in ModeRows /\ InForce(mode) /\ transitions[i].to \in Range(Modes)
  BY <1>1, <1>2 DEF ModeInv, ModesTyped, RowInForce, InForce, Follows
<1>8. transitions[i].to \in STRING
  BY <1>0 DEF Transitions
<1>9. mode' \in ModeRows /\ mode'.selected = transitions[i].to /\ mode'.sequence = mode.sequence + 1
  BY <1>1, <1>7, <1>8, TakeEffect
<1> HIDE DEF i, n
<1>10. Taken' = Taken \cup {i} /\ i \notin Taken /\ \A k \in Taken : k < i
  BY <1>2, <1>4, <1>6 DEF Taken, Waiting
<1>11. Cardinality(Taken') = Cardinality(Taken) + 1
  BY <1>2, <1>10, TakenFinite, FS_AddElement
<1>12. Max(Taken') = i
  <2>1. \A x \in Taken' : i >= x
    BY <1>2, <1>10 DEF Taken
  <2>2. ASSUME NEW x \in Taken', \A y \in Taken' : x >= y
        PROVE  x = i
    <3>1. x \in Nat /\ i \in Nat
      BY <1>2, <1>6 DEF Taken
    <3> QED
      BY <1>10, <2>2, <3>1
  <2>3. i \in Taken'
    BY <1>10
  <2> QED
    BY <2>1, <2>2, <2>3 DEF Max
<1>13. LastTaken'
  <2>1. \A k \in Taken : k \in Nat /\ k < i
    BY <1>10 DEF Taken, ModeInv, ModesTyped
  <2>2. i \in Taken' /\ \A k \in Taken' : k <= i
    BY <1>2, <1>10, <2>1
  <2> QED
    BY <2>2 DEF LastTaken
<1>19. InForce(mode)'
  <2>1. mode'.sequence = Cardinality(Taken')
    BY <1>7, <1>9, <1>11 DEF InForce, Follows
  <2>2. Taken' # {} /\ mode'.selected = transitions'[Max(Taken')].to
    BY <1>4, <1>6, <1>9, <1>10, <1>12
  <2> QED
    BY <2>1, <2>2 DEF InForce, Follows
<1>14. mode' # None
  BY <1>9, NoneIsNoRow DEF ModeRows
<1>15. ModesTyped'
  BY <1>1, <1>4, <1>6, <1>7, <1>9 DEF ModeInv, ModesTyped
<1>16. LastWaits'
  BY <1>2, <1>4, <1>6 DEF ModeInv, LastWaits, Pending, Waiting
<1>17. RowInForce'
  BY <1>19 DEF RowInForce, InForce, Follows
<1>18. (mode # None => task # None)'
  BY <1>1 DEF ModeInv
<1>20. OwnersAnswered'
  BY <1>2, <1>4, <1>6 DEF ModeInv, OwnersAnswered, Waiting
<1> QED
  BY <1>13, <1>14, <1>15, <1>16, <1>17, <1>18, <1>20 DEF ModeInv

\* What only brings the row up to date.
LEMMA AuthorizeKeeps ==
  ASSUME TaskInv, ModeInv, task # None, task' # None, Authorize(Revision), cancelling' = cancelling
  PROVE  ModeInv' /\ (mode # None => mode'.selected = mode.selected)
<1>1. Revision \in Nat
  BY NoneIsNoRow DEF TaskInv, RowsTyped, TaskRows, Revision
<1>2. PICK m \in ModeRows : m = Reconciled(Revision)
  BY <1>1, ReconciledFollows
<1>3. /\ m # None /\ m.selected \in Range(Modes) /\ InForce(m) /\ mode' = m
      /\ mode # None => m.selected = mode.selected
  BY <1>1, <1>2, ReconciledFollows DEF Authorize
<1>4. UNCHANGED <<transitions, confirming>>
  BY DEF Authorize
<1>5. Taken' = Taken /\ Pending' = Pending
  BY <1>4 DEF Taken, Pending
<1>6. ModesTyped' /\ LastWaits' /\ LastTaken' /\ OwnersAnswered'
  BY <1>2, <1>3, <1>4, <1>5 DEF ModeInv, ModesTyped, LastWaits, LastTaken, OwnersAnswered
<1>7. RowInForce'
  BY <1>3, <1>4, <1>5 DEF RowInForce, InForce, Follows
<1> QED
  BY <1>3, <1>6, <1>7 DEF ModeInv

\* What leaves the row and the transitions alone.
LEMMA ConfirmingKeeps ==
  ASSUME ModeInv, UNCHANGED <<mode, transitions>>, task # None => task' # None,
         confirming' \in [Windows -> [id : Nat, revision : Nat] \cup {None}],
         cancelling' \subseteq DOMAIN transitions
  PROVE  ModeInv'
<1>1. Taken' = Taken /\ Pending' = Pending
  BY DEF Taken, Pending
<1>2. ModesTyped' /\ LastWaits' /\ LastTaken' /\ OwnersAnswered' /\ RowInForce'
  BY <1>1 DEF ModeInv, ModesTyped, LastWaits, LastTaken, OwnersAnswered, RowInForce, InForce, Follows
<1> QED
  BY <1>2 DEF ModeInv

LEMMA ModeStepKeeps ==
  ASSUME TaskInv, ModeInv, NEW w \in Windows, ModeStep(w)
  PROVE  ModeInv'
<1>1. task # None /\ task' = task /\ Revision \in Nat
  BY NoneIsNoRow DEF ModeStep, Active, taskVars, TaskInv, RowsTyped, TaskRows, Revision
<1>2. /\ confirming \in [Windows -> [id : Nat, revision : Nat] \cup {None}]
      /\ cancelling \subseteq DOMAIN transitions
  BY DEF ModeInv, ModesTyped
<1>3. CASE Get(Revision) /\ cancelling' = cancelling
  BY <1>1, <1>3, AuthorizeKeeps DEF Get
<1>4. CASE RequestTransition(w, Revision) /\ cancelling' = cancelling
  BY <1>1, <1>4, RequestKeeps
<1>5. CASE ConfirmTransition(w, Revision) /\ cancelling' = cancelling
  <2>1. PICK i \in Pending : confirming' = [confirming EXCEPT ![w] = [id |-> i, revision |-> Revision]]
    BY <1>5 DEF ConfirmTransition
  <2>2. i \in Nat
    BY DEF Pending, ModeInv, ModesTyped
  <2>3. confirming' \in [Windows -> [id : Nat, revision : Nat] \cup {None}]
    BY <1>1, <1>2, <2>1, <2>2
  <2> QED
    BY <1>1, <1>2, <1>5, <2>3, ConfirmingKeeps DEF ConfirmTransition
<1>6. CASE CancelTransition
  <2>1. cancelling' \subseteq DOMAIN transitions /\ UNCHANGED <<mode, transitions, confirming>>
    BY <1>2, <1>6 DEF CancelTransition, Pending
  <2> QED
    BY <1>1, <1>2, <2>1, ConfirmingKeeps
<1>10. CASE CancelCommit
  <2>1. PICK i \in cancelling :
          /\ transitions' = Settled(i, "cancelled", transitions[i].owners)
          /\ cancelling' = cancelling \ {i}
    BY <1>10 DEF CancelCommit
  <2>2. transitions[i] \in Transitions
    BY <1>2 DEF ModeInv, ModesTyped
  <2>3. PICK o \in OwnerAnswers : o = transitions[i].owners
    BY <2>2 DEF Transitions
  <2>4. "cancelled" \in States \ (Waiting \cup {"committed"})
    BY DEF States, Waiting
  <2>5. UNCHANGED <<mode, confirming>>
    BY <1>10 DEF CancelCommit
  <2>6. i \in DOMAIN transitions /\ cancelling' \subseteq DOMAIN transitions
    BY <1>2, <2>1
  <2> QED
    BY <1>1, <1>2, <2>1, <2>3, <2>4, <2>5, <2>6, SettleKeeps
<1>7. CASE CommitTransition(w, Revision) /\ cancelling' = cancelling
  BY <1>1, <1>7, CommitKeeps
<1>8. CASE RefuseTransition(w, Revision) /\ cancelling' = cancelling
  <2>1. PICK s \in {"refused", "quarantined"} : transitions' = Settled(confirming[w].id, s, "unqualified")
    BY <1>8 DEF RefuseTransition
  <2>2. /\ confirming[w].id \in Pending /\ UNCHANGED mode
        /\ confirming' = [confirming EXCEPT ![w] = None]
    BY <1>8 DEF RefuseTransition, Decided, StillFits
  <2>3. confirming' \in [Windows -> [id : Nat, revision : Nat] \cup {None}]
    BY <1>2, <2>2
  <2>4. s \in States \ (Waiting \cup {"committed"}) /\ "unqualified" \in OwnerAnswers
    BY DEF States, Waiting, OwnerAnswers
  <2>5. confirming[w].id \in DOMAIN transitions /\ transitions[confirming[w].id].owners = "unasked"
    BY <2>2 DEF Pending, ModeInv, OwnersAnswered
  <2> QED
    BY <1>1, <1>2, <1>8, <2>1, <2>2, <2>3, <2>4, <2>5, SettleKeeps
<1>9. CASE ConfirmationFails(w, Revision) /\ cancelling' = cancelling
  <2>1. confirming' \in [Windows -> [id : Nat, revision : Nat] \cup {None}] /\ UNCHANGED <<mode, transitions>>
    BY <1>2, <1>9 DEF ConfirmationFails
  <2> QED
    BY <1>1, <1>2, <1>9, <2>1, ConfirmingKeeps
<1> QED
  BY <1>3, <1>4, <1>5, <1>6, <1>7, <1>8, <1>9, <1>10 DEF ModeStep, SelectMode, HandlePending

\* A task is never forgotten.
LEMMA TaskRemains ==
  ASSUME TaskInv, NEW w \in Windows, Finish(w)
  PROVE  task # None => task' # None
<1>1. CASE UNCHANGED task
  BY <1>1
<1>2. CASE task # None /\ (Edit(w) \/ Freeze(w) \/ CreateSuccessorDraft(w) \/ Approve(w) \/ Revoke(w)
                            \/ Archive(w) \/ AuthorizeAdmission(w))
  <2>1. task \in TaskRows /\ task.revision + 1 \in Nat
    BY <1>2 DEF TaskInv, RowsTyped, TaskRows
  <2>2. task' \in TaskRows
    BY <1>2, <2>1 DEF Edit, Freeze, CreateSuccessorDraft, Approve, Revoke, Archive, AuthorizeAdmission,
                      Succeeded, After, TaskRows
  <2> QED
    BY <2>2, NoneIsNoRow DEF TaskRows
<1> QED
  BY <1>1, <1>2 DEF Finish, Create, BeginApprovalReview, Refused, Resolve, Answer

LEMMA FinishKeeps ==
  ASSUME TaskInv, NEW w \in Windows, Finish(w)
  PROVE  TaskInv'
  BY WriteKeeps, AnswerKeeps, ReviewKeeps, ApproveKeeps DEF Finish

LEMMA NextKeeps ==
  ASSUME TaskInv, ModeInv, [Next]_vars
  PROVE  TaskInv' /\ ModeInv'
<1>0. /\ confirming \in [Windows -> [id : Nat, revision : Nat] \cup {None}]
      /\ cancelling \subseteq DOMAIN transitions
  BY DEF ModeInv, ModesTyped
<1>1. ASSUME NEW w \in Windows, TaskStep(w) PROVE TaskInv' /\ ModeInv'
  <2>1. CASE (AskCreate(w) \/ AskPlain(w) \/ AskApprove(w) \/ AskResolve(w)) /\ UNCHANGED theModes
    <3>1. TaskInv' /\ task' = task
      <4>1. TaskInv'
        BY <2>1, AskKeeps
      <4> QED
        BY <2>1, <4>1 DEF AskCreate, AskPlain, AskApprove, AskResolve, Begin
    <3> QED
      BY <1>0, <2>1, <3>1, ConfirmingKeeps DEF theModes
  <2>2. CASE /\ Active /\ Authorize(Revision) /\ cancelling' = cancelling
             /\ AskPlanning(w, Authorized(Revision)) \/ AskReview(w, Authorized(Revision))
    <3>1. PICK b \in BOOLEAN : b = Authorized(Revision)
      BY DEF Authorized, Ready
    <3>2. TaskInv'
      BY <2>2, <3>1, AskKeeps
    <3>3. task # None /\ task' = task
      BY <2>2 DEF Active, AskPlanning, AskReview, Begin
    <3> QED
      BY <2>2, <3>2, <3>3, AuthorizeKeeps
  <2>3. CASE Finish(w) /\ UNCHANGED theModes
    BY <1>0, <2>3, FinishKeeps, TaskRemains, ConfirmingKeeps DEF theModes
  <2> QED
    BY <1>1, <2>1, <2>2, <2>3 DEF TaskStep
<1>2. ASSUME NEW w \in Windows, ModeStep(w) PROVE TaskInv' /\ ModeInv'
  BY <1>2, ModeStepKeeps, AroundKeeps DEF ModeStep
<1>3. ASSUME NEW w \in Windows, CallOfArchived(w) PROVE TaskInv' /\ ModeInv'
  <2>1. UNCHANGED <<mode, transitions>> /\ UNCHANGED taskVars /\ task' = task
    BY <1>3 DEF CallOfArchived, taskVars
  <2>2. /\ confirming' \in [Windows -> [id : Nat, revision : Nat] \cup {None}]
        /\ cancelling' \subseteq DOMAIN transitions
    BY <1>0, <1>3 DEF CallOfArchived
  <2> QED
    BY <2>1, <2>2, AroundKeeps, ConfirmingKeeps
<1>4. CASE (BindingMoves \/ ReviewExpires) /\ UNCHANGED theModes
  BY <1>0, <1>4, AroundKeeps, ConfirmingKeeps DEF theModes, BindingMoves, ReviewExpires
<1>5. CASE Expire /\ UNCHANGED <<cancelling, serving, taskVars>>
  <2>1. PICK i \in Pending : transitions' = Settled(i, "expired", "unasked")
    BY <1>5 DEF Expire
  <2>2. UNCHANGED <<mode, confirming>> /\ task' = task
    BY <1>5 DEF Expire, taskVars
  <2>3. "expired" \in States \ (Waiting \cup {"committed"}) /\ "unasked" \in OwnerAnswers
    BY DEF States, Waiting, OwnerAnswers
  <2>4. i \in DOMAIN transitions /\ transitions[i].owners = "unasked"
    BY DEF Pending, ModeInv, OwnersAnswered
  <2> QED
    BY <1>0, <1>5, <2>1, <2>2, <2>3, <2>4, AroundKeeps, SettleKeeps
<1>6. CASE Restart /\ ModeRestart
  BY <1>6, AroundKeeps, ConfirmingKeeps DEF Restart, ModeRestart
<1>7. CASE UNCHANGED vars
  BY <1>0, <1>7, AroundKeeps, ConfirmingKeeps DEF vars, taskVars
<1> QED
  BY <1>1, <1>2, <1>3, <1>4, <1>5, <1>6, <1>7 DEF Next

LEMMA InitHolds ==
  ASSUME Init
  PROVE  TaskInv /\ ModeInv
<1>1. /\ \/ task = None /\ frozen = {}
         \/ task = [revision |-> 2, lifecycle |-> "active", spec |-> 2, approval |-> None] /\ frozen = {2}
      /\ approvals = {} /\ admissions = {} /\ challenges = {} /\ made = 0
      /\ jobs = [w \in Windows |-> None]
  BY DEF Init, TaskInit
<1>2. task \in TaskRows \cup {None} /\ frozen \subseteq Nat
  BY <1>1 DEF TaskRows
<1>3. RowsTyped
  BY <1>1, <1>2 DEF RowsTyped
<1>4. TaskInv
  BY <1>1, <1>3 DEF TaskInv, TaskTypeOK, ApprovalMatches, ApprovedAsReviewed, ReviewsOnce, ReviewIsNew
<1>5. CASE ModeInit
  <2>1. mode = None /\ transitions = <<>> /\ confirming = [w \in Windows |-> None] /\ cancelling = {}
    BY <1>5 DEF ModeInit
  <2>2. Taken = {} /\ Pending = {} /\ DOMAIN transitions = {} /\ transitions \in Seq(Transitions)
    BY <2>1 DEF Taken, Pending
  <2>3. confirming \in [Windows -> [id : Nat, revision : Nat] \cup {None}]
    BY <2>1
  <2> QED
    BY <1>4, <2>1, <2>2, <2>3 DEF ModeInv, ModesTyped, LastWaits, LastTaken, OwnersAnswered,
                                          RowInForce
<1>6. CASE task # None /\ ModeFound(task.revision)
  <2> DEFINE t == [from |-> Plan, to |-> Last(Modes), expected |-> 0, by |-> None,
                   state |-> "committed", owners |-> "qualified"]
             m == [selected |-> Last(Modes), revision |-> task.revision, sequence |-> 1]
  <2>1. /\ t \in Transitions /\ t.to = Last(Modes) /\ t.from # t.to /\ t.to \in Range(Modes) /\ t.state = "committed"
        /\ t.owners = "qualified"
    BY ModesAreStrings DEF Transitions, States, OwnerAnswers
  <2>2. m \in ModeRows /\ m.selected = Last(Modes) /\ m.sequence = 1
    BY <1>2, <1>6, ModesAreStrings DEF ModeRows, TaskRows
  <2>3. transitions = <<t>> /\ mode = m /\ confirming = [w \in Windows |-> None] /\ cancelling = {}
    BY <1>6 DEF ModeFound
  <2> HIDE DEF t, m
  <2>4. transitions \in Seq(Transitions) /\ DOMAIN transitions = {1} /\ transitions[1] = t
    BY <2>1, <2>3
  <2>5. Taken = {1} /\ Pending = {}
    BY <2>1, <2>4 DEF Taken, Pending, Waiting
  <2>6. Cardinality(Taken) = 1 /\ Max(Taken) = 1
    BY <2>5, FS_Singleton DEF Max
  <2>7. RowInForce /\ LastTaken /\ LastWaits /\ OwnersAnswered
    BY <2>1, <2>2, <2>3, <2>4, <2>5, <2>6
    DEF RowInForce, InForce, Follows, LastTaken, LastWaits, OwnersAnswered, Waiting
  <2>8. ModesTyped
    BY <2>1, <2>2, <2>3, <2>4 DEF ModesTyped
  <2> QED
    BY <1>4, <1>6, <2>3, <2>7, <2>8, <2>2, NoneIsNoRow DEF ModeInv, ModeRows
<1> QED
  BY <1>5, <1>6 DEF Init

\* What the invariants say of the types of the two registries.
LEMMA TypesFollow ==
  ASSUME TaskInv, ModeInv
  PROVE  TypeOK
<1>1. ASSUME mode # None PROVE mode.selected \in Range(Modes) /\ mode.sequence <= Len(transitions)
  BY <1>1, TakenFinite DEF ModeInv, ModesTyped, RowInForce, InForce, Follows
<1>2. Cardinality(Pending) <= 1
  <2>1. CASE Pending = {}
    BY <2>1, FS_EmptySet
  <2>2. CASE Pending # {}
    <3>1. Pending = {Len(transitions)}
      BY <2>2 DEF ModeInv, LastWaits
    <3>2. Cardinality(Pending) = 1
      BY <3>1, FS_Singleton
    <3> QED
      BY <3>2
  <2> QED
    BY <2>1, <2>2
<1> QED
  BY <1>1, <1>2 DEF TypeOK, TaskInv

\* The part that moves never changes, and the tasks move by their own steps or not at all.
LEMMA TasksAlone ==
  ASSUME [AllNext]_<<part, vars, allocationVars, workflowVars, kernelVars>>
  PROVE  [Next]_vars
  BY DEF AllNext

LEMMA TaskInvariants == AllSpec => [](TaskInv /\ ModeInv)
<1>1. AllInit => TaskInv /\ ModeInv
  BY InitHolds DEF AllInit
<1>2. TaskInv /\ ModeInv /\ [AllNext]_<<part, vars, allocationVars, workflowVars, kernelVars>> => (TaskInv /\ ModeInv)'
  BY TasksAlone, NextKeeps
<1> QED
  BY <1>1, <1>2, PTL DEF AllSpec

\* Where no settled transition was cancelled, what is on record is what took effect.
LEMMA RowsAccepted ==
  ASSUME ModeInv
  PROVE  RestartAccepts
<1>1. mode # None => Follows(mode, Taken)
  BY DEF ModeInv, RowInForce, InForce
<1>2. ASSUME VerifyTransitions PROVE Recorded = Taken
  BY <1>2 DEF ModeInv, OwnersAnswered, VerifyTransitions, Recorded, Taken
<1> QED
  BY <1>1, <1>2 DEF RestartAccepts, VerifyModeStates

(* However many windows, sessions, modes and bounds there are: an approval *)
(* is of what was reviewed, once, and of the task's current specification; *)
(* the mode in force is the one the owners qualified last; and the mode    *)
(* registry finds its own rows in order whenever it starts, unless a       *)
(* cancellation was written over a transition that was settled while it    *)
(* waited (approve of task-registry.ts, cancelTransition and               *)
(* verifyModeStates of interaction-mode-registry.ts).                      *)
THEOREM ReviewsAlwaysHold == AllSpec => []ReviewsHold
<1>1. TaskInv /\ ModeInv => ReviewsHold
  BY TypesFollow, RowsAccepted DEF ReviewsHold, TaskInv, ModesRestart
<1> QED
  BY <1>1, TaskInvariants, PTL

------------------------------------------------------------------------------
(* Steps of the two registries *)

\* Only the window's own call ends it with a write, at the revision it began with.
LEMMA PlannedStep ==
  ASSUME TaskInv, Next, NEW w \in Windows, jobs[w] # None, jobs[w].kind \in Planning,
         task' # task, jobs'[w] = None
  PROVE  task.revision = jobs[w].expect /\ jobs[w].row = task
<1>1. JobReads(jobs[w]) /\ jobs \in [Windows -> JobRows \cup {None}]
  BY DEF TaskInv, RowsTyped
<1>2. PICK v \in Windows : Finish(v)
  BY DEF Next, TaskStep, ModeStep, CallOfArchived, taskVars, BindingMoves, ReviewExpires, Restart,
         AskCreate, AskPlain, AskApprove, AskResolve, AskPlanning, AskReview, Begin
<1>3. PICK k \in Kinds : Writes(v, k) /\ jobs[v].kind = k
                          /\ (k \in Planning => Expected(jobs[v]))
  BY <1>2 DEF Finish, Create, Edit, Freeze, CreateSuccessorDraft, BeginApprovalReview, Approve, Revoke, Archive,
              AuthorizeAdmission, Refused, Resolve, Answer, Mutates, Writes, Kinds, Planning, Plain
<1>4. v = w
  BY <1>1, <1>3 DEF Writes, Return
<1> QED
  BY <1>1, <1>3, <1>4 DEF Expected, JobReads

\* A mode changes only by a transition that fits the row and the task.
LEMMA CommitStep ==
  ASSUME TaskInv, ModeInv, Next, mode # None, mode'.selected # mode.selected
  PROVE  mode'.revision = task.revision
<1>1. task # None
  BY DEF ModeInv
<1>2. Revision \in Nat
  BY <1>1 DEF TaskInv, RowsTyped, TaskRows, Revision
<1>3. ASSUME Authorize(Revision) PROVE FALSE
  <2>1. Reconciled(Revision).selected = mode.selected /\ mode' = Reconciled(Revision)
    BY <1>2, <1>3, ReconciledFollows DEF Authorize
  <2> QED
    BY <2>1
<1>4. ASSUME NEW w \in Windows, RequestTransition(w, Revision) PROVE FALSE
  <2>1. Reconciled(Revision).selected = mode.selected /\ mode' = Reconciled(Revision)
    BY <1>2, <1>4, ReconciledFollows DEF RequestTransition
  <2> QED
    BY <2>1
<1>5. PICK w \in Windows : CommitTransition(w, Revision)
  BY <1>3, <1>4 DEF Next, TaskStep, ModeStep, SelectMode, HandlePending, Get, ConfirmTransition, CancelTransition, CancelCommit,
       RefuseTransition, ConfirmationFails, CallOfArchived, theModes, Expire, ModeRestart
<1>6. /\ mode.revision = Revision /\ mode \in ModeRows
      /\ mode' = [mode EXCEPT !.selected = transitions[confirming[w].id].to, !.sequence = @ + 1]
  BY <1>5 DEF CommitTransition, Decided, StillFits, RowFits, ModeInv, ModesTyped
<1>7. mode'.revision = mode.revision
  BY <1>6 DEF ModeRows
<1> QED
  BY <1>6, <1>7 DEF Revision

\* Only what waits is ever changed.
LEMMA SettledStep ==
  ASSUME ModeInv, [Next]_vars
  PROVE  SettledTransitionsStay
<1>1. transitions \in Seq(Transitions)
  BY DEF ModeInv, ModesTyped
<1>2. CASE UNCHANGED transitions
  BY <1>2 DEF SettledTransitionsStay
<1>3. CASE \E i \in Pending, s \in States, o \in OwnerAnswers : transitions' = Settled(i, s, o)
  <2>1. PICK i \in Pending, s \in States, o \in OwnerAnswers : transitions' = Settled(i, s, o)
    BY <1>3
  <2>2. \A j \in DOMAIN transitions : j # i => transitions'[j] = transitions[j]
    BY <1>1, <2>1 DEF Settled
  <2>3. transitions[i].state \in Waiting
    BY DEF Pending
  <2> QED
    BY <2>2, <2>3 DEF SettledTransitionsStay
<1>4. ASSUME NEW w \in Windows, RequestTransition(w, Revision) PROVE SettledTransitionsStay
  <2>1. PICK t : transitions' = Append(transitions, t)
    BY <1>4 DEF RequestTransition
  <2>2. \A j \in DOMAIN transitions : transitions'[j] = transitions[j]
    BY <1>1, <2>1
  <2> QED
    BY <2>2 DEF SettledTransitionsStay
<1>5. ASSUME CancelCommit PROVE SettledTransitionsStay
  <2>1. PICK i \in cancelling : transitions' = Settled(i, "cancelled", transitions[i].owners)
    BY <1>5 DEF CancelCommit
  <2>2. i \in DOMAIN transitions /\ transitions[i] \in Transitions
    BY <1>1 DEF ModeInv, ModesTyped
  <2>3. \A j \in DOMAIN transitions : j # i => transitions'[j] = transitions[j]
    BY <1>1, <2>1 DEF Settled
  <2>4. transitions'[i] = [transitions[i] EXCEPT !.state = "cancelled", !.owners = transitions[i].owners]
    BY <1>1, <2>1, <2>2 DEF Settled
  <2>5. transitions'[i] = [transitions[i] EXCEPT !.state = "cancelled"]
    BY <2>2, <2>4 DEF Transitions
  <2> QED
    BY <2>1, <2>3, <2>5 DEF SettledTransitionsStay
<1>6. ASSUME NEW w \in Windows, CommitTransition(w, Revision) \/ RefuseTransition(w, Revision) PROVE <1>3!1
  BY <1>6 DEF CommitTransition, RefuseTransition, Decided, StillFits, States, OwnerAnswers
<1>7. ASSUME Expire PROVE <1>3!1
  BY <1>7 DEF Expire, States, OwnerAnswers
<1> QED
  BY <1>2, <1>3, <1>4, <1>5, <1>6, <1>7 DEF Next, TaskStep, ModeStep, SelectMode, HandlePending, Get, Authorize,
       ConfirmTransition, ConfirmationFails, CancelTransition, CallOfArchived, theModes, ModeRestart, vars

------------------------------------------------------------------------------
(* The allocation of directories, from the theorems about it *)

AP == INSTANCE ExecutionAllocationProofs WITH Runs <- {r1, r2}, LastQuota <- 2, MaxCrashes <- 2

LEMMA SameInit == Allocation!Init <=> AP!Init
  BY DEF Allocation!NoRow, AP!NoRow, Allocation!Init, AP!Init

LEMMA SameNext == Allocation!Next <=> AP!Next
  BY DEF Allocation!durable, AP!durable, Allocation!outside, AP!outside, Allocation!Legal, AP!Legal,
         Allocation!Unsettled, AP!Unsettled, Allocation!Identified, AP!Identified, Allocation!Open, AP!Open,
         Allocation!Goto, AP!Goto, Allocation!ReserveBegin, AP!ReserveBegin, Allocation!ReserveCommit,
         AP!ReserveCommit, Allocation!PrepareBegin, AP!PrepareBegin, Allocation!PrepareCommit,
         AP!PrepareCommit, Allocation!Refused, AP!Refused, Allocation!Spawn, AP!Spawn,
         Allocation!HelperMakes, AP!HelperMakes, Allocation!HelperMade, AP!HelperMade,
         Allocation!HelperFails, AP!HelperFails, Allocation!HelperEmpties, AP!HelperEmpties,
         Allocation!HelperRemoves, AP!HelperRemoves, Allocation!RecordBegin, AP!RecordBegin,
         Allocation!RecordCommit, AP!RecordCommit, Allocation!AllocateFails, AP!AllocateFails,
         Allocation!FailPhysicalAllocation, AP!FailPhysicalAllocation, Allocation!FailureLost, AP!FailureLost, Allocation!Advance, AP!Advance,
         Allocation!PrepareStage, AP!PrepareStage, Allocation!PrepareFails, AP!PrepareFails,
         Allocation!Abandon, AP!Abandon, Allocation!ActivateRead, AP!ActivateRead,
         Allocation!ActivateCommit, AP!ActivateCommit, Allocation!ActivateRefused, AP!ActivateRefused,
         Allocation!FinalizeRead, AP!FinalizeRead, Allocation!FinalizeCommit, AP!FinalizeCommit,
         Allocation!Seal, AP!Seal, Allocation!SealNoChange, AP!SealNoChange, Allocation!SealFails,
         AP!SealFails, Allocation!Stuck, AP!Stuck, Allocation!PrepareImport, AP!PrepareImport,
         Allocation!ImportRef, AP!ImportRef, Allocation!RefLands, AP!RefLands, Allocation!ImportFails,
         AP!ImportFails, Allocation!CompleteImport, AP!CompleteImport, Allocation!FailImport, AP!FailImport,
         Allocation!RecordRetention, AP!RecordRetention, Allocation!CleanupBegin, AP!CleanupBegin,
         Allocation!CleanupCommit, AP!CleanupCommit, Allocation!SpawnCleanup, AP!SpawnCleanup,
         Allocation!CompleteCleanup, AP!CompleteCleanup, Allocation!CleanupFails, AP!CleanupFails,
         Allocation!FailCleanup, AP!FailCleanup, Allocation!Crash, AP!Crash, Allocation!QuotaLeaseValid,
         AP!QuotaLeaseValid, Allocation!QuotaLeasesValid, AP!QuotaLeasesValid, Allocation!Unsafe, AP!Unsafe,
         Allocation!Start, AP!Start, Allocation!RecoverRow, AP!RecoverRow, Allocation!Recovered,
         AP!Recovered, Allocation!Controller, AP!Controller, Allocation!Process, AP!Process,
         Allocation!Next, AP!Next

LEMMA SameTypeOK == Allocation!TypeOK <=> AP!TypeOK
  BY DEF Allocation!State, AP!State, Allocation!QuotaPhase, AP!QuotaPhase, Allocation!Where, AP!Where,
         Allocation!RowType, AP!RowType, Allocation!TypeOK, AP!TypeOK

LEMMA SameLeasesAgree == Allocation!LeasesAgree <=> AP!LeasesAgree
  BY DEF Allocation!QuotaLeaseValid, AP!QuotaLeaseValid, Allocation!LeasesAgree, AP!LeasesAgree

LEMMA SameDirectoriesLeased == Allocation!DirectoriesLeased <=> AP!DirectoriesLeased
  BY DEF Allocation!DirectoriesLeased, AP!DirectoriesLeased

LEMMA SameOneImport == Allocation!OneImport <=> AP!OneImport
  BY DEF Allocation!Unsettled, AP!Unsettled, Allocation!OneImport, AP!OneImport

LEMMA SameEvidenceKept == Allocation!EvidenceKept <=> AP!EvidenceKept
  BY DEF Allocation!Unsettled, AP!Unsettled, Allocation!EvidenceKept, AP!EvidenceKept

LEMMA SameBlockedByResidue == Allocation!BlockedByResidue <=> AP!BlockedByResidue
  BY DEF Allocation!Open, AP!Open, Allocation!Unsafe, AP!Unsafe, Allocation!Unsettled, AP!Unsettled,
         Allocation!BlockedByResidue, AP!BlockedByResidue

LEMMA Bounded == AP!AllocationBounds
<1>1. IsFiniteSet({r1, r2})
  <2>1. IsFiniteSet({r1})
    BY FS_Singleton
  <2>2. {r1, r2} = {r1} \cup {r2}
    OBVIOUS
  <2> QED
    BY <2>1, <2>2, FS_AddElement
<1> QED
  BY <1>1 DEF AP!AllocationBounds, AP!IsFiniteSet, IsFiniteSet

\* The allocation moves by its own steps or not at all.
LEMMA AllocationRefined == AllSpec => AP!Spec
<1>1. AllInit => AP!Init
  BY SameInit DEF AllInit
<1>2. [AllNext]_<<part, vars, allocationVars, workflowVars, kernelVars>> => [AP!Next]_(AP!vars)
  BY SameNext DEF AllNext, allocationVars, AP!vars, AP!durable, AP!outside
<1> QED
  BY <1>1, <1>2, PTL DEF AllSpec, AP!Spec

(* Beside the other two components as alone, whatever they do: leases,     *)
(* directories and imports of the runs agree, evidence is kept, and what   *)
(* is left behind blocks admission (execution-allocation-registry.ts).     *)
THEOREM AllocationsAlwaysAgree == AllSpec => []AllocationsAgree
<1>1. AllSpec => []AP!TypeOK
  BY AllocationRefined, Bounded, AP!TypeCorrect, PTL
<1>2. AllSpec => []AP!LeasesAgree
  BY AllocationRefined, Bounded, AP!LeasesAlwaysAgree, PTL
<1>3. AllSpec => []AP!DirectoriesLeased
  BY AllocationRefined, Bounded, AP!DirectoriesStayLeased, PTL
<1>4. AllSpec => []AP!OneImport
  BY AllocationRefined, Bounded, AP!ImportsExclude, PTL
<1>5. AllSpec => []AP!EvidenceKept
  BY AllocationRefined, Bounded, AP!EvidenceStaysKept, PTL
<1>6. AllSpec => []AP!BlockedByResidue
  BY AllocationRefined, Bounded, AP!ResidueBlocks, PTL
<1>7. AP!TypeOK /\ AP!LeasesAgree /\ AP!DirectoriesLeased /\ AP!OneImport /\ AP!EvidenceKept
        /\ AP!BlockedByResidue => AllocationsAgree
  BY SameTypeOK, SameLeasesAgree, SameDirectoriesLeased, SameOneImport, SameEvidenceKept, SameBlockedByResidue
     DEF AllocationsAgree
<1> QED
  BY <1>1, <1>2, <1>3, <1>4, <1>5, <1>6, <1>7, PTL

LEMMA QuarantinesKept == AllSpec => Allocation!QuarantineKeeps
<1>1. AP!QuarantineKeeps => Allocation!QuarantineKeeps
  BY PTL DEF Allocation!QuarantineKeeps, AP!QuarantineKeeps, Allocation!vars, AP!vars, Allocation!durable, AP!durable,
             Allocation!outside, AP!outside
<1> QED
  BY <1>1, AllocationRefined, Bounded, AP!QuarantineStays, PTL

------------------------------------------------------------------------------
(* The workflow, from the theorems about it *)

WP == INSTANCE WorkflowProofs
  WITH Calls <- {c1, c2}, Admits <- {a1}, Owners <- <<"workflow", "external", "workflow">>,
       Subjects <- {"s1", "s2"}, MaxReviews <- 2, MaxSends <- 2, MaxRestarts <- 1

LEMMA SameCardinality ==
  ASSUME NEW S
  PROVE  Workflow!Cardinality(S) = WP!Cardinality(S)
  BY DEF Workflow!Cardinality, WP!Cardinality

LEMMA SameValid == Workflow!Valid <=> WP!Valid
<1>1. /\ Workflow!Nodes = WP!Nodes /\ Workflow!Joins = WP!Joins /\ Workflow!Ports = WP!Ports
      /\ \A n : Workflow!From(n) = WP!From(n) /\ Workflow!Into(n) = WP!Into(n)
  BY DEF Workflow!Nodes, WP!Nodes, Workflow!Joins, WP!Joins, Workflow!Ports, WP!Ports, Workflow!From, WP!From,
         Workflow!Into, WP!Into
<1>2. \A n : Workflow!Reach(n) = WP!Reach(n)
  BY DEF Workflow!Reach, WP!Reach, Workflow!Nodes, WP!Nodes, Workflow!Cardinality, WP!Cardinality
<1>3. Workflow!Forks = WP!Forks
  BY DEF Workflow!Forks, WP!Forks, Workflow!Nodes, WP!Nodes, Workflow!From, WP!From
<1>4. \A f : Workflow!Branches(f) = WP!Branches(f)
  BY DEF Workflow!Branches, WP!Branches, Workflow!From, WP!From
<1>5. \A f : Workflow!Nearest(f) = WP!Nearest(f)
  BY <1>1, <1>2, <1>4 DEF Workflow!Nearest, WP!Nearest
<1>6. Workflow!ForksJoin <=> WP!ForksJoin
  BY <1>1, <1>3, <1>4, <1>5, SameCardinality DEF Workflow!ForksJoin, WP!ForksJoin
<1> QED
  BY <1>1, <1>2, <1>6, SameCardinality DEF Workflow!Valid, WP!Valid

LEMMA SameWorkflowInit == Workflow!Init <=> WP!Init
<1>1. Workflow!Nodes = WP!Nodes
  BY DEF Workflow!Nodes, WP!Nodes
<1>2. Workflow!Idle = WP!Idle
  BY DEF Workflow!Idle, WP!Idle, Workflow!Nodes, WP!Nodes
<1> QED
  BY <1>1, <1>2 DEF Workflow!Init, WP!Init

LEMMA SameWorkflowNext == Workflow!Next <=> WP!Next
<1>1. \A c, q : Workflow!AdmitRun(c, q) <=> WP!AdmitRun(c, q)
  BY DEF Workflow!tables, WP!tables, Workflow!Nodes, WP!Nodes, Workflow!Idle, WP!Idle, Workflow!Free,
         WP!Free, Workflow!Awaits, WP!Awaits, Workflow!Set, WP!Set, Workflow!Sent, WP!Sent,
         Workflow!AdmitRun, WP!AdmitRun
<1>2. \A c : Workflow!RefuseAuthority(c) <=> WP!RefuseAuthority(c)
  BY DEF Workflow!history, WP!history, Workflow!Nodes, WP!Nodes, Workflow!Idle, WP!Idle, Workflow!Free,
         WP!Free, Workflow!Awaits, WP!Awaits, Workflow!Set, WP!Set, Workflow!Leave, WP!Leave,
         Workflow!RefuseAuthority, WP!RefuseAuthority
<1>3. \A c : Workflow!Resolved(c) <=> WP!Resolved(c)
  BY DEF Workflow!tables, WP!tables, Workflow!history, WP!history, Workflow!Free, WP!Free, Workflow!Awaits,
         WP!Awaits, Workflow!Set, WP!Set, Workflow!Go, WP!Go, Workflow!Resolved, WP!Resolved
<1>4. \A c : Workflow!CreateControlRun(c) <=> WP!CreateControlRun(c)
  BY DEF Workflow!history, WP!history, Workflow!Nodes, WP!Nodes, Workflow!Idle, WP!Idle, Workflow!Free,
         WP!Free, Workflow!Awaits, WP!Awaits, Workflow!Set, WP!Set, Workflow!Loaded, WP!Loaded,
         Workflow!CreateControlRun, WP!CreateControlRun
<1>5. \A c : Workflow!AdmitAgain(c) <=> WP!AdmitAgain(c)
  BY DEF Workflow!tables, WP!tables, Workflow!Nodes, WP!Nodes, Workflow!Idle, WP!Idle, Workflow!Free,
         WP!Free, Workflow!Awaits, WP!Awaits, Workflow!Set, WP!Set, Workflow!Leave, WP!Leave,
         Workflow!Loaded, WP!Loaded, Workflow!Loadable, WP!Loadable, Workflow!AdmitAgain, WP!AdmitAgain
<1>6. \A c, n : Workflow!Skip(c, n) <=> WP!Skip(c, n)
  BY DEF Workflow!history, WP!history, Workflow!Into, WP!Into, Workflow!Carries, WP!Carries, Workflow!Route,
         WP!Route, Workflow!Candidates, WP!Candidates, Workflow!Next1, WP!Next1, Workflow!Runs, WP!Runs,
         Workflow!Set, WP!Set, Workflow!Skip, WP!Skip
<1>7. \A c, n : Workflow!PauseForContinuation(c, n) <=> WP!PauseForContinuation(c, n)
  BY DEF Workflow!history, WP!history, Workflow!Into, WP!Into, Workflow!Carries, WP!Carries, Workflow!Route,
         WP!Route, Workflow!Candidates, WP!Candidates, Workflow!Next1, WP!Next1, Workflow!Runs, WP!Runs,
         Workflow!Set, WP!Set, Workflow!Receipt, WP!Receipt, Workflow!Pauses, WP!Pauses,
         Workflow!PauseForContinuation, WP!PauseForContinuation
<1>8. \A c, n : Workflow!Dispatch(c, n) <=> WP!Dispatch(c, n)
  BY DEF Workflow!history, WP!history, Workflow!Into, WP!Into, Workflow!Carries, WP!Carries, Workflow!Route,
         WP!Route, Workflow!Candidates, WP!Candidates, Workflow!Next1, WP!Next1, Workflow!Immediate,
         WP!Immediate, Workflow!Runs, WP!Runs, Workflow!Set, WP!Set, Workflow!Receipt, WP!Receipt,
         Workflow!Pauses, WP!Pauses, Workflow!Row, WP!Row, Workflow!Dispatch, WP!Dispatch
<1>9. \A c : Workflow!Stuck(c) <=> WP!Stuck(c)
  BY DEF Workflow!tables, WP!tables, Workflow!history, WP!history, Workflow!Into, WP!Into, Workflow!Carries,
         WP!Carries, Workflow!Route, WP!Route, Workflow!Candidates, WP!Candidates, Workflow!Runs, WP!Runs,
         Workflow!Set, WP!Set, Workflow!Stuck, WP!Stuck
<1>10. \A c : Workflow!ExecuteControl(c) <=> WP!ExecuteControl(c)
  BY DEF Workflow!history, WP!history, Workflow!Into, WP!Into, Workflow!From, WP!From, Workflow!Carries,
         WP!Carries, Workflow!Transition, WP!Transition, Workflow!Immediate, WP!Immediate, Workflow!Handled,
         WP!Handled, Workflow!Runs, WP!Runs, Workflow!Set, WP!Set, Workflow!Result, WP!Result,
         Workflow!ExecuteControl, WP!ExecuteControl
<1>11. \A c : Workflow!ExecuteSpecificationApproval(c) <=> WP!ExecuteSpecificationApproval(c)
  BY DEF Workflow!history, WP!history, Workflow!From, WP!From, Workflow!Handled, WP!Handled, Workflow!Free,
         WP!Free, Workflow!Awaits, WP!Awaits, Workflow!Set, WP!Set, Workflow!Result, WP!Result,
         Workflow!ExecuteSpecificationApproval, WP!ExecuteSpecificationApproval
<1>12. \A c : Workflow!ExecuteExternalNode(c) <=> WP!ExecuteExternalNode(c)
  BY DEF Workflow!history, WP!history, Workflow!From, WP!From, Workflow!Handled, WP!Handled, Workflow!Free,
         WP!Free, Workflow!Awaits, WP!Awaits, Workflow!Set, WP!Set, Workflow!Result, WP!Result,
         Workflow!ExecuteExternalNode, WP!ExecuteExternalNode
<1>13. \A c : Workflow!AgentStarts(c) <=> WP!AgentStarts(c)
  BY DEF Workflow!history, WP!history, Workflow!From, WP!From, Workflow!Handled, WP!Handled, Workflow!Free,
         WP!Free, Workflow!Awaits, WP!Awaits, Workflow!Set, WP!Set, Workflow!Go, WP!Go, Workflow!Result,
         WP!Result, Workflow!AgentStarts, WP!AgentStarts
<1>14. \A c : Workflow!AgentSeen(c) <=> WP!AgentSeen(c)
  BY DEF Workflow!history, WP!history, Workflow!From, WP!From, Workflow!Handled, WP!Handled, Workflow!Free,
         WP!Free, Workflow!Awaits, WP!Awaits, Workflow!Set, WP!Set, Workflow!Result, WP!Result,
         Workflow!Live, WP!Live, Workflow!AgentSeen, WP!AgentSeen
<1>15. \A c : Workflow!Overdue(c) <=> WP!Overdue(c)
  BY DEF Workflow!tables, WP!tables, Workflow!history, WP!history, Workflow!Free, WP!Free, Workflow!Awaits,
         WP!Awaits, Workflow!Set, WP!Set, Workflow!Go, WP!Go, Workflow!Live, WP!Live, Workflow!Overdue,
         WP!Overdue
<1>16. \A c : Workflow!CancelAttempt(c) <=> WP!CancelAttempt(c)
  BY DEF Workflow!history, WP!history, Workflow!From, WP!From, Workflow!Handled, WP!Handled, Workflow!Free,
         WP!Free, Workflow!Awaits, WP!Awaits, Workflow!Set, WP!Set, Workflow!Result, WP!Result,
         Workflow!Live, WP!Live, Workflow!CancelAttempt, WP!CancelAttempt
<1>17. \A c : Workflow!LoopEnds(c) <=> WP!LoopEnds(c)
  BY DEF Workflow!tables, WP!tables, Workflow!history, WP!history, Workflow!Nodes, WP!Nodes,
         Workflow!Checks, WP!Checks, Workflow!Runs, WP!Runs, Workflow!Set, WP!Set, Workflow!Go, WP!Go,
         Workflow!LoopEnds, WP!LoopEnds
<1>18. \A c : Workflow!StartSpine(c) <=> WP!StartSpine(c)
  BY SameCardinality DEF Workflow!tables, WP!tables, Workflow!history, WP!history, Workflow!Nodes, WP!Nodes,
         Workflow!Checks, WP!Checks, Workflow!Runs, WP!Runs, Workflow!Set, WP!Set, Workflow!Attested,
         WP!Attested, Workflow!Checked, WP!Checked, Workflow!StartSpine, WP!StartSpine
<1>19. \A c : Workflow!AnchorThrows(c) <=> WP!AnchorThrows(c)
  BY DEF Workflow!tables, WP!tables, Workflow!history, WP!history, Workflow!Nodes, WP!Nodes, Workflow!Idle,
         WP!Idle, Workflow!Runs, WP!Runs, Workflow!Set, WP!Set, Workflow!Leave, WP!Leave,
         Workflow!AnchorThrows, WP!AnchorThrows
<1>20. \A c : Workflow!WorkflowAnchor(c) <=> WP!WorkflowAnchor(c)
  BY DEF Workflow!history, WP!history, Workflow!Runs, WP!Runs, Workflow!Set, WP!Set, Workflow!NextAnchor,
         WP!NextAnchor, Workflow!WorkflowAnchor, WP!WorkflowAnchor
<1>21. \A c : Workflow!ExternalAnchor(c) <=> WP!ExternalAnchor(c)
  BY DEF Workflow!history, WP!history, Workflow!Runs, WP!Runs, Workflow!Set, WP!Set, Workflow!Row, WP!Row,
         Workflow!NextAnchor, WP!NextAnchor, Workflow!ExternalAnchor, WP!ExternalAnchor
<1>22. \A c : Workflow!AnchorEnds(c) <=> WP!AnchorEnds(c)
  BY DEF Workflow!history, WP!history, Workflow!Free, WP!Free, Workflow!Awaits, WP!Awaits, Workflow!Set,
         WP!Set, Workflow!AnchorEnds, WP!AnchorEnds
<1>23. \A c : Workflow!SpineEnds(c) <=> WP!SpineEnds(c)
  BY DEF Workflow!tables, WP!tables, Workflow!history, WP!history, Workflow!Runs, WP!Runs, Workflow!Set,
         WP!Set, Workflow!SpineEnds, WP!SpineEnds
<1>24. \A c : Workflow!FinishControlRun(c) <=> WP!FinishControlRun(c)
  BY DEF Workflow!history, WP!history, Workflow!Nodes, WP!Nodes, Workflow!Runs, WP!Runs, Workflow!Set,
         WP!Set, Workflow!Go, WP!Go, Workflow!FinishControlRun, WP!FinishControlRun
<1>25. \A c : Workflow!Answer(c) <=> WP!Answer(c)
  BY DEF Workflow!history, WP!history, Workflow!Nodes, WP!Nodes, Workflow!Idle, WP!Idle, Workflow!Runs,
         WP!Runs, Workflow!Set, WP!Set, Workflow!Leave, WP!Leave, Workflow!Answer, WP!Answer
<1>26. \A c, k : Workflow!ContinueRun(c, k) <=> WP!ContinueRun(c, k)
  BY DEF Workflow!Nodes, WP!Nodes, Workflow!Idle, WP!Idle, Workflow!Free, WP!Free, Workflow!Awaits,
         WP!Awaits, Workflow!Set, WP!Set, Workflow!Leave, WP!Leave, Workflow!Sent, WP!Sent, Workflow!Loaded,
         WP!Loaded, Workflow!Loadable, WP!Loadable, Workflow!Reviewable, WP!Reviewable, Workflow!Presents,
         WP!Presents, Workflow!ContinueRun, WP!ContinueRun
<1>27. \A i : Workflow!AgentEnds(i) <=> WP!AgentEnds(i)
  BY DEF Workflow!history, WP!history, Workflow!Free, WP!Free, Workflow!AgentEnds, WP!AgentEnds
<1>28. \A n : Workflow!BeginContinuationReview(n) <=> WP!BeginContinuationReview(n)
  BY DEF Workflow!Free, WP!Free, Workflow!Reviewable, WP!Reviewable, Workflow!BeginContinuationReview,
         WP!BeginContinuationReview
<1>29. Workflow!SaveVersion <=> WP!SaveVersion
  BY SameValid DEF Workflow!tables, WP!tables, Workflow!history, WP!history, Workflow!Free, WP!Free,
         Workflow!SaveVersion, WP!SaveVersion
<1>30. Workflow!Compile <=> WP!Compile
  BY DEF Workflow!tables, WP!tables, Workflow!history, WP!history, Workflow!Free, WP!Free, Workflow!Compile,
         WP!Compile
<1>31. Workflow!Restart <=> WP!Restart
  BY DEF Workflow!Nodes, WP!Nodes, Workflow!Checks, WP!Checks, Workflow!Idle, WP!Idle, Workflow!Reviewable,
         WP!Reviewable, Workflow!AnchorsValid, WP!AnchorsValid, Workflow!SchedulerRecordsValid,
         WP!SchedulerRecordsValid, Workflow!Active, WP!Active, Workflow!RecoverScheduler,
         WP!RecoverScheduler, Workflow!Restart, WP!Restart
<1> QED
  BY <1>1, <1>2, <1>3, <1>4, <1>5, <1>6, <1>7, <1>8, <1>9, <1>10, <1>11, <1>12, <1>13, <1>14, <1>15, <1>16,
     <1>17, <1>18, <1>19, <1>20, <1>21, <1>22, <1>23, <1>24, <1>25, <1>26, <1>27, <1>28, <1>29, <1>30, <1>31
     DEF Workflow!CallStep, WP!CallStep, Workflow!Next, WP!Next, Workflow!Nodes, WP!Nodes

LEMMA SameWorkflowTypeOK == Workflow!TypeOK <=> WP!TypeOK
  BY SameCardinality DEF Workflow!Ports, WP!Ports, Workflow!Nodes, WP!Nodes, Workflow!TypeOK, WP!TypeOK

LEMMA SameWorkflowPredecessorsFirst == Workflow!PredecessorsFirst <=> WP!PredecessorsFirst
  BY DEF Workflow!Into, WP!Into, Workflow!PredecessorsFirst, WP!PredecessorsFirst

LEMMA SameWorkflowCompletedIsAttested == Workflow!CompletedIsAttested <=> WP!CompletedIsAttested
  BY DEF Workflow!Nodes, WP!Nodes, Workflow!Checks, WP!Checks, Workflow!CompletedIsAttested,
         WP!CompletedIsAttested

LEMMA SameWorkflowOneOutcome == Workflow!OneOutcome <=> WP!OneOutcome
  BY DEF Workflow!Nodes, WP!Nodes, Workflow!Checks, WP!Checks, Workflow!Reviewable, WP!Reviewable,
         Workflow!AnchorsValid, WP!AnchorsValid, Workflow!SchedulerRecordsValid, WP!SchedulerRecordsValid,
         Workflow!OneOutcome, WP!OneOutcome

\* The graphs of the check are within the bounds of the theorems.
LEMMA Graphed == WP!WorkflowBounds
<1> DEFINE Good(g) == /\ DOMAIN g.kind \subseteq Nat \ {0} /\ IsFiniteSet(DOMAIN g.kind)
                      /\ \A e \in g.edges : e.src \in DOMAIN g.kind /\ e.dst \in DOMAIN g.kind
<1>1. \A n \in Nat : IsFiniteSet(1..n) /\ 1..n \subseteq Nat \ {0}
  BY FS_Interval
<1>2. ASSUME NEW k, NEW n \in Nat, Len(k) = n, DOMAIN k = 1..n PROVE Good(Line(k))
  <2>1. Line(k).kind = k /\ Line(k).edges = {Edge(i, "success", i + 1) : i \in 1..n - 1}
    BY <1>2 DEF Line
  <2>2. ASSUME NEW i \in 1..n - 1 PROVE Edge(i, "success", i + 1).src \in 1..n /\ Edge(i, "success", i + 1).dst \in 1..n
    BY DEF Edge
  <2> QED
    BY <1>1, <1>2, <2>1, <2>2
<1>3. Good(Line(<<"agent", "continue", "check", "check">>)) /\ Good(Line(<<"spec", "continue", "tool">>))
  <2>1. Len(<<"agent", "continue", "check", "check">>) = 4 /\ DOMAIN <<"agent", "continue", "check", "check">> = 1..4
    OBVIOUS
  <2>2. Len(<<"spec", "continue", "tool">>) = 3 /\ DOMAIN <<"spec", "continue", "tool">> = 1..3
    OBVIOUS
  <2> HIDE DEF Good
  <2> QED
    BY <1>2, <2>1, <2>2
<1>4. Good(Failing)
  <2>1. DOMAIN Failing.kind = 1..5
    BY DEF Failing
  <2>2. \A e \in Failing.edges : e.src \in 1..5 /\ e.dst \in 1..5
    BY DEF Failing, Edge
  <2> QED
    BY <1>1, <2>1, <2>2
<1>5. Good(Parallel) /\ Good(Unjoined)
  <2>1. DOMAIN Parallel.kind = 1..4 /\ Unjoined.kind = Parallel.kind
    BY DEF Parallel, Unjoined
  <2>2. \A e \in Parallel.edges : e.src \in 1..4 /\ e.dst \in 1..4
    BY DEF Parallel, Edge
  <2>3. \A e \in Unjoined.edges : e \in Parallel.edges
    BY DEF Unjoined, Parallel
  <2> QED
    BY <1>1, <2>1, <2>2, <2>3
<1>6. \A g \in Graphs : Good(g)
  <2> HIDE DEF Good
  <2> QED
    BY <1>3, <1>4, <1>5 DEF Graphs
<1>7. <<"workflow", "external", "workflow">> \in Seq({"workflow", "external"})
  OBVIOUS
<1> QED
  BY <1>6, <1>7 DEF WP!WorkflowBounds, WP!IsFiniteSet, IsFiniteSet

\* The workflow moves by its own steps or not at all.
LEMMA WorkflowRefined == AllSpec => WP!Spec
<1>1. AllInit => WP!Init
  BY SameWorkflowInit DEF AllInit
<1>2. [AllNext]_<<part, vars, allocationVars, workflowVars, kernelVars>> => [WP!Next]_(WP!vars)
  BY SameWorkflowNext DEF AllNext, workflowVars, WP!vars, WP!tables, WP!history
<1> QED
  BY <1>1, <1>2, PTL DEF AllSpec, WP!Spec

(* Beside the other two components as alone: nodes run after their         *)
(* predecessors, a completed run is attested, and a run has one outcome    *)
(* unless a request was executed again (workflow-registry.ts).             *)
THEOREM RunsAlwaysOrdered == AllSpec => []RunsAreOrdered
<1>1. AllSpec => []WP!TypeOK
  BY WorkflowRefined, Graphed, WP!WorkflowTypes, PTL
<1>2. AllSpec => []WP!PredecessorsFirst
  BY WorkflowRefined, Graphed, WP!WorkflowOrder, PTL
<1>3. AllSpec => []WP!CompletedIsAttested
  BY WorkflowRefined, Graphed, WP!WorkflowAttestation, PTL
<1>4. AllSpec => []WP!OneOutcome
  BY WorkflowRefined, Graphed, WP!WorkflowOutcome, PTL
<1>5. WP!TypeOK /\ WP!PredecessorsFirst /\ WP!CompletedIsAttested /\ WP!OneOutcome => RunsAreOrdered
  BY SameWorkflowTypeOK, SameWorkflowPredecessorsFirst, SameWorkflowCompletedIsAttested, SameWorkflowOneOutcome
     DEF RunsAreOrdered
<1> QED
  BY <1>1, <1>2, <1>3, <1>4, <1>5, PTL

LEMMA ContinuedReviewed == AllSpec => Workflow!ContinuedAsReviewed
<1>1. WP!ContinuedAsReviewed => Workflow!ContinuedAsReviewed
  BY PTL DEF Workflow!tables, WP!tables, Workflow!history, WP!history, Workflow!vars, WP!vars, Workflow!Nodes,
         WP!Nodes, Workflow!Receipt, WP!Receipt, Workflow!ContinuedAsReviewed, WP!ContinuedAsReviewed
<1> QED
  BY <1>1, WorkflowRefined, Graphed, WP!WorkflowReviews, PTL

------------------------------------------------------------------------------
(* The steps of all three *)

(* Whatever the three components do beside each other: what is quarantined *)
(* stays, a plan or a mode is never committed for a task that changed      *)
(* meanwhile, a settled transition takes no effect, and a continuation is  *)
(* executed as it was reviewed (execution-allocation-registry.ts, the task *)
(* and mode registries, continueRun of workflow-registry.ts).              *)
THEOREM StepsAlwaysGoverned == AllSpec => StepsAreGoverned
<1> DEFINE Planned == \A w \in Windows :
             jobs[w] # None /\ jobs[w].kind \in Planning /\ task' # task /\ jobs'[w] = None
               => task.revision = jobs[w].expect /\ jobs[w].row = task
           Committed == mode' # None /\ mode # None /\ mode'.selected # mode.selected => mode'.revision = task.revision
           Settle == SettledTransitionsStay
<1>1. TaskInv /\ ModeInv /\ [AllNext]_<<part, vars, allocationVars, workflowVars, kernelVars>> => [Planned]_vars
  BY TasksAlone, PlannedStep
<1>2. TaskInv /\ ModeInv /\ [AllNext]_<<part, vars, allocationVars, workflowVars, kernelVars>> => [Committed]_vars
  BY TasksAlone, CommitStep
<1>3. TaskInv /\ ModeInv /\ [AllNext]_<<part, vars, allocationVars, workflowVars, kernelVars>> => [Settle]_vars
  BY TasksAlone, SettledStep
<1> HIDE DEF Planned, Committed, Settle
<1>4. AllSpec => [][Planned]_vars /\ [][Committed]_vars /\ [][Settle]_vars
  BY <1>1, <1>2, <1>3, TaskInvariants, PTL DEF AllSpec
<1>5. AllSpec => PlannedAsAllowed /\ CommittedForCurrentTask /\ TransitionsStay
  BY <1>4 DEF PlannedAsAllowed, CommittedForCurrentTask, TransitionsStay, Planned, Committed, Settle
<1> QED
  BY <1>5, QuarantinesKept, ContinuedReviewed DEF StepsAreGoverned

------------------------------------------------------------------------------
(* The kernel *)

By == Callers \cup {"bridge", "nobody"}
Asks == Kernel!Envelope \cup {[op |-> "kernel.handshake"]}
Frames == [by : By, measured : Subjects \cup {"none"}, req : Asks]
Answers == {Kernel!Refusal, [status |-> "ok"]} \cup [status : {"ok"}, found : BOOLEAN]
             \cup [status : {"ok"}, verdict : Kernel!Verdict, current : BOOLEAN]
AnswerFrames == [by : By, req : Asks, answer : Answers]
Tellings == {"nothing", "waiting", "ok", "current", "stale", "refused"}
CallRows == [req : Kernel!Envelope \cup {Kernel!Idle.req}, told : Tellings]

KernelTyped ==
  /\ subject \in Subjects /\ expired \subseteq Tasks
  /\ state \in {"stopped", "starting", "ready", "failed"} /\ spawns \in Nat
  /\ alive \subseteq Kernel!Kids /\ killed \subseteq alive /\ kernelRef \in alive \cup {0}
  /\ faults \subseteq {"frame", "projection"}
  /\ calls \in [Callers -> CallRows]
  /\ inbox \in [Kernel!Kids -> Seq(Frames)]
  /\ kernelOutbox \in [Kernel!Kids -> Seq(AnswerFrames)]

\* What a request and the answer to it say of the journal.
Says(facts, r) ==
  CASE r.op = "gate.evaluate" -> Kernel!Given(facts, r) # {}
    [] r.op = "operation.reconcile" -> Kernel!Of(facts, r.op) # {}
    [] OTHER -> r \in facts
SaysVerdict(facts, r) == \E v \in Kernel!Of(facts, "verdict") : v.id = r.id /\ v.task = r.task
AnswerTrue(facts, r, answer) ==
  /\ Kernel!Told(answer) = "ok" => Says(facts, r)
  /\ Kernel!Told(answer) \in {"current", "stale"} => SaysVerdict(facts, r)

\* A frame of a caller is of the request that caller waits for.
Fits(frame) ==
  frame.by \in Callers =>
    calls[frame.by].told = "waiting" /\ calls[frame.by].req = frame.req /\ frame.req \in Kernel!Envelope

FramesFit == \A k \in Kernel!Kids :
  /\ \A i \in DOMAIN inbox[k] : Fits(inbox[k][i])
  /\ \A i \in DOMAIN kernelOutbox[k] :
       /\ Fits(kernelOutbox[k][i])
       /\ kernelOutbox[k][i].by \in Callers =>
            AnswerTrue(journal, kernelOutbox[k][i].req, kernelOutbox[k][i].answer)

\* A caller has at most one frame, in one pipe.
OneFrame == \A k, l \in Kernel!Kids :
  /\ \A i \in DOMAIN inbox[k], j \in DOMAIN inbox[l] :
       inbox[k][i].by \in Callers /\ inbox[k][i].by = inbox[l][j].by => k = l /\ i = j
  /\ \A i \in DOMAIN kernelOutbox[k], j \in DOMAIN kernelOutbox[l] :
       kernelOutbox[k][i].by \in Callers /\ kernelOutbox[k][i].by = kernelOutbox[l][j].by => k = l /\ i = j
  /\ \A i \in DOMAIN inbox[k], j \in DOMAIN kernelOutbox[l] :
       inbox[k][i].by \in Callers => inbox[k][i].by # kernelOutbox[l][j].by

CallsTold == \A c \in Callers :
  /\ calls[c].told = "ok" => Says(journal, calls[c].req)
  /\ calls[c].told \in {"current", "stale"} => SaysVerdict(journal, calls[c].req)

KernelInv == Kernel!Kept(journal) /\ KernelTyped /\ FramesFit /\ OneFrame /\ CallsTold

LEMMA KernelConstants ==
  /\ Facts \in [Procs -> [check : GateChecks, verifier : STRING, subject : Subjects,
                          outcome : {"pass", "fail", "cancelled", "timeout", "infrastructure"}]]
  /\ Requests \subseteq Kernel!Envelope /\ Callers \intersect {"bridge", "nobody"} = {}
  /\ MaxSpawns \in Nat /\ \A facts \in Journals : Kernel!Kept(facts)
BY KernelBounds DEF Kernel!ProcsAreAttested, Kernel!RequestsAreFormed, Kernel!BoundsAreNumbers, Kernel!JournalsAreKept

\* The cardinality of the instance is that of FiniteSets.
LEMMA KernelCounts ==
  ASSUME NEW S, Kernel!IsFiniteSet(S)
  PROVE  /\ Kernel!Cardinality(S) \in Nat
         /\ \A x : x \notin S => /\ Kernel!IsFiniteSet(S \cup {x})
                               /\ Kernel!Cardinality(S \cup {x}) = Kernel!Cardinality(S) + 1
<1>1. \A T : Kernel!IsFiniteSet(T) = IsFiniteSet(T)
  BY DEF Kernel!IsFiniteSet, IsFiniteSet
<1>2. \A T : Kernel!Cardinality(T) = Cardinality(T)
  BY DEF Kernel!Cardinality, Cardinality
<1>3. IsFiniteSet(S)
  BY <1>1
<1>4. Cardinality(S) \in Nat
  BY <1>3, FS_CardinalityType
<1>5. ASSUME NEW x, x \notin S
      PROVE  IsFiniteSet(S \cup {x}) /\ Cardinality(S \cup {x}) = Cardinality(S) + 1
  BY <1>3, <1>5, FS_AddElement
<1> QED
  BY <1>1, <1>2, <1>4, <1>5

\* A well-formed request is told by its operation.
LEMMA RequestOf ==
  ASSUME NEW r \in Kernel!Envelope
  PROVE  /\ r.op = "task.bind" => r \in Kernel!TaskBinding
         /\ r.op = "producer.dispatch" => r \in Kernel!ProducerBinding
         /\ r.op = "suite.freeze" => r \in Kernel!FrozenSuite
         /\ r.op = "suite.execute" => r \in Kernel!CheckExecution
         /\ r.op = "evidence.admit" => r \in Kernel!EvidenceManifest
         /\ r.op = "gate.evaluate" => r \in Kernel!GateExpectation
         /\ r.op = "verdict.read" => r \in Kernel!VerdictExpectation
         /\ r.op = "operation.reconcile" => r \in Kernel!Reconciliation
         /\ r.op = "operation.cancel" => r \in Kernel!Cancellation
         /\ r.op # "kernel.handshake" /\ r.op # "verdict"
BY DEF Kernel!Envelope, Kernel!Mutations, Kernel!TaskBinding, Kernel!ProducerBinding, Kernel!FrozenSuite,
  Kernel!CheckExecution, Kernel!EvidenceManifest, Kernel!GateExpectation, Kernel!VerdictExpectation,
  Kernel!Reconciliation, Kernel!Cancellation

LEMMA FactOf ==
  ASSUME NEW f \in Kernel!JournalFacts
  PROVE  /\ f.op = "evidence.admit" => f \in Kernel!EvidenceManifest
         /\ f.op = "verdict" => f \in Kernel!Verdict
BY DEF Kernel!JournalFacts, Kernel!TaskBinding, Kernel!ProducerBinding, Kernel!FrozenSuite,
  Kernel!CheckExecution, Kernel!EvidenceManifest, Kernel!Verdict, Kernel!Cancellation

\* What was earned stays earned.
LEMMA EarnedStays ==
  ASSUME NEW j, NEW l, j \subseteq l, NEW v, Kernel!Earned(j, v)
  PROVE  Kernel!Earned(l, v)
BY DEF Kernel!Earned, Kernel!Of

\* A journal that is kept is kept when a fact comes that fits it.
LEMMA KeptGrows ==
  ASSUME NEW j, Kernel!Kept(j), NEW f \in Kernel!JournalFacts,
         f.op = "evidence.admit" => f.subject = Facts[f.proc].subject,
         f.op = "verdict" =>
           /\ f.decision = "pass" => Kernel!Earned(j, f)
           /\ f.sequence = Kernel!Cardinality(j) /\ f.decision = Kernel!Decision(Kernel!Rows(j, f.task, f.subject))
  PROVE  Kernel!Kept(j \cup {f})
<1>0. j \subseteq Kernel!JournalFacts /\ Kernel!IsFiniteSet(j)
  BY DEF Kernel!Kept
<1>1. CASE f \in j
  <2>1. j \cup {f} = j
    BY <1>1
  <2> QED
    BY <2>1
<1>2. CASE f \notin j
  <2>1. /\ Kernel!Cardinality(j) \in Nat /\ Kernel!Cardinality(j \cup {f}) = Kernel!Cardinality(j) + 1 /\ Kernel!IsFiniteSet(j \cup {f})
    BY <1>0, <1>2, KernelCounts
  <2>2. (j \cup {f}) \ {f} = j
    BY <1>2
  <2>3. \A g \in Kernel!Of(j \cup {f}, "evidence.admit") : g.subject = Facts[g.proc].subject
    BY DEF Kernel!Kept, Kernel!Of
  <2>4. ASSUME NEW v \in Kernel!Of(j \cup {f}, "verdict")
        PROVE  /\ v.decision = "pass" => Kernel!Earned(j \cup {f}, v)
               /\ v.sequence < Kernel!Cardinality(j \cup {f})
               /\ Kernel!Cardinality(j \cup {f}) = v.sequence + 1 =>
                    v.decision = Kernel!Decision(Kernel!Rows((j \cup {f}) \ {v}, v.task, v.subject))
    <3>1. v \in Kernel!JournalFacts /\ v.op = "verdict" /\ v.sequence \in Nat
      <4>1. v \in Kernel!JournalFacts /\ v.op = "verdict"
        BY <1>0 DEF Kernel!Of
      <4> QED
        BY <4>1, FactOf DEF Kernel!Verdict
    <3>2. CASE v \in j
      <4>1. /\ v.decision = "pass" => Kernel!Earned(j, v)
            /\ v.sequence < Kernel!Cardinality(j)
        BY <3>1, <3>2 DEF Kernel!Kept, Kernel!Of
      <4>2. v.decision = "pass" => Kernel!Earned(j \cup {f}, v)
        BY <4>1, EarnedStays
      <4> QED
        BY <2>1, <3>1, <4>1, <4>2
    <3>3. CASE v = f
      <4>1. v.decision = "pass" => Kernel!Earned(j \cup {f}, v)
        BY <3>1, <3>3, EarnedStays
      <4>2. v.sequence = Kernel!Cardinality(j) /\ v.decision = Kernel!Decision(Kernel!Rows(j, v.task, v.subject))
        BY <3>1, <3>3
      <4>3. v.sequence < Kernel!Cardinality(j \cup {f})
        BY <2>1, <4>2
      <4>4. v.decision = Kernel!Decision(Kernel!Rows((j \cup {f}) \ {v}, v.task, v.subject))
        BY <2>2, <3>3, <4>2
      <4> QED
        BY <4>1, <4>3, <4>4
    <3> QED
      BY <3>2, <3>3 DEF Kernel!Of
  <2> QED
    BY <1>0, <2>1, <2>3, <2>4 DEF Kernel!Kept
<1> QED
  BY <1>1, <1>2

\* The row of a check is of the outcome of the one evidence there is.
LEMMA RowOf ==
  ASSUME NEW j, Kernel!Kept(j), NEW t, NEW c \in GateChecks, NEW s
  PROVE  /\ Kernel!Row(j, t, c, s) \in {"pass", "fail", "blocked"}
         /\ Kernel!Row(j, t, c, s) = "pass" =>
              \E f \in Kernel!Of(j, "evidence.admit") :
                /\ f.task = t /\ f.subject = s
                /\ Facts[f.proc].check = c /\ Facts[f.proc].outcome = "pass" /\ Facts[f.proc].subject = s
                /\ [op |-> "suite.execute", task |-> f.task, proc |-> f.proc] \in j
<1> DEFINE M == Kernel!Matches(j, t, c, s)
           One(f) == /\ M = {f}
                     /\ [op |-> "suite.execute", task |-> f.task, proc |-> f.proc] \in j
                     /\ Facts[f.proc].outcome \in {"pass", "fail"}
<1>1. CASE \E f \in M : One(f)
  <2>1. PICK f \in M : One(f)
    BY <1>1
  <2>2. (CHOOSE g \in M : TRUE) = f
    BY <2>1
  <2>3. Kernel!Row(j, t, c, s) = Facts[f.proc].outcome
    BY <1>1, <2>2 DEF Kernel!Row
  <2>4. f \in Kernel!Of(j, "evidence.admit") /\ f.task = t /\ f.subject = s /\ Facts[f.proc].check = c
    BY DEF Kernel!Matches
  <2>5. f.subject = Facts[f.proc].subject
    BY <2>4 DEF Kernel!Kept
  <2> QED
    BY <2>1, <2>3, <2>4, <2>5
<1>2. CASE ~\E f \in M : One(f)
  <2>1. Kernel!Row(j, t, c, s) = "blocked"
    BY <1>2 DEF Kernel!Row
  <2> QED
    BY <2>1
<1> QED
  BY <1>1, <1>2

\* What the adapter gives is of the rows it found, and a pass was earned.
LEMMA JudgedFits ==
  ASSUME NEW j, Kernel!Kept(j), NEW r \in Kernel!GateExpectation
  PROVE  LET v == Kernel!Judged(j, r)
         IN /\ v \in Kernel!Verdict /\ v.op = "verdict" /\ v.id = r.id /\ v.task = r.task /\ v.subject = r.subject
            /\ v.decision = "pass" => Kernel!Earned(j, v)
            /\ v.sequence = Kernel!Cardinality(j) /\ v.decision = Kernel!Decision(Kernel!Rows(j, v.task, v.subject))
<1> DEFINE v == Kernel!Judged(j, r)
           rows == Kernel!Rows(j, r.task, r.subject)
<1>1. v = [op |-> "verdict", id |-> r.id, task |-> r.task, subject |-> r.subject, rows |-> rows,
           decision |-> Kernel!Decision(rows), sequence |-> Kernel!Cardinality(j)]
  BY DEF Kernel!Judged
<1>2. /\ v.op = "verdict" /\ v.id = r.id /\ v.task = r.task /\ v.subject = r.subject
      /\ v.decision = Kernel!Decision(rows) /\ v.sequence = Kernel!Cardinality(j)
  BY <1>1
<1>3. rows \in [GateChecks -> {"pass", "fail", "blocked"}] /\ \A c \in GateChecks : rows[c] = Kernel!Row(j, r.task, c, r.subject)
  <2>1. rows = [c \in GateChecks |-> Kernel!Row(j, r.task, c, r.subject)]
    BY DEF Kernel!Rows
  <2>2. \A c \in GateChecks : Kernel!Row(j, r.task, c, r.subject) \in {"pass", "fail", "blocked"}
    BY RowOf
  <2> QED
    BY <2>1, <2>2
<1>4. v \in Kernel!Verdict
  <2>1. Kernel!Decision(rows) \in {"pass", "fail", "blocked"} /\ r.id \in Ids /\ r.task \in Tasks /\ r.subject \in Subjects
    BY DEF Kernel!Decision, Kernel!GateExpectation
  <2>2. Kernel!Cardinality(j) \in Nat
    BY KernelCounts DEF Kernel!Kept
  <2> QED
    BY <1>1, <1>3, <2>1, <2>2 DEF Kernel!Verdict
<1>5. ASSUME v.decision = "pass" PROVE Kernel!Earned(j, v)
  <2>1. \A c \in GateChecks : rows[c] = "pass"
    BY <1>2, <1>3, <1>5 DEF Kernel!Decision
  <2>2. \A c \in GateChecks : Kernel!Row(j, r.task, c, r.subject) = "pass"
    BY <1>3, <2>1
  <2> QED
    BY <1>2, <2>2, RowOf DEF Kernel!Earned
<1> QED
  BY <1>2, <1>4, <1>5

\* How the bridge reads the answers of the adapter.
LEMMA ToldOf ==
  /\ Kernel!Refusal \in Answers /\ [status |-> "ok"] \in Answers
  /\ Kernel!Told(Kernel!Refusal) = "refused" /\ Kernel!Told([status |-> "ok"]) = "ok"
  /\ \A b \in BOOLEAN : /\ [status |-> "ok", found |-> b] \in Answers
                        /\ Kernel!Told([status |-> "ok", found |-> b]) = "ok"
  /\ \A v \in Kernel!Verdict, b \in BOOLEAN :
       /\ [status |-> "ok", verdict |-> v, current |-> b] \in Answers
       /\ Kernel!Told([status |-> "ok", verdict |-> v, current |-> b]) \in {"current", "stale"}
<1>1. /\ Kernel!Refusal \in Answers /\ [status |-> "ok"] \in Answers
      /\ \A b \in BOOLEAN : [status |-> "ok", found |-> b] \in Answers
      /\ \A v \in Kernel!Verdict, b \in BOOLEAN : [status |-> "ok", verdict |-> v, current |-> b] \in Answers
  BY DEF Answers
<1>2. Kernel!Told(Kernel!Refusal) = "refused" /\ Kernel!Told([status |-> "ok"]) = "ok"
  BY DEF Kernel!Told, Kernel!Refusal
<1>3. ASSUME NEW b \in BOOLEAN PROVE Kernel!Told([status |-> "ok", found |-> b]) = "ok"
  BY DEF Kernel!Told
<1>4. ASSUME NEW v \in Kernel!Verdict, NEW b \in BOOLEAN
      PROVE  Kernel!Told([status |-> "ok", verdict |-> v, current |-> b]) \in {"current", "stale"}
  BY DEF Kernel!Told
<1> QED
  BY <1>1, <1>2, <1>3, <1>4

\* What a dispatch makes of a journal: it is kept and has what it had, and the
\* answer is true of it.
Good(j, r, d) ==
  /\ Kernel!Kept(d.journal) /\ j \subseteq d.journal /\ d.answer \in Answers
  /\ AnswerTrue(d.journal, r, d.answer)

LEMMA RefusedIsGood ==
  ASSUME NEW j, Kernel!Kept(j), NEW r
  PROVE  Good(j, r, [journal |-> j, answer |-> Kernel!Refusal])
BY ToldOf DEF Good, AnswerTrue

LEMMA CommitIsGood ==
  ASSUME NEW j, Kernel!Kept(j), NEW r \in Kernel!Envelope,
         r.op # "verdict.read", r.op # "operation.reconcile", NEW s, NEW e
  PROVE  Good(j, r, Kernel!Commit(j, r, s, e))
<1>1. CASE ~Kernel!Admits(j, r, s, e)
  BY <1>1, RefusedIsGood DEF Kernel!Commit
<1>2. CASE Kernel!Admits(j, r, s, e)
  <2>1. Kernel!Commit(j, r, s, e) = [journal |-> j \cup {Kernel!Fact(j, r)}, answer |-> [status |-> "ok"]]
    BY <1>2 DEF Kernel!Commit
  <2>2. Kernel!Kept(j \cup {Kernel!Fact(j, r)}) /\ Says(j \cup {Kernel!Fact(j, r)}, r)
    <3>1. CASE r.op = "gate.evaluate"
      <4>1. r \in Kernel!GateExpectation /\ Kernel!Fact(j, r) = Kernel!Judged(j, r)
        BY <3>1, RequestOf DEF Kernel!Fact
      <4> DEFINE v == Kernel!Judged(j, r)
      <4>2. /\ v \in Kernel!Verdict /\ v.op = "verdict" /\ v.id = r.id /\ v.task = r.task /\ v.subject = r.subject
            /\ v.decision = "pass" => Kernel!Earned(j, v)
            /\ v.sequence = Kernel!Cardinality(j)
            /\ v.decision = Kernel!Decision(Kernel!Rows(j, v.task, v.subject))
        BY <4>1, JudgedFits
      <4> HIDE DEF v
      <4>3. v \in Kernel!JournalFacts
        BY <4>2 DEF Kernel!JournalFacts
      <4>4. Kernel!Kept(j \cup {v})
        BY <4>2, <4>3, KeptGrows
      <4>5. v \in Kernel!Given(j \cup {v}, r)
        BY <4>2 DEF Kernel!Given, Kernel!Of
      <4>6. Says(j \cup {v}, r)
        BY <3>1, <4>5 DEF Says
      <4> QED
        BY <4>1, <4>4, <4>6 DEF v
    <3>2. CASE r.op # "gate.evaluate"
      <4>1. Kernel!Fact(j, r) = r
        BY <3>2 DEF Kernel!Fact
      <4>2. /\ r.op \in {"task.bind", "producer.dispatch", "suite.freeze", "suite.execute", "evidence.admit", "operation.cancel"}
            /\ r.op = "suite.freeze" => r.authority = "verifier"
            /\ r.op = "evidence.admit" => r.subject = Facts[r.proc].subject
        BY <1>2, <3>2 DEF Kernel!Admits, Kernel!Binds, Kernel!Dispatches, Kernel!Freezes, Kernel!Executes,
          Kernel!AdmitsEvidence, Kernel!Evaluates
      <4>3. r \in Kernel!JournalFacts
        BY <4>2, RequestOf DEF Kernel!JournalFacts
      <4>4. Kernel!Kept(j \cup {r})
        BY <4>2, <4>3, KeptGrows
      <4>5. Says(j \cup {r}, r)
        BY <3>2 DEF Says
      <4> QED
        BY <4>1, <4>4, <4>5
    <3> QED
      BY <3>1, <3>2
  <2> QED
    BY <2>1, <2>2, ToldOf DEF Good, AnswerTrue
<1> QED
  BY <1>1, <1>2

LEMMA EvaluateIsGood ==
  ASSUME NEW j, Kernel!Kept(j), NEW r \in Kernel!Envelope, r.op = "gate.evaluate", NEW s, NEW e
  PROVE  Good(j, r, Kernel!Evaluate(j, r, s, e))
<1>1. CASE r.subject = s /\ Kernel!Given(j, r) # {}
  <2>1. Says(j, r)
    BY <1>1 DEF Says
  <2> QED
    BY <1>1, <2>1, ToldOf DEF Kernel!Evaluate, Good, AnswerTrue
<1>2. CASE ~(r.subject = s /\ Kernel!Given(j, r) # {})
  BY <1>2, CommitIsGood DEF Kernel!Evaluate
<1> QED
  BY <1>1, <1>2

LEMMA ReconcileIsGood ==
  ASSUME NEW j, Kernel!Kept(j), NEW r \in Kernel!Envelope, r.op = "operation.reconcile"
  PROVE  Good(j, r, Kernel!Reconcile(j, r))
<1> DEFINE fact == Kernel!Reconciles(j, r)
           found == Kernel!Acknowledged(j, r.target)
<1>1. r \in Kernel!Reconciliation /\ r.target \in Kernel!Mutations
  BY RequestOf DEF Kernel!Reconciliation
<1>2. found \in BOOLEAN
  <2>1. CASE r.target.op = "gate.evaluate"
    <3>1. found = (Kernel!Given(j, r.target) # {})
      BY <2>1 DEF Kernel!Acknowledged
    <3> QED
      BY <3>1
  <2>2. CASE r.target.op # "gate.evaluate"
    <3>1. found = (r.target \in j)
      BY <2>2 DEF Kernel!Acknowledged
    <3> QED
      BY <3>1
  <2> QED
    BY <2>1, <2>2
<1>3. fact = [op |-> "operation.reconcile", target |-> r.target, found |-> found]
  BY DEF Kernel!Reconciles
<1> HIDE DEF found
<1>4. fact.found = found /\ fact.op = "operation.reconcile"
  BY <1>3
<1>5. fact \in Kernel!JournalFacts
  BY <1>1, <1>2, <1>3 DEF Kernel!JournalFacts
<1> HIDE DEF fact
<1>6. Kernel!Kept(j \cup {fact})
  BY <1>4, <1>5, KeptGrows
<1>7. CASE Kernel!Reconciled(j, r) = {}
  <2>1. Kernel!Reconcile(j, r) = [journal |-> j \cup {fact}, answer |-> [status |-> "ok", found |-> fact.found]]
    BY <1>7 DEF Kernel!Reconcile, fact
  <2>2. Says(j \cup {fact}, r)
    BY <1>4 DEF Says, Kernel!Of
  <2> QED
    BY <1>2, <1>4, <1>6, <2>1, <2>2, ToldOf DEF Good, AnswerTrue
<1>8. CASE Kernel!Reconciled(j, r) = {fact}
  <2>1. Kernel!Reconcile(j, r) = [journal |-> j, answer |-> [status |-> "ok", found |-> fact.found]]
    BY <1>8 DEF Kernel!Reconcile, fact
  <2>2. Says(j, r)
    BY <1>8 DEF Says, Kernel!Reconciled, Kernel!Of
  <2> QED
    BY <1>2, <1>4, <2>1, <2>2, ToldOf DEF Good, AnswerTrue
<1>9. CASE Kernel!Reconciled(j, r) # {} /\ Kernel!Reconciled(j, r) # {fact}
  <2>1. Kernel!Reconcile(j, r) = [journal |-> j, answer |-> Kernel!Refusal]
    BY <1>9 DEF Kernel!Reconcile, fact
  <2> QED
    BY <2>1, RefusedIsGood
<1> QED
  BY <1>7, <1>8, <1>9

LEMMA ReadIsGood ==
  ASSUME NEW j, Kernel!Kept(j), NEW r \in Kernel!Envelope, NEW s, NEW e
  PROVE  Good(j, r, [journal |-> j, answer |-> Kernel!ReadVerdict(j, r, s, e)])
<1> DEFINE found == {f \in Kernel!Of(j, "verdict") : f.id = r.id /\ f.task = r.task}
<1>1. CASE found = {}
  BY <1>1, RefusedIsGood DEF Kernel!ReadVerdict
<1>2. CASE found # {}
  <2> DEFINE v == CHOOSE f \in found : TRUE
             b == Kernel!Current(j, v, s, e)
  <2>1. v \in found
    BY <1>2
  <2>2. Kernel!ReadVerdict(j, r, s, e) = [status |-> "ok", verdict |-> v, current |-> b]
    BY <1>2 DEF Kernel!ReadVerdict
  <2>3. b \in BOOLEAN
    BY DEF Kernel!Current
  <2> HIDE DEF v, b
  <2>4. v \in Kernel!Verdict /\ SaysVerdict(j, r)
    <3>1. v \in Kernel!JournalFacts /\ v.op = "verdict"
      BY <2>1 DEF Kernel!Kept, Kernel!Of
    <3> QED
      BY <2>1, <3>1, FactOf DEF SaysVerdict
  <2>5. Kernel!Told([status |-> "ok", verdict |-> v, current |-> b]) \in {"current", "stale"}
    BY <2>3, <2>4, ToldOf
  <2>6. [status |-> "ok", verdict |-> v, current |-> b] \in Answers
    BY <2>3, <2>4, ToldOf
  <2> QED
    BY <2>2, <2>4, <2>5, <2>6 DEF Good, AnswerTrue
<1> QED
  BY <1>1, <1>2

LEMMA DispatchIsGood ==
  ASSUME NEW j, Kernel!Kept(j), NEW r \in Asks, NEW s, NEW e
  PROVE  LET d == Kernel!Dispatch(j, r, s, e)
         IN /\ Kernel!Kept(d.journal) /\ j \subseteq d.journal /\ d.answer \in Answers
            /\ r \in Kernel!Envelope => AnswerTrue(d.journal, r, d.answer)
<1> DEFINE d == Kernel!Dispatch(j, r, s, e)
<1>1. CASE r \notin Kernel!Envelope
  <2>1. r.op = "kernel.handshake"
    BY <1>1 DEF Asks
  <2>2. d = [journal |-> j, answer |-> [status |-> "ok"]]
    BY <2>1 DEF Kernel!Dispatch
  <2> QED
    BY <1>1, <2>2, ToldOf
<1>2. CASE r \in Kernel!Envelope
  <2>1. Good(j, r, d)
    <3>1. CASE r.op = "verdict.read"
      BY <1>2, <3>1, ReadIsGood DEF Kernel!Dispatch
    <3>2. CASE r.op = "operation.reconcile"
      BY <1>2, <3>2, ReconcileIsGood DEF Kernel!Dispatch
    <3>3. CASE r.op = "gate.evaluate"
      BY <1>2, <3>3, EvaluateIsGood DEF Kernel!Dispatch
    <3>4. CASE r.op \notin {"verdict.read", "operation.reconcile", "gate.evaluate"}
      <4>1. r.op # "kernel.handshake"
        BY <1>2, RequestOf
      <4>2. d = Kernel!Commit(j, r, s, e)
        BY <3>4, <4>1 DEF Kernel!Dispatch
      <4> QED
        BY <1>2, <3>4, <4>2, CommitIsGood
    <3> QED
      BY <3>1, <3>2, <3>3, <3>4
  <2> QED
    BY <2>1 DEF Good
<1> QED
  BY <1>1, <1>2

LEMMA KernelInit == Kernel!Init => KernelInv
<1> SUFFICES ASSUME Kernel!Init PROVE KernelInv
  OBVIOUS
<1>1. Kernel!Kept(journal)
  BY KernelConstants DEF Kernel!Init
<1>2. \A c \in Callers : calls[c] = Kernel!Idle
  BY DEF Kernel!Init
<1>3. \A k \in Kernel!Kids : inbox[k] = <<>> /\ kernelOutbox[k] = <<>>
  BY DEF Kernel!Init
<1>4. KernelTyped
  <2>1. Kernel!Idle \in CallRows
    BY DEF Kernel!Idle, CallRows, Tellings
  <2>2. calls \in [Callers -> CallRows]
    BY <2>1 DEF Kernel!Init
  <2>3. inbox \in [Kernel!Kids -> Seq(Frames)] /\ kernelOutbox \in [Kernel!Kids -> Seq(AnswerFrames)]
    BY DEF Kernel!Init
  <2> QED
    BY <2>2, <2>3 DEF Kernel!Init, KernelTyped
<1>5. FramesFit /\ OneFrame
  BY <1>3 DEF FramesFit, OneFrame
<1>6. CallsTold
  BY <1>2 DEF CallsTold, Kernel!Idle
<1> QED
  BY <1>1, <1>4, <1>5, <1>6 DEF KernelInv

\* What a pipe has of the callers it had before, from a later place on.
From(old, new, d) == \A k \in Kernel!Kids : \A i \in DOMAIN new[k] :
  new[k][i].by \in Callers => i + d[k] \in DOMAIN old[k] /\ new[k][i] = old[k][i + d[k]]

LEMMA PipesShrink ==
  ASSUME KernelInv, KernelTyped', CallsTold', UNCHANGED journal,
         NEW d \in [Kernel!Kids -> Nat], NEW e \in [Kernel!Kids -> Nat],
         From(inbox, inbox', d), From(kernelOutbox, kernelOutbox', e),
         \A k \in Kernel!Kids : \A i \in DOMAIN inbox'[k] :
           inbox'[k][i].by \in Callers => calls'[inbox'[k][i].by] = calls[inbox'[k][i].by],
         \A k \in Kernel!Kids : \A i \in DOMAIN kernelOutbox'[k] :
           kernelOutbox'[k][i].by \in Callers => calls'[kernelOutbox'[k][i].by] = calls[kernelOutbox'[k][i].by]
  PROVE  KernelInv'
<1>0. FramesFit /\ OneFrame
  BY DEF KernelInv
<1>1. \A k \in Kernel!Kids : DOMAIN inbox'[k] \subseteq Nat /\ DOMAIN kernelOutbox'[k] \subseteq Nat
  BY DEF KernelTyped
<1>2. ASSUME NEW k \in Kernel!Kids, NEW i \in DOMAIN inbox'[k], inbox'[k][i].by \in Callers
      PROVE  i + d[k] \in DOMAIN inbox[k] /\ inbox'[k][i] = inbox[k][i + d[k]]
  BY <1>2 DEF From
<1>3. ASSUME NEW k \in Kernel!Kids, NEW i \in DOMAIN kernelOutbox'[k], kernelOutbox'[k][i].by \in Callers
      PROVE  i + e[k] \in DOMAIN kernelOutbox[k] /\ kernelOutbox'[k][i] = kernelOutbox[k][i + e[k]]
  BY <1>3 DEF From
<1>4. FramesFit'
  <2>1. ASSUME NEW k \in Kernel!Kids, NEW i \in DOMAIN inbox'[k] PROVE Fits(inbox[k][i])'
    BY <1>0, <1>2 DEF FramesFit, Fits
  <2>2. ASSUME NEW k \in Kernel!Kids, NEW i \in DOMAIN kernelOutbox'[k]
        PROVE  (/\ Fits(kernelOutbox[k][i])
                /\ kernelOutbox[k][i].by \in Callers =>
                     AnswerTrue(journal, kernelOutbox[k][i].req, kernelOutbox[k][i].answer))'
    <3>1. CASE kernelOutbox'[k][i].by \notin Callers
      BY <3>1 DEF Fits
    <3>2. CASE kernelOutbox'[k][i].by \in Callers
      BY <1>0, <1>3, <3>2 DEF FramesFit, Fits
    <3> QED
      BY <3>1, <3>2
  <2> QED
    BY <2>1, <2>2 DEF FramesFit
<1>5. OneFrame'
  <2> SUFFICES ASSUME NEW k \in Kernel!Kids, NEW l \in Kernel!Kids
               PROVE  (/\ \A i \in DOMAIN inbox[k], j \in DOMAIN inbox[l] :
                            inbox[k][i].by \in Callers /\ inbox[k][i].by = inbox[l][j].by => k = l /\ i = j
                       /\ \A i \in DOMAIN kernelOutbox[k], j \in DOMAIN kernelOutbox[l] :
                            kernelOutbox[k][i].by \in Callers /\ kernelOutbox[k][i].by = kernelOutbox[l][j].by => k = l /\ i = j
                       /\ \A i \in DOMAIN inbox[k], j \in DOMAIN kernelOutbox[l] :
                            inbox[k][i].by \in Callers => inbox[k][i].by # kernelOutbox[l][j].by)'
    BY DEF OneFrame
  <2>1. ASSUME NEW i \in DOMAIN inbox'[k], NEW j \in DOMAIN inbox'[l],
               inbox'[k][i].by \in Callers, inbox'[k][i].by = inbox'[l][j].by
        PROVE  k = l /\ i = j
    <3>1. k = l /\ i + d[k] = j + d[l]
      BY <1>0, <1>2, <2>1 DEF OneFrame
    <3> QED
      BY <1>1, <3>1
  <2>2. ASSUME NEW i \in DOMAIN kernelOutbox'[k], NEW j \in DOMAIN kernelOutbox'[l],
               kernelOutbox'[k][i].by \in Callers, kernelOutbox'[k][i].by = kernelOutbox'[l][j].by
        PROVE  k = l /\ i = j
    <3>1. k = l /\ i + e[k] = j + e[l]
      BY <1>0, <1>3, <2>2 DEF OneFrame
    <3> QED
      BY <1>1, <3>1
  <2>3. ASSUME NEW i \in DOMAIN inbox'[k], NEW j \in DOMAIN kernelOutbox'[l], inbox'[k][i].by \in Callers
        PROVE  inbox'[k][i].by # kernelOutbox'[l][j].by
    BY <1>0, <1>2, <1>3, <2>3 DEF OneFrame
  <2> QED
    BY <2>1, <2>2, <2>3
<1> QED
  BY <1>4, <1>5 DEF KernelInv

Forgets(F) == \A f \in F : [f EXCEPT !.by = "nobody"] \in F /\ [f EXCEPT !.by = "nobody"].by = "nobody"

\* What is forgotten is where it was, and nobody's.
LEMMA ForgottenPipes ==
  ASSUME NEW F, NEW p \in [Kernel!Kids -> Seq(F)], NEW who,
         Forgets(F)
  PROVE  LET q == Kernel!Forgotten(p, who)
         IN /\ q \in [Kernel!Kids -> Seq(F)]
            /\ \A k \in Kernel!Kids : DOMAIN q[k] = DOMAIN p[k]
            /\ \A k \in Kernel!Kids : \A i \in DOMAIN q[k] :
                 \/ q[k][i] = p[k][i] /\ p[k][i].by \notin who
                 \/ q[k][i].by = "nobody"
<1> DEFINE q == Kernel!Forgotten(p, who)
           Row(k) == [i \in DOMAIN p[k] |-> IF p[k][i].by \in who THEN [p[k][i] EXCEPT !.by = "nobody"] ELSE p[k][i]]
<1>1. q = [k \in Kernel!Kids |-> Row(k)]
  BY DEF Kernel!Forgotten
<1>2. ASSUME NEW k \in Kernel!Kids
      PROVE  /\ Row(k) \in Seq(F) /\ DOMAIN Row(k) = DOMAIN p[k]
             /\ \A i \in DOMAIN p[k] : \/ Row(k)[i] = p[k][i] /\ p[k][i].by \notin who
                                       \/ Row(k)[i].by = "nobody"
  <2>1. p[k] \in Seq(F) /\ DOMAIN p[k] = 1..Len(p[k]) /\ Len(p[k]) \in Nat
    OBVIOUS
  <2>2. \A i \in DOMAIN p[k] : p[k][i] \in F
    BY <2>1
  <2>3. Row(k) \in [1..Len(p[k]) -> F]
    BY <2>1, <2>2 DEF Forgets
  <2>4. Row(k) \in Seq(F)
    BY <2>1, <2>3
  <2> QED
    BY <2>2, <2>4 DEF Forgets
<1> HIDE DEF Row
<1> QED
  BY <1>1, <1>2

Unmoved == [k \in Kernel!Kids |-> 0]

LEMMA ForgottenFrom ==
  ASSUME NEW F, NEW p \in [Kernel!Kids -> Seq(F)], NEW who,
         Forgets(F)
  PROVE  /\ Kernel!Forgotten(p, who) \in [Kernel!Kids -> Seq(F)]
         /\ From(p, Kernel!Forgotten(p, who), Unmoved)
         /\ \A k \in Kernel!Kids : \A i \in DOMAIN Kernel!Forgotten(p, who)[k] :
              Kernel!Forgotten(p, who)[k][i].by \in Callers => Kernel!Forgotten(p, who)[k][i].by \notin who
<1> DEFINE q == Kernel!Forgotten(p, who)
<1>1. /\ q \in [Kernel!Kids -> Seq(F)] /\ \A k \in Kernel!Kids : DOMAIN q[k] = DOMAIN p[k]
      /\ \A k \in Kernel!Kids : \A i \in DOMAIN q[k] :
           \/ q[k][i] = p[k][i] /\ p[k][i].by \notin who
           \/ q[k][i].by = "nobody"
  BY ForgottenPipes
<1> HIDE DEF q
<1>2. "nobody" \notin Callers
  BY KernelConstants
<1>3. \A k \in Kernel!Kids : \A i \in DOMAIN q[k] : i \in Nat
  BY <1>1
<1>4. \A k \in Kernel!Kids : \A i \in DOMAIN q[k] : i + Unmoved[k] = i
  BY <1>3 DEF Unmoved
<1>5. From(p, q, Unmoved)
  BY <1>1, <1>2, <1>4 DEF From
<1>6. \A k \in Kernel!Kids : \A i \in DOMAIN q[k] : q[k][i].by \in Callers => q[k][i].by \notin who
  BY <1>1, <1>2
<1> QED
  BY <1>1, <1>5, <1>6 DEF q

LEMMA FramesForget == Forgets(Frames) /\ Forgets(AnswerFrames)
BY DEF Forgets, Frames, AnswerFrames, By

\* No journal takes back what it says.
LEMMA SaidStays ==
  ASSUME NEW j, NEW l, j \subseteq l, NEW r
  PROVE  /\ Says(j, r) => Says(l, r)
         /\ SaysVerdict(j, r) => SaysVerdict(l, r)
         /\ \A answer : AnswerTrue(j, r, answer) => AnswerTrue(l, r, answer)
<1>1. \A op : Kernel!Of(j, op) \subseteq Kernel!Of(l, op)
  BY DEF Kernel!Of
<1>2. Kernel!Given(j, r) \subseteq Kernel!Given(l, r)
  BY <1>1 DEF Kernel!Given
<1>3. Says(j, r) => Says(l, r)
  BY <1>1, <1>2 DEF Says
<1>4. SaysVerdict(j, r) => SaysVerdict(l, r)
  BY <1>1 DEF SaysVerdict
<1> QED
  BY <1>3, <1>4 DEF AnswerTrue

LEMMA UnmovedFrom ==
  ASSUME NEW F, NEW p \in [Kernel!Kids -> Seq(F)]
  PROVE  Unmoved \in [Kernel!Kids -> Nat] /\ From(p, p, Unmoved)
<1>1. ASSUME NEW k \in Kernel!Kids, NEW i \in DOMAIN p[k] PROVE i + Unmoved[k] = i
  BY DEF Unmoved
<1> QED
  BY <1>1 DEF From, Unmoved

\* Nothing moves in the pipes.
LEMMA QuietIsKept ==
  ASSUME KernelInv, KernelTyped', UNCHANGED <<journal, calls, inbox, kernelOutbox>>
  PROVE  KernelInv'
<1>1. CallsTold'
  BY DEF KernelInv, CallsTold
<1>2. inbox \in [Kernel!Kids -> Seq(Frames)] /\ kernelOutbox \in [Kernel!Kids -> Seq(AnswerFrames)]
  BY DEF KernelInv, KernelTyped
<1>3. From(inbox, inbox', Unmoved) /\ From(kernelOutbox, kernelOutbox', Unmoved) /\ Unmoved \in [Kernel!Kids -> Nat]
  BY <1>2, UnmovedFrom
<1> QED
  BY <1>1, <1>3, PipesShrink

\* Nobody has a frame any more.
LEMMA LostIsKept ==
  ASSUME KernelInv, KernelTyped', CallsTold', UNCHANGED journal,
         \A k \in Kernel!Kids :
           /\ \A i \in DOMAIN inbox'[k] : inbox'[k][i].by \notin Callers
           /\ \A i \in DOMAIN kernelOutbox'[k] : kernelOutbox'[k][i].by \notin Callers
  PROVE  KernelInv'
<1>1. From(inbox, inbox', Unmoved) /\ From(kernelOutbox, kernelOutbox', Unmoved) /\ Unmoved \in [Kernel!Kids -> Nat]
  BY DEF From, Unmoved
<1> QED
  BY <1>1, PipesShrink

LEMMA RefusedFits == Kernel!Refused \in CallRows /\ Kernel!Refused.told = "refused"
<1>1. Kernel!Refused = [req |-> Kernel!Idle.req, told |-> "refused"]
  BY DEF Kernel!Refused, Kernel!Idle
<1> QED
  BY <1>1 DEF CallRows, Tellings

\* failAll tells nobody anything but a refusal.
LEMMA FailedCalls ==
  ASSUME KernelInv, Kernel!FailAll, UNCHANGED journal
  PROVE  calls' \in [Callers -> CallRows] /\ CallsTold'
<1>1. \A c \in Callers : calls'[c] = calls[c] \/ calls'[c] = Kernel!Refused
  BY DEF Kernel!FailAll
<1>2. calls' \in [Callers -> CallRows]
  <2>1. calls' = [c \in Callers |-> calls'[c]] /\ \A c \in Callers : calls'[c] \in CallRows
    BY <1>1, RefusedFits DEF Kernel!FailAll, KernelInv, KernelTyped
  <2> QED
    BY <2>1
<1>3. CallsTold'
  BY <1>1, RefusedFits DEF KernelInv, CallsTold
<1> QED
  BY <1>2, <1>3

LEMMA KernelNotReady == KernelInv /\ Kernel!NotReady => KernelInv'
<1> SUFFICES ASSUME KernelInv, Kernel!NotReady PROVE KernelInv'
  OBVIOUS
<1>1. /\ inbox' = Kernel!Forgotten(inbox, {"bridge"}) /\ kernelOutbox' = Kernel!Forgotten(kernelOutbox, {"bridge"})
      /\ UNCHANGED <<journal, subject, expired, kernelRef, alive, killed, calls, faults, spawns>> /\ state' = "failed"
  BY Zenon DEF Kernel!NotReady, Kernel!Forget, Kernel!World, Kernel!Links
<1>2. inbox \in [Kernel!Kids -> Seq(Frames)] /\ kernelOutbox \in [Kernel!Kids -> Seq(AnswerFrames)]
  BY DEF KernelInv, KernelTyped
<1>3. inbox' \in [Kernel!Kids -> Seq(Frames)] /\ From(inbox, inbox', Unmoved)
  BY <1>1, <1>2, ForgottenFrom, FramesForget
<1>4. kernelOutbox' \in [Kernel!Kids -> Seq(AnswerFrames)] /\ From(kernelOutbox, kernelOutbox', Unmoved)
  BY <1>1, <1>2, ForgottenFrom, FramesForget
<1>5. KernelTyped' /\ CallsTold' /\ Unmoved \in [Kernel!Kids -> Nat]
  BY <1>1, <1>3, <1>4 DEF KernelInv, KernelTyped, CallsTold, Unmoved
<1> QED
  BY <1>1, <1>3, <1>4, <1>5, PipesShrink

LEMMA KernelTimeOut == ASSUME NEW c \in Callers, KernelInv, Kernel!TimeOut(c) PROVE KernelInv'
<1>1. /\ inbox' = Kernel!Forgotten(inbox, {c}) /\ kernelOutbox' = Kernel!Forgotten(kernelOutbox, {c})
      /\ UNCHANGED <<journal, subject, expired, state, kernelRef, alive, killed, faults, spawns>>
      /\ calls' = [calls EXCEPT ![c] = Kernel!Refused]
  BY Zenon DEF Kernel!TimeOut, Kernel!Forget, Kernel!World, Kernel!Links
<1>2. inbox \in [Kernel!Kids -> Seq(Frames)] /\ kernelOutbox \in [Kernel!Kids -> Seq(AnswerFrames)]
  BY DEF KernelInv, KernelTyped
<1>3. /\ inbox' \in [Kernel!Kids -> Seq(Frames)] /\ From(inbox, inbox', Unmoved)
      /\ \A k \in Kernel!Kids : \A i \in DOMAIN inbox'[k] : inbox'[k][i].by \in Callers => inbox'[k][i].by \notin {c}
  BY <1>1, <1>2, ForgottenFrom, FramesForget
<1>4. /\ kernelOutbox' \in [Kernel!Kids -> Seq(AnswerFrames)] /\ From(kernelOutbox, kernelOutbox', Unmoved)
      /\ \A k \in Kernel!Kids : \A i \in DOMAIN kernelOutbox'[k] :
           kernelOutbox'[k][i].by \in Callers => kernelOutbox'[k][i].by \notin {c}
  BY <1>1, <1>2, ForgottenFrom, FramesForget
<1>5. /\ calls' \in [Callers -> CallRows] /\ \A b \in Callers \ {c} : calls'[b] = calls[b]
      /\ calls'[c] = Kernel!Refused
  BY <1>1, RefusedFits DEF KernelInv, KernelTyped
<1>6. KernelTyped'
  BY <1>1, <1>3, <1>4, <1>5 DEF KernelInv, KernelTyped
<1>7. CallsTold'
  BY <1>1, <1>5, RefusedFits DEF KernelInv, CallsTold
<1>8. Unmoved \in [Kernel!Kids -> Nat]
  BY DEF Unmoved
<1> QED
  BY <1>1, <1>3, <1>4, <1>5, <1>6, <1>7, <1>8, PipesShrink

LEMMA KernelSpawn == KernelInv /\ Kernel!Spawn => KernelInv'
<1> SUFFICES ASSUME KernelInv, Kernel!Spawn PROVE KernelInv'
  OBVIOUS
<1> DEFINE new == spawns + 1
<1>1. /\ spawns < MaxSpawns /\ spawns' = new /\ kernelRef' = new /\ alive' = alive \cup {new}
      /\ inbox' = [inbox EXCEPT ![new] = <<Kernel!Handshake>>]
      /\ UNCHANGED <<journal, subject, expired, state, killed, kernelOutbox, calls, faults>>
  BY Zenon DEF Kernel!Spawn, Kernel!World
<1>2. new \in Kernel!Kids /\ new \in Nat
  BY <1>1, KernelConstants DEF KernelInv, KernelTyped, Kernel!Kids
<1>3. Kernel!Handshake \in Frames /\ Kernel!Handshake.by = "bridge"
  BY DEF Kernel!Handshake, Frames, By, Asks
<1>4. inbox' \in [Kernel!Kids -> Seq(Frames)]
  BY <1>1, <1>2, <1>3 DEF KernelInv, KernelTyped
<1>5. KernelTyped'
  BY <1>1, <1>2, <1>4 DEF KernelInv, KernelTyped
<1>6. ASSUME NEW k \in Kernel!Kids, NEW i \in DOMAIN inbox'[k], inbox'[k][i].by \in Callers
      PROVE  i + Unmoved[k] \in DOMAIN inbox[k] /\ inbox'[k][i] = inbox[k][i + Unmoved[k]]
  <2>1. CASE k = new
    <3>1. inbox'[k][i] = Kernel!Handshake
      BY <1>1, <1>2, <2>1 DEF KernelInv, KernelTyped
    <3> QED
      BY <1>3, <1>6, <3>1, KernelConstants
  <2>2. CASE k # new
    <3>1. inbox'[k] = inbox[k]
      BY <1>1, <2>2 DEF KernelInv, KernelTyped
    <3> QED
      BY <3>1 DEF KernelInv, KernelTyped, Unmoved
  <2> QED
    BY <2>1, <2>2
<1>7. From(inbox, inbox', Unmoved)
  BY <1>6 DEF From
<1>8. From(kernelOutbox, kernelOutbox', Unmoved) /\ Unmoved \in [Kernel!Kids -> Nat]
  BY <1>1, UnmovedFrom DEF KernelInv, KernelTyped
<1>9. CallsTold'
  BY <1>1 DEF KernelInv, CallsTold
<1> QED
  BY <1>1, <1>5, <1>7, <1>8, <1>9, PipesShrink

LEMMA EveryoneForgotten ==
  ASSUME NEW F, NEW p \in [Kernel!Kids -> Seq(F)], Forgets(F)
  PROVE  LET q == Kernel!Forgotten(p, Callers \cup {"bridge"})
         IN /\ q \in [Kernel!Kids -> Seq(F)]
            /\ \A k \in Kernel!Kids : \A i \in DOMAIN q[k] : q[k][i].by \notin Callers
BY ForgottenFrom

LEMMA KernelExit == ASSUME NEW k \in Kernel!Kids, KernelInv, Kernel!Exit(k) PROVE KernelInv'
<1> DEFINE all == Callers \cup {"bridge"}
           p == Kernel!Forgotten(inbox, all)
           q == Kernel!Forgotten(kernelOutbox, all)
<1>1. /\ alive' = alive \ {k} /\ killed' = killed \ {k} /\ kernelRef' = 0
      /\ inbox' = [p EXCEPT ![k] = <<>>] /\ kernelOutbox' = [q EXCEPT ![k] = <<>>]
      /\ UNCHANGED <<journal, subject, expired, faults, spawns>> /\ Kernel!FailAll
  BY Zenon DEF Kernel!Exit, Kernel!World
<1>2. state' \in {"stopped", "failed"}
  BY DEF Kernel!Exit
<1>3. inbox \in [Kernel!Kids -> Seq(Frames)] /\ kernelOutbox \in [Kernel!Kids -> Seq(AnswerFrames)]
  BY DEF KernelInv, KernelTyped
<1>4. p \in [Kernel!Kids -> Seq(Frames)] /\ \A l \in Kernel!Kids : \A i \in DOMAIN p[l] : p[l][i].by \notin Callers
  BY <1>3, EveryoneForgotten, FramesForget
<1>5. q \in [Kernel!Kids -> Seq(AnswerFrames)] /\ \A l \in Kernel!Kids : \A i \in DOMAIN q[l] : q[l][i].by \notin Callers
  BY <1>3, EveryoneForgotten, FramesForget
<1> HIDE DEF p, q
<1>6. /\ inbox' \in [Kernel!Kids -> Seq(Frames)]
      /\ \A l \in Kernel!Kids : \A i \in DOMAIN inbox'[l] : inbox'[l][i].by \notin Callers
  BY <1>1, <1>4
<1>7. /\ kernelOutbox' \in [Kernel!Kids -> Seq(AnswerFrames)]
      /\ \A l \in Kernel!Kids : \A i \in DOMAIN kernelOutbox'[l] : kernelOutbox'[l][i].by \notin Callers
  BY <1>1, <1>5
<1>8. calls' \in [Callers -> CallRows] /\ CallsTold'
  BY <1>1, FailedCalls
<1>9. KernelTyped'
  BY <1>1, <1>2, <1>6, <1>7, <1>8 DEF KernelInv, KernelTyped
<1> QED
  BY <1>1, <1>6, <1>7, <1>8, <1>9, LostIsKept

Rest(p, k) == [p EXCEPT ![k] = Tail(@)]
Past(k) == [Unmoved EXCEPT ![k] = 1]

\* A pipe without its first frame.
LEMMA FirstIsGone ==
  ASSUME NEW F, NEW p \in [Kernel!Kids -> Seq(F)], NEW k \in Kernel!Kids, p[k] # <<>>
  PROVE  LET q == Rest(p, k)
             d == Past(k)
         IN /\ q \in [Kernel!Kids -> Seq(F)] /\ d \in [Kernel!Kids -> Nat] /\ From(p, q, d)
            /\ \A l \in Kernel!Kids : \A i \in DOMAIN q[l] : ~(l = k /\ i + d[l] = 1)
            /\ Head(p[k]) \in F /\ 1 \in DOMAIN p[k] /\ Head(p[k]) = p[k][1]
<1> DEFINE q == Rest(p, k)
           d == Past(k)
<1>1. q \in [Kernel!Kids -> Seq(F)] /\ q[k] = Tail(p[k]) /\ \A l \in Kernel!Kids : l # k => q[l] = p[l]
  BY DEF Rest
<1>2. d \in [Kernel!Kids -> Nat] /\ d[k] = 1 /\ \A l \in Kernel!Kids : l # k => d[l] = 0
  BY DEF Past, Unmoved
<1>3. p[k] \in Seq(F) /\ Head(p[k]) \in F /\ 1 \in DOMAIN p[k] /\ Head(p[k]) = p[k][1]
  OBVIOUS
<1> HIDE DEF q, d
<1>4. ASSUME NEW l \in Kernel!Kids, NEW i \in DOMAIN q[l]
      PROVE  i + d[l] \in DOMAIN p[l] /\ q[l][i] = p[l][i + d[l]] /\ ~(l = k /\ i + d[l] = 1)
  <2>1. CASE l = k
    <3>1. i \in 1..Len(Tail(p[k])) /\ Len(Tail(p[k])) = Len(p[k]) - 1 /\ Len(p[k]) \in Nat
      BY <1>1, <1>3, <2>1
    <3>2. Tail(p[k])[i] = p[k][i + 1] /\ i + 1 \in DOMAIN p[k] /\ i + 1 # 1
      BY <1>3, <3>1
    <3> QED
      BY <1>1, <1>2, <2>1, <3>2
  <2>2. CASE l # k
    <3>1. i \in DOMAIN p[l] /\ i \in Nat /\ d[l] = 0 /\ q[l] = p[l]
      BY <1>1, <1>2, <2>2
    <3> QED
      BY <2>2, <3>1
  <2> QED
    BY <2>1, <2>2
<1>5. From(p, q, d)
  BY <1>4 DEF From
<1> QED
  BY <1>1, <1>2, <1>3, <1>4, <1>5 DEF q, d

With(p, k, f) == [p EXCEPT ![k] = Append(@, f)]

\* A pipe with one more frame.
LEMMA LastIsNew ==
  ASSUME NEW F, NEW p \in [Kernel!Kids -> Seq(F)], NEW k \in Kernel!Kids, NEW f \in F
  PROVE  LET q == With(p, k, f)
             last == Len(p[k]) + 1
         IN /\ q \in [Kernel!Kids -> Seq(F)]
            /\ \A l \in Kernel!Kids : \A i \in DOMAIN q[l] :
                 \/ i \in DOMAIN p[l] /\ q[l][i] = p[l][i]
                 \/ l = k /\ i = last /\ q[l][i] = f
<1> DEFINE q == With(p, k, f)
<1>1. q \in [Kernel!Kids -> Seq(F)] /\ q[k] = Append(p[k], f) /\ \A l \in Kernel!Kids : l # k => q[l] = p[l]
  BY DEF With
<1> HIDE DEF q
<1>2. ASSUME NEW l \in Kernel!Kids, NEW i \in DOMAIN q[l]
      PROVE  \/ i \in DOMAIN p[l] /\ q[l][i] = p[l][i]
             \/ l = k /\ i = Len(p[k]) + 1 /\ q[l][i] = f
  <2>1. CASE l = k
    <3>1. p[k] \in Seq(F) /\ Len(p[k]) \in Nat /\ i \in 1..Len(p[k]) + 1
      BY <1>1, <2>1
    <3> QED
      BY <1>1, <2>1, <3>1
  <2>2. CASE l # k
    BY <1>1, <2>2
  <2> QED
    BY <2>1, <2>2
<1> QED
  BY <1>1, <1>2 DEF q

LEMMA ToldFits == \A answer : Kernel!Told(answer) \in {"refused", "ok", "current", "stale"}
BY DEF Kernel!Told

\* acceptResult for an answer that is understood.
LEMMA KernelTakes ==
  ASSUME NEW k \in Kernel!Kids, KernelInv, kernelOutbox[k] # <<>>,
         kernelOutbox' = [kernelOutbox EXCEPT ![k] = Tail(@)],
         state' \in {"stopped", "starting", "ready", "failed"},
         calls' = IF Head(kernelOutbox[k]).by \in Callers
                    THEN [calls EXCEPT ![Head(kernelOutbox[k]).by] = Kernel!Answered(@, Head(kernelOutbox[k]).answer)]
                    ELSE calls,
         UNCHANGED <<journal, subject, expired, kernelRef, alive, killed, faults, inbox, spawns>>
  PROVE  KernelInv'
<1> DEFINE frame == Head(kernelOutbox[k])
           e == Past(k)
<1>0. KernelTyped /\ FramesFit /\ OneFrame /\ CallsTold
  BY DEF KernelInv
<1>1. kernelOutbox \in [Kernel!Kids -> Seq(AnswerFrames)] /\ inbox \in [Kernel!Kids -> Seq(Frames)]
  BY <1>0 DEF KernelTyped
<1>2. /\ kernelOutbox' \in [Kernel!Kids -> Seq(AnswerFrames)] /\ e \in [Kernel!Kids -> Nat]
      /\ From(kernelOutbox, kernelOutbox', e)
      /\ \A l \in Kernel!Kids : \A i \in DOMAIN kernelOutbox'[l] : ~(l = k /\ i + e[l] = 1)
      /\ frame \in AnswerFrames /\ 1 \in DOMAIN kernelOutbox[k] /\ frame = kernelOutbox[k][1]
  <2>1. kernelOutbox' = Rest(kernelOutbox, k)
    BY DEF Rest
  <2>2. kernelOutbox[k] # <<>>
    OBVIOUS
  <2> HIDE DEF frame, e
  <2> DEFINE q == Rest(kernelOutbox, k)
  <2>3. /\ q \in [Kernel!Kids -> Seq(AnswerFrames)] /\ Past(k) \in [Kernel!Kids -> Nat]
        /\ From(kernelOutbox, q, Past(k))
        /\ \A l \in Kernel!Kids : \A i \in DOMAIN q[l] : ~(l = k /\ i + Past(k)[l] = 1)
    BY <1>1, <2>2, FirstIsGone
  <2>4. Head(kernelOutbox[k]) \in AnswerFrames /\ 1 \in DOMAIN kernelOutbox[k] /\ Head(kernelOutbox[k]) = kernelOutbox[k][1]
    BY <1>1, <2>2, FirstIsGone
  <2> HIDE DEF q
  <2> QED
    BY <2>1, <2>3, <2>4 DEF q, e, frame
<1>3. From(inbox, inbox', Unmoved) /\ Unmoved \in [Kernel!Kids -> Nat]
  BY <1>1, UnmovedFrom
<1> HIDE DEF frame, e
<1>4. CASE frame.by \notin Callers
  <2>1. calls' = calls
    BY <1>4 DEF frame
  <2>2. KernelTyped' /\ CallsTold'
    BY <1>0, <1>2, <2>1 DEF KernelTyped, CallsTold
  <2> QED
    BY <1>2, <1>3, <2>1, <2>2, PipesShrink
<1>5. CASE frame.by \in Callers
  <2> DEFINE c == frame.by
  <2>1. calls' = [calls EXCEPT ![c] = Kernel!Answered(@, frame.answer)]
    BY <1>5 DEF frame
  <2>2. calls \in [Callers -> CallRows] /\ calls[c].told = "waiting" /\ calls[c].req = frame.req
    BY <1>0, <1>2, <1>5 DEF KernelTyped, FramesFit, Fits
  <2>3. AnswerTrue(journal, frame.req, frame.answer)
    BY <1>0, <1>2, <1>5 DEF FramesFit
  <2>4. /\ calls'[c] = Kernel!Answered(calls[c], frame.answer)
        /\ \A b \in Callers \ {c} : calls'[b] = calls[b]
    BY <1>5, <2>1, <2>2
  <2>5. calls'[c] = Kernel!Refused \/ calls'[c] = [req |-> calls[c].req, told |-> Kernel!Told(frame.answer)]
    <3>1. calls[c] = [req |-> calls[c].req, told |-> calls[c].told]
      BY <1>5, <2>2 DEF CallRows
    <3>2. [calls[c] EXCEPT !.told = Kernel!Told(frame.answer)] = [req |-> calls[c].req, told |-> Kernel!Told(frame.answer)]
      BY <3>1
    <3> QED
      BY <2>4, <3>2 DEF Kernel!Answered
  <2>6. calls'[c] \in CallRows
    BY <1>5, <2>2, <2>5, RefusedFits, ToldFits DEF CallRows, Tellings
  <2>7. calls' \in [Callers -> CallRows]
    <3>1. calls' = [b \in Callers |-> calls'[b]] /\ \A b \in Callers : calls'[b] \in CallRows
      BY <2>1, <2>2, <2>4, <2>6
    <3> QED
      BY <3>1
  <2>8. KernelTyped'
    BY <1>0, <1>2, <2>7 DEF KernelTyped
  <2>9. CallsTold'
    <3>1. calls'[c].told = "ok" => Says(journal, calls'[c].req)
      BY <2>2, <2>3, <2>5, RefusedFits DEF AnswerTrue
    <3>2. calls'[c].told \in {"current", "stale"} => SaysVerdict(journal, calls'[c].req)
      BY <2>2, <2>3, <2>5, RefusedFits DEF AnswerTrue
    <3> QED
      BY <1>0, <2>4, <3>1, <3>2 DEF CallsTold
  <2>10. ASSUME NEW l \in Kernel!Kids, NEW i \in DOMAIN inbox'[l], inbox'[l][i].by \in Callers
         PROVE  calls'[inbox'[l][i].by] = calls[inbox'[l][i].by]
    <3>1. inbox[l][i].by # frame.by
      BY <1>0, <1>2, <2>10 DEF OneFrame
    <3> QED
      BY <2>4, <2>10, <3>1
  <2>11. ASSUME NEW l \in Kernel!Kids, NEW i \in DOMAIN kernelOutbox'[l], kernelOutbox'[l][i].by \in Callers
         PROVE  calls'[kernelOutbox'[l][i].by] = calls[kernelOutbox'[l][i].by]
    <3>1. i + e[l] \in DOMAIN kernelOutbox[l] /\ kernelOutbox'[l][i] = kernelOutbox[l][i + e[l]] /\ ~(l = k /\ i + e[l] = 1)
      BY <1>2, <2>11 DEF From
    <3>2. kernelOutbox[l][i + e[l]].by # frame.by
      BY <1>0, <1>2, <2>11, <3>1 DEF OneFrame
    <3> QED
      BY <2>4, <2>11, <3>1, <3>2
  <2> QED
    BY <1>2, <1>3, <2>8, <2>9, <2>10, <2>11, PipesShrink
<1> QED
  BY <1>4, <1>5

\* protocolFailure, for either reason.
LEMMA KernelFaults ==
  ASSUME NEW k \in Kernel!Kids, KernelInv, kernelOutbox[k] # <<>>,
         NEW why \in {"frame", "projection"}, Kernel!ProtocolFailure(why),
         kernelOutbox' = Kernel!Forgotten([kernelOutbox EXCEPT ![k] = Tail(@)], Callers \cup {"bridge"}),
         UNCHANGED <<journal, subject, expired, kernelRef, alive, spawns>>
  PROVE  KernelInv'
<1> DEFINE p == Rest(kernelOutbox, k)
<1>1. kernelOutbox \in [Kernel!Kids -> Seq(AnswerFrames)] /\ inbox \in [Kernel!Kids -> Seq(Frames)]
  BY DEF KernelInv, KernelTyped
<1>2. p \in [Kernel!Kids -> Seq(AnswerFrames)]
  BY <1>1, FirstIsGone
<1>3. kernelOutbox' = Kernel!Forgotten(p, Callers \cup {"bridge"})
  BY DEF Rest
<1> HIDE DEF p
<1>4. /\ Kernel!FailAll /\ killed' = killed \cup ({kernelRef} \ {0}) /\ faults' = faults \cup {why}
      /\ inbox' = Kernel!Forgotten(inbox, Callers \cup {"bridge"})
  BY Zenon DEF Kernel!ProtocolFailure
<1>5. state' \in {"stopped", "starting", "ready", "failed"}
  BY DEF Kernel!ProtocolFailure, KernelInv, KernelTyped
<1>6. /\ inbox' \in [Kernel!Kids -> Seq(Frames)]
      /\ \A l \in Kernel!Kids : \A i \in DOMAIN inbox'[l] : inbox'[l][i].by \notin Callers
  BY <1>1, <1>4, EveryoneForgotten, FramesForget
<1>7. /\ kernelOutbox' \in [Kernel!Kids -> Seq(AnswerFrames)]
      /\ \A l \in Kernel!Kids : \A i \in DOMAIN kernelOutbox'[l] : kernelOutbox'[l][i].by \notin Callers
  BY <1>2, <1>3, EveryoneForgotten, FramesForget
<1>8. calls' \in [Callers -> CallRows] /\ CallsTold'
  BY <1>4, FailedCalls
<1>9. KernelTyped'
  BY <1>4, <1>5, <1>6, <1>7, <1>8 DEF KernelInv, KernelTyped
<1> QED
  BY <1>6, <1>7, <1>8, <1>9, LostIsKept

LEMMA KernelReceive == ASSUME NEW k \in Kernel!Kids, KernelInv, Kernel!Receive(k) PROVE KernelInv'
<1> DEFINE frame == Head(kernelOutbox[k])
           gone == [kernelOutbox EXCEPT ![k] = Tail(@)]
           Unread == Kernel!ProtocolFailure("frame") /\ kernelOutbox' = Kernel!Forgotten(gone, Callers \cup {"bridge"})
           Unfit == Kernel!ProtocolFailure("projection") /\ kernelOutbox' = Kernel!Forgotten(gone, Callers \cup {"bridge"})
           Fitting == /\ kernelOutbox' = gone
                      /\ state' = IF frame.by = "bridge" THEN "ready" ELSE state
                      /\ calls' = IF frame.by \in Callers
                                    THEN [calls EXCEPT ![frame.by] = Kernel!Answered(@, frame.answer)]
                                    ELSE calls
                      /\ UNCHANGED <<residue, killed, faults, inbox>>
<1>1. kernelOutbox[k] # <<>> /\ UNCHANGED <<journal, subject, expired, kernelRef, alive, spawns>>
  BY Zenon DEF Kernel!Receive, Kernel!World, Kernel!Budgets
<1>2. Unread \/ Unfit \/ Fitting
  BY Zenon DEF Kernel!Receive
<1>3. CASE Unread
  BY <1>1, <1>3, KernelFaults
<1>4. CASE Unfit
  BY <1>1, <1>4, KernelFaults
<1>5. CASE Fitting
  <2>1. state' \in {"stopped", "starting", "ready", "failed"}
    BY <1>5 DEF KernelInv, KernelTyped
  <2> QED
    BY <1>1, <1>5, <2>1, KernelTakes
<1> QED
  BY <1>2, <1>3, <1>4, <1>5

LEMMA KernelAsk ==
  ASSUME NEW c \in Callers, NEW r \in Requests, KernelInv, Kernel!Ask(c, r) PROVE KernelInv'
<1> DEFINE f == [by |-> c, measured |-> subject, req |-> r]
           asked == [req |-> r, told |-> "waiting"]
<1>0. KernelTyped /\ FramesFit /\ OneFrame /\ CallsTold /\ Kernel!Kept(journal)
  BY DEF KernelInv
<1>1. /\ calls[c].told # "waiting" /\ kernelRef # 0 /\ calls' = [calls EXCEPT ![c] = asked]
      /\ inbox' = IF expected THEN inbox ELSE With(inbox, kernelRef, f)
      /\ UNCHANGED <<journal, subject, expired, state, kernelRef, alive, killed, kernelOutbox, faults, spawns>>
  BY DEF Kernel!Ask, Kernel!Waiting, Kernel!World, Kernel!Links, Kernel!Budgets, With
<1>2. kernelRef \in Kernel!Kids /\ r \in Kernel!Envelope
  BY <1>0, <1>1, KernelConstants DEF KernelTyped
<1>3. inbox \in [Kernel!Kids -> Seq(Frames)] /\ kernelOutbox \in [Kernel!Kids -> Seq(AnswerFrames)]
  BY <1>0 DEF KernelTyped
<1>4. f \in Frames
  BY <1>0, <1>2 DEF Frames, By, Asks, KernelTyped
<1>5. f.by = c /\ f.req = r /\ asked.told = "waiting" /\ asked.req = r /\ asked \in CallRows
  BY <1>2 DEF CallRows, Tellings
<1> HIDE DEF f, asked
<1>6. calls' \in [Callers -> CallRows] /\ calls'[c] = asked /\ \A b \in Callers \ {c} : calls'[b] = calls[b]
  BY <1>0, <1>1, <1>5 DEF KernelTyped
<1>7. CallsTold'
  BY <1>0, <1>1, <1>5, <1>6 DEF CallsTold
<1>8. \A k \in Kernel!Kids :
        /\ \A i \in DOMAIN inbox[k] : inbox[k][i].by # c
        /\ \A i \in DOMAIN kernelOutbox[k] : kernelOutbox[k][i].by # c
  BY <1>0, <1>1 DEF FramesFit, Fits
<1>9. CASE expected
  <2>1. inbox' = inbox
    BY <1>1, <1>9
  <2>2. KernelTyped'
    BY <1>0, <1>1, <1>6, <2>1 DEF KernelTyped
  <2>3. From(inbox, inbox', Unmoved) /\ From(kernelOutbox, kernelOutbox', Unmoved) /\ Unmoved \in [Kernel!Kids -> Nat]
    BY <1>1, <1>3, <2>1, UnmovedFrom
  <2> QED
    BY <1>1, <1>6, <1>7, <1>8, <2>1, <2>2, <2>3, PipesShrink
<1>10. CASE ~expected
  <2> DEFINE last == Len(inbox[kernelRef]) + 1
  <2>1. inbox' = With(inbox, kernelRef, f)
    BY <1>1, <1>10
  <2>2. /\ inbox' \in [Kernel!Kids -> Seq(Frames)]
        /\ \A k \in Kernel!Kids : \A i \in DOMAIN inbox'[k] :
             \/ i \in DOMAIN inbox[k] /\ inbox'[k][i] = inbox[k][i]
             \/ k = kernelRef /\ i = last /\ inbox'[k][i] = f
    <3> DEFINE q == With(inbox, kernelRef, f)
    <3>1. /\ q \in [Kernel!Kids -> Seq(Frames)]
          /\ \A k \in Kernel!Kids : \A i \in DOMAIN q[k] :
               \/ i \in DOMAIN inbox[k] /\ q[k][i] = inbox[k][i]
               \/ k = kernelRef /\ i = last /\ q[k][i] = f
      <4>1. kernelRef \in Kernel!Kids /\ inbox \in [Kernel!Kids -> Seq(Frames)] /\ f \in Frames
        BY <1>2, <1>3, <1>4
      <4> QED
        BY <4>1, LastIsNew
    <3> HIDE DEF q, last
    <3> QED
      BY <2>1, <3>1 DEF q
  <2> HIDE DEF last
  <2>3. KernelTyped'
    BY <1>0, <1>1, <1>6, <2>2 DEF KernelTyped
  <2>4. FramesFit'
    <3>1. ASSUME NEW k \in Kernel!Kids, NEW i \in DOMAIN inbox'[k] PROVE Fits(inbox[k][i])'
      <4>1. CASE i \in DOMAIN inbox[k] /\ inbox'[k][i] = inbox[k][i]
        BY <1>0, <1>6, <1>8, <4>1 DEF FramesFit, Fits
      <4>2. CASE inbox'[k][i] = f
        BY <1>2, <1>5, <1>6, <4>2 DEF Fits
      <4> QED
        BY <2>2, <4>1, <4>2
    <3>2. ASSUME NEW k \in Kernel!Kids, NEW i \in DOMAIN kernelOutbox'[k]
          PROVE  (/\ Fits(kernelOutbox[k][i])
                  /\ kernelOutbox[k][i].by \in Callers =>
                       AnswerTrue(journal, kernelOutbox[k][i].req, kernelOutbox[k][i].answer))'
      BY <1>0, <1>1, <1>6, <1>8 DEF FramesFit, Fits
    <3> QED
      BY <3>1, <3>2 DEF FramesFit
  <2>5. OneFrame'
    <3> SUFFICES ASSUME NEW k \in Kernel!Kids, NEW l \in Kernel!Kids
                 PROVE  (/\ \A i \in DOMAIN inbox[k], j \in DOMAIN inbox[l] :
                              inbox[k][i].by \in Callers /\ inbox[k][i].by = inbox[l][j].by => k = l /\ i = j
                         /\ \A i \in DOMAIN kernelOutbox[k], j \in DOMAIN kernelOutbox[l] :
                              kernelOutbox[k][i].by \in Callers /\ kernelOutbox[k][i].by = kernelOutbox[l][j].by => k = l /\ i = j
                         /\ \A i \in DOMAIN inbox[k], j \in DOMAIN kernelOutbox[l] :
                              inbox[k][i].by \in Callers => inbox[k][i].by # kernelOutbox[l][j].by)'
      BY DEF OneFrame
    <3>1. ASSUME NEW i \in DOMAIN inbox'[k], NEW j \in DOMAIN inbox'[l],
                 inbox'[k][i].by \in Callers, inbox'[k][i].by = inbox'[l][j].by
          PROVE  k = l /\ i = j
      <4>1. CASE i \in DOMAIN inbox[k] /\ inbox'[k][i] = inbox[k][i]
        <5>1. j \in DOMAIN inbox[l] /\ inbox'[l][j] = inbox[l][j]
          BY <1>5, <1>8, <2>2, <3>1, <4>1
        <5> QED
          BY <1>0, <3>1, <4>1, <5>1 DEF OneFrame
      <4>2. CASE k = kernelRef /\ i = last /\ inbox'[k][i] = f
        <5>1. l = kernelRef /\ j = last
          BY <1>5, <1>8, <2>2, <3>1, <4>2
        <5> QED
          BY <4>2, <5>1
      <4> QED
        BY <2>2, <4>1, <4>2
    <3>2. ASSUME NEW i \in DOMAIN inbox'[k], NEW j \in DOMAIN kernelOutbox'[l], inbox'[k][i].by \in Callers
          PROVE  inbox'[k][i].by # kernelOutbox'[l][j].by
      <4>1. CASE i \in DOMAIN inbox[k] /\ inbox'[k][i] = inbox[k][i]
        BY <1>0, <1>1, <3>2, <4>1 DEF OneFrame
      <4>2. CASE inbox'[k][i] = f
        BY <1>1, <1>5, <1>8, <4>2
      <4> QED
        BY <2>2, <4>1, <4>2
    <3> QED
      BY <1>0, <1>1, <3>1, <3>2 DEF OneFrame
  <2>6. Kernel!Kept(journal)'
    BY <1>0, <1>1
  <2> QED
    BY <1>7, <2>3, <2>4, <2>5, <2>6 DEF KernelInv
<1> QED
  BY <1>9, <1>10

LEMMA KernelServe == ASSUME NEW k \in Kernel!Kids, KernelInv, Kernel!Serve(k) PROVE KernelInv'
<1> DEFINE frame == Head(inbox[k])
           done == Kernel!Dispatch(journal, frame.req, frame.measured, expired)
           reply == [by |-> frame.by, req |-> frame.req, answer |-> done.answer]
           last == Len(kernelOutbox[k]) + 1
<1>0. KernelTyped /\ FramesFit /\ OneFrame /\ CallsTold /\ Kernel!Kept(journal)
  BY DEF KernelInv
<1>1. /\ inbox[k] # <<>> /\ journal' = done.journal
      /\ inbox' = Rest(inbox, k) /\ kernelOutbox' = With(kernelOutbox, k, reply)
      /\ UNCHANGED <<subject, expired, state, kernelRef, alive, killed, calls, faults, spawns>>
  BY DEF Kernel!Serve, Kernel!World, Kernel!Links, Kernel!Budgets, With, Rest
<1>2. inbox \in [Kernel!Kids -> Seq(Frames)] /\ kernelOutbox \in [Kernel!Kids -> Seq(AnswerFrames)]
  BY <1>0 DEF KernelTyped
<1>3. frame \in Frames /\ 1 \in DOMAIN inbox[k] /\ frame = inbox[k][1]
  BY <1>1, <1>2, FirstIsGone
<1>4. /\ inbox' \in [Kernel!Kids -> Seq(Frames)] /\ Past(k) \in [Kernel!Kids -> Nat] /\ From(inbox, inbox', Past(k))
      /\ \A l \in Kernel!Kids : \A i \in DOMAIN inbox'[l] : ~(l = k /\ i + Past(k)[l] = 1)
  <2> DEFINE q == Rest(inbox, k)
  <2>1. inbox[k] # <<>>
    BY <1>1
  <2>2. /\ q \in [Kernel!Kids -> Seq(Frames)] /\ Past(k) \in [Kernel!Kids -> Nat] /\ From(inbox, q, Past(k))
        /\ \A l \in Kernel!Kids : \A i \in DOMAIN q[l] : ~(l = k /\ i + Past(k)[l] = 1)
    BY <1>2, <2>1, FirstIsGone
  <2> HIDE DEF q
  <2> QED
    BY <1>1, <2>2 DEF q
<1> HIDE DEF frame
<1>5. /\ Kernel!Kept(done.journal) /\ journal \subseteq done.journal /\ done.answer \in Answers
      /\ frame.req \in Kernel!Envelope => AnswerTrue(done.journal, frame.req, done.answer)
  <2>1. frame.req \in Asks
    BY <1>3 DEF Frames
  <2> QED
    BY <1>0, <2>1, DispatchIsGood
<1> HIDE DEF done
<1>6. reply \in AnswerFrames /\ reply.by = frame.by /\ reply.req = frame.req /\ reply.answer = done.answer
  BY <1>3, <1>5 DEF AnswerFrames, Frames
<1> HIDE DEF reply
<1>7. /\ kernelOutbox' \in [Kernel!Kids -> Seq(AnswerFrames)]
      /\ \A l \in Kernel!Kids : \A i \in DOMAIN kernelOutbox'[l] :
           \/ i \in DOMAIN kernelOutbox[l] /\ kernelOutbox'[l][i] = kernelOutbox[l][i]
           \/ l = k /\ i = last /\ kernelOutbox'[l][i] = reply
  BY <1>1, <1>2, <1>6, LastIsNew
<1> HIDE DEF last
<1>8. KernelTyped'
  BY <1>0, <1>1, <1>4, <1>7 DEF KernelTyped
<1>9. CallsTold'
  <2>1. ASSUME NEW c \in Callers
        PROVE  /\ calls'[c].told = "ok" => Says(journal', calls'[c].req)
               /\ calls'[c].told \in {"current", "stale"} => SaysVerdict(journal', calls'[c].req)
    BY <1>0, <1>1, <1>5, SaidStays DEF CallsTold
  <2> QED
    BY <2>1 DEF CallsTold
<1>10. ASSUME NEW l \in Kernel!Kids, NEW i \in DOMAIN inbox'[l], inbox'[l][i].by \in Callers
       PROVE  /\ i + Past(k)[l] \in DOMAIN inbox[l] /\ inbox'[l][i] = inbox[l][i + Past(k)[l]]
              /\ ~(l = k /\ i + Past(k)[l] = 1)
  BY <1>4, <1>10 DEF From
<1>11. FramesFit'
  <2>1. ASSUME NEW l \in Kernel!Kids, NEW i \in DOMAIN inbox'[l] PROVE Fits(inbox[l][i])'
    BY <1>0, <1>1, <1>10 DEF FramesFit, Fits
  <2>2. ASSUME NEW l \in Kernel!Kids, NEW i \in DOMAIN kernelOutbox'[l]
        PROVE  (/\ Fits(kernelOutbox[l][i])
                /\ kernelOutbox[l][i].by \in Callers =>
                     AnswerTrue(journal, kernelOutbox[l][i].req, kernelOutbox[l][i].answer))'
    <3>1. CASE i \in DOMAIN kernelOutbox[l] /\ kernelOutbox'[l][i] = kernelOutbox[l][i]
      <4>1. Fits(kernelOutbox[l][i])'
        BY <1>0, <1>1, <3>1 DEF FramesFit, Fits
      <4>2. kernelOutbox[l][i].by \in Callers => AnswerTrue(journal, kernelOutbox[l][i].req, kernelOutbox[l][i].answer)
        BY <1>0, <3>1 DEF FramesFit
      <4>3. kernelOutbox[l][i].by \in Callers => AnswerTrue(journal', kernelOutbox[l][i].req, kernelOutbox[l][i].answer)
        BY <1>1, <1>5, <4>2, SaidStays
      <4> QED
        BY <3>1, <4>1, <4>3
    <3>2. CASE kernelOutbox'[l][i] = reply
      <4>1. CASE frame.by \in Callers
        <5>1. calls[frame.by].told = "waiting" /\ calls[frame.by].req = frame.req /\ frame.req \in Kernel!Envelope
          BY <1>0, <1>3, <4>1 DEF FramesFit, Fits
        <5> QED
          BY <1>1, <1>5, <1>6, <3>2, <5>1 DEF Fits
      <4>2. CASE frame.by \notin Callers
        BY <1>6, <3>2, <4>2 DEF Fits
      <4> QED
        BY <4>1, <4>2
    <3> QED
      BY <1>7, <3>1, <3>2
  <2> QED
    BY <2>1, <2>2 DEF FramesFit
<1>12. OneFrame'
  <2> SUFFICES ASSUME NEW m \in Kernel!Kids, NEW l \in Kernel!Kids
               PROVE  (/\ \A i \in DOMAIN inbox[m], j \in DOMAIN inbox[l] :
                            inbox[m][i].by \in Callers /\ inbox[m][i].by = inbox[l][j].by => m = l /\ i = j
                       /\ \A i \in DOMAIN kernelOutbox[m], j \in DOMAIN kernelOutbox[l] :
                            kernelOutbox[m][i].by \in Callers /\ kernelOutbox[m][i].by = kernelOutbox[l][j].by => m = l /\ i = j
                       /\ \A i \in DOMAIN inbox[m], j \in DOMAIN kernelOutbox[l] :
                            inbox[m][i].by \in Callers => inbox[m][i].by # kernelOutbox[l][j].by)'
    BY DEF OneFrame
  <2>1. ASSUME NEW i \in DOMAIN inbox'[m], NEW j \in DOMAIN inbox'[l],
               inbox'[m][i].by \in Callers, inbox'[m][i].by = inbox'[l][j].by
        PROVE  m = l /\ i = j
    <3>1. m = l /\ i + Past(k)[m] = j + Past(k)[l]
      BY <1>0, <1>10, <2>1 DEF OneFrame
    <3>2. i \in Nat /\ j \in Nat /\ Past(k)[m] \in Nat
      BY <1>4
    <3> QED
      BY <3>1, <3>2
  <2>2. ASSUME NEW i \in DOMAIN kernelOutbox'[m], NEW j \in DOMAIN kernelOutbox'[l],
               kernelOutbox'[m][i].by \in Callers, kernelOutbox'[m][i].by = kernelOutbox'[l][j].by
        PROVE  m = l /\ i = j
    <3>1. CASE i \in DOMAIN kernelOutbox[m] /\ kernelOutbox'[m][i] = kernelOutbox[m][i]
      <4>1. CASE j \in DOMAIN kernelOutbox[l] /\ kernelOutbox'[l][j] = kernelOutbox[l][j]
        BY <1>0, <2>2, <3>1, <4>1 DEF OneFrame
      <4>2. CASE kernelOutbox'[l][j] = reply
        BY <1>0, <1>3, <1>6, <2>2, <3>1, <4>2 DEF OneFrame
      <4> QED
        BY <1>7, <4>1, <4>2
    <3>2. CASE m = k /\ i = last /\ kernelOutbox'[m][i] = reply
      <4>1. CASE j \in DOMAIN kernelOutbox[l] /\ kernelOutbox'[l][j] = kernelOutbox[l][j]
        BY <1>0, <1>3, <1>6, <2>2, <3>2, <4>1 DEF OneFrame
      <4>2. CASE l = k /\ j = last
        BY <3>2, <4>2
      <4> QED
        BY <1>7, <4>1, <4>2
    <3> QED
      BY <1>7, <3>1, <3>2
  <2>3. ASSUME NEW i \in DOMAIN inbox'[m], NEW j \in DOMAIN kernelOutbox'[l], inbox'[m][i].by \in Callers
        PROVE  inbox'[m][i].by # kernelOutbox'[l][j].by
    <3>1. CASE j \in DOMAIN kernelOutbox[l] /\ kernelOutbox'[l][j] = kernelOutbox[l][j]
      BY <1>0, <1>10, <2>3, <3>1 DEF OneFrame
    <3>2. CASE kernelOutbox'[l][j] = reply
      BY <1>0, <1>3, <1>6, <1>10, <2>3, <3>2 DEF OneFrame
    <3> QED
      BY <1>7, <3>1, <3>2
  <2> QED
    BY <2>1, <2>2, <2>3
<1>13. Kernel!Kept(journal)'
  BY <1>1, <1>5
<1> QED
  BY <1>8, <1>9, <1>11, <1>12, <1>13 DEF KernelInv

LEMMA KernelQuiet ==
  KernelInv /\ (\/ Kernel!Start \/ Kernel!StartFails \/ Kernel!Incomplete \/ Kernel!Shutdown
                \/ Kernel!Environment \/ UNCHANGED kernelVars) => KernelInv'
<1>0. KernelInv => KernelTyped
  BY DEF KernelInv
<1>1. KernelInv /\ Kernel!Start => KernelInv'
  <2>1. KernelTyped /\ Kernel!Start => KernelTyped' /\ UNCHANGED <<journal, calls, inbox, kernelOutbox>>
    BY DEF KernelTyped, Kernel!Start, Kernel!World, Kernel!Links, Kernel!Pipes, Kernel!Budgets
  <2> QED
    BY <1>0, <2>1, QuietIsKept
<1>2. KernelInv /\ (Kernel!StartFails \/ Kernel!Incomplete) => KernelInv'
  <2>1. KernelTyped /\ (Kernel!StartFails \/ Kernel!Incomplete)
          => KernelTyped' /\ UNCHANGED <<journal, calls, inbox, kernelOutbox>>
    BY DEF KernelTyped, Kernel!StartFails, Kernel!Incomplete, Kernel!World, Kernel!Links, Kernel!Pipes, Kernel!Budgets
  <2> QED
    BY <1>0, <2>1, QuietIsKept
<1>3. KernelInv /\ Kernel!Shutdown => KernelInv'
  <2>1. KernelTyped /\ Kernel!Shutdown => KernelTyped' /\ UNCHANGED <<journal, calls, inbox, kernelOutbox>>
    BY DEF KernelTyped, Kernel!Shutdown, Kernel!World, Kernel!Pipes, Kernel!Budgets
  <2> QED
    BY <1>0, <2>1, QuietIsKept
<1>4. KernelInv /\ Kernel!Environment => KernelInv'
  <2>1. KernelTyped /\ Kernel!Environment => KernelTyped' /\ UNCHANGED <<journal, calls, inbox, kernelOutbox>>
    BY DEF KernelTyped, Kernel!Environment, Kernel!Change, Kernel!Links, Kernel!Pipes, Kernel!Budgets
  <2> QED
    BY <1>0, <2>1, QuietIsKept
<1>5. KernelInv /\ UNCHANGED kernelVars => KernelInv'
  <2>1. KernelTyped /\ UNCHANGED kernelVars => KernelTyped' /\ UNCHANGED <<journal, calls, inbox, kernelOutbox>>
    BY DEF KernelTyped, kernelVars
  <2> QED
    BY <1>0, <2>1, QuietIsKept
<1> QED
  BY <1>1, <1>2, <1>3, <1>4, <1>5

LEMMA KernelStep == KernelInv /\ (Kernel!Next \/ UNCHANGED kernelVars) => KernelInv'
<1>1. KernelInv /\ (\E c \in Callers : (\E r \in Requests : Kernel!Ask(c, r)) \/ Kernel!TimeOut(c)) => KernelInv'
  BY KernelAsk, KernelTimeOut
<1>2. KernelInv /\ (\E k \in Kernel!Kids : Kernel!Serve(k) \/ Kernel!Receive(k) \/ Kernel!Exit(k)) => KernelInv'
  BY KernelServe, KernelReceive, KernelExit
<1> QED
  BY <1>1, <1>2, KernelQuiet, KernelSpawn, KernelNotReady, Zenon DEF Kernel!Next

LEMMA KernelShown ==
  KernelInv => Kernel!TypeOK /\ Kernel!PassIsEarned /\ Kernel!CurrentStillHolds /\ Kernel!AnswersMatch
<1> SUFFICES ASSUME KernelInv
             PROVE  Kernel!TypeOK /\ Kernel!PassIsEarned /\ Kernel!CurrentStillHolds /\ Kernel!AnswersMatch
  OBVIOUS
<1>0. Kernel!Kept(journal) /\ KernelTyped /\ CallsTold
  BY DEF KernelInv
<1>1. Kernel!TypeOK
  <2>1. \A c \in Callers : calls[c] \in CallRows
    BY <1>0 DEF KernelTyped
  <2>2. \A c \in Callers : /\ calls[c].req \in Kernel!Envelope \cup {Kernel!Idle.req}
                           /\ calls[c].told \in {"nothing", "waiting", "ok", "current", "stale", "refused"}
    BY <2>1 DEF CallRows, Tellings
  <2> QED
    BY <1>0, <2>2 DEF KernelTyped, Kernel!Kept, Kernel!TypeOK
<1>2. Kernel!PassIsEarned
  BY <1>0 DEF Kernel!Kept, Kernel!PassIsEarned, Kernel!Verdicts
<1>3. Kernel!CurrentStillHolds
  BY <1>0 DEF Kernel!Kept, Kernel!CurrentStillHolds, Kernel!Verdicts, Kernel!Current
<1>4. Kernel!AnswersMatch
  BY <1>0 DEF CallsTold, Says, SaysVerdict, Kernel!AnswersMatch, Kernel!Verdicts
<1> QED
  BY <1>1, <1>2, <1>3, <1>4

(* Whatever the clients ask, whichever adapters start, hang, die or answer  *)
(* late: a pass was earned by the executions it rests on, a verdict shown   *)
(* as current is what the gate would decide now, and nobody is told of a    *)
(* request what the journal does not hold (dispatch of kogg_ranex_adapter,  *)
(* receive, onExit and the timeout of kernel-bridge.ts).                    *)
THEOREM VerdictsAlwaysHold == AllSpec => []VerdictsHold
<1> DEFINE I == part \in Parts /\ (part = "kernel" => KernelInv)
<1>1. AllInit => I
  BY KernelInit DEF AllInit
<1>2. I /\ [AllNext]_<<part, vars, allocationVars, workflowVars, kernelVars>> => I'
  <2> SUFFICES ASSUME I, [AllNext]_<<part, vars, allocationVars, workflowVars, kernelVars>> PROVE I'
    OBVIOUS
  <2>1. part' = part
    BY Zenon DEF AllNext
  <2>2. CASE part = "kernel"
    <3>1. Kernel!Next \/ UNCHANGED kernelVars
      BY <2>2, Zenon DEF AllNext
    <3> QED
      BY <2>1, <2>2, <3>1, KernelStep
  <2>3. CASE part # "kernel"
    BY <2>1, <2>3
  <2> QED
    BY <2>2, <2>3
<1>3. I => VerdictsHold
  BY KernelShown DEF VerdictsHold
<1> QED
  BY <1>1, <1>2, <1>3, PTL DEF AllSpec
=============================================================================
