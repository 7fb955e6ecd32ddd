------------------------- MODULE GovernedMergeProofs -------------------------
(* Proofs about GovernedMerge that hold for every choice of its constants.  *)
EXTENDS GovernedMerge, TLAPS

\* The rows of recovery.
RecoveryRows == [at : {"none", "queued", "read", "cleaning"},
                 from : Lifecycle \cup {"none"},
                 seen : Merges \cup {"none", "base", "other"}]

LEMMA ReadRow ==
  ASSUME NEW f \in [Merges -> RecoveryRows], NEW m \in Merges,
         NEW a \in {"none", "queued", "read", "cleaning"},
         NEW s \in Merges \cup {"none", "base", "other"}
  PROVE  [f EXCEPT ![m].at = a, ![m].seen = s] \in [Merges -> RecoveryRows]
  BY DEF RecoveryRows

LEMMA InitTypeOK == Init => TypeOK
  BY BranchAssumption DEF Init, TypeOK, Idle, Lifecycle

LEMMA HumanTypeOK == TypeOK /\ HumanNext => TypeOK'
<1> SUFFICES ASSUME TypeOK, HumanNext PROVE TypeOK'
    OBVIOUS
<1> USE DEF TypeOK, CallKinds
<1>1. ASSUME NEW c \in Challenges, NEW k \in {"challenge", "authorize", "execute"}, Request(k, c)
      PROVE  TypeOK'
      BY <1>1 DEF Request, Call, world, branch
<1>2. ASSUME NEW c \in Challenges, ExecuteExpired(c)
      PROVE  TypeOK'
      BY <1>2 DEF ExecuteExpired, world, branch
<1>3. ASSUME NEW c \in Challenges, Lapse(c)
      PROVE  TypeOK'
      BY <1>3 DEF Lapse, world, branch
<1>4. ASSUME NEW call \in calls, ModeAllows(call)
      PROVE  TypeOK'
      BY <1>4 DEF ModeAllows, Moved, world, branch
<1>5. ASSUME NEW call \in calls, AuthorizeExpired(call)
      PROVE  TypeOK'
      BY <1>5 DEF AuthorizeExpired, world, branch
<1>6. ASSUME NEW call \in calls, BindingRead(call)
      PROVE  TypeOK'
      BY <1>6 DEF BindingRead, Moved, world, branch
<1>7. ASSUME NEW call \in calls, BindingRefused(call)
      PROVE  TypeOK'
      BY <1>7 DEF BindingRefused, world, branch
<1>8. ASSUME NEW call \in calls, CallRefused(call)
      PROVE  TypeOK'
      BY <1>8 DEF CallRefused, world, branch
<1>9. ASSUME NEW call \in calls, CreateChallenge(call)
      PROVE  TypeOK'
      BY <1>9 DEF CreateChallenge, world, branch
<1>10. ASSUME NEW call \in calls, Authorize(call)
      PROVE  TypeOK'
      BY <1>10 DEF Authorize, world, branch
<1>11. ASSUME NEW call \in calls, CreateIntent(call)
      PROVE  TypeOK'
  <2>1. Asks(call.of) \in Merges
        BY MergeAssumption
  <2>2. CASE state[Asks(call.of)] = "missing"
        BY <1>11, <2>1, <2>2 DEF CreateIntent, world, branch, Lifecycle
  <2>3. CASE state[Asks(call.of)] # "missing"
        BY <1>11, <2>3 DEF CreateIntent, world, branch
  <2> QED
      BY <2>2, <2>3
<1> QED
    BY <1>1, <1>2, <1>3, <1>4, <1>5, <1>6, <1>7, <1>8, <1>9, <1>10, <1>11 DEF HumanNext

LEMMA ExecutorTypeOK == TypeOK /\ MergeNext => TypeOK'
<1> SUFFICES ASSUME TypeOK, NEW m \in Merges,
                    \/ StartAgain(m) \/ NotAdmitted(m) \/ Admitted(m) \/ Preflight(m)
                    \/ PreflightPasses(m) \/ Construct(m) \/ CheckAgain(m) \/ StartCas(m)
                    \/ UpdateRef(m) \/ ChildGone(m) \/ CasDone(m) \/ PostVerify(m)
                    \/ Complete(m) \/ Fails(m) \/ CrashAtSpawn(m)
                    \/ RecoverRead(m) \/ RecoverDecide(m) \/ RecoverDone(m) \/ RecoverFails(m)
             PROVE  TypeOK'
    BY DEF MergeNext
<1> USE DEF TypeOK, Lifecycle, human, world, branch
<1>1. CASE StartAgain(m) BY <1>1 DEF StartAgain
<1>2. CASE NotAdmitted(m) BY <1>2 DEF NotAdmitted
<1>3. CASE Admitted(m) BY <1>3 DEF Admitted
<1>4. CASE Preflight(m) BY <1>4 DEF Preflight, Advance
<1>5. CASE PreflightPasses(m) BY <1>5 DEF PreflightPasses, Advance
<1>6. CASE Construct(m) BY <1>6 DEF Construct, Advance
<1>7. CASE CheckAgain(m) BY <1>7 DEF CheckAgain
<1>8. CASE StartCas(m) BY <1>8 DEF StartCas, Advance
<1>9. CASE UpdateRef(m) BY <1>9, BranchAssumption DEF UpdateRef
<1>10. CASE ChildGone(m) BY <1>10 DEF ChildGone
<1>11. CASE CasDone(m) BY <1>11 DEF CasDone, Advance
<1>12. CASE PostVerify(m) BY <1>12 DEF PostVerify
<1>13. CASE Complete(m) BY <1>13 DEF Complete
<1>14. CASE Fails(m) BY <1>14 DEF Fails
<1>15. CASE CrashAtSpawn(m)
  <2>1. strays' \subseteq Merges
        BY <1>15 DEF CrashAtSpawn
  <2>2. recovery' \in [Merges -> RecoveryRows]
        BY <1>15 DEF CrashAtSpawn, Stop, Idle, RecoveryRows
  <2> QED
      BY <1>15, <2>1, <2>2 DEF CrashAtSpawn, Stop, RecoveryRows
<1>16. CASE RecoverRead(m)
  <2>1. recovery' \in [Merges -> RecoveryRows]
        BY <1>16, ReadRow DEF RecoverRead, RecoveryRows
  <2> QED
      BY <1>16, <2>1 DEF RecoverRead, RecoveryRows
<1>17. CASE RecoverDecide(m) BY <1>17 DEF RecoverDecide
<1>18. CASE RecoverDone(m) BY <1>18 DEF RecoverDone, Idle
<1>19. CASE RecoverFails(m) BY <1>19 DEF RecoverFails, Idle
<1> QED
    BY <1>1, <1>2, <1>3, <1>4, <1>5, <1>6, <1>7, <1>8, <1>9, <1>10, <1>11, <1>12, <1>13,
       <1>14, <1>15, <1>16, <1>17, <1>18, <1>19

\* The steps of nobody's request: those of the process, of the owner and of time.
WorldNext == \/ Crash \/ Restart \/ RecoveryStops \/ Drift
             \/ \E to \in {"base", "other"} : OwnerMoves(to)
             \/ UNCHANGED vars

LEMMA WorldTypeOK ==
  ASSUME TypeOK,
         WorldNext
  PROVE  TypeOK'
<1> USE DEF TypeOK, Lifecycle, Terminal, human, world, branch, Idle
<1>1. CASE Crash BY <1>1 DEF Crash, Stop
<1>2. CASE Restart BY <1>2 DEF Restart, EndChildren, Left
<1>3. CASE RecoveryStops BY <1>3 DEF RecoveryStops
<1>4. CASE Drift
  <2>1. mode' \in BOOLEAN /\ current' \in BOOLEAN
        BY <1>4, Zenon DEF Drift
  <2>2. drifts' \in Nat
        BY <1>4 DEF Drift
  <2> QED
      BY <1>4, <2>1, <2>2 DEF Drift
<1>5. ASSUME NEW to \in {"base", "other"}, OwnerMoves(to)
      PROVE  TypeOK'
      BY <1>5, BranchAssumption DEF OwnerMoves
<1>6. CASE UNCHANGED vars BY <1>6 DEF vars
<1> QED
    BY <1>1, <1>2, <1>3, <1>4, <1>5, <1>6 DEF WorldNext

THEOREM TypeCorrect == Spec => []TypeOK
<1>1. TypeOK /\ [Next]_vars => TypeOK'
      BY HumanTypeOK, ExecutorTypeOK, WorldTypeOK DEF Next, WorldNext
<1> QED
    BY InitTypeOK, <1>1, PTL DEF Spec
------------------------------------------------------------------------------
(* The inductive invariant.                                                 *)

\* The durable states in which no update-ref was ever started.
PreCas == {"missing", "preflight-pending", "preflighting", "constructing",
           "cas-ready"}

\* A merge that never came to its swap has no child and has not landed.
Fresh(m) == state[m] \in PreCas => child[m] = "none" /\ m \notin landed

\* What an executor believes is a state it can be in, and none works beside an
\* unresolved residual.
Runs(m) ==
    /\ exec[m] \in {"idle", "starting"} \cup (PreCas \ {"missing"}) \cup AfterCas
    /\ residual # {} => exec[m] \in {"idle", "starting"}

\* A child that can still swap, or failed to, belongs to a merge that has not
\* landed; one that is done to one that has; and a child the ledger names is
\* awaited by its executor while the backend runs.
Swaps(m) ==
    /\ child[m] \in {"running", "failed", "killed", "orphan"} => m \notin landed
    /\ child[m] = "done" => m \in landed
    /\ child[m] = "orphan" => m \in strays
    /\ child[m] \in {"running", "done", "failed"} =>
         /\ state[m] \in {"cas-started", "quarantined"}
         /\ backend = "up" => exec[m] = "cas-started"

\* What the ledger says of the branch is so.
Reported(m) ==
    /\ state[m] \in {"post-verifying", "committed", "cleaning", "completed"} =>
          m \in landed
    /\ state[m] = "refused" /\ (m \in contained \/ child[m] # "none") =>
          m \in strays

\* A merge under recovery was open at the restart.  When its swap had been
\* started then, nothing but recovery moves it and its child, if there is one,
\* was lost sight of; what recovery read of the branch still tells what landed.
Recovers(m) == recovery[m].at # "none" =>
    /\ recovery[m].from \in Lifecycle \ Terminal
    /\ state[m] # "missing"
    /\ recovery[m].from \notin PreCas =>
         /\ state[m] \notin PreCas
         /\ exec[m] = "idle"
         /\ child[m] \in {"none", "killed", "orphan"}
         /\ child[m] # "none" => m \in strays
    /\ recovery[m].at = "read" =>
         /\ recovery[m].seen \in Merges => recovery[m].seen \in landed
         /\ recovery[m].seen = "base" /\ state[m] = recovery[m].from
               /\ m \in contained => m \in strays

MergeInv(m) == Fresh(m) /\ Runs(m) /\ Swaps(m) /\ Reported(m) /\ Recovers(m)

\* While the backend is down nothing of it runs, and it has lost sight of every
\* child that was killed and not awaited.
Down == backend = "down" =>
    /\ calls = {}
    /\ \A m \in Merges : /\ exec[m] = "idle"
                         /\ recovery[m].at = "none"
                         /\ child[m] = "killed" => m \in strays

IInv == TypeOK /\ Down /\ \A m \in Merges : MergeInv(m)

LEMMA InitInv == Init => IInv
  BY InitTypeOK DEF Init, IInv, Down, MergeInv, Fresh, Runs, Swaps, Reported, Recovers, Idle, PreCas, AfterCas

\* All but one of the human's steps leave the merges alone.
LEMMA HumanFrame ==
  ASSUME HumanNext, \A call \in calls : ~CreateIntent(call)
  PROVE  /\ UNCHANGED <<backend, state, exec, child, recovery, ref, residual, landed,
                       contained, strays>>
         /\ calls = {} /\ backend = "down" => calls' = {}
  BY DEF HumanNext, Request, ExecuteExpired, Lapse, ModeAllows, AuthorizeExpired, BindingRead,
         BindingRefused, CallRefused, CreateChallenge, Authorize, branch

LEMMA HumanDown == IInv /\ HumanNext => Down'
<1> SUFFICES ASSUME IInv, HumanNext PROVE Down'
    OBVIOUS
<1>1. ASSUME NEW call \in calls, CreateIntent(call)
      PROVE  Down'
      BY <1>1 DEF CreateIntent, IInv, Down
<1>2. CASE \A call \in calls : ~CreateIntent(call)
      BY <1>2, HumanFrame DEF IInv, Down
<1> QED
    BY <1>1, <1>2

LEMMA HumanInv == IInv /\ HumanNext => \A n \in Merges : MergeInv(n)'
<1> SUFFICES ASSUME IInv, HumanNext, NEW n \in Merges PROVE MergeInv(n)'
    OBVIOUS
<1>1. ASSUME NEW call \in calls, CreateIntent(call)
      PROVE  MergeInv(n)'
  <2>1. Asks(call.of) \in Merges
        BY MergeAssumption DEF IInv, TypeOK
  <2> QED
      BY <1>1, <2>1 DEF CreateIntent, IInv, TypeOK, MergeInv, Fresh, Runs, Swaps, Reported, Recovers, PreCas, AfterCas, branch
<1>2. CASE \A call \in calls : ~CreateIntent(call)
      BY <1>2, HumanFrame DEF IInv, MergeInv, Fresh, Runs, Swaps, Reported, Recovers
<1> QED
    BY <1>1, <1>2

\* A step of an executor, of its child or of a recovery keeps the invariant.
LEMMA ExecutorInv == IInv /\ MergeNext => Down' /\ \A n \in Merges : MergeInv(n)'
<1> SUFFICES ASSUME IInv, NEW m \in Merges, NEW n \in Merges,
                    \/ StartAgain(m) \/ NotAdmitted(m) \/ Admitted(m) \/ Preflight(m)
                    \/ PreflightPasses(m) \/ Construct(m) \/ CheckAgain(m) \/ StartCas(m)
                    \/ UpdateRef(m) \/ ChildGone(m) \/ CasDone(m) \/ PostVerify(m)
                    \/ Complete(m) \/ Fails(m) \/ CrashAtSpawn(m)
                    \/ RecoverRead(m) \/ RecoverDecide(m) \/ RecoverDone(m) \/ RecoverFails(m)
             PROVE  Down' /\ MergeInv(n)'
    BY DEF MergeNext
<1> USE DEF IInv, TypeOK, Down, MergeInv, Fresh, Runs, Swaps, Reported, Recovers, PreCas, AfterCas, Lifecycle,
            Terminal, human, branch
<1>1. CASE StartAgain(m)
      BY <1>1 DEF StartAgain
<1>2. CASE NotAdmitted(m)
      BY <1>2 DEF NotAdmitted
<1>3. CASE Admitted(m)
      BY <1>3 DEF Admitted
<1>4. CASE Preflight(m)
      BY <1>4 DEF Preflight, Advance
<1>5. CASE PreflightPasses(m)
      BY <1>5 DEF PreflightPasses, Advance
<1>6. CASE Construct(m)
      BY <1>6 DEF Construct, Advance
<1>7. CASE CheckAgain(m)
      BY <1>7 DEF CheckAgain
<1>8. CASE StartCas(m)
      BY <1>8 DEF StartCas, Advance
<1>9. CASE UpdateRef(m)
      BY <1>9 DEF UpdateRef
<1>10. CASE ChildGone(m)
      BY <1>10 DEF ChildGone
<1>11. CASE CasDone(m)
      BY <1>11 DEF CasDone, Advance
<1>12. CASE PostVerify(m)
      BY <1>12 DEF PostVerify
<1>13. CASE Complete(m)
      BY <1>13 DEF Complete
<1>14. CASE Fails(m)
  <2>1. CASE n # m
        BY <1>14, <2>1 DEF Fails
  <2>2. CASE n = m /\ exec[m] \in PreCas
        BY <1>14, <2>2 DEF Fails
  <2>3. CASE n = m /\ exec[m] \notin PreCas /\ state[m] = exec[m]
    <3>1. state' = [state EXCEPT ![m] = IF exec[m] \in AfterCas THEN "recovery-required"
                                        ELSE "refused"]
          BY <1>14, <2>3 DEF Fails
    <3> QED
        BY <1>14, <2>3, <3>1 DEF Fails
  <2>4. CASE n = m /\ exec[m] \notin PreCas /\ state[m] # exec[m]
    <3>1. state' = state
          BY <1>14, <2>4 DEF Fails
    <3> QED
        BY <1>14, <2>4, <3>1 DEF Fails
  <2> QED
      BY <2>1, <2>2, <2>3, <2>4
<1>15. CASE CrashAtSpawn(m)
      BY <1>15 DEF CrashAtSpawn, Stop, Idle
<1>16. CASE RecoverRead(m)
      BY <1>16 DEF RecoverRead
<1>17. CASE RecoverDecide(m)
      BY <1>17 DEF RecoverDecide
<1>18. CASE RecoverDone(m)
      BY <1>18 DEF RecoverDone, Idle
<1>19. CASE RecoverFails(m)
      BY <1>19 DEF RecoverFails, Idle
<1> QED
    BY <1>1, <1>2, <1>3, <1>4, <1>5, <1>6, <1>7, <1>8, <1>9, <1>10, <1>11, <1>12, <1>13, <1>14, <1>15, <1>16, <1>17, <1>18, <1>19

\* So do a crash, a restart and what the owner and the world do.
LEMMA WorldInv == IInv /\ WorldNext => Down' /\ \A n \in Merges : MergeInv(n)'
<1> SUFFICES ASSUME IInv, WorldNext
             PROVE  Down' /\ \A n \in Merges : MergeInv(n)'
    OBVIOUS
<1> USE DEF IInv, TypeOK, Down, MergeInv, Fresh, Runs, Swaps, Reported, Recovers, PreCas,
            AfterCas, Lifecycle, Terminal, human, branch
<1>1. CASE Crash BY <1>1 DEF Crash, Stop, Idle
<1>2. CASE Restart
  <2>1. PICK left \in Left : EndChildren(left)
        BY <1>2 DEF Restart
  <2>2. left \subseteq {m \in Merges : child[m] = "running"}
        BY DEF Left
  <2>3. Down'
        BY <1>2 DEF Restart
  <2>4. ASSUME NEW m \in Merges
        PROVE  MergeInv(m)'
    <3>1. exec'[m] = "idle" /\ exec[m] = "idle" /\ state'[m] = state[m]
          BY <1>2 DEF Restart
    <3>2. child'[m] = CASE m \in left -> "orphan"
                        [] child[m] \in {"killed", "orphan"} -> child[m]
                        [] OTHER -> "none"
          BY <2>1 DEF EndChildren
    <3>3. m \in left => child[m] = "running"
          BY <2>2
    <3>4. strays' = strays \cup left /\ UNCHANGED <<landed, contained>>
          BY <1>2, <2>1 DEF Restart, EndChildren
    <3>5. Fresh(m)' /\ Runs(m)'
          BY <3>1, <3>2, <3>3, <3>4
    <3>6. Swaps(m)'
          BY <3>1, <3>2, <3>3, <3>4
    <3>7. Reported(m)'
          BY <3>1, <3>2, <3>3, <3>4
    <3>8. recovery'[m] = IF state[m] \in Terminal \cup {"missing"} THEN Idle
                         ELSE [at |-> "queued", from |-> state[m], seen |-> "none"]
          BY <1>2 DEF Restart
    <3>9. child'[m] # "none" => child'[m] \in {"killed", "orphan"} /\ m \in strays'
          BY <1>2, <3>2, <3>4 DEF Restart
    <3>10. Recovers(m)'
          BY <3>1, <3>8, <3>9 DEF Idle
    <3> QED
        BY <3>5, <3>6, <3>7, <3>10
  <2> QED
      BY <2>3, <2>4
<1>3. CASE RecoveryStops BY <1>3 DEF RecoveryStops, Idle
<1>4. CASE Drift BY <1>4 DEF Drift
<1>5. ASSUME NEW to \in {"base", "other"}, OwnerMoves(to)
      PROVE  Down' /\ \A n \in Merges : MergeInv(n)'
      BY <1>5, BranchAssumption DEF OwnerMoves
<1>6. CASE UNCHANGED vars BY <1>6 DEF vars
<1> QED
    BY <1>1, <1>2, <1>3, <1>4, <1>5, <1>6 DEF WorldNext

LEMMA StepInv == IInv /\ [Next]_vars => IInv'
<1> SUFFICES ASSUME IInv, [Next]_vars PROVE IInv'
    OBVIOUS
<1>1. TypeOK'
      BY HumanTypeOK, ExecutorTypeOK, WorldTypeOK DEF Next, WorldNext, IInv
<1>2. CASE HumanNext
      BY <1>1, <1>2, HumanDown, HumanInv DEF IInv
<1>3. CASE MergeNext
      BY <1>1, <1>3, ExecutorInv DEF IInv
<1>4. CASE WorldNext
      BY <1>1, <1>4, WorldInv DEF IInv
<1> QED
    BY <1>2, <1>3, <1>4 DEF Next, WorldNext

LEMMA Invariance == Spec => []IInv
  BY InitInv, StepInv, PTL DEF Spec

\* UpdateHasExecutor: while the backend runs, a child that the ledger calls running
\* is awaited by its executor, no recovery that read the base goes on beside it,
\* and no executor works beside a child that recovery could not end.
THEOREM UpdateIsAwaited == Spec => []UpdateHasExecutor
<1>1. IInv => UpdateHasExecutor
  <2> SUFFICES ASSUME IInv, NEW m \in Merges, backend = "up"
               PROVE  /\ child[m] = "running" =>
                           /\ exec[m] = "cas-started"
                           /\ recovery[m].at \in {"read", "cleaning"} =>
                                 state[m] # recovery[m].from \/ recovery[m].seen # "base"
                      /\ residual # {} => exec[m] \in {"idle", "starting"}
      BY DEF UpdateHasExecutor
  <2> QED
      BY DEF IInv, MergeInv, Runs, Swaps, Recovers, PreCas
<1> QED
    BY <1>1, Invariance, PTL

------------------------------------------------------------------------------
(* A merge moves the branch at most once.                                   *)

\* What a step adds to the branch had not landed before.
LEMMA AddsOnlyTheFresh ==
  IInv /\ [Next]_vars =>
      \A n \in Merges : n \in landed /\ n \in contained' => n \in contained
<1> SUFFICES ASSUME IInv, [Next]_vars, NEW n \in Merges, n \in landed, n \in contained'
             PROVE  n \in contained
    OBVIOUS
<1>1. CASE HumanNext
  <2>1. UNCHANGED contained
        BY <1>1 DEF HumanNext, Request, ExecuteExpired, Lapse, ModeAllows, AuthorizeExpired,
           BindingRead, BindingRefused, CallRefused, CreateChallenge, Authorize, CreateIntent, branch
  <2> QED
      BY <2>1
<1>2. ASSUME NEW m \in Merges, UpdateRef(m)
      PROVE  n \in contained
  <2>1. m \notin landed
        BY <1>2 DEF UpdateRef, IInv, MergeInv, Swaps
  <2> QED
      BY <1>2, <2>1 DEF UpdateRef
<1>3. ASSUME NEW m \in Merges,
             \/ StartAgain(m) \/ NotAdmitted(m) \/ Admitted(m) \/ Preflight(m)
             \/ PreflightPasses(m) \/ Construct(m) \/ CheckAgain(m) \/ StartCas(m)
             \/ ChildGone(m) \/ CasDone(m) \/ PostVerify(m)
             \/ Complete(m) \/ Fails(m) \/ CrashAtSpawn(m)
             \/ RecoverRead(m) \/ RecoverDecide(m) \/ RecoverDone(m) \/ RecoverFails(m)
      PROVE  n \in contained
  <2>1. UNCHANGED contained
        BY <1>3 DEF StartAgain, NotAdmitted, Admitted, Preflight, PreflightPasses, Construct,
           CheckAgain, StartCas, ChildGone, CasDone, PostVerify, Complete, Fails, CrashAtSpawn,
           Stop, RecoverRead, RecoverDecide, RecoverDone, RecoverFails, branch
  <2> QED
      BY <2>1
<1>4. CASE Crash \/ Restart \/ RecoveryStops \/ Drift \/ UNCHANGED vars
  <2>1. UNCHANGED contained
        BY <1>4 DEF Crash, Stop, Restart, RecoveryStops, Drift, branch, vars
  <2> QED
      BY <2>1
<1>5. ASSUME NEW to \in {"base", "other"}, OwnerMoves(to)
      PROVE  n \in contained
      BY <1>5 DEF OwnerMoves
<1> QED
    BY <1>1, <1>2, <1>3, <1>4, <1>5 DEF Next, MergeNext

\* LandsOnce: whatever is retried, recovered, rewound by the owner or authorized
\* again, a merge that landed never comes to the branch a second time.
THEOREM MergeLandsOnce == Spec => LandsOnce
<1>1. IInv /\ [Next]_vars =>
        [\A m \in Merges : m \in landed /\ m \in contained' => m \in contained]_vars
      BY AddsOnlyTheFresh
<1> QED
    BY <1>1, Invariance, PTL DEF Spec, LandsOnce
------------------------------------------------------------------------------
(* The ledger keeps MergePromise.                                           *)

LEMMA OutcomeValues ==
  /\ Outcome("missing") = "none"
  /\ Outcome("completed") = "merged"
  /\ Outcome("refused") = "notMerged"
  /\ Outcome("quarantined") = "unknown"
  /\ \A s \in Lifecycle \ Terminal : Outcome(s) = "open"
  BY DEF Outcome, Lifecycle, Terminal

\* An event of one merge changes what is said of that merge only.
LEMMA OneOutcome ==
  ASSUME TypeOK, NEW m \in Merges, NEW s, state' = [state EXCEPT ![m] = s]
  PROVE  [n \in Merges |-> Outcome(state[n])]'
            = [[n \in Merges |-> Outcome(state[n])] EXCEPT ![m] = Outcome(s)]
  BY DEF TypeOK

\* A step that says nothing new and leaves the branch alone is a stutter.
LEMMA PromiseStutter ==
  ASSUME \A n \in Merges : Outcome(state'[n]) = Outcome(state[n]),
         UNCHANGED <<landed, contained, strays>>
  PROVE  UNCHANGED Promise!vars
  BY DEF Promise!vars

\* An event that says something new is a report, if it may be said.
LEMMA PromiseReport ==
  ASSUME TypeOK, NEW m \in Merges, NEW s \in Lifecycle, state' = [state EXCEPT ![m] = s],
         UNCHANGED <<landed, contained, strays>>,
         \/ state[m] \in Lifecycle \ Terminal /\ s = "quarantined"
         \/ state[m] \in Lifecycle \ Terminal /\ s = "completed" /\ m \in landed
         \/ /\ state[m] \in Lifecycle \ Terminal
            /\ s = "refused"
            /\ m \in contained => m \in strays
         \/ state[m] \in {"completed", "refused"} /\ s = "quarantined"
  PROVE  Promise!Next
<1> DEFINE said == [n \in Merges |-> Outcome(state[n])]
<1>1. said' = [said EXCEPT ![m] = Outcome(s)]
      BY OneOutcome
<1>2. said[m] = Outcome(state[m])
      OBVIOUS
<1>3. Promise!Report(m, Outcome(s))
      BY <1>1, <1>2, OutcomeValues DEF Promise!Report
<1>4. Outcome(s) \in Promise!Outcome
      BY OutcomeValues DEF Promise!Outcome
<1> QED
    BY <1>3, <1>4 DEF Promise!Next

\* A merge that was accepted is an open one.
LEMMA PromiseAccept ==
  ASSUME TypeOK, NEW m \in Merges, state' = [state EXCEPT ![m] = "preflight-pending"],
         state[m] = "missing", UNCHANGED <<landed, contained, strays>>
  PROVE  Promise!Next
<1> DEFINE said == [n \in Merges |-> Outcome(state[n])]
<1>1. Outcome("preflight-pending") = "open"
      BY OutcomeValues DEF Lifecycle, Terminal
<1>2. said' = [said EXCEPT ![m] = "open"]
      BY <1>1, OneOutcome
<1>3. said[m] = "none"
      BY OutcomeValues
<1>4. Promise!Accept(m)
      BY <1>2, <1>3 DEF Promise!Accept
<1> QED
    BY <1>4 DEF Promise!Next

\* The swap is the one step that lands a merge.
LEMMA PromiseLand ==
  ASSUME IInv, NEW m \in Merges, UpdateRef(m)
  PROVE  [Promise!Next]_(Promise!vars)
<1> DEFINE said == [n \in Merges |-> Outcome(state[n])]
<1>1. UNCHANGED <<said, strays>>
      BY DEF UpdateRef, branch
<1>2. CASE ref = "base"
  <2>1. m \notin landed /\ m \notin contained
        BY DEF UpdateRef, IInv, TypeOK, MergeInv, Swaps
  <2>2. said[m] # "none"
        BY OutcomeValues DEF UpdateRef, IInv, TypeOK, MergeInv, Fresh, PreCas, Lifecycle, Terminal
  <2>3. said[m] \in {"merged", "notMerged"} => m \in strays
    <3>1. state[m] # "completed"
          BY <2>1 DEF IInv, MergeInv, Reported
    <3>2. state[m] = "refused" => m \in strays
          BY DEF UpdateRef, IInv, MergeInv, Reported
    <3> QED
        BY <3>1, <3>2, OutcomeValues DEF IInv, TypeOK, Lifecycle, Terminal
  <2>4. Promise!Land(m)
        BY <1>1, <1>2, <2>1, <2>2, <2>3 DEF UpdateRef, Promise!Land
  <2> QED
      BY <2>4 DEF Promise!Next
<1>3. CASE ref # "base"
      BY <1>1, <1>3 DEF UpdateRef, Promise!vars
<1> QED
    BY <1>2, <1>3

\* A crash loses sight of the children that were killed and not awaited, a
\* restart of those it cannot end; of none of them was it said how it ended,
\* unless it was lost sight of before.
LEMMA PromiseLoses ==
  ASSUME IInv, Crash \/ Restart \/ \E m \in Merges : CrashAtSpawn(m)
  PROVE  [Promise!Next]_(Promise!vars)
<1> DEFINE said == [n \in Merges |-> Outcome(state[n])]
           lost == strays' \ strays
<1>1. UNCHANGED <<landed, contained>> /\ strays' = strays \cup lost /\ lost \in SUBSET Merges
  <2>1. CASE Crash \/ \E m \in Merges : CrashAtSpawn(m)
        BY <2>1 DEF Crash, CrashAtSpawn, Stop, IInv, TypeOK
  <2>2. CASE Restart
    <3>1. PICK left \in Left : EndChildren(left)
          BY <2>2 DEF Restart
    <3> QED
        BY <2>2, <3>1 DEF Restart, EndChildren, Left, IInv, TypeOK
  <2> QED
      BY <2>1, <2>2
<1>2. UNCHANGED said
  <2>1. CASE Crash \/ Restart
        BY <2>1 DEF Crash, Restart
  <2>2. ASSUME NEW m \in Merges, CrashAtSpawn(m)
        PROVE  UNCHANGED said
    <3>1. Outcome("cas-ready") = Outcome("cas-started")
          BY OutcomeValues DEF Lifecycle, Terminal
    <3>2. state' = [state EXCEPT ![m] = "cas-started"] /\ state[m] = "cas-ready"
          BY <2>2 DEF CrashAtSpawn
    <3> QED
        BY <3>1, <3>2 DEF IInv, TypeOK
  <2> QED
      BY <2>1, <2>2
<1>3. ASSUME NEW n \in lost
      PROVE  said[n] \in {"open", "unknown"}
  <2>1. /\ n \in Merges /\ n \notin strays
        /\ child[n] \in {"killed", "running"} \/ state[n] = "cas-ready"
    <3>1. CASE Crash \/ \E m \in Merges : CrashAtSpawn(m)
          BY <1>1, <3>1 DEF Crash, CrashAtSpawn
    <3>2. CASE Restart
      <4>1. PICK left \in Left : EndChildren(left)
            BY <3>2 DEF Restart
      <4> QED
          BY <1>1, <4>1 DEF EndChildren, Left
    <3> QED
        BY <3>1, <3>2
  <2>2. state[n] \in (Lifecycle \ Terminal) \cup {"quarantined"}
        BY <2>1 DEF IInv, TypeOK, MergeInv, Fresh, Swaps, Reported, PreCas, Lifecycle, Terminal
  <2> QED
      BY <2>1, <2>2, OutcomeValues
<1>4. Promise!LoseTrack(lost)
      BY <1>1, <1>2, <1>3 DEF Promise!LoseTrack
<1> QED
    BY <1>1, <1>4 DEF Promise!Next

\* An event that leaves the merge open is a stutter.
LEMMA PromiseOpen ==
  ASSUME TypeOK, NEW m \in Merges, NEW s \in Lifecycle \ Terminal,
         state[m] \in Lifecycle \ Terminal, state' = [state EXCEPT ![m] = s],
         UNCHANGED <<landed, contained, strays>>
  PROVE  UNCHANGED Promise!vars
<1>1. \A n \in Merges : Outcome(state'[n]) = Outcome(state[n])
      BY OutcomeValues DEF TypeOK
<1> QED
    BY <1>1, PromiseStutter

LEMMA PromiseInit == Init => Promise!Init
  BY OutcomeValues DEF Init, Promise!Init

LEMMA PromiseHuman ==
  ASSUME IInv, HumanNext
  PROVE  [Promise!Next]_(Promise!vars)
<1>1. ASSUME NEW call \in calls, CreateIntent(call)
      PROVE  [Promise!Next]_(Promise!vars)
  <2>1. Asks(call.of) \in Merges
        BY MergeAssumption DEF IInv, TypeOK
  <2>2. CASE state[Asks(call.of)] = "missing"
        BY <1>1, <2>1, <2>2, PromiseAccept DEF CreateIntent, IInv, branch
  <2>3. CASE state[Asks(call.of)] # "missing"
        BY <1>1, <2>3, PromiseStutter DEF CreateIntent, branch
  <2> QED
      BY <2>2, <2>3
<1>2. CASE \A call \in calls : ~CreateIntent(call)
      BY <1>2, HumanFrame, PromiseStutter
<1> QED
    BY <1>1, <1>2

\* A failure before the swap may say "not merged": there was no swap.
LEMMA PromiseFails ==
  ASSUME IInv, NEW m \in Merges, Fails(m)
  PROVE  [Promise!Next]_(Promise!vars)
<1> USE DEF IInv
<1>1. UNCHANGED <<landed, contained, strays>>
      BY DEF Fails, branch
<1>2. CASE state[m] # exec[m]
      BY <1>1, <1>2, PromiseStutter DEF Fails
<1>3. CASE state[m] = exec[m] /\ exec[m] \in AfterCas
  <2>1. state' = [state EXCEPT ![m] = "recovery-required"]
        BY <1>3 DEF Fails
  <2> QED
      BY <1>1, <1>3, <2>1, PromiseOpen DEF AfterCas, Lifecycle, Terminal
<1>4. CASE state[m] = exec[m] /\ exec[m] \notin AfterCas
  <2>1. state' = [state EXCEPT ![m] = "refused"]
        BY <1>4 DEF Fails
  <2>2. exec[m] \in PreCas \ {"missing"}
        BY <1>4 DEF Fails, MergeInv, Runs
  <2>3. m \notin contained
        BY <1>4, <2>2 DEF MergeInv, Fresh, TypeOK
  <2> QED
      BY <1>1, <1>4, <2>1, <2>2, <2>3, PromiseReport DEF PreCas, Lifecycle, Terminal
<1> QED
    BY <1>2, <1>3, <1>4

\* Recovery says what the branch it read shows.
LEMMA PromiseRecovers ==
  ASSUME IInv, NEW m \in Merges, RecoverDecide(m) \/ RecoverDone(m) \/ RecoverFails(m)
  PROVE  [Promise!Next]_(Promise!vars)
<1> USE DEF IInv
<1>1. UNCHANGED <<landed, contained, strays>>
      BY DEF RecoverDecide, RecoverDone, RecoverFails, branch
<1>2. CASE RecoverDecide(m)
  <2>1. state[m] \in Lifecycle \ Terminal
        BY <1>2 DEF RecoverDecide, MergeInv, Recovers
  <2>2. CASE recovery[m].seen = "base" /\ state' = [state EXCEPT ![m] = "refused"]
    <3>1. m \in contained => m \in strays
          BY <1>2, <2>2 DEF RecoverDecide, MergeInv, Recovers
    <3> QED
        BY <1>1, <2>1, <2>2, <3>1, PromiseReport DEF Lifecycle, Terminal
  <2>3. CASE state' = [state EXCEPT ![m] = "cleaning"]
        BY <1>1, <2>1, <2>3, PromiseOpen DEF Lifecycle, Terminal
  <2> QED
      BY <1>2, <2>2, <2>3 DEF RecoverDecide
<1>3. CASE RecoverDone(m)
  <2>1. CASE state[m] = "refused"
    <3>1. \A n \in Merges : state'[n] = state[n]
          BY <1>3, <2>1 DEF RecoverDone, TypeOK
    <3> QED
        BY <1>1, <3>1, PromiseStutter
  <2>2. CASE state[m] = "cleaning"
    <3>1. state' = [state EXCEPT ![m] = "completed"]
          BY <1>3, <2>2 DEF RecoverDone
    <3>2. m \in landed
          BY <2>2 DEF MergeInv, Reported
    <3> QED
        BY <1>1, <2>2, <3>1, <3>2, PromiseReport DEF Lifecycle, Terminal
  <2> QED
      BY <1>3, <2>1, <2>2 DEF RecoverDone
<1>4. CASE RecoverFails(m)
  <2>1. state' = [state EXCEPT ![m] = "quarantined"]
        BY <1>4 DEF RecoverFails
  <2>2. state[m] \in Lifecycle
        BY <1>4 DEF RecoverFails, TypeOK, MergeInv, Recovers
  <2>3. CASE state[m] = "quarantined"
    <3>1. \A n \in Merges : state'[n] = state[n]
          BY <2>1, <2>3 DEF TypeOK
    <3> QED
        BY <1>1, <3>1, PromiseStutter
  <2>4. CASE state[m] # "quarantined"
        BY <1>1, <2>1, <2>2, <2>4, PromiseReport DEF Lifecycle, Terminal
  <2> QED
      BY <2>3, <2>4
<1> QED
    BY <1>2, <1>3, <1>4

LEMMA PromiseStep == IInv /\ [Next]_vars => [Promise!Next]_(Promise!vars)
<1> SUFFICES ASSUME IInv, [Next]_vars PROVE [Promise!Next]_(Promise!vars)
    OBVIOUS
<1>1. CASE HumanNext
      BY <1>1, PromiseHuman
<1>2. ASSUME NEW m \in Merges,
             \/ StartAgain(m) \/ NotAdmitted(m) \/ Admitted(m) \/ CheckAgain(m)
             \/ ChildGone(m) \/ RecoverRead(m)
      PROVE  [Promise!Next]_(Promise!vars)
  <2>1. UNCHANGED <<state, landed, contained, strays>>
        BY <1>2 DEF StartAgain, NotAdmitted, Admitted, CheckAgain, ChildGone, RecoverRead, branch
  <2> QED
      BY <2>1, PromiseStutter
<1>3. ASSUME NEW m \in Merges,
             \/ Preflight(m) \/ PreflightPasses(m) \/ Construct(m) \/ StartCas(m)
             \/ CasDone(m) \/ PostVerify(m)
      PROVE  [Promise!Next]_(Promise!vars)
  <2>1. UNCHANGED <<landed, contained, strays>>
        BY <1>3 DEF Preflight, PreflightPasses, Construct, StartCas, CasDone, PostVerify, branch
  <2>2. \E s \in Lifecycle \ Terminal :
            state[m] \in Lifecycle \ Terminal /\ state' = [state EXCEPT ![m] = s]
        BY <1>3 DEF Preflight, PreflightPasses, Construct, StartCas, CasDone, PostVerify, Advance,
           Lifecycle, Terminal
  <2> QED
      BY <2>1, <2>2, PromiseOpen DEF IInv
<1>4. ASSUME NEW m \in Merges, Complete(m)
      PROVE  [Promise!Next]_(Promise!vars)
  <2>1. m \in landed
        BY <1>4 DEF Complete, IInv, MergeInv, Reported
  <2> QED
      BY <1>4, <2>1, PromiseReport DEF Complete, IInv, Lifecycle, Terminal, branch
<1>5. ASSUME NEW m \in Merges, UpdateRef(m)
      PROVE  [Promise!Next]_(Promise!vars)
      BY <1>5, PromiseLand
<1>6. ASSUME NEW m \in Merges, Fails(m)
      PROVE  [Promise!Next]_(Promise!vars)
      BY <1>6, PromiseFails
<1>7. ASSUME NEW m \in Merges, RecoverDecide(m) \/ RecoverDone(m) \/ RecoverFails(m)
      PROVE  [Promise!Next]_(Promise!vars)
      BY <1>7, PromiseRecovers
<1>8. CASE Crash \/ Restart \/ \E m \in Merges : CrashAtSpawn(m)
      BY <1>8, PromiseLoses
<1>9. CASE RecoveryStops \/ Drift \/ UNCHANGED vars
  <2>1. UNCHANGED <<state, landed, contained, strays>>
        BY <1>9 DEF RecoveryStops, Drift, branch, vars
  <2> QED
      BY <2>1, PromiseStutter
<1>10. ASSUME NEW to \in {"base", "other"}, OwnerMoves(to)
      PROVE  [Promise!Next]_(Promise!vars)
  <2>1. UNCHANGED <<state, landed, strays>> /\ contained' \in {{}, contained}
        BY <1>10 DEF OwnerMoves
  <2>2. Promise!Rewind \/ UNCHANGED Promise!vars
        BY <2>1 DEF Promise!Rewind, Promise!vars
  <2> QED
      BY <2>2 DEF Promise!Next
<1> QED
    BY <1>1, <1>2, <1>3, <1>4, <1>5, <1>6, <1>7, <1>8, <1>9, <1>10 DEF Next, MergeNext

\* KeepsPromise: the ledger, its executor, crash and recovery implement
\* MergePromise under the mapping of states to outcomes.
THEOREM MergeKeepsPromise == Spec => KeepsPromise
  BY PromiseInit, PromiseStep, Invariance, PTL DEF Spec, KeepsPromise, Promise!Spec
==============================================================================
