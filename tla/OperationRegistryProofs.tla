----------------------- MODULE OperationRegistryProofs -----------------------
(***************************************************************************)
(* Theorems about OperationRegistry, and about the sign-in and the Codex   *)
(* session that MCDeadlines sets beside it, for every choice of their      *)
(* constants.                                                              *)
(***************************************************************************)
EXTENDS MCDeadlines, Sequences, TLAPS

(* Lemmas about the rows *)

\* An update of one column keeps the type of the operations table.
LEMMA OperationCleanup ==
  ASSUME NEW f \in [Ops -> OpRows], NEW o \in Ops, NEW c \in OpCleanups
  PROVE  [f EXCEPT ![o].cleanup = c] \in [Ops -> OpRows]
  BY DEF OpRows

\* The same of the processes table, for the combinations of columns the code writes.
LEMMA ProcessCleanup ==
  ASSUME NEW f \in [Procs -> ProcRows], NEW p \in Procs, NEW c \in ProcCleanups
  PROVE  [f EXCEPT ![p].cleanup = c] \in [Procs -> ProcRows]
  BY DEF ProcRows

LEMMA ProcessStateCleanup ==
  ASSUME NEW f \in [Procs -> ProcRows], NEW p \in Procs, NEW s \in ProcStates,
         NEW c \in ProcCleanups
  PROVE  [f EXCEPT ![p].state = s, ![p].cleanup = c] \in [Procs -> ProcRows]
  BY DEF ProcRows

LEMMA ProcessStatePid ==
  ASSUME NEW f \in [Procs -> ProcRows], NEW p \in Procs, NEW s \in ProcStates, NEW b \in BOOLEAN
  PROVE  [f EXCEPT ![p].state = s, ![p].pid = b] \in [Procs -> ProcRows]
  BY DEF ProcRows

LEMMA ProcessExit ==
  ASSUME NEW f \in [Procs -> ProcRows], NEW p \in Procs, NEW s \in ProcStates,
         NEW c \in ProcCleanups, NEW e \in ExitClasses
  PROVE  [f EXCEPT ![p].state = s, ![p].exit = e, ![p].cleanup = c] \in [Procs -> ProcRows]
  BY DEF ProcRows

\* A process row of an operation has the type of a row.
LEMMA RowType ==
  ASSUME NEW o \in Ops, NEW s \in ProcStates, NEW b \in BOOLEAN
  PROVE  Row(o, s, b) \in ProcRows
  BY DEF Row, ProcRows, ProcCleanups, ExitClasses

\* What a launch writes keeps the types of both tables.
LEMMA LaunchRowType ==
  ASSUME TypeOK, NEW o \in Ops, NEW p \in Procs, NEW s \in ProcStates, NEW b \in BOOLEAN,
         LaunchRow(o, p, s, b)
  PROVE  operation' \in [Ops -> OpRows] /\ process' \in [Procs -> ProcRows]
<1>1. Row(o, s, b) \in ProcRows
      BY RowType
<1>2. [process EXCEPT ![p].state = s, ![p].pid = b] \in [Procs -> ProcRows]
      BY ProcessStatePid DEF TypeOK
<1>3. [process EXCEPT ![p] = Row(o, s, b)] \in [Procs -> ProcRows]
      BY <1>1 DEF TypeOK
<1>4. [operation EXCEPT ![o].cleanup = "required"] \in [Ops -> OpRows]
      BY OperationCleanup DEF TypeOK, OpCleanups
<1> QED
    BY <1>2, <1>3, <1>4 DEF LaunchRow, Registered, TypeOK

(* Type correctness *)

\* The initial state has the types.
LEMMA InitTypeOK == Init => TypeOK
  BY ConstantsAssumption DEF Init, ProcCleanups, ExitClasses, TypeOK, OpRows, ProcRows, OpStates, Terminal, OpCleanups, ProcStates, Flights

\* Every step keeps them.
LEMMA StepTypeOK == TypeOK /\ [Next]_vars => TypeOK'
<1> SUFFICES ASSUME TypeOK, [Next]_vars PROVE TypeOK'
    OBVIOUS
<1> DEFINE OT == operation' \in [Ops -> OpRows]
           PT == process' \in [Procs -> ProcRows]
<1>1. ASSUME NEW o \in Ops, StartOperation(o) PROVE TypeOK'
      <2>1. OT
          BY <1>1 DEF StartOperation, SetState, OpRows, TypeOK, OpStates, Terminal, OpCleanups
      <2> QED
          BY <1>1, <2>1 DEF StartOperation, TypeOK, Flights, Callers, rowVars, clientVars, recoveryVars, stopVars, osVars
<1>2. ASSUME NEW o \in Ops, Start(o) PROVE TypeOK'
      <2>1. OT
          BY <1>2 DEF Start, SetState, OpRows, TypeOK, OpStates
      <2>2. timers' \subseteq Ops \X {"absolute", "idle"}
          BY <1>2 DEF Start, Arm, TypeOK
      <2> QED
          BY <1>2, <2>1, <2>2 DEF Start, TypeOK, recoveryVars, stopVars, osVars
<1>3. ASSUME NEW o \in Ops, Activity(o) PROVE TypeOK'
      BY <1>3 DEF Activity, Arm, TypeOK, Flights, Callers, rowVars, clientVars, recoveryVars, stopVars, osVars
<1>4. ASSUME NEW o \in Ops, NEW state \in {"active", "waiting"}, Progress(o, state) PROVE TypeOK'
      <2>1. OT
          BY <1>4 DEF Progress, SetState, OpRows, TypeOK, OpStates, Terminal, OpCleanups
      <2> QED
          BY <1>4, <2>1 DEF Progress, Arm, TypeOK, Flights, Callers, rowVars, clientVars, recoveryVars, stopVars, osVars
<1>5. ASSUME NEW o \in Ops, Finish(o) PROVE TypeOK'
      <2>1. OT
          BY <1>5 DEF Finish, BeginCleanup, OpRows, TypeOK, OpStates, Terminal, OpCleanups
      <2> QED
          BY <1>5, <2>1 DEF Finish, BeginCleanup, TypeOK, Flights, Callers, rowVars, clientVars, recoveryVars, stopVars, osVars
<1>6. ASSUME NEW o \in Ops, Abort(o) PROVE TypeOK'
      <2>1. OT
          BY <1>6 DEF Abort, BeginCleanup, OpRows, TypeOK, OpStates, Terminal, OpCleanups
      <2> QED
          BY <1>6, <2>1 DEF Abort, BeginCleanup, TypeOK, Flights, Callers, rowVars, clientVars, recoveryVars, stopVars, osVars
<1>7. ASSUME NEW o \in Ops, AbortTimedOut(o) PROVE TypeOK'
      <2>1. OT
          BY <1>7 DEF AbortTimedOut, OpRows, TypeOK, OpStates, Terminal, OpCleanups
      <2> QED
          BY <1>7, <2>1 DEF AbortTimedOut, Disarm, TypeOK, Flights, Callers, rowVars, clientVars, recoveryVars, stopVars, osVars
<1>8. ASSUME NEW o \in Ops, Complete(o) PROVE TypeOK'
      <2>1. OT
          BY <1>8 DEF Complete, Settle, SetState, OpRows, TypeOK, OpStates, Terminal, OpCleanups
      <2> QED
          BY <1>8, <2>1 DEF Complete, Disarm, Settle, TypeOK, Flights, Callers, rowVars, clientVars, recoveryVars, stopVars, osVars
<1>9. ASSUME NEW o \in Ops, Fail(o) PROVE TypeOK'
      <2>1. OT
          BY <1>9 DEF Fail, Settle, SetState, OpRows, TypeOK, OpStates, Terminal, OpCleanups
      <2> QED
          BY <1>9, <2>1 DEF Fail, Disarm, Settle, TypeOK, Flights, Callers, rowVars, clientVars, recoveryVars, stopVars, osVars
<1>10. ASSUME NEW o \in Ops, Cancel(o) PROVE TypeOK'
      <2>1. OT
          BY <1>10 DEF Cancel, BeginCancelling, OpRows, TypeOK, OpStates, Terminal, OpCleanups
      <2> QED
          BY <1>10, <2>1 DEF Cancel, BeginCancelling, ProcsOf, TypeOK, Flights, Callers, rowVars, clientVars, recoveryVars, stopVars, osVars
<1>11. ASSUME NEW o \in Ops, Cancelled(o) PROVE TypeOK'
      <2>1. OT
          BY <1>11 DEF Cancelled, Settle, SetState, OpRows, TypeOK, OpStates, Terminal, OpCleanups
      <2> QED
          BY <1>11, <2>1 DEF Cancelled, Settle, TypeOK, Flights, Callers, rowVars, clientVars, recoveryVars, stopVars, osVars
<1>12. ASSUME NEW o \in Ops, NEW kind \in {"absolute", "idle"}, Timeout(o, kind) PROVE TypeOK'
      <2>1. OT
          BY <1>12 DEF Timeout, BeginCancelling, OpRows, TypeOK, OpStates, Terminal, OpCleanups
      <2> QED
          BY <1>12, <2>1 DEF Timeout, Disarm, BeginCancelling, ProcsOf, TypeOK, Flights, Callers, rowVars, clientVars, recoveryVars, stopVars, osVars
<1>13. ASSUME NEW o \in Ops, NEW caller \in Callers, CleanupReturns(o, caller) PROVE TypeOK'
      <2>1. OT
          BY <1>13 DEF CleanupReturns, OpRows, TypeOK, OpStates, Terminal, OpCleanups
      <2> QED
          BY <1>13, <2>1 DEF CleanupReturns, Resume, TypeOK, Flights, Callers, rowVars, clientVars, recoveryVars, stopVars, osVars
<1>14. ASSUME NEW o \in Ops, NEW caller \in Callers, CleanupRejects(o, caller) PROVE TypeOK'
      <2>1. OT
          BY <1>14 DEF CleanupRejects, OpRows, TypeOK, OpStates, Terminal, OpCleanups
      <2> QED
          BY <1>14, <2>1 DEF CleanupRejects, Resume, TypeOK, Flights, Callers, rowVars, clientVars, recoveryVars, stopVars, osVars
<1>15. ASSUME NEW p \in Procs, SpawnFailed(p) PROVE TypeOK'
      <2>1. [process EXCEPT ![p].state = "spawn-failed", ![p].cleanup = "cleaned"] \in [Procs -> ProcRows]
          BY ProcessStateCleanup DEF TypeOK, ProcStates, ProcCleanups
      <2> QED
          BY <1>15, <2>1 DEF SpawnFailed, Reject, TypeOK, rowVars, clientVars, recoveryVars, stopVars, osVars
<1>16. ASSUME NEW p \in Procs, Prove(p) PROVE TypeOK'
      <2>1. PT
          BY <1>16 DEF Prove, ProcRows, TypeOK, ProcStates, ProcCleanups, ExitClasses
      <2> QED
          BY <1>16, <2>1 DEF Prove, TypeOK, Flights, Callers, rowVars, clientVars, recoveryVars, stopVars, osVars
<1>17. ASSUME NEW p \in Procs, ReadinessFailed(p) PROVE TypeOK'
      <2>1. PT
          BY <1>17 DEF ReadinessFailed, ProcRows, TypeOK, ProcStates, ProcCleanups, ExitClasses
      <2> QED
          BY <1>17, <2>1 DEF ReadinessFailed, Reject, TypeOK, Flights, Callers, rowVars, clientVars, recoveryVars, stopVars, osVars
<1>18. ASSUME NEW p \in Procs, Overdue(p) PROVE TypeOK'
      <2>1. PT
          BY <1>18 DEF Overdue, ProcRows, TypeOK, ProcStates, ProcCleanups, ExitClasses
      <2> QED
          BY <1>18, <2>1 DEF Overdue, Reject, TypeOK, Flights, Callers, rowVars, clientVars, recoveryVars, stopVars, osVars
<1>19. ASSUME NEW p \in Procs, Exit(p) PROVE TypeOK'
      BY <1>19 DEF Exit, TypeOK, Flights, Callers, rowVars, clientVars, recoveryVars, stopVars, osVars
<1>20. ASSUME NEW p \in Procs, NEW state \in {"exited", "signalled"}, Close(p, state) PROVE TypeOK'
      <2> DEFINE c == IF p \in Proven THEN process[p].cleanup ELSE "cleaned"
      <2>1. c \in ProcCleanups
          BY DEF TypeOK, ProcRows, ProcCleanups
      <2>2. process' = [process EXCEPT ![p].state = state, ![p].exit = "observed", ![p].cleanup = c]
          BY <1>20 DEF Close
      <2> HIDE DEF c
      <2>3. [process EXCEPT ![p].state = state, ![p].exit = "observed", ![p].cleanup = c] \in [Procs -> ProcRows]
        <3>1. /\ process \in [Procs -> ProcRows] /\ state \in ProcStates /\ "observed" \in ExitClasses
            BY DEF TypeOK, ProcStates, ExitClasses
        <3> QED
            BY <2>1, <3>1, ProcessExit
      <2>4. PT
          BY <2>2, <2>3
      <2> QED
          BY <1>20, <2>4 DEF Close, Reject, TypeOK, rowVars, clientVars, recoveryVars, stopVars, osVars
<1>21. ASSUME NEW p \in Procs, NEW caller \in Callers, CancelReturns(p, caller) PROVE TypeOK'
      <2>1. [process EXCEPT ![p].cleanup = "cleaned"] \in [Procs -> ProcRows]
          BY ProcessCleanup DEF TypeOK, ProcCleanups
      <2> QED
          BY <1>21, <2>1 DEF CancelReturns, TypeOK, rowVars, clientVars, recoveryVars, stopVars, osVars
<1>22. ASSUME NEW p \in Procs, NEW o \in Ops, Register(o, p) PROVE TypeOK'
      <2>1. OT /\ PT
          BY <1>22, RowType, OperationCleanup DEF Register, Registered, TypeOK, ProcStates, OpCleanups
      <2> QED
          BY <1>22, <2>1 DEF Register, TypeOK, clientVars, recoveryVars, stopVars, osVars
<1>23. ASSUME NEW p \in Procs, NEW o \in Ops, Launch(o, p) PROVE TypeOK'
      <2>1. OT /\ PT
          BY <1>23, LaunchRowType DEF Launch, ProcStates
      <2> QED
          BY <1>23, <2>1 DEF Launch, TypeOK, clientVars, recoveryVars, stopVars, osVars
<1>24. ASSUME NEW p \in Procs, NEW o \in Ops, LaunchError(o, p) PROVE TypeOK'
      <2>1. OT /\ PT
          BY <1>24, LaunchRowType DEF LaunchError, ProcStates
      <2> QED
          BY <1>24, <2>1 DEF LaunchError, TypeOK, clientVars, recoveryVars, stopVars, osVars
<1>25. ASSUME NEW p \in Procs, NEW o \in Ops, CrashInLaunch(o, p) PROVE TypeOK'
      <2>1. OT /\ PT
          BY <1>25, LaunchRowType DEF CrashInLaunch, ProcStates
      <2>2. Volatile /\ child' = [child EXCEPT ![p] = "alive"] /\ crashes' = crashes + 1
              /\ UNCHANGED <<admission, killed>>
          BY <1>25 DEF CrashInLaunch
      <2> QED
          BY <2>1, <2>2 DEF Volatile, TypeOK
<1>26. ASSUME NEW p \in Procs, Reconcile(p) PROVE TypeOK'
      <2>1. PT
          BY <1>26 DEF Reconcile, RecoveredRow, ResidualRow, ProcRows, TypeOK, ProcStates, ProcCleanups, ExitClasses
      <2> QED
          BY <1>26, <2>1 DEF Reconcile, TypeOK, Flights, Callers, rowVars, clientVars, recoveryVars, stopVars, osVars
<1>27. ASSUME NEW p \in Procs, Terminated(p) PROVE TypeOK'
      <2>1. PT
          BY <1>27 DEF Terminated, RecoveredRow, ResidualRow, ProcRows, TypeOK, ProcStates, ProcCleanups, ExitClasses
      <2> QED
          BY <1>27, <2>1 DEF Terminated, TypeOK, Flights, Callers, rowVars, clientVars, recoveryVars, stopVars, osVars
<1>28. ASSUME NEW o \in Ops, StopCancel(o) PROVE TypeOK'
      <2>1. OT
          BY <1>28 DEF StopCancel, BeginCancelling, OpRows, TypeOK, OpStates, Terminal, OpCleanups
      <2> QED
          BY <1>28, <2>1 DEF StopCancel, BeginCancelling, ProcsOf, TypeOK, Flights, Callers, rowVars, clientVars, recoveryVars, stopVars, osVars
<1>29. CASE BeginStop
      BY <1>29 DEF BeginStop, TypeOK, Flights, Callers, rowVars, clientVars, recoveryVars, stopVars, osVars
<1>30. CASE EndStop
      BY <1>30 DEF EndStop, Volatile, TypeOK, Flights, Callers, rowVars, clientVars, recoveryVars, stopVars, osVars
<1>31. CASE Crash
      BY <1>31 DEF Crash, Volatile, TypeOK, Flights, Callers, rowVars, clientVars, recoveryVars, stopVars, osVars
<1>32. CASE Open
      <2>1. OT
          BY <1>32 DEF Open, TypeOK, OpRows, OpStates
      <2> QED
          BY <1>32, <2>1 DEF Open, TypeOK, clientVars, stopVars, osVars
<1>33. CASE FinishRecovery
      <2>1. OT
          BY <1>33 DEF FinishRecovery, TypeOK, OpRows, OpStates, OpCleanups, Terminal
      <2> QED
          BY <1>33, <2>1 DEF FinishRecovery, TypeOK, clientVars, stopVars, osVars
<1>34. CASE UNCHANGED vars
      BY <1>34 DEF vars, TypeOK, Flights, Callers, rowVars, clientVars, recoveryVars, stopVars, osVars
<1> QED
    BY <1>1, <1>2, <1>3, <1>4, <1>5, <1>6, <1>7, <1>8, <1>9, <1>10, <1>11, <1>12, <1>13, <1>14,
       <1>15, <1>16, <1>17, <1>18, <1>19, <1>20, <1>21, <1>22, <1>23, <1>24, <1>25, <1>26,
       <1>27, <1>28, <1>29, <1>30, <1>31, <1>32, <1>33, <1>34
    DEF Next, OperationStep, ProcessStep

\* The rows and the volatile state keep their types whatever the constants are:
\* every value the code writes to a column is one its CHECK constraint allows.
THEOREM TypeCorrect == Spec => []TypeOK
  BY InitTypeOK, StepTypeOK, PTL DEF Spec

\* What a launch does to the rows: p becomes a row of o that is not residual,
\* other rows stay, and no cleanup fails.
LEMMA LaunchRowEffect ==
  ASSUME TypeOK, NEW o \in Ops, NEW p \in Procs, NEW s \in ProcStates, NEW b \in BOOLEAN,
         Launching(o, p), LaunchRow(o, p, s, b)
  PROVE  /\ process'[p].op = o /\ process'[p].state = s
         /\ process'[p].cleanup \in {"required", process[p].cleanup}
         /\ \A q \in Procs \ {p} : process'[q] = process[q]
         /\ \A x \in Ops : operation'[x].cleanup = "required" \/ operation'[x].cleanup = operation[x].cleanup
<1>1. CASE p \in Deferred
  <2>1. process' = [process EXCEPT ![p].state = s, ![p].pid = b] /\ operation' = operation
        BY <1>1 DEF LaunchRow
  <2>2. process[p].op = o
        BY <1>1 DEF Launching
  <2> QED
      BY <2>1, <2>2 DEF TypeOK, ProcRows
<1>2. CASE p \notin Deferred
  <2>1. process' = [process EXCEPT ![p] = Row(o, s, b)]
        /\ operation' = [operation EXCEPT ![o].cleanup = "required"]
        BY <1>2 DEF LaunchRow, Registered
  <2> QED
      BY <2>1 DEF TypeOK, Row, OpRows
<1> QED
    BY <1>1, <1>2

LEMMA LaunchEffect ==
  ASSUME TypeOK, NEW o \in Ops, NEW p \in Procs,
         Launch(o, p) \/ LaunchError(o, p) \/ CrashInLaunch(o, p)
  PROVE  /\ process'[p].op = o /\ process'[p].state # "possible-residual"
         /\ process'[p].cleanup \in {"required", process[p].cleanup}
         /\ \A q \in Procs \ {p} : process'[q] = process[q]
         /\ \A x \in Ops : operation'[x].cleanup = "required" \/ operation'[x].cleanup = operation[x].cleanup
<1>1. PICK s \in {"started", "ready", "spawning"}, b \in BOOLEAN : Launching(o, p) /\ LaunchRow(o, p, s, b)
      BY DEF Launch, LaunchError, CrashInLaunch
<1>2. s \in ProcStates /\ s # "possible-residual"
      BY DEF ProcStates
<1>3. /\ process'[p].op = o /\ process'[p].state = s
      /\ process'[p].cleanup \in {"required", process[p].cleanup}
      /\ \A q \in Procs \ {p} : process'[q] = process[q]
      /\ \A x \in Ops : operation'[x].cleanup = "required" \/ operation'[x].cleanup = operation[x].cleanup
      BY <1>1, <1>2, LaunchRowEffect
<1> QED
    BY <1>2, <1>3

\* A transition leaves every cleanup state as it is.
LEMMA SetStateEffect ==
  ASSUME TypeOK, NEW o \in Ops, NEW s, SetState(o, s)
  PROVE  \A x \in Ops : operation'[x].cleanup = operation[x].cleanup
  BY DEF TypeOK, OpRows, SetState

(* Admission *)

\* While the backend is down nothing volatile is left.
DownIsEmpty ==
  phase = "down" => leases = {} /\ timers = {} /\ flights = {} /\ \A o \in Ops : body[o] = "none"

\* No client of an ordinary operation is at work while recovery runs.
RecoveryIsQuiet ==
  phase = "recovering" =>
    /\ admission # "enabled"
    /\ \A o \in Ops \ Exempt :
         /\ body[o] = "none" /\ o \notin leases
         /\ \A t \in timers : t[1] # o
         /\ \A f \in flights : f[1] # o

\* Recovery has taken up every ordinary operation with a failed cleanup.
FailedIsReopened ==
  phase = "recovering" => \A o \in Ops \ Exempt : operation[o].cleanup = "failed" => o \in incomplete

\* A row that recovery may find residual belongs to an operation.
RowsHaveOperations ==
  \A p \in Procs :
    \/ process[p].state # "absent" \/ process[p].cleanup = "failed"
    \/ p \in rows \/ terminating = p
    => process[p].op \in Ops

AdmissionInv ==
  /\ TypeOK /\ DownIsEmpty /\ RecoveryIsQuiet /\ FailedIsReopened /\ RowsHaveOperations
  /\ FailedCleanupBlocksAdmission /\ ResidualBlocksAdmission

\* Going down empties the volatile state and only a running backend fills it.
LEMMA DownStep == TypeOK /\ DownIsEmpty /\ [Next]_vars => DownIsEmpty'
<1> SUFFICES ASSUME TypeOK /\ DownIsEmpty, [Next]_vars PROVE DownIsEmpty'
    OBVIOUS
<1> USE DEF DownIsEmpty, TypeOK, rowVars, clientVars, recoveryVars, stopVars, osVars, Callers, Running
<1>1. ASSUME NEW o \in Ops, StartOperation(o) PROVE DownIsEmpty'
      BY <1>1 DEF StartOperation, SetState
<1>2. ASSUME NEW o \in Ops, Start(o) PROVE DownIsEmpty'
      BY <1>2 DEF Start, SetState, Arm
<1>3. ASSUME NEW o \in Ops, Activity(o) PROVE DownIsEmpty'
      BY <1>3 DEF Activity, Arm
<1>4. ASSUME NEW o \in Ops, NEW state \in {"active", "waiting"}, Progress(o, state) PROVE DownIsEmpty'
      BY <1>4 DEF Progress, SetState, Arm
<1>5. ASSUME NEW o \in Ops, Finish(o) PROVE DownIsEmpty'
      BY <1>5 DEF Finish, BeginCleanup
<1>6. ASSUME NEW o \in Ops, Abort(o) PROVE DownIsEmpty'
      BY <1>6 DEF Abort, BeginCleanup
<1>7. ASSUME NEW o \in Ops, AbortTimedOut(o) PROVE DownIsEmpty'
      BY <1>7 DEF AbortTimedOut, Disarm
<1>8. ASSUME NEW o \in Ops, Complete(o) PROVE DownIsEmpty'
      BY <1>8 DEF Complete, Disarm, Settle, SetState
<1>9. ASSUME NEW o \in Ops, Fail(o) PROVE DownIsEmpty'
      BY <1>9 DEF Fail, Disarm, Settle, SetState
<1>10. ASSUME NEW o \in Ops, Cancel(o) PROVE DownIsEmpty'
      BY <1>10 DEF Cancel, BeginCancelling
<1>11. ASSUME NEW o \in Ops, Cancelled(o) PROVE DownIsEmpty'
      BY <1>11 DEF Cancelled, Settle, SetState
<1>12. ASSUME NEW o \in Ops, NEW kind \in {"absolute", "idle"}, Timeout(o, kind) PROVE DownIsEmpty'
      BY <1>12 DEF Timeout, Disarm, BeginCancelling
<1>13. ASSUME NEW o \in Ops, NEW caller \in Callers, CleanupReturns(o, caller) PROVE DownIsEmpty'
      BY <1>13 DEF CleanupReturns, Resume
<1>14. ASSUME NEW o \in Ops, NEW caller \in Callers, CleanupRejects(o, caller) PROVE DownIsEmpty'
      BY <1>14 DEF CleanupRejects, Resume
<1>15. ASSUME NEW p \in Procs, SpawnFailed(p) PROVE DownIsEmpty'
      BY <1>15 DEF SpawnFailed, Reject
<1>16. ASSUME NEW p \in Procs, Prove(p) PROVE DownIsEmpty'
      BY <1>16 DEF Prove
<1>17. ASSUME NEW p \in Procs, ReadinessFailed(p) PROVE DownIsEmpty'
      BY <1>17 DEF ReadinessFailed, Reject
<1>18. ASSUME NEW p \in Procs, Overdue(p) PROVE DownIsEmpty'
      BY <1>18 DEF Overdue, Reject
<1>19. ASSUME NEW p \in Procs, Exit(p) PROVE DownIsEmpty'
      BY <1>19 DEF Exit
<1>20. ASSUME NEW p \in Procs, NEW state \in {"exited", "signalled"}, Close(p, state) PROVE DownIsEmpty'
      BY <1>20 DEF Close, Reject
<1>21. ASSUME NEW p \in Procs, NEW caller \in Callers, CancelReturns(p, caller) PROVE DownIsEmpty'
      BY <1>21 DEF CancelReturns
<1>22. ASSUME NEW p \in Procs, NEW o \in Ops, Register(o, p) PROVE DownIsEmpty'
      BY <1>22 DEF Register, Registered, Row
<1>23. ASSUME NEW p \in Procs, NEW o \in Ops, Launch(o, p) PROVE DownIsEmpty'
      BY <1>23 DEF Launch, Launching, LaunchRow, Registered, Row
<1>24. ASSUME NEW p \in Procs, NEW o \in Ops, LaunchError(o, p) PROVE DownIsEmpty'
      BY <1>24 DEF LaunchError, Launching, LaunchRow, Registered, Row
<1>25. ASSUME NEW p \in Procs, NEW o \in Ops, CrashInLaunch(o, p) PROVE DownIsEmpty'
      BY <1>25 DEF CrashInLaunch, Launching, LaunchRow, Registered, Row, Volatile
<1>26. ASSUME NEW p \in Procs, Reconcile(p) PROVE DownIsEmpty'
      BY <1>26 DEF Reconcile, RecoveredRow, ResidualRow
<1>27. ASSUME NEW p \in Procs, Terminated(p) PROVE DownIsEmpty'
      BY <1>27 DEF Terminated, RecoveredRow, ResidualRow
<1>28. ASSUME NEW o \in Ops, StopCancel(o) PROVE DownIsEmpty'
      BY <1>28 DEF StopCancel, BeginCancelling
<1>29. CASE BeginStop
      BY <1>29 DEF BeginStop
<1>30. CASE EndStop
      BY <1>30 DEF EndStop, Volatile
<1>31. CASE Crash
      BY <1>31 DEF Crash, Volatile
<1>32. CASE Open
      BY <1>32 DEF Open, Reopens, Unreconciled
<1>33. CASE FinishRecovery
      BY <1>33 DEF FinishRecovery, Unresolved, ProcsOf
<1>34. CASE UNCHANGED vars
      BY <1>34 DEF vars
<1> QED
    BY <1>1, <1>2, <1>3, <1>4, <1>5, <1>6, <1>7, <1>8, <1>9, <1>10, <1>11, <1>12, <1>13, <1>14,
       <1>15, <1>16, <1>17, <1>18, <1>19, <1>20, <1>21, <1>22, <1>23, <1>24, <1>25, <1>26,
       <1>27, <1>28, <1>29, <1>30, <1>31, <1>32, <1>33, <1>34
    DEF Next, OperationStep, ProcessStep

\* No step starts a client of an ordinary operation while recovery runs.
LEMMA QuietStep == TypeOK /\ DownIsEmpty /\ RecoveryIsQuiet /\ [Next]_vars => RecoveryIsQuiet'
<1> SUFFICES ASSUME TypeOK /\ DownIsEmpty /\ RecoveryIsQuiet, [Next]_vars PROVE RecoveryIsQuiet'
    OBVIOUS
<1> USE DEF DownIsEmpty, RecoveryIsQuiet, Flights, TypeOK, rowVars, clientVars, recoveryVars, stopVars, osVars, Callers, Running
<1>1. ASSUME NEW o \in Ops, StartOperation(o) PROVE RecoveryIsQuiet'
      BY <1>1 DEF StartOperation, SetState
<1>2. ASSUME NEW o \in Ops, Start(o) PROVE RecoveryIsQuiet'
      BY <1>2 DEF Start, SetState, Arm
<1>3. ASSUME NEW o \in Ops, Activity(o) PROVE RecoveryIsQuiet'
      BY <1>3 DEF Activity, Arm
<1>4. ASSUME NEW o \in Ops, NEW state \in {"active", "waiting"}, Progress(o, state) PROVE RecoveryIsQuiet'
      BY <1>4 DEF Progress, SetState, Arm
<1>5. ASSUME NEW o \in Ops, Finish(o) PROVE RecoveryIsQuiet'
      BY <1>5 DEF Finish, BeginCleanup
<1>6. ASSUME NEW o \in Ops, Abort(o) PROVE RecoveryIsQuiet'
      BY <1>6 DEF Abort, BeginCleanup
<1>7. ASSUME NEW o \in Ops, AbortTimedOut(o) PROVE RecoveryIsQuiet'
      BY <1>7 DEF AbortTimedOut, Disarm
<1>8. ASSUME NEW o \in Ops, Complete(o) PROVE RecoveryIsQuiet'
      BY <1>8 DEF Complete, Disarm, Settle, SetState
<1>9. ASSUME NEW o \in Ops, Fail(o) PROVE RecoveryIsQuiet'
      BY <1>9 DEF Fail, Disarm, Settle, SetState
<1>10. ASSUME NEW o \in Ops, Cancel(o) PROVE RecoveryIsQuiet'
      BY <1>10 DEF Cancel, BeginCancelling
<1>11. ASSUME NEW o \in Ops, Cancelled(o) PROVE RecoveryIsQuiet'
      BY <1>11 DEF Cancelled, Settle, SetState
<1>12. ASSUME NEW o \in Ops, NEW kind \in {"absolute", "idle"}, Timeout(o, kind) PROVE RecoveryIsQuiet'
      BY <1>12 DEF Timeout, Disarm, BeginCancelling
<1>13. ASSUME NEW o \in Ops, NEW caller \in Callers, CleanupReturns(o, caller) PROVE RecoveryIsQuiet'
      BY <1>13 DEF CleanupReturns, Resume
<1>14. ASSUME NEW o \in Ops, NEW caller \in Callers, CleanupRejects(o, caller) PROVE RecoveryIsQuiet'
      BY <1>14 DEF CleanupRejects, Resume
<1>15. ASSUME NEW p \in Procs, SpawnFailed(p) PROVE RecoveryIsQuiet'
      BY <1>15 DEF SpawnFailed, Reject
<1>16. ASSUME NEW p \in Procs, Prove(p) PROVE RecoveryIsQuiet'
      BY <1>16 DEF Prove
<1>17. ASSUME NEW p \in Procs, ReadinessFailed(p) PROVE RecoveryIsQuiet'
      BY <1>17 DEF ReadinessFailed, Reject
<1>18. ASSUME NEW p \in Procs, Overdue(p) PROVE RecoveryIsQuiet'
      BY <1>18 DEF Overdue, Reject
<1>19. ASSUME NEW p \in Procs, Exit(p) PROVE RecoveryIsQuiet'
      BY <1>19 DEF Exit
<1>20. ASSUME NEW p \in Procs, NEW state \in {"exited", "signalled"}, Close(p, state) PROVE RecoveryIsQuiet'
      BY <1>20 DEF Close, Reject
<1>21. ASSUME NEW p \in Procs, NEW caller \in Callers, CancelReturns(p, caller) PROVE RecoveryIsQuiet'
      BY <1>21 DEF CancelReturns
<1>22. ASSUME NEW p \in Procs, NEW o \in Ops, Register(o, p) PROVE RecoveryIsQuiet'
      BY <1>22 DEF Register, Registered, Row
<1>23. ASSUME NEW p \in Procs, NEW o \in Ops, Launch(o, p) PROVE RecoveryIsQuiet'
      BY <1>23 DEF Launch, Launching, LaunchRow, Registered, Row
<1>24. ASSUME NEW p \in Procs, NEW o \in Ops, LaunchError(o, p) PROVE RecoveryIsQuiet'
      BY <1>24 DEF LaunchError, Launching, LaunchRow, Registered, Row
<1>25. ASSUME NEW p \in Procs, NEW o \in Ops, CrashInLaunch(o, p) PROVE RecoveryIsQuiet'
      BY <1>25 DEF CrashInLaunch, Launching, LaunchRow, Registered, Row, Volatile
<1>26. ASSUME NEW p \in Procs, Reconcile(p) PROVE RecoveryIsQuiet'
      BY <1>26 DEF Reconcile, RecoveredRow, ResidualRow
<1>27. ASSUME NEW p \in Procs, Terminated(p) PROVE RecoveryIsQuiet'
      BY <1>27 DEF Terminated, RecoveredRow, ResidualRow
<1>28. ASSUME NEW o \in Ops, StopCancel(o) PROVE RecoveryIsQuiet'
      BY <1>28 DEF StopCancel, BeginCancelling
<1>29. CASE BeginStop
      BY <1>29 DEF BeginStop
<1>30. CASE EndStop
      BY <1>30 DEF EndStop, Volatile
<1>31. CASE Crash
      BY <1>31 DEF Crash, Volatile
<1>32. CASE Open
      BY <1>32 DEF Open, Reopens, Unreconciled
<1>33. CASE FinishRecovery
      BY <1>33 DEF FinishRecovery, Unresolved, ProcsOf
<1>34. CASE UNCHANGED vars
      BY <1>34 DEF vars
<1> QED
    BY <1>1, <1>2, <1>3, <1>4, <1>5, <1>6, <1>7, <1>8, <1>9, <1>10, <1>11, <1>12, <1>13, <1>14,
       <1>15, <1>16, <1>17, <1>18, <1>19, <1>20, <1>21, <1>22, <1>23, <1>24, <1>25, <1>26,
       <1>27, <1>28, <1>29, <1>30, <1>31, <1>32, <1>33, <1>34
    DEF Next, OperationStep, ProcessStep

\* A cleanup that fails during recovery is that of an exempt operation.
LEMMA ReopenedStep == TypeOK /\ RecoveryIsQuiet /\ FailedIsReopened /\ [Next]_vars => FailedIsReopened'
<1> SUFFICES ASSUME TypeOK /\ RecoveryIsQuiet /\ FailedIsReopened, [Next]_vars PROVE FailedIsReopened'
    OBVIOUS
<1> USE DEF RecoveryIsQuiet, FailedIsReopened, OpRows, TypeOK, rowVars, clientVars, recoveryVars, stopVars, osVars, Callers, Running
<1>1. ASSUME NEW o \in Ops, StartOperation(o) PROVE FailedIsReopened'
      BY <1>1 DEF StartOperation, SetState
<1>2. ASSUME NEW o \in Ops, Start(o) PROVE FailedIsReopened'
      BY <1>2 DEF Start, SetState, Arm
<1>3. ASSUME NEW o \in Ops, Activity(o) PROVE FailedIsReopened'
      BY <1>3 DEF Activity, Arm
<1>4. ASSUME NEW o \in Ops, NEW state \in {"active", "waiting"}, Progress(o, state) PROVE FailedIsReopened'
      BY <1>4 DEF Progress, SetState, Arm
<1>5. ASSUME NEW o \in Ops, Finish(o) PROVE FailedIsReopened'
      BY <1>5 DEF Finish, BeginCleanup
<1>6. ASSUME NEW o \in Ops, Abort(o) PROVE FailedIsReopened'
      BY <1>6 DEF Abort, BeginCleanup
<1>7. ASSUME NEW o \in Ops, AbortTimedOut(o) PROVE FailedIsReopened'
      BY <1>7 DEF AbortTimedOut, Disarm
<1>8. ASSUME NEW o \in Ops, Complete(o) PROVE FailedIsReopened'
      BY <1>8 DEF Complete, Disarm, Settle, SetState
<1>9. ASSUME NEW o \in Ops, Fail(o) PROVE FailedIsReopened'
      BY <1>9 DEF Fail, Disarm, Settle, SetState
<1>10. ASSUME NEW o \in Ops, Cancel(o) PROVE FailedIsReopened'
      BY <1>10 DEF Cancel, BeginCancelling
<1>11. ASSUME NEW o \in Ops, Cancelled(o) PROVE FailedIsReopened'
      BY <1>11 DEF Cancelled, Settle, SetState
<1>12. ASSUME NEW o \in Ops, NEW kind \in {"absolute", "idle"}, Timeout(o, kind) PROVE FailedIsReopened'
      BY <1>12 DEF Timeout, Disarm, BeginCancelling
<1>13. ASSUME NEW o \in Ops, NEW caller \in Callers, CleanupReturns(o, caller) PROVE FailedIsReopened'
      BY <1>13 DEF CleanupReturns, Resume
<1>14. ASSUME NEW o \in Ops, NEW caller \in Callers, CleanupRejects(o, caller) PROVE FailedIsReopened'
      BY <1>14 DEF CleanupRejects, Resume
<1>15. ASSUME NEW p \in Procs, SpawnFailed(p) PROVE FailedIsReopened'
      BY <1>15 DEF SpawnFailed, Reject
<1>16. ASSUME NEW p \in Procs, Prove(p) PROVE FailedIsReopened'
      BY <1>16 DEF Prove
<1>17. ASSUME NEW p \in Procs, ReadinessFailed(p) PROVE FailedIsReopened'
      BY <1>17 DEF ReadinessFailed, Reject
<1>18. ASSUME NEW p \in Procs, Overdue(p) PROVE FailedIsReopened'
      BY <1>18 DEF Overdue, Reject
<1>19. ASSUME NEW p \in Procs, Exit(p) PROVE FailedIsReopened'
      BY <1>19 DEF Exit
<1>20. ASSUME NEW p \in Procs, NEW state \in {"exited", "signalled"}, Close(p, state) PROVE FailedIsReopened'
      BY <1>20 DEF Close, Reject
<1>21. ASSUME NEW p \in Procs, NEW caller \in Callers, CancelReturns(p, caller) PROVE FailedIsReopened'
      BY <1>21 DEF CancelReturns
<1>22. ASSUME NEW p \in Procs, NEW o \in Ops, Register(o, p) PROVE FailedIsReopened'
      BY <1>22 DEF Register, Registered, Row
<1>23. ASSUME NEW p \in Procs, NEW o \in Ops, Launch(o, p) PROVE FailedIsReopened'
      BY <1>23 DEF Launch, Launching, LaunchRow, Registered, Row
<1>24. ASSUME NEW p \in Procs, NEW o \in Ops, LaunchError(o, p) PROVE FailedIsReopened'
      BY <1>24 DEF LaunchError, Launching, LaunchRow, Registered, Row
<1>25. ASSUME NEW p \in Procs, NEW o \in Ops, CrashInLaunch(o, p) PROVE FailedIsReopened'
      BY <1>25 DEF CrashInLaunch, Launching, LaunchRow, Registered, Row, Volatile
<1>26. ASSUME NEW p \in Procs, Reconcile(p) PROVE FailedIsReopened'
      BY <1>26 DEF Reconcile, RecoveredRow, ResidualRow
<1>27. ASSUME NEW p \in Procs, Terminated(p) PROVE FailedIsReopened'
      BY <1>27 DEF Terminated, RecoveredRow, ResidualRow
<1>28. ASSUME NEW o \in Ops, StopCancel(o) PROVE FailedIsReopened'
      BY <1>28 DEF StopCancel, BeginCancelling
<1>29. CASE BeginStop
      BY <1>29 DEF BeginStop
<1>30. CASE EndStop
      BY <1>30 DEF EndStop, Volatile
<1>31. CASE Crash
      BY <1>31 DEF Crash, Volatile
<1>32. CASE Open
      BY <1>32 DEF Open, Reopens, Unreconciled
<1>33. CASE FinishRecovery
      BY <1>33 DEF FinishRecovery, Unresolved, ProcsOf
<1>34. CASE UNCHANGED vars
      BY <1>34 DEF vars
<1> QED
    BY <1>1, <1>2, <1>3, <1>4, <1>5, <1>6, <1>7, <1>8, <1>9, <1>10, <1>11, <1>12, <1>13, <1>14,
       <1>15, <1>16, <1>17, <1>18, <1>19, <1>20, <1>21, <1>22, <1>23, <1>24, <1>25, <1>26,
       <1>27, <1>28, <1>29, <1>30, <1>31, <1>32, <1>33, <1>34
    DEF Next, OperationStep, ProcessStep

\* Every row is written for an operation.
LEMMA RowsStep == TypeOK /\ RowsHaveOperations /\ [Next]_vars => RowsHaveOperations'
<1> SUFFICES ASSUME TypeOK /\ RowsHaveOperations, [Next]_vars PROVE RowsHaveOperations'
    OBVIOUS
<1> USE DEF RowsHaveOperations, ProcSuccessors, TypeOK, rowVars, clientVars, recoveryVars, stopVars, osVars, Callers, Running
<1>1. ASSUME NEW o \in Ops, StartOperation(o) PROVE RowsHaveOperations'
      BY <1>1 DEF StartOperation, SetState
<1>2. ASSUME NEW o \in Ops, Start(o) PROVE RowsHaveOperations'
      BY <1>2 DEF Start, SetState, Arm
<1>3. ASSUME NEW o \in Ops, Activity(o) PROVE RowsHaveOperations'
      BY <1>3 DEF Activity, Arm
<1>4. ASSUME NEW o \in Ops, NEW state \in {"active", "waiting"}, Progress(o, state) PROVE RowsHaveOperations'
      BY <1>4 DEF Progress, SetState, Arm
<1>5. ASSUME NEW o \in Ops, Finish(o) PROVE RowsHaveOperations'
      BY <1>5 DEF Finish, BeginCleanup
<1>6. ASSUME NEW o \in Ops, Abort(o) PROVE RowsHaveOperations'
      BY <1>6 DEF Abort, BeginCleanup
<1>7. ASSUME NEW o \in Ops, AbortTimedOut(o) PROVE RowsHaveOperations'
      BY <1>7 DEF AbortTimedOut, Disarm
<1>8. ASSUME NEW o \in Ops, Complete(o) PROVE RowsHaveOperations'
      BY <1>8 DEF Complete, Disarm, Settle, SetState
<1>9. ASSUME NEW o \in Ops, Fail(o) PROVE RowsHaveOperations'
      BY <1>9 DEF Fail, Disarm, Settle, SetState
<1>10. ASSUME NEW o \in Ops, Cancel(o) PROVE RowsHaveOperations'
      BY <1>10 DEF Cancel, BeginCancelling
<1>11. ASSUME NEW o \in Ops, Cancelled(o) PROVE RowsHaveOperations'
      BY <1>11 DEF Cancelled, Settle, SetState
<1>12. ASSUME NEW o \in Ops, NEW kind \in {"absolute", "idle"}, Timeout(o, kind) PROVE RowsHaveOperations'
      BY <1>12 DEF Timeout, Disarm, BeginCancelling
<1>13. ASSUME NEW o \in Ops, NEW caller \in Callers, CleanupReturns(o, caller) PROVE RowsHaveOperations'
      BY <1>13 DEF CleanupReturns, Resume
<1>14. ASSUME NEW o \in Ops, NEW caller \in Callers, CleanupRejects(o, caller) PROVE RowsHaveOperations'
      BY <1>14 DEF CleanupRejects, Resume
<1>15. ASSUME NEW p \in Procs, SpawnFailed(p) PROVE RowsHaveOperations'
      BY <1>15 DEF SpawnFailed, Reject
<1>16. ASSUME NEW p \in Procs, Prove(p) PROVE RowsHaveOperations'
      BY <1>16 DEF Prove
<1>17. ASSUME NEW p \in Procs, ReadinessFailed(p) PROVE RowsHaveOperations'
      BY <1>17 DEF ReadinessFailed, Reject
<1>18. ASSUME NEW p \in Procs, Overdue(p) PROVE RowsHaveOperations'
      <2>1. \A q \in Procs : process'[q].op = process[q].op /\ process'[q].state = process[q].state
          /\ process'[q].cleanup \in {"cleaned", process[q].cleanup}
          BY <1>18 DEF Overdue, ProcRows
      <2> QED
          BY <1>18, <2>1 DEF Overdue
<1>19. ASSUME NEW p \in Procs, Exit(p) PROVE RowsHaveOperations'
      BY <1>19 DEF Exit
<1>20. ASSUME NEW p \in Procs, NEW state \in {"exited", "signalled"}, Close(p, state) PROVE RowsHaveOperations'
      BY <1>20 DEF Close, Reject
<1>21. ASSUME NEW p \in Procs, NEW caller \in Callers, CancelReturns(p, caller) PROVE RowsHaveOperations'
      BY <1>21 DEF CancelReturns
<1>22. ASSUME NEW p \in Procs, NEW o \in Ops, Register(o, p) PROVE RowsHaveOperations'
      BY <1>22 DEF Register, Registered, Row
<1>23. ASSUME NEW p \in Procs, NEW o \in Ops, Launch(o, p) PROVE RowsHaveOperations'
      <2>1. /\ process'[p].op = o /\ process'[p].state # "possible-residual"
          /\ process'[p].cleanup \in {"required", process[p].cleanup}
          /\ \A q \in Procs \ {p} : process'[q] = process[q]
          BY <1>23, LaunchEffect
      <2> QED
          BY <1>23, <2>1 DEF Launch
<1>24. ASSUME NEW p \in Procs, NEW o \in Ops, LaunchError(o, p) PROVE RowsHaveOperations'
      <2>1. /\ process'[p].op = o /\ process'[p].state # "possible-residual"
          /\ process'[p].cleanup \in {"required", process[p].cleanup}
          /\ \A q \in Procs \ {p} : process'[q] = process[q]
          BY <1>24, LaunchEffect
      <2> QED
          BY <1>24, <2>1 DEF LaunchError
<1>25. ASSUME NEW p \in Procs, NEW o \in Ops, CrashInLaunch(o, p) PROVE RowsHaveOperations'
      <2>1. /\ process'[p].op = o /\ process'[p].state # "possible-residual"
          /\ process'[p].cleanup \in {"required", process[p].cleanup}
          /\ \A q \in Procs \ {p} : process'[q] = process[q]
          BY <1>25, LaunchEffect
      <2> QED
          BY <1>25, <2>1, ConstantsAssumption DEF CrashInLaunch, Volatile
<1>26. ASSUME NEW p \in Procs, Reconcile(p) PROVE RowsHaveOperations'
      <2>1. \A q \in Procs : process'[q].op = process[q].op /\ (q # p => process'[q] = process[q])
          BY <1>26 DEF Reconcile, RecoveredRow, ResidualRow, ProcRows
      <2> QED
          BY <1>26, <2>1, ConstantsAssumption DEF Reconcile
<1>27. ASSUME NEW p \in Procs, Terminated(p) PROVE RowsHaveOperations'
      <2>1. \A q \in Procs : process'[q].op = process[q].op /\ (q # p => process'[q] = process[q])
          BY <1>27 DEF Terminated, RecoveredRow, ResidualRow, ProcRows
      <2> QED
          BY <1>27, <2>1, ConstantsAssumption DEF Terminated
<1>28. ASSUME NEW o \in Ops, StopCancel(o) PROVE RowsHaveOperations'
      BY <1>28 DEF StopCancel, BeginCancelling
<1>29. CASE BeginStop
      BY <1>29 DEF BeginStop
<1>30. CASE EndStop
      BY <1>30, ConstantsAssumption DEF EndStop, Volatile
<1>31. CASE Crash
      BY <1>31, ConstantsAssumption DEF Crash, Volatile
<1>32. CASE Open
      BY <1>32 DEF Open, Reopens, Unreconciled
<1>33. CASE FinishRecovery
      BY <1>33 DEF FinishRecovery, Unresolved, ProcsOf
<1>34. CASE UNCHANGED vars
      BY <1>34 DEF vars
<1> QED
    BY <1>1, <1>2, <1>3, <1>4, <1>5, <1>6, <1>7, <1>8, <1>9, <1>10, <1>11, <1>12, <1>13, <1>14,
       <1>15, <1>16, <1>17, <1>18, <1>19, <1>20, <1>21, <1>22, <1>23, <1>24, <1>25, <1>26,
       <1>27, <1>28, <1>29, <1>30, <1>31, <1>32, <1>33, <1>34
    DEF Next, OperationStep, ProcessStep

\* A failed cleanup blocks admission, and the end of recovery decides for all of them.
LEMMA FailedStep == TypeOK /\ RecoveryIsQuiet /\ FailedIsReopened /\ FailedCleanupBlocksAdmission /\ [Next]_vars => FailedCleanupBlocksAdmission'
<1> SUFFICES ASSUME TypeOK /\ RecoveryIsQuiet /\ FailedIsReopened /\ FailedCleanupBlocksAdmission, [Next]_vars PROVE FailedCleanupBlocksAdmission'
    OBVIOUS
<1> USE DEF RecoveryIsQuiet, FailedIsReopened, FailedCleanupBlocksAdmission, TypeOK, rowVars, clientVars, recoveryVars, stopVars, osVars, Callers, Running
<1>1. ASSUME NEW o \in Ops, StartOperation(o) PROVE FailedCleanupBlocksAdmission'
      BY <1>1 DEF StartOperation, SetState
<1>2. ASSUME NEW o \in Ops, Start(o) PROVE FailedCleanupBlocksAdmission'
      BY <1>2 DEF Start, SetState, Arm
<1>3. ASSUME NEW o \in Ops, Activity(o) PROVE FailedCleanupBlocksAdmission'
      BY <1>3 DEF Activity, Arm
<1>4. ASSUME NEW o \in Ops, NEW state \in {"active", "waiting"}, Progress(o, state) PROVE FailedCleanupBlocksAdmission'
      <2>1. \A x \in Ops : operation'[x].cleanup = operation[x].cleanup
          BY <1>4, SetStateEffect DEF Progress
      <2> QED
          BY <1>4, <2>1 DEF Progress
<1>5. ASSUME NEW o \in Ops, Finish(o) PROVE FailedCleanupBlocksAdmission'
      BY <1>5 DEF Finish, BeginCleanup
<1>6. ASSUME NEW o \in Ops, Abort(o) PROVE FailedCleanupBlocksAdmission'
      BY <1>6 DEF Abort, BeginCleanup
<1>7. ASSUME NEW o \in Ops, AbortTimedOut(o) PROVE FailedCleanupBlocksAdmission'
      BY <1>7 DEF AbortTimedOut, Disarm
<1>8. ASSUME NEW o \in Ops, Complete(o) PROVE FailedCleanupBlocksAdmission'
      <2>1. \A x \in Ops : operation'[x].cleanup = operation[x].cleanup
          BY <1>8, SetStateEffect DEF Complete, Settle
      <2> QED
          BY <1>8, <2>1 DEF Complete
<1>9. ASSUME NEW o \in Ops, Fail(o) PROVE FailedCleanupBlocksAdmission'
      <2>1. \A x \in Ops : operation'[x].cleanup = operation[x].cleanup
          BY <1>9, SetStateEffect DEF Fail, Settle
      <2> QED
          BY <1>9, <2>1 DEF Fail
<1>10. ASSUME NEW o \in Ops, Cancel(o) PROVE FailedCleanupBlocksAdmission'
      BY <1>10 DEF Cancel, BeginCancelling
<1>11. ASSUME NEW o \in Ops, Cancelled(o) PROVE FailedCleanupBlocksAdmission'
      <2>1. \A x \in Ops : operation'[x].cleanup = operation[x].cleanup
          BY <1>11, SetStateEffect DEF Cancelled, Settle
      <2> QED
          BY <1>11, <2>1 DEF Cancelled
<1>12. ASSUME NEW o \in Ops, NEW kind \in {"absolute", "idle"}, Timeout(o, kind) PROVE FailedCleanupBlocksAdmission'
      BY <1>12 DEF Timeout, Disarm, BeginCancelling
<1>13. ASSUME NEW o \in Ops, NEW caller \in Callers, CleanupReturns(o, caller) PROVE FailedCleanupBlocksAdmission'
      BY <1>13 DEF CleanupReturns, Resume
<1>14. ASSUME NEW o \in Ops, NEW caller \in Callers, CleanupRejects(o, caller) PROVE FailedCleanupBlocksAdmission'
      BY <1>14 DEF CleanupRejects, Resume
<1>15. ASSUME NEW p \in Procs, SpawnFailed(p) PROVE FailedCleanupBlocksAdmission'
      BY <1>15 DEF SpawnFailed, Reject
<1>16. ASSUME NEW p \in Procs, Prove(p) PROVE FailedCleanupBlocksAdmission'
      BY <1>16 DEF Prove
<1>17. ASSUME NEW p \in Procs, ReadinessFailed(p) PROVE FailedCleanupBlocksAdmission'
      BY <1>17 DEF ReadinessFailed, Reject
<1>18. ASSUME NEW p \in Procs, Overdue(p) PROVE FailedCleanupBlocksAdmission'
      BY <1>18 DEF Overdue, Reject
<1>19. ASSUME NEW p \in Procs, Exit(p) PROVE FailedCleanupBlocksAdmission'
      BY <1>19 DEF Exit
<1>20. ASSUME NEW p \in Procs, NEW state \in {"exited", "signalled"}, Close(p, state) PROVE FailedCleanupBlocksAdmission'
      BY <1>20 DEF Close, Reject
<1>21. ASSUME NEW p \in Procs, NEW caller \in Callers, CancelReturns(p, caller) PROVE FailedCleanupBlocksAdmission'
      BY <1>21 DEF CancelReturns
<1>22. ASSUME NEW p \in Procs, NEW o \in Ops, Register(o, p) PROVE FailedCleanupBlocksAdmission'
      BY <1>22 DEF Register, Registered, Row
<1>23. ASSUME NEW p \in Procs, NEW o \in Ops, Launch(o, p) PROVE FailedCleanupBlocksAdmission'
      <2>1. \A x \in Ops : operation'[x].cleanup = "required" \/ operation'[x].cleanup = operation[x].cleanup
          BY <1>23, LaunchEffect
      <2> QED
          BY <1>23, <2>1 DEF Launch
<1>24. ASSUME NEW p \in Procs, NEW o \in Ops, LaunchError(o, p) PROVE FailedCleanupBlocksAdmission'
      <2>1. \A x \in Ops : operation'[x].cleanup = "required" \/ operation'[x].cleanup = operation[x].cleanup
          BY <1>24, LaunchEffect
      <2> QED
          BY <1>24, <2>1 DEF LaunchError
<1>25. ASSUME NEW p \in Procs, NEW o \in Ops, CrashInLaunch(o, p) PROVE FailedCleanupBlocksAdmission'
      <2>1. \A x \in Ops : operation'[x].cleanup = "required" \/ operation'[x].cleanup = operation[x].cleanup
          BY <1>25, LaunchEffect
      <2> QED
          BY <1>25, <2>1 DEF CrashInLaunch, Volatile
<1>26. ASSUME NEW p \in Procs, Reconcile(p) PROVE FailedCleanupBlocksAdmission'
      BY <1>26 DEF Reconcile, RecoveredRow, ResidualRow
<1>27. ASSUME NEW p \in Procs, Terminated(p) PROVE FailedCleanupBlocksAdmission'
      BY <1>27 DEF Terminated, RecoveredRow, ResidualRow
<1>28. ASSUME NEW o \in Ops, StopCancel(o) PROVE FailedCleanupBlocksAdmission'
      BY <1>28 DEF StopCancel, BeginCancelling
<1>29. CASE BeginStop
      BY <1>29 DEF BeginStop
<1>30. CASE EndStop
      BY <1>30 DEF EndStop, Volatile
<1>31. CASE Crash
      BY <1>31 DEF Crash, Volatile
<1>32. CASE Open
      BY <1>32 DEF Open, Reopens, Unreconciled
<1>33. CASE FinishRecovery
      BY <1>33 DEF FinishRecovery, Unresolved, ProcsOf
<1>34. CASE UNCHANGED vars
      BY <1>34 DEF vars
<1> QED
    BY <1>1, <1>2, <1>3, <1>4, <1>5, <1>6, <1>7, <1>8, <1>9, <1>10, <1>11, <1>12, <1>13, <1>14,
       <1>15, <1>16, <1>17, <1>18, <1>19, <1>20, <1>21, <1>22, <1>23, <1>24, <1>25, <1>26,
       <1>27, <1>28, <1>29, <1>30, <1>31, <1>32, <1>33, <1>34
    DEF Next, OperationStep, ProcessStep

\* Only recovery writes residual rows, and its end sees all of them.
LEMMA ResidualStep == TypeOK /\ RecoveryIsQuiet /\ RowsHaveOperations /\ ResidualBlocksAdmission /\ [Next]_vars => ResidualBlocksAdmission'
<1> SUFFICES ASSUME TypeOK /\ RecoveryIsQuiet /\ RowsHaveOperations /\ ResidualBlocksAdmission, [Next]_vars PROVE ResidualBlocksAdmission'
    OBVIOUS
<1> USE DEF RecoveryIsQuiet, RowsHaveOperations, ResidualBlocksAdmission, ProcSuccessors, TypeOK, rowVars, clientVars, recoveryVars, stopVars, osVars, Callers, Running
<1>1. ASSUME NEW o \in Ops, StartOperation(o) PROVE ResidualBlocksAdmission'
      BY <1>1 DEF StartOperation, SetState
<1>2. ASSUME NEW o \in Ops, Start(o) PROVE ResidualBlocksAdmission'
      BY <1>2 DEF Start, SetState, Arm
<1>3. ASSUME NEW o \in Ops, Activity(o) PROVE ResidualBlocksAdmission'
      BY <1>3 DEF Activity, Arm
<1>4. ASSUME NEW o \in Ops, NEW state \in {"active", "waiting"}, Progress(o, state) PROVE ResidualBlocksAdmission'
      BY <1>4 DEF Progress, SetState, Arm
<1>5. ASSUME NEW o \in Ops, Finish(o) PROVE ResidualBlocksAdmission'
      BY <1>5 DEF Finish, BeginCleanup
<1>6. ASSUME NEW o \in Ops, Abort(o) PROVE ResidualBlocksAdmission'
      BY <1>6 DEF Abort, BeginCleanup
<1>7. ASSUME NEW o \in Ops, AbortTimedOut(o) PROVE ResidualBlocksAdmission'
      BY <1>7 DEF AbortTimedOut, Disarm
<1>8. ASSUME NEW o \in Ops, Complete(o) PROVE ResidualBlocksAdmission'
      BY <1>8 DEF Complete, Disarm, Settle, SetState
<1>9. ASSUME NEW o \in Ops, Fail(o) PROVE ResidualBlocksAdmission'
      BY <1>9 DEF Fail, Disarm, Settle, SetState
<1>10. ASSUME NEW o \in Ops, Cancel(o) PROVE ResidualBlocksAdmission'
      BY <1>10 DEF Cancel, BeginCancelling
<1>11. ASSUME NEW o \in Ops, Cancelled(o) PROVE ResidualBlocksAdmission'
      BY <1>11 DEF Cancelled, Settle, SetState
<1>12. ASSUME NEW o \in Ops, NEW kind \in {"absolute", "idle"}, Timeout(o, kind) PROVE ResidualBlocksAdmission'
      BY <1>12 DEF Timeout, Disarm, BeginCancelling
<1>13. ASSUME NEW o \in Ops, NEW caller \in Callers, CleanupReturns(o, caller) PROVE ResidualBlocksAdmission'
      BY <1>13 DEF CleanupReturns, Resume
<1>14. ASSUME NEW o \in Ops, NEW caller \in Callers, CleanupRejects(o, caller) PROVE ResidualBlocksAdmission'
      BY <1>14 DEF CleanupRejects, Resume
<1>15. ASSUME NEW p \in Procs, SpawnFailed(p) PROVE ResidualBlocksAdmission'
      BY <1>15 DEF SpawnFailed, Reject
<1>16. ASSUME NEW p \in Procs, Prove(p) PROVE ResidualBlocksAdmission'
      BY <1>16 DEF Prove
<1>17. ASSUME NEW p \in Procs, ReadinessFailed(p) PROVE ResidualBlocksAdmission'
      BY <1>17 DEF ReadinessFailed, Reject
<1>18. ASSUME NEW p \in Procs, Overdue(p) PROVE ResidualBlocksAdmission'
      <2>1. \A q \in Procs : process'[q].op = process[q].op /\ process'[q].state = process[q].state
          /\ process'[q].cleanup \in {"cleaned", process[q].cleanup}
          BY <1>18 DEF Overdue, ProcRows
      <2> QED
          BY <1>18, <2>1 DEF Overdue
<1>19. ASSUME NEW p \in Procs, Exit(p) PROVE ResidualBlocksAdmission'
      BY <1>19 DEF Exit
<1>20. ASSUME NEW p \in Procs, NEW state \in {"exited", "signalled"}, Close(p, state) PROVE ResidualBlocksAdmission'
      BY <1>20 DEF Close, Reject
<1>21. ASSUME NEW p \in Procs, NEW caller \in Callers, CancelReturns(p, caller) PROVE ResidualBlocksAdmission'
      BY <1>21 DEF CancelReturns
<1>22. ASSUME NEW p \in Procs, NEW o \in Ops, Register(o, p) PROVE ResidualBlocksAdmission'
      BY <1>22 DEF Register, Registered, Row
<1>23. ASSUME NEW p \in Procs, NEW o \in Ops, Launch(o, p) PROVE ResidualBlocksAdmission'
      <2>1. /\ process'[p].op = o /\ process'[p].state # "possible-residual"
          /\ process'[p].cleanup \in {"required", process[p].cleanup}
          /\ \A q \in Procs \ {p} : process'[q] = process[q]
          BY <1>23, LaunchEffect
      <2> QED
          BY <1>23, <2>1 DEF Launch
<1>24. ASSUME NEW p \in Procs, NEW o \in Ops, LaunchError(o, p) PROVE ResidualBlocksAdmission'
      <2>1. /\ process'[p].op = o /\ process'[p].state # "possible-residual"
          /\ process'[p].cleanup \in {"required", process[p].cleanup}
          /\ \A q \in Procs \ {p} : process'[q] = process[q]
          BY <1>24, LaunchEffect
      <2> QED
          BY <1>24, <2>1 DEF LaunchError
<1>25. ASSUME NEW p \in Procs, NEW o \in Ops, CrashInLaunch(o, p) PROVE ResidualBlocksAdmission'
      <2>1. /\ process'[p].op = o /\ process'[p].state # "possible-residual"
          /\ process'[p].cleanup \in {"required", process[p].cleanup}
          /\ \A q \in Procs \ {p} : process'[q] = process[q]
          BY <1>25, LaunchEffect
      <2> QED
          BY <1>25, <2>1 DEF CrashInLaunch, Volatile
<1>26. ASSUME NEW p \in Procs, Reconcile(p) PROVE ResidualBlocksAdmission'
      BY <1>26 DEF Reconcile, RecoveredRow, ResidualRow
<1>27. ASSUME NEW p \in Procs, Terminated(p) PROVE ResidualBlocksAdmission'
      BY <1>27 DEF Terminated, RecoveredRow, ResidualRow
<1>28. ASSUME NEW o \in Ops, StopCancel(o) PROVE ResidualBlocksAdmission'
      BY <1>28 DEF StopCancel, BeginCancelling
<1>29. CASE BeginStop
      BY <1>29 DEF BeginStop
<1>30. CASE EndStop
      BY <1>30 DEF EndStop, Volatile
<1>31. CASE Crash
      BY <1>31 DEF Crash, Volatile
<1>32. CASE Open
      BY <1>32 DEF Open, Reopens, Unreconciled
<1>33. CASE FinishRecovery
      BY <1>33 DEF FinishRecovery, Unresolved, ProcsOf
<1>34. CASE UNCHANGED vars
      BY <1>34 DEF vars
<1> QED
    BY <1>1, <1>2, <1>3, <1>4, <1>5, <1>6, <1>7, <1>8, <1>9, <1>10, <1>11, <1>12, <1>13, <1>14,
       <1>15, <1>16, <1>17, <1>18, <1>19, <1>20, <1>21, <1>22, <1>23, <1>24, <1>25, <1>26,
       <1>27, <1>28, <1>29, <1>30, <1>31, <1>32, <1>33, <1>34
    DEF Next, OperationStep, ProcessStep

\* The invariant holds at the start and is kept by every step.
LEMMA InitAdmission == Init => AdmissionInv
<1> SUFFICES ASSUME Init PROVE AdmissionInv
    OBVIOUS
<1>1. TypeOK
      BY InitTypeOK
<1> QED
    BY <1>1, ConstantsAssumption
    DEF Init, AdmissionInv, DownIsEmpty, RecoveryIsQuiet, FailedIsReopened, RowsHaveOperations,
        FailedCleanupBlocksAdmission, ResidualBlocksAdmission

LEMMA StepAdmission == AdmissionInv /\ [Next]_vars => AdmissionInv'
  BY StepTypeOK, DownStep, QuietStep, ReopenedStep, RowsStep, FailedStep, ResidualStep DEF AdmissionInv

\* No ordinary operation is admitted while the cleanup of one is recorded as
\* failed: cleanupOperation blocks admission, and recover() lifts the block only
\* when it has reopened and resolved every such operation.
THEOREM FailedCleanupBlocks == Spec => []FailedCleanupBlocksAdmission
<1>1. AdmissionInv => FailedCleanupBlocksAdmission
      BY DEF AdmissionInv
<1> QED
    BY <1>1, InitAdmission, StepAdmission, PTL DEF Spec

\* Admission is never enabled while a process row is residual, after any number
\* of crashes and restarts: recover() writes the residual rows and decides.
THEOREM ResidualBlocks == Spec => []ResidualBlocksAdmission
<1>1. AdmissionInv => ResidualBlocksAdmission
      BY DEF AdmissionInv
<1> QED
    BY <1>1, InitAdmission, StepAdmission, PTL DEF Spec

------------------------------------------------------------------------------
(***************************************************************************)
(* The life of operations, process rows and children.                      *)
(***************************************************************************)

\* The states in which an operation is at work.
Working(o) == operation[o].state \notin Terminal \cup {"absent", "recovering"}

\* Somebody runs for an operation: its client function or one of its cleanups.
HasClient(o) == body[o] # "none" \/ \E c \in Callers \cup {"cancelled"} : <<o, c>> \in flights

\* While the backend is down nothing of its processes is left in memory either.
DownForgets ==
  phase = "down" =>
    /\ cancelling = {} /\ rows = {} /\ incomplete = {} /\ terminating = NoProc
    /\ \A p \in Procs : run[p] = "none"

\* An operation that somebody runs for exists; recovery has taken up
\* exactly the ones in state "recovering"; the leases are the working ones.
OpLife(o) ==
  /\ HasClient(o) => operation[o].state # "absent"
  /\ phase = "recovering" => (o \in incomplete <=> operation[o].state = "recovering")
  /\ phase \in {"open", "stopping"} => operation[o].state # "recovering"
  /\ phase # "down" => (o \in leases <=> Working(o))

\* The row of a process against its operation, its promise and its child.
RowLife(p) ==
  /\ process[p].state = "absent" => process[p].op = NoOp
  /\ process[p].op \in Ops => operation[process[p].op].state # "absent"
  /\ process[p].exit = "observed" => /\ child[p] = "gone"
                                     /\ run[p] \in {"none", "closed", "done"}
                                     /\ process[p].state # "absent"
  /\ run[p] = "closed" => child[p] = "gone"
  /\ run[p] = "unspawned" => ~process[p].pid

\* A callback under way is that of a launched process, whose child it signalled.
CallbackLife(p) ==
  \A c \in Callers : <<p, c>> \in cancelling =>
    /\ process[p].state # "absent"
    /\ p \notin Deferred => child[p] # "alive" \/ p \in killed

\* A row that recovery has still to look at is as the restart found it: not
\* cleaned, and of an operation that nothing can work for or cancel.
RowToReconcile(p) ==
  p \in rows =>
    /\ phase = "recovering" /\ run[p] = "none"
    /\ Unreconciled(p)
    /\ process[p].op \in Ops
    /\ operation[process[p].op].state \in Terminal \cup {"recovering"}
    /\ \A c \in Callers : <<p, c>> \notin cancelling

TerminatesARow == terminating # NoProc => terminating \in rows

LifeInv ==
  /\ DownForgets /\ TerminatesARow
  /\ \A o \in Ops : OpLife(o)
  /\ \A p \in Procs : RowLife(p) /\ CallbackLife(p) /\ RowToReconcile(p)
  /\ CleanedOperationIsClean /\ CleanedProcessIsGone

(* What the steps do to the tables *)

LEMMA Transitions ==
  ASSUME TypeOK, NEW o \in Ops, NEW s, CanTransition(o, s)
  PROVE  /\ operation[o].state \notin Terminal \cup {"absent", "recovering"}
         /\ s \notin {"absent", "recovering", "requested"}
  BY DEF CanTransition, Successors, Terminal, TypeOK, OpRows, OpStates

\* A step of an operation leaves the processes, their children and recovery alone.
LEMMA OperationFrame ==
  ASSUME NEW o \in Ops, OperationStep(o) \/ StopCancel(o)
  PROVE  UNCHANGED <<process, run, rows, incomplete, terminating, phase, child>>
  BY DEF OperationStep, StartOperation, Start, Activity, Progress, Finish, Abort, AbortTimedOut, Complete, Fail, Cancel, Cancelled, Timeout, CleanupReturns, CleanupRejects, StopCancel,
         BeginCancelling, recoveryVars, osVars, rowVars, clientVars

\* It moves the state of that operation along Successors, if at all, and the
\* lease leaves the map with the first terminal state.
Follows(o) ==
  /\ \A x \in Ops \ {o} :
       operation'[x] = operation[x] /\ HasClient(x)' = HasClient(x) /\ (x \in leases' <=> x \in leases)
  /\ HasClient(o)' => HasClient(o) \/ operation'[o].state # "absent"
  /\ \/ operation'[o].state = operation[o].state /\ (o \in leases' <=> o \in leases)
     \/ operation[o].state = "absent" /\ operation'[o].state = "requested" /\ o \in leases'
     \/ /\ CanTransition(o, operation'[o].state)
        /\ o \in leases' <=> o \in leases /\ operation'[o].state \notin Terminal

LEMMA OperationFollows ==
  ASSUME TypeOK, NEW o \in Ops, OperationStep(o) \/ StopCancel(o)
  PROVE  Follows(o)
<1> USE DEF TypeOK, OpRows, Flights, Follows, HasClient, rowVars, clientVars, Callers, Terminal
<1>1. CASE StartOperation(o)
      BY <1>1 DEF StartOperation, SetState
<1>2. CASE Start(o)
      BY <1>2 DEF Start, SetState, Arm
<1>3. CASE Activity(o)
      BY <1>3 DEF Activity, Arm
<1>4. ASSUME NEW state \in {"active", "waiting"}, Progress(o, state)
      PROVE  Follows(o)
      BY <1>4 DEF Progress, SetState, Arm
<1>5. CASE Finish(o)
      BY <1>5 DEF Finish, BeginCleanup
<1>6. CASE Abort(o)
      BY <1>6 DEF Abort, BeginCleanup
<1>7. CASE AbortTimedOut(o)
      BY <1>7 DEF AbortTimedOut, Disarm
<1>8. CASE Complete(o)
      BY <1>8 DEF Complete, Disarm, Settle, SetState
<1>9. CASE Fail(o)
      BY <1>9 DEF Fail, Disarm, Settle, SetState
<1>10. CASE Cancel(o)
      BY <1>10 DEF Cancel, BeginCancelling, ProcsOf
<1>11. CASE Cancelled(o)
      BY <1>11 DEF Cancelled, Settle, SetState
<1>12. ASSUME NEW kind \in {"absolute", "idle"}, Timeout(o, kind)
      PROVE  Follows(o)
      BY <1>12 DEF Timeout, Disarm, BeginCancelling, ProcsOf
<1>13. ASSUME NEW caller \in Callers, CleanupReturns(o, caller)
      PROVE  Follows(o)
  <2>1. /\ \A x \in Ops \ {o} : operation'[x] = operation[x]
        /\ operation'[o].state = operation[o].state
        BY <1>13 DEF CleanupReturns
  <2>2. /\ leases' = leases /\ HasClient(o)
        /\ \A x \in Ops \ {o} : HasClient(x)' = HasClient(x)
        BY <1>13, <2>1 DEF CleanupReturns, Resume
  <2> QED BY <2>1, <2>2
<1>14. ASSUME NEW caller \in Callers, CleanupRejects(o, caller)
      PROVE  Follows(o)
  <2>1. /\ \A x \in Ops \ {o} : operation'[x] = operation[x]
        /\ operation'[o].state = operation[o].state
        BY <1>14 DEF CleanupRejects
  <2>2. /\ leases' = leases /\ HasClient(o)
        /\ \A x \in Ops \ {o} : HasClient(x)' = HasClient(x)
        BY <1>14, <2>1 DEF CleanupRejects, Resume
  <2> QED BY <2>1, <2>2
<1>15. CASE StopCancel(o)
      BY <1>15 DEF StopCancel, BeginCancelling, ProcsOf
<1> QED
    BY <1>1, <1>2, <1>3, <1>4, <1>5, <1>6, <1>7, <1>8, <1>9, <1>10, <1>11, <1>12, <1>13,
       <1>14, <1>15 DEF OperationStep

\* New callbacks are those of the rows of an operation that may be cancelled, and
\* the living children among them are signalled.
Signals(o) ==
  /\ killed \subseteq killed'
  /\ \A p \in Procs, c \in Callers : <<p, c>> \in cancelling' =>
       \/ <<p, c>> \in cancelling
       \/ /\ process[p].op = o
          /\ operation[o].state \notin Terminal \cup {"absent", "recovering"}
          /\ child[p] = "alive" => p \in killed'

LEMMA OperationSignals ==
  ASSUME TypeOK, NEW o \in Ops, OperationStep(o) \/ StopCancel(o)
  PROVE  Signals(o)
<1> USE Transitions DEF TypeOK, Signals, ProcsOf, rowVars, clientVars, osVars
<1>1. CASE StartOperation(o)
      BY <1>1 DEF StartOperation, SetState
<1>2. CASE Start(o)
      BY <1>2 DEF Start, SetState, Arm
<1>3. CASE Activity(o)
      BY <1>3 DEF Activity, Arm
<1>4. ASSUME NEW state \in {"active", "waiting"}, Progress(o, state)
      PROVE  Signals(o)
      BY <1>4 DEF Progress, SetState, Arm
<1>5. CASE Finish(o)
      BY <1>5 DEF Finish, BeginCleanup
<1>6. CASE Abort(o)
      BY <1>6 DEF Abort, BeginCleanup
<1>7. CASE AbortTimedOut(o)
      BY <1>7 DEF AbortTimedOut, Disarm
<1>8. CASE Complete(o)
      BY <1>8 DEF Complete, Disarm, Settle, SetState
<1>9. CASE Fail(o)
      BY <1>9 DEF Fail, Disarm, Settle, SetState
<1>10. CASE Cancel(o)
      BY <1>10 DEF Cancel, BeginCancelling, ProcsOf
<1>11. CASE Cancelled(o)
      BY <1>11 DEF Cancelled, Settle, SetState
<1>12. ASSUME NEW kind \in {"absolute", "idle"}, Timeout(o, kind)
      PROVE  Signals(o)
      BY <1>12 DEF Timeout, Disarm, BeginCancelling, ProcsOf
<1>13. ASSUME NEW caller \in Callers, CleanupReturns(o, caller)
      PROVE  Signals(o)
      BY <1>13 DEF CleanupReturns, Resume, Dirty, ProcsOf
<1>14. ASSUME NEW caller \in Callers, CleanupRejects(o, caller)
      PROVE  Signals(o)
      BY <1>14 DEF CleanupRejects, Resume
<1>15. CASE StopCancel(o)
      BY <1>15 DEF StopCancel, BeginCancelling, ProcsOf
<1> QED
    BY <1>1, <1>2, <1>3, <1>4, <1>5, <1>6, <1>7, <1>8, <1>9, <1>10, <1>11, <1>12, <1>13,
       <1>14, <1>15 DEF OperationStep

\* A step of a process touches one row, one promise and one child, and no
\* operation's state.
OneProcess(p) ==
  /\ \A q \in Procs \ {p} : process'[q] = process[q] /\ child'[q] = child[q]
  /\ \A q \in Procs \ {p} : run'[q] \in {run[q], "none"}
  /\ \A x \in Ops : operation'[x].state = operation[x].state
  /\ killed \subseteq killed' /\ cancelling' \subseteq cancelling
  /\ rows' \subseteq rows

LEMMA ProcessTouchesOne ==
  ASSUME TypeOK, NEW p \in Procs, ProcessStep(p)
  PROVE  OneProcess(p)
<1> USE DEF TypeOK, OpRows, OneProcess, rowVars, clientVars, osVars, recoveryVars
<1>1. CASE SpawnFailed(p)
      BY <1>1 DEF SpawnFailed, Reject
<1>2. CASE Prove(p)
      BY <1>2 DEF Prove
<1>3. CASE ReadinessFailed(p)
      BY <1>3 DEF ReadinessFailed, Reject
<1>4. CASE Overdue(p)
      BY <1>4 DEF Overdue, Reject
<1>5. CASE Exit(p)
      BY <1>5 DEF Exit
<1>6. ASSUME NEW state \in {"exited", "signalled"}, Close(p, state)
      PROVE  OneProcess(p)
      BY <1>6 DEF Close, Reject
<1>7. ASSUME NEW caller \in Callers, CancelReturns(p, caller)
      PROVE  OneProcess(p)
      BY <1>7 DEF CancelReturns
<1>8. ASSUME NEW o \in Ops, Register(o, p)
      PROVE  OneProcess(p)
      BY <1>8 DEF Register, Registered, Row
<1>9. ASSUME NEW o \in Ops, Launch(o, p)
      PROVE  OneProcess(p)
      BY <1>9 DEF Launch, Launching, LaunchRow, Registered, Row
<1>10. ASSUME NEW o \in Ops, LaunchError(o, p)
      PROVE  OneProcess(p)
      BY <1>10 DEF LaunchError, Launching, LaunchRow, Registered, Row
<1>11. ASSUME NEW o \in Ops, CrashInLaunch(o, p)
      PROVE  OneProcess(p)
      BY <1>11 DEF CrashInLaunch, Launching, LaunchRow, Registered, Row, Volatile
<1>12. CASE Reconcile(p)
      BY <1>12 DEF Reconcile, RecoveredRow, ResidualRow, Seen
<1>13. CASE Terminated(p)
      BY <1>13 DEF Terminated, RecoveredRow, ResidualRow
<1> QED
    BY <1>1, <1>2, <1>3, <1>4, <1>5, <1>6, <1>7, <1>8, <1>9, <1>10, <1>11, <1>12, <1>13 DEF ProcessStep

\* It leaves the operations to their clients, or the backend dies in it.
SameClients ==
  \/ /\ UNCHANGED <<phase, leases, incomplete>>
     /\ \A x \in Ops : HasClient(x)' = HasClient(x)
  \/ /\ phase' = "down" /\ incomplete' = {} /\ leases' = {} /\ cancelling' = {} /\ rows' = {}
     /\ terminating' = NoProc
     /\ \A x \in Ops : ~HasClient(x)'
     /\ \A q \in Procs : run'[q] = "none"

LEMMA ProcessKeepsClients ==
  ASSUME TypeOK, RowsHaveOperations, NEW p \in Procs, ProcessStep(p)
  PROVE  SameClients
<1> USE DEF TypeOK, Flights, SameClients, HasClient, rowVars, clientVars, recoveryVars
<1>1. CASE SpawnFailed(p)
      BY <1>1 DEF SpawnFailed, Reject
<1>2. CASE Prove(p)
      BY <1>2 DEF Prove
<1>3. CASE ReadinessFailed(p)
      BY <1>3 DEF ReadinessFailed, Reject
<1>4. CASE Overdue(p)
      BY <1>4 DEF Overdue, Reject
<1>5. CASE Exit(p)
      BY <1>5 DEF Exit
<1>6. ASSUME NEW state \in {"exited", "signalled"}, Close(p, state)
      PROVE  SameClients
      <2>1. UNCHANGED <<phase, leases, incomplete, flights>>
            BY <1>6 DEF Close
      <2>2. body' = body \/ Reject(process[p].op)
            BY <1>6 DEF Close
      <2>3. \A x \in Ops : HasClient(x)' = HasClient(x)
            BY <2>1, <2>2 DEF Reject
      <2> QED
          BY <2>1, <2>3
<1>7. ASSUME NEW caller \in Callers, CancelReturns(p, caller)
      PROVE  SameClients
      BY <1>7 DEF CancelReturns
<1>8. ASSUME NEW o \in Ops, Register(o, p)
      PROVE  SameClients
      BY <1>8 DEF Register, Registered, Row
<1>9. ASSUME NEW o \in Ops, Launch(o, p)
      PROVE  SameClients
      BY <1>9 DEF Launch, Launching, LaunchRow, Registered, Row
<1>10. ASSUME NEW o \in Ops, LaunchError(o, p)
      PROVE  SameClients
      BY <1>10 DEF LaunchError, Launching, LaunchRow, Registered, Row
<1>11. ASSUME NEW o \in Ops, CrashInLaunch(o, p)
      PROVE  SameClients
      BY <1>11 DEF CrashInLaunch, Launching, LaunchRow, Registered, Row, Volatile
<1>12. CASE Reconcile(p)
      BY <1>12 DEF Reconcile, RecoveredRow, ResidualRow, Seen
<1>13. CASE Terminated(p)
      BY <1>13 DEF Terminated, RecoveredRow, ResidualRow
<1> QED
    BY <1>1, <1>2, <1>3, <1>4, <1>5, <1>6, <1>7, <1>8, <1>9, <1>10, <1>11, <1>12, <1>13 DEF ProcessStep

(* The invariant, part by part *)

\* Operations, their clients, their leases and recovery.
LEMMA OpLifeStep == AdmissionInv /\ DownForgets /\ (\A o \in Ops : OpLife(o)) /\ [Next]_vars => \A o \in Ops : OpLife(o)'
<1> SUFFICES ASSUME AdmissionInv /\ DownForgets /\ (\A o \in Ops : OpLife(o)), [Next]_vars, NEW x \in Ops
             PROVE  OpLife(x)'
    OBVIOUS
<1> USE DEF AdmissionInv, DownForgets, OpLife, Working, Terminal, TypeOK, OpRows, rowVars, clientVars, recoveryVars
<1>1. ASSUME NEW o \in Ops, OperationStep(o) \/ StopCancel(o)
      PROVE  OpLife(x)'
  <2>1. UNCHANGED <<phase, incomplete>> /\ Follows(o)
        BY <1>1, OperationFrame, OperationFollows
  <2>2. CASE x = o
        BY <2>1, <2>2, Transitions DEF Follows
  <2>3. CASE x # o
        BY <2>1, <2>3 DEF Follows
  <2> QED
      BY <2>2, <2>3
<1>2. ASSUME NEW p \in Procs, ProcessStep(p)
      PROVE  OpLife(x)'
  <2>1. OneProcess(p) /\ SameClients
        BY <1>2, ProcessTouchesOne, ProcessKeepsClients
  <2> QED
      BY <2>1 DEF OneProcess, SameClients
<1>3. CASE BeginStop
      BY <1>3 DEF BeginStop, HasClient
<1>4. CASE EndStop
      BY <1>4 DEF EndStop, Volatile, HasClient
<1>5. CASE Crash
      BY <1>5 DEF Crash, Volatile, HasClient
<1>6. CASE Open
  <2>1. operation'[x].state = IF Reopens(x) THEN "recovering" ELSE operation[x].state
        BY <1>6 DEF Open
  <2>2. (x \in incomplete' <=> Reopens(x)) /\ leases' = {} /\ phase' = "recovering"
        BY <1>6 DEF Open, DownIsEmpty
  <2>3. HasClient(x)' = HasClient(x)
        BY <1>6 DEF Open, HasClient
  <2> QED
      BY <2>1, <2>2, <2>3 DEF Reopens
<1>7. CASE FinishRecovery
      BY <1>7 DEF FinishRecovery, HasClient
<1>8. CASE UNCHANGED vars
      BY <1>8 DEF vars, HasClient
<1> QED
    BY <1>1, <1>2, <1>3, <1>4, <1>5, <1>6, <1>7, <1>8 DEF Next

\* The row of a process at its launch: a deferred one keeps its evidence and was
\* registered; any other one is new.
LaunchedRow(o, p) ==
  /\ process'[p].op = o /\ process'[p].state \in {"started", "ready", "spawning"}
  /\ body[o] = "working"
  /\ \/ p \in Deferred /\ run[p] = "registered" /\ process'[p].exit = process[p].exit
     \/ /\ p \notin Deferred /\ process[p].state = "absent"
        /\ process'[p].exit = "none" /\ process'[p].cleanup = "required"

LEMMA LaunchWrites ==
  ASSUME TypeOK, NEW o \in Ops, NEW p \in Procs,
         Launch(o, p) \/ LaunchError(o, p) \/ CrashInLaunch(o, p)
  PROVE  /\ LaunchedRow(o, p)
         /\ LaunchError(o, p) => ~process'[p].pid
<1>1. PICK s \in {"started", "ready", "spawning"}, b \in BOOLEAN :
         /\ Launching(o, p) /\ LaunchRow(o, p, s, b)
         /\ LaunchError(o, p) => ~b
  <2>1. CASE Launch(o, p)
    <3>1. (IF p \in Deferred \cup Proven THEN "started" ELSE "ready") \in {"started", "ready", "spawning"}
          OBVIOUS
    <3>2. ~LaunchError(o, p)
          BY <2>1 DEF Launch, LaunchError, TypeOK
    <3> QED
        BY <2>1, <3>1, <3>2 DEF Launch
  <2>2. CASE LaunchError(o, p)
        BY <2>2 DEF LaunchError
  <2>3. CASE CrashInLaunch(o, p) /\ ~LaunchError(o, p)
        BY <2>3 DEF CrashInLaunch
  <2> QED
      BY <2>1, <2>2, <2>3
<1>2. CASE p \in Deferred
  <2>1. process' = [process EXCEPT ![p].state = s, ![p].pid = b]
        BY <1>1, <1>2 DEF LaunchRow
  <2>2. process[p].op = o /\ run[p] = "registered" /\ body[o] = "working"
        BY <1>1, <1>2 DEF Launching
  <2>3. /\ process'[p].op = process[p].op /\ process'[p].state = s /\ process'[p].pid = b
        /\ process'[p].exit = process[p].exit
        BY <2>1 DEF TypeOK, ProcRows
  <2> QED
      BY <1>1, <1>2, <2>2, <2>3 DEF LaunchedRow
<1>3. CASE p \notin Deferred
  <2>1. process' = [process EXCEPT ![p] = Row(o, s, b)]
        BY <1>1, <1>3 DEF LaunchRow, Registered
  <2>2. process'[p] = Row(o, s, b)
        BY <2>1 DEF TypeOK
  <2> QED
      BY <1>1, <1>3, <2>2 DEF LaunchedRow, Launching, Row
<1> QED
    BY <1>2, <1>3

\* The step of a process keeps what relates its row, its promise and its child.
LEMMA OwnRowLife ==
  ASSUME NEW p \in Procs, TypeOK, (\A o \in Ops : OpLife(o)), RowLife(p), ProcessStep(p)
  PROVE  RowLife(p)'
<1> USE DEF TypeOK, OpRows, ProcRows, RowLife, rowVars, clientVars, recoveryVars, osVars
<1>1. CASE SpawnFailed(p)
      BY <1>1 DEF SpawnFailed, Reject
<1>2. CASE Prove(p)
      BY <1>2 DEF Prove
<1>3. CASE ReadinessFailed(p)
      BY <1>3 DEF ReadinessFailed, Reject
<1>4. CASE Overdue(p)
      BY <1>4 DEF Overdue, Reject
<1>5. CASE Exit(p)
      BY <1>5 DEF Exit
<1>6. ASSUME NEW state \in {"exited", "signalled"}, Close(p, state)
      PROVE  RowLife(p)'
      BY <1>6 DEF Close, Reject
<1>7. ASSUME NEW caller \in Callers, CancelReturns(p, caller)
      PROVE  RowLife(p)'
      BY <1>7 DEF CancelReturns
<1>8. ASSUME NEW o \in Ops, Register(o, p)
      PROVE  RowLife(p)'
      <2>1. process'[p] = Row(o, "registered", FALSE) /\ body[o] = "working"
            BY <1>8 DEF Register, Registered
      <2>2. operation'[o].state # "absent"
            BY <1>8, <2>1, ProcessTouchesOne DEF OneProcess, OpLife, HasClient
      <2> QED
          BY <1>8, <2>1, <2>2 DEF Register, Row
<1>9. ASSUME NEW o \in Ops, Launch(o, p)
      PROVE  RowLife(p)'
      <2>1. LaunchedRow(o, p) /\ OneProcess(p) /\ (LaunchError(o, p) => ~process'[p].pid)
            BY <1>9, LaunchWrites, ProcessTouchesOne
      <2>2. operation'[o].state # "absent"
            BY <2>1 DEF LaunchedRow, OneProcess, OpLife, HasClient
      <2>3. process[p].exit = "observed" => ~(p \in Deferred /\ run[p] = "registered")
            OBVIOUS
      <2> QED
          BY <1>9, <2>1, <2>2, <2>3 DEF LaunchedRow, Launch, Launching
<1>10. ASSUME NEW o \in Ops, LaunchError(o, p)
      PROVE  RowLife(p)'
      <2>1. LaunchedRow(o, p) /\ OneProcess(p) /\ (LaunchError(o, p) => ~process'[p].pid)
            BY <1>10, LaunchWrites, ProcessTouchesOne
      <2>2. operation'[o].state # "absent"
            BY <2>1 DEF LaunchedRow, OneProcess, OpLife, HasClient
      <2>3. process[p].exit = "observed" => ~(p \in Deferred /\ run[p] = "registered")
            OBVIOUS
      <2> QED
          BY <1>10, <2>1, <2>2, <2>3 DEF LaunchedRow, LaunchError, Launching
<1>11. ASSUME NEW o \in Ops, CrashInLaunch(o, p)
      PROVE  RowLife(p)'
      <2>1. LaunchedRow(o, p) /\ OneProcess(p) /\ (LaunchError(o, p) => ~process'[p].pid)
            BY <1>11, LaunchWrites, ProcessTouchesOne
      <2>2. operation'[o].state # "absent"
            BY <2>1 DEF LaunchedRow, OneProcess, OpLife, HasClient
      <2>3. process[p].exit = "observed" => ~(p \in Deferred /\ run[p] = "registered")
            OBVIOUS
      <2> QED
          BY <1>11, <2>1, <2>2, <2>3 DEF LaunchedRow, CrashInLaunch, Volatile, Launching
<1>12. CASE Reconcile(p)
      BY <1>12 DEF Reconcile, RecoveredRow, ResidualRow, Seen
<1>13. CASE Terminated(p)
      BY <1>13 DEF Terminated, RecoveredRow, ResidualRow
<1> QED
    BY <1>1, <1>2, <1>3, <1>4, <1>5, <1>6, <1>7, <1>8, <1>9, <1>10, <1>11, <1>12, <1>13 DEF ProcessStep

\* Rows, promises and children.
LEMMA RowLifeStep == AdmissionInv /\ (\A o \in Ops : OpLife(o)) /\ (\A p \in Procs : RowLife(p)) /\ [Next]_vars => \A p \in Procs : RowLife(p)'
<1> SUFFICES ASSUME AdmissionInv /\ (\A o \in Ops : OpLife(o)) /\ (\A p \in Procs : RowLife(p)), [Next]_vars, NEW y \in Procs
             PROVE  RowLife(y)'
    OBVIOUS
<1> USE DEF AdmissionInv, TypeOK, OpRows, ProcRows, rowVars, clientVars, recoveryVars, osVars
<1>1. ASSUME NEW o \in Ops, OperationStep(o) \/ StopCancel(o)
      PROVE  RowLife(y)'
  <2>1. UNCHANGED <<process, run, child>> /\ Follows(o)
        BY <1>1, OperationFrame, OperationFollows
  <2>2. \A x \in Ops : operation[x].state # "absent" => operation'[x].state # "absent"
        BY <2>1, Transitions DEF Follows
  <2> QED
      BY <2>1, <2>2 DEF RowLife
<1>2. ASSUME NEW p \in Procs, ProcessStep(p)
      PROVE  RowLife(y)'
  <2>1. CASE y = p
        BY <1>2, <2>1, OwnRowLife
  <2>2. CASE y # p
        BY <1>2, <2>2, ProcessTouchesOne DEF OneProcess, RowLife
  <2> QED
      BY <2>1, <2>2
<1>3. CASE BeginStop
      BY <1>3 DEF BeginStop, RowLife
<1>4. CASE EndStop
      BY <1>4 DEF EndStop, Volatile, RowLife
<1>5. CASE Crash
      BY <1>5 DEF Crash, Volatile, RowLife
<1>6. CASE Open
      BY <1>6 DEF Open, Reopens, RowLife
<1>7. CASE FinishRecovery
      BY <1>7 DEF FinishRecovery, RowLife
<1>8. CASE UNCHANGED vars
      BY <1>8 DEF vars, RowLife
<1> QED
    BY <1>1, <1>2, <1>3, <1>4, <1>5, <1>6, <1>7, <1>8 DEF Next

\* The step of a process keeps what its callbacks rely on.
LEMMA OwnCallbackLife ==
  ASSUME NEW p \in Procs, TypeOK, RowsHaveOperations, CallbackLife(p), RowLife(p), ProcessStep(p)
  PROVE  CallbackLife(p)'
<1> USE DEF TypeOK, ProcRows, RowLife, CallbackLife, rowVars, clientVars, recoveryVars, osVars, Callers
<1>1. CASE SpawnFailed(p)
      BY <1>1 DEF SpawnFailed, Reject
<1>2. CASE Prove(p)
      BY <1>2 DEF Prove
<1>3. CASE ReadinessFailed(p)
      BY <1>3 DEF ReadinessFailed, Reject
<1>4. CASE Overdue(p)
      <2>1. process'[p].state = process[p].state /\ killed \subseteq killed'
            BY <1>4 DEF Overdue
      <2> QED
          BY <1>4, <2>1 DEF Overdue
<1>5. CASE Exit(p)
      BY <1>5 DEF Exit
<1>6. ASSUME NEW state \in {"exited", "signalled"}, Close(p, state)
      PROVE  CallbackLife(p)'
      BY <1>6 DEF Close, Reject
<1>7. ASSUME NEW caller \in Callers, CancelReturns(p, caller)
      PROVE  CallbackLife(p)'
      BY <1>7 DEF CancelReturns
<1>8. ASSUME NEW o \in Ops, Register(o, p)
      PROVE  CallbackLife(p)'
      BY <1>8 DEF Register, Registered, Row
<1>9. ASSUME NEW o \in Ops, Launch(o, p)
      PROVE  CallbackLife(p)'
      <2>1. LaunchedRow(o, p)
            BY <1>9, LaunchWrites
      <2> QED
          BY <1>9, <2>1 DEF LaunchedRow, Launch
<1>10. ASSUME NEW o \in Ops, LaunchError(o, p)
      PROVE  CallbackLife(p)'
      BY <1>10 DEF LaunchError, Launching, LaunchRow, Registered, Row
<1>11. ASSUME NEW o \in Ops, CrashInLaunch(o, p)
      PROVE  CallbackLife(p)'
      BY <1>11 DEF CrashInLaunch, Launching, LaunchRow, Registered, Row, Volatile
<1>12. CASE Reconcile(p)
      <2>1. process[p].state # "absent" => process'[p].state # "absent"
        <3>1. process' = process \/ RecoveredRow(p) \/ ResidualRow(p)
              BY <1>12 DEF Reconcile
        <3> QED
            BY <3>1 DEF RecoveredRow, ResidualRow
      <2>2. UNCHANGED <<cancelling, child>> /\ killed \subseteq killed'
            BY <1>12 DEF Reconcile
      <2> QED
          BY <2>1, <2>2
<1>13. CASE Terminated(p)
      BY <1>13 DEF Terminated, RecoveredRow, ResidualRow
<1> QED
    BY <1>1, <1>2, <1>3, <1>4, <1>5, <1>6, <1>7, <1>8, <1>9, <1>10, <1>11, <1>12, <1>13 DEF ProcessStep

\* Cancel callbacks.
LEMMA CallbackLifeStep == AdmissionInv /\ (\A p \in Procs : RowLife(p) /\ CallbackLife(p)) /\ [Next]_vars => \A p \in Procs : CallbackLife(p)'
<1> SUFFICES ASSUME AdmissionInv /\ (\A p \in Procs : RowLife(p) /\ CallbackLife(p)), [Next]_vars, NEW y \in Procs
             PROVE  CallbackLife(y)'
    OBVIOUS
<1> USE DEF AdmissionInv, TypeOK, ProcRows, rowVars, clientVars, recoveryVars, osVars
<1>1. ASSUME NEW o \in Ops, OperationStep(o) \/ StopCancel(o)
      PROVE  CallbackLife(y)'
  <2>1. UNCHANGED <<process, child>> /\ Signals(o)
        BY <1>1, OperationFrame, OperationSignals
  <2>2. process[y].op = o => process[y].state # "absent"
        BY ConstantsAssumption DEF RowLife
  <2> QED
      BY <2>1, <2>2 DEF CallbackLife, Signals
<1>2. ASSUME NEW p \in Procs, ProcessStep(p)
      PROVE  CallbackLife(y)'
  <2>1. CASE y = p
        BY <1>2, <2>1, OwnCallbackLife
  <2>2. CASE y # p
        BY <1>2, <2>2, ProcessTouchesOne DEF OneProcess, CallbackLife
  <2> QED
      BY <2>1, <2>2
<1>3. CASE BeginStop
      BY <1>3 DEF BeginStop, CallbackLife
<1>4. CASE EndStop
      BY <1>4 DEF EndStop, Volatile, CallbackLife
<1>5. CASE Crash
      BY <1>5 DEF Crash, Volatile, CallbackLife
<1>6. CASE Open
      BY <1>6 DEF Open, Reopens, CallbackLife
<1>7. CASE FinishRecovery
      BY <1>7 DEF FinishRecovery, CallbackLife
<1>8. CASE UNCHANGED vars
      BY <1>8 DEF vars, CallbackLife
<1> QED
    BY <1>1, <1>2, <1>3, <1>4, <1>5, <1>6, <1>7, <1>8 DEF Next

\* Nothing of the processes outlives the backend in memory.
LEMMA DownForgetsStep == AdmissionInv /\ DownForgets /\ [Next]_vars => DownForgets'
<1> SUFFICES ASSUME AdmissionInv /\ DownForgets, [Next]_vars
             PROVE  DownForgets'
    OBVIOUS
<1> USE DEF AdmissionInv, DownIsEmpty, DownForgets, TypeOK, rowVars, clientVars, recoveryVars, Callers
<1>1. ASSUME NEW o \in Ops, OperationStep(o) \/ StopCancel(o)
      PROVE  DownForgets'
  <2>1. UNCHANGED <<phase, rows, incomplete, terminating, run>> /\ (phase = "down" => Follows(o))
        BY <1>1, OperationFrame, OperationFollows
  <2>2. phase # "down"
        BY <1>1 DEF OperationStep, StartOperation, Start, Activity, Progress, Finish, Abort, AbortTimedOut,
           Complete, Fail, Cancel, Cancelled, Timeout, CleanupReturns, CleanupRejects, StopCancel, Running
  <2> QED
      BY <2>1, <2>2
<1>2. ASSUME NEW p \in Procs, ProcessStep(p)
      PROVE  DownForgets'
  <2>1. OneProcess(p) /\ SameClients
        BY <1>2, ProcessTouchesOne, ProcessKeepsClients
  <2>2. CASE phase # "down"
        BY <2>1, <2>2 DEF SameClients
  <2>3. CASE phase = "down"
    <3>1. Exit(p)
          BY <1>2, <2>3, ConstantsAssumption DEF ProcessStep, SpawnFailed, Prove, ReadinessFailed, Overdue, Close, CancelReturns,
             Register, Launch, LaunchError, CrashInLaunch, Launching, Reconcile, Terminated, Running
    <3> QED
        BY <2>3, <3>1 DEF Exit
  <2> QED
      BY <2>2, <2>3
<1>3. CASE BeginStop
      BY <1>3 DEF BeginStop
<1>4. CASE EndStop
      BY <1>4 DEF EndStop, Volatile
<1>5. CASE Crash
      BY <1>5 DEF Crash, Volatile
<1>6. CASE Open
      BY <1>6 DEF Open, Reopens
<1>7. CASE FinishRecovery
      BY <1>7 DEF FinishRecovery
<1>8. CASE UNCHANGED vars
      BY <1>8 DEF vars
<1> QED
    BY <1>1, <1>2, <1>3, <1>4, <1>5, <1>6, <1>7, <1>8 DEF Next

\* recover() awaits the end of a child whose row it has still to write.
LEMMA TerminatesStep == AdmissionInv /\ DownForgets /\ TerminatesARow /\ [Next]_vars => TerminatesARow'
<1> SUFFICES ASSUME AdmissionInv /\ DownForgets /\ TerminatesARow, [Next]_vars
             PROVE  TerminatesARow'
    OBVIOUS
<1> USE DEF AdmissionInv, DownForgets, TerminatesARow, TypeOK, rowVars, clientVars, recoveryVars
<1>1. ASSUME NEW o \in Ops, OperationStep(o) \/ StopCancel(o)
      PROVE  TerminatesARow'
  <2>1. UNCHANGED <<rows, terminating>>
        BY <1>1, OperationFrame
  <2> QED
      BY <2>1
<1>2. ASSUME NEW p \in Procs, ProcessStep(p)
      PROVE  TerminatesARow'
  <2>1. CASE Reconcile(p)
        BY <2>1 DEF Reconcile
  <2>2. CASE Terminated(p)
        BY <2>2 DEF Terminated
  <2>3. ASSUME NEW o \in Ops, CrashInLaunch(o, p)
        PROVE  TerminatesARow'
        BY <2>3 DEF CrashInLaunch, Volatile
  <2>4. CASE UNCHANGED <<rows, terminating>>
        BY <2>4
  <2>5. \/ Reconcile(p) \/ Terminated(p) \/ UNCHANGED <<rows, terminating>>
        \/ \E o \in Ops : CrashInLaunch(o, p)
        BY <1>2 DEF ProcessStep, SpawnFailed, Prove, ReadinessFailed, Overdue, Exit, Close, CancelReturns,
           Register, Launch, LaunchError
  <2> QED
      BY <2>1, <2>2, <2>3, <2>4, <2>5
<1>3. CASE BeginStop
      BY <1>3 DEF BeginStop
<1>4. CASE EndStop
      BY <1>4 DEF EndStop, Volatile
<1>5. CASE Crash
      BY <1>5 DEF Crash, Volatile
<1>6. CASE Open
      BY <1>6 DEF Open, Reopens
<1>7. CASE FinishRecovery
      BY <1>7 DEF FinishRecovery
<1>8. CASE UNCHANGED vars
      BY <1>8 DEF vars
<1> QED
    BY <1>1, <1>2, <1>3, <1>4, <1>5, <1>6, <1>7, <1>8 DEF Next

\* No step of a process but recovery touches a row that recovery has to look at.
LEMMA OwnRowToReconcile ==
  ASSUME NEW p \in Procs, AdmissionInv, RowToReconcile(p), ProcessStep(p)
  PROVE  RowToReconcile(p)'
<1> USE DEF AdmissionInv, TypeOK, OpRows, ProcRows, RowToReconcile, Unreconciled, rowVars, clientVars, recoveryVars, osVars, Callers
<1>1. CASE SpawnFailed(p)
      BY <1>1 DEF SpawnFailed, Reject
<1>2. CASE Prove(p)
      BY <1>2 DEF Prove
<1>3. CASE ReadinessFailed(p)
      BY <1>3 DEF ReadinessFailed, Reject
<1>4. CASE Overdue(p)
      BY <1>4 DEF Overdue, Reject
<1>5. CASE Exit(p)
      BY <1>5 DEF Exit
<1>6. ASSUME NEW state \in {"exited", "signalled"}, Close(p, state)
      PROVE  RowToReconcile(p)'
      BY <1>6 DEF Close, Reject
<1>7. ASSUME NEW caller \in Callers, CancelReturns(p, caller)
      PROVE  RowToReconcile(p)'
      BY <1>7 DEF CancelReturns
<1>8. ASSUME NEW o \in Ops, Register(o, p)
      PROVE  RowToReconcile(p)'
      BY <1>8 DEF Register, Registered, Row
<1>9. ASSUME NEW o \in Ops, Launch(o, p)
      PROVE  RowToReconcile(p)'
      BY <1>9 DEF Launch, Launching, LaunchRow, Registered, Row
<1>10. ASSUME NEW o \in Ops, LaunchError(o, p)
      PROVE  RowToReconcile(p)'
      BY <1>10 DEF LaunchError, Launching, LaunchRow, Registered, Row
<1>11. ASSUME NEW o \in Ops, CrashInLaunch(o, p)
      PROVE  RowToReconcile(p)'
      BY <1>11 DEF CrashInLaunch, Launching, LaunchRow, Registered, Row, Volatile
<1>12. CASE Reconcile(p)
      BY <1>12 DEF Reconcile, RecoveredRow, ResidualRow, Seen
<1>13. CASE Terminated(p)
      BY <1>13 DEF Terminated, RecoveredRow, ResidualRow
<1> QED
    BY <1>1, <1>2, <1>3, <1>4, <1>5, <1>6, <1>7, <1>8, <1>9, <1>10, <1>11, <1>12, <1>13 DEF ProcessStep

\* The rows recovery has still to look at.
LEMMA RowToReconcileStep == AdmissionInv /\ DownForgets /\ (\A o \in Ops : OpLife(o)) /\ (\A p \in Procs : RowLife(p) /\ RowToReconcile(p)) /\ [Next]_vars => \A p \in Procs : RowToReconcile(p)'
<1> SUFFICES ASSUME AdmissionInv /\ DownForgets /\ (\A o \in Ops : OpLife(o)) /\ (\A p \in Procs : RowLife(p) /\ RowToReconcile(p)), [Next]_vars, NEW y \in Procs
             PROVE  RowToReconcile(y)'
    OBVIOUS
<1> USE DEF AdmissionInv, TypeOK, OpRows, ProcRows, rowVars, clientVars, recoveryVars, osVars
<1>1. ASSUME NEW o \in Ops, OperationStep(o) \/ StopCancel(o)
      PROVE  RowToReconcile(y)'
  <2>1. UNCHANGED <<process, run, rows, phase>> /\ Follows(o) /\ Signals(o)
        BY <1>1, OperationFrame, OperationFollows, OperationSignals
  <2>2. CASE y \in rows /\ process[y].op = o
    <3>1. ~CanTransition(o, operation'[o].state)
          BY <2>2, Transitions DEF RowToReconcile
    <3>2. operation[o].state # "absent"
          BY <2>2 DEF RowToReconcile, Terminal
    <3>3. operation'[o].state = operation[o].state
          BY <2>1, <3>1, <3>2 DEF Follows
    <3> QED
        BY <2>1, <2>2, <3>3 DEF RowToReconcile, Signals, Unreconciled
  <2>3. CASE y \in rows /\ process[y].op # o
        BY <2>1, <2>3 DEF RowToReconcile, Follows, Signals, Unreconciled
  <2>4. CASE y \notin rows
        BY <2>1, <2>4 DEF RowToReconcile
  <2> QED
      BY <2>2, <2>3, <2>4
<1>2. ASSUME NEW p \in Procs, ProcessStep(p)
      PROVE  RowToReconcile(y)'
  <2>1. CASE y = p
        BY <1>2, <2>1, OwnRowToReconcile
  <2>2. CASE y # p
    <3>1. OneProcess(p) /\ SameClients
          BY <1>2, ProcessTouchesOne, ProcessKeepsClients
    <3> QED
        BY <2>2, <3>1 DEF OneProcess, SameClients, RowToReconcile, Unreconciled
  <2> QED
      BY <2>1, <2>2
<1>3. CASE BeginStop
      BY <1>3 DEF BeginStop, RowToReconcile, Unreconciled
<1>4. CASE EndStop
      BY <1>4 DEF EndStop, Volatile, RowToReconcile, Unreconciled
<1>5. CASE Crash
      BY <1>5 DEF Crash, Volatile, RowToReconcile, Unreconciled
<1>6. CASE Open
  <2>1. y \in rows' <=> Unreconciled(y)
        BY <1>6 DEF Open
  <2>2. Unreconciled(y) => process[y].op \in Ops /\ operation[process[y].op].state # "absent"
        BY DEF Unreconciled, RowsHaveOperations, RowLife
  <2>3. Unreconciled(y) => operation'[process[y].op].state \in Terminal \cup {"recovering"}
        BY <1>6, <2>2 DEF Open, Reopens
  <2>4. UNCHANGED <<process, run, cancelling>> /\ phase' = "recovering" /\ run[y] = "none" /\ cancelling = {}
        BY <1>6 DEF Open, DownForgets
  <2> QED
      BY <2>1, <2>2, <2>3, <2>4 DEF RowToReconcile, Unreconciled
<1>7. CASE FinishRecovery
      BY <1>7 DEF FinishRecovery, RowToReconcile, Unreconciled
<1>8. CASE UNCHANGED vars
      BY <1>8 DEF vars, RowToReconcile, Unreconciled
<1> QED
    BY <1>1, <1>2, <1>3, <1>4, <1>5, <1>6, <1>7, <1>8 DEF Next

\* A step of an operation records it as cleaned only when its rows are.
Honest(o) ==
  /\ operation'[o].cleanup = "cleaned" => operation[o].cleanup = "cleaned" \/ ~Dirty(o)
  /\ operation[o].state = "recovered" => operation'[o].state = "recovered"

LEMMA OperationHonest ==
  ASSUME TypeOK, NEW o \in Ops, OperationStep(o) \/ StopCancel(o)
  PROVE  Honest(o)
<1> USE Transitions DEF TypeOK, OpRows, Honest, Terminal, rowVars
<1>1. CASE StartOperation(o)
      BY <1>1 DEF StartOperation, SetState
<1>2. CASE Start(o)
      BY <1>2 DEF Start, SetState, Arm
<1>3. CASE Activity(o)
      BY <1>3 DEF Activity, Arm
<1>4. ASSUME NEW state \in {"active", "waiting"}, Progress(o, state)
      PROVE  Honest(o)
      BY <1>4 DEF Progress, SetState, Arm
<1>5. CASE Finish(o)
      BY <1>5 DEF Finish, BeginCleanup
<1>6. CASE Abort(o)
      BY <1>6 DEF Abort, BeginCleanup
<1>7. CASE AbortTimedOut(o)
      BY <1>7 DEF AbortTimedOut, Disarm
<1>8. CASE Complete(o)
      BY <1>8 DEF Complete, Disarm, Settle, SetState
<1>9. CASE Fail(o)
      BY <1>9 DEF Fail, Disarm, Settle, SetState
<1>10. CASE Cancel(o)
      BY <1>10 DEF Cancel, BeginCancelling, ProcsOf
<1>11. CASE Cancelled(o)
      BY <1>11 DEF Cancelled, Settle, SetState
<1>12. ASSUME NEW kind \in {"absolute", "idle"}, Timeout(o, kind)
      PROVE  Honest(o)
      BY <1>12 DEF Timeout, Disarm, BeginCancelling, ProcsOf
<1>13. ASSUME NEW caller \in Callers, CleanupReturns(o, caller)
      PROVE  Honest(o)
      BY <1>13 DEF CleanupReturns, Resume, Dirty, ProcsOf
<1>14. ASSUME NEW caller \in Callers, CleanupRejects(o, caller)
      PROVE  Honest(o)
      BY <1>14 DEF CleanupRejects, Resume
<1>15. CASE StopCancel(o)
      BY <1>15 DEF StopCancel, BeginCancelling, ProcsOf
<1> QED
    BY <1>1, <1>2, <1>3, <1>4, <1>5, <1>6, <1>7, <1>8, <1>9, <1>10, <1>11, <1>12, <1>13,
       <1>14, <1>15 DEF OperationStep

\* A row that a step of its process leaves uncleaned was so before, or its
\* operation asks for a cleanup again.
Soils(p) ==
  \A x \in Ops :
    /\ operation'[x].cleanup \in {"required", operation[x].cleanup}
    /\ process'[p].op = x /\ process'[p].cleanup # "cleaned" =>
         \/ process[p].op = x /\ process[p].cleanup # "cleaned"
         \/ operation'[x].cleanup = "required"

\* Recovery leaves a residual row only of a process that was not cleaned.
LEMMA ProcessSoils ==
  ASSUME NEW p \in Procs, TypeOK, RowToReconcile(p), TerminatesARow, ProcessStep(p)
  PROVE  Soils(p)
<1> USE DEF TypeOK, OpRows, ProcRows, Soils, rowVars, clientVars, recoveryVars
<1>1. CASE SpawnFailed(p)
      BY <1>1 DEF SpawnFailed, Reject
<1>2. CASE Prove(p)
      BY <1>2 DEF Prove
<1>3. CASE ReadinessFailed(p)
      BY <1>3 DEF ReadinessFailed, Reject
<1>4. CASE Overdue(p)
      BY <1>4 DEF Overdue, Reject
<1>5. CASE Exit(p)
      BY <1>5 DEF Exit
<1>6. ASSUME NEW state \in {"exited", "signalled"}, Close(p, state)
      PROVE  Soils(p)
      BY <1>6 DEF Close, Reject
<1>7. ASSUME NEW caller \in Callers, CancelReturns(p, caller)
      PROVE  Soils(p)
      BY <1>7 DEF CancelReturns
<1>8. ASSUME NEW o \in Ops, Register(o, p)
      PROVE  Soils(p)
      BY <1>8 DEF Register, Registered, Row
<1>9. ASSUME NEW o \in Ops, Launch(o, p)
      PROVE  Soils(p)
      <2>1. /\ LaunchedRow(o, p)
            /\ \A x \in Ops : operation'[x].cleanup = "required" \/ operation'[x].cleanup = operation[x].cleanup
            BY <1>9, LaunchWrites, LaunchEffect
      <2>2. CASE p \in Deferred
            BY <1>9, <2>1, <2>2, LaunchEffect DEF Launch, Launching, LaunchedRow, LaunchRow
      <2>3. CASE p \notin Deferred
        <3>1. operation' = [operation EXCEPT ![o].cleanup = "required"]
              BY <1>9, <2>3 DEF Launch, LaunchRow, Registered
        <3>2. operation'[o].cleanup = "required" /\ process'[p].op = o
              BY <2>1, <3>1 DEF LaunchedRow
        <3> QED
            BY <2>1, <3>2
      <2> QED
          BY <2>2, <2>3
<1>10. ASSUME NEW o \in Ops, LaunchError(o, p)
      PROVE  Soils(p)
      <2>1. /\ LaunchedRow(o, p)
            /\ \A x \in Ops : operation'[x].cleanup = "required" \/ operation'[x].cleanup = operation[x].cleanup
            BY <1>10, LaunchWrites, LaunchEffect
      <2>2. CASE p \in Deferred
            BY <1>10, <2>1, <2>2, LaunchEffect DEF LaunchError, Launching, LaunchedRow, LaunchRow
      <2>3. CASE p \notin Deferred
        <3>1. operation' = [operation EXCEPT ![o].cleanup = "required"]
              BY <1>10, <2>3 DEF LaunchError, LaunchRow, Registered
        <3>2. operation'[o].cleanup = "required" /\ process'[p].op = o
              BY <2>1, <3>1 DEF LaunchedRow
        <3> QED
            BY <2>1, <3>2
      <2> QED
          BY <2>2, <2>3
<1>11. ASSUME NEW o \in Ops, CrashInLaunch(o, p)
      PROVE  Soils(p)
      <2>1. /\ LaunchedRow(o, p)
            /\ \A x \in Ops : operation'[x].cleanup = "required" \/ operation'[x].cleanup = operation[x].cleanup
            BY <1>11, LaunchWrites, LaunchEffect
      <2>2. CASE p \in Deferred
            BY <1>11, <2>1, <2>2, LaunchEffect DEF CrashInLaunch, Launching, LaunchedRow, LaunchRow
      <2>3. CASE p \notin Deferred
        <3>1. operation' = [operation EXCEPT ![o].cleanup = "required"]
              BY <1>11, <2>3 DEF CrashInLaunch, LaunchRow, Registered
        <3>2. operation'[o].cleanup = "required" /\ process'[p].op = o
              BY <2>1, <3>1 DEF LaunchedRow
        <3> QED
            BY <2>1, <3>2
      <2> QED
          BY <2>2, <2>3
<1>12. CASE Reconcile(p)
      <2>1. UNCHANGED operation /\ process[p].cleanup # "cleaned" /\ process'[p].op = process[p].op
            BY <1>12 DEF Reconcile, RecoveredRow, ResidualRow, RowToReconcile, Unreconciled
      <2> QED
          BY <2>1
<1>13. CASE Terminated(p)
      <2>1. UNCHANGED operation /\ process[p].cleanup # "cleaned" /\ process'[p].op = process[p].op
            BY <1>13, ConstantsAssumption DEF Terminated, RecoveredRow, ResidualRow, RowToReconcile, Unreconciled, TerminatesARow
      <2> QED
          BY <2>1
<1> QED
    BY <1>1, <1>2, <1>3, <1>4, <1>5, <1>6, <1>7, <1>8, <1>9, <1>10, <1>11, <1>12, <1>13 DEF ProcessStep

\* An operation is recorded as cleaned when its rows are, and stays so.
LEMMA CleanedOperationStep == AdmissionInv /\ TerminatesARow /\ (\A p \in Procs : RowToReconcile(p)) /\ CleanedOperationIsClean /\ [Next]_vars => CleanedOperationIsClean'
<1> SUFFICES ASSUME AdmissionInv /\ TerminatesARow /\ (\A p \in Procs : RowToReconcile(p)) /\ CleanedOperationIsClean, [Next]_vars
             PROVE  CleanedOperationIsClean'
    OBVIOUS
<1> USE DEF AdmissionInv, TypeOK, OpRows, ProcRows, rowVars, clientVars, recoveryVars
<1>1. ASSUME NEW o \in Ops, OperationStep(o) \/ StopCancel(o)
      PROVE  CleanedOperationIsClean'
  <2>1. UNCHANGED process /\ Follows(o) /\ Honest(o)
        BY <1>1, OperationFrame, OperationFollows, OperationHonest
  <2>2. \A x \in Ops : Dirty(x)' <=> Dirty(x)
        BY <2>1 DEF Dirty, ProcsOf
  <2> QED
      BY <2>1, <2>2 DEF CleanedOperationIsClean, Follows, Honest
<1>2. ASSUME NEW p \in Procs, ProcessStep(p)
      PROVE  CleanedOperationIsClean'
  <2>1. OneProcess(p) /\ Soils(p)
        BY <1>2, ProcessTouchesOne, ProcessSoils
  <2> SUFFICES ASSUME NEW x \in Ops, operation'[x].cleanup = "cleaned", operation'[x].state # "recovered",
                      NEW q \in Procs, process'[q].op = x, process'[q].cleanup # "cleaned"
               PROVE  FALSE
      BY DEF CleanedOperationIsClean, Dirty, ProcsOf
  <2>2. operation[x].cleanup = "cleaned" /\ operation[x].state # "recovered"
        BY <2>1 DEF OneProcess, Soils
  <2>3. process[q].op = x /\ process[q].cleanup # "cleaned"
        BY <2>1 DEF OneProcess, Soils
  <2> QED
      BY <2>2, <2>3 DEF CleanedOperationIsClean, Dirty, ProcsOf
<1>3. CASE BeginStop
      BY <1>3 DEF BeginStop, CleanedOperationIsClean, Dirty, ProcsOf
<1>4. CASE EndStop
      BY <1>4 DEF EndStop, Volatile, CleanedOperationIsClean, Dirty, ProcsOf
<1>5. CASE Crash
      BY <1>5 DEF Crash, Volatile, CleanedOperationIsClean, Dirty, ProcsOf
<1>6. CASE Open
  <2>1. UNCHANGED process
        BY <1>6 DEF Open
  <2>2. \A x \in Ops : operation'[x].cleanup = operation[x].cleanup
        BY <1>6 DEF Open
  <2>3. \A x \in Ops : operation[x].state = "recovered" /\ operation[x].cleanup = "cleaned" => operation'[x].state = "recovered"
        BY <1>6 DEF Open, Reopens, Terminal
  <2> QED
      BY <2>1, <2>2, <2>3 DEF CleanedOperationIsClean, Dirty, ProcsOf
<1>7. CASE FinishRecovery
  <2>1. UNCHANGED process
        BY <1>7 DEF FinishRecovery
  <2>2. \A x \in Ops : \/ operation'[x] = operation[x]
                      \/ operation'[x].cleanup = "failed" \/ operation'[x].state = "recovered"
        BY <1>7 DEF FinishRecovery
  <2> QED
      BY <2>1, <2>2 DEF CleanedOperationIsClean, Dirty, ProcsOf
<1>8. CASE UNCHANGED vars
      BY <1>8 DEF vars, CleanedOperationIsClean, Dirty, ProcsOf
<1> QED
    BY <1>1, <1>2, <1>3, <1>4, <1>5, <1>6, <1>7, <1>8 DEF Next

\* A process that its client waits for and leads a group is cleaned when it is gone.
GoneIfCleaned(p) ==
  p \in (Awaited \cap Detached) \ Deferred =>
    (process[p].cleanup = "cleaned" /\ process[p].pid => child[p] # "alive")

\* The step of a process declares it cleaned when its child is gone.
LEMMA OwnGone ==
  ASSUME NEW p \in Procs, TypeOK, RowLife(p), CallbackLife(p), GoneIfCleaned(p), ProcessStep(p)
  PROVE  GoneIfCleaned(p)'
<1> USE DEF TypeOK, ProcRows, RowLife, CallbackLife, GoneIfCleaned, rowVars, clientVars, recoveryVars, osVars
<1>1. CASE SpawnFailed(p)
      BY <1>1 DEF SpawnFailed, Reject
<1>2. CASE Prove(p)
      BY <1>2 DEF Prove
<1>3. CASE ReadinessFailed(p)
      BY <1>3 DEF ReadinessFailed, Reject
<1>4. CASE Overdue(p)
      BY <1>4 DEF Overdue, Reject
<1>5. CASE Exit(p)
      BY <1>5 DEF Exit
<1>6. ASSUME NEW state \in {"exited", "signalled"}, Close(p, state)
      PROVE  GoneIfCleaned(p)'
      BY <1>6 DEF Close, Reject
<1>7. ASSUME NEW caller \in Callers, CancelReturns(p, caller)
      PROVE  GoneIfCleaned(p)'
      BY <1>7 DEF CancelReturns
<1>8. ASSUME NEW o \in Ops, Register(o, p)
      PROVE  GoneIfCleaned(p)'
      BY <1>8 DEF Register, Registered, Row
<1>9. ASSUME NEW o \in Ops, Launch(o, p)
      PROVE  GoneIfCleaned(p)'
      <2>1. LaunchedRow(o, p)
            BY <1>9, LaunchWrites
      <2> QED
          BY <2>1 DEF LaunchedRow
<1>10. ASSUME NEW o \in Ops, LaunchError(o, p)
      PROVE  GoneIfCleaned(p)'
      <2>1. LaunchedRow(o, p)
            BY <1>10, LaunchWrites
      <2> QED
          BY <2>1 DEF LaunchedRow
<1>11. ASSUME NEW o \in Ops, CrashInLaunch(o, p)
      PROVE  GoneIfCleaned(p)'
      <2>1. LaunchedRow(o, p)
            BY <1>11, LaunchWrites
      <2> QED
          BY <2>1 DEF LaunchedRow
<1>12. CASE Reconcile(p)
      BY <1>12 DEF Reconcile, RecoveredRow, ResidualRow, Seen
<1>13. CASE Terminated(p)
      BY <1>13 DEF Terminated, RecoveredRow, ResidualRow
<1> QED
    BY <1>1, <1>2, <1>3, <1>4, <1>5, <1>6, <1>7, <1>8, <1>9, <1>10, <1>11, <1>12, <1>13 DEF ProcessStep

\* Cleaned processes.
LEMMA CleanedProcessStep == AdmissionInv /\ (\A p \in Procs : RowLife(p) /\ CallbackLife(p)) /\ CleanedProcessIsGone /\ [Next]_vars => CleanedProcessIsGone'
<1> SUFFICES ASSUME AdmissionInv /\ (\A p \in Procs : RowLife(p) /\ CallbackLife(p)) /\ CleanedProcessIsGone, [Next]_vars, NEW y \in Procs
             PROVE  GoneIfCleaned(y)'
    BY ConstantsAssumption DEF CleanedProcessIsGone, GoneIfCleaned
<1> USE DEF AdmissionInv, TypeOK, ProcRows, rowVars, clientVars, recoveryVars, osVars
<1>1. ASSUME NEW o \in Ops, OperationStep(o) \/ StopCancel(o)
      PROVE  GoneIfCleaned(y)'
  <2>1. UNCHANGED <<process, child>>
        BY <1>1, OperationFrame
  <2> QED
      BY <2>1 DEF CleanedProcessIsGone, GoneIfCleaned
<1>2. ASSUME NEW p \in Procs, ProcessStep(p)
      PROVE  GoneIfCleaned(y)'
  <2>1. CASE y = p
        BY <1>2, <2>1, OwnGone DEF CleanedProcessIsGone, GoneIfCleaned
  <2>2. CASE y # p
        BY <1>2, <2>2, ProcessTouchesOne DEF OneProcess, CleanedProcessIsGone, GoneIfCleaned
  <2> QED
      BY <2>1, <2>2
<1>3. CASE BeginStop
      BY <1>3 DEF BeginStop, CleanedProcessIsGone, GoneIfCleaned
<1>4. CASE EndStop
      BY <1>4 DEF EndStop, Volatile, CleanedProcessIsGone, GoneIfCleaned
<1>5. CASE Crash
      BY <1>5 DEF Crash, Volatile, CleanedProcessIsGone, GoneIfCleaned
<1>6. CASE Open
      BY <1>6 DEF Open, Reopens, CleanedProcessIsGone, GoneIfCleaned
<1>7. CASE FinishRecovery
      BY <1>7 DEF FinishRecovery, CleanedProcessIsGone, GoneIfCleaned
<1>8. CASE UNCHANGED vars
      BY <1>8 DEF vars, CleanedProcessIsGone, GoneIfCleaned
<1> QED
    BY <1>1, <1>2, <1>3, <1>4, <1>5, <1>6, <1>7, <1>8 DEF Next

\* The whole invariant.
LifeIInv == AdmissionInv /\ LifeInv

LEMMA InitLife == Init => LifeIInv
<1> SUFFICES ASSUME Init PROVE LifeIInv
    OBVIOUS
<1>1. AdmissionInv
      BY InitAdmission
<1>2. DownForgets /\ TerminatesARow
      BY DEF Init, DownForgets, TerminatesARow
<1>3. ASSUME NEW o \in Ops PROVE OpLife(o)
      BY <1>3 DEF Init, OpLife, HasClient, Working
<1>4. ASSUME NEW p \in Procs PROVE RowLife(p) /\ CallbackLife(p) /\ RowToReconcile(p)
      BY <1>4, ConstantsAssumption DEF Init, RowLife, CallbackLife, RowToReconcile
<1>5. CleanedOperationIsClean /\ CleanedProcessIsGone
      BY ConstantsAssumption DEF Init, CleanedOperationIsClean, CleanedProcessIsGone
<1> QED
    BY <1>1, <1>2, <1>3, <1>4, <1>5 DEF LifeIInv, LifeInv

LEMMA StepLife == LifeIInv /\ [Next]_vars => LifeIInv'
<1> SUFFICES ASSUME LifeIInv, [Next]_vars PROVE LifeIInv'
    OBVIOUS
<1> USE DEF LifeIInv, LifeInv
<1>1. AdmissionInv'
      BY StepAdmission
<1>2. DownForgets' /\ TerminatesARow'
      BY DownForgetsStep, TerminatesStep
<1>3. \A o \in Ops : OpLife(o)'
      BY OpLifeStep
<1>4. \A p \in Procs : RowLife(p)' /\ CallbackLife(p)' /\ RowToReconcile(p)'
      BY RowLifeStep, CallbackLifeStep, RowToReconcileStep
<1>5. CleanedOperationIsClean' /\ CleanedProcessIsGone'
      BY CleanedOperationStep, CleanedProcessStep
<1> QED
    BY <1>1, <1>2, <1>3, <1>4, <1>5

(* Theorems *)

\* The leases map of an open registry holds exactly the operations at work, after
\* any number of crashes: each of them can be cancelled and shut down.
THEOREM Leases == Spec => []LeasesAreLive
<1>1. LifeIInv => LeasesAreLive
  <2> SUFFICES ASSUME LifeIInv, phase \in {"open", "stopping"}
               PROVE  leases = {o \in Ops : operation[o].state \notin Terminal \cup {"absent"}}
      BY DEF LeasesAreLive
  <2>1. \A o \in Ops : o \in leases <=> operation[o].state \notin Terminal \cup {"absent"}
        BY DEF LifeIInv, LifeInv, OpLife, Working
  <2> QED
      BY <2>1 DEF LifeIInv, AdmissionInv, TypeOK
<1> QED
    BY <1>1, InitLife, StepLife, PTL DEF Spec

\* A cleanup recorded as done vouches for every process row of its operation:
\* none is uncleaned, whichever cleanups ran at the same time.
THEOREM CleanedOperations == Spec => []CleanedOperationIsClean
<1>1. LifeIInv => CleanedOperationIsClean
      BY DEF LifeIInv, LifeInv
<1> QED
    BY <1>1, InitLife, StepLife, PTL DEF Spec

\* A process row declared cleaned has no living child, for the clients that
\* wait for theirs and make it a group leader.
THEOREM CleanedProcesses == Spec => []CleanedProcessIsGone
<1>1. LifeIInv => CleanedProcessIsGone
      BY DEF LifeIInv, LifeInv
<1> QED
    BY <1>1, InitLife, StepLife, PTL DEF Spec

\* processExecutionAttestation vouches only for a process that has ended.
THEOREM AttestedProcesses == Spec => []AttestedProcessIsGone
<1>1. LifeIInv => AttestedProcessIsGone
      BY DEF LifeIInv, LifeInv, RowLife, AttestedProcessIsGone, Attestable
<1> QED
    BY <1>1, InitLife, StepLife, PTL DEF Spec

\* A terminal operation changes state only by a restart whose recovery reopens it
\* because its cleanup was not finished.
THEOREM TerminalStates == Spec => TerminalIsFinal
<1> DEFINE Final(x) == operation[x].state \in Terminal /\ operation'[x].state # operation[x].state
                       => phase = "down" /\ operation[x].cleanup \notin {"not-required", "cleaned"}
<1>1. ASSUME LifeIInv, [Next]_vars, NEW x \in Ops PROVE Final(x)
  <2> USE <1>1 DEF LifeIInv, LifeInv, AdmissionInv, TypeOK, OpRows
  <2>1. ASSUME NEW o \in Ops, OperationStep(o) \/ StopCancel(o) PROVE Final(x)
    <3>1. Follows(o)
          BY <2>1, OperationFollows
    <3> QED
        BY <3>1, Transitions DEF Follows, Terminal
  <2>2. ASSUME NEW p \in Procs, ProcessStep(p) PROVE Final(x)
        BY <2>2, ProcessTouchesOne DEF OneProcess
  <2>3. CASE BeginStop
        BY <2>3 DEF BeginStop
  <2>4. CASE EndStop
        BY <2>4 DEF EndStop, rowVars
  <2>5. CASE Crash
        BY <2>5 DEF Crash, rowVars
  <2>6. CASE Open
        BY <2>6 DEF Open, Reopens, OpCleanups
  <2>7. CASE FinishRecovery
    <3>1. x \in incomplete <=> operation[x].state = "recovering"
          BY <2>7 DEF FinishRecovery, OpLife
    <3> QED
        BY <2>7, <3>1 DEF FinishRecovery, Terminal
  <2>8. CASE UNCHANGED vars
        BY <2>8 DEF vars, rowVars
  <2> QED
      BY <1>1, <2>1, <2>2, <2>3, <2>4, <2>5, <2>6, <2>7, <2>8 DEF Next
<1>2. LifeIInv /\ [Next]_vars => [\A o \in Ops : Final(o)]_vars
      BY <1>1
<1> QED
    BY <1>2, InitLife, StepLife, PTL DEF Spec, TerminalIsFinal

------------------------------------------------------------------------------
(***************************************************************************)
(* The sign-in beside the registry.                                         *)
(***************************************************************************)

\* Sign-ins start one at a time and in order; while one waits for its operation
\* there is no entry.
LoginOrder ==
  /\ \A a \in Login!Logins :
       /\ status[a] = "waiting" => starting = a /\ entry = 0
       /\ status[a] \in {"none", "waiting"} => loginChild[a] = "none"
       /\ loginChild[a] = "none" => handler[a] = "none"
       /\ Login!Running(a) => handler[a] \in {"none", "unattached"}
       /\ loginChild[a] # "none" /\ entry # 0 => a <= entry
  /\ entry # 0 => status[entry] \notin {"none", "waiting"}
  /\ \A a, b \in Login!Logins : a < b /\ status[a] = "none" => status[b] = "none"
  /\ \A a, b \in Login!Logins : status[a] = "waiting" /\ status[b] # "none" => b <= a

\* A sign-in whose end is still to come and that has lost its entry lost it to a
\* cancel or a lost code of it or of one before it.
EntryLost ==
  \A a \in Login!Logins : loginChild[a] # "none" /\ handler[a] # "done" /\ entry # a =>
    \E b \in dropped : b <= a

LoginInv == Login!TypeOK /\ LoginOrder /\ EntryLost

LEMMA LoginInit == Login!Init => LoginInv
<1> SUFFICES ASSUME Login!Init PROVE LoginInv
  OBVIOUS
<1>1. MaxLogins \in Nat
  BY DeadlineBounds DEF Login!LoginBounds
<1>2. Login!TypeOK
  <2>1. /\ status \in [Login!Logins -> {"none", "waiting"} \cup Login!Live \cup Login!Ended]
        /\ loginChild \in [Login!Logins -> {"none", "running", "signalled", "zero", "nonzero", "failed"}]
    BY DEF Login!Init
  <2>2. /\ handler \in [Login!Logins -> {"none", "unattached", "cleanup", "import", "done"}]
        /\ loginOperation \in [Login!Logins -> {"none", "live", "ended"}]
    BY DEF Login!Init
  <2>3. /\ starting = 0 /\ entry = 0 /\ last = "idle" /\ file = 0 /\ loginStored = 0 /\ loginShown = "idle"
        /\ polling = FALSE /\ dropped = {} /\ 0 \in 0..MaxLogins
    BY <1>1 DEF Login!Init
  <2> QED
    BY <2>1, <2>2, <2>3 DEF Login!TypeOK
<1>3. LoginOrder
  BY <1>1 DEF Login!Init, LoginOrder, Login!Logins, Login!Running
<1>4. EntryLost
  BY DEF Login!Init, EntryLost
<1> QED
  BY <1>2, <1>3, <1>4 DEF LoginInv

LEMMA LoginStep ==
  ASSUME LoginInv, Login!Next \/ UNCHANGED loginVars
  PROVE  LoginInv'
<1> USE DEF LoginInv, Login!Logins, Login!Widget, Login!Store
<1> DEFINE A == Login!Logins
<1>0. MaxLogins \in Nat /\ \A a \in A : a \in Nat /\ a # 0 /\ a \in 0..MaxLogins
  BY DeadlineBounds DEF Login!LoginBounds
<1>1. ASSUME NEW a \in A, Login!Press(a) PROVE LoginInv'
  <2>1. /\ entry = 0 /\ starting = 0 /\ status[a] = "none" /\ starting' = a
        /\ \A b \in 1..(a - 1) : status[b] # "none"
        /\ status' = [status EXCEPT ![a] = "waiting"]
        /\ UNCHANGED <<entry, last, loginChild, handler, loginOperation, file, loginStored, loginShown, polling, dropped>>
    BY <1>1 DEF Login!Press, Login!Start, Login!StartAnyway
  <2>2. Login!TypeOK'
    BY <1>0, <2>1 DEF Login!TypeOK
  <2>3. LoginOrder'
    BY <1>0, <2>1 DEF LoginOrder, Login!TypeOK, Login!Running
  <2>4. EntryLost'
    BY <2>1 DEF EntryLost
  <2> QED
    BY <2>2, <2>3, <2>4
<1>2. ASSUME NEW a \in A, Login!StartFails(a) PROVE LoginInv'
  <2>1. /\ status[a] = "waiting" /\ starting' = (IF starting = a THEN 0 ELSE starting)
        /\ status' = [status EXCEPT ![a] = "failed"]
        /\ UNCHANGED <<entry, last, loginChild, handler, loginOperation, file, loginStored, loginShown, polling, dropped>>
    BY <1>2 DEF Login!StartFails
  <2>2. Login!TypeOK'
    BY <1>0, <2>1 DEF Login!TypeOK, Login!Ended
  <2>3. LoginOrder'
    BY <1>0, <2>1 DEF LoginOrder, Login!TypeOK, Login!Running
  <2>4. EntryLost'
    BY <2>1 DEF EntryLost
  <2> QED
    BY <2>2, <2>3, <2>4
<1>3. ASSUME NEW a \in A, Login!Launch(a) PROVE LoginInv'
  <2>1. /\ status[a] = "waiting" /\ starting' = (IF starting = a THEN 0 ELSE starting)
        /\ entry' = a /\ status' = [status EXCEPT ![a] = "running"]
        /\ loginChild' = [loginChild EXCEPT ![a] = "running"]
        /\ loginOperation' = [loginOperation EXCEPT ![a] = "live"]
        /\ loginShown' = "running" /\ polling' \in BOOLEAN
        /\ UNCHANGED <<last, handler, file, loginStored, dropped>>
    BY <1>3 DEF Login!Launch, Login!Takes, Login!TypeOK
  <2>2. Login!TypeOK'
    BY <1>0, <2>1 DEF Login!TypeOK, Login!Live
  <2>3. LoginOrder'
    BY <1>0, <2>1 DEF LoginOrder, Login!TypeOK, Login!Running
  <2>4. EntryLost'
    <3>1. entry = 0
      BY <2>1 DEF LoginOrder
    <3> QED
      BY <1>0, <2>1, <3>1 DEF EntryLost, Login!TypeOK
  <2> QED
    BY <2>2, <2>3, <2>4
\* The entry goes with the end of a sign-in that had none left to lose.
<1>4. ASSUME NEW a \in A, loginChild[a] # "none", handler[a] # "done", entry' = 0,
             \A b \in A : b # a => loginChild'[b] = loginChild[b] /\ handler'[b] = handler[b],
             handler'[a] = "done", dropped' = dropped
      PROVE  EntryLost'
  <2> SUFFICES ASSUME NEW b \in A, loginChild'[b] # "none", handler'[b] # "done"
               PROVE  \E d \in dropped : d <= b
    BY <1>4 DEF EntryLost
  <2>1. b # a /\ loginChild[b] # "none" /\ handler[b] # "done"
    BY <1>4
  <2>2. CASE entry # b
    BY <2>1, <2>2 DEF EntryLost
  <2>3. CASE entry = b
    <3>1. a <= b /\ entry # a
      BY <1>0, <1>4, <2>1, <2>3 DEF LoginOrder
    <3>2. PICK d \in dropped : d <= a
      BY <1>4, <3>1 DEF EntryLost
    <3>3. d \in Nat
      BY <1>0 DEF Login!TypeOK
    <3> QED
      BY <1>0, <3>1, <3>2, <3>3
  <2> QED
    BY <2>2, <2>3
<1>5. ASSUME NEW a \in A, Login!LaunchThrows(a) PROVE LoginInv'
  <2>1. PICK c \in {"failed", "running"} : loginChild' = [loginChild EXCEPT ![a] = c]
    BY <1>5 DEF Login!LaunchThrows
  <2>2. /\ status[a] = "waiting" /\ starting' = (IF starting = a THEN 0 ELSE starting)
        /\ entry' = a /\ status' = [status EXCEPT ![a] = "running"]
        /\ handler' = [handler EXCEPT ![a] = "unattached"]
        /\ loginOperation' = [loginOperation EXCEPT ![a] = "live"]
        /\ UNCHANGED <<last, file, loginStored, loginShown, polling, dropped>>
    BY <1>5 DEF Login!LaunchThrows
  <2>3. Login!TypeOK'
    BY <1>0, <2>1, <2>2 DEF Login!TypeOK, Login!Live
  <2>4. LoginOrder'
    BY <1>0, <2>1, <2>2 DEF LoginOrder, Login!TypeOK, Login!Running
  <2>5. EntryLost'
    <3>1. entry = 0
      BY <2>2 DEF LoginOrder
    <3> QED
      BY <1>0, <2>1, <2>2, <3>1 DEF EntryLost, Login!TypeOK
  <2> QED
    BY <2>3, <2>4, <2>5
<1>6. ASSUME NEW a \in A, Login!Collect(a) PROVE LoginInv'
  <2>1. /\ Login!Running(a) /\ status' = [status EXCEPT ![a] = "awaiting-code"]
        /\ UNCHANGED <<starting, entry, last, loginChild, handler, loginOperation, file, loginStored, loginShown, polling, dropped>>
    BY <1>6 DEF Login!Collect
  <2>2. Login!TypeOK'
    BY <1>0, <2>1 DEF Login!TypeOK, Login!Live
  <2>3. LoginOrder'
    BY <1>0, <2>1 DEF LoginOrder, Login!TypeOK, Login!Running
  <2>4. EntryLost'
    BY <2>1 DEF EntryLost
  <2> QED
    BY <2>2, <2>3, <2>4
<1>7. ASSUME NEW a \in A, NEW code \in {"zero", "nonzero"}, Login!Exit(a, code) PROVE LoginInv'
  <2>1. /\ Login!Running(a) /\ loginChild' = [loginChild EXCEPT ![a] = code]
        /\ file' = (IF code = "zero" THEN a ELSE file)
        /\ loginOperation' \in {loginOperation, [loginOperation EXCEPT ![a] = "ended"]}
        /\ \/ \E h \in {"done", "cleanup"} : handler' = [handler EXCEPT ![a] = h]
           \/ handler' = handler
        /\ UNCHANGED <<starting, entry, last, status, loginStored, loginShown, polling, dropped>>
    BY <1>7 DEF Login!Exit, Login!ExitOfCancelled, Login!ExitAwaits, Login!ExitUnheard
  <2>2. Login!TypeOK'
    BY <1>0, <2>1 DEF Login!TypeOK
  <2>3. LoginOrder'
    BY <1>0, <2>1 DEF LoginOrder, Login!TypeOK, Login!Running
  <2>4. EntryLost'
    BY <1>0, <2>1 DEF EntryLost, LoginOrder, Login!TypeOK, Login!Running
  <2> QED
    BY <2>2, <2>3, <2>4
<1>8. ASSUME NEW a \in A, Login!Imports(a) PROVE LoginInv'
  <2>1. /\ handler[a] = "cleanup" /\ handler' = [handler EXCEPT ![a] = "import"]
        /\ UNCHANGED <<starting, entry, last, status, loginChild, loginOperation, file, loginStored, loginShown, polling, dropped>>
    BY <1>8 DEF Login!Imports
  <2>2. Login!TypeOK'
    BY <1>0, <2>1 DEF Login!TypeOK
  <2>3. LoginOrder'
    BY <1>0, <2>1 DEF LoginOrder, Login!TypeOK, Login!Running
  <2>4. EntryLost'
    BY <2>1 DEF EntryLost, Login!TypeOK
  <2> QED
    BY <2>2, <2>3, <2>4
<1>9. ASSUME NEW a \in A, Login!Fails(a) \/ Login!Imported(a) PROVE LoginInv'
  <2>1. /\ handler[a] \in {"cleanup", "import"} /\ handler' = [handler EXCEPT ![a] = "done"]
        /\ loginOperation' = [loginOperation EXCEPT ![a] = "ended"]
        /\ entry' = 0 /\ last' \in {"failed", "succeeded"} /\ loginStored' \in {loginStored, file}
        /\ UNCHANGED <<starting, status, loginChild, file, loginShown, polling, dropped>>
    BY <1>9 DEF Login!Fails, Login!Imported, Login!RecordTerminal
  <2>2. Login!TypeOK'
    BY <1>0, <2>1 DEF Login!TypeOK, Login!Ended
  <2>3. LoginOrder'
    BY <1>0, <2>1 DEF LoginOrder, Login!TypeOK, Login!Running
  <2>4. loginChild[a] # "none"
    BY <2>1 DEF LoginOrder
  <2>5. EntryLost'
    BY <1>4, <2>1, <2>4 DEF Login!TypeOK
  <2> QED
    BY <2>2, <2>3, <2>5
<1>10. ASSUME NEW a \in A, Login!Timeout(a) PROVE LoginInv'
  <2>1. /\ loginOperation' = [loginOperation EXCEPT ![a] = "ended"]
        /\ loginChild' = [b \in A |-> IF b = entry /\ loginChild[b] = "running" THEN "signalled" ELSE loginChild[b]]
        /\ UNCHANGED <<starting, entry, last, status, handler, file, loginStored, loginShown, polling, dropped>>
    BY <1>10 DEF Login!Timeout
  <2>2. Login!TypeOK'
    BY <1>0, <2>1 DEF Login!TypeOK
  <2>3. LoginOrder'
    BY <1>0, <2>1 DEF LoginOrder, Login!TypeOK, Login!Running
  <2>4. EntryLost'
    BY <2>1 DEF EntryLost, Login!TypeOK
  <2> QED
    BY <2>2, <2>3, <2>4
<1>11. CASE Login!SubmitCode
  <2>1. /\ entry # 0 /\ status[entry] = "awaiting-code" /\ status' = [status EXCEPT ![entry] = "running"]
        /\ loginShown' = "running" /\ polling' \in BOOLEAN
        /\ UNCHANGED <<starting, entry, last, loginChild, handler, loginOperation, file, loginStored, dropped>>
    BY <1>11 DEF Login!SubmitCode, Login!Takes, Login!TypeOK
  <2>2. Login!TypeOK'
    BY <1>0, <2>1 DEF Login!TypeOK, Login!Live
  <2>3. LoginOrder'
    BY <1>0, <2>1 DEF LoginOrder, Login!TypeOK, Login!Running
  <2>4. EntryLost'
    BY <2>1 DEF EntryLost
  <2> QED
    BY <2>2, <2>3, <2>4
<1>12. CASE Login!CodeLost
  <2>1. /\ entry # 0 /\ dropped' = dropped \cup {entry} /\ entry' = 0 /\ last' = "failed"
        /\ loginShown' = "failed" /\ polling' \in BOOLEAN
        /\ UNCHANGED <<starting, status, loginChild, handler, loginOperation, file, loginStored>>
    BY <1>12 DEF Login!CodeLost, Login!RecordTerminal, Login!Takes, Login!TypeOK
  <2>2. Login!TypeOK'
    BY <1>0, <2>1 DEF Login!TypeOK, Login!Ended
  <2>3. LoginOrder'
    BY <1>0, <2>1 DEF LoginOrder, Login!TypeOK, Login!Running
  <2>4. EntryLost'
    BY <1>0, <2>1 DEF EntryLost, Login!TypeOK
  <2> QED
    BY <2>2, <2>3, <2>4
<1>13. CASE Login!Cancel
  <2>1. /\ entry # 0 /\ dropped' = dropped \cup {entry} /\ entry' = 0 /\ last' = "cancelled"
        /\ loginChild' = [loginChild EXCEPT ![entry] = IF @ = "running" THEN "signalled" ELSE @]
        /\ status' = [status EXCEPT ![entry] = "cancelled"]
        /\ loginShown' = "cancelled" /\ polling' = FALSE
        /\ UNCHANGED <<starting, handler, loginOperation, file, loginStored>>
    BY <1>13 DEF Login!Cancel, Login!RecordTerminal
  <2>2. Login!TypeOK'
    <3>1. loginChild' \in [A -> {"none", "running", "signalled", "zero", "nonzero", "failed"}]
      BY <1>0, <2>1 DEF Login!TypeOK
    <3>2. status' \in [A -> {"none", "waiting"} \cup Login!Live \cup Login!Ended]
      BY <1>0, <2>1 DEF Login!TypeOK, Login!Ended
    <3>3. dropped' \subseteq A /\ entry' \in 0..MaxLogins /\ last' \in {"idle"} \cup Login!Ended
          /\ loginShown' \in {"idle"} \cup Login!Live \cup Login!Ended
      BY <1>0, <2>1 DEF Login!TypeOK, Login!Ended
    <3> QED
      BY <2>1, <3>1, <3>2, <3>3 DEF Login!TypeOK
  <2>3. LoginOrder'
    BY <1>0, <2>1 DEF LoginOrder, Login!TypeOK, Login!Running
  <2>4. EntryLost'
    BY <1>0, <2>1 DEF EntryLost, Login!TypeOK
  <2> QED
    BY <2>2, <2>3, <2>4
\* The widget and the store move, or nothing.
<1>14. ASSUME UNCHANGED <<starting, entry, last, status, loginChild, handler, loginOperation, file, dropped>>,
              loginStored' \in {loginStored, 0}, polling' \in BOOLEAN,
              loginShown' \in {loginShown, "idle", Login!State}
       PROVE  LoginInv'
  <2>1. Login!State \in {"idle"} \cup Login!Live \cup Login!Ended
    BY <1>0 DEF Login!State, Login!TypeOK, LoginOrder
  <2>2. Login!TypeOK'
    BY <1>0, <1>14, <2>1 DEF Login!TypeOK
  <2>3. LoginOrder'
    BY <1>14 DEF LoginOrder, Login!Running
  <2>4. EntryLost'
    BY <1>14 DEF EntryLost
  <2> QED
    BY <2>2, <2>3, <2>4
<1>15. CASE Login!CodeStale
  BY <1>14, <1>15 DEF Login!CodeStale, Login!Takes, Login!TypeOK
<1>16. CASE Login!CancelNothing
  BY <1>14, <1>16 DEF Login!CancelNothing
<1>17. CASE Login!Poll
  BY <1>14, <1>17 DEF Login!Poll
<1>18. CASE Login!Forget
  BY <1>14, <1>18 DEF Login!Forget, Login!TypeOK
<1>20. CASE Login!PressAgain
  BY <1>14, <1>20 DEF Login!PressAgain, Login!Takes, Login!TypeOK
<1>19. CASE UNCHANGED loginVars
  BY <1>14, <1>19 DEF loginVars, Login!TypeOK
<1> QED
  BY <1>1, <1>2, <1>3, <1>5, <1>6, <1>7, <1>8, <1>9, <1>10, <1>11, <1>12, <1>13, <1>15, <1>16, <1>17, <1>18, <1>19, <1>20
  DEF Login!Next


------------------------------------------------------------------------------
(* The Codex session *)

Methods == {"initialize", "thread/start", "turn/start", "turn/interrupt", "shutdown"}
Kinds == {"response", "started", "activity", "authority", "completed"}
FrameRows == [kind : Kinds, of : Methods \cup {"turn"}]

SessionTyped ==
  /\ Session!TypeOK /\ abandoned \subseteq Methods
  /\ toServer \in Seq(Methods) /\ toClient \in Seq(FrameRows)

\* An answer in the pipe, and a request the client still takes the answer of.
Answer(j) == toClient[j].kind = "response"
Outstanding(m) == m \in requests \cup abandoned

\* Every method asked that is still in a pipe, or its answer, is there once, and
\* the client remembers it.
AnswersOwed ==
  /\ \A i \in DOMAIN toServer : Outstanding(toServer[i])
  /\ \A j \in DOMAIN toClient : Answer(j) => Outstanding(toClient[j].of)
  /\ \A i, k \in DOMAIN toServer : toServer[i] = toServer[k] => i = k
  /\ \A j, k \in DOMAIN toClient : Answer(j) /\ Answer(k) /\ toClient[j].of = toClient[k].of => j = k
  /\ \A i \in DOMAIN toServer, j \in DOMAIN toClient : Answer(j) => toServer[i] # toClient[j].of

\* Where the start stands, and what the cleanup has yet to ask.
StartStands ==
  /\ at \in {"none", "host"} =>
       /\ requests = {} /\ abandoned = {} /\ toServer = <<>> /\ toClient = <<>>
       /\ sessionPhase = "spawned" /\ turn = "none" /\ host = "none"
  /\ at = "initialize" => requests = {"initialize"} /\ abandoned = {} /\ sessionPhase = "initializing"
  /\ at = "thread" => requests = {"thread/start"} /\ abandoned = {} /\ sessionPhase = "thread-starting"
  /\ stage \in {"none", "revoke", "interrupt"} => ~Outstanding("turn/interrupt")
  /\ stage \in {"none", "revoke", "interrupt", "interrupting", "settle"} => ~Outstanding("shutdown")

\* The client knows that the turn began, or will by a notice in the pipe.
Told == sessionPhase = "turn-active"
StartInPipe == sessionPhase = "turn-starting" /\ \E i \in DOMAIN toClient : toClient[i].kind = "started"
StartedBefore(j) == sessionPhase = "turn-starting" /\ \E i \in 1..(j - 1) : toClient[i].kind = "started"

\* Until the cleanup begins, the notices in the pipe are those the phase, and
\* after it the notices before them, let the client expect.
NoticesFit ==
  /\ at # "failed" /\ turn # "interrupted"
  /\ at \in {"none", "host", "initialize", "thread"} => turn = "none"
  /\ at \in {"turn", "activity", "started"} => sessionPhase \in {"turn-starting", "turn-active", "turn-terminal-observed"}
  /\ "initialize" \in requests => at = "initialize"
  /\ "thread/start" \in requests => at = "thread"
  /\ \A i \in DOMAIN toServer : toServer[i] = "turn/start" => turn = "none"
  /\ turn \in {"none", "accepted"} =>
       sessionPhase \notin {"turn-active", "turn-terminal-observed"} /\ \A j \in DOMAIN toClient : Answer(j)
  /\ turn = "active" => /\ \A j \in DOMAIN toClient : toClient[j].kind # "completed"
                        /\ Told \/ StartInPipe
  /\ \A j \in DOMAIN toClient :
       /\ toClient[j].kind = "started" => sessionPhase = "turn-starting" /\ \A i \in 1..(j - 1) : Answer(i)
       /\ toClient[j].kind \in {"activity", "authority", "completed"} => Told \/ StartedBefore(j)
       /\ toClient[j].kind = "completed" => \A i \in j + 1..Len(toClient) : Answer(i)

SessionInv ==
  /\ SessionTyped /\ Session!AnswersAreExpected /\ Session!RefusalsAreRaces
  /\ fault = "none" => AnswersOwed /\ StartStands
  /\ fault = "none" /\ stage = "none" => NoticesFit

LEMMA SessionInit == Session!Init => SessionInv
<1> SUFFICES ASSUME Session!Init PROVE SessionInv
  OBVIOUS
<1>1. SessionTyped
  BY DEF Session!Init, SessionTyped, Session!TypeOK
<1>2. AnswersOwed /\ StartStands
  BY DEF Session!Init, AnswersOwed, StartStands, Outstanding
<1>3. NoticesFit
  BY DEF Session!Init, NoticesFit, Answer
<1> QED
  BY <1>1, <1>2, <1>3 DEF SessionInv, Session!Init, Session!AnswersAreExpected, Session!RefusalsAreRaces

SessionStages == {"none", "revoke", "interrupt", "interrupting", "settle", "shutdown", "terminate", "enumerate", "over"}

\* A step of the start or of the cleanup that sends and reads nothing.
SilentStep ==
  /\ UNCHANGED <<requests, abandoned, fault, toServer, toClient, turn, sessionPhase>>
  /\ \/ at' = at
     \/ at' = "failed" /\ stage' # "none"
     \/ at = "none" /\ at' = "host"
  /\ stage' \in SessionStages /\ host' \in {"none", "up", "down"}
  /\ host = "none" => host' = "none"
  /\ stage # "none" => stage' # "none"
  /\ stage' \in {"none", "revoke", "interrupt"} => stage \in {"none", "revoke", "interrupt"}
  /\ stage' \in {"none", "revoke", "interrupt", "interrupting", "settle"} =>
       stage \in {"none", "revoke", "interrupt", "interrupting", "settle"}

LEMMA QuietKeeps ==
  ASSUME SessionInv, SilentStep
  PROVE  SessionInv'
<1>1. SessionTyped'
  BY DEF SessionInv, SessionTyped, Session!TypeOK, SilentStep, SessionStages
<1>2. Session!AnswersAreExpected' /\ Session!RefusalsAreRaces'
  BY DEF SessionInv, SilentStep, Session!AnswersAreExpected, Session!RefusalsAreRaces
<1>3. ASSUME fault = "none" PROVE AnswersOwed' /\ StartStands'
  <2>1. AnswersOwed'
    BY <1>3 DEF SessionInv, SilentStep, AnswersOwed, Outstanding, Answer
  <2>2. StartStands'
    BY <1>3 DEF SessionInv, SilentStep, StartStands, Outstanding
  <2> QED
    BY <2>1, <2>2
<1>4. ASSUME fault = "none", stage' = "none" PROVE NoticesFit'
  <2>1. NoticesFit /\ StartStands /\ stage = "none" /\ at' # "failed" /\ (at' = at \/ (at = "none" /\ at' = "host"))
    BY <1>4 DEF SessionInv, SilentStep, NoticesFit
  <2>2. UNCHANGED <<requests, toServer, toClient, turn, sessionPhase>>
    BY DEF SilentStep
  <2>3. \A j \in DOMAIN toClient : Answer(j)' = Answer(j)
    BY <2>2 DEF Answer
  <2> QED
    BY <2>1, <2>2 DEF NoticesFit, StartStands, Answer, Told, StartInPipe, StartedBefore
<1> QED
  BY <1>1, <1>2, <1>3, <1>4 DEF SessionInv, SilentStep

LEMMA QuietActions ==
  ASSUME SessionInv,
         \/ Session!Start \/ Session!HostFails \/ Session!StartTimeout \/ Session!HostExits
         \/ (\E interrupt \in BOOLEAN : Session!Cleanup(interrupt))
         \/ Session!Revoked \/ Session!Interrupted \/ Session!ShutDown \/ Session!StageTimeout
         \/ Session!Terminated \/ Session!Enumerated \/ UNCHANGED sessionVars
  PROVE  SilentStep
<1>0. stage \in SessionStages /\ host \in {"none", "up", "down"}
  BY DEF SessionInv, SessionTyped, Session!TypeOK, SessionStages
<1>1. CASE Session!Start
  BY <1>0, <1>1 DEF Session!Start, SilentStep, Session!Protocol, Session!Pipes, Session!Server, Session!Cleaning
<1>2. CASE Session!HostFails \/ Session!StartTimeout
  BY <1>0, <1>2 DEF Session!HostFails, Session!StartTimeout, Session!StartFails, Session!BeginCleanup,
    SilentStep, SessionStages, Session!Protocol, Session!Pipes, Session!Server, Session!Cleaning
<1>3. CASE Session!HostExits
  BY <1>0, <1>3 DEF Session!HostExits, SilentStep, Session!Protocol, Session!Pipes, Session!Cleaning
<1>4. CASE \E interrupt \in BOOLEAN : Session!Cleanup(interrupt)
  <2>1. PICK interrupt \in BOOLEAN : Session!Cleanup(interrupt)
    BY <1>4
  <2> QED
    BY <1>0, <2>1 DEF Session!Cleanup, Session!BeginCleanup,
      SilentStep, SessionStages, Session!Protocol, Session!Pipes, Session!Server
<1>5. CASE Session!Revoked \/ Session!Interrupted
  BY <1>0, <1>5 DEF Session!Revoked, Session!Interrupted, Session!Stage,
    SilentStep, SessionStages, Session!Protocol, Session!Pipes, Session!Server
<1>6. CASE Session!ShutDown \/ Session!StageTimeout
  BY <1>0, <1>6 DEF Session!ShutDown, Session!StageTimeout, Session!Stage,
    SilentStep, SessionStages, Session!Protocol, Session!Pipes, Session!Server
<1>7. CASE Session!Terminated \/ Session!Enumerated
  BY <1>0, <1>7 DEF Session!Terminated, Session!Enumerated, Session!Stage,
    SilentStep, SessionStages, Session!Protocol, Session!Pipes, Session!Server
<1>8. CASE UNCHANGED sessionVars
  BY <1>0, <1>8 DEF sessionVars, SilentStep
<1> QED
  BY <1>1, <1>2, <1>3, <1>4, <1>5, <1>6, <1>7, <1>8

LEMMA HostUpKeeps ==
  ASSUME SessionInv, Session!HostUp
  PROVE  SessionInv'
<1>1. /\ at = "host" /\ stage = "none" /\ host' = "up" /\ at' = "initialize" /\ sessionPhase' = "initializing"
      /\ requests' = requests \union {"initialize"} /\ toServer' = Append(toServer, "initialize")
      /\ UNCHANGED <<abandoned, fault, toClient, turn, stage>>
  BY DEF Session!HostUp, Session!Request, Session!Cleaning
<1>2. SessionTyped /\ Session!AnswersAreExpected /\ Session!RefusalsAreRaces
  BY DEF SessionInv
<1>3. SessionTyped'
  BY <1>1, <1>2 DEF SessionTyped, Session!TypeOK, Methods
<1>4. Session!AnswersAreExpected' /\ Session!RefusalsAreRaces'
  BY <1>1, <1>2 DEF Session!AnswersAreExpected, Session!RefusalsAreRaces
<1>5. ASSUME fault = "none" PROVE AnswersOwed' /\ StartStands' /\ NoticesFit'
  <2>1. requests = {} /\ abandoned = {} /\ toServer = <<>> /\ toClient = <<>> /\ turn = "none" /\ NoticesFit
    BY <1>1, <1>5 DEF SessionInv, StartStands
  <2>2. /\ requests' = {"initialize"} /\ abandoned' = {} /\ toServer' = <<"initialize">> /\ toClient' = <<>>
        /\ turn' = "none"
    BY <1>1, <2>1
  <2>3. AnswersOwed'
    BY <2>2 DEF AnswersOwed, Outstanding, Answer
  <2>4. StartStands'
    BY <1>1, <2>2 DEF StartStands, Outstanding
  <2>5. NoticesFit'
    BY <1>1, <2>2 DEF NoticesFit, Answer
  <2> QED
    BY <2>3, <2>4, <2>5
<1> QED
  BY <1>1, <1>3, <1>4, <1>5 DEF SessionInv

LEMMA FailClientKeeps ==
  ASSUME SessionInv, Session!Refuse \/ Session!TransportLost
  PROVE  SessionInv'
<1>0. SessionTyped /\ fault = "none" /\ AnswersOwed /\ StartStands /\ (stage = "none" => NoticesFit)
  BY DEF SessionInv, Session!Refuse, Session!TransportLost
<1> DEFINE FailsOf(cause) == Session!FailClient(cause) /\ cause # "response"
                            /\ (stage = "none" => cause \in {"authority", "end"})
<1>8. \E cause \in Kinds \cup {"end"} : FailsOf(cause)
  <2>1. CASE Session!TransportLost
    BY <2>1 DEF Session!TransportLost
  <2>2. CASE Session!Refuse
    <3>1. /\ Len(toClient) > 0 /\ Head(toClient) = toClient[1] /\ 1 \in DOMAIN toClient /\ toClient[1] \in FrameRows
      BY <1>0, <2>2 DEF SessionTyped, Session!Refuse
    <3>2. toClient[1].kind \in Kinds
      BY <3>1 DEF FrameRows
    <3>3. Session!FailClient(toClient[1].kind) /\ (~Session!Expects(toClient[1]) \/ toClient[1].kind = "authority")
      BY <2>2, <3>1 DEF Session!Refuse
    <3>4. ASSUME toClient[1].kind = "response" PROVE FALSE
      BY <1>0, <3>1, <3>3, <3>4 DEF AnswersOwed, Answer, Outstanding, Session!Expects, Session!Answerable
    <3>5. ASSUME stage = "none", toClient[1].kind # "authority" PROVE FALSE
      <4>1. ~StartedBefore(1)
        BY DEF StartedBefore
      <4>2. /\ toClient[1].kind = "started" => sessionPhase = "turn-starting"
            /\ toClient[1].kind \in {"activity", "completed"} => sessionPhase = "turn-active"
        BY <1>0, <3>1, <3>5, <4>1 DEF NoticesFit, Told
      <4>3. ~Session!Closed
        BY <1>0, <3>5 DEF Session!Closed
      <4> QED
        BY <3>2, <3>3, <3>4, <3>5, <4>2, <4>3 DEF Session!Expects, Kinds
    <3> QED
      BY <3>2, <3>3, <3>4, <3>5
  <2> QED
    BY <2>1, <2>2
<1>1. PICK cause \in Kinds \cup {"end"} : FailsOf(cause)
  BY <1>8
<1>2. /\ fault' = cause /\ requests' = {} /\ abandoned' = {} /\ toServer' = <<>> /\ toClient' = <<>>
      /\ UNCHANGED <<turn, host>>
  BY <1>1, Zenon DEF Session!FailClient, Session!Server
<1>7. /\ at' = (IF at \in {"initialize", "thread", "turn"} THEN "failed" ELSE at)
      /\ stage' = CASE stage = "interrupting" -> "settle"
                    [] stage = "shutdown" -> "terminate"
                    [] stage = "none" /\ at \in {"initialize", "thread", "turn"} -> "revoke"
                    [] OTHER -> stage
  BY <1>1, Zenon DEF Session!FailClient
<1>3. stage' \in SessionStages /\ (stage # "none" => stage' # "none")
  <2>1. stage \in SessionStages
    BY <1>0 DEF SessionTyped, Session!TypeOK, SessionStages
  <2> QED
    BY <1>7, <2>1 DEF SessionStages
<1>4. SessionTyped'
  BY <1>0, <1>2, <1>3, <1>7 DEF SessionTyped, Session!TypeOK, SessionStages, Kinds
<1>5. Session!AnswersAreExpected' /\ Session!RefusalsAreRaces'
  BY <1>1, <1>2, <1>3 DEF Session!AnswersAreExpected, Session!RefusalsAreRaces
<1>6. fault' # "none"
  BY <1>2 DEF Kinds
<1> QED
  BY <1>4, <1>5, <1>6 DEF SessionInv

LEMMA ServeKeeps ==
  ASSUME SessionInv, Session!Serve
  PROVE  SessionInv'
<1> DEFINE m == toServer[1]
<1>0. SessionTyped /\ fault = "none" /\ AnswersOwed /\ StartStands /\ (stage = "none" => NoticesFit)
  BY DEF SessionInv, Session!Serve
<1>1. /\ 1 \in DOMAIN toServer /\ Head(toServer) = m /\ m \in Methods
      /\ toServer' = Tail(toServer) /\ toServer' \in Seq(Methods)
      /\ Len(toServer') = Len(toServer) - 1 /\ \A i \in DOMAIN toServer' : toServer'[i] = toServer[i + 1]
  BY <1>0 DEF SessionTyped, Session!Serve
<1>2. /\ toClient' = Append(toClient, [kind |-> "response", of |-> m])
      /\ UNCHANGED <<at, sessionPhase, requests, abandoned, fault, host, stage>>
  BY <1>1 DEF Session!Serve, Session!Protocol, Session!Cleaning
<1>3. /\ toClient' \in Seq(FrameRows) /\ Len(toClient') = Len(toClient) + 1 /\ Len(toClient) \in Nat
      /\ \A j \in DOMAIN toClient : toClient'[j] = toClient[j]
      /\ toClient'[Len(toClient) + 1] = [kind |-> "response", of |-> m]
  <2>1. [kind |-> "response", of |-> m] \in FrameRows
    BY <1>1 DEF FrameRows, Kinds
  <2> QED
    BY <1>0, <1>2, <2>1 DEF SessionTyped
<1>4. /\ turn' = IF m = "turn/start" THEN "accepted"
                 ELSE IF m = "turn/interrupt" /\ turn # "done" THEN "interrupted" ELSE turn
  BY <1>1 DEF Session!Serve
<1>5. /\ DOMAIN toServer = 1..Len(toServer) /\ DOMAIN toServer' = 1..(Len(toServer) - 1) /\ Len(toServer) \in Nat
      /\ DOMAIN toClient = 1..Len(toClient) /\ DOMAIN toClient' = 1..(Len(toClient) + 1)
  BY <1>0, <1>1, <1>3 DEF SessionTyped
<1>6. SessionTyped'
  BY <1>0, <1>1, <1>2, <1>3, <1>4 DEF SessionTyped, Session!TypeOK
<1>7. Session!AnswersAreExpected' /\ Session!RefusalsAreRaces'
  BY <1>2 DEF SessionInv, Session!AnswersAreExpected, Session!RefusalsAreRaces
<1>8. AnswersOwed'
  <2>1. \A i \in DOMAIN toServer' : i + 1 \in DOMAIN toServer /\ i + 1 # 1
    BY <1>5
  <2>2. \A j \in DOMAIN toClient' : j \in DOMAIN toClient \/ (j \notin DOMAIN toClient /\ j = Len(toClient) + 1)
    BY <1>5
  <2>3. \A x : Outstanding(x)' = Outstanding(x)
    BY <1>2 DEF Outstanding
  <2>4. /\ \A j \in DOMAIN toClient : Answer(j)' = Answer(j) /\ toClient'[j].of = toClient[j].of
        /\ toClient'[Len(toClient) + 1].of = m
    BY <1>3 DEF Answer
  <2>5. (\A i \in DOMAIN toServer : Outstanding(toServer[i]))'
    BY <1>0, <1>1, <2>1, <2>3 DEF AnswersOwed
  <2>6. (\A j \in DOMAIN toClient : Answer(j) => Outstanding(toClient[j].of))'
    BY <1>0, <1>1, <2>2, <2>3, <2>4 DEF AnswersOwed
  <2>7. (\A i, k \in DOMAIN toServer : toServer[i] = toServer[k] => i = k)'
    <3> SUFFICES ASSUME NEW i \in DOMAIN toServer', NEW k \in DOMAIN toServer', toServer'[i] = toServer'[k]
                 PROVE  i = k
      OBVIOUS
    <3>1. toServer[i + 1] = toServer[k + 1] /\ i \in Nat /\ k \in Nat
      BY <1>1, <1>5
    <3>2. i + 1 = k + 1
      BY <1>0, <2>1, <3>1 DEF AnswersOwed
    <3> QED
      BY <3>1, <3>2
  <2>8. (\A j, k \in DOMAIN toClient : Answer(j) /\ Answer(k) /\ toClient[j].of = toClient[k].of => j = k)'
    BY <1>0, <1>1, <2>2, <2>4 DEF AnswersOwed
  <2>9. (\A i \in DOMAIN toServer, j \in DOMAIN toClient : Answer(j) => toServer[i] # toClient[j].of)'
    <3> SUFFICES ASSUME NEW i \in DOMAIN toServer', NEW j \in DOMAIN toClient', Answer(j)',
                        toServer'[i] = toClient'[j].of
                 PROVE  FALSE
      OBVIOUS
    <3>1. toServer'[i] = toServer[i + 1] /\ i + 1 \in DOMAIN toServer /\ i + 1 # 1
      BY <1>1, <2>1
    <3>2. CASE j \in DOMAIN toClient
      BY <1>0, <2>4, <3>1, <3>2 DEF AnswersOwed
    <3>3. CASE j = Len(toClient) + 1
      BY <1>0, <1>1, <2>4, <3>1, <3>3 DEF AnswersOwed
    <3> QED
      BY <2>2, <3>2, <3>3
  <2> QED
    BY <2>5, <2>6, <2>7, <2>8, <2>9 DEF AnswersOwed
<1>9. StartStands'
  BY <1>0, <1>1, <1>2 DEF StartStands, Outstanding
<1>10. ASSUME stage = "none" PROVE NoticesFit'
  <2>0. NoticesFit /\ Outstanding(m) /\ ~Outstanding("turn/interrupt")
    BY <1>0, <1>1, <1>10 DEF AnswersOwed, StartStands
  <2>1. turn' = (IF m = "turn/start" THEN "accepted" ELSE turn) /\ (m = "turn/start" => turn = "none")
    BY <1>1, <1>4, <2>0 DEF NoticesFit
  <2>2. ASSUME m = "turn/start" PROVE at \notin {"none", "host", "initialize", "thread"}
    BY <1>0, <1>1, <2>0, <2>2 DEF StartStands, Outstanding
  <2>3. /\ at' # "failed" /\ turn' # "interrupted"
        /\ at' \in {"none", "host", "initialize", "thread"} => turn' = "none"
        /\ at' \in {"turn", "activity", "started"} => sessionPhase' \in {"turn-starting", "turn-active", "turn-terminal-observed"}
        /\ "initialize" \in requests' => at' = "initialize"
        /\ "thread/start" \in requests' => at' = "thread"
    BY <1>2, <2>0, <2>1, <2>2 DEF NoticesFit
  <2>4. \A i \in DOMAIN toServer' : toServer'[i] = "turn/start" => turn' = "none"
    <3> SUFFICES ASSUME NEW i \in DOMAIN toServer', toServer'[i] = "turn/start" PROVE turn' = "none"
      OBVIOUS
    <3>1. i + 1 \in DOMAIN toServer /\ i + 1 # 1 /\ toServer[i + 1] = "turn/start"
      BY <1>1, <1>5
    <3>2. m # "turn/start"
      BY <1>0, <1>1, <3>1 DEF AnswersOwed
    <3> QED
      BY <2>0, <2>1, <3>1, <3>2 DEF NoticesFit
  <2>5. \A j \in DOMAIN toClient' : Answer(j)' \/ (j \in DOMAIN toClient /\ toClient'[j] = toClient[j] /\ ~Answer(j))
    BY <1>3, <1>5 DEF Answer
  <2>6. (turn \in {"none", "accepted"} =>
           sessionPhase \notin {"turn-active", "turn-terminal-observed"} /\ \A j \in DOMAIN toClient : Answer(j))'
    BY <1>2, <2>0, <2>1, <2>5 DEF NoticesFit
  <2>7. \A j \in Nat : j <= Len(toClient) + 1 /\ StartedBefore(j) => StartedBefore(j)'
    BY <1>2, <1>3, <1>5 DEF StartedBefore
  <2>8. Told' = Told
    BY <1>2 DEF Told
  <2>9. StartInPipe => StartInPipe'
    BY <1>2, <1>3, <1>5 DEF StartInPipe
  <2>10. (turn = "active" => /\ \A j \in DOMAIN toClient : toClient[j].kind # "completed"
                             /\ Told \/ StartInPipe)'
    <3>1. ASSUME turn' = "active" PROVE turn = "active"
      BY <2>1, <3>1
    <3>2. ASSUME turn' = "active", NEW j \in DOMAIN toClient' PROVE toClient'[j].kind # "completed"
      BY <2>0, <2>5, <3>1, <3>2 DEF NoticesFit, Answer
    <3> QED
      BY <2>0, <2>8, <2>9, <3>1, <3>2 DEF NoticesFit
  <2>11. (\A j \in DOMAIN toClient :
            /\ toClient[j].kind = "started" => sessionPhase = "turn-starting" /\ \A i \in 1..(j - 1) : Answer(i)
            /\ toClient[j].kind \in {"activity", "authority", "completed"} => Told \/ StartedBefore(j)
            /\ toClient[j].kind = "completed" => \A i \in j + 1..Len(toClient) : Answer(i))'
    <3> SUFFICES ASSUME NEW j \in DOMAIN toClient'
                 PROVE  (/\ toClient[j].kind = "started" => sessionPhase = "turn-starting" /\ \A i \in 1..(j - 1) : Answer(i)
                         /\ toClient[j].kind \in {"activity", "authority", "completed"} => Told \/ StartedBefore(j)
                         /\ toClient[j].kind = "completed" => \A i \in j + 1..Len(toClient) : Answer(i))'
      OBVIOUS
    <3>1. CASE Answer(j)'
      BY <3>1 DEF Answer
    <3>2. CASE j \in DOMAIN toClient /\ toClient'[j] = toClient[j]
      <4>1. j \in Nat /\ j <= Len(toClient) + 1
        BY <1>5, <3>2
      <4>2. \A i \in 1..Len(toClient') : i \in DOMAIN toClient /\ Answer(i) => Answer(i)'
        BY <1>3 DEF Answer
      <4>3. \A i \in 1..(j - 1) : i \in DOMAIN toClient /\ i \in 1..Len(toClient')
        BY <1>3, <1>5, <3>2
      <4>4. \A i \in j + 1..Len(toClient') : (i \in DOMAIN toClient /\ i \in j + 1..Len(toClient)) \/ Answer(i)'
        BY <1>3, <1>5, <4>1 DEF Answer
      <4>5. \A i \in j + 1..Len(toClient') : i \in 1..Len(toClient')
        BY <4>1
      <4> QED
        BY <1>2, <2>0, <2>7, <2>8, <3>2, <4>1, <4>2, <4>3, <4>4, <4>5 DEF NoticesFit
    <3> QED
      BY <2>5, <3>1, <3>2
  <2> QED
    BY <2>3, <2>4, <2>6, <2>10, <2>11 DEF NoticesFit
<1> QED
  BY <1>2, <1>6, <1>7, <1>8, <1>9, <1>10 DEF SessionInv

LEMMA EmitKeeps ==
  ASSUME SessionInv, Session!TurnStarts \/ Session!Notices \/ Session!AsksAuthority \/ Session!TurnEnds
  PROVE  SessionInv'
<1> DEFINE Emits(kind, next) ==
      \/ kind = "started" /\ turn = "accepted" /\ next = "active"
      \/ kind \in {"activity", "authority"} /\ turn = "active" /\ next = "active"
      \/ kind = "completed" /\ turn \in {"active", "interrupted"} /\ next = "done"
<1>0. PICK kind \in Kinds, next \in {"active", "done"} : Emits(kind, next) /\ Session!Emit(kind, next)
  BY DEF Session!TurnStarts, Session!Notices, Session!AsksAuthority, Session!TurnEnds, Kinds
<1>1. /\ fault = "none" /\ toClient' = Append(toClient, [kind |-> kind, of |-> "turn"]) /\ turn' = next
      /\ UNCHANGED <<at, sessionPhase, requests, abandoned, fault, toServer, host, stage>>
  BY <1>0 DEF Session!Emit, Session!Protocol, Session!Cleaning
<1>2. SessionTyped /\ AnswersOwed /\ StartStands /\ (stage = "none" => NoticesFit)
  BY <1>1 DEF SessionInv
<1>3. /\ toClient' \in Seq(FrameRows) /\ Len(toClient') = Len(toClient) + 1 /\ Len(toClient) \in Nat
      /\ \A j \in DOMAIN toClient : toClient'[j] = toClient[j]
      /\ toClient'[Len(toClient) + 1] = [kind |-> kind, of |-> "turn"]
  <2>1. [kind |-> kind, of |-> "turn"] \in FrameRows
    BY DEF FrameRows
  <2> QED
    BY <1>1, <1>2, <2>1 DEF SessionTyped
<1>4. DOMAIN toClient = 1..Len(toClient) /\ DOMAIN toClient' = 1..(Len(toClient) + 1)
  BY <1>2, <1>3 DEF SessionTyped
<1>5. \A j \in DOMAIN toClient' : (j \in DOMAIN toClient /\ toClient'[j] = toClient[j])
                                  \/ (j = Len(toClient) + 1 /\ j \notin DOMAIN toClient /\ toClient'[j].kind = kind)
  BY <1>3, <1>4
<1>6. SessionTyped'
  <2>1. Session!TypeOK' /\ abandoned' \subseteq Methods /\ toServer' \in Seq(Methods)
    BY <1>1, <1>2 DEF SessionTyped, Session!TypeOK
  <2> QED
    BY <1>3, <2>1 DEF SessionTyped
<1>7. Session!AnswersAreExpected' /\ Session!RefusalsAreRaces'
  BY <1>1 DEF SessionInv, Session!AnswersAreExpected, Session!RefusalsAreRaces
<1>8. kind # "response" /\ turn # "none"
  BY <1>0
<1>9. AnswersOwed'
  <2>1. \A j \in DOMAIN toClient' : Answer(j)' => j \in DOMAIN toClient /\ Answer(j) /\ toClient'[j].of = toClient[j].of
    BY <1>5, <1>8 DEF Answer
  <2>2. UNCHANGED toServer /\ \A x : Outstanding(x)' = Outstanding(x)
    BY <1>1 DEF Outstanding
  <2>3. (\A j \in DOMAIN toClient : Answer(j) => Outstanding(toClient[j].of))'
    BY <1>2, <2>1, <2>2 DEF AnswersOwed
  <2>4. (\A j, k \in DOMAIN toClient : Answer(j) /\ Answer(k) /\ toClient[j].of = toClient[k].of => j = k)'
    BY <1>2, <2>1 DEF AnswersOwed
  <2>5. (\A i \in DOMAIN toServer, j \in DOMAIN toClient : Answer(j) => toServer[i] # toClient[j].of)'
    BY <1>2, <2>1, <2>2 DEF AnswersOwed
  <2> QED
    BY <1>2, <2>2, <2>3, <2>4, <2>5 DEF AnswersOwed
<1>10. StartStands'
  BY <1>1, <1>2, <1>8 DEF StartStands, Outstanding
<1>11. ASSUME stage = "none" PROVE NoticesFit'
  <2>0. NoticesFit /\ turn # "interrupted" /\ at \in {"turn", "activity", "started"}
    <3>1. NoticesFit /\ turn # "interrupted" /\ at \notin {"none", "host", "initialize", "thread", "failed"}
      BY <1>2, <1>8, <1>11 DEF NoticesFit
    <3> QED
      BY <1>2, <3>1 DEF SessionTyped, Session!TypeOK
  <2>1. /\ at' # "failed" /\ turn' # "interrupted"
        /\ at' \in {"none", "host", "initialize", "thread"} => turn' = "none"
        /\ at' \in {"turn", "activity", "started"} => sessionPhase' \in {"turn-starting", "turn-active", "turn-terminal-observed"}
        /\ "initialize" \in requests' => at' = "initialize"
        /\ "thread/start" \in requests' => at' = "thread"
        /\ turn' \notin {"none", "accepted"}
    BY <1>1, <2>0 DEF NoticesFit
  <2>2. \A i \in DOMAIN toServer' : toServer'[i] = "turn/start" => turn' = "none"
    BY <1>1, <1>8, <2>0 DEF NoticesFit
  <2>3. /\ turn = "accepted" => sessionPhase = "turn-starting" /\ \A j \in DOMAIN toClient : Answer(j)
        /\ turn = "active" => (Told \/ StartInPipe) /\ \A j \in DOMAIN toClient : toClient[j].kind # "completed"
    BY <2>0 DEF NoticesFit
  <2>4. /\ Told' = Told /\ (StartInPipe => StartInPipe')
        /\ \A j \in DOMAIN toClient : StartedBefore(j) => StartedBefore(j)'
        /\ \A j \in DOMAIN toClient : Answer(j)' = Answer(j)
    BY <1>1, <1>3, <1>4 DEF Told, StartInPipe, StartedBefore, Answer
  <2>5. ASSUME kind = "started" PROVE StartInPipe'
    BY <1>0, <1>1, <1>3, <1>4, <2>3, <2>5 DEF StartInPipe
  <2>6. (turn = "active" => /\ \A j \in DOMAIN toClient : toClient[j].kind # "completed"
                            /\ Told \/ StartInPipe)'
    <3>1. ASSUME turn' = "active" PROVE kind # "completed" /\ \A j \in DOMAIN toClient : toClient[j].kind # "completed"
      BY <1>0, <1>1, <2>3, <3>1 DEF Answer
    <3>2. ASSUME turn' = "active" PROVE Told' \/ StartInPipe'
      BY <1>0, <1>1, <2>3, <2>4, <2>5, <3>2
    <3> QED
      BY <1>5, <3>1, <3>2
  <2>7. (\A j \in DOMAIN toClient :
            /\ toClient[j].kind = "started" => sessionPhase = "turn-starting" /\ \A i \in 1..(j - 1) : Answer(i)
            /\ toClient[j].kind \in {"activity", "authority", "completed"} => Told \/ StartedBefore(j)
            /\ toClient[j].kind = "completed" => \A i \in j + 1..Len(toClient) : Answer(i))'
    <3> SUFFICES ASSUME NEW j \in DOMAIN toClient'
                 PROVE  (/\ toClient[j].kind = "started" => sessionPhase = "turn-starting" /\ \A i \in 1..(j - 1) : Answer(i)
                         /\ toClient[j].kind \in {"activity", "authority", "completed"} => Told \/ StartedBefore(j)
                         /\ toClient[j].kind = "completed" => \A i \in j + 1..Len(toClient) : Answer(i))'
      OBVIOUS
    <3>1. CASE j \in DOMAIN toClient /\ toClient'[j] = toClient[j]
      <4>1. \A i \in 1..(j - 1) : i \in DOMAIN toClient
        BY <1>4, <3>1
      <4>2. toClient[j].kind # "completed"
        BY <1>0, <2>0, <2>3, <3>1 DEF Answer
      <4> QED
        BY <1>1, <2>0, <2>4, <3>1, <4>1, <4>2 DEF NoticesFit
    <3>2. CASE j = Len(toClient) + 1 /\ toClient'[j].kind = kind
      <4>1. \A i \in 1..(j - 1) : i \in DOMAIN toClient
        BY <1>3, <1>4, <3>2
      <4>2. \A i \in j + 1..Len(toClient') : FALSE
        BY <1>3, <3>2
      <4>3. toClient'[j].kind = "started" => sessionPhase' = "turn-starting" /\ \A i \in 1..(j - 1) : Answer(i)'
        BY <1>0, <1>1, <2>3, <2>4, <3>2, <4>1
      <4>4. StartInPipe => StartedBefore(j)'
        BY <1>1, <1>3, <1>4, <3>2 DEF StartInPipe, StartedBefore
      <4>5. toClient'[j].kind \in {"activity", "authority", "completed"} => Told' \/ StartedBefore(j)'
        <5>1. toClient'[j].kind \in {"activity", "authority", "completed"} => turn = "active"
          BY <1>0, <2>0, <3>2
        <5> QED
          BY <2>3, <2>4, <4>4, <5>1
      <4> QED
        BY <4>2, <4>3, <4>5
    <3> QED
      BY <1>5, <3>1, <3>2
  <2> QED
    BY <2>1, <2>2, <2>6, <2>7 DEF NoticesFit
<1> QED
  BY <1>1, <1>6, <1>7, <1>9, <1>10, <1>11 DEF SessionInv

\* What the client takes from the head of the pipe, and what is left of it.
HeadTaken ==
  /\ 1 \in DOMAIN toClient /\ toClient[1] \in FrameRows /\ Session!Expects(toClient[1])
  /\ toClient[1].kind # "authority" /\ fault = "none"
  /\ toClient' \in Seq(FrameRows) /\ Len(toClient) \in Nat /\ Len(toClient) > 0
  /\ DOMAIN toClient = 1..Len(toClient) /\ DOMAIN toClient' = 1..(Len(toClient) - 1)
  /\ Len(toClient') = Len(toClient) - 1
  /\ \A j \in DOMAIN toClient' : j + 1 \in DOMAIN toClient /\ toClient'[j] = toClient[j + 1]
  /\ UNCHANGED <<fault, turn, host, stage>>

LEMMA AcceptTakes ==
  ASSUME SessionInv, Session!Accept
  PROVE  HeadTaken
<1>0. SessionTyped
  BY DEF SessionInv
<1>1. /\ Len(toClient) \in Nat /\ Len(toClient) > 0 /\ Head(toClient) = toClient[1] /\ toClient' = Tail(toClient)
      /\ DOMAIN toClient = 1..Len(toClient) /\ fault = "none"
  BY <1>0 DEF SessionTyped, Session!Accept
<1>2. toClient' \in Seq(FrameRows) /\ Len(toClient') = Len(toClient) - 1 /\ DOMAIN toClient' = 1..(Len(toClient) - 1)
  BY <1>0, <1>1 DEF SessionTyped
<1>3. 1 \in DOMAIN toClient /\ toClient[1] \in FrameRows
  BY <1>0, <1>1 DEF SessionTyped
<1>4. \A j \in DOMAIN toClient' : j + 1 \in DOMAIN toClient /\ toClient'[j] = toClient[j + 1]
  BY <1>0, <1>1, <1>2 DEF SessionTyped
<1>5. Session!Expects(toClient[1]) /\ toClient[1].kind # "authority"
  BY <1>1 DEF Session!Accept
<1>6. UNCHANGED <<fault, turn, host, stage>>
  BY DEF Session!Accept, Session!Server, Session!Cleaning
<1> QED
  BY <1>1, <1>2, <1>3, <1>4, <1>5, <1>6 DEF HeadTaken

LEMMA AcceptTyped ==
  ASSUME SessionInv, Session!Accept
  PROVE  SessionTyped'
<1> DEFINE f == toClient[1]
<1>0. SessionTyped /\ HeadTaken
  BY AcceptTakes DEF SessionInv
<1>1. Head(toClient) = f
  BY <1>0 DEF SessionTyped
<1>2. /\ Session!Follows(f)
      /\ abandoned' = IF f.kind = "response" THEN abandoned \ {f.of} ELSE abandoned
  BY <1>1 DEF Session!Accept
<1>3. abandoned' \subseteq Methods
  BY <1>0, <1>2 DEF SessionTyped
<1>4. requests' \subseteq Methods /\ toServer' \in Seq(Methods)
  <2>1. requests \subseteq Methods /\ toServer \in Seq(Methods) /\ {"thread/start", "turn/start"} \subseteq Methods
    BY <1>0 DEF SessionTyped, Session!TypeOK, Methods
  <2>2. /\ requests' \in {{"thread/start"}, {"turn/start"}, requests, requests \ {f.of}}
        /\ toServer' \in {toServer, Append(toServer, "thread/start"), Append(toServer, "turn/start")}
    BY <1>2 DEF Session!Follows
  <2>3. requests' \subseteq Methods
    BY <2>1, <2>2
  <2>4. toServer' \in Seq(Methods)
    BY <2>1, <2>2
  <2> QED
    BY <2>3, <2>4
<1>5. at' \in {"none", "host", "initialize", "thread", "turn", "activity", "started", "failed"}
  BY <1>0, <1>2 DEF SessionTyped, Session!TypeOK, Session!Follows
<1> QED
  BY <1>0, <1>3, <1>4, <1>5 DEF SessionTyped, Session!TypeOK, HeadTaken, Methods

\* The answer the start waits for: nothing else is in the pipes, and the next
\* request is.
LEMMA AcceptNext ==
  ASSUME SessionInv, Session!Accept, NEW of \in {"initialize", "thread/start"},
         toClient[1].kind = "response", toClient[1].of = of, of \in requests,
         at = (IF of = "initialize" THEN "initialize" ELSE "thread")
  PROVE  SessionInv'
<1> DEFINE f == toClient[1]
           next == IF of = "initialize" THEN "thread/start" ELSE "turn/start"
<1>0. SessionTyped /\ AnswersOwed /\ StartStands /\ (stage = "none" => NoticesFit) /\ HeadTaken
  BY AcceptTakes DEF SessionInv, HeadTaken
<1>1. Head(toClient) = f /\ Session!Fulfilled(f)
  BY <1>0 DEF SessionTyped, Session!Fulfilled
<1>2. requests = {of} /\ abandoned = {}
  BY <1>0 DEF StartStands
<1>3. /\ at' = (IF of = "initialize" THEN "thread" ELSE "turn") /\ requests' = {next}
      /\ toServer' = Append(toServer, next) /\ abandoned' = {}
      /\ sessionPhase' = (IF of = "initialize" THEN "thread-starting" ELSE "turn-starting")
  <2>1. /\ Session!Follows(f) /\ abandoned' = (IF f.kind = "response" THEN abandoned \ {f.of} ELSE abandoned)
        /\ sessionPhase' = (IF Session!Fulfilled(f) /\ Session!Stays(f)
                              THEN IF f.of = "initialize" THEN "initialize-replied" ELSE "thread-ready"
                              ELSE Session!NextPhase(f))
    BY <1>1, Zenon DEF Session!Accept
  <2>2. /\ at' = (IF of = "initialize" THEN "thread" ELSE "turn") /\ requests' = {next}
        /\ toServer' = Append(toServer, next)
    BY <1>1, <2>1 DEF Session!Follows
  <2>3. ~Session!Stays(f)
    BY <2>2 DEF Session!Stays
  <2> QED
    BY <1>1, <1>2, <2>1, <2>2, <2>3 DEF Session!NextPhase
<1>4. toServer = <<>>
  <2>1. \A i \in DOMAIN toServer : FALSE
    BY <1>0, <1>2 DEF AnswersOwed, Outstanding, Answer, HeadTaken
  <2>2. Len(toServer) \in Nat /\ DOMAIN toServer = 1..Len(toServer)
    BY <1>0 DEF SessionTyped
  <2>3. Len(toServer) = 0
    BY <2>1, <2>2
  <2> QED
    BY <1>0, <2>3 DEF SessionTyped
<1>5. \A j \in DOMAIN toClient' : ~Answer(j)'
  <2> SUFFICES ASSUME NEW j \in DOMAIN toClient', toClient'[j].kind = "response" PROVE FALSE
    BY DEF Answer
  <2>1. j + 1 \in DOMAIN toClient /\ j + 1 # 1 /\ toClient[j + 1].kind = "response"
    BY <1>0 DEF HeadTaken
  <2> QED
    BY <1>0, <1>2, <2>1 DEF AnswersOwed, Answer, Outstanding, HeadTaken
<1>6. toServer' = <<next>> /\ DOMAIN toServer' = {1} /\ toServer'[1] = next
  BY <1>3, <1>4
<1>7. AnswersOwed'
  BY <1>3, <1>5, <1>6 DEF AnswersOwed, Outstanding
<1>8. StartStands'
  BY <1>0, <1>3 DEF StartStands, Outstanding, HeadTaken
<1>9. ASSUME stage = "none" PROVE NoticesFit'
  <2>1. turn = "none" /\ \A j \in DOMAIN toClient : Answer(j)
    BY <1>0, <1>9 DEF NoticesFit
  <2>2. DOMAIN toClient' = {}
    BY <1>0, <1>5, <2>1 DEF HeadTaken, Answer
  <2> QED
    BY <1>0, <1>3, <1>6, <2>1, <2>2 DEF NoticesFit, HeadTaken
<1>10. Session!AnswersAreExpected' /\ Session!RefusalsAreRaces'
  BY <1>0 DEF HeadTaken, Session!AnswersAreExpected, Session!RefusalsAreRaces
<1> QED
  BY <1>0, <1>7, <1>8, <1>9, <1>10, AcceptTyped DEF SessionInv, HeadTaken

\* What the rest of the pipe owes is as before.
LEMMA AcceptOwes ==
  ASSUME SessionInv, Session!Accept, UNCHANGED toServer,
         \A x : Outstanding(x) /\ ~(toClient[1].kind = "response" /\ x = toClient[1].of) => Outstanding(x)'
  PROVE  AnswersOwed'
<1>0. AnswersOwed /\ HeadTaken
  BY AcceptTakes DEF SessionInv, HeadTaken
<1>1. \A j \in DOMAIN toClient' : /\ j + 1 \in DOMAIN toClient /\ j + 1 # 1 /\ j \in Nat
                                  /\ Answer(j)' => toClient[j + 1].kind = "response" /\ toClient'[j].of = toClient[j + 1].of
  BY <1>0 DEF HeadTaken, Answer
<1>2. \A x : Outstanding(x) /\ ~(Answer(1) /\ x = toClient[1].of) => Outstanding(x)'
  BY DEF Answer
<1>3. 1 \in DOMAIN toClient
  BY <1>0 DEF HeadTaken
<1>4. (\A i \in DOMAIN toServer : Outstanding(toServer[i]))'
  <2> SUFFICES ASSUME NEW i \in DOMAIN toServer PROVE Outstanding(toServer[i])'
    OBVIOUS
  <2>1. Outstanding(toServer[i]) /\ (Answer(1) => toServer[i] # toClient[1].of)
    BY <1>0, <1>3 DEF AnswersOwed
  <2> QED
    BY <1>2, <2>1 DEF Outstanding
<1>5. (\A j \in DOMAIN toClient : Answer(j) => Outstanding(toClient[j].of))'
  <2> SUFFICES ASSUME NEW j \in DOMAIN toClient', Answer(j)' PROVE Outstanding(toClient[j].of)'
    OBVIOUS
  <2>1. Outstanding(toClient[j + 1].of) /\ (Answer(1) => toClient[j + 1].of # toClient[1].of)
    BY <1>0, <1>1, <1>3 DEF AnswersOwed, Answer
  <2> QED
    BY <1>1, <1>2, <2>1 DEF Outstanding
<1>6. (\A j, k \in DOMAIN toClient : Answer(j) /\ Answer(k) /\ toClient[j].of = toClient[k].of => j = k)'
  <2> SUFFICES ASSUME NEW j \in DOMAIN toClient', NEW k \in DOMAIN toClient', Answer(j)', Answer(k)',
                      toClient'[j].of = toClient'[k].of
               PROVE  j = k
    OBVIOUS
  <2>1. j + 1 = k + 1
    BY <1>0, <1>1 DEF AnswersOwed, Answer
  <2> QED
    BY <1>1, <2>1
<1>7. (\A i \in DOMAIN toServer, j \in DOMAIN toClient : Answer(j) => toServer[i] # toClient[j].of)'
  <2> SUFFICES ASSUME NEW i \in DOMAIN toServer, NEW j \in DOMAIN toClient', Answer(j)'
               PROVE  toServer[i] # toClient'[j].of
    OBVIOUS
  <2> QED
    BY <1>0, <1>1 DEF AnswersOwed, Answer
<1> QED
  BY <1>0, <1>4, <1>5, <1>6, <1>7 DEF AnswersOwed

LEMMA AcceptAnswer ==
  ASSUME SessionInv, Session!Accept, toClient[1].kind = "response",
         ~(toClient[1].of = "initialize" /\ "initialize" \in requests /\ at = "initialize"),
         ~(toClient[1].of = "thread/start" /\ "thread/start" \in requests /\ at = "thread")
  PROVE  SessionInv'
<1> DEFINE f == toClient[1]
<1>0. SessionTyped /\ AnswersOwed /\ StartStands /\ (stage = "none" => NoticesFit) /\ HeadTaken
  BY AcceptTakes DEF SessionInv, HeadTaken
<1>1. Head(toClient) = f
  BY <1>0 DEF SessionTyped
<1>2. Session!Follows(f) /\ abandoned' = abandoned \ {f.of}
  BY <1>1 DEF Session!Accept
<1>3. /\ requests' = requests \ {f.of} /\ UNCHANGED toServer
      /\ at' = at \/ (at = "turn" /\ at' \in {"started", "activity"})
  BY <1>2 DEF Session!Follows, Session!Fulfilled
<1>4. at \notin {"none", "host", "initialize", "thread"}
  BY <1>0 DEF StartStands, AnswersOwed, Answer, Outstanding, HeadTaken
<1>5. at' \notin {"none", "host", "initialize", "thread"}
  BY <1>3, <1>4
<1>6. AnswersOwed'
  <2>1. \A x : Outstanding(x) /\ ~(f.kind = "response" /\ x = f.of) => Outstanding(x)'
    BY <1>2, <1>3 DEF Outstanding
  <2> QED
    BY <1>3, <2>1, AcceptOwes
<1>7. StartStands'
  BY <1>0, <1>2, <1>3, <1>5 DEF StartStands, Outstanding, HeadTaken
<1>8. ASSUME stage = "none" PROVE NoticesFit'
  <2>0. NoticesFit /\ "initialize" \notin requests /\ "thread/start" \notin requests
    BY <1>0, <1>4, <1>8 DEF NoticesFit
  <2>1. sessionPhase' = sessionPhase
    BY <1>1, <2>0 DEF Session!Accept, Session!NextPhase, Session!Fulfilled, Session!Stays
  <2>2. /\ at' # "failed" /\ turn' # "interrupted"
        /\ at' \in {"none", "host", "initialize", "thread"} => turn' = "none"
        /\ at' \in {"turn", "activity", "started"} => sessionPhase' \in {"turn-starting", "turn-active", "turn-terminal-observed"}
        /\ "initialize" \in requests' => at' = "initialize"
        /\ "thread/start" \in requests' => at' = "thread"
        /\ \A i \in DOMAIN toServer' : toServer'[i] = "turn/start" => turn' = "none"
    BY <1>0, <1>3, <1>5, <2>0, <2>1 DEF NoticesFit, HeadTaken
  <2>3. \A j \in DOMAIN toClient' : /\ j + 1 \in DOMAIN toClient /\ toClient'[j] = toClient[j + 1] /\ j \in Nat
                                    /\ Answer(j + 1) => Answer(j)'
    BY <1>0 DEF HeadTaken, Answer
  <2>4. Told' = Told /\ (StartInPipe => StartInPipe')
        /\ \A j \in DOMAIN toClient' : StartedBefore(j + 1) => StartedBefore(j)'
    <3>1. \A i \in DOMAIN toClient : toClient[i].kind = "started" => i - 1 \in DOMAIN toClient' /\ toClient'[i - 1].kind = "started"
      BY <1>0 DEF HeadTaken
    <3>2. Told' = Told
      BY <2>1 DEF Told
    <3>3. StartInPipe => StartInPipe'
      BY <2>1, <3>1 DEF StartInPipe
    <3>4. ASSUME NEW j \in DOMAIN toClient', StartedBefore(j + 1) PROVE StartedBefore(j)'
      <4>1. PICK i \in 1..j : toClient[i].kind = "started" /\ sessionPhase = "turn-starting"
        BY <2>3, <3>4 DEF StartedBefore
      <4>2. i \in DOMAIN toClient
        BY <1>0, <4>1 DEF HeadTaken
      <4>3. i - 1 \in 1..(j - 1) /\ toClient'[i - 1].kind = "started"
        BY <1>0, <3>1, <4>1, <4>2 DEF HeadTaken
      <4> QED
        BY <2>1, <4>1, <4>3 DEF StartedBefore
    <3> QED
      BY <3>2, <3>3, <3>4
  <2>5. (turn \in {"none", "accepted"} =>
           sessionPhase \notin {"turn-active", "turn-terminal-observed"} /\ \A j \in DOMAIN toClient : Answer(j))'
    BY <1>0, <2>0, <2>1, <2>3 DEF NoticesFit, HeadTaken
  <2>6. (turn = "active" => /\ \A j \in DOMAIN toClient : toClient[j].kind # "completed"
                            /\ Told \/ StartInPipe)'
    BY <1>0, <2>0, <2>3, <2>4 DEF NoticesFit, HeadTaken
  <2>7. (\A j \in DOMAIN toClient :
            /\ toClient[j].kind = "started" => sessionPhase = "turn-starting" /\ \A i \in 1..(j - 1) : Answer(i)
            /\ toClient[j].kind \in {"activity", "authority", "completed"} => Told \/ StartedBefore(j)
            /\ toClient[j].kind = "completed" => \A i \in j + 1..Len(toClient) : Answer(i))'
    <3> SUFFICES ASSUME NEW j \in DOMAIN toClient'
                 PROVE  (/\ toClient[j].kind = "started" => sessionPhase = "turn-starting" /\ \A i \in 1..(j - 1) : Answer(i)
                         /\ toClient[j].kind \in {"activity", "authority", "completed"} => Told \/ StartedBefore(j)
                         /\ toClient[j].kind = "completed" => \A i \in j + 1..Len(toClient) : Answer(i))'
      OBVIOUS
    <3>1. /\ toClient[j + 1].kind = "started" => sessionPhase = "turn-starting" /\ \A i \in 1..j : Answer(i)
          /\ toClient[j + 1].kind \in {"activity", "authority", "completed"} => Told \/ StartedBefore(j + 1)
          /\ toClient[j + 1].kind = "completed" => \A i \in j + 2..Len(toClient) : Answer(i)
      BY <2>0, <2>3 DEF NoticesFit
    <3>2. \A i \in 1..(j - 1) : i \in DOMAIN toClient' /\ i + 1 \in 1..j
      BY <1>0, <2>3 DEF HeadTaken
    <3>3. \A i \in j + 1..Len(toClient') : i \in DOMAIN toClient' /\ i + 1 \in j + 2..Len(toClient)
      BY <1>0, <2>3 DEF HeadTaken
    <3> QED
      BY <2>1, <2>3, <2>4, <3>1, <3>2, <3>3
  <2> QED
    BY <2>2, <2>5, <2>6, <2>7 DEF NoticesFit
<1>9. Session!AnswersAreExpected' /\ Session!RefusalsAreRaces'
  BY <1>0 DEF HeadTaken, Session!AnswersAreExpected, Session!RefusalsAreRaces
<1> QED
  BY <1>0, <1>6, <1>7, <1>8, <1>9, AcceptTyped DEF SessionInv, HeadTaken

LEMMA AcceptNotice ==
  ASSUME SessionInv, Session!Accept, toClient[1].kind # "response"
  PROVE  SessionInv'
<1> DEFINE f == toClient[1]
<1>0. SessionTyped /\ AnswersOwed /\ StartStands /\ (stage = "none" => NoticesFit) /\ HeadTaken
  BY AcceptTakes DEF SessionInv, HeadTaken
<1>1. Head(toClient) = f /\ ~Session!Fulfilled(f)
  BY <1>0 DEF SessionTyped, Session!Fulfilled
<1>2. /\ Session!Follows(f) /\ abandoned' = (IF f.kind = "response" THEN abandoned \ {f.of} ELSE abandoned)
      /\ sessionPhase' = (IF Session!Fulfilled(f) /\ Session!Stays(f)
                            THEN IF f.of = "initialize" THEN "initialize-replied" ELSE "thread-ready"
                            ELSE Session!NextPhase(f))
  BY <1>1, Zenon DEF Session!Accept
<1>3. /\ UNCHANGED <<requests, abandoned, toServer>>
      /\ at' = at \/ (at = "activity" /\ at' = "started")
  BY <1>1, <1>2 DEF Session!Follows
<1>4. f.kind \in {"started", "activity", "completed"}
  BY <1>0 DEF HeadTaken, FrameRows, Kinds
<1>5. /\ f.kind = "started" => sessionPhase = "turn-starting" /\ sessionPhase' = "turn-active"
      /\ f.kind = "activity" => sessionPhase = "turn-active" /\ sessionPhase' = "turn-active"
      /\ f.kind = "completed" => sessionPhase \in {"turn-active", "interrupting"} /\ sessionPhase' = "turn-terminal-observed"
  BY <1>0, <1>1, <1>2 DEF HeadTaken, Session!Expects, Session!NextPhase
<1>6. at \notin {"none", "host", "initialize", "thread"} /\ at' \notin {"none", "host", "initialize", "thread"}
  <2>1. at \notin {"none", "host", "initialize", "thread"}
    BY <1>0, <1>4, <1>5 DEF StartStands
  <2> QED
    BY <1>3, <2>1
<1>7. AnswersOwed'
  BY <1>3, AcceptOwes DEF Outstanding
<1>8. StartStands'
  BY <1>0, <1>3, <1>6 DEF StartStands, Outstanding, HeadTaken
<1>9. ASSUME stage = "none" PROVE NoticesFit'
  <2>0. NoticesFit /\ turn \notin {"none", "accepted"} /\ ~Answer(1)
    BY <1>0, <1>4, <1>9 DEF NoticesFit, HeadTaken, Answer
  <2>1. \A j \in DOMAIN toClient' : /\ j + 1 \in DOMAIN toClient /\ toClient'[j] = toClient[j + 1] /\ j \in Nat
                                    /\ Answer(j + 1) => Answer(j)'
    BY <1>0 DEF HeadTaken, Answer
  <2>2. /\ at' # "failed" /\ turn' # "interrupted"
        /\ at' \in {"none", "host", "initialize", "thread"} => turn' = "none"
        /\ at' \in {"turn", "activity", "started"} => sessionPhase' \in {"turn-starting", "turn-active", "turn-terminal-observed"}
        /\ "initialize" \in requests' => at' = "initialize"
        /\ "thread/start" \in requests' => at' = "thread"
        /\ \A i \in DOMAIN toServer' : toServer'[i] = "turn/start" => turn' = "none"
        /\ turn' \notin {"none", "accepted"}
    BY <1>0, <1>3, <1>4, <1>5, <1>6, <2>0 DEF NoticesFit, HeadTaken
  <2>3. f.kind # "completed" => Told'
    BY <1>4, <1>5 DEF Told
  <2>4. f.kind = "completed" => turn' # "active" /\ \A j \in DOMAIN toClient' : Answer(j)'
    <3> SUFFICES ASSUME f.kind = "completed" PROVE turn' # "active" /\ \A j \in DOMAIN toClient' : Answer(j)'
      OBVIOUS
    <3>1. turn' # "active"
      BY <1>0, <2>0 DEF NoticesFit, HeadTaken
    <3>2. \A i \in 2..Len(toClient) : Answer(i)
      BY <1>0, <2>0 DEF NoticesFit, HeadTaken
    <3>3. \A j \in DOMAIN toClient' : j + 1 \in 2..Len(toClient)
      BY <1>0 DEF HeadTaken
    <3> QED
      BY <2>1, <3>1, <3>2, <3>3
  <2>5. (turn = "active" => /\ \A j \in DOMAIN toClient : toClient[j].kind # "completed"
                            /\ Told \/ StartInPipe)'
    <3>1. ASSUME turn' = "active", NEW j \in DOMAIN toClient' PROVE toClient'[j].kind # "completed"
      BY <1>0, <2>0, <2>1, <3>1 DEF NoticesFit, HeadTaken
    <3> QED
      BY <2>3, <2>4, <3>1
  <2>6. (\A j \in DOMAIN toClient :
            /\ toClient[j].kind = "started" => sessionPhase = "turn-starting" /\ \A i \in 1..(j - 1) : Answer(i)
            /\ toClient[j].kind \in {"activity", "authority", "completed"} => Told \/ StartedBefore(j)
            /\ toClient[j].kind = "completed" => \A i \in j + 1..Len(toClient) : Answer(i))'
    <3> SUFFICES ASSUME NEW j \in DOMAIN toClient'
                 PROVE  (/\ toClient[j].kind = "started" => sessionPhase = "turn-starting" /\ \A i \in 1..(j - 1) : Answer(i)
                         /\ toClient[j].kind \in {"activity", "authority", "completed"} => Told \/ StartedBefore(j)
                         /\ toClient[j].kind = "completed" => \A i \in j + 1..Len(toClient) : Answer(i))'
      OBVIOUS
    <3>1. toClient'[j].kind # "started"
      <4>1. 1 \in 1..(j + 1 - 1)
        BY <2>1, <1>0 DEF HeadTaken
      <4> QED
        BY <2>0, <2>1, <4>1 DEF NoticesFit
    <3>2. toClient'[j].kind \in {"activity", "authority", "completed"} => Told'
      BY <2>3, <2>4 DEF Answer
    <3>3. toClient[j + 1].kind = "completed" => \A i \in j + 2..Len(toClient) : Answer(i)
      BY <2>0, <2>1 DEF NoticesFit
    <3>4. \A i \in j + 1..Len(toClient') : i \in DOMAIN toClient' /\ i + 1 \in j + 2..Len(toClient)
      BY <1>0, <2>1 DEF HeadTaken
    <3> QED
      BY <2>1, <3>1, <3>2, <3>3, <3>4
  <2> QED
    BY <2>2, <2>5, <2>6 DEF NoticesFit
<1>10. Session!AnswersAreExpected' /\ Session!RefusalsAreRaces'
  BY <1>0 DEF HeadTaken, Session!AnswersAreExpected, Session!RefusalsAreRaces
<1> QED
  BY <1>0, <1>7, <1>8, <1>9, <1>10, AcceptTyped DEF SessionInv, HeadTaken

LEMMA AcceptKeeps ==
  ASSUME SessionInv, Session!Accept
  PROVE  SessionInv'
<1>1. CASE toClient[1].kind # "response"
  BY <1>1, AcceptNotice
<1>2. CASE /\ toClient[1].kind = "response" /\ toClient[1].of = "initialize"
           /\ "initialize" \in requests /\ at = "initialize"
  BY <1>2, AcceptNext
<1>3. CASE /\ toClient[1].kind = "response" /\ toClient[1].of = "thread/start"
           /\ "thread/start" \in requests /\ at = "thread"
  BY <1>3, AcceptNext
<1> QED
  BY <1>1, <1>2, <1>3, AcceptAnswer

\* A stage of the cleanup that asks the server: what is new is the request.
LEMMA AskedOwes ==
  ASSUME SessionInv, fault = "none", NEW m \in Methods, ~Outstanding(m),
         toServer' = Append(toServer, m), UNCHANGED toClient,
         \A x : Outstanding(x) \/ x = m => Outstanding(x)'
  PROVE  AnswersOwed' /\ toServer' \in Seq(Methods)
<1>0. AnswersOwed /\ SessionTyped
  BY DEF SessionInv
<1>1. /\ toServer' \in Seq(Methods) /\ DOMAIN toServer = 1..Len(toServer) /\ DOMAIN toServer' = 1..(Len(toServer) + 1)
      /\ \A i \in DOMAIN toServer : toServer'[i] = toServer[i]
      /\ toServer'[Len(toServer) + 1] = m
  BY <1>0 DEF SessionTyped
<1>2. \A i \in DOMAIN toServer' : \/ i \in DOMAIN toServer /\ toServer'[i] = toServer[i] /\ toServer'[i] # m
                                  \/ i = Len(toServer) + 1 /\ toServer'[i] = m
  BY <1>0, <1>1 DEF AnswersOwed
<1>3. \A j \in DOMAIN toClient : Answer(j)' = Answer(j)
  BY DEF Answer
<1>4. (\A i \in DOMAIN toServer : Outstanding(toServer[i]))'
  <2> SUFFICES ASSUME NEW i \in DOMAIN toServer' PROVE Outstanding(toServer[i])'
    OBVIOUS
  <2>1. Outstanding(toServer'[i]) \/ toServer'[i] = m
    BY <1>0, <1>2 DEF AnswersOwed
  <2> QED
    BY <2>1 DEF Outstanding
<1>5. (\A j \in DOMAIN toClient : Answer(j) => Outstanding(toClient[j].of))'
  BY <1>0, <1>3 DEF AnswersOwed, Outstanding
<1>6. (\A i, k \in DOMAIN toServer : toServer[i] = toServer[k] => i = k)'
  BY <1>0, <1>2 DEF AnswersOwed
<1>7. (\A j, k \in DOMAIN toClient : Answer(j) /\ Answer(k) /\ toClient[j].of = toClient[k].of => j = k)'
  BY <1>0, <1>3 DEF AnswersOwed
<1>8. (\A i \in DOMAIN toServer, j \in DOMAIN toClient : Answer(j) => toServer[i] # toClient[j].of)'
  BY <1>0, <1>2, <1>3 DEF AnswersOwed
<1> QED
  BY <1>1, <1>4, <1>5, <1>6, <1>7, <1>8 DEF AnswersOwed

LEMMA InterruptKeeps ==
  ASSUME SessionInv, Session!Interrupt
  PROVE  SessionInv'
<1>0. SessionTyped /\ Session!AnswersAreExpected /\ Session!RefusalsAreRaces /\ stage = "interrupt"
  BY DEF SessionInv, Session!Interrupt, Session!Stage
<1>1. CASE ~(host # "none" /\ Session!TurnActive /\ fault = "none")
  <2>1. SilentStep
    BY <1>0, <1>1 DEF Session!Interrupt, Session!Stage, SilentStep, SessionStages, SessionTyped, Session!TypeOK,
      Session!Server
  <2> QED
    BY <2>1, QuietKeeps
<1>2. CASE host # "none" /\ Session!TurnActive /\ fault = "none"
  <2>0. AnswersOwed /\ StartStands
    BY <1>2 DEF SessionInv
  <2>1. /\ stage' = "interrupting" /\ sessionPhase' = "interrupting"
        /\ requests' = requests \union {"turn/interrupt"} /\ toServer' = Append(toServer, "turn/interrupt")
        /\ UNCHANGED <<at, abandoned, fault, toClient, turn, host>>
    BY <1>2 DEF Session!Interrupt, Session!Stage, Session!Request, Session!Server
  <2>2. AnswersOwed' /\ toServer' \in Seq(Methods)
    <3>1. ~Outstanding("turn/interrupt")
      BY <1>0, <2>0 DEF StartStands
    <3>2. \A x : Outstanding(x) \/ x = "turn/interrupt" => Outstanding(x)'
      BY <2>1 DEF Outstanding
    <3> QED
      BY <1>2, <2>1, <3>1, <3>2, AskedOwes DEF Methods
  <2>3. at \notin {"none", "host", "initialize", "thread"}
    BY <1>2, <2>0 DEF StartStands, Session!TurnActive
  <2>4. StartStands'
    BY <1>0, <2>0, <2>1, <2>3 DEF StartStands, Outstanding
  <2>5. SessionTyped'
    BY <1>0, <2>1, <2>2 DEF SessionTyped, Session!TypeOK, Methods
  <2>6. Session!AnswersAreExpected' /\ Session!RefusalsAreRaces'
    BY <1>0, <2>1 DEF Session!AnswersAreExpected, Session!RefusalsAreRaces
  <2> QED
    BY <2>1, <2>2, <2>4, <2>5, <2>6 DEF SessionInv
<1> QED
  BY <1>1, <1>2

LEMMA SettleKeeps ==
  ASSUME SessionInv, Session!Settle
  PROVE  SessionInv'
<1>0. SessionTyped /\ Session!AnswersAreExpected /\ Session!RefusalsAreRaces /\ stage = "settle"
  BY DEF SessionInv, Session!Settle, Session!Stage
<1>1. CASE host = "none" \/ fault # "none"
  <2>1. SilentStep
    BY <1>0, <1>1 DEF Session!Settle, Session!Stage, SilentStep, SessionStages, SessionTyped, Session!TypeOK,
      Session!Server
  <2> QED
    BY <2>1, QuietKeeps
<1>2. CASE host # "none" /\ fault = "none"
  <2>0. AnswersOwed /\ StartStands
    BY <1>2 DEF SessionInv
  <2>1. /\ stage' = "shutdown" /\ abandoned' = abandoned \union requests
        /\ requests' = {"shutdown"} /\ toServer' = Append(toServer, "shutdown")
        /\ at' = (IF at \in {"initialize", "thread", "turn"} THEN "failed" ELSE at)
        /\ UNCHANGED <<fault, toClient, turn, host>>
    BY <1>2 DEF Session!Settle, Session!Stage, Session!Server
  <2>2. AnswersOwed' /\ toServer' \in Seq(Methods)
    <3>1. ~Outstanding("shutdown")
      BY <1>0, <2>0 DEF StartStands
    <3>2. \A x : Outstanding(x) \/ x = "shutdown" => Outstanding(x)'
      BY <2>1 DEF Outstanding
    <3> QED
      BY <1>2, <2>1, <3>1, <3>2, AskedOwes DEF Methods
  <2>3. at \notin {"none", "host"}
    BY <1>2, <2>0 DEF StartStands
  <2>4. StartStands'
    BY <2>1, <2>3 DEF StartStands, Outstanding
  <2>5. SessionTyped'
    BY <1>0, <2>1, <2>2 DEF SessionTyped, Session!TypeOK, Methods
  <2>6. Session!AnswersAreExpected' /\ Session!RefusalsAreRaces'
    BY <1>0, <2>1 DEF Session!AnswersAreExpected, Session!RefusalsAreRaces
  <2> QED
    BY <2>1, <2>2, <2>4, <2>5, <2>6 DEF SessionInv
<1> QED
  BY <1>1, <1>2

LEMMA SessionStep ==
  ASSUME SessionInv, Session!Next \/ UNCHANGED sessionVars
  PROVE  SessionInv'
<1>1. CASE \/ Session!Start \/ Session!HostFails \/ Session!StartTimeout \/ Session!HostExits
           \/ (\E interrupt \in BOOLEAN : Session!Cleanup(interrupt))
           \/ Session!Revoked \/ Session!Interrupted \/ Session!ShutDown \/ Session!StageTimeout
           \/ Session!Terminated \/ Session!Enumerated \/ UNCHANGED sessionVars
  BY <1>1, QuietActions, QuietKeeps
<1>2. CASE Session!HostUp \/ Session!Serve \/ Session!Accept \/ Session!Interrupt \/ Session!Settle
  BY <1>2, HostUpKeeps, ServeKeeps, AcceptKeeps, InterruptKeeps, SettleKeeps
<1>3. CASE Session!Refuse \/ Session!TransportLost
  BY <1>3, FailClientKeeps
<1>4. CASE Session!TurnStarts \/ Session!Notices \/ Session!AsksAuthority \/ Session!TurnEnds
  BY <1>4, EmitKeeps
<1> QED
  BY <1>1, <1>2, <1>3, <1>4 DEF Session!Next, Session!Stages

\* The component that moves keeps its invariant, the other stays where it began.
LEMMA SessionsKept ==
  ASSUME LoginInv, SessionInv, [AllNext]_<<part, vars, loginVars, sessionVars, panelVars>>
  PROVE  LoginInv' /\ SessionInv'
<1>1. Login!Next \/ UNCHANGED loginVars
  BY Zenon DEF AllNext
<1>2. Session!Next \/ UNCHANGED sessionVars
  BY Zenon DEF AllNext
<1> QED
  BY <1>1, <1>2, LoginStep, SessionStep

\* In every behaviour of the parts, for every number of sign-ins and of notices: a
\* tool that runs has the entry of its provider, an answer was asked for, and the
\* client refuses a lawful server only during a cleanup.
THEOREM SessionsAlwaysAgree == AllSpec => []SessionsAgree
<1>1. AllInit => LoginInv /\ SessionInv
  BY LoginInit, SessionInit DEF AllInit
<1>2. LoginInv /\ SessionInv /\ [AllNext]_<<part, vars, loginVars, sessionVars, panelVars>>
        => (LoginInv /\ SessionInv)'
  BY SessionsKept
<1>3. LoginInv /\ SessionInv => SessionsAgree
  <2> SUFFICES ASSUME LoginInv, SessionInv PROVE SessionsAgree
    OBVIOUS
  <2>1. Login!SignInsAreSingle
    BY DEF LoginInv, LoginOrder, EntryLost, Login!SignInsAreSingle, Login!Running
  <2> QED
    BY <2>1 DEF SessionsAgree, LoginInv, SessionInv, SessionTyped
<1> QED
  BY <1>1, <1>2, <1>3, PTL DEF AllSpec
=============================================================================
