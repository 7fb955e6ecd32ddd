--------------------------- MODULE ServicesProofs ---------------------------
(***************************************************************************)
(* Theorems about the services of MCServices, and about the attempts of    *)
(* agents they serve, that hold for every choice of the constants:         *)
(* whatever attempts there are, whichever is the parent of which, and      *)
(* whatever their hosts say; and whatever credentials, packages, files,    *)
(* commits and permissions the services are asked for.                     *)
(***************************************************************************)
EXTENDS AgentAttempts, MCServices, FiniteSetTheorems, TLAPS

-----------------------------------------------------------------------------
(* AgentAttempts *)

(* The invariant *)

\* Nothing is in flight in a backend that is down, and no host is its child.
DownIsIdle ==
    backend = "down" => \A a \in Attempts :
        stage[a] = "idle" /\ run[a] = "none" /\ host[a] # "running"

\* An attempt that is being started has no session yet; one that was started,
\* or has a session, was admitted.
Admitted(a) ==
    /\ stage[a] # "idle" => a \notin live /\ run[a] = "none" /\ host[a] = "none"
    /\ a \in live \/ stage[a] # "idle" \/ run[a] # "none" \/ host[a] # "none" => state[a] # "absent"

\* A lease that can still be consumed is that of a live attempt.
LeaseOfLive(a) ==
    /\ run[a] = "checking" /\ lease[a] = "issued" => a \in live
    /\ settle[a] \in {"release", "finalize"} => lease[a] = "disposed"

\* Past its cleanup a settlement knows of the host that still runs: one that was
\* running is a residual, one that runSession spawned since has a process row.
HostIsKnown(a) ==
    /\ host[a] = "running" /\ settle[a] \in {"dispose", "release", "finalize"} =>
           a \in tracked \/ a \in residual
    /\ settle[a] = "finalize" => host[a] # "running"


LEMMA InitTypeOK == Init => TypeOK
  BY AttemptAssumption DEF Init, TypeOK, AttemptState, Settling, Terminal, Stages, Settlement

\* The children of an attempt are attempts.
LEMMA ChildrenType == TypeOK => \A a : Children(a) \subseteq Attempts
  BY DEF TypeOK, Children

\* Every step keeps the types.
LEMMA StepTypeOK == TypeOK /\ DownIsIdle /\ [Next]_vars => TypeOK'
<1> SUFFICES ASSUME TypeOK /\ DownIsIdle, [Next]_vars PROVE TypeOK'
    OBVIOUS
<1> USE ChildrenType, AttemptAssumption DEF TypeOK, DownIsIdle, AttemptState,
      Settling, Terminal, Stages, Settlement, start, joins, settlement, process
<1>1. ASSUME NEW a \in Attempts, Ask(a) PROVE TypeOK'
      BY <1>1 DEF Ask, MayParent
<1>2. ASSUME NEW a \in Attempts, Admit(a) PROVE TypeOK'
      BY <1>2 DEF Admit
<1>3. ASSUME NEW a \in Attempts, StartOperation(a) PROVE TypeOK'
      BY <1>3 DEF StartOperation
<1>4. ASSUME NEW a \in Attempts, RegisterResource(a) PROVE TypeOK'
      BY <1>4 DEF RegisterResource
<1>5. ASSUME NEW a \in Attempts, GoLive(a) PROVE TypeOK'
      BY <1>5 DEF GoLive
<1>6. ASSUME NEW a \in Attempts, StartFails(a) PROVE TypeOK'
      BY <1>6 DEF StartFails
<1>7. ASSUME NEW a \in Attempts, StartRefused(a) PROVE TypeOK'
      BY <1>7 DEF StartRefused
<1>8. ASSUME NEW a \in Attempts, SessionStart(a) PROVE TypeOK'
      BY <1>8 DEF SessionStart
<1>9. ASSUME NEW a \in Attempts, RunEnds(a) PROVE TypeOK'
      BY <1>9 DEF RunEnds, SessionEnded, BeginCleaning
<1>10. ASSUME NEW a \in Attempts, RunFails(a) PROVE TypeOK'
      BY <1>10 DEF RunFails, SessionEnded, BeginCleaning
<1>11. ASSUME NEW a \in Attempts, OutputEnds(a) PROVE TypeOK'
      BY <1>11 DEF OutputEnds
<1>12. ASSUME NEW a \in Attempts, NEW c \in Attempts, VisitChild(a, c) PROVE TypeOK'
  <2>1. todo' \in [Attempts -> SUBSET Attempts]
        BY <1>12 DEF VisitChild, Joining
  <2>2. CASE state[c] \in Terminal
        BY <1>12, <2>1, <2>2 DEF VisitChild, Joining
  <2>3. CASE state[c] \notin Terminal
        BY <1>12, <2>1, <2>3 DEF VisitChild, Joining
  <2> QED
      BY <2>2, <2>3
<1>13. ASSUME NEW a \in Attempts, ChildSettled(a) PROVE TypeOK'
      BY <1>13 DEF ChildSettled
<1>14. ASSUME NEW a \in Attempts, JoinFails(a) PROVE TypeOK'
      BY <1>14 DEF JoinFails, CleanupFailed, Settled
<1>15. ASSUME NEW a \in Attempts, Joined(a) PROVE TypeOK'
      BY <1>15 DEF Joined, Joining
<1>16. ASSUME NEW a \in Attempts, GraceEnds(a) PROVE TypeOK'
      BY <1>16 DEF GraceEnds
<1>17. ASSUME NEW a \in Attempts, OperationCancelled(a) PROVE TypeOK'
      BY <1>17 DEF OperationCancelled, BeginCleaning
<1>18. ASSUME NEW a \in Attempts, OperationRefuses(a) PROVE TypeOK'
      BY <1>18 DEF OperationRefuses
<1>19. ASSUME NEW a \in Attempts, CleanupReturns(a) PROVE TypeOK'
      BY <1>19 DEF CleanupReturns
<1>20. ASSUME NEW a \in Attempts, Dispose(a) PROVE TypeOK'
      BY <1>20 DEF Dispose
<1>21. ASSUME NEW a \in Attempts, Release(a) PROVE TypeOK'
      BY <1>21 DEF Release, CleanupFailed, Settled
<1>22. ASSUME NEW a \in Attempts, Finalize(a) PROVE TypeOK'
      BY <1>22 DEF Finalize, Settled
<1>23. ASSUME NEW a \in Attempts, CleanFails(a) PROVE TypeOK'
      BY <1>23 DEF CleanFails, CleanupFailed, Settled
<1>24. ASSUME NEW a \in Attempts, HostExits(a) PROVE TypeOK'
      BY <1>24 DEF HostExits
<1>25. ASSUME NEW a \in Attempts, ObserveReady(a) PROVE TypeOK'
      BY <1>25 DEF ObserveReady, Observed
<1>26. ASSUME NEW a \in Attempts, ObserveActivity(a) PROVE TypeOK'
      BY <1>26 DEF ObserveActivity, Observed
<1>27. ASSUME NEW a \in Attempts, NEW what \in {"completed_observed", "failed_observed"}, ObserveEnd(a, what) PROVE TypeOK'
      BY <1>27 DEF ObserveEnd, Observed
<1>28. ASSUME NEW a \in Attempts, ObserveInvalid(a) PROVE TypeOK'
      BY <1>28 DEF ObserveInvalid, Observed, CancelLive
<1>29. ASSUME NEW a \in Attempts, Deadline(a) PROVE TypeOK'
      BY <1>29 DEF Deadline
<1>30. ASSUME NEW a \in Attempts, CancelAttempt(a) PROVE TypeOK'
      BY <1>30 DEF CancelAttempt, CancelLive
<1>31. CASE Crash
      BY <1>31 DEF Crash
<1>32. ASSUME NEW survivors \in SUBSET Attempts, Restart(survivors) PROVE TypeOK'
      BY <1>32 DEF Restart, Interrupted
<1>33. CASE UNCHANGED vars
      BY <1>33 DEF vars
<1> QED
    BY <1>1, <1>2, <1>3, <1>4, <1>5, <1>6, <1>7, <1>8, <1>9, <1>10, <1>11, <1>12,
       <1>13, <1>14, <1>15, <1>16, <1>17, <1>18, <1>19, <1>20, <1>21, <1>22, <1>23,
       <1>24, <1>25, <1>26, <1>27, <1>28, <1>29, <1>30, <1>31, <1>32, <1>33 DEF Next, StartStep, RunStep, SettleStep, Environment

\* While the backend is down nothing starts, runs or has a child.
LEMMA DownStep == TypeOK /\ DownIsIdle /\ [Next]_vars => DownIsIdle'
<1> SUFFICES ASSUME TypeOK /\ DownIsIdle, [Next]_vars PROVE DownIsIdle'
    OBVIOUS
<1> USE DEF TypeOK, DownIsIdle, start, joins, settlement, process
<1>1. ASSUME NEW a \in Attempts, Ask(a) PROVE DownIsIdle'
      BY <1>1 DEF Ask, MayParent
<1>2. ASSUME NEW a \in Attempts, Admit(a) PROVE DownIsIdle'
      BY <1>2 DEF Admit
<1>3. ASSUME NEW a \in Attempts, StartOperation(a) PROVE DownIsIdle'
      BY <1>3 DEF StartOperation
<1>4. ASSUME NEW a \in Attempts, RegisterResource(a) PROVE DownIsIdle'
      BY <1>4 DEF RegisterResource
<1>5. ASSUME NEW a \in Attempts, GoLive(a) PROVE DownIsIdle'
      BY <1>5 DEF GoLive
<1>6. ASSUME NEW a \in Attempts, StartFails(a) PROVE DownIsIdle'
      BY <1>6 DEF StartFails
<1>7. ASSUME NEW a \in Attempts, StartRefused(a) PROVE DownIsIdle'
      BY <1>7 DEF StartRefused
<1>8. ASSUME NEW a \in Attempts, SessionStart(a) PROVE DownIsIdle'
      BY <1>8 DEF SessionStart
<1>9. ASSUME NEW a \in Attempts, RunEnds(a) PROVE DownIsIdle'
      BY <1>9 DEF RunEnds, SessionEnded, BeginCleaning
<1>10. ASSUME NEW a \in Attempts, RunFails(a) PROVE DownIsIdle'
      BY <1>10 DEF RunFails, SessionEnded, BeginCleaning
<1>11. ASSUME NEW a \in Attempts, OutputEnds(a) PROVE DownIsIdle'
      BY <1>11 DEF OutputEnds
<1>12. ASSUME NEW a \in Attempts, NEW c \in Attempts, VisitChild(a, c) PROVE DownIsIdle'
      BY <1>12 DEF VisitChild, Joining
<1>13. ASSUME NEW a \in Attempts, ChildSettled(a) PROVE DownIsIdle'
      BY <1>13 DEF ChildSettled
<1>14. ASSUME NEW a \in Attempts, JoinFails(a) PROVE DownIsIdle'
      BY <1>14 DEF JoinFails, CleanupFailed, Settled
<1>15. ASSUME NEW a \in Attempts, Joined(a) PROVE DownIsIdle'
      BY <1>15 DEF Joined, Joining
<1>16. ASSUME NEW a \in Attempts, GraceEnds(a) PROVE DownIsIdle'
      BY <1>16 DEF GraceEnds
<1>17. ASSUME NEW a \in Attempts, OperationCancelled(a) PROVE DownIsIdle'
      BY <1>17 DEF OperationCancelled, BeginCleaning
<1>18. ASSUME NEW a \in Attempts, OperationRefuses(a) PROVE DownIsIdle'
      BY <1>18 DEF OperationRefuses
<1>19. ASSUME NEW a \in Attempts, CleanupReturns(a) PROVE DownIsIdle'
      BY <1>19 DEF CleanupReturns
<1>20. ASSUME NEW a \in Attempts, Dispose(a) PROVE DownIsIdle'
      BY <1>20 DEF Dispose
<1>21. ASSUME NEW a \in Attempts, Release(a) PROVE DownIsIdle'
      BY <1>21 DEF Release, CleanupFailed, Settled
<1>22. ASSUME NEW a \in Attempts, Finalize(a) PROVE DownIsIdle'
      BY <1>22 DEF Finalize, Settled
<1>23. ASSUME NEW a \in Attempts, CleanFails(a) PROVE DownIsIdle'
      BY <1>23 DEF CleanFails, CleanupFailed, Settled
<1>24. ASSUME NEW a \in Attempts, HostExits(a) PROVE DownIsIdle'
      BY <1>24 DEF HostExits
<1>25. ASSUME NEW a \in Attempts, ObserveReady(a) PROVE DownIsIdle'
      BY <1>25 DEF ObserveReady, Observed
<1>26. ASSUME NEW a \in Attempts, ObserveActivity(a) PROVE DownIsIdle'
      BY <1>26 DEF ObserveActivity, Observed
<1>27. ASSUME NEW a \in Attempts, NEW what \in {"completed_observed", "failed_observed"}, ObserveEnd(a, what) PROVE DownIsIdle'
      BY <1>27 DEF ObserveEnd, Observed
<1>28. ASSUME NEW a \in Attempts, ObserveInvalid(a) PROVE DownIsIdle'
      BY <1>28 DEF ObserveInvalid, Observed, CancelLive
<1>29. ASSUME NEW a \in Attempts, Deadline(a) PROVE DownIsIdle'
      BY <1>29 DEF Deadline
<1>30. ASSUME NEW a \in Attempts, CancelAttempt(a) PROVE DownIsIdle'
      BY <1>30 DEF CancelAttempt, CancelLive
<1>31. CASE Crash
      BY <1>31 DEF Crash
<1>32. ASSUME NEW survivors \in SUBSET Attempts, Restart(survivors) PROVE DownIsIdle'
      BY <1>32 DEF Restart, Interrupted
<1>33. CASE UNCHANGED vars
      BY <1>33 DEF vars
<1> QED
    BY <1>1, <1>2, <1>3, <1>4, <1>5, <1>6, <1>7, <1>8, <1>9, <1>10, <1>11, <1>12,
       <1>13, <1>14, <1>15, <1>16, <1>17, <1>18, <1>19, <1>20, <1>21, <1>22, <1>23,
       <1>24, <1>25, <1>26, <1>27, <1>28, <1>29, <1>30, <1>31, <1>32, <1>33 DEF Next, StartStep, RunStep, SettleStep, Environment

\* Starting, being live and having a session follow one another.
LEMMA AdmittedStep == TypeOK /\ DownIsIdle /\ (\A a \in Attempts : Admitted(a)) /\ [Next]_vars => \A x \in Attempts : Admitted(x)'
<1> SUFFICES ASSUME TypeOK /\ DownIsIdle /\ (\A a \in Attempts : Admitted(a)), [Next]_vars, NEW x \in Attempts PROVE Admitted(x)'
    OBVIOUS
<1> USE DEF TypeOK, DownIsIdle, Admitted, AttemptState, Settling, Terminal, start,
      joins, settlement, process
<1>1. ASSUME NEW a \in Attempts, Ask(a) PROVE Admitted(x)'
      BY <1>1 DEF Ask, MayParent
<1>2. ASSUME NEW a \in Attempts, Admit(a) PROVE Admitted(x)'
      BY <1>2 DEF Admit
<1>3. ASSUME NEW a \in Attempts, StartOperation(a) PROVE Admitted(x)'
      BY <1>3 DEF StartOperation
<1>4. ASSUME NEW a \in Attempts, RegisterResource(a) PROVE Admitted(x)'
      BY <1>4 DEF RegisterResource
<1>5. ASSUME NEW a \in Attempts, GoLive(a) PROVE Admitted(x)'
      BY <1>5 DEF GoLive
<1>6. ASSUME NEW a \in Attempts, StartFails(a) PROVE Admitted(x)'
      BY <1>6 DEF StartFails
<1>7. ASSUME NEW a \in Attempts, StartRefused(a) PROVE Admitted(x)'
      BY <1>7 DEF StartRefused
<1>8. ASSUME NEW a \in Attempts, SessionStart(a) PROVE Admitted(x)'
      BY <1>8 DEF SessionStart
<1>9. ASSUME NEW a \in Attempts, RunEnds(a) PROVE Admitted(x)'
      BY <1>9 DEF RunEnds, SessionEnded, BeginCleaning
<1>10. ASSUME NEW a \in Attempts, RunFails(a) PROVE Admitted(x)'
      BY <1>10 DEF RunFails, SessionEnded, BeginCleaning
<1>11. ASSUME NEW a \in Attempts, OutputEnds(a) PROVE Admitted(x)'
      BY <1>11 DEF OutputEnds
<1>12. ASSUME NEW a \in Attempts, NEW c \in Attempts, VisitChild(a, c) PROVE Admitted(x)'
      BY <1>12 DEF VisitChild, Joining
<1>13. ASSUME NEW a \in Attempts, ChildSettled(a) PROVE Admitted(x)'
      BY <1>13 DEF ChildSettled
<1>14. ASSUME NEW a \in Attempts, JoinFails(a) PROVE Admitted(x)'
      BY <1>14 DEF JoinFails, CleanupFailed, Settled
<1>15. ASSUME NEW a \in Attempts, Joined(a) PROVE Admitted(x)'
      BY <1>15 DEF Joined, Joining
<1>16. ASSUME NEW a \in Attempts, GraceEnds(a) PROVE Admitted(x)'
      BY <1>16 DEF GraceEnds
<1>17. ASSUME NEW a \in Attempts, OperationCancelled(a) PROVE Admitted(x)'
      BY <1>17 DEF OperationCancelled, BeginCleaning
<1>18. ASSUME NEW a \in Attempts, OperationRefuses(a) PROVE Admitted(x)'
      BY <1>18 DEF OperationRefuses
<1>19. ASSUME NEW a \in Attempts, CleanupReturns(a) PROVE Admitted(x)'
      BY <1>19 DEF CleanupReturns
<1>20. ASSUME NEW a \in Attempts, Dispose(a) PROVE Admitted(x)'
      BY <1>20 DEF Dispose
<1>21. ASSUME NEW a \in Attempts, Release(a) PROVE Admitted(x)'
      BY <1>21 DEF Release, CleanupFailed, Settled
<1>22. ASSUME NEW a \in Attempts, Finalize(a) PROVE Admitted(x)'
      BY <1>22 DEF Finalize, Settled
<1>23. ASSUME NEW a \in Attempts, CleanFails(a) PROVE Admitted(x)'
      BY <1>23 DEF CleanFails, CleanupFailed, Settled
<1>24. ASSUME NEW a \in Attempts, HostExits(a) PROVE Admitted(x)'
      BY <1>24 DEF HostExits
<1>25. ASSUME NEW a \in Attempts, ObserveReady(a) PROVE Admitted(x)'
      BY <1>25 DEF ObserveReady, Observed
<1>26. ASSUME NEW a \in Attempts, ObserveActivity(a) PROVE Admitted(x)'
      BY <1>26 DEF ObserveActivity, Observed
<1>27. ASSUME NEW a \in Attempts, NEW what \in {"completed_observed", "failed_observed"}, ObserveEnd(a, what) PROVE Admitted(x)'
      BY <1>27 DEF ObserveEnd, Observed
<1>28. ASSUME NEW a \in Attempts, ObserveInvalid(a) PROVE Admitted(x)'
      BY <1>28 DEF ObserveInvalid, Observed, CancelLive
<1>29. ASSUME NEW a \in Attempts, Deadline(a) PROVE Admitted(x)'
      BY <1>29 DEF Deadline
<1>30. ASSUME NEW a \in Attempts, CancelAttempt(a) PROVE Admitted(x)'
      BY <1>30 DEF CancelAttempt, CancelLive
<1>31. CASE Crash
      BY <1>31 DEF Crash
<1>32. ASSUME NEW survivors \in SUBSET Attempts, Restart(survivors) PROVE Admitted(x)'
      BY <1>32 DEF Restart, Interrupted
<1>33. CASE UNCHANGED vars
      BY <1>33 DEF vars
<1> QED
    BY <1>1, <1>2, <1>3, <1>4, <1>5, <1>6, <1>7, <1>8, <1>9, <1>10, <1>11, <1>12,
       <1>13, <1>14, <1>15, <1>16, <1>17, <1>18, <1>19, <1>20, <1>21, <1>22, <1>23,
       <1>24, <1>25, <1>26, <1>27, <1>28, <1>29, <1>30, <1>31, <1>32, <1>33 DEF Next, StartStep, RunStep, SettleStep, Environment

\* A settlement disposes the lease before the attempt leaves the live map.
LEMMA LeaseStep == TypeOK /\ DownIsIdle /\ (\A a \in Attempts : Admitted(a) /\ LeaseOfLive(a)) /\ [Next]_vars => \A x \in Attempts : LeaseOfLive(x)'
<1> SUFFICES ASSUME TypeOK /\ DownIsIdle /\ (\A a \in Attempts : Admitted(a) /\ LeaseOfLive(a)), [Next]_vars, NEW x \in Attempts PROVE LeaseOfLive(x)'
    OBVIOUS
<1> USE DEF TypeOK, DownIsIdle, Admitted, LeaseOfLive, start, joins, settlement,
      process
<1>1. ASSUME NEW a \in Attempts, Ask(a) PROVE LeaseOfLive(x)'
      BY <1>1 DEF Ask, MayParent
<1>2. ASSUME NEW a \in Attempts, Admit(a) PROVE LeaseOfLive(x)'
      BY <1>2 DEF Admit
<1>3. ASSUME NEW a \in Attempts, StartOperation(a) PROVE LeaseOfLive(x)'
      BY <1>3 DEF StartOperation
<1>4. ASSUME NEW a \in Attempts, RegisterResource(a) PROVE LeaseOfLive(x)'
      BY <1>4 DEF RegisterResource
<1>5. ASSUME NEW a \in Attempts, GoLive(a) PROVE LeaseOfLive(x)'
      BY <1>5 DEF GoLive
<1>6. ASSUME NEW a \in Attempts, StartFails(a) PROVE LeaseOfLive(x)'
      BY <1>6 DEF StartFails
<1>7. ASSUME NEW a \in Attempts, StartRefused(a) PROVE LeaseOfLive(x)'
      BY <1>7 DEF StartRefused
<1>8. ASSUME NEW a \in Attempts, SessionStart(a) PROVE LeaseOfLive(x)'
      BY <1>8 DEF SessionStart
<1>9. ASSUME NEW a \in Attempts, RunEnds(a) PROVE LeaseOfLive(x)'
      BY <1>9 DEF RunEnds, SessionEnded, BeginCleaning
<1>10. ASSUME NEW a \in Attempts, RunFails(a) PROVE LeaseOfLive(x)'
      BY <1>10 DEF RunFails, SessionEnded, BeginCleaning
<1>11. ASSUME NEW a \in Attempts, OutputEnds(a) PROVE LeaseOfLive(x)'
      BY <1>11 DEF OutputEnds
<1>12. ASSUME NEW a \in Attempts, NEW c \in Attempts, VisitChild(a, c) PROVE LeaseOfLive(x)'
      BY <1>12 DEF VisitChild, Joining
<1>13. ASSUME NEW a \in Attempts, ChildSettled(a) PROVE LeaseOfLive(x)'
      BY <1>13 DEF ChildSettled
<1>14. ASSUME NEW a \in Attempts, JoinFails(a) PROVE LeaseOfLive(x)'
      BY <1>14 DEF JoinFails, CleanupFailed, Settled
<1>15. ASSUME NEW a \in Attempts, Joined(a) PROVE LeaseOfLive(x)'
      BY <1>15 DEF Joined, Joining
<1>16. ASSUME NEW a \in Attempts, GraceEnds(a) PROVE LeaseOfLive(x)'
      BY <1>16 DEF GraceEnds
<1>17. ASSUME NEW a \in Attempts, OperationCancelled(a) PROVE LeaseOfLive(x)'
      BY <1>17 DEF OperationCancelled, BeginCleaning
<1>18. ASSUME NEW a \in Attempts, OperationRefuses(a) PROVE LeaseOfLive(x)'
      BY <1>18 DEF OperationRefuses
<1>19. ASSUME NEW a \in Attempts, CleanupReturns(a) PROVE LeaseOfLive(x)'
      BY <1>19 DEF CleanupReturns
<1>20. ASSUME NEW a \in Attempts, Dispose(a) PROVE LeaseOfLive(x)'
      BY <1>20 DEF Dispose
<1>21. ASSUME NEW a \in Attempts, Release(a) PROVE LeaseOfLive(x)'
      BY <1>21 DEF Release, CleanupFailed, Settled
<1>22. ASSUME NEW a \in Attempts, Finalize(a) PROVE LeaseOfLive(x)'
      BY <1>22 DEF Finalize, Settled
<1>23. ASSUME NEW a \in Attempts, CleanFails(a) PROVE LeaseOfLive(x)'
      BY <1>23 DEF CleanFails, CleanupFailed, Settled
<1>24. ASSUME NEW a \in Attempts, HostExits(a) PROVE LeaseOfLive(x)'
      BY <1>24 DEF HostExits
<1>25. ASSUME NEW a \in Attempts, ObserveReady(a) PROVE LeaseOfLive(x)'
      BY <1>25 DEF ObserveReady, Observed
<1>26. ASSUME NEW a \in Attempts, ObserveActivity(a) PROVE LeaseOfLive(x)'
      BY <1>26 DEF ObserveActivity, Observed
<1>27. ASSUME NEW a \in Attempts, NEW what \in {"completed_observed", "failed_observed"}, ObserveEnd(a, what) PROVE LeaseOfLive(x)'
      BY <1>27 DEF ObserveEnd, Observed
<1>28. ASSUME NEW a \in Attempts, ObserveInvalid(a) PROVE LeaseOfLive(x)'
      BY <1>28 DEF ObserveInvalid, Observed, CancelLive
<1>29. ASSUME NEW a \in Attempts, Deadline(a) PROVE LeaseOfLive(x)'
      BY <1>29 DEF Deadline
<1>30. ASSUME NEW a \in Attempts, CancelAttempt(a) PROVE LeaseOfLive(x)'
      BY <1>30 DEF CancelAttempt, CancelLive
<1>31. CASE Crash
      BY <1>31 DEF Crash
<1>32. ASSUME NEW survivors \in SUBSET Attempts, Restart(survivors) PROVE LeaseOfLive(x)'
      BY <1>32 DEF Restart, Interrupted
<1>33. CASE UNCHANGED vars
      BY <1>33 DEF vars
<1> QED
    BY <1>1, <1>2, <1>3, <1>4, <1>5, <1>6, <1>7, <1>8, <1>9, <1>10, <1>11, <1>12,
       <1>13, <1>14, <1>15, <1>16, <1>17, <1>18, <1>19, <1>20, <1>21, <1>22, <1>23,
       <1>24, <1>25, <1>26, <1>27, <1>28, <1>29, <1>30, <1>31, <1>32, <1>33 DEF Next, StartStep, RunStep, SettleStep, Environment

\* The cleanup and the process row together see every host of a settlement.
LEMMA HostStep == TypeOK /\ DownIsIdle /\ (\A a \in Attempts : Admitted(a) /\ LeaseOfLive(a) /\ HostIsKnown(a)) /\ [Next]_vars => \A x \in Attempts : HostIsKnown(x)'
<1> SUFFICES ASSUME TypeOK /\ DownIsIdle /\ (\A a \in Attempts : Admitted(a) /\ LeaseOfLive(a) /\ HostIsKnown(a)), [Next]_vars, NEW x \in Attempts PROVE HostIsKnown(x)'
    OBVIOUS
<1> USE DEF TypeOK, DownIsIdle, Admitted, LeaseOfLive, HostIsKnown, start, joins,
      settlement, process
<1>1. ASSUME NEW a \in Attempts, Ask(a) PROVE HostIsKnown(x)'
      BY <1>1 DEF Ask, MayParent
<1>2. ASSUME NEW a \in Attempts, Admit(a) PROVE HostIsKnown(x)'
      BY <1>2 DEF Admit
<1>3. ASSUME NEW a \in Attempts, StartOperation(a) PROVE HostIsKnown(x)'
      BY <1>3 DEF StartOperation
<1>4. ASSUME NEW a \in Attempts, RegisterResource(a) PROVE HostIsKnown(x)'
      BY <1>4 DEF RegisterResource
<1>5. ASSUME NEW a \in Attempts, GoLive(a) PROVE HostIsKnown(x)'
      BY <1>5 DEF GoLive
<1>6. ASSUME NEW a \in Attempts, StartFails(a) PROVE HostIsKnown(x)'
      BY <1>6 DEF StartFails
<1>7. ASSUME NEW a \in Attempts, StartRefused(a) PROVE HostIsKnown(x)'
      BY <1>7 DEF StartRefused
<1>8. ASSUME NEW a \in Attempts, SessionStart(a) PROVE HostIsKnown(x)'
      BY <1>8 DEF SessionStart
<1>9. ASSUME NEW a \in Attempts, RunEnds(a) PROVE HostIsKnown(x)'
      BY <1>9 DEF RunEnds, SessionEnded, BeginCleaning
<1>10. ASSUME NEW a \in Attempts, RunFails(a) PROVE HostIsKnown(x)'
      BY <1>10 DEF RunFails, SessionEnded, BeginCleaning
<1>11. ASSUME NEW a \in Attempts, OutputEnds(a) PROVE HostIsKnown(x)'
      BY <1>11 DEF OutputEnds
<1>12. ASSUME NEW a \in Attempts, NEW c \in Attempts, VisitChild(a, c) PROVE HostIsKnown(x)'
      BY <1>12 DEF VisitChild, Joining
<1>13. ASSUME NEW a \in Attempts, ChildSettled(a) PROVE HostIsKnown(x)'
      BY <1>13 DEF ChildSettled
<1>14. ASSUME NEW a \in Attempts, JoinFails(a) PROVE HostIsKnown(x)'
      BY <1>14 DEF JoinFails, CleanupFailed, Settled
<1>15. ASSUME NEW a \in Attempts, Joined(a) PROVE HostIsKnown(x)'
      BY <1>15 DEF Joined, Joining
<1>16. ASSUME NEW a \in Attempts, GraceEnds(a) PROVE HostIsKnown(x)'
      BY <1>16 DEF GraceEnds
<1>17. ASSUME NEW a \in Attempts, OperationCancelled(a) PROVE HostIsKnown(x)'
      BY <1>17 DEF OperationCancelled, BeginCleaning
<1>18. ASSUME NEW a \in Attempts, OperationRefuses(a) PROVE HostIsKnown(x)'
      BY <1>18 DEF OperationRefuses
<1>19. ASSUME NEW a \in Attempts, CleanupReturns(a) PROVE HostIsKnown(x)'
      BY <1>19 DEF CleanupReturns
<1>20. ASSUME NEW a \in Attempts, Dispose(a) PROVE HostIsKnown(x)'
      BY <1>20 DEF Dispose
<1>21. ASSUME NEW a \in Attempts, Release(a) PROVE HostIsKnown(x)'
      BY <1>21 DEF Release, CleanupFailed, Settled
<1>22. ASSUME NEW a \in Attempts, Finalize(a) PROVE HostIsKnown(x)'
      BY <1>22 DEF Finalize, Settled
<1>23. ASSUME NEW a \in Attempts, CleanFails(a) PROVE HostIsKnown(x)'
      BY <1>23 DEF CleanFails, CleanupFailed, Settled
<1>24. ASSUME NEW a \in Attempts, HostExits(a) PROVE HostIsKnown(x)'
      BY <1>24 DEF HostExits
<1>25. ASSUME NEW a \in Attempts, ObserveReady(a) PROVE HostIsKnown(x)'
      BY <1>25 DEF ObserveReady, Observed
<1>26. ASSUME NEW a \in Attempts, ObserveActivity(a) PROVE HostIsKnown(x)'
      BY <1>26 DEF ObserveActivity, Observed
<1>27. ASSUME NEW a \in Attempts, NEW what \in {"completed_observed", "failed_observed"}, ObserveEnd(a, what) PROVE HostIsKnown(x)'
      BY <1>27 DEF ObserveEnd, Observed
<1>28. ASSUME NEW a \in Attempts, ObserveInvalid(a) PROVE HostIsKnown(x)'
      BY <1>28 DEF ObserveInvalid, Observed, CancelLive
<1>29. ASSUME NEW a \in Attempts, Deadline(a) PROVE HostIsKnown(x)'
      BY <1>29 DEF Deadline
<1>30. ASSUME NEW a \in Attempts, CancelAttempt(a) PROVE HostIsKnown(x)'
      BY <1>30 DEF CancelAttempt, CancelLive
<1>31. CASE Crash
      BY <1>31 DEF Crash
<1>32. ASSUME NEW survivors \in SUBSET Attempts, Restart(survivors) PROVE HostIsKnown(x)'
      BY <1>32 DEF Restart, Interrupted
<1>33. CASE UNCHANGED vars
      BY <1>33 DEF vars
<1> QED
    BY <1>1, <1>2, <1>3, <1>4, <1>5, <1>6, <1>7, <1>8, <1>9, <1>10, <1>11, <1>12,
       <1>13, <1>14, <1>15, <1>16, <1>17, <1>18, <1>19, <1>20, <1>21, <1>22, <1>23,
       <1>24, <1>25, <1>26, <1>27, <1>28, <1>29, <1>30, <1>31, <1>32, <1>33 DEF Next, StartStep, RunStep, SettleStep, Environment

\* No host is left running without its attempt and without blocking admission.
LEMMA UnownedStep == TypeOK /\ DownIsIdle /\ UnownedHostBlocks /\ (\A a \in Attempts : Admitted(a) /\ LeaseOfLive(a) /\ HostIsKnown(a)) /\ [Next]_vars => UnownedHostBlocks'
<1> SUFFICES ASSUME TypeOK /\ DownIsIdle /\ UnownedHostBlocks /\ (\A a \in Attempts : Admitted(a) /\ LeaseOfLive(a) /\ HostIsKnown(a)), [Next]_vars PROVE UnownedHostBlocks'
    OBVIOUS
<1> USE DEF TypeOK, DownIsIdle, UnownedHostBlocks, Admitted, LeaseOfLive,
      HostIsKnown, start, joins, settlement, process
<1>1. ASSUME NEW a \in Attempts, Ask(a) PROVE UnownedHostBlocks'
      BY <1>1 DEF Ask, MayParent
<1>2. ASSUME NEW a \in Attempts, Admit(a) PROVE UnownedHostBlocks'
      BY <1>2 DEF Admit
<1>3. ASSUME NEW a \in Attempts, StartOperation(a) PROVE UnownedHostBlocks'
      BY <1>3 DEF StartOperation
<1>4. ASSUME NEW a \in Attempts, RegisterResource(a) PROVE UnownedHostBlocks'
      BY <1>4 DEF RegisterResource
<1>5. ASSUME NEW a \in Attempts, GoLive(a) PROVE UnownedHostBlocks'
      BY <1>5 DEF GoLive
<1>6. ASSUME NEW a \in Attempts, StartFails(a) PROVE UnownedHostBlocks'
      BY <1>6 DEF StartFails
<1>7. ASSUME NEW a \in Attempts, StartRefused(a) PROVE UnownedHostBlocks'
      BY <1>7 DEF StartRefused
<1>8. ASSUME NEW a \in Attempts, SessionStart(a) PROVE UnownedHostBlocks'
      BY <1>8 DEF SessionStart
<1>9. ASSUME NEW a \in Attempts, RunEnds(a) PROVE UnownedHostBlocks'
      BY <1>9 DEF RunEnds, SessionEnded, BeginCleaning
<1>10. ASSUME NEW a \in Attempts, RunFails(a) PROVE UnownedHostBlocks'
      BY <1>10 DEF RunFails, SessionEnded, BeginCleaning
<1>11. ASSUME NEW a \in Attempts, OutputEnds(a) PROVE UnownedHostBlocks'
      BY <1>11 DEF OutputEnds
<1>12. ASSUME NEW a \in Attempts, NEW c \in Attempts, VisitChild(a, c) PROVE UnownedHostBlocks'
      BY <1>12 DEF VisitChild, Joining
<1>13. ASSUME NEW a \in Attempts, ChildSettled(a) PROVE UnownedHostBlocks'
      BY <1>13 DEF ChildSettled
<1>14. ASSUME NEW a \in Attempts, JoinFails(a) PROVE UnownedHostBlocks'
      BY <1>14 DEF JoinFails, CleanupFailed, Settled
<1>15. ASSUME NEW a \in Attempts, Joined(a) PROVE UnownedHostBlocks'
      BY <1>15 DEF Joined, Joining
<1>16. ASSUME NEW a \in Attempts, GraceEnds(a) PROVE UnownedHostBlocks'
      BY <1>16 DEF GraceEnds
<1>17. ASSUME NEW a \in Attempts, OperationCancelled(a) PROVE UnownedHostBlocks'
      BY <1>17 DEF OperationCancelled, BeginCleaning
<1>18. ASSUME NEW a \in Attempts, OperationRefuses(a) PROVE UnownedHostBlocks'
      BY <1>18 DEF OperationRefuses
<1>19. ASSUME NEW a \in Attempts, CleanupReturns(a) PROVE UnownedHostBlocks'
      BY <1>19 DEF CleanupReturns
<1>20. ASSUME NEW a \in Attempts, Dispose(a) PROVE UnownedHostBlocks'
      BY <1>20 DEF Dispose
<1>21. ASSUME NEW a \in Attempts, Release(a) PROVE UnownedHostBlocks'
      BY <1>21 DEF Release, CleanupFailed, Settled
<1>22. ASSUME NEW a \in Attempts, Finalize(a) PROVE UnownedHostBlocks'
      BY <1>22 DEF Finalize, Settled
<1>23. ASSUME NEW a \in Attempts, CleanFails(a) PROVE UnownedHostBlocks'
      BY <1>23 DEF CleanFails, CleanupFailed, Settled
<1>24. ASSUME NEW a \in Attempts, HostExits(a) PROVE UnownedHostBlocks'
      BY <1>24 DEF HostExits
<1>25. ASSUME NEW a \in Attempts, ObserveReady(a) PROVE UnownedHostBlocks'
      BY <1>25 DEF ObserveReady, Observed
<1>26. ASSUME NEW a \in Attempts, ObserveActivity(a) PROVE UnownedHostBlocks'
      BY <1>26 DEF ObserveActivity, Observed
<1>27. ASSUME NEW a \in Attempts, NEW what \in {"completed_observed", "failed_observed"}, ObserveEnd(a, what) PROVE UnownedHostBlocks'
      BY <1>27 DEF ObserveEnd, Observed
<1>28. ASSUME NEW a \in Attempts, ObserveInvalid(a) PROVE UnownedHostBlocks'
      BY <1>28 DEF ObserveInvalid, Observed, CancelLive
<1>29. ASSUME NEW a \in Attempts, Deadline(a) PROVE UnownedHostBlocks'
      BY <1>29 DEF Deadline
<1>30. ASSUME NEW a \in Attempts, CancelAttempt(a) PROVE UnownedHostBlocks'
      BY <1>30 DEF CancelAttempt, CancelLive
<1>31. CASE Crash
      BY <1>31 DEF Crash
<1>32. ASSUME NEW survivors \in SUBSET Attempts, Restart(survivors) PROVE UnownedHostBlocks'
      BY <1>32 DEF Restart, Interrupted
<1>33. CASE UNCHANGED vars
      BY <1>33 DEF vars
<1> QED
    BY <1>1, <1>2, <1>3, <1>4, <1>5, <1>6, <1>7, <1>8, <1>9, <1>10, <1>11, <1>12,
       <1>13, <1>14, <1>15, <1>16, <1>17, <1>18, <1>19, <1>20, <1>21, <1>22, <1>23,
       <1>24, <1>25, <1>26, <1>27, <1>28, <1>29, <1>30, <1>31, <1>32, <1>33 DEF Next, StartStep, RunStep, SettleStep, Environment

\* The whole invariant.
IInv ==
    /\ TypeOK /\ DownIsIdle /\ UnownedHostBlocks
    /\ \A a \in Attempts : Admitted(a) /\ LeaseOfLive(a) /\ HostIsKnown(a)

LEMMA InitIInv == Init => IInv
<1> SUFFICES ASSUME Init PROVE IInv
    OBVIOUS
<1>1. TypeOK
      BY InitTypeOK
<1> QED
    BY <1>1 DEF Init, IInv, DownIsIdle, UnownedHostBlocks, Admitted, LeaseOfLive, HostIsKnown

LEMMA StepIInv == IInv /\ [Next]_vars => IInv'
<1> SUFFICES ASSUME IInv, [Next]_vars PROVE IInv'
    OBVIOUS
<1>1. TypeOK' /\ DownIsIdle' /\ UnownedHostBlocks'
      BY StepTypeOK, DownStep, UnownedStep DEF IInv
<1>2. \A a \in Attempts : Admitted(a)' /\ LeaseOfLive(a)' /\ HostIsKnown(a)'
      BY AdmittedStep, LeaseStep, HostStep DEF IInv
<1> QED
    BY <1>1, <1>2 DEF IInv

(* Theorems *)

\* The rows and the memory keep their types, and what is in flight belongs to a
\* backend that runs, through any crash and restart.
THEOREM TypeCorrect == Spec => []TypeOK
<1>1. IInv => TypeOK
      BY DEF IInv
<1> QED
    BY <1>1, InitIInv, StepIInv, PTL DEF Spec

\* A host that runs and that no settlement can reach any more keeps admission
\* blocked: the settlement that left it behind has failed, even when runSession
\* spawned it in the middle of that settlement.
THEOREM UnownedHosts == Spec => []UnownedHostBlocks
<1>1. IInv => UnownedHostBlocks
      BY DEF IInv
<1> QED
    BY <1>1, InitIInv, StepIInv, PTL DEF Spec

\* Only session.start spawns, and only with a lease it can consume.
LEMMA SpawnStep == IInv /\ [Next]_vars => \A x \in Attempts : (host[x] = "none" /\ host'[x] = "running" => x \in live')
<1> SUFFICES ASSUME IInv, [Next]_vars, NEW x \in Attempts PROVE (host[x] = "none" /\ host'[x] = "running" => x \in live')
    OBVIOUS
<1> USE DEF IInv, TypeOK, LeaseOfLive, start, joins, settlement, process
<1>1. ASSUME NEW a \in Attempts, Ask(a) PROVE (host[x] = "none" /\ host'[x] = "running" => x \in live')
      BY <1>1 DEF Ask, MayParent
<1>2. ASSUME NEW a \in Attempts, Admit(a) PROVE (host[x] = "none" /\ host'[x] = "running" => x \in live')
      BY <1>2 DEF Admit
<1>3. ASSUME NEW a \in Attempts, StartOperation(a) PROVE (host[x] = "none" /\ host'[x] = "running" => x \in live')
      BY <1>3 DEF StartOperation
<1>4. ASSUME NEW a \in Attempts, RegisterResource(a) PROVE (host[x] = "none" /\ host'[x] = "running" => x \in live')
      BY <1>4 DEF RegisterResource
<1>5. ASSUME NEW a \in Attempts, GoLive(a) PROVE (host[x] = "none" /\ host'[x] = "running" => x \in live')
      BY <1>5 DEF GoLive
<1>6. ASSUME NEW a \in Attempts, StartFails(a) PROVE (host[x] = "none" /\ host'[x] = "running" => x \in live')
      BY <1>6 DEF StartFails
<1>7. ASSUME NEW a \in Attempts, StartRefused(a) PROVE (host[x] = "none" /\ host'[x] = "running" => x \in live')
      BY <1>7 DEF StartRefused
<1>8. ASSUME NEW a \in Attempts, SessionStart(a) PROVE (host[x] = "none" /\ host'[x] = "running" => x \in live')
      BY <1>8 DEF SessionStart
<1>9. ASSUME NEW a \in Attempts, RunEnds(a) PROVE (host[x] = "none" /\ host'[x] = "running" => x \in live')
      BY <1>9 DEF RunEnds, SessionEnded, BeginCleaning
<1>10. ASSUME NEW a \in Attempts, RunFails(a) PROVE (host[x] = "none" /\ host'[x] = "running" => x \in live')
      BY <1>10 DEF RunFails, SessionEnded, BeginCleaning
<1>11. ASSUME NEW a \in Attempts, OutputEnds(a) PROVE (host[x] = "none" /\ host'[x] = "running" => x \in live')
      BY <1>11 DEF OutputEnds
<1>12. ASSUME NEW a \in Attempts, NEW c \in Attempts, VisitChild(a, c) PROVE (host[x] = "none" /\ host'[x] = "running" => x \in live')
      BY <1>12 DEF VisitChild, Joining
<1>13. ASSUME NEW a \in Attempts, ChildSettled(a) PROVE (host[x] = "none" /\ host'[x] = "running" => x \in live')
      BY <1>13 DEF ChildSettled
<1>14. ASSUME NEW a \in Attempts, JoinFails(a) PROVE (host[x] = "none" /\ host'[x] = "running" => x \in live')
      BY <1>14 DEF JoinFails, CleanupFailed, Settled
<1>15. ASSUME NEW a \in Attempts, Joined(a) PROVE (host[x] = "none" /\ host'[x] = "running" => x \in live')
      BY <1>15 DEF Joined, Joining
<1>16. ASSUME NEW a \in Attempts, GraceEnds(a) PROVE (host[x] = "none" /\ host'[x] = "running" => x \in live')
      BY <1>16 DEF GraceEnds
<1>17. ASSUME NEW a \in Attempts, OperationCancelled(a) PROVE (host[x] = "none" /\ host'[x] = "running" => x \in live')
      BY <1>17 DEF OperationCancelled, BeginCleaning
<1>18. ASSUME NEW a \in Attempts, OperationRefuses(a) PROVE (host[x] = "none" /\ host'[x] = "running" => x \in live')
      BY <1>18 DEF OperationRefuses
<1>19. ASSUME NEW a \in Attempts, CleanupReturns(a) PROVE (host[x] = "none" /\ host'[x] = "running" => x \in live')
      BY <1>19 DEF CleanupReturns
<1>20. ASSUME NEW a \in Attempts, Dispose(a) PROVE (host[x] = "none" /\ host'[x] = "running" => x \in live')
      BY <1>20 DEF Dispose
<1>21. ASSUME NEW a \in Attempts, Release(a) PROVE (host[x] = "none" /\ host'[x] = "running" => x \in live')
      BY <1>21 DEF Release, CleanupFailed, Settled
<1>22. ASSUME NEW a \in Attempts, Finalize(a) PROVE (host[x] = "none" /\ host'[x] = "running" => x \in live')
      BY <1>22 DEF Finalize, Settled
<1>23. ASSUME NEW a \in Attempts, CleanFails(a) PROVE (host[x] = "none" /\ host'[x] = "running" => x \in live')
      BY <1>23 DEF CleanFails, CleanupFailed, Settled
<1>24. ASSUME NEW a \in Attempts, HostExits(a) PROVE (host[x] = "none" /\ host'[x] = "running" => x \in live')
      BY <1>24 DEF HostExits
<1>25. ASSUME NEW a \in Attempts, ObserveReady(a) PROVE (host[x] = "none" /\ host'[x] = "running" => x \in live')
      BY <1>25 DEF ObserveReady, Observed
<1>26. ASSUME NEW a \in Attempts, ObserveActivity(a) PROVE (host[x] = "none" /\ host'[x] = "running" => x \in live')
      BY <1>26 DEF ObserveActivity, Observed
<1>27. ASSUME NEW a \in Attempts, NEW what \in {"completed_observed", "failed_observed"}, ObserveEnd(a, what) PROVE (host[x] = "none" /\ host'[x] = "running" => x \in live')
      BY <1>27 DEF ObserveEnd, Observed
<1>28. ASSUME NEW a \in Attempts, ObserveInvalid(a) PROVE (host[x] = "none" /\ host'[x] = "running" => x \in live')
      BY <1>28 DEF ObserveInvalid, Observed, CancelLive
<1>29. ASSUME NEW a \in Attempts, Deadline(a) PROVE (host[x] = "none" /\ host'[x] = "running" => x \in live')
      BY <1>29 DEF Deadline
<1>30. ASSUME NEW a \in Attempts, CancelAttempt(a) PROVE (host[x] = "none" /\ host'[x] = "running" => x \in live')
      BY <1>30 DEF CancelAttempt, CancelLive
<1>31. CASE Crash
      BY <1>31 DEF Crash
<1>32. ASSUME NEW survivors \in SUBSET Attempts, Restart(survivors) PROVE (host[x] = "none" /\ host'[x] = "running" => x \in live')
      BY <1>32 DEF Restart, Interrupted
<1>33. CASE UNCHANGED vars
      BY <1>33 DEF vars
<1> QED
    BY <1>1, <1>2, <1>3, <1>4, <1>5, <1>6, <1>7, <1>8, <1>9, <1>10, <1>11, <1>12,
       <1>13, <1>14, <1>15, <1>16, <1>17, <1>18, <1>19, <1>20, <1>21, <1>22, <1>23,
       <1>24, <1>25, <1>26, <1>27, <1>28, <1>29, <1>30, <1>31, <1>32, <1>33 DEF Next, StartStep, RunStep, SettleStep, Environment

\* Nothing is spawned for an attempt that is settled: whichever of runSession, a
\* cancellation and a deadline comes first, session.start finds the lease disposed.
THEOREM SpawnsAreOwned == Spec => SettledNeverSpawns
<1>1. IInv /\ [Next]_vars =>
        [\A a \in Attempts : host[a] = "none" /\ host'[a] = "running" => a \in live']_vars
      BY SpawnStep
<1> QED
    BY <1>1, InitIInv, StepIInv, PTL DEF Spec, SettledNeverSpawns

-----------------------------------------------------------------------------
(* NativeHelper *)

Marked(d) == d.there /\ d.project /\ d.meta = "whole" /\ d.limits

\* The call that is next is of the operation that was asked for; its earlier calls
\* have done what they do.
HelperStages ==
  /\ helper.op = "allocate" => helperAnswer["allocate"] = "asked" /\ helperAnswer["cleanup"] = "none"
  /\ helper.op = "cleanup" => helperAnswer["allocate"] = "ok" /\ helperAnswer["cleanup"] = "asked"
  /\ helperAnswer["cleanup"] # "none" => helperAnswer["allocate"] = "ok"
  /\ helper.op = "allocate" =>
       /\ helper.at \in {"project", "limits", "create", "write", "sync", "root"} => dir.there
       /\ helper.at \in {"limits", "create", "write", "sync", "root"} => dir.project
       /\ helper.at \in {"create", "write", "sync", "root"} => dir.limits
       /\ helper.at \in {"sync", "root"} => dir.meta = "whole"
       /\ helper.at = "root" => disk.project /\ disk.meta = "whole"
  /\ helper.op = "cleanup" =>
       /\ helper.at \in {"rmdir", "root", "limits", "done"} => dir.files = {} /\ disk.files = {}
       /\ helper.at \in {"root", "limits", "done"} => ~dir.there
       /\ helper.at \in {"limits", "done"} => ~disk.there

\* What was answered is on the disk, and where files may be the marks are, too.
HelperDisk ==
  /\ helperAnswer["allocate"] = "ok" /\ helperAnswer["cleanup"] = "none" => Marked(dir) /\ Marked(disk)
  /\ helperAnswer["cleanup"] = "ok" => ~dir.there /\ ~disk.there
  /\ dir.files \cup disk.files # {} =>
       dir.there /\ dir.project /\ dir.limits /\ disk.project /\ disk.limits

HelperCalls == {"none", "check", "mkdir", "project", "limits", "create", "write", "sync", "root", "empty", "rmdir", "done"}

HelperTyped ==
  /\ dir \in Helper!Shape /\ disk \in Helper!Shape /\ controller \in {"up", "gone"}
  /\ helper \in [op : {"none", "allocate", "cleanup"}, at : HelperCalls]
  /\ helper.op = "none" => helper = Helper!None
  /\ helperAnswer \in [{"allocate", "cleanup"} -> {"none", "asked", "ok", "failed"}]

HelperInv == HelperTyped /\ HelperStages /\ HelperDisk

LEMMA HelperInit == Helper!Init => HelperInv
BY DEF Helper!Init, HelperInv, HelperTyped, HelperStages, HelperDisk, Marked, Helper!Absent, Helper!None, HelperCalls, Helper!Shape

\* The calls of the allocation.
LEMMA HelperAllocates ==
  ASSUME HelperInv,
         Helper!Check \/ Helper!MakeDirectory \/ Helper!SetProject \/ Helper!SetQuota \/ Helper!CreateMetadata
           \/ Helper!WriteMetadata \/ Helper!SyncMetadata \/ Helper!Allocated
  PROVE  HelperInv'
<1> USE DEF HelperInv, HelperTyped, HelperStages, HelperDisk, HelperCalls, Helper!Shape, Helper!At, Helper!Then, Helper!Volatile
<1>1. CASE Helper!Check
  BY <1>1 DEF Helper!Check
<1>2. CASE Helper!MakeDirectory
  BY <1>2 DEF Helper!MakeDirectory
<1>3. CASE Helper!SetProject
  BY <1>3 DEF Helper!SetProject
<1>4. CASE Helper!SetQuota
  BY <1>4 DEF Helper!SetQuota
<1>5. CASE Helper!CreateMetadata
  BY <1>5 DEF Helper!CreateMetadata
<1>6. CASE Helper!WriteMetadata
  BY <1>6 DEF Helper!WriteMetadata
<1>7. CASE Helper!SyncMetadata
  BY <1>7 DEF Helper!SyncMetadata
<1>8. CASE Helper!Allocated
  BY <1>8 DEF Helper!Allocated, Helper!Hears, Helper!None, Marked
<1> QED
  BY <1>1, <1>2, <1>3, <1>4, <1>5, <1>6, <1>7, <1>8

\* The calls of the cleanup.
LEMMA HelperCleans ==
  ASSUME HelperInv,
         Helper!Verify \/ Helper!RemoveEntry \/ Helper!SyncContents \/ Helper!RemoveDirectory \/ Helper!SyncRoot
           \/ Helper!ClearQuota \/ Helper!Cleaned
  PROVE  HelperInv'
<1> USE DEF HelperInv, HelperTyped, HelperStages, HelperDisk, HelperCalls, Helper!Shape, Helper!At, Helper!Then, Helper!Volatile
<1>1. CASE Helper!Verify
  BY <1>1 DEF Helper!Verify
<1>2. CASE Helper!RemoveEntry
  BY <1>2 DEF Helper!RemoveEntry
<1>3. CASE Helper!SyncContents
  BY <1>3 DEF Helper!SyncContents
<1>4. CASE Helper!RemoveDirectory
  BY <1>4 DEF Helper!RemoveDirectory
<1>5. CASE Helper!SyncRoot
  BY <1>5 DEF Helper!SyncRoot
<1>6. CASE Helper!ClearQuota
  BY <1>6 DEF Helper!ClearQuota
<1>7. CASE Helper!Cleaned
  BY <1>7 DEF Helper!Cleaned, Helper!Hears, Helper!None
<1> QED
  BY <1>1, <1>2, <1>3, <1>4, <1>5, <1>6, <1>7

\* The controller, and what may happen to it.
LEMMA HelperSteps == HelperInv /\ [Helper!Next]_helperVars => HelperInv'
<1> SUFFICES ASSUME HelperInv, [Helper!Next]_helperVars PROVE HelperInv'
  OBVIOUS
<1> USE DEF HelperInv, HelperTyped, HelperStages, HelperDisk, HelperCalls, Helper!Shape
<1>1. CASE Helper!InvokeAllocate
  BY <1>1 DEF Helper!InvokeAllocate, Helper!Invoke, Helper!Unqualified, Helper!None
<1>2. CASE Helper!InvokeCleanup
  BY <1>2 DEF Helper!InvokeCleanup, Helper!Invoke, Helper!Unqualified, Helper!None
<1>3. CASE Helper!AgentWrites
  BY <1>3 DEF Helper!AgentWrites, Marked
<1>4. CASE Helper!Fails
  BY <1>4 DEF Helper!Fails, Helper!Hears, Helper!None
<1>5. CASE Helper!Crash
  BY <1>5 DEF Helper!Crash
<1>6. CASE Helper!PowerLoss
  <2>1. PICK there \in {dir.there, disk.there}, project \in {dir.project, disk.project}, meta \in {dir.meta, disk.meta},
             left \in SUBSET (dir.files \cup disk.files), limits \in {dir.limits, disk.limits} :
          /\ dir' = IF ~there THEN [Helper!Absent EXCEPT !.limits = limits]
                    ELSE [there |-> TRUE, project |-> project, meta |-> meta, files |-> left, limits |-> limits]
          /\ disk' = dir'
    BY <1>6 DEF Helper!PowerLoss
  <2>2. controller' = "gone" /\ helper' = Helper!None /\ helperAnswer' = helperAnswer
    BY <1>6 DEF Helper!PowerLoss
  <2>3. HelperTyped' /\ HelperStages'
    BY <2>1, <2>2 DEF Helper!None, Helper!Absent
  <2>4. CASE ~there
    BY <2>1, <2>2, <2>3, <2>4 DEF Helper!Absent, Marked
  <2>5. CASE there
    BY <2>1, <2>2, <2>3, <2>5 DEF Marked
  <2> QED
    BY <2>1, <2>4, <2>5
<1>7. CASE UNCHANGED helperVars
  BY <1>7 DEF helperVars
<1> QED
  BY <1>1, <1>2, <1>3, <1>4, <1>5, <1>6, <1>7, HelperAllocates, HelperCleans DEF Helper!Next

LEMMA HelperHolds == HelperInv => Helper!TypeOK /\ Helper!AnswersAreDurable /\ Helper!FilesAreBounded
BY DEF HelperInv, HelperTyped, HelperDisk, Helper!TypeOK, Helper!AnswersAreDurable, Helper!FilesAreBounded, Helper!Ours, Marked

-----------------------------------------------------------------------------
(* CodexHost *)

\* What was asked of the broker and not answered, and what it has.
HostReserved ==
  /\ "reserve" \in hostAsked <=> hostReserving = "pending"
  /\ "revoke" \in hostAsked => hostRevoking = "asked"
  /\ hostRevoking = "asked" => hostReserving = "done"
  /\ hostBroker = "none" <=> hostReserving # "done"
  /\ hostStart = "activate" => hostReserving = "done"
  /\ hostStart \in {"none", "prepare"} => hostReserving = "none"

\* A revoke that is over leaves nothing at the broker, unless the broker failed.
HostRevokes ==
  /\ hostRevoked => hostReserving # "pending" /\ (hostReserving = "done" => hostBroker = "revoked")
  /\ hostRevoking = "done" => hostRevoked
  /\ hostRevoking = "waiting" => hostReserving # "none"
  /\ hostRevoking = "failed" => "revoke" \in broke \/ hostReserving = "failed"
  /\ hostStart \in {"end", "count", "failed"} \/ hostCleanup \in {"end", "count", "over"} \/ hostRow = "cleaned"
       => Host!Revoked

\* Before it is registered there is nothing; a host comes up by its start only,
\* and whoever counts what is left has ended it before.
HostEnds ==
  /\ gate # "registered" =>
       hostStart = "none" /\ hostCleanup = "none" /\ hostRow = "none" /\ hostReserving = "none"
  /\ hostStart \in {"none"} \cup Host!Starting => hostHost = "none"
  /\ hostStart = "up" /\ hostRow = "cleaned" => hostHost # "up"
  /\ hostStart \in {"count", "failed"} /\ hostHost = "up" => "end" \in broke

HostStates ==
  /\ gate \in {"new", "armed", "registered", "cleaned"}
  /\ hostStart \in {"none", "up", "failed"} \cup Host!Starting \cup Host!Failing
  /\ hostCleanup \in {"none", "revoke", "end", "count", "over"}
  /\ hostRow \in {"none", "registered", "spawning", "running", "exited", "failed", "cleaned"}
  /\ hostHost \in {"none", "up", "down"}
  /\ hostReserving \in {"none", "pending", "done", "failed"}
  /\ hostRevoking \in {"none", "waiting", "asked", "done", "failed"}
  /\ hostBroker \in {"none", "reserved", "active", "revoked"}

HostFlags ==
  /\ hostRevoked \in BOOLEAN /\ hostFailed \in BOOLEAN
  /\ broke \subseteq {"revoke", "end"} /\ hostAsked \subseteq {"reserve", "activate", "revoke"}

HostInv == HostStates /\ HostFlags /\ HostReserved /\ HostRevokes /\ HostEnds

LEMMA HostInit == Host!Init => HostInv
BY DEF Host!Init, HostInv, Host!TypeOK, HostStates, HostFlags, HostReserved, HostRevokes, HostEnds, Host!Revoked, Host!Starting, Host!Failing

LEMMA HostSteps == HostInv /\ [Host!Next]_hostVars => HostInv'
<1> SUFFICES ASSUME HostInv, [Host!Next]_hostVars PROVE HostInv'
  OBVIOUS
<1>0. HostStates /\ HostFlags /\ HostReserved /\ HostRevokes /\ HostEnds
  BY DEF HostInv
<1>1. CASE Host!Arm \/ Host!Register \/ Host!CleanGate
  <2> USE DEF Host!Arm, Host!Register, Host!CleanGate, Host!Revoked, Host!Starting, Host!Failing, Host!Reservation
  <2>0. HostStates'
    BY <1>0, <1>1 DEF HostStates, HostReserved
  <2>1. HostFlags'
    BY <1>0, <1>1 DEF HostFlags
  <2>2. HostReserved'
    BY <1>0, <1>1 DEF HostStates, HostFlags, HostReserved, HostEnds
  <2>3. HostRevokes'
    BY <1>0, <1>1 DEF HostStates, HostFlags, HostReserved, HostRevokes, HostEnds
  <2>4. HostEnds'
    BY <1>0, <1>1 DEF HostStates, HostFlags, HostReserved, HostEnds
  <2> QED
    BY <2>0, <2>1, <2>2, <2>3, <2>4 DEF HostInv
<1>2. CASE Host!RevokeGoesOn
  <2> USE DEF Host!RevokeGoesOn, Host!Revoked, Host!Starting, Host!Failing, Host!Reservation
  <2>0. HostStates'
    BY <1>0, <1>2 DEF HostStates, HostReserved
  <2>1. HostFlags'
    BY <1>0, <1>2 DEF HostFlags
  <2>2. HostReserved'
    BY <1>0, <1>2 DEF HostStates, HostFlags, HostReserved, HostEnds
  <2>3. HostRevokes'
    BY <1>0, <1>2 DEF HostStates, HostFlags, HostReserved, HostRevokes, HostEnds
  <2>4. HostEnds'
    BY <1>0, <1>2 DEF HostStates, HostFlags, HostReserved, HostEnds
  <2> QED
    BY <2>0, <2>1, <2>2, <2>3, <2>4 DEF HostInv
<1>3. CASE Host!BrokerReserves
  <2> USE DEF Host!BrokerReserves, Host!Revoked, Host!Starting, Host!Failing, Host!Reservation
  <2>0. HostStates'
    BY <1>0, <1>3 DEF HostStates, HostReserved
  <2>1. HostFlags'
    BY <1>0, <1>3 DEF HostFlags
  <2>2. HostReserved'
    BY <1>0, <1>3 DEF HostStates, HostFlags, HostReserved, HostEnds
  <2>3. HostRevokes'
    BY <1>0, <1>3 DEF HostStates, HostFlags, HostReserved, HostRevokes, HostEnds
  <2>4. HostEnds'
    BY <1>0, <1>3 DEF HostStates, HostFlags, HostReserved, HostEnds
  <2> QED
    BY <2>0, <2>1, <2>2, <2>3, <2>4 DEF HostInv
<1>4. CASE Host!BrokerRevokes
  <2> USE DEF Host!BrokerRevokes, Host!Revoked, Host!Starting, Host!Failing, Host!Reservation
  <2>0. HostStates'
    BY <1>0, <1>4 DEF HostStates, HostReserved
  <2>1. HostFlags'
    BY <1>0, <1>4 DEF HostFlags
  <2>2. HostReserved'
    BY <1>0, <1>4 DEF HostStates, HostFlags, HostReserved, HostEnds
  <2>3. HostRevokes'
    BY <1>0, <1>4 DEF HostStates, HostFlags, HostReserved, HostRevokes, HostEnds
  <2>4. HostEnds'
    BY <1>0, <1>4 DEF HostStates, HostFlags, HostReserved, HostEnds
  <2> QED
    BY <2>0, <2>1, <2>2, <2>3, <2>4 DEF HostInv
<1>5. CASE Host!Start
  <2> USE DEF Host!Start, Host!FailStart, Host!RowFails, Host!BeginRevoke, Host!Revoked, Host!Starting, Host!Failing, Host!Reservation
  <2>0. HostStates'
    BY <1>0, <1>5 DEF HostStates, HostReserved
  <2>1. HostFlags'
    BY <1>0, <1>5 DEF HostFlags
  <2>2. HostReserved'
    BY <1>0, <1>5 DEF HostStates, HostFlags, HostReserved, HostEnds
  <2>3. HostRevokes'
    BY <1>0, <1>5 DEF HostStates, HostFlags, HostReserved, HostRevokes, HostEnds
  <2>4. HostEnds'
    BY <1>0, <1>5 DEF HostStates, HostFlags, HostReserved, HostEnds
  <2> QED
    BY <2>0, <2>1, <2>2, <2>3, <2>4 DEF HostInv
<1>6. CASE Host!Prepared
  <2> USE DEF Host!Prepared, Host!MayReserve, Host!FailStart, Host!RowFails, Host!BeginRevoke, Host!Revoked, Host!Starting, Host!Failing, Host!Reservation
  <2>0. HostStates'
    BY <1>0, <1>6 DEF HostStates, HostReserved
  <2>1. HostFlags'
    BY <1>0, <1>6 DEF HostFlags
  <2>2. HostReserved'
    BY <1>0, <1>6 DEF HostStates, HostFlags, HostReserved, HostEnds
  <2>3. HostRevokes'
    BY <1>0, <1>6 DEF HostStates, HostFlags, HostReserved, HostRevokes, HostEnds
  <2>4. HostEnds'
    BY <1>0, <1>6 DEF HostStates, HostFlags, HostReserved, HostEnds
  <2> QED
    BY <2>0, <2>1, <2>2, <2>3, <2>4 DEF HostInv
<1>7. CASE Host!Reserved
  <2> USE DEF Host!Reserved, Host!FailStart, Host!RowFails, Host!BeginRevoke, Host!Revoked, Host!Starting, Host!Failing, Host!Reservation
  <2>0. HostStates'
    BY <1>0, <1>7 DEF HostStates, HostReserved
  <2>1. HostFlags'
    BY <1>0, <1>7 DEF HostFlags
  <2>2. HostReserved'
    BY <1>0, <1>7 DEF HostStates, HostFlags, HostReserved, HostEnds
  <2>3. HostRevokes'
    BY <1>0, <1>7 DEF HostStates, HostFlags, HostReserved, HostRevokes, HostEnds
  <2>4. HostEnds'
    BY <1>0, <1>7 DEF HostStates, HostFlags, HostReserved, HostEnds
  <2> QED
    BY <2>0, <2>1, <2>2, <2>3, <2>4 DEF HostInv
<1>8. CASE Host!Activated
  <2> USE DEF Host!Activated, Host!FailStart, Host!RowFails, Host!Revoked, Host!Starting, Host!Failing, Host!Reservation
  <2>0. HostStates'
    BY <1>0, <1>8 DEF HostStates, HostReserved
  <2>1. HostFlags'
    BY <1>0, <1>8 DEF HostFlags
  <2>2. HostReserved'
    BY <1>0, <1>8 DEF HostStates, HostFlags, HostReserved, HostEnds
  <2>3. HostRevokes'
    BY <1>0, <1>8 DEF HostStates, HostFlags, HostReserved, HostRevokes, HostEnds
  <2>4. HostEnds'
    BY <1>0, <1>8 DEF HostStates, HostFlags, HostReserved, HostEnds
  <2> QED
    BY <2>0, <2>1, <2>2, <2>3, <2>4 DEF HostInv
<1>9. CASE Host!Spawned
  <2> USE DEF Host!Spawned, Host!FailStart, Host!RowFails, Host!BeginRevoke, Host!Revoked, Host!Starting, Host!Failing, Host!Reservation
  <2>0. HostStates'
    BY <1>0, <1>9 DEF HostStates, HostReserved
  <2>1. HostFlags'
    BY <1>0, <1>9 DEF HostFlags
  <2>2. HostReserved'
    BY <1>0, <1>9 DEF HostStates, HostFlags, HostReserved, HostEnds
  <2>3. HostRevokes'
    BY <1>0, <1>9 DEF HostStates, HostFlags, HostReserved, HostRevokes, HostEnds
  <2>4. HostEnds'
    BY <1>0, <1>9 DEF HostStates, HostFlags, HostReserved, HostEnds
  <2> QED
    BY <2>0, <2>1, <2>2, <2>3, <2>4 DEF HostInv
<1>10. CASE Host!StartFails
  <2> USE DEF Host!StartFails, Host!FailStart, Host!RowFails, Host!BeginRevoke, Host!Revoked, Host!Starting, Host!Failing, Host!Reservation
  <2>0. HostStates'
    BY <1>0, <1>10 DEF HostStates, HostReserved
  <2>1. HostFlags'
    BY <1>0, <1>10 DEF HostFlags
  <2>2. HostReserved'
    BY <1>0, <1>10 DEF HostStates, HostFlags, HostReserved, HostEnds
  <2>3. HostRevokes'
    BY <1>0, <1>10 DEF HostStates, HostFlags, HostReserved, HostRevokes, HostEnds
  <2>4. HostEnds'
    BY <1>0, <1>10 DEF HostStates, HostFlags, HostReserved, HostEnds
  <2> QED
    BY <2>0, <2>1, <2>2, <2>3, <2>4 DEF HostInv
<1>11. CASE Host!HostExits
  <2> USE DEF Host!HostExits, Host!Revoked, Host!Starting, Host!Failing, Host!Reservation
  <2>0. HostStates'
    BY <1>0, <1>11 DEF HostStates, HostReserved
  <2>1. HostFlags'
    BY <1>0, <1>11 DEF HostFlags
  <2>2. HostReserved'
    BY <1>0, <1>11 DEF HostStates, HostFlags, HostReserved, HostEnds
  <2>3. HostRevokes'
    BY <1>0, <1>11 DEF HostStates, HostFlags, HostReserved, HostRevokes, HostEnds
  <2>4. HostEnds'
    BY <1>0, <1>11 DEF HostStates, HostFlags, HostReserved, HostEnds
  <2> QED
    BY <2>0, <2>1, <2>2, <2>3, <2>4 DEF HostInv
<1>12. CASE Host!StartRevoked \/ Host!StartEnded \/ Host!StartCounted
  <2> USE DEF Host!StartRevoked, Host!StartEnded, Host!StartCounted, Host!EndsHost, Host!Revoked, Host!Starting, Host!Failing, Host!Reservation
  <2>0. HostStates'
    BY <1>0, <1>12 DEF HostStates, HostReserved
  <2>1. HostFlags'
    BY <1>0, <1>12 DEF HostFlags
  <2>2. HostReserved'
    BY <1>0, <1>12 DEF HostStates, HostFlags, HostReserved, HostEnds
  <2>3. HostRevokes'
    BY <1>0, <1>12 DEF HostStates, HostFlags, HostReserved, HostRevokes, HostEnds
  <2>4. HostEnds'
    BY <1>0, <1>12 DEF HostStates, HostFlags, HostReserved, HostEnds
  <2> QED
    BY <2>0, <2>1, <2>2, <2>3, <2>4 DEF HostInv
<1>13. CASE Host!Cleanup
  <2> USE DEF Host!Cleanup, Host!BeginRevoke, Host!Revoked, Host!Starting, Host!Failing, Host!Reservation
  <2>0. HostStates'
    BY <1>0, <1>13 DEF HostStates, HostReserved
  <2>1. HostFlags'
    BY <1>0, <1>13 DEF HostFlags
  <2>2. HostReserved'
    BY <1>0, <1>13 DEF HostStates, HostFlags, HostReserved, HostEnds
  <2>3. HostRevokes'
    BY <1>0, <1>13 DEF HostStates, HostFlags, HostReserved, HostRevokes, HostEnds
  <2>4. HostEnds'
    BY <1>0, <1>13 DEF HostStates, HostFlags, HostReserved, HostEnds
  <2> QED
    BY <2>0, <2>1, <2>2, <2>3, <2>4 DEF HostInv
<1>14. CASE Host!CleanupRevoked \/ Host!CleanupEnded \/ Host!CleanupCounted
  <2> USE DEF Host!CleanupRevoked, Host!CleanupEnded, Host!CleanupCounted, Host!EndsHost, Host!Revoked, Host!Starting, Host!Failing, Host!Reservation
  <2>0. HostStates'
    BY <1>0, <1>14 DEF HostStates, HostReserved
  <2>1. HostFlags'
    BY <1>0, <1>14 DEF HostFlags
  <2>2. HostReserved'
    BY <1>0, <1>14 DEF HostStates, HostFlags, HostReserved, HostEnds
  <2>3. HostRevokes'
    BY <1>0, <1>14 DEF HostStates, HostFlags, HostReserved, HostRevokes, HostEnds
  <2>4. HostEnds'
    BY <1>0, <1>14 DEF HostStates, HostFlags, HostReserved, HostEnds
  <2> QED
    BY <2>0, <2>1, <2>2, <2>3, <2>4 DEF HostInv
<1>15. CASE UNCHANGED hostVars
  <2> USE DEF hostVars, Host!Revoked, Host!Starting, Host!Failing, Host!Reservation
  <2>0. HostStates'
    BY <1>0, <1>15 DEF HostStates, HostReserved
  <2>1. HostFlags'
    BY <1>0, <1>15 DEF HostFlags
  <2>2. HostReserved'
    BY <1>0, <1>15 DEF HostStates, HostFlags, HostReserved, HostEnds
  <2>3. HostRevokes'
    BY <1>0, <1>15 DEF HostStates, HostFlags, HostReserved, HostRevokes, HostEnds
  <2>4. HostEnds'
    BY <1>0, <1>15 DEF HostStates, HostFlags, HostReserved, HostEnds
  <2> QED
    BY <2>0, <2>1, <2>2, <2>3, <2>4 DEF HostInv
<1> QED
  BY <1>1, <1>2, <1>3, <1>4, <1>5, <1>6, <1>7, <1>8, <1>9, <1>10, <1>11, <1>12, <1>13, <1>14, <1>15 DEF Host!Next

LEMMA HostHolds == HostInv => Host!TypeOK /\ Host!CleanedIsRevoked /\ Host!CleanedHostIsEnding
BY DEF HostInv, HostStates, HostFlags, HostReserved, HostRevokes, HostEnds, Host!TypeOK, Host!CleanedIsRevoked, Host!CleanedHostIsEnding,
       Host!Revoked, Host!Starting, Host!Failing

-----------------------------------------------------------------------------
(* CandidateTransfer *)

TransferSeen == [head : Commits \cup UserCommits \cup {Transfer!NoCommit},
         tree : {TreeOf[c] : c \in Commits} \cup {Transfer!NoCommit}, clean : BOOLEAN,
         pending : SUBSET {"head", "tree", "status"}, before : {Transfer!NoCommit}]

TransferTyped ==
  /\ source \in [head : Commits \cup UserCommits, objects : SUBSET (Commits \cup UserCommits),
                 ref : Commits \cup {Transfer!NoCommit}, touched : BOOLEAN]
  /\ private \in [head : Commits \cup {Transfer!NoCommit}, objects : SUBSET (Commits \cup UserCommits),
                  dirty : BOOLEAN]
  /\ seen \in TransferSeen
  /\ step \in {"seed-head", "seed-tree", "seed-bundle", "seed-private", "seed-verify", "produce", "seal",
               "import", "import-fetch", "import-verify", "import-ref", "import-after", "over"}
  /\ step \in {"produce", "seal", "import", "import-fetch"} => private.head \in Commits
  /\ step = "seal" => seen.head \in Commits \cup {Transfer!NoCommit}
  /\ step = "seed-private" => seen.head \in Commits \cup UserCommits

\* What a candidate that was sealed may be.
LawfulCandidate == Transfer!LawfulHistory(sealed.commit) /\ ~Transfer!NoChange(sealed.commit, sealed.tree)
            /\ TreeOf[sealed.commit] \in Permitted /\ sealed.commit \in Commits \cup {Transfer!NoCommit}

TransferSealed ==
  /\ step \in {"import", "import-fetch", "import-verify", "import-ref", "import-after"} => LawfulCandidate
  /\ step = "import-ref" => Transfer!SameCandidate
  /\ source.ref # Transfer!NoCommit =>
       step \in {"import-after", "over"} /\ source.ref = sealed.commit /\ Transfer!SameCandidate /\ LawfulCandidate

TransferInv == TransferTyped /\ TransferSealed


LEMMA TransferInit == Transfer!Init => TransferInv
BY ServiceBounds DEF TransferSeen, Transfer!CommitsAreGiven, Transfer!Init, TransferInv, TransferTyped, TransferSealed, Transfer!Nothing

LEMMA TransferSteps == TransferInv /\ [Transfer!Next]_transferVars => TransferInv'
<1> SUFFICES ASSUME TransferInv, [Transfer!Next]_transferVars PROVE TransferInv'
  OBVIOUS
<1>0. Base \in Commits /\ \A c \in Commits \cup UserCommits : Ancestors[c] \subseteq Commits \cup UserCommits
  BY ServiceBounds DEF Transfer!CommitsAreGiven
<1>a. Transfer!Nothing \in TransferSeen
  BY DEF Transfer!Nothing, TransferSeen
<1>b. /\ LawfulCandidate /\ sealed' = sealed => LawfulCandidate'
      /\ Transfer!SameCandidate /\ sealed' = sealed /\ source.objects \subseteq source'.objects => (Transfer!SameCandidate)'
  BY DEF LawfulCandidate, Transfer!SameCandidate
<1> USE DEF TransferInv, TransferTyped, TransferSealed, Transfer!Finish, Transfer!Refuse
<1>1. CASE Transfer!UserMoves
  <2>1. source' \in [head : Commits \cup UserCommits, objects : SUBSET (Commits \cup UserCommits),
                     ref : Commits \cup {Transfer!NoCommit}, touched : BOOLEAN]
    <3>1. ASSUME NEW c \in UserCommits, source' = [source EXCEPT !.head = c, !.objects = @ \cup Ancestors[c]]
          PROVE  source' \in [head : Commits \cup UserCommits, objects : SUBSET (Commits \cup UserCommits),
                             ref : Commits \cup {Transfer!NoCommit}, touched : BOOLEAN]
      BY <1>0, <3>1
    <3>2. CASE source' = [source EXCEPT !.touched = ~@]
      BY <3>2
    <3> QED
      BY <1>1, <3>1, <3>2 DEF Transfer!UserMoves
  <2>2. source'.ref = source.ref /\ source.objects \subseteq source'.objects
    BY <1>1 DEF Transfer!UserMoves
  <2>3. UNCHANGED <<private, step, seen, sealed, transferOutcome>>
    BY <1>1 DEF Transfer!UserMoves
  <2> QED
    BY <1>b, <2>1, <2>2, <2>3
<1>2. CASE Transfer!ProducerWrites
  <2>1. private' \in [head : Commits \cup {Transfer!NoCommit}, objects : SUBSET (Commits \cup UserCommits), dirty : BOOLEAN]
    BY <1>0, <1>2 DEF Transfer!ProducerWrites
  <2>2. step \in {"produce", "seal"} => private'.head \in Commits
    BY <1>2 DEF Transfer!ProducerWrites
  <2> QED
    BY <1>b, <1>2, <2>1, <2>2 DEF Transfer!ProducerWrites
<1>3. CASE Transfer!SeedHead
  <2>1. TransferTyped'
    BY <1>0, <1>a, <1>3 DEF Transfer!SeedHead
  <2>2. TransferSealed'
    BY <1>b, <1>3 DEF Transfer!SeedHead
  <2> QED
    BY <2>1, <2>2
<1>4. CASE Transfer!SeedTree
  <2>1. TransferTyped'
    BY <1>0, <1>a, <1>4 DEF Transfer!SeedTree
  <2>2. TransferSealed'
    BY <1>b, <1>4 DEF Transfer!SeedTree
  <2> QED
    BY <2>1, <2>2
<1>5. CASE Transfer!SeedBundle
  <2>1. TransferTyped'
    BY <1>0, <1>a, <1>5 DEF Transfer!SeedBundle, Transfer!Nothing, TransferSeen
  <2>2. TransferSealed'
    BY <1>b, <1>5 DEF Transfer!SeedBundle
  <2> QED
    BY <2>1, <2>2
<1>6. CASE Transfer!SeedPrivate
  <2>1. TransferTyped'
    BY <1>0, <1>a, <1>6 DEF Transfer!SeedPrivate
  <2>2. TransferSealed'
    BY <1>b, <1>6 DEF Transfer!SeedPrivate
  <2> QED
    BY <2>1, <2>2
<1>7. CASE Transfer!SeedVerify
  <2>1. TransferTyped'
    BY <1>0, <1>a, <1>7 DEF Transfer!SeedVerify
  <2>2. TransferSealed'
    BY <1>b, <1>7 DEF Transfer!SeedVerify
  <2> QED
    BY <2>1, <2>2
<1>8. CASE Transfer!SealBegins
  <2>1. TransferTyped'
    BY <1>0, <1>a, <1>8 DEF Transfer!SealBegins, Transfer!Nothing, TransferSeen
  <2>2. TransferSealed'
    BY <1>b, <1>8 DEF Transfer!SealBegins
  <2> QED
    BY <2>1, <2>2
<1>9. ASSUME NEW what \in {"head", "tree", "status"}, Transfer!SealReads(what) PROVE TransferInv'
  BY <1>9 DEF Transfer!SealReads, TransferSeen
<1>10. CASE Transfer!Sealed
  <2>1. TransferTyped'
    BY <1>0, <1>a, <1>10 DEF Transfer!Sealed, TransferSeen
  <2>2. TransferSealed'
    BY <1>b, <1>10 DEF Transfer!Sealed, Transfer!Acceptable, LawfulCandidate
  <2> QED
    BY <2>1, <2>2
<1>11. CASE Transfer!ImportSnapshot
  <2>1. TransferTyped'
    BY <1>0, <1>a, <1>11 DEF Transfer!ImportSnapshot, TransferSeen, Transfer!Nothing
  <2>2. TransferSealed'
    BY <1>b, <1>11 DEF Transfer!ImportSnapshot
  <2> QED
    BY <2>1, <2>2
<1>12. CASE Transfer!ImportFetch
  <2>0. Ancestors[private.head] \subseteq Commits \cup UserCommits
    BY <1>0, <1>12 DEF Transfer!ImportFetch
  <2>1. TransferTyped'
    BY <2>0, <1>0, <1>a, <1>12 DEF Transfer!ImportFetch
  <2>2. TransferSealed'
    BY <1>b, <1>12 DEF Transfer!ImportFetch
  <2> QED
    BY <2>1, <2>2
<1>13. CASE Transfer!ImportVerify
  <2>1. TransferTyped'
    BY <1>0, <1>a, <1>13 DEF Transfer!ImportVerify
  <2>2. TransferSealed'
    BY <1>b, <1>13 DEF Transfer!ImportVerify
  <2> QED
    BY <2>1, <2>2
<1>14. CASE Transfer!ImportRef
  <2>1. TransferTyped'
    BY <1>0, <1>a, <1>14 DEF Transfer!ImportRef, LawfulCandidate
  <2>2. TransferSealed'
    BY <1>b, <1>14 DEF Transfer!ImportRef
  <2> QED
    BY <2>1, <2>2
<1>15. CASE Transfer!ImportAfter
  <2>1. TransferTyped'
    BY <1>0, <1>a, <1>15 DEF Transfer!ImportAfter
  <2>2. TransferSealed'
    BY <1>b, <1>15 DEF Transfer!ImportAfter
  <2> QED
    BY <2>1, <2>2
<1>16. CASE UNCHANGED transferVars
  BY <1>b, <1>16 DEF transferVars
<1> QED
  BY <1>1, <1>2, <1>3, <1>4, <1>5, <1>6, <1>7, <1>8, <1>9, <1>10, <1>11, <1>12, <1>13, <1>14, <1>15, <1>16 DEF Transfer!Next

LEMMA TransferHolds == TransferInv => Transfer!TypeOK /\ Transfer!QuarantinedIsSealed
BY DEF TransferInv, TransferTyped, TransferSealed, Transfer!TypeOK, Transfer!QuarantinedIsSealed, Transfer!SameCandidate,
       Transfer!NoChange, LawfulCandidate

-----------------------------------------------------------------------------
(* Marketplace *)

MarketOps == {"none", "install", "update", "rollback", "remove"}
MarketNexts == {"none", "fetch", "clear", "write", "drop", "rename", "name", "deploy", "choose", "undeploy", "delete"}
Installing == {"fetch", "clear", "write", "drop", "rename", "name"}

MarketDisk ==
  /\ partial \in [Versions -> {"absent", "empty", "whole"}]
  /\ marketKept \in [Versions -> {"absent", "empty", "whole"}]
  /\ marketCurrent \in Versions \cup {0} /\ running \subseteq Versions

MarketJobs ==
  /\ job \in [Packagers -> [op : MarketOps, version : Versions \cup {0}, next : MarketNexts]]
  /\ marketBusy \in [Packagers -> BOOLEAN] /\ marketOverlapped \in BOOLEAN
  /\ \A w \in Packagers : marketBusy[w] <=> job[w].op # "none"
  /\ \A w \in Packagers : job[w].op = "none" <=> job[w].next = "none"
  /\ \A w \in Packagers : job[w].next \in Installing => job[w].version \in Versions
  /\ \A w \in Packagers : job[w].op \in {"install", "update"} => job[w].version \in Versions

MarketAlone ==
  ~marketOverlapped => \A w, x \in Packagers : job[w].op # "none" /\ job[x].op # "none" => w = x

\* What the one call has on the disk by the step it is at.
MarketStages ==
  ~marketOverlapped =>
    /\ \A v \in Versions : marketKept[v] # "empty"
    /\ \A w \in Packagers : job[w].next \in {"drop", "rename"} => partial[job[w].version] = "whole"
    /\ \A w \in Packagers : job[w].next = "rename" => marketKept[job[w].version] = "absent"
    /\ \A w \in Packagers : job[w].next = "name" => marketKept[job[w].version] = "whole"

MarketInv == MarketDisk /\ MarketJobs /\ MarketAlone /\ MarketStages /\ Market!CurrentIsWhole


\* The sizes of sets, as the component and as the library name them.
LEMMA MarketSizes == \A S : (Market!IsFiniteSet(S) <=> IsFiniteSet(S)) /\ Market!Cardinality(S) = Cardinality(S)
BY DEF Market!IsFiniteSet, IsFiniteSet, Market!Cardinality, Cardinality

\* Of two or more numbers one is the last but one.
LEMMA LastButOne ==
  ASSUME NEW some \in SUBSET Nat, IsFiniteSet(some), Cardinality(some) >= 2
  PROVE  Market!BeforeLast(some) \in some
<1>s. some \subseteq Nat
  OBVIOUS
<1> DEFINE above(v) == {x \in some : x > v}
<1> DEFINE place == [v \in some |-> Cardinality(above(v))]
<1> DEFINE others == (0..Cardinality(some) - 1) \ {1}
<1>0. Cardinality(some) \in Nat
  BY FS_CardinalityType
<1>1. \A v \in some : IsFiniteSet(above(v)) /\ place[v] \in 0..Cardinality(some) - 1
  <2> SUFFICES ASSUME NEW v \in some PROVE IsFiniteSet(above(v)) /\ place[v] \in 0..Cardinality(some) - 1
    OBVIOUS
  <2>1. above(v) \in SUBSET some
    OBVIOUS
  <2>2. v \notin above(v)
    OBVIOUS
  <2> HIDE DEF above
  <2>3. /\ IsFiniteSet(above(v)) /\ Cardinality(above(v)) <= Cardinality(some)
        /\ Cardinality(above(v)) = Cardinality(some) => above(v) = some
    BY <2>1, FS_Subset
  <2>4. Cardinality(above(v)) \in Nat
    BY <2>3, FS_CardinalityType
  <2>5. Cardinality(above(v)) # Cardinality(some)
    BY <2>2, <2>3
  <2> QED
    BY <1>0, <2>3, <2>4, <2>5
<1>2. ASSUME NEW v \in some, NEW w \in some, v < w PROVE place[v] # place[w]
  <2>0. \A x \in some : x > w => x > v
    BY <1>s, <1>2
  <2>1. above(w) \in SUBSET above(v) /\ w \in above(v) /\ w \notin above(w)
    <3>1. w > v /\ ~(w > w)
      BY <1>s, <1>2
    <3> QED
      BY <2>0, <3>1
  <2>2. IsFiniteSet(above(v))
    BY <1>1
  <2> HIDE DEF above
  <2>3. Cardinality(above(v)) # Cardinality(above(w))
    BY <2>1, <2>2, FS_Subset
  <2> QED
    BY <2>3
<1>3. IsFiniteSet(others) /\ Cardinality(others) = Cardinality(some) - 1
  <2>1. IsFiniteSet(0..Cardinality(some) - 1) /\ Cardinality(0..Cardinality(some) - 1) = Cardinality(some)
    BY <1>0, FS_Interval
  <2>2. 1 \in 0..Cardinality(some) - 1
    BY <1>0
  <2> QED
    BY <2>1, <2>2, FS_RemoveElement
<1>4. \E v \in some : place[v] = 1
  <2> SUFFICES ASSUME \A v \in some : place[v] # 1 PROVE FALSE
    OBVIOUS
  <2>1. \A v \in some : place[v] \in others
    BY <1>1
  <2>2. place \in [some -> others]
    <3> HIDE DEF above, others
    <3> QED
      BY <2>1
  <2> HIDE DEF place, others
  <2>p. Cardinality(others) < Cardinality(some)
    BY <1>0, <1>3
  <2>3. PICK v, w \in some : v # w /\ place[v] = place[w]
    BY <1>3, <2>2, <2>p, FS_PigeonHole
  <2>4. v < w \/ w < v
    BY <1>s, <2>3
  <2> QED
    BY <1>2, <2>3, <2>4
<1>5. \E v \in some : Market!Cardinality({x \in some : x > v}) = 1
  BY <1>4, MarketSizes
<1> HIDE DEF place
<1> QED
  BY <1>5 DEF Market!BeforeLast

LEMMA MarketInit == Market!Init => MarketInv
<1> SUFFICES ASSUME Market!Init PROVE MarketInv
  OBVIOUS
<1>1. MarketDisk
  BY DEF Market!Init, MarketDisk
<1>2. MarketJobs /\ MarketAlone
  BY DEF Market!Init, Market!Idle, MarketJobs, MarketAlone, MarketOps, MarketNexts, Installing
<1>3. MarketStages
  BY DEF Market!Init, Market!Idle, MarketStages
<1>4. Market!CurrentIsWhole
  BY DEF Market!Init, Market!CurrentIsWhole
<1> QED
  BY <1>1, <1>2, <1>3, <1>4 DEF MarketInv

\* A call that goes on stays the same call.
LEMMA MarketGoes ==
  ASSUME MarketJobs, MarketAlone, NEW w \in Packagers, job[w].next # "none", NEW s \in MarketNexts \ {"none"},
         s \in Installing => job[w].next \in Installing,
         Market!Goto(w, s), UNCHANGED <<marketBusy, marketOverlapped>>
  PROVE  /\ MarketJobs' /\ MarketAlone'
         /\ job'[w].next = s /\ job'[w].version = job[w].version
         /\ \A x \in Packagers \ {w} : job'[x] = job[x]
<1> USE DEF MarketJobs, Market!Goto
<1>1. job' \in [Packagers -> [op : MarketOps, version : Versions \cup {0}, next : MarketNexts]]
  OBVIOUS
<1>2. job'[w].next = s /\ job'[w].version = job[w].version /\ job'[w].op = job[w].op
  OBVIOUS
<1>3. \A x \in Packagers \ {w} : job'[x] = job[x]
  OBVIOUS
<1>4. MarketJobs'
  BY <1>1, <1>2, <1>3
<1>5. MarketAlone'
  BY <1>2, <1>3 DEF MarketAlone
<1> QED
  BY <1>2, <1>3, <1>4, <1>5

\* A call that returns is over.
LEMMA MarketReturns ==
  ASSUME MarketJobs, MarketAlone, NEW w \in Packagers, Market!Return(w), marketOverlapped' = marketOverlapped
  PROVE  /\ MarketJobs' /\ MarketAlone'
         /\ job'[w].next = "none"
         /\ \A x \in Packagers \ {w} : job'[x] = job[x]
<1> USE DEF MarketJobs, Market!Return, Market!Idle
<1>1. job' \in [Packagers -> [op : MarketOps, version : Versions \cup {0}, next : MarketNexts]]
  BY DEF MarketOps, MarketNexts
<1>2. job'[w].next = "none" /\ job'[w].op = "none" /\ marketBusy'[w] = FALSE
  OBVIOUS
<1>3. \A x \in Packagers \ {w} : job'[x] = job[x] /\ marketBusy'[x] = marketBusy[x]
  OBVIOUS
<1>4. MarketJobs'
  BY <1>1, <1>2, <1>3 DEF Installing
<1>5. MarketAlone'
  BY <1>2, <1>3 DEF MarketAlone
<1> QED
  BY <1>2, <1>3, <1>4, <1>5

\* A call that begins is alone, or it is known that it is not.
LEMMA MarketCalls ==
  ASSUME MarketInv, NEW w \in Packagers, NEW op \in MarketOps \ {"none"}, NEW v \in Versions \cup {0}, NEW s \in MarketNexts \ {"none", "drop", "rename", "name"},
         s \in Installing \/ op \in {"install", "update"} => v \in Versions,
         Market!Call(w, op, v, s)
  PROVE  MarketInv'
<1> USE DEF MarketInv, MarketJobs, Market!Call
<1>1. job' \in [Packagers -> [op : MarketOps, version : Versions \cup {0}, next : MarketNexts]]
  OBVIOUS
<1>2. job'[w].op = op /\ job'[w].version = v /\ job'[w].next = s /\ marketBusy'[w] = TRUE /\ job[w].op = "none"
  OBVIOUS
<1>3. \A x \in Packagers \ {w} : job'[x] = job[x] /\ marketBusy'[x] = marketBusy[x]
  OBVIOUS
<1>4. MarketJobs'
  BY <1>1, <1>2, <1>3
<1>5. MarketDisk'
  BY DEF MarketDisk, Market!disk
<1>6. ~marketOverlapped' => ~marketOverlapped /\ \A x \in Packagers : job[x].op = "none" /\ job[x].next = "none"
  OBVIOUS
<1>7. MarketAlone'
  BY <1>2, <1>3, <1>6 DEF MarketAlone
<1>8. UNCHANGED <<partial, marketKept, marketCurrent>>
  BY DEF Market!disk
<1>9. MarketStages'
  BY <1>2, <1>3, <1>6, <1>8 DEF MarketStages
<1>10. Market!CurrentIsWhole'
  BY <1>2, <1>3, <1>6, <1>8 DEF Market!CurrentIsWhole
<1> QED
  BY <1>4, <1>5, <1>7, <1>9, <1>10

LEMMA MarketSteps == MarketInv /\ [Market!Next]_marketVars => MarketInv'
<1> SUFFICES ASSUME MarketInv, [Market!Next]_marketVars PROVE MarketInv'
  OBVIOUS
<1>0. MarketDisk /\ MarketJobs /\ MarketAlone /\ MarketStages /\ Market!CurrentIsWhole
  BY DEF MarketInv
<1>m. IsFiniteSet(Versions) /\ Versions \subseteq Nat \ {0}
  BY ServiceBounds, MarketSizes DEF Market!MarketBounds, ServiceBounds
<1>1. CASE Market!Crash
  <2> USE DEF Market!Crash, Market!Idle, Market!disk
  <2>1. MarketDisk'
    BY <1>0, <1>1 DEF MarketDisk
  <2>2. MarketJobs' /\ MarketAlone'
    BY <1>0, <1>1 DEF MarketJobs, MarketAlone, MarketOps, MarketNexts, Installing
  <2>3. MarketStages'
    BY <1>0, <1>1 DEF MarketStages, MarketJobs
  <2>4. Market!CurrentIsWhole'
    BY <1>0, <1>1 DEF Market!CurrentIsWhole, MarketJobs
  <2> QED
    BY <2>1, <2>2, <2>3, <2>4 DEF MarketInv
<1>2. ASSUME NEW w \in Packagers, Market!Install(w) PROVE MarketInv'
  <2>1. PICK v \in Versions : Market!Call(w, "install", v, "fetch")
    BY <1>2 DEF Market!Install
  <2> QED
    BY <2>1, MarketCalls DEF MarketOps, MarketNexts, Installing
<1>3. ASSUME NEW w \in Packagers, Market!Update(w) PROVE MarketInv'
  <2>1. PICK v \in Versions : Market!Call(w, "update", v, "fetch")
    BY <1>3 DEF Market!Update
  <2> QED
    BY <2>1, MarketCalls DEF MarketOps, MarketNexts, Installing
<1>4. ASSUME NEW w \in Packagers, Market!Rollback(w) PROVE MarketInv'
  <2>1. Market!Call(w, "rollback", 0, "choose")
    BY <1>4 DEF Market!Rollback
  <2> QED
    BY <2>1, MarketCalls DEF MarketOps, MarketNexts, Installing
<1>5. ASSUME NEW w \in Packagers, Market!Remove(w) PROVE MarketInv'
  <2>1. Market!Call(w, "remove", 0, "undeploy")
    BY <1>5 DEF Market!Remove
  <2> QED
    BY <2>1, MarketCalls DEF MarketOps, MarketNexts, Installing
<1>6. ASSUME NEW w \in Packagers, Market!Fetch(w) PROVE MarketInv'
  <2>0. job[w].next = "fetch" /\ marketOverlapped' = marketOverlapped
    BY <1>6 DEF Market!Fetch
  <2>a. job[w] \in [op : MarketOps, version : Versions \cup {0}, next : MarketNexts] /\ job[w].op # "none"
    BY <1>0, <2>0 DEF MarketJobs
  <2>b. ~marketOverlapped => \A x \in Packagers \ {w} : job[x].op = "none" /\ job[x].next = "none"
    BY <1>0, <2>a DEF MarketAlone, MarketJobs
  <2>c. job[w].next \in Installing \/ job[w].op = "install" => job[w].version \in Versions
    BY <1>0 DEF MarketJobs
  <2>g. ASSUME Market!Goto(w, "clear"), marketBusy' = marketBusy
        PROVE  /\ MarketJobs' /\ MarketAlone'
               /\ job'[w].next = "clear" /\ job'[w].version = job[w].version
               /\ \A x \in Packagers \ {w} : job'[x] = job[x]
    BY <1>0, <2>0, <2>g, MarketGoes DEF MarketNexts, Installing
  <2>r. ASSUME Market!Return(w)
        PROVE  /\ MarketJobs' /\ MarketAlone' /\ job'[w].next = "none"
               /\ \A x \in Packagers \ {w} : job'[x] = job[x]
    BY <1>0, <2>0, <2>r, MarketReturns
  <2>1. MarketDisk'
    BY <1>0, <1>6, <2>0, <2>a, <2>c, <1>m DEF Market!Fetch, MarketDisk, Market!disk, Installing
  <2>2. MarketJobs' /\ MarketAlone'
    BY <1>6, <2>g, <2>r DEF Market!Fetch
  <2>3. MarketStages'
    BY <1>0, <1>6, <2>0, <2>a, <2>b, <2>c, <2>g, <2>r DEF Market!Fetch, MarketStages, MarketDisk, Market!disk, Installing
  <2>4. Market!CurrentIsWhole'
    BY <1>0, <1>6, <1>m, <2>0, <2>a, <2>b, <2>c, <2>g, <2>r DEF Market!Fetch, MarketStages, MarketDisk, Market!disk, Installing, Market!CurrentIsWhole
  <2> QED
    BY <2>1, <2>2, <2>3, <2>4 DEF MarketInv
<1>7. ASSUME NEW w \in Packagers, Market!Clear(w) PROVE MarketInv'
  <2>0. job[w].next = "clear" /\ marketOverlapped' = marketOverlapped
    BY <1>7 DEF Market!Clear
  <2>a. job[w] \in [op : MarketOps, version : Versions \cup {0}, next : MarketNexts] /\ job[w].op # "none"
    BY <1>0, <2>0 DEF MarketJobs
  <2>b. ~marketOverlapped => \A x \in Packagers \ {w} : job[x].op = "none" /\ job[x].next = "none"
    BY <1>0, <2>a DEF MarketAlone, MarketJobs
  <2>c. job[w].next \in Installing \/ job[w].op = "install" => job[w].version \in Versions
    BY <1>0 DEF MarketJobs
  <2>g. ASSUME Market!Goto(w, "write"), marketBusy' = marketBusy
        PROVE  /\ MarketJobs' /\ MarketAlone'
               /\ job'[w].next = "write" /\ job'[w].version = job[w].version
               /\ \A x \in Packagers \ {w} : job'[x] = job[x]
    BY <1>0, <2>0, <2>g, MarketGoes DEF MarketNexts, Installing
  <2>1. MarketDisk'
    BY <1>0, <1>7, <2>0, <2>a, <2>c, <1>m DEF Market!Clear, MarketDisk, Market!disk, Installing
  <2>2. MarketJobs' /\ MarketAlone'
    BY <1>7, <2>g DEF Market!Clear
  <2>3. MarketStages'
    BY <1>0, <1>7, <2>0, <2>a, <2>b, <2>c, <2>g DEF Market!Clear, MarketStages, MarketDisk, Market!disk, Installing
  <2>4. Market!CurrentIsWhole'
    BY <1>0, <1>7, <1>m, <2>0, <2>a, <2>b, <2>c, <2>g DEF Market!Clear, MarketStages, MarketDisk, Market!disk, Installing, Market!CurrentIsWhole
  <2> QED
    BY <2>1, <2>2, <2>3, <2>4 DEF MarketInv
<1>8. ASSUME NEW w \in Packagers, Market!Write(w) PROVE MarketInv'
  <2>0. job[w].next = "write" /\ marketOverlapped' = marketOverlapped
    BY <1>8 DEF Market!Write
  <2>a. job[w] \in [op : MarketOps, version : Versions \cup {0}, next : MarketNexts] /\ job[w].op # "none"
    BY <1>0, <2>0 DEF MarketJobs
  <2>b. ~marketOverlapped => \A x \in Packagers \ {w} : job[x].op = "none" /\ job[x].next = "none"
    BY <1>0, <2>a DEF MarketAlone, MarketJobs
  <2>c. job[w].next \in Installing \/ job[w].op = "install" => job[w].version \in Versions
    BY <1>0 DEF MarketJobs
  <2>r. ASSUME Market!Return(w)
        PROVE  /\ MarketJobs' /\ MarketAlone' /\ job'[w].next = "none"
               /\ \A x \in Packagers \ {w} : job'[x] = job[x]
    BY <1>0, <2>0, <2>r, MarketReturns
  <2>g. ASSUME Market!Goto(w, "drop"), marketBusy' = marketBusy
        PROVE  /\ MarketJobs' /\ MarketAlone'
               /\ job'[w].next = "drop" /\ job'[w].version = job[w].version
               /\ \A x \in Packagers \ {w} : job'[x] = job[x]
    BY <1>0, <2>0, <2>g, MarketGoes DEF MarketNexts, Installing
  <2>1. MarketDisk'
    BY <1>0, <1>8, <2>0, <2>a, <2>c, <1>m DEF Market!Write, MarketDisk, Market!disk, Installing
  <2>2. MarketJobs' /\ MarketAlone'
    BY <1>8, <2>r, <2>g DEF Market!Write
  <2>3. MarketStages'
    BY <1>0, <1>8, <2>0, <2>a, <2>b, <2>c, <2>r, <2>g DEF Market!Write, MarketStages, MarketDisk, Market!disk, Installing
  <2>4. Market!CurrentIsWhole'
    BY <1>0, <1>8, <1>m, <2>0, <2>a, <2>b, <2>c, <2>r, <2>g DEF Market!Write, MarketStages, MarketDisk, Market!disk, Installing, Market!CurrentIsWhole
  <2> QED
    BY <2>1, <2>2, <2>3, <2>4 DEF MarketInv
<1>9. ASSUME NEW w \in Packagers, Market!Drop(w) PROVE MarketInv'
  <2>0. job[w].next = "drop" /\ marketOverlapped' = marketOverlapped
    BY <1>9 DEF Market!Drop
  <2>a. job[w] \in [op : MarketOps, version : Versions \cup {0}, next : MarketNexts] /\ job[w].op # "none"
    BY <1>0, <2>0 DEF MarketJobs
  <2>b. ~marketOverlapped => \A x \in Packagers \ {w} : job[x].op = "none" /\ job[x].next = "none"
    BY <1>0, <2>a DEF MarketAlone, MarketJobs
  <2>c. job[w].next \in Installing \/ job[w].op = "install" => job[w].version \in Versions
    BY <1>0 DEF MarketJobs
  <2>g. ASSUME Market!Goto(w, "rename"), marketBusy' = marketBusy
        PROVE  /\ MarketJobs' /\ MarketAlone'
               /\ job'[w].next = "rename" /\ job'[w].version = job[w].version
               /\ \A x \in Packagers \ {w} : job'[x] = job[x]
    BY <1>0, <2>0, <2>g, MarketGoes DEF MarketNexts, Installing
  <2>1. MarketDisk'
    BY <1>0, <1>9, <2>0, <2>a, <2>c, <1>m DEF Market!Drop, MarketDisk, Market!disk, Installing
  <2>2. MarketJobs' /\ MarketAlone'
    BY <1>9, <2>g DEF Market!Drop
  <2>3. MarketStages'
    BY <1>0, <1>9, <2>0, <2>a, <2>b, <2>c, <2>g DEF Market!Drop, MarketStages, MarketDisk, Market!disk, Installing
  <2>4. Market!CurrentIsWhole'
    BY <1>0, <1>9, <1>m, <2>0, <2>a, <2>b, <2>c, <2>g DEF Market!Drop, MarketStages, MarketDisk, Market!disk, Installing, Market!CurrentIsWhole
  <2> QED
    BY <2>1, <2>2, <2>3, <2>4 DEF MarketInv
<1>10. ASSUME NEW w \in Packagers, Market!Rename(w) PROVE MarketInv'
  <2>0. job[w].next = "rename" /\ marketOverlapped' = marketOverlapped
    BY <1>10 DEF Market!Rename
  <2>a. job[w] \in [op : MarketOps, version : Versions \cup {0}, next : MarketNexts] /\ job[w].op # "none"
    BY <1>0, <2>0 DEF MarketJobs
  <2>b. ~marketOverlapped => \A x \in Packagers \ {w} : job[x].op = "none" /\ job[x].next = "none"
    BY <1>0, <2>a DEF MarketAlone, MarketJobs
  <2>c. job[w].next \in Installing \/ job[w].op = "install" => job[w].version \in Versions
    BY <1>0 DEF MarketJobs
  <2>r. ASSUME Market!Return(w)
        PROVE  /\ MarketJobs' /\ MarketAlone' /\ job'[w].next = "none"
               /\ \A x \in Packagers \ {w} : job'[x] = job[x]
    BY <1>0, <2>0, <2>r, MarketReturns
  <2>g. ASSUME Market!Goto(w, "name"), marketBusy' = marketBusy
        PROVE  /\ MarketJobs' /\ MarketAlone'
               /\ job'[w].next = "name" /\ job'[w].version = job[w].version
               /\ \A x \in Packagers \ {w} : job'[x] = job[x]
    BY <1>0, <2>0, <2>g, MarketGoes DEF MarketNexts, Installing
  <2>1. MarketDisk'
    BY <1>0, <1>10, <2>0, <2>a, <2>c, <1>m DEF Market!Rename, MarketDisk, Market!disk, Installing
  <2>2. MarketJobs' /\ MarketAlone'
    BY <1>10, <2>r, <2>g DEF Market!Rename
  <2>3. MarketStages'
    BY <1>0, <1>10, <2>0, <2>a, <2>b, <2>c, <2>r, <2>g DEF Market!Rename, MarketStages, MarketDisk, Market!disk, Installing
  <2>4. Market!CurrentIsWhole'
    BY <1>0, <1>10, <1>m, <2>0, <2>a, <2>b, <2>c, <2>r, <2>g DEF Market!Rename, MarketStages, MarketDisk, Market!disk, Installing, Market!CurrentIsWhole
  <2> QED
    BY <2>1, <2>2, <2>3, <2>4 DEF MarketInv
<1>11. ASSUME NEW w \in Packagers, Market!Name(w) PROVE MarketInv'
  <2>0. job[w].next = "name" /\ marketOverlapped' = marketOverlapped
    BY <1>11 DEF Market!Name
  <2>a. job[w] \in [op : MarketOps, version : Versions \cup {0}, next : MarketNexts] /\ job[w].op # "none"
    BY <1>0, <2>0 DEF MarketJobs
  <2>b. ~marketOverlapped => \A x \in Packagers \ {w} : job[x].op = "none" /\ job[x].next = "none"
    BY <1>0, <2>a DEF MarketAlone, MarketJobs
  <2>c. job[w].next \in Installing \/ job[w].op = "install" => job[w].version \in Versions
    BY <1>0 DEF MarketJobs
  <2>r. ASSUME Market!Return(w)
        PROVE  /\ MarketJobs' /\ MarketAlone' /\ job'[w].next = "none"
               /\ \A x \in Packagers \ {w} : job'[x] = job[x]
    BY <1>0, <2>0, <2>r, MarketReturns
  <2>g. ASSUME Market!Goto(w, "deploy"), marketBusy' = marketBusy
        PROVE  /\ MarketJobs' /\ MarketAlone'
               /\ job'[w].next = "deploy" /\ job'[w].version = job[w].version
               /\ \A x \in Packagers \ {w} : job'[x] = job[x]
    BY <1>0, <2>0, <2>g, MarketGoes DEF MarketNexts, Installing
  <2>1. MarketDisk'
    BY <1>0, <1>11, <2>0, <2>a, <2>c, <1>m DEF Market!Name, MarketDisk, Market!disk, Installing
  <2>2. MarketJobs' /\ MarketAlone'
    BY <1>11, <2>r, <2>g DEF Market!Name
  <2>3. MarketStages'
    BY <1>0, <1>11, <2>0, <2>a, <2>b, <2>c, <2>r, <2>g DEF Market!Name, MarketStages, MarketDisk, Market!disk, Installing
  <2>4. Market!CurrentIsWhole'
    BY <1>0, <1>11, <1>m, <2>0, <2>a, <2>b, <2>c, <2>r, <2>g DEF Market!Name, MarketStages, MarketDisk, Market!disk, Installing, Market!CurrentIsWhole
  <2> QED
    BY <2>1, <2>2, <2>3, <2>4 DEF MarketInv
<1>12. ASSUME NEW w \in Packagers, Market!Deploy(w) PROVE MarketInv'
  <2>0. job[w].next = "deploy" /\ marketOverlapped' = marketOverlapped
    BY <1>12 DEF Market!Deploy
  <2>a. job[w] \in [op : MarketOps, version : Versions \cup {0}, next : MarketNexts] /\ job[w].op # "none"
    BY <1>0, <2>0 DEF MarketJobs
  <2>b. ~marketOverlapped => \A x \in Packagers \ {w} : job[x].op = "none" /\ job[x].next = "none"
    BY <1>0, <2>a DEF MarketAlone, MarketJobs
  <2>c. job[w].next \in Installing \/ job[w].op = "install" => job[w].version \in Versions
    BY <1>0 DEF MarketJobs
  <2>r. ASSUME Market!Return(w)
        PROVE  /\ MarketJobs' /\ MarketAlone' /\ job'[w].next = "none"
               /\ \A x \in Packagers \ {w} : job'[x] = job[x]
    BY <1>0, <2>0, <2>r, MarketReturns
  <2>d. running' \subseteq running \cup (IF job[w].op = "install" THEN {job[w].version} ELSE {marketCurrent} \ {0})
    BY <1>12 DEF Market!Deploy
  <2>1. MarketDisk'
    BY <1>0, <1>12, <2>0, <2>a, <2>c, <2>d, <1>m DEF Market!Deploy, MarketDisk, Market!disk, Installing
  <2>2. MarketJobs' /\ MarketAlone'
    BY <1>12, <2>r DEF Market!Deploy
  <2>3. MarketStages'
    BY <1>0, <1>12, <2>0, <2>a, <2>b, <2>c, <2>r DEF Market!Deploy, MarketStages, MarketDisk, Market!disk, Installing
  <2>4. Market!CurrentIsWhole'
    BY <1>0, <1>12, <1>m, <2>0, <2>a, <2>b, <2>c, <2>r, <2>d DEF Market!Deploy, MarketStages, MarketDisk, Market!disk, Installing, Market!CurrentIsWhole
  <2> QED
    BY <2>1, <2>2, <2>3, <2>4 DEF MarketInv
<1>13. ASSUME NEW w \in Packagers, Market!Choose(w) PROVE MarketInv'
  <2>0. job[w].next = "choose" /\ marketOverlapped' = marketOverlapped
    BY <1>13 DEF Market!Choose
  <2>a. job[w] \in [op : MarketOps, version : Versions \cup {0}, next : MarketNexts] /\ job[w].op # "none"
    BY <1>0, <2>0 DEF MarketJobs
  <2>b. ~marketOverlapped => \A x \in Packagers \ {w} : job[x].op = "none" /\ job[x].next = "none"
    BY <1>0, <2>a DEF MarketAlone, MarketJobs
  <2>c. job[w].next \in Installing \/ job[w].op = "install" => job[w].version \in Versions
    BY <1>0 DEF MarketJobs
  <2>r. ASSUME Market!Return(w)
        PROVE  /\ MarketJobs' /\ MarketAlone' /\ job'[w].next = "none"
               /\ \A x \in Packagers \ {w} : job'[x] = job[x]
    BY <1>0, <2>0, <2>r, MarketReturns
  <2>g. ASSUME Market!Goto(w, "deploy"), marketBusy' = marketBusy
        PROVE  /\ MarketJobs' /\ MarketAlone'
               /\ job'[w].next = "deploy" /\ job'[w].version = job[w].version
               /\ \A x \in Packagers \ {w} : job'[x] = job[x]
    BY <1>0, <2>0, <2>g, MarketGoes DEF MarketNexts, Installing
  <2>d. marketCurrent' # marketCurrent => marketCurrent' \in Market!Present
    <3>1. Market!Present \in SUBSET Versions /\ Market!Present \in SUBSET Nat
      BY <1>m DEF Market!Present
    <3>2. IsFiniteSet(Market!Present)
      BY <1>m, <3>1, FS_Subset
    <3>3. Cardinality(Market!Present) \in Nat
      BY <3>2, FS_CardinalityType
    <3>4. Cardinality(Market!Present) >= 2 => Market!BeforeLast(Market!Present) \in Market!Present
      BY <3>1, <3>2, LastButOne
    <3>5. Market!Cardinality(Market!Present) = Cardinality(Market!Present)
      BY MarketSizes
    <3>6. marketCurrent' # marketCurrent =>
            ~(Market!Cardinality(Market!Present) < 2) /\ marketCurrent' = Market!BeforeLast(Market!Present)
      BY <1>13 DEF Market!Choose
    <3> QED
      BY <3>3, <3>4, <3>5, <3>6
  <2>e. Market!Present = {v \in Versions : marketKept[v] # "absent"}
    BY DEF Market!Present
  <2>f. ~marketOverlapped /\ marketCurrent' # marketCurrent => marketKept[marketCurrent'] = "whole"
    BY <1>0, <2>d, <2>e DEF MarketStages, MarketDisk
  <2>h. ~marketOverlapped /\ marketCurrent # 0 => marketKept[marketCurrent] = "whole"
    BY <1>0, <2>0, <2>b DEF Market!CurrentIsWhole
  <2>i. UNCHANGED <<marketKept, marketOverlapped>>
    BY <1>13 DEF Market!Choose
  <2>1. MarketDisk'
    BY <1>0, <1>13, <2>0, <2>a, <2>c, <2>d, <2>e, <2>f, <2>h, <2>i, <1>m DEF Market!Choose, MarketDisk, Market!disk, Installing
  <2>2. MarketJobs' /\ MarketAlone'
    BY <1>13, <2>r, <2>g DEF Market!Choose
  <2>3. MarketStages'
    BY <1>0, <1>13, <2>0, <2>a, <2>b, <2>c, <2>r, <2>g DEF Market!Choose, MarketStages, MarketDisk, Market!disk, Installing
  <2>4. Market!CurrentIsWhole'
    BY <2>f, <2>h, <2>i DEF Market!CurrentIsWhole
  <2> QED
    BY <2>1, <2>2, <2>3, <2>4 DEF MarketInv
<1>14. ASSUME NEW w \in Packagers, Market!Undeploy(w) PROVE MarketInv'
  <2>0. job[w].next = "undeploy" /\ marketOverlapped' = marketOverlapped
    BY <1>14 DEF Market!Undeploy
  <2>a. job[w] \in [op : MarketOps, version : Versions \cup {0}, next : MarketNexts] /\ job[w].op # "none"
    BY <1>0, <2>0 DEF MarketJobs
  <2>b. ~marketOverlapped => \A x \in Packagers \ {w} : job[x].op = "none" /\ job[x].next = "none"
    BY <1>0, <2>a DEF MarketAlone, MarketJobs
  <2>c. job[w].next \in Installing \/ job[w].op = "install" => job[w].version \in Versions
    BY <1>0 DEF MarketJobs
  <2>g. ASSUME Market!Goto(w, "delete"), marketBusy' = marketBusy
        PROVE  /\ MarketJobs' /\ MarketAlone'
               /\ job'[w].next = "delete" /\ job'[w].version = job[w].version
               /\ \A x \in Packagers \ {w} : job'[x] = job[x]
    BY <1>0, <2>0, <2>g, MarketGoes DEF MarketNexts, Installing
  <2>1. MarketDisk'
    BY <1>0, <1>14, <2>0, <2>a, <2>c, <1>m DEF Market!Undeploy, MarketDisk, Market!disk, Installing
  <2>2. MarketJobs' /\ MarketAlone'
    BY <1>14, <2>g DEF Market!Undeploy
  <2>3. MarketStages'
    BY <1>0, <1>14, <2>0, <2>a, <2>b, <2>c, <2>g DEF Market!Undeploy, MarketStages, MarketDisk, Market!disk, Installing
  <2>4. Market!CurrentIsWhole'
    BY <1>0, <1>14, <1>m, <2>0, <2>a, <2>b, <2>c, <2>g DEF Market!Undeploy, MarketStages, MarketDisk, Market!disk, Installing, Market!CurrentIsWhole
  <2> QED
    BY <2>1, <2>2, <2>3, <2>4 DEF MarketInv
<1>15. ASSUME NEW w \in Packagers, Market!Delete(w) PROVE MarketInv'
  <2>0. job[w].next = "delete" /\ marketOverlapped' = marketOverlapped
    BY <1>15 DEF Market!Delete
  <2>a. job[w] \in [op : MarketOps, version : Versions \cup {0}, next : MarketNexts] /\ job[w].op # "none"
    BY <1>0, <2>0 DEF MarketJobs
  <2>b. ~marketOverlapped => \A x \in Packagers \ {w} : job[x].op = "none" /\ job[x].next = "none"
    BY <1>0, <2>a DEF MarketAlone, MarketJobs
  <2>c. job[w].next \in Installing \/ job[w].op = "install" => job[w].version \in Versions
    BY <1>0 DEF MarketJobs
  <2>r. ASSUME Market!Return(w)
        PROVE  /\ MarketJobs' /\ MarketAlone' /\ job'[w].next = "none"
               /\ \A x \in Packagers \ {w} : job'[x] = job[x]
    BY <1>0, <2>0, <2>r, MarketReturns
  <2>1. MarketDisk'
    BY <1>0, <1>15, <2>0, <2>a, <2>c, <1>m DEF Market!Delete, MarketDisk, Market!disk, Installing
  <2>2. MarketJobs' /\ MarketAlone'
    BY <1>15, <2>r DEF Market!Delete
  <2>3. MarketStages'
    BY <1>0, <1>15, <2>0, <2>a, <2>b, <2>c, <2>r DEF Market!Delete, MarketStages, MarketDisk, Market!disk, Installing
  <2>4. Market!CurrentIsWhole'
    BY <1>0, <1>15, <1>m, <2>0, <2>a, <2>b, <2>c, <2>r DEF Market!Delete, MarketStages, MarketDisk, Market!disk, Installing, Market!CurrentIsWhole
  <2> QED
    BY <2>1, <2>2, <2>3, <2>4 DEF MarketInv
<1>16. CASE UNCHANGED marketVars
  BY <1>0, <1>16 DEF marketVars, MarketInv, MarketDisk, MarketJobs, MarketAlone, MarketStages, Market!CurrentIsWhole
<1> QED
  BY <1>1, <1>2, <1>3, <1>4, <1>5, <1>6, <1>7, <1>8, <1>9, <1>10, <1>11, <1>12, <1>13, <1>14, <1>15, <1>16 DEF Market!Next

LEMMA MarketHolds == MarketInv => Market!TypeOK /\ Market!CurrentIsWhole
BY DEF MarketInv, MarketDisk, MarketJobs, Market!TypeOK

-----------------------------------------------------------------------------
(* CredentialFile *)

FileContents == (SUBSET Changes) \cup {Credentials!Empty, Credentials!Torn}
Going == {"read", "writing", "written"}

CredentialsTyped ==
  /\ inode \in [Credentials!Inodes -> FileContents]
  /\ destination \in Credentials!Inodes /\ temporary \in Credentials!Inodes \cup {0}
  /\ credentialsAt \in [Changes -> {"idle", "done", "failed"} \cup Going]
  /\ base \in [Changes -> SUBSET Changes] /\ opened \in [Changes -> Credentials!Inodes \cup {0}]

\* The desktop's store has one file and no other name; the browser's two names
\* never refer to one file.
CredentialNames ==
  /\ \A c \in Changes : credentialsAt[c] \in {"idle", "read"} => opened[c] = 0
  /\ \A c \in Changes : credentialsAt[c] \in {"writing", "written"} => opened[c] \in Credentials!Inodes
  /\ inPlace => temporary = 0
  /\ inPlace => \A c \in Changes : credentialsAt[c] # "written" /\ (credentialsAt[c] = "writing" => opened[c] = destination)
  /\ ~inPlace => temporary # destination

CredentialsAlone ==
  ~credentialsOverlapped => \A c, d \in Changes : credentialsAt[c] \in Going /\ credentialsAt[d] \in Going => c = d

\* What a call will write has its own record, and no other one of its key.
CredentialBases ==
  \A c \in Changes : credentialsAt[c] \in Going =>
    /\ \A d \in base[c] : KeyOf[d] = KeyOf[c] => d = c
    /\ c \in Removes \/ c \in base[c]

CredentialsWritten ==
  ~credentialsOverlapped => \A c \in Changes :
    /\ credentialsAt[c] = "writing" => inode[opened[c]] = Credentials!Empty
    /\ credentialsAt[c] = "written" => inode[opened[c]] = base[c]
    /\ ~inPlace /\ credentialsAt[c] \in {"writing", "written"} => opened[c] = temporary

\* What the last call about its key has set is in the file and in what is written next.
LastOfKey(d) ==
  /\ credentialsAt[d] = "done" /\ d \notin Removes
  /\ \A e \in Changes \ {d} : KeyOf[e] = KeyOf[d] => credentialsAt[e] = "idle"
CredentialsKept ==
  ~credentialsOverlapped => \A d \in Changes : LastOfKey(d) =>
    /\ Credentials!Readable(inode[destination]) => d \in inode[destination]
    /\ \A c \in Changes : credentialsAt[c] \in Going => d \in base[c]

CredentialsInv ==
  CredentialsTyped /\ CredentialNames /\ CredentialsAlone /\ CredentialBases /\ CredentialsWritten
    /\ Credentials!WholeUnlessOverlapped /\ CredentialsKept


\* The sizes of sets, as the component and as the library name them.
LEMMA CredentialSizes == \A S : (Credentials!IsFiniteSet(S) <=> IsFiniteSet(S)) /\ Credentials!Cardinality(S) = Cardinality(S)
BY DEF Credentials!IsFiniteSet, IsFiniteSet, Credentials!Cardinality, Cardinality

\* No set of records is what an empty or a torn file holds.
LEMMA RecordsAreReadable ==
  /\ Credentials!Empty # Credentials!Torn
  /\ \A records \in SUBSET Changes : records # Credentials!Empty /\ records # Credentials!Torn
<1>1. "empty" \notin Changes /\ "torn" \notin Changes
  BY ServiceBounds DEF ServiceBounds, Credentials!CallsAreGiven
<1>2. "empty" \in Credentials!Empty /\ "torn" \in Credentials!Torn /\ "torn" \notin Credentials!Empty
  BY DEF Credentials!Empty, Credentials!Torn
<1> QED
  BY <1>1, <1>2

\* A name is free for the call that opens a file: there are more inodes than calls.
LEMMA FreshIsFree ==
  ASSUME CredentialsTyped, CredentialNames, NEW c \in Changes, credentialsAt[c] = "read"
  PROVE  Credentials!Fresh \in Credentials!Inodes /\ Credentials!Fresh # destination
<1> DEFINE free(i) == i # destination /\ \A d \in Changes : Credentials!Busy(d) => opened[d] # i
<1> DEFINE user == [i \in Credentials!Inodes |-> IF i = destination THEN c ELSE CHOOSE d \in Changes : opened[d] = i]
<1>1. IsFiniteSet(Changes)
  BY ServiceBounds, CredentialSizes DEF ServiceBounds, Credentials!CallsAreGiven
<1>2. Cardinality(Changes) \in Nat
  BY <1>1, FS_CardinalityType
<1>3. /\ Credentials!Inodes = 1..(Cardinality(Changes) + 1)
      /\ IsFiniteSet(Credentials!Inodes) /\ Cardinality(Credentials!Inodes) = Cardinality(Changes) + 1
  <2>1. Credentials!Inodes = 1..(Cardinality(Changes) + 1)
    BY CredentialSizes DEF Credentials!Inodes
  <2> QED
    BY <1>2, <2>1, FS_Interval
<1>4. \E i \in Credentials!Inodes : free(i)
  <2> SUFFICES ASSUME \A i \in Credentials!Inodes : ~free(i) PROVE FALSE
    OBVIOUS
  <2>1. \A i \in Credentials!Inodes : i # destination => \E d \in Changes : opened[d] = i
    OBVIOUS
  <2> HIDE DEF free
  <2>2. \A i \in Credentials!Inodes : user[i] \in Changes /\ (i # destination => opened[user[i]] = i)
    BY <2>1
  <2>3. opened[c] \notin Credentials!Inodes
    BY <1>2, <1>3 DEF CredentialNames
  <2>4. \A i, j \in Credentials!Inodes : user[i] = user[j] => i = j
    <3>1. \A i \in Credentials!Inodes : i # destination => user[i] # c
      BY <2>2, <2>3
    <3>2. user[destination] = c
      BY DEF CredentialsTyped
    <3> HIDE DEF user
    <3> QED
      BY <2>2, <3>1, <3>2
  <2>5. user \in [Credentials!Inodes -> Changes]
    BY <2>2
  <2> HIDE DEF user
  <2>6. Cardinality(Changes) < Cardinality(Credentials!Inodes)
    BY <1>2, <1>3
  <2>i. IsFiniteSet(Credentials!Inodes)
    BY <1>3
  <2>7. \E i, j \in Credentials!Inodes : i # j /\ user[i] = user[j]
    BY <1>1, <2>i, <2>5, <2>6, FS_PigeonHole
  <2> QED
    BY <2>4, <2>7
<1>5. Credentials!Fresh \in Credentials!Inodes /\ free(Credentials!Fresh)
  BY <1>4 DEF Credentials!Fresh
<1> QED
  BY <1>5

LEMMA CredentialsInit == Credentials!Init => CredentialsInv
<1> SUFFICES ASSUME Credentials!Init PROVE CredentialsInv
  OBVIOUS
<1>1. 1 \in Credentials!Inodes
  <2>1. Cardinality(Changes) \in Nat
    BY ServiceBounds, CredentialSizes, FS_CardinalityType DEF ServiceBounds, Credentials!CallsAreGiven
  <2> QED
    BY <2>1, CredentialSizes DEF Credentials!Inodes
<1>2. CredentialsTyped
  BY <1>1 DEF Credentials!Init, CredentialsTyped, FileContents, Going
<1>3. CredentialNames
  BY DEF Credentials!Init, CredentialNames
<1>4. CredentialsAlone /\ CredentialBases /\ CredentialsWritten /\ CredentialsKept
  BY DEF Credentials!Init, CredentialsAlone, CredentialBases, CredentialsWritten, CredentialsKept, LastOfKey, Going
<1>5. Credentials!WholeUnlessOverlapped
  BY <1>1, RecordsAreReadable DEF Credentials!Init, Credentials!WholeUnlessOverlapped, Credentials!Readable
<1> QED
  BY <1>2, <1>3, <1>4, <1>5 DEF CredentialsInv

\* Where only the place of calls changes, what is written and kept stays.
LEMMA CredentialsSteps == CredentialsInv /\ [Credentials!Next]_credentialsVars => CredentialsInv'
<1> SUFFICES ASSUME CredentialsInv, [Credentials!Next]_credentialsVars PROVE CredentialsInv'
  OBVIOUS
<1>0. /\ CredentialsTyped /\ CredentialNames /\ CredentialsAlone /\ CredentialBases /\ CredentialsWritten
      /\ Credentials!WholeUnlessOverlapped /\ CredentialsKept
  BY DEF CredentialsInv
<1>1. CASE Credentials!Crash
  <2>1. /\ \A c \in Changes : credentialsAt'[c] = credentialsAt[c] \/ credentialsAt'[c] = "failed"
        /\ \A c \in Changes : credentialsAt'[c] \notin Going
        /\ credentialsAt' \in [Changes -> {"idle", "done", "failed"} \cup Going]
    BY <1>0, <1>1 DEF Credentials!Crash, Credentials!Busy, CredentialsTyped, Going
  <2>2. temporary' = 0 /\ UNCHANGED <<inPlace, inode, destination, base, opened, credentialsOverlapped>>
    BY <1>1 DEF Credentials!Crash
  <2>3. 0 \notin Credentials!Inodes
    BY DEF Credentials!Inodes
  <2>4. CredentialsTyped'
    BY <1>0, <2>1, <2>2 DEF CredentialsTyped, Credentials!Inodes
  <2>5. CredentialNames'
    BY <1>0, <2>1, <2>2, <2>3 DEF CredentialsTyped, CredentialNames, Going, Credentials!Inodes
  <2>6. CredentialsAlone' /\ CredentialBases' /\ CredentialsWritten'
    BY <2>1 DEF CredentialsAlone, CredentialBases, CredentialsWritten, Going
  <2>7. Credentials!WholeUnlessOverlapped'
    BY <1>0, <2>2 DEF Credentials!WholeUnlessOverlapped, Credentials!Readable
  <2>8. CredentialsKept'
    <3>1. \A d \in Changes : LastOfKey(d)' => LastOfKey(d)
      BY <2>1 DEF LastOfKey
    <3> QED
      BY <1>0, <2>1, <2>2, <3>1 DEF CredentialsKept, Credentials!Readable
  <2> QED
    BY <2>4, <2>5, <2>6, <2>7, <2>8 DEF CredentialsInv
<1>2. ASSUME NEW c \in Changes, Credentials!Read(c) PROVE CredentialsInv'
  <2>1. /\ credentialsAt[c] = "idle" /\ credentialsAt' = [credentialsAt EXCEPT ![c] = credentialsAt'[c]]
        /\ credentialsAt'[c] \in {"read", "failed"}
        /\ UNCHANGED <<inPlace, inode, destination, temporary, opened, credentialsCrashes>>
    BY <1>0, <1>2 DEF Credentials!Read, CredentialsTyped
  <2>2. CASE credentialsAt'[c] = "failed"
    <3>1. UNCHANGED base /\ (~credentialsOverlapped' => ~credentialsOverlapped)
      BY <1>0, <1>2, <2>2 DEF Credentials!Read, CredentialsTyped
    <3>2. credentialsAt' = [credentialsAt EXCEPT ![c] = "failed"]
      BY <2>1, <2>2
    <3>3. \A d \in Changes : credentialsAt'[d] \in Going => credentialsAt[d] = credentialsAt'[d]
      BY <1>0, <3>2 DEF CredentialsTyped, Going
    <3>4. CredentialsTyped' /\ CredentialNames'
      BY <1>0, <2>1, <3>1, <3>2 DEF CredentialsTyped, CredentialNames, Credentials!Inodes
    <3>5. CredentialsAlone' /\ CredentialBases'
      BY <1>0, <3>1, <3>3 DEF CredentialsAlone, CredentialBases
    <3>6. CredentialsWritten'
      BY <1>0, <2>1, <3>1, <3>3 DEF CredentialsWritten, Going
    <3>7. Credentials!WholeUnlessOverlapped'
      BY <1>0, <2>1, <3>1 DEF Credentials!WholeUnlessOverlapped, Credentials!Readable
    <3>8. CredentialsKept'
      <4>1. \A d \in Changes : LastOfKey(d)' => LastOfKey(d)
        BY <1>0, <2>1, <3>2 DEF LastOfKey, CredentialsTyped
      <4> QED
        BY <1>0, <2>1, <3>1, <3>3, <4>1 DEF CredentialsKept, Credentials!Readable
    <3> QED
      BY <3>4, <3>5, <3>6, <3>7, <3>8 DEF CredentialsInv
  <2>3. CASE credentialsAt'[c] = "read"
    <3>1. /\ Credentials!Readable(inode[destination]) /\ base' = [base EXCEPT ![c] = Credentials!Changed(c, inode[destination])]
          /\ credentialsOverlapped' = (credentialsOverlapped \/ ~Credentials!NoOther(c))
      BY <1>0, <1>2, <2>3 DEF Credentials!Read, CredentialsTyped
    <3>2. credentialsAt' = [credentialsAt EXCEPT ![c] = "read"]
      BY <2>1, <2>3
    <3>3. inode[destination] \in SUBSET Changes
      BY <1>0, <3>1 DEF CredentialsTyped, FileContents, Credentials!Readable
    <3>4. Credentials!Changed(c, inode[destination]) \in SUBSET Changes
      BY <3>3 DEF Credentials!Changed
    <3>5. ~credentialsOverlapped' => ~credentialsOverlapped /\ \A d \in Changes \ {c} : credentialsAt[d] \notin Going
      BY <3>1 DEF Credentials!NoOther, Credentials!Busy, Going
    <3>6. credentialsAt'[c] = "read" /\ \A d \in Changes \ {c} : credentialsAt'[d] = credentialsAt[d] /\ base'[d] = base[d]
      BY <1>0, <3>1, <3>2 DEF CredentialsTyped
    <3>7. base'[c] = Credentials!Changed(c, inode[destination])
      BY <1>0, <3>1 DEF CredentialsTyped
    <3>8. CredentialsTyped'
      BY <1>0, <2>1, <3>1, <3>2, <3>4 DEF CredentialsTyped, Credentials!Inodes, Going
    <3>9. CredentialNames'
      BY <1>0, <2>1, <3>6 DEF CredentialNames, Credentials!Inodes
    <3>10. CredentialsAlone'
      BY <3>5, <3>6 DEF CredentialsAlone
    <3>11. CredentialBases'
      BY <1>0, <3>6, <3>7 DEF CredentialBases, Credentials!Changed
    <3>12. CredentialsWritten'
      BY <2>1, <3>5, <3>6 DEF CredentialsWritten, Going
    <3>13. Credentials!WholeUnlessOverlapped'
      BY <2>1, <3>1 DEF Credentials!WholeUnlessOverlapped, Credentials!Readable
    <3>14. CredentialsKept'
      <4> SUFFICES ASSUME ~credentialsOverlapped', NEW d \in Changes, LastOfKey(d)'
                   PROVE  /\ Credentials!Readable(inode[destination]) => d \in inode[destination]
                          /\ \A e \in Changes : credentialsAt'[e] \in Going => d \in base'[e]
        BY <2>1 DEF CredentialsKept, Credentials!Readable
      <4>1. d # c /\ KeyOf[c] # KeyOf[d]
        BY <3>6 DEF LastOfKey
      <4>2. LastOfKey(d)
        BY <2>1, <3>6, <4>1 DEF LastOfKey
      <4>3. d \in inode[destination]
        BY <1>0, <3>1, <3>5, <4>2 DEF CredentialsKept
      <4>4. d \in base'[c]
        BY <3>7, <4>1, <4>3 DEF Credentials!Changed
      <4> QED
        BY <3>5, <3>6, <4>3, <4>4
    <3> QED
      BY <3>8, <3>9, <3>10, <3>11, <3>12, <3>13, <3>14 DEF CredentialsInv
  <2> QED
    BY <2>1, <2>2, <2>3

<1>3. ASSUME NEW c \in Changes, Credentials!OpenFile(c) PROVE CredentialsInv'
  <2>1. /\ credentialsAt[c] = "read" /\ credentialsAt' = [credentialsAt EXCEPT ![c] = "writing"]
        /\ opened' = [opened EXCEPT ![c] = Credentials!Target]
        /\ inode' = [inode EXCEPT ![Credentials!Target] = Credentials!Empty]
        /\ temporary' = IF Credentials!Target = destination THEN temporary ELSE Credentials!Target
        /\ UNCHANGED <<inPlace, destination, base, credentialsOverlapped, credentialsCrashes>>
    BY <1>3 DEF Credentials!OpenFile
  <2>2. /\ Credentials!Target \in Credentials!Inodes
        /\ inPlace => Credentials!Target = destination
        /\ ~inPlace => Credentials!Target # destination
    BY <1>0, <2>1, FreshIsFree DEF Credentials!Target, CredentialsTyped, CredentialNames
  <2>3. /\ credentialsAt'[c] = "writing" /\ opened'[c] = Credentials!Target
        /\ inode'[Credentials!Target] = Credentials!Empty
        /\ \A d \in Changes \ {c} : credentialsAt'[d] = credentialsAt[d] /\ opened'[d] = opened[d]
        /\ \A i \in Credentials!Inodes \ {Credentials!Target} : inode'[i] = inode[i]
    BY <1>0, <2>1, <2>2 DEF CredentialsTyped
  <2>4. ~credentialsOverlapped => \A d \in Changes \ {c} : credentialsAt[d] \notin Going
    BY <1>0, <2>1 DEF CredentialsAlone, Going
  <2>5. CredentialsTyped'
    <3>1. Credentials!Empty \in FileContents
      BY DEF FileContents
    <3>2. temporary' \in Credentials!Inodes \cup {0}
      BY <1>0, <2>1, <2>2 DEF CredentialsTyped
    <3> QED
      BY <1>0, <2>1, <2>2, <3>1, <3>2 DEF CredentialsTyped, Credentials!Inodes, Going
  <2>6. CredentialNames'
    <3>1. UNCHANGED Credentials!Inodes
      BY DEF Credentials!Inodes
    <3> QED
      BY <1>0, <2>1, <2>2, <2>3, <3>1 DEF CredentialNames
  <2>7. CredentialsAlone' /\ CredentialBases'
    BY <1>0, <2>1, <2>3 DEF CredentialsAlone, CredentialBases, Going
  <2>8. CredentialsWritten'
    BY <2>1, <2>2, <2>3, <2>4 DEF CredentialsWritten, Going
  <2>9. Credentials!WholeUnlessOverlapped'
    BY <1>0, <2>1, <2>2, <2>3 DEF Credentials!WholeUnlessOverlapped, Credentials!Readable, CredentialsTyped
  <2>10. CredentialsKept'
    <3> SUFFICES ASSUME ~credentialsOverlapped', NEW d \in Changes, LastOfKey(d)'
                 PROVE  /\ Credentials!Readable(inode'[destination]) => d \in inode'[destination]
                        /\ \A e \in Changes : credentialsAt'[e] \in Going => d \in base[e]
      BY <2>1 DEF CredentialsKept, Credentials!Readable
    <3>1. LastOfKey(d)
      BY <2>1, <2>3 DEF LastOfKey
    <3>2. /\ Credentials!Readable(inode[destination]) => d \in inode[destination]
          /\ \A e \in Changes : credentialsAt[e] \in Going => d \in base[e]
      BY <1>0, <2>1, <3>1 DEF CredentialsKept
    <3>3. inode'[destination] = inode[destination] \/ ~Credentials!Readable(inode'[destination])
      BY <1>0, <2>2, <2>3 DEF CredentialsTyped, Credentials!Readable
    <3> QED
      BY <2>1, <2>3, <3>2, <3>3 DEF Going
  <2> QED
    BY <2>5, <2>6, <2>7, <2>8, <2>9, <2>10 DEF CredentialsInv
<1>4. ASSUME NEW c \in Changes, Credentials!WriteFile(c) PROVE CredentialsInv'
  <2> DEFINE next == IF opened[c] = destination /\ inPlace THEN "done" ELSE "written"
  <2>1. /\ credentialsAt[c] = "writing" /\ credentialsAt' = [credentialsAt EXCEPT ![c] = next]
        /\ UNCHANGED <<inPlace, destination, temporary, base, opened, credentialsOverlapped, credentialsCrashes>>
    BY <1>4 DEF Credentials!WriteFile
  <2>2. PICK written \in {base[c], Credentials!Torn} :
          /\ inode' = [inode EXCEPT ![opened[c]] = written]
          /\ written = Credentials!Torn => inode[opened[c]] # Credentials!Empty
    BY <1>4 DEF Credentials!WriteFile
  <2>3. opened[c] \in Credentials!Inodes /\ (inPlace => opened[c] = destination)
    BY <1>0, <2>1 DEF CredentialNames
  <2>4. /\ credentialsAt'[c] = next /\ inode'[opened[c]] = written
        /\ \A d \in Changes \ {c} : credentialsAt'[d] = credentialsAt[d]
        /\ \A i \in Credentials!Inodes \ {opened[c]} : inode'[i] = inode[i]
    BY <1>0, <2>1, <2>2, <2>3 DEF CredentialsTyped
  <2>5. /\ inPlace => next = "done"
        /\ ~inPlace => next = "written"
    BY <2>3
  <2> HIDE DEF next
  <2>6. ~credentialsOverlapped =>
          /\ \A d \in Changes \ {c} : credentialsAt[d] \notin Going
          /\ written = base[c]
          /\ ~inPlace => opened[c] = temporary /\ temporary # destination
    BY <1>0, <2>1, <2>2 DEF CredentialsAlone, CredentialsWritten, CredentialNames, Going
  <2>7. CredentialsTyped'
    <3>1. written \in FileContents
      BY <1>0, <2>2 DEF FileContents, CredentialsTyped
    <3> QED
      BY <1>0, <2>1, <2>2, <2>3, <2>5, <3>1 DEF CredentialsTyped, Credentials!Inodes, Going
  <2>8. CredentialNames'
    <3>1. UNCHANGED Credentials!Inodes
      BY DEF Credentials!Inodes
    <3> QED
      BY <1>0, <2>1, <2>3, <2>4, <2>5, <3>1 DEF CredentialNames
  <2>9. CredentialsAlone' /\ CredentialBases'
    BY <1>0, <2>1, <2>4, <2>5 DEF CredentialsAlone, CredentialBases, Going
  <2>10. CredentialsWritten'
    BY <2>1, <2>4, <2>5, <2>6 DEF CredentialsWritten, Going
  <2>11. Credentials!WholeUnlessOverlapped'
    <3> SUFFICES ASSUME ~inPlace, ~credentialsOverlapped PROVE Credentials!Readable(inode'[destination])
      BY <2>1 DEF Credentials!WholeUnlessOverlapped, Credentials!Readable
    <3>1. inode'[destination] = inode[destination]
      BY <1>0, <2>4, <2>6 DEF CredentialsTyped
    <3> QED
      BY <1>0, <3>1 DEF Credentials!WholeUnlessOverlapped
  <2>12. CredentialsKept'
    <3> SUFFICES ASSUME ~credentialsOverlapped, NEW d \in Changes, LastOfKey(d)'
                 PROVE  /\ Credentials!Readable(inode'[destination]) => d \in inode'[destination]
                        /\ \A e \in Changes : credentialsAt'[e] \in Going => d \in base[e]
      BY <2>1 DEF CredentialsKept, Credentials!Readable
    <3>1. CASE d = c
      <4>1. inPlace /\ c \notin Removes
        BY <2>4, <2>5, <3>1 DEF LastOfKey
      <4>2. inode'[destination] = base[c]
        BY <2>3, <2>4, <2>6, <4>1
      <4>3. c \in base[c]
        BY <1>0, <2>1, <4>1 DEF CredentialBases, Going
      <4>4. \A e \in Changes : credentialsAt'[e] \notin Going
        BY <2>4, <2>5, <2>6, <4>1 DEF Going
      <4> QED
        BY <3>1, <4>2, <4>3, <4>4
    <3>2. CASE d # c
      <4>1. LastOfKey(d)
        BY <2>1, <2>4, <2>5, <3>2 DEF LastOfKey
      <4>2. /\ Credentials!Readable(inode[destination]) => d \in inode[destination]
            /\ \A e \in Changes : credentialsAt[e] \in Going => d \in base[e]
        BY <1>0, <4>1 DEF CredentialsKept
      <4>3. inode'[destination] \in {inode[destination], base[c]}
        BY <1>0, <2>3, <2>4, <2>6 DEF CredentialsTyped
      <4>4. d \in base[c]
        BY <2>1, <4>2 DEF Going
      <4> QED
        BY <2>1, <2>4, <4>2, <4>3, <4>4 DEF Going
    <3> QED
      BY <3>1, <3>2
  <2> QED
    BY <2>7, <2>8, <2>9, <2>10, <2>11, <2>12 DEF CredentialsInv
<1>5. ASSUME NEW c \in Changes, Credentials!Rename(c) PROVE CredentialsInv'
  <2>0. 0 \notin Credentials!Inodes
    BY DEF Credentials!Inodes
  <2>1. /\ credentialsAt[c] = "written" /\ temporary' = 0
        /\ credentialsAt' = [credentialsAt EXCEPT ![c] = IF temporary = 0 THEN "failed" ELSE "done"]
        /\ destination' = IF temporary = 0 THEN destination ELSE temporary
        /\ UNCHANGED <<inPlace, inode, base, opened, credentialsOverlapped, credentialsCrashes>>
    BY <1>5 DEF Credentials!Rename
  <2>2. credentialsAt'[c] \in {"failed", "done"} /\ \A d \in Changes \ {c} : credentialsAt'[d] = credentialsAt[d]
    BY <1>0, <2>1 DEF CredentialsTyped
  <2>3. ~inPlace /\ destination' \in Credentials!Inodes
    BY <1>0, <2>1 DEF CredentialNames, CredentialsTyped
  <2>4. ~credentialsOverlapped =>
          /\ \A d \in Changes \ {c} : credentialsAt[d] \notin Going
          /\ destination' = temporary /\ temporary = opened[c] /\ inode[destination'] = base[c]
    BY <1>0, <2>0, <2>1 DEF CredentialsAlone, CredentialsWritten, CredentialNames, Going
  <2>5. CredentialsTyped'
    BY <1>0, <2>1, <2>3 DEF CredentialsTyped, Credentials!Inodes, Going
  <2>6. CredentialNames'
    <3>1. UNCHANGED Credentials!Inodes
      BY DEF Credentials!Inodes
    <3> QED
      BY <1>0, <2>0, <2>1, <2>2, <2>3, <3>1 DEF CredentialNames
  <2>7. CredentialsAlone' /\ CredentialBases'
    BY <1>0, <2>1, <2>2 DEF CredentialsAlone, CredentialBases, Going
  <2>8. CredentialsWritten'
    BY <2>1, <2>2, <2>4 DEF CredentialsWritten, Going
  <2>9. base[c] \in SUBSET Changes
    BY <1>0 DEF CredentialsTyped
  <2>10. Credentials!WholeUnlessOverlapped'
    BY <2>1, <2>4, <2>9, RecordsAreReadable DEF Credentials!WholeUnlessOverlapped, Credentials!Readable
  <2>11. CredentialsKept'
    <3> SUFFICES ASSUME ~credentialsOverlapped, NEW d \in Changes, LastOfKey(d)'
                 PROVE  /\ d \in inode[destination']
                        /\ \A e \in Changes : credentialsAt'[e] \notin Going
      BY <2>1 DEF CredentialsKept, Credentials!Readable
    <3>1. \A e \in Changes : credentialsAt'[e] \notin Going
      BY <2>2, <2>4 DEF Going
    <3>2. CASE d = c
      BY <1>0, <2>1, <2>4, <3>1, <3>2 DEF CredentialBases, LastOfKey, Going
    <3>3. CASE d # c
      <4>1. LastOfKey(d)
        BY <2>1, <2>2, <3>3 DEF LastOfKey
      <4>2. d \in base[c]
        BY <1>0, <2>1, <4>1 DEF CredentialsKept, Going
      <4> QED
        BY <2>4, <3>1, <4>2
    <3> QED
      BY <3>2, <3>3
  <2> QED
    BY <2>5, <2>6, <2>7, <2>8, <2>10, <2>11 DEF CredentialsInv
<1>6. CASE UNCHANGED credentialsVars
  <2> USE <1>6 DEF credentialsVars
  <2>1. CredentialsTyped' /\ CredentialNames'
    BY <1>0 DEF CredentialsTyped, CredentialNames, Credentials!Inodes
  <2>2. CredentialsAlone' /\ CredentialBases' /\ CredentialsWritten'
    BY <1>0 DEF CredentialsAlone, CredentialBases, CredentialsWritten
  <2>3. Credentials!WholeUnlessOverlapped' /\ CredentialsKept'
    BY <1>0 DEF Credentials!WholeUnlessOverlapped, CredentialsKept, LastOfKey, Credentials!Readable
  <2> QED
    BY <2>1, <2>2, <2>3 DEF CredentialsInv
<1> QED
  BY <1>1, <1>2, <1>3, <1>4, <1>5, <1>6 DEF Credentials!Next

LEMMA CredentialsHold == CredentialsInv => Credentials!TypeOK /\ Credentials!WholeUnlessOverlapped
BY DEF CredentialsInv, CredentialsTyped, FileContents, Going, Credentials!TypeOK, Credentials!Readable

\* A call that is done has written what it read and changed, alone.
LEMMA ChangeIsExact ==
  ASSUME CredentialsInv, CredentialsInv', [Credentials!Next]_credentialsVars,
         NEW c \in Changes, credentialsAt[c] # "done", credentialsAt'[c] = "done", ~credentialsOverlapped
  PROVE  /\ \A d \in base[c] : KeyOf[d] = KeyOf[c] => d = c
         /\ c \in Removes \/ c \in inode'[destination']
         /\ \A d \in Changes : credentialsAt[d] = "done" /\ d \notin Removes /\ Credentials!Sole(d, c)
              => d \in inode'[destination']
<1>0. CredentialsTyped /\ CredentialNames /\ CredentialsAlone /\ CredentialBases /\ CredentialsWritten /\ CredentialsKept
  BY DEF CredentialsInv
<1>1. credentialsAt[c] \in Going /\ inode'[destination'] = base[c]
  <2>1. CASE Credentials!Crash
    BY <2>1 DEF Credentials!Crash
  <2>2. ASSUME NEW d \in Changes, Credentials!Read(d) \/ Credentials!OpenFile(d) PROVE FALSE
    BY <1>0, <2>2 DEF Credentials!Read, Credentials!OpenFile, CredentialsTyped
  <2>3. ASSUME NEW d \in Changes, Credentials!WriteFile(d) PROVE credentialsAt[c] \in Going /\ inode'[destination'] = base[c]
    <3>1. d = c /\ credentialsAt[c] = "writing" /\ opened[c] = destination /\ UNCHANGED destination
      BY <1>0, <2>3 DEF Credentials!WriteFile, CredentialsTyped
    <3>2. inode[opened[c]] = Credentials!Empty
      BY <1>0, <3>1 DEF CredentialsWritten
    <3>3. inode' = [inode EXCEPT ![opened[c]] = base[c]]
      BY <2>3, <3>1, <3>2 DEF Credentials!WriteFile
    <3> QED
      BY <1>0, <3>1, <3>3 DEF CredentialsTyped, Going
  <2>4. ASSUME NEW d \in Changes, Credentials!Rename(d) PROVE credentialsAt[c] \in Going /\ inode'[destination'] = base[c]
    <3>1. d = c /\ credentialsAt[c] = "written" /\ destination' = temporary /\ UNCHANGED <<inode, inPlace>>
      BY <1>0, <2>4 DEF Credentials!Rename, CredentialsTyped
    <3>2. ~inPlace
      BY <1>0, <3>1 DEF CredentialNames
    <3> QED
      BY <1>0, <3>1, <3>2 DEF CredentialsWritten, Going
  <2>5. CASE UNCHANGED credentialsVars
    BY <2>5 DEF credentialsVars
  <2> QED
    BY <2>1, <2>2, <2>3, <2>4, <2>5 DEF Credentials!Next
<1>2. \A d \in Changes : credentialsAt[d] = "done" /\ d \notin Removes /\ Credentials!Sole(d, c) => LastOfKey(d)
  BY DEF Credentials!Sole, LastOfKey
<1> QED
  BY <1>0, <1>1, <1>2 DEF CredentialBases, CredentialsKept

-----------------------------------------------------------------------------
(* ClaudeSession *)

ClaudeStates ==
  /\ session \in {"none", "created", "refused"}
  /\ phase \in {"unreserved", "reserved", "registered", "running", "cleaning", "cleaned", "faulted"}
  /\ claudeAt \in {"none", "reserve", "reserved", "register", "registered", "grant", "activate", "release", "up",
                   "failing", "failed"}
  /\ claudeCleanup \in {"none", "revoke", "terminate", "count", "kill", "recount", "cleaned", "faulted"}
  /\ claudeRow \in {"none", "registered", "spawning", "started", "ready", "spawn-failed", "signalled"}
  /\ claudeHost \in {"none", "held", "up", "gone"}
  /\ claudeReserving \in {"none", "pending", "done", "failed"}
  /\ claudeRevoking \in {"none", "waiting", "asked", "done", "failed"}
  /\ claudeLease \in {"held", "consumed", "disposed"}
  /\ claudeBroker \in {"none", "reserved", "active", "revoked"}
  /\ claudeSettle \in {"none", "owner", "process", "cleaned", "faulted"}

ClaudeFlags ==
  /\ identity \in BOOLEAN /\ wasRunning \in BOOLEAN /\ rowCleaned \in BOOLEAN
  /\ claudeRevoked \in BOOLEAN /\ claudeFailed \in BOOLEAN

ClaudeVerified ==
  /\ verified \subseteq {"legal", "artifact", "runtime", "attempts", "recovery"}
  /\ checked \subseteq {"release", "runtime", "recovery"}

\* A request that waits or was never decided is not allowed yet.
ClaudePermissions ==
  /\ pending \subseteq Permissions /\ decided \subseteq Permissions /\ closed \in BOOLEAN
  /\ claudeCalls \in [Permissions -> 0..MaxCalls] /\ allows \in [Permissions -> 0..1]
  /\ \A i \in Permissions : i \in pending \/ i \notin decided => allows[i] = 0
  /\ closed => pending = {}

\* The result is the last of the messages.
ClaudeMessages ==
  /\ protocol \in {"initializing", "running", "terminal-observed", "cleaning", "faulted"}
  /\ queue \in Seq(Claude!Kinds) /\ Len(queue) <= MaxQueued /\ sent \in 0..MaxMessages
  /\ delivering \in Nat /\ ended \in BOOLEAN
  /\ ended => protocol \notin {"initializing", "running"} /\ delivering = 0

\* A revoke that is over leaves no lease, and nothing at the broker if it went well.
ClaudeGrant ==
  /\ claudeReserving # "done" <=> claudeBroker = "none"
  /\ claudeReserving = "failed" => claudeRevoked /\ claudeFailed
  /\ claudeRevoking = "waiting" => claudeReserving # "none"
  /\ claudeRevoking = "asked" => claudeReserving = "done"
  /\ claudeRevoking = "done" => claudeRevoked
  /\ claudeRevoking = "failed" => claudeFailed
  /\ claudeRevoked => claudeReserving # "pending" /\ (claudeReserving = "done" => claudeBroker = "revoked")
  /\ Claude!RevokeOver => claudeLease = "disposed"

\* A cleanup goes on when the revoke is over; what is held once it is done is not released.
ClaudeGate ==
  /\ claudeCleanup \notin {"none", "revoke"} => Claude!RevokeOver
  /\ claudeCleanup = "cleaned" => claudeRevoked /\ claudeHost # "up"
  /\ claudeCleanup = "cleaned" /\ claudeHost = "held" => claudeAt \notin {"grant", "activate", "release"}
  /\ claudeAt \in {"none", "reserve", "reserved", "register", "registered"} => claudeReserving = "none"
  /\ claudeAt \in {"registered", "grant", "activate", "release", "up"} => identity
  /\ claudeCleanup \in {"terminate", "count", "kill", "recount"} => identity
  /\ identity <=> claudeHost # "none"

ClaudeInv ==
  ClaudeStates /\ ClaudeFlags /\ ClaudeVerified /\ ClaudePermissions /\ ClaudeMessages /\ ClaudeGrant /\ ClaudeGate


LEMMA ClaudeInit == Claude!Init => ClaudeInv
<1> SUFFICES ASSUME Claude!Init PROVE ClaudeInv
  OBVIOUS
<1>0. MaxCalls \in Nat /\ MaxMessages \in Nat /\ MaxQueued \in Nat \ {0}
  BY ServiceBounds DEF ServiceBounds, Claude!SessionBounds
<1>1. ClaudeStates
  BY DEF Claude!Init, ClaudeStates
<1>2. ClaudeFlags /\ ClaudeVerified
  BY DEF Claude!Init, ClaudeFlags, ClaudeVerified
<1>3. ClaudePermissions
  <2>1. claudeCalls \in [Permissions -> 0..MaxCalls] /\ allows \in [Permissions -> 0..1]
    BY <1>0 DEF Claude!Init
  <2>2. \A i \in Permissions : allows[i] = 0
    BY DEF Claude!Init
  <2>3. pending = {} /\ decided = {} /\ closed = FALSE
    BY DEF Claude!Init
  <2> QED
    BY <2>1, <2>2, <2>3 DEF ClaudePermissions
<1>4. ClaudeMessages
  <2>1. queue \in Seq(Claude!Kinds) /\ Len(queue) = 0
    BY DEF Claude!Init
  <2>2. sent = 0 /\ delivering = 0 /\ ended = FALSE /\ protocol = "initializing"
    BY DEF Claude!Init
  <2> QED
    <3>1. 0 \in 0..MaxMessages /\ 0 <= MaxQueued
      BY <1>0
    <3> QED
      BY <2>1, <2>2, <3>1 DEF ClaudeMessages
<1>5. ClaudeGrant /\ ClaudeGate
  BY DEF Claude!Init, ClaudeGrant, ClaudeGate, Claude!RevokeOver
<1> QED
  BY <1>1, <1>2, <1>3, <1>4, <1>5 DEF ClaudeInv

LEMMA ClaudeSteps == ClaudeInv /\ [Claude!Next]_claudeVars => ClaudeInv'
<1> SUFFICES ASSUME ClaudeInv, [Claude!Next]_claudeVars PROVE ClaudeInv'
  OBVIOUS
<1>0. ClaudeStates /\ ClaudeFlags /\ ClaudeVerified /\ ClaudePermissions /\ ClaudeMessages /\ ClaudeGrant /\ ClaudeGate
  BY DEF ClaudeInv
<1>m. MaxCalls \in Nat /\ MaxMessages \in Nat /\ MaxQueued \in Nat \ {0}
  BY ServiceBounds DEF ServiceBounds, Claude!SessionBounds
<1>p. UNCHANGED Claude!permissions => ClaudePermissions'
  BY <1>0 DEF ClaudePermissions, Claude!permissions
<1>s. UNCHANGED Claude!messages => ClaudeMessages'
  BY <1>0 DEF ClaudeMessages, Claude!messages
<1>v. UNCHANGED <<verified, checked>> => ClaudeVerified'
  BY <1>0 DEF ClaudeVerified
<1>g. UNCHANGED Claude!gate /\ UNCHANGED Claude!grant => ClaudeFlags' /\ ClaudeGrant' /\ ClaudeGate'
  BY <1>0 DEF ClaudeFlags, ClaudeGrant, ClaudeGate, Claude!RevokeOver, Claude!gate, Claude!grant
<1>1. CASE Claude!VerifyRelease
  <2> USE DEF Claude!VerifyRelease
  <2>1. UNCHANGED <<session, Claude!gate, Claude!grant, Claude!permissions, Claude!messages, claudeSettle>>
    BY <1>1
  <2>2. ClaudeStates'
    BY <1>0, <2>1 DEF ClaudeStates, Claude!gate, Claude!grant
  <2>3. ClaudeVerified'
    BY <1>0, <1>1 DEF ClaudeVerified
  <2> QED
    BY <1>p, <1>s, <1>g, <2>1, <2>2, <2>3 DEF ClaudeInv
<1>2. CASE Claude!Qualify
  <2> USE DEF Claude!Qualify
  <2>1. UNCHANGED <<session, Claude!gate, Claude!grant, Claude!permissions, Claude!messages, claudeSettle>>
    BY <1>2
  <2>2. ClaudeStates'
    BY <1>0, <2>1 DEF ClaudeStates, Claude!gate, Claude!grant
  <2>3. ClaudeVerified'
    BY <1>0, <1>2 DEF ClaudeVerified
  <2> QED
    BY <1>p, <1>s, <1>g, <2>1, <2>2, <2>3 DEF ClaudeInv
<1>3. CASE Claude!Reconcile
  <2> USE DEF Claude!Reconcile
  <2>1. UNCHANGED <<session, Claude!gate, Claude!grant, Claude!permissions, Claude!messages, claudeSettle>>
    BY <1>3
  <2>2. ClaudeStates'
    BY <1>0, <2>1 DEF ClaudeStates, Claude!gate, Claude!grant
  <2>3. ClaudeVerified'
    BY <1>0, <1>3 DEF ClaudeVerified
  <2> QED
    BY <1>p, <1>s, <1>g, <2>1, <2>2, <2>3 DEF ClaudeInv
<1>4. CASE Claude!Create
  <2> USE DEF Claude!Create
  <2>1. UNCHANGED <<verified, checked, Claude!gate, Claude!grant, Claude!permissions, Claude!messages>>
    BY <1>4 DEF Claude!verifying
  <2>2. ClaudeStates'
    BY <1>0, <1>4, <2>1 DEF ClaudeStates, Claude!gate, Claude!grant, Claude!verifying
  <2> QED
    BY <1>p, <1>s, <1>v, <1>g, <2>1, <2>2 DEF ClaudeInv
<1>5. CASE Claude!CreateRefused
  <2> USE DEF Claude!CreateRefused
  <2>1. UNCHANGED <<verified, checked, Claude!gate, Claude!grant, Claude!permissions, Claude!messages>>
    BY <1>5 DEF Claude!verifying
  <2>2. ClaudeStates'
    BY <1>0, <1>5, <2>1 DEF ClaudeStates, Claude!gate, Claude!grant, Claude!verifying
  <2> QED
    BY <1>p, <1>s, <1>v, <1>g, <2>1, <2>2 DEF ClaudeInv
<1>6. CASE Claude!CreateFails
  <2> USE DEF Claude!CreateFails, Claude!BeginCleanup, Claude!BeginRevoke
  <2> USE DEF Claude!RevokeOver, Claude!verifying, Claude!grant, Claude!gate
  <2>1. ClaudeStates'
    BY <1>0, <1>6 DEF ClaudeStates
  <2>2. ClaudeFlags'
    BY <1>0, <1>6 DEF ClaudeFlags
  <2>3. ClaudePermissions' /\ ClaudeMessages' /\ ClaudeVerified'
    BY <1>p, <1>s, <1>v, <1>6
  <2>4. ClaudeGrant'
    BY <1>0, <1>6 DEF ClaudeStates, ClaudeFlags, ClaudeGrant, ClaudeGate
  <2>5. ClaudeGate'
    BY <1>0, <1>6 DEF ClaudeStates, ClaudeFlags, ClaudeGrant, ClaudeGate
  <2> QED
    BY <2>1, <2>2, <2>3, <2>4, <2>5 DEF ClaudeInv
<1>7. CASE Claude!RevokeGoesOn
  <2> USE DEF Claude!RevokeGoesOn
  <2> USE DEF Claude!RevokeOver, Claude!verifying, Claude!grant, Claude!gate
  <2>1. ClaudeStates'
    BY <1>0, <1>7 DEF ClaudeStates
  <2>2. ClaudeFlags'
    BY <1>0, <1>7 DEF ClaudeFlags
  <2>3. ClaudePermissions' /\ ClaudeMessages' /\ ClaudeVerified'
    BY <1>p, <1>s, <1>v, <1>7
  <2>4. ClaudeGrant'
    BY <1>0, <1>7 DEF ClaudeStates, ClaudeFlags, ClaudeGrant, ClaudeGate
  <2>5. ClaudeGate'
    BY <1>0, <1>7 DEF ClaudeStates, ClaudeFlags, ClaudeGrant, ClaudeGate
  <2> QED
    BY <2>1, <2>2, <2>3, <2>4, <2>5 DEF ClaudeInv
<1>8. CASE Claude!BrokerReserves
  <2> USE DEF Claude!BrokerReserves
  <2> USE DEF Claude!RevokeOver, Claude!verifying, Claude!grant, Claude!gate
  <2>1. ClaudeStates'
    BY <1>0, <1>8 DEF ClaudeStates
  <2>2. ClaudeFlags'
    BY <1>0, <1>8 DEF ClaudeFlags
  <2>3. ClaudePermissions' /\ ClaudeMessages' /\ ClaudeVerified'
    BY <1>p, <1>s, <1>v, <1>8
  <2>4. ClaudeGrant'
    BY <1>0, <1>8 DEF ClaudeStates, ClaudeFlags, ClaudeGrant, ClaudeGate
  <2>5. ClaudeGate'
    BY <1>0, <1>8 DEF ClaudeStates, ClaudeFlags, ClaudeGrant, ClaudeGate
  <2> QED
    BY <2>1, <2>2, <2>3, <2>4, <2>5 DEF ClaudeInv
<1>9. CASE Claude!BrokerRevokes
  <2> USE DEF Claude!BrokerRevokes
  <2> USE DEF Claude!RevokeOver, Claude!verifying, Claude!grant, Claude!gate
  <2>1. ClaudeStates'
    BY <1>0, <1>9 DEF ClaudeStates
  <2>2. ClaudeFlags'
    BY <1>0, <1>9 DEF ClaudeFlags
  <2>3. ClaudePermissions' /\ ClaudeMessages' /\ ClaudeVerified'
    BY <1>p, <1>s, <1>v, <1>9
  <2>4. ClaudeGrant'
    BY <1>0, <1>9 DEF ClaudeStates, ClaudeFlags, ClaudeGrant, ClaudeGate
  <2>5. ClaudeGate'
    BY <1>0, <1>9 DEF ClaudeStates, ClaudeFlags, ClaudeGrant, ClaudeGate
  <2> QED
    BY <2>1, <2>2, <2>3, <2>4, <2>5 DEF ClaudeInv
<1>10. CASE Claude!Reserve
  <2> USE DEF Claude!Reserve, Claude!Fault, Claude!RowFails
  <2> USE DEF Claude!RevokeOver, Claude!verifying, Claude!grant, Claude!gate
  <2>1. ClaudeStates'
    BY <1>0, <1>10 DEF ClaudeStates
  <2>2. ClaudeFlags'
    BY <1>0, <1>10 DEF ClaudeFlags
  <2>3. ClaudePermissions' /\ ClaudeMessages' /\ ClaudeVerified'
    BY <1>p, <1>s, <1>v, <1>10
  <2>4. ClaudeGrant'
    BY <1>0, <1>10 DEF ClaudeStates, ClaudeFlags, ClaudeGrant, ClaudeGate
  <2>5. ClaudeGate'
    BY <1>0, <1>10 DEF ClaudeStates, ClaudeFlags, ClaudeGrant, ClaudeGate
  <2> QED
    BY <2>1, <2>2, <2>3, <2>4, <2>5 DEF ClaudeInv
<1>11. CASE Claude!Reserved
  <2> USE DEF Claude!Reserved
  <2> USE DEF Claude!RevokeOver, Claude!verifying, Claude!grant, Claude!gate
  <2>1. ClaudeStates'
    BY <1>0, <1>11 DEF ClaudeStates
  <2>2. ClaudeFlags'
    BY <1>0, <1>11 DEF ClaudeFlags
  <2>3. ClaudePermissions' /\ ClaudeMessages' /\ ClaudeVerified'
    BY <1>p, <1>s, <1>v, <1>11
  <2>4. ClaudeGrant'
    BY <1>0, <1>11 DEF ClaudeStates, ClaudeFlags, ClaudeGrant, ClaudeGate
  <2>5. ClaudeGate'
    BY <1>0, <1>11 DEF ClaudeStates, ClaudeFlags, ClaudeGrant, ClaudeGate
  <2> QED
    BY <2>1, <2>2, <2>3, <2>4, <2>5 DEF ClaudeInv
<1>12. CASE Claude!Register
  <2> USE DEF Claude!Register, Claude!Fault, Claude!RowFails
  <2> USE DEF Claude!RevokeOver, Claude!verifying, Claude!grant, Claude!gate
  <2>1. ClaudeStates'
    BY <1>0, <1>12 DEF ClaudeStates
  <2>2. ClaudeFlags'
    BY <1>0, <1>12 DEF ClaudeFlags
  <2>3. ClaudePermissions' /\ ClaudeMessages' /\ ClaudeVerified'
    BY <1>p, <1>s, <1>v, <1>12
  <2>4. ClaudeGrant'
    BY <1>0, <1>12 DEF ClaudeStates, ClaudeFlags, ClaudeGrant, ClaudeGate
  <2>5. ClaudeGate'
    BY <1>0, <1>12 DEF ClaudeStates, ClaudeFlags, ClaudeGrant, ClaudeGate
  <2> QED
    BY <2>1, <2>2, <2>3, <2>4, <2>5 DEF ClaudeInv
<1>13. CASE Claude!Registered
  <2> USE DEF Claude!Registered
  <2> USE DEF Claude!RevokeOver, Claude!verifying, Claude!grant, Claude!gate
  <2>1. ClaudeStates'
    BY <1>0, <1>13 DEF ClaudeStates
  <2>2. ClaudeFlags'
    BY <1>0, <1>13 DEF ClaudeFlags
  <2>3. ClaudePermissions' /\ ClaudeMessages' /\ ClaudeVerified'
    BY <1>p, <1>s, <1>v, <1>13
  <2>4. ClaudeGrant'
    BY <1>0, <1>13 DEF ClaudeStates, ClaudeFlags, ClaudeGrant, ClaudeGate
  <2>5. ClaudeGate'
    BY <1>0, <1>13 DEF ClaudeStates, ClaudeFlags, ClaudeGrant, ClaudeGate
  <2> QED
    BY <2>1, <2>2, <2>3, <2>4, <2>5 DEF ClaudeInv
<1>14. CASE Claude!Release
  <2> USE DEF Claude!Release, Claude!FailAndClean, Claude!BeginRevoke, Claude!RowFails, Claude!Fault, Claude!MayReserve
  <2> USE DEF Claude!RevokeOver, Claude!verifying, Claude!grant, Claude!gate
  <2>1. ClaudeStates'
    BY <1>0, <1>14 DEF ClaudeStates
  <2>2. ClaudeFlags'
    BY <1>0, <1>14 DEF ClaudeFlags
  <2>3. ClaudePermissions' /\ ClaudeMessages' /\ ClaudeVerified'
    BY <1>p, <1>s, <1>v, <1>14
  <2>4. ClaudeGrant'
    BY <1>0, <1>14 DEF ClaudeStates, ClaudeFlags, ClaudeGrant, ClaudeGate
  <2>5. ClaudeGate'
    BY <1>0, <1>14 DEF ClaudeStates, ClaudeFlags, ClaudeGrant, ClaudeGate
  <2> QED
    BY <2>1, <2>2, <2>3, <2>4, <2>5 DEF ClaudeInv
<1>15. CASE Claude!Activate
  <2> USE DEF Claude!Activate, Claude!FailAndClean, Claude!BeginRevoke, Claude!RowFails
  <2> USE DEF Claude!RevokeOver, Claude!verifying, Claude!grant, Claude!gate
  <2>1. ClaudeStates'
    BY <1>0, <1>15 DEF ClaudeStates
  <2>2. ClaudeFlags'
    BY <1>0, <1>15 DEF ClaudeFlags
  <2>3. ClaudePermissions' /\ ClaudeMessages' /\ ClaudeVerified'
    BY <1>p, <1>s, <1>v, <1>15
  <2>4. ClaudeGrant'
    BY <1>0, <1>15 DEF ClaudeStates, ClaudeFlags, ClaudeGrant, ClaudeGate
  <2>5. ClaudeGate'
    BY <1>0, <1>15 DEF ClaudeStates, ClaudeFlags, ClaudeGrant, ClaudeGate
  <2> QED
    BY <2>1, <2>2, <2>3, <2>4, <2>5 DEF ClaudeInv
<1>16. CASE Claude!Activated
  <2> USE DEF Claude!Activated, Claude!FailAndClean, Claude!BeginRevoke, Claude!RowFails
  <2> USE DEF Claude!RevokeOver, Claude!verifying, Claude!grant, Claude!gate
  <2>1. ClaudeStates'
    BY <1>0, <1>16 DEF ClaudeStates
  <2>2. ClaudeFlags'
    BY <1>0, <1>16 DEF ClaudeFlags
  <2>3. ClaudePermissions' /\ ClaudeMessages' /\ ClaudeVerified'
    BY <1>p, <1>s, <1>v, <1>16
  <2>4. ClaudeGrant'
    BY <1>0, <1>16 DEF ClaudeStates, ClaudeFlags, ClaudeGrant, ClaudeGate
  <2>5. ClaudeGate'
    BY <1>0, <1>16 DEF ClaudeStates, ClaudeFlags, ClaudeGrant, ClaudeGate
  <2> QED
    BY <2>1, <2>2, <2>3, <2>4, <2>5 DEF ClaudeInv
<1>17. CASE Claude!Released
  <2> USE DEF Claude!Released, Claude!FailAndClean, Claude!BeginRevoke, Claude!RowFails
  <2> USE DEF Claude!RevokeOver, Claude!verifying, Claude!grant, Claude!gate
  <2>1. ClaudeStates'
    BY <1>0, <1>17 DEF ClaudeStates
  <2>2. ClaudeFlags'
    BY <1>0, <1>17 DEF ClaudeFlags
  <2>3. ClaudePermissions' /\ ClaudeMessages' /\ ClaudeVerified'
    BY <1>p, <1>s, <1>v, <1>17
  <2>4. ClaudeGrant'
    BY <1>0, <1>17 DEF ClaudeStates, ClaudeFlags, ClaudeGrant, ClaudeGate
  <2>5. ClaudeGate'
    BY <1>0, <1>17 DEF ClaudeStates, ClaudeFlags, ClaudeGrant, ClaudeGate
  <2> QED
    BY <2>1, <2>2, <2>3, <2>4, <2>5 DEF ClaudeInv
<1>18. CASE Claude!StartFails
  <2> USE DEF Claude!StartFails, Claude!FailAndClean, Claude!BeginRevoke, Claude!RowFails
  <2> USE DEF Claude!RevokeOver, Claude!verifying, Claude!grant, Claude!gate
  <2>1. ClaudeStates'
    BY <1>0, <1>18 DEF ClaudeStates
  <2>2. ClaudeFlags'
    BY <1>0, <1>18 DEF ClaudeFlags
  <2>3. ClaudePermissions' /\ ClaudeMessages' /\ ClaudeVerified'
    BY <1>p, <1>s, <1>v, <1>18
  <2>4. ClaudeGrant'
    BY <1>0, <1>18 DEF ClaudeStates, ClaudeFlags, ClaudeGrant, ClaudeGate
  <2>5. ClaudeGate'
    BY <1>0, <1>18 DEF ClaudeStates, ClaudeFlags, ClaudeGrant, ClaudeGate
  <2> QED
    BY <2>1, <2>2, <2>3, <2>4, <2>5 DEF ClaudeInv
<1>19. CASE Claude!StartFailed
  <2> USE DEF Claude!StartFailed
  <2> USE DEF Claude!RevokeOver, Claude!verifying, Claude!grant, Claude!gate
  <2>1. ClaudeStates'
    BY <1>0, <1>19 DEF ClaudeStates
  <2>2. ClaudeFlags'
    BY <1>0, <1>19 DEF ClaudeFlags
  <2>3. ClaudePermissions' /\ ClaudeMessages' /\ ClaudeVerified'
    BY <1>p, <1>s, <1>v, <1>19
  <2>4. ClaudeGrant'
    BY <1>0, <1>19 DEF ClaudeStates, ClaudeFlags, ClaudeGrant, ClaudeGate
  <2>5. ClaudeGate'
    BY <1>0, <1>19 DEF ClaudeStates, ClaudeFlags, ClaudeGrant, ClaudeGate
  <2> QED
    BY <2>1, <2>2, <2>3, <2>4, <2>5 DEF ClaudeInv
<1>20. CASE Claude!HostExits
  <2> USE DEF Claude!HostExits
  <2> USE DEF Claude!RevokeOver, Claude!verifying, Claude!grant, Claude!gate
  <2>1. ClaudeStates'
    BY <1>0, <1>20 DEF ClaudeStates
  <2>2. ClaudeFlags'
    BY <1>0, <1>20 DEF ClaudeFlags
  <2>3. ClaudePermissions' /\ ClaudeMessages' /\ ClaudeVerified'
    BY <1>p, <1>s, <1>v, <1>20
  <2>4. ClaudeGrant'
    BY <1>0, <1>20 DEF ClaudeStates, ClaudeFlags, ClaudeGrant, ClaudeGate
  <2>5. ClaudeGate'
    BY <1>0, <1>20 DEF ClaudeStates, ClaudeFlags, ClaudeGrant, ClaudeGate
  <2> QED
    BY <2>1, <2>2, <2>3, <2>4, <2>5 DEF ClaudeInv
<1>21. CASE Claude!CleanupRevoked
  <2> USE DEF Claude!CleanupRevoked, Claude!GoOn, Claude!Signals, Claude!Finish, Claude!Over, Claude!OverFaulted, Claude!RowFails
  <2> USE DEF Claude!RevokeOver, Claude!verifying, Claude!grant, Claude!gate
  <2>1. ClaudeStates'
    BY <1>0, <1>21 DEF ClaudeStates
  <2>2. ClaudeFlags'
    BY <1>0, <1>21 DEF ClaudeFlags
  <2>3. ClaudePermissions' /\ ClaudeMessages' /\ ClaudeVerified'
    BY <1>p, <1>s, <1>v, <1>21
  <2>4. ClaudeGrant'
    BY <1>0, <1>21 DEF ClaudeStates, ClaudeFlags, ClaudeGrant, ClaudeGate
  <2>5. ClaudeGate'
    BY <1>0, <1>21 DEF ClaudeStates, ClaudeFlags, ClaudeGrant, ClaudeGate
  <2> QED
    BY <2>1, <2>2, <2>3, <2>4, <2>5 DEF ClaudeInv
<1>22. CASE Claude!Signal
  <2> USE DEF Claude!Signal, Claude!GoOn, Claude!OverFaulted, Claude!RowFails
  <2> USE DEF Claude!RevokeOver, Claude!verifying, Claude!grant, Claude!gate
  <2>1. ClaudeStates'
    BY <1>0, <1>22 DEF ClaudeStates
  <2>2. ClaudeFlags'
    BY <1>0, <1>22 DEF ClaudeFlags
  <2>3. ClaudePermissions' /\ ClaudeMessages' /\ ClaudeVerified'
    BY <1>p, <1>s, <1>v, <1>22
  <2>4. ClaudeGrant'
    BY <1>0, <1>22 DEF ClaudeStates, ClaudeFlags, ClaudeGrant, ClaudeGate
  <2>5. ClaudeGate'
    BY <1>0, <1>22 DEF ClaudeStates, ClaudeFlags, ClaudeGrant, ClaudeGate
  <2> QED
    BY <2>1, <2>2, <2>3, <2>4, <2>5 DEF ClaudeInv
<1>23. CASE Claude!Inventory
  <2> USE DEF Claude!Inventory, Claude!GoOn, Claude!Finish, Claude!Over, Claude!OverFaulted, Claude!RowFails, Claude!Remains
  <2> USE DEF Claude!RevokeOver, Claude!verifying, Claude!grant, Claude!gate
  <2>1. ClaudeStates'
    BY <1>0, <1>23 DEF ClaudeStates
  <2>2. ClaudeFlags'
    BY <1>0, <1>23 DEF ClaudeFlags
  <2>3. ClaudePermissions' /\ ClaudeMessages' /\ ClaudeVerified'
    BY <1>p, <1>s, <1>v, <1>23
  <2>4. ClaudeGrant'
    BY <1>0, <1>23 DEF ClaudeStates, ClaudeFlags, ClaudeGrant, ClaudeGate
  <2>5. ClaudeGate'
    BY <1>0, <1>23 DEF ClaudeStates, ClaudeFlags, ClaudeGrant, ClaudeGate
  <2> QED
    BY <2>1, <2>2, <2>3, <2>4, <2>5 DEF ClaudeInv
<1>24. CASE Claude!Cancel
  <2> USE DEF Claude!Cancel, Claude!BeginCleanup, Claude!BeginRevoke
  <2> USE DEF Claude!RevokeOver, Claude!verifying, Claude!grant, Claude!gate
  <2>1. ClaudeStates'
    BY <1>0, <1>24 DEF ClaudeStates
  <2>2. ClaudeFlags'
    BY <1>0, <1>24 DEF ClaudeFlags
  <2>3. ClaudePermissions' /\ ClaudeMessages' /\ ClaudeVerified'
    BY <1>p, <1>s, <1>v, <1>24
  <2>4. ClaudeGrant'
    BY <1>0, <1>24 DEF ClaudeStates, ClaudeFlags, ClaudeGrant, ClaudeGate
  <2>5. ClaudeGate'
    BY <1>0, <1>24 DEF ClaudeStates, ClaudeFlags, ClaudeGrant, ClaudeGate
  <2> QED
    BY <2>1, <2>2, <2>3, <2>4, <2>5 DEF ClaudeInv
<1>25. CASE Claude!OwnerSettles
  <2> USE DEF Claude!OwnerSettles, Claude!BeginCleanup, Claude!BeginRevoke
  <2> USE DEF Claude!RevokeOver, Claude!verifying, Claude!grant, Claude!gate
  <2>1. ClaudeStates'
    BY <1>0, <1>25 DEF ClaudeStates
  <2>2. ClaudeFlags'
    BY <1>0, <1>25 DEF ClaudeFlags
  <2>3. ClaudePermissions' /\ ClaudeMessages' /\ ClaudeVerified'
    BY <1>p, <1>s, <1>v, <1>25
  <2>4. ClaudeGrant'
    BY <1>0, <1>25 DEF ClaudeStates, ClaudeFlags, ClaudeGrant, ClaudeGate
  <2>5. ClaudeGate'
    BY <1>0, <1>25 DEF ClaudeStates, ClaudeFlags, ClaudeGrant, ClaudeGate
  <2> QED
    BY <2>1, <2>2, <2>3, <2>4, <2>5 DEF ClaudeInv
<1>26. CASE Claude!Settled
  <2> USE DEF Claude!Settled
  <2>1. UNCHANGED <<verified, checked, Claude!gate, Claude!grant, Claude!permissions, Claude!messages>>
    BY <1>26 DEF Claude!verifying
  <2>2. ClaudeStates'
    BY <1>0, <1>26, <2>1 DEF ClaudeStates, Claude!gate, Claude!grant, Claude!verifying
  <2> QED
    BY <1>p, <1>s, <1>v, <1>g, <2>1, <2>2 DEF ClaudeInv
<1>27. ASSUME NEW i \in Permissions, Claude!Ask(i) PROVE ClaudeInv'
  <2>1. UNCHANGED <<Claude!verifying, Claude!gate, Claude!grant, Claude!messages, claudeSettle, closed, allows>>
    BY <1>27 DEF Claude!Ask
  <2>2. ClaudePermissions'
    <3>1. claudeCalls' \in [Permissions -> 0..MaxCalls]
      BY <1>0, <1>m, <1>27 DEF Claude!Ask, ClaudePermissions
    <3> QED
      BY <1>0, <1>27, <2>1, <3>1 DEF Claude!Ask, Claude!Taken, ClaudePermissions
  <2>3. ClaudeStates'
    BY <1>0, <2>1 DEF ClaudeStates, Claude!verifying, Claude!gate, Claude!grant
  <2> QED
    BY <1>s, <1>v, <1>g, <2>1, <2>2, <2>3 DEF ClaudeInv, Claude!verifying
<1>28. ASSUME NEW i \in Permissions, Claude!Decide(i) PROVE ClaudeInv'
  <2>1. UNCHANGED <<Claude!verifying, Claude!gate, Claude!grant, Claude!messages, claudeSettle, closed, claudeCalls>>
    BY <1>28 DEF Claude!Decide
  <2>2. ClaudePermissions'
    <3>1. allows[i] = 0
      BY <1>0, <1>28 DEF Claude!Decide, ClaudePermissions
    <3>2. PICK n \in {0, 1} : allows' = [allows EXCEPT ![i] = @ + n]
      BY <1>28 DEF Claude!Decide
    <3>3. allows' \in [Permissions -> 0..1] /\ \A j \in Permissions \ {i} : allows'[j] = allows[j]
      BY <1>0, <3>1, <3>2 DEF ClaudePermissions
    <3> QED
      BY <1>0, <1>28, <2>1, <3>3 DEF Claude!Decide, ClaudePermissions
  <2>3. ClaudeStates'
    BY <1>0, <2>1 DEF ClaudeStates, Claude!verifying, Claude!gate, Claude!grant
  <2> QED
    BY <1>s, <1>v, <1>g, <2>1, <2>2, <2>3 DEF ClaudeInv, Claude!verifying
<1>29. ASSUME NEW m \in Claude!Kinds, Claude!Accept(m) PROVE ClaudeInv'
  <2>1. UNCHANGED <<Claude!verifying, Claude!gate, Claude!grant, Claude!permissions, claudeSettle, delivering, ended>>
    BY <1>29 DEF Claude!Accept
  <2>2. ClaudeMessages'
    <3>1. sent' \in 0..MaxMessages /\ protocol' \in {protocol, "faulted"}
      BY <1>0, <1>m, <1>29 DEF Claude!Accept, ClaudeMessages
    <3>2. queue' \in Seq(Claude!Kinds) /\ Len(queue') <= MaxQueued
      <4>1. CASE queue' = queue
        BY <1>0, <4>1 DEF ClaudeMessages
      <4>2. CASE queue' = Append(queue, m) /\ Len(queue) + delivering < MaxQueued
        BY <1>0, <1>m, <4>2 DEF ClaudeMessages
      <4>3. queue' = queue \/ (queue' = Append(queue, m) /\ ~(Len(queue) + delivering >= MaxQueued))
        BY <1>29 DEF Claude!Accept
      <4>4. Len(queue) \in Nat /\ delivering \in Nat
        BY <1>0 DEF ClaudeMessages
      <4> QED
        BY <1>m, <4>1, <4>2, <4>3, <4>4
    <3> QED
      BY <1>0, <2>1, <3>1, <3>2 DEF ClaudeMessages
  <2>3. ClaudeStates'
    BY <1>0, <2>1 DEF ClaudeStates, Claude!verifying, Claude!gate, Claude!grant
  <2> QED
    BY <1>p, <1>v, <1>g, <2>1, <2>2, <2>3 DEF ClaudeInv, Claude!verifying
<1>30. CASE Claude!Process
  <2>1. UNCHANGED <<Claude!verifying, Claude!gate, Claude!grant, Claude!permissions, sent, claudeSettle>>
    BY <1>30 DEF Claude!Process
  <2>2. ClaudeMessages'
    <3>1. queue' \in Seq(Claude!Kinds) /\ Len(queue') <= MaxQueued
      BY <1>0, <1>m, <1>30 DEF Claude!Process, ClaudeMessages
    <3>2. delivering = 0 /\ delivering' \in {0, 1}
      BY <1>0, <1>30 DEF Claude!Process, Claude!Waited, ClaudeMessages
    <3> DEFINE m == Head(queue)
    <3>3. /\ protocol' = (IF ~Claude!Lawful(m) THEN "faulted"
                         ELSE CASE m = "init" -> "running" [] m = "result" -> "terminal-observed" [] OTHER -> protocol)
          /\ delivering' = (IF Claude!Lawful(m) /\ m = "assistant" THEN delivering + 1 ELSE delivering)
          /\ ended' = (ended \/ (Claude!Lawful(m) /\ m = "result"))
      BY <1>30 DEF Claude!Process
    <3> HIDE DEF m
    <3>4. protocol' \in {"initializing", "running", "terminal-observed", "cleaning", "faulted"}
      BY <1>0, <3>3 DEF ClaudeMessages
    <3>5. ended' => protocol' \notin {"initializing", "running"} /\ delivering' = 0
      <4>1. CASE Claude!Lawful(m) /\ m = "result"
        BY <3>2, <3>3, <4>1
      <4>2. CASE ended /\ ~(Claude!Lawful(m) /\ m = "result")
        <5>1. protocol \notin {"initializing", "running"}
          BY <1>0, <4>2 DEF ClaudeMessages
        <5>2. m # "result" => ~Claude!Lawful(m)
          BY <5>1 DEF Claude!Lawful
        <5>3. ~Claude!Lawful(m)
          BY <4>2, <5>2
        <5>4. protocol' = "faulted"
          BY <3>3, <5>3
        <5>5. delivering' = delivering
          BY <3>3, <5>3
        <5> QED
          BY <3>2, <5>4, <5>5
      <4> QED
        BY <3>3, <4>1, <4>2
    <3>6. ended' \in BOOLEAN
      BY <1>0, <3>3 DEF ClaudeMessages
    <3> QED
      BY <1>0, <2>1, <3>1, <3>2, <3>4, <3>5, <3>6 DEF ClaudeMessages
  <2>3. ClaudeStates'
    BY <1>0, <2>1 DEF ClaudeStates, Claude!verifying, Claude!gate, Claude!grant
  <2> QED
    BY <1>p, <1>v, <1>g, <2>1, <2>2, <2>3 DEF ClaudeInv, Claude!verifying
<1>31. CASE Claude!Deliver
  <2>1. UNCHANGED <<Claude!verifying, Claude!gate, Claude!grant, Claude!permissions, claudeSettle>>
    BY <1>31 DEF Claude!Deliver
  <2>2. ClaudeMessages'
    BY <1>0, <1>31 DEF Claude!Deliver, ClaudeMessages
  <2>3. ClaudeStates'
    BY <1>0, <2>1 DEF ClaudeStates, Claude!verifying, Claude!gate, Claude!grant
  <2> QED
    BY <1>p, <1>v, <1>g, <2>1, <2>2, <2>3 DEF ClaudeInv, Claude!verifying
<1>32. CASE Claude!EndMessages
  <2>1. UNCHANGED <<Claude!verifying, Claude!gate, Claude!grant, Claude!permissions, claudeSettle>>
    BY <1>32 DEF Claude!EndMessages
  <2>2. ClaudeMessages'
    BY <1>0, <1>32 DEF Claude!EndMessages, ClaudeMessages
  <2>3. ClaudeStates'
    BY <1>0, <2>1 DEF ClaudeStates, Claude!verifying, Claude!gate, Claude!grant
  <2> QED
    BY <1>p, <1>v, <1>g, <2>1, <2>2, <2>3 DEF ClaudeInv, Claude!verifying
<1>33. CASE Claude!Settle
  <2>1. UNCHANGED <<Claude!verifying, Claude!gate, Claude!grant>>
    BY <1>33 DEF Claude!Settle
  <2>2. ClaudeMessages'
    BY <1>0, <1>33 DEF Claude!Settle, ClaudeMessages
  <2>3. ClaudePermissions'
    BY <1>0, <1>33 DEF Claude!Settle, ClaudePermissions
  <2>4. ClaudeStates'
    BY <1>0, <1>33, <2>1 DEF Claude!Settle, ClaudeStates, Claude!verifying, Claude!gate, Claude!grant
  <2> QED
    BY <1>v, <1>g, <2>1, <2>2, <2>3, <2>4 DEF ClaudeInv, Claude!verifying
<1>34. CASE UNCHANGED claudeVars
  <2>1. UNCHANGED <<Claude!verifying, Claude!gate, Claude!grant, Claude!permissions, Claude!messages, claudeSettle>>
    BY <1>34 DEF claudeVars, Claude!verifying, Claude!gate, Claude!grant, Claude!permissions, Claude!messages
  <2>2. ClaudeStates'
    BY <1>0, <2>1 DEF ClaudeStates, Claude!verifying, Claude!gate, Claude!grant
  <2> QED
    BY <1>p, <1>s, <1>v, <1>g, <2>1, <2>2 DEF ClaudeInv, Claude!verifying
<1> QED
  BY <1>1, <1>2, <1>3, <1>4, <1>5, <1>6, <1>7, <1>8, <1>9, <1>10, <1>11, <1>12, <1>13, <1>14, <1>15, <1>16, <1>17, <1>18, <1>19, <1>20, <1>21, <1>22, <1>23, <1>24, <1>25, <1>26, <1>27, <1>28, <1>29, <1>30, <1>31, <1>32, <1>33, <1>34 DEF Claude!Next

LEMMA ClaudeHolds ==
  ClaudeInv => /\ Claude!TypeOK /\ Claude!CleanedIsNotReleased /\ Claude!EndedIsRevoked
               /\ Claude!AllowedOnce /\ Claude!ResultIsLast
<1> SUFFICES ASSUME ClaudeInv PROVE /\ Claude!TypeOK /\ Claude!CleanedIsNotReleased /\ Claude!EndedIsRevoked
                                    /\ Claude!AllowedOnce /\ Claude!ResultIsLast
  OBVIOUS
<1> USE DEF ClaudeInv
<1>1. Claude!TypeOK
  BY DEF ClaudeStates, ClaudeFlags, ClaudeVerified, ClaudePermissions, ClaudeMessages, Claude!TypeOK
<1>2. Claude!CleanedIsNotReleased
  BY DEF ClaudeGate, Claude!CleanedIsNotReleased
<1>3. Claude!EndedIsRevoked
  BY DEF ClaudeGate, ClaudeGrant, ClaudeStates, Claude!EndedIsRevoked
<1>4. Claude!AllowedOnce
  BY DEF ClaudePermissions, Claude!AllowedOnce
<1>5. Claude!ResultIsLast
  BY DEF ClaudeMessages, Claude!ResultIsLast
<1> QED
  BY <1>1, <1>2, <1>3, <1>4, <1>5

-----------------------------------------------------------------------------
(* The components side by side *)

\* The invariant of the component that moves.
StoresInv ==
  /\ part = "credentials" => CredentialsInv
  /\ part = "market" => MarketInv
  /\ part = "helper" => HelperInv
  /\ part = "transfer" => TransferInv
  /\ part = "host" => HostInv
  /\ part = "claude" => ClaudeInv

LEMMA StoresInit == AllInit => StoresInv
BY CredentialsInit, MarketInit, HelperInit, TransferInit, HostInit, ClaudeInit DEF AllInit, StoresInv

\* A step of the whole is a step of the component that moves.
LEMMA StepsOfParts ==
  ASSUME [AllNext]_<<part, credentialsVars, hostVars, transferVars, marketVars, ownersVars, helperVars, readsVars,
                     reportsVars, chatVars, panelVars, routerVars, queriesVars, writtenVars, claudeVars, feedVars>>
  PROVE  /\ part' = part
         /\ part = "credentials" => [Credentials!Next]_credentialsVars
         /\ part = "market" => [Market!Next]_marketVars
         /\ part = "helper" => [Helper!Next]_helperVars
         /\ part = "transfer" => [Transfer!Next]_transferVars
         /\ part = "host" => [Host!Next]_hostVars
         /\ part = "claude" => [Claude!Next]_claudeVars
<1>1. CASE AllNext
  BY <1>1 DEF AllNext
<1>2. CASE UNCHANGED <<part, credentialsVars, hostVars, transferVars, marketVars, ownersVars, helperVars, readsVars,
                       reportsVars, chatVars, panelVars, routerVars, queriesVars, writtenVars, claudeVars, feedVars>>
  BY <1>2
<1> QED
  BY <1>1, <1>2

LEMMA StoresSteps ==
  ASSUME StoresInv,
         [AllNext]_<<part, credentialsVars, hostVars, transferVars, marketVars, ownersVars, helperVars, readsVars,
                     reportsVars, chatVars, panelVars, routerVars, queriesVars, writtenVars, claudeVars, feedVars>>
  PROVE  StoresInv'
<1>1. part' = part
  BY StepsOfParts
<1>2. part = "credentials" => CredentialsInv'
  BY StepsOfParts, CredentialsSteps DEF StoresInv
<1>3. part = "market" => MarketInv'
  BY StepsOfParts, MarketSteps DEF StoresInv
<1>4. part = "helper" => HelperInv'
  BY StepsOfParts, HelperSteps DEF StoresInv
<1>5. part = "transfer" => TransferInv'
  BY StepsOfParts, TransferSteps DEF StoresInv
<1>6. part = "host" => HostInv'
  BY StepsOfParts, HostSteps DEF StoresInv
<1>7. part = "claude" => ClaudeInv'
  BY StepsOfParts, ClaudeSteps DEF StoresInv
<1> QED
  BY <1>1, <1>2, <1>3, <1>4, <1>5, <1>6, <1>7 DEF StoresInv

LEMMA StoresImply == StoresInv => StoresAgree
BY CredentialsHold, MarketHolds, HelperHolds, TransferHolds, HostHolds, ClaudeHolds DEF StoresInv, StoresAgree

\* What the stores, the sandboxes and the brokers have is what the rows say,
\* whatever changes, packages, commits and permissions there are: no credential
\* file is torn, no version half there is current, no quota is answered before it is
\* durable, no ref is made for what was not sealed, and no cleaned host keeps
\* credentials (credential-store.ts, marketplace-client.ts, kogg-execution-helper.c,
\* candidate-importer.ts, codex-process-host.ts, claude-process-host.ts).
THEOREM StoresAlwaysAgree == AllSpec => []StoresAgree
<1>1. AllInit => StoresInv
  BY StoresInit
<1>2. StoresInv /\ [AllNext]_<<part, credentialsVars, hostVars, transferVars, marketVars, ownersVars, helperVars, readsVars,
                               reportsVars, chatVars, panelVars, routerVars, queriesVars, writtenVars, claudeVars, feedVars>>
        => StoresInv'
  BY StoresSteps
<1>3. StoresInv => StoresAgree
  BY StoresImply
<1> QED
  BY <1>1, <1>2, <1>3, PTL DEF AllSpec


\* A call that met no other and is done has changed its own record and kept those
\* of the others, whatever calls there are and wherever the backend died before
\* (set and delete of credential-store.ts).
THEOREM ChangesStayExact == AllSpec => ChangesAreExact
<1>1. AllInit => StoresInv
  BY StoresInit
<1>2. StoresInv /\ [AllNext]_<<part, credentialsVars, hostVars, transferVars, marketVars, ownersVars, helperVars, readsVars,
                               reportsVars, chatVars, panelVars, routerVars, queriesVars, writtenVars, claudeVars, feedVars>>
        => StoresInv'
  BY StoresSteps
<1>3. StoresInv /\ StoresInv' /\ [AllNext]_<<part, credentialsVars, hostVars, transferVars, marketVars, ownersVars, helperVars,
                                             readsVars, reportsVars, chatVars, panelVars, routerVars, queriesVars, writtenVars,
                                             claudeVars, feedVars>>
        => [\A c \in Changes :
              credentialsAt[c] # "done" /\ credentialsAt'[c] = "done" /\ ~credentialsOverlapped =>
                /\ \A d \in base[c] : KeyOf[d] = KeyOf[c] => d = c
                /\ c \in Removes \/ c \in inode'[destination']
                /\ \A d \in Changes : credentialsAt[d] = "done" /\ d \notin Removes /\ Credentials!Sole(d, c)
                     => d \in inode'[destination']]_(Credentials!vars)
  <2> SUFFICES ASSUME StoresInv, StoresInv',
                      [AllNext]_<<part, credentialsVars, hostVars, transferVars, marketVars, ownersVars, helperVars, readsVars,
                                  reportsVars, chatVars, panelVars, routerVars, queriesVars, writtenVars, claudeVars, feedVars>>,
                      NEW c \in Changes, credentialsAt[c] # "done", credentialsAt'[c] = "done", ~credentialsOverlapped
               PROVE  /\ \A d \in base[c] : KeyOf[d] = KeyOf[c] => d = c
                      /\ c \in Removes \/ c \in inode'[destination']
                      /\ \A d \in Changes : credentialsAt[d] = "done" /\ d \notin Removes /\ Credentials!Sole(d, c)
                           => d \in inode'[destination']
    OBVIOUS
  <2>1. CASE part = "credentials"
    <3>1. CredentialsInv /\ CredentialsInv' /\ [Credentials!Next]_credentialsVars
      BY <2>1, StepsOfParts DEF StoresInv
    <3> QED
      BY <3>1, ChangeIsExact
  <2>2. CASE part # "credentials"
    <3>1. UNCHANGED credentialsVars
      BY <2>2 DEF AllNext
    <3> QED
      BY <3>1 DEF credentialsVars
  <2> QED
    BY <2>1, <2>2
<1> QED
  BY <1>1, <1>2, <1>3, PTL DEF AllSpec, ChangesAreExact, Credentials!ChangesAreExact
=============================================================================
