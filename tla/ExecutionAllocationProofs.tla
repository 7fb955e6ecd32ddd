--------------------- MODULE ExecutionAllocationProofs ---------------------
(***************************************************************************)
(* Theorems about the allocation of workspaces, for any number of runs,    *)
(* quota ids and crashes.  What a run's row says of its directory, its     *)
(* lease and its import is settled by the state of the row (RowAgrees),    *)
(* what lies outside the database by the row (OutsideAgrees), and the row  *)
(* by the place of its controller (PlaceAgrees), which a crash takes away. *)
(***************************************************************************)
EXTENDS ExecutionAllocation, TLAPS

\* A row whose directory was made and not yet given to the helper for removal.
Kept == {"allocated", "seeding", "verified", "ready", "leased", "executing",
         "stopping", "sealed", "candidate-imported", "retained", "failed",
         "timed-out", "cancelled"}
Importing == {"importing", "referring", "referred", "unimported"}
Removable == {"allocated", "verified", "ready", "failed", "timed-out", "cancelled", "stopping"}

\* The quota lease, the import and the clean-up that go with the state of a row.
RowAgrees(r) ==
    /\ row[r].state = "absent" => row[r] = NoRow
    /\ row[r].state = "admitted" =>
          \/ row[r].quota = "none" /\ row[r].intent = "none"
          \/ row[r].quota = "active" /\ row[r].intent = "requested"
    /\ row[r].state \in Kept \cup {"cleaning"} => row[r].quota = "allocated" /\ row[r].intent = "completed"
    /\ row[r].state = "cleaned" => row[r].quota = "released"
    /\ row[r].state = "quarantined" =>
          \/ row[r].quota \in {"none", "quarantined"} /\ row[r].cleanup = "failed"
          \/ row[r].quota = "allocated" /\ row[r].imp = "quarantined"
    /\ row[r].cleanup = "failed" => row[r].state = "quarantined"
    /\ row[r].cleanup = "cleaning" => row[r].state = "cleaning"
    /\ row[r].quota = "none" <=> row[r].project = 0
    /\ row[r].project < nextQuota

ImportAgrees(r) ==
    /\ row[r].imp = "none" => row[r].lease = "none"
    /\ row[r].imp = "requested" =>
          \/ row[r].lease = "active" /\ row[r].state = "sealed"
          \/ row[r].lease = "quarantined" /\ row[r].state = "quarantined"
    /\ row[r].imp = "completed" =>
          row[r].lease = "released" /\ row[r].state \in {"candidate-imported", "retained", "quarantined"}
    /\ row[r].imp = "quarantined" => row[r].lease = "quarantined" /\ row[r].state = "quarantined"

\* What is outside the database, of which the row must not know too little.
OutsideAgrees(r) ==
    /\ row[r].quota \in {"none", "released"} => dir[r] = "none" /\ child[r] = "none"
    /\ row[r].state \in Kept => dir[r] = "whole" /\ child[r] \in {"none", "update-ref"}
    /\ row[r].imp # "none" => dir[r] = "whole" /\ child[r] \in {"none", "update-ref"}
    /\ child[r] = "update-ref" => row[r].imp = "requested"
    /\ child[r] = "allocating" => dir[r] # "whole"
    /\ row[r].imp = "completed" => ref[r]
    /\ ref[r] => row[r].imp # "none"

\* Where the controller of a run stands, as long as its backend is up.
PlaceAgrees(r) ==
    /\ backend # "up" => pc[r] \in {"idle", "ended"}
    /\ pc[r] \in {"idle", "reserving"} => row[r].state = "absent"
    /\ pc[r] \in {"reserved", "preparing"} => row[r].state = "admitted" /\ row[r].quota = "none"
    /\ pc[r] \in {"prepared", "helping", "proved", "recording", "undoing"} =>
          row[r].state = "admitted" /\ row[r].quota = "active"
    /\ pc[r] = "prepared" => dir[r] = "none"
    /\ pc[r] = "helping" => child[r] = "allocating"
    /\ pc[r] \in {"proved", "recording"} => dir[r] = "whole"
    /\ pc[r] \in {"allocated", "seeding", "verified", "ready", "stopping", "sealed"} => row[r].state = pc[r]
    /\ pc[r] \in {"leased", "finalizing"} => row[r].state \in {"leased", "executing"}
    /\ pc[r] = "finalizing" => held[r] \in {"leased", "executing"}
    /\ pc[r] = "stopping" => held[r] = "stopping"
    /\ pc[r] = "abandoning" => held[r] \in {"seeding", "stopping"}
    /\ pc[r] \in {"terminal", "authorizing"} => held[r] \in Removable
    /\ pc[r] \in {"abandoning", "terminal", "authorizing"} => row[r].state = held[r]
    /\ pc[r] \in {"clearing", "wiping", "wiped", "unwiped"} => row[r].state = "cleaning"
    /\ pc[r] = "clearing" => dir[r] = "whole"
    /\ pc[r] = "wiping" => child[r] = "cleaning"
    /\ pc[r] = "wiped" => dir[r] = "none"
    /\ pc[r] = "sealed" => row[r].imp = "none"
    /\ pc[r] \in Importing => row[r].state = "sealed" /\ row[r].imp = "requested"
    /\ pc[r] = "importing" => ~ref[r]
    /\ pc[r] = "referring" => child[r] = "update-ref"
    /\ pc[r] = "referred" => ref[r]
    /\ pc[r] = "imported" => row[r].state = "candidate-imported"
    /\ pc[r] = "lost" =>
          \/ row[r].state = "admitted" /\ row[r].quota = "active"
          \/ row[r].state = "cleaning"
          \/ row[r].state = "sealed" /\ row[r].imp = "requested"
    /\ backend = "up" /\ child[r] # "none" =>
          \/ pc[r] \in {"helping", "wiping", "referring"}
          \/ pc[r] = "ended" /\ row[r].state = "quarantined"
    /\ backend = "up" /\ pc[r] = "ended" =>
          /\ row[r].state # "cleaning"
          /\ row[r].state = "admitted" => row[r].quota = "none"
          /\ row[r].imp # "requested" \/ row[r].state = "quarantined"
    /\ row[r].state = "quarantined" => pc[r] = "ended" /\ (backend = "up" => admission # "enabled")

RunInv(r) == RowAgrees(r) /\ ImportAgrees(r) /\ OutsideAgrees(r) /\ PlaceAgrees(r)

\* What recovery has not settled yet is on its list.
RecoverySettles ==
    /\ backend # "recovering" => todo = {}
    /\ backend = "recovering" => \A r \in Runs :
          \/ r \in todo /\ row[r].state \notin {"absent", "cleaned"}
          \/ row[r].state \in {"absent", "cleaned"}
          \/ row[r].state = "quarantined" /\ row[r].cleanup = "failed"

OneUnsettled == \A r, s \in Runs : r # s => ~(Unsettled(r) /\ Unsettled(s))
OwnProjects == \A r, s \in Runs : r # s /\ row[r].project # 0 => row[r].project # row[s].project

IInv == TypeOK /\ RecoverySettles /\ OneUnsettled /\ OwnProjects /\ \A r \in Runs : RunInv(r)

-----------------------------------------------------------------------------
(* Types *)

\* The states of a row, one by one, for proofs that keep State folded.
LEMMA States ==
  /\ "absent" \in State /\ "admitted" \in State
  /\ "allocated" \in State /\ "seeding" \in State
  /\ "verified" \in State /\ "ready" \in State
  /\ "leased" \in State /\ "executing" \in State
  /\ "stopping" \in State /\ "sealed" \in State
  /\ "candidate-imported" \in State /\ "retained" \in State
  /\ "cleaning" \in State /\ "cleaned" \in State
  /\ "failed" \in State /\ "timed-out" \in State
  /\ "cancelled" \in State /\ "quarantined" \in State
BY DEF State

\* A step of a run writes a well-typed row.
LEMMA RowTyped ==
  ASSUME AllocationBounds, row \in [Runs -> RowType], nextQuota \in 1..(LastQuota + 1),
         NEW r \in Runs, Controller(r) \/ Process(r)
  PROVE  row' \in [Runs -> RowType]
<1>1. CASE ReserveCommit(r)
  <2>1. "admitted" \in State BY DEF State
  <2>2. row'[r] \in RowType BY <1>1, <2>1 DEF ReserveCommit, RowType
  <2>3. QED BY <1>1, <2>2 DEF ReserveCommit
<1>2. CASE PrepareCommit(r)
  <2>1. nextQuota \in 0..LastQuota BY <1>2, AllocationBounds DEF PrepareCommit,
      AllocationBounds
  <2>2. row'[r] \in RowType BY <1>2, <2>1 DEF PrepareCommit, RowType,
      QuotaPhase
  <2>3. QED BY <1>2, <2>2 DEF PrepareCommit
<1>3. CASE RecordCommit(r)
  <2>1. "allocated" \in State BY DEF State
  <2>2. row'[r] \in RowType BY <1>3, <2>1 DEF RecordCommit, RowType,
      QuotaPhase
  <2>3. QED BY <1>3, <2>2 DEF RecordCommit
<1>4. CASE FailPhysicalAllocation(r)
  <2>1. "quarantined" \in State BY DEF State
  <2>2. row'[r] \in RowType BY <1>4, <2>1 DEF FailPhysicalAllocation, RowType,
      QuotaPhase
  <2>3. QED BY <1>4, <2>2 DEF FailPhysicalAllocation
<1>5. CASE PrepareStage(r)
  <2>1. {"seeding", "verified", "ready", "leased"} \subseteq State BY DEF State
  <2>2. row'[r] \in RowType BY <1>5, <2>1 DEF PrepareStage, Advance, Legal,
      RowType
  <2>3. QED BY <1>5, <2>2 DEF PrepareStage, Advance, Legal
<1>6. CASE Abandon(r)
  <2>1. "failed" \in State BY DEF State
  <2>2. row'[r] \in RowType BY <1>6, <2>1 DEF Abandon, Advance, Legal, RowType
  <2>3. QED BY <1>6, <2>2 DEF Abandon, Advance, Legal
<1>7. CASE ActivateCommit(r)
  <2>1. "executing" \in State BY DEF State
  <2>2. row'[r] \in RowType BY <1>7, <2>1 DEF ActivateCommit, Advance, Legal,
      RowType
  <2>3. QED BY <1>7, <2>2 DEF ActivateCommit, Advance, Legal
<1>8. CASE FinalizeCommit(r)
  <2>1. {"cancelled", "timed-out", "failed", "stopping"} \subseteq State BY
      DEF State
  <2>2. row'[r] \in RowType BY <1>8, <2>1 DEF FinalizeCommit, Advance, Legal,
      RowType
  <2>3. QED BY <1>8, <2>2 DEF FinalizeCommit, Advance, Legal
<1>9. CASE Seal(r)
  <2>1. "sealed" \in State BY DEF State
  <2>2. row'[r] \in RowType BY <1>9, <2>1 DEF Seal, RowType
  <2>3. QED BY <1>9, <2>2 DEF Seal
<1>10. CASE PrepareImport(r)
  <2>1. row'[r] \in RowType BY <1>10 DEF PrepareImport, RowType
  <2>2. QED BY <1>10, <2>1 DEF PrepareImport
<1>11. CASE CompleteImport(r)
  <2>1. "candidate-imported" \in State BY DEF State
  <2>2. row'[r] \in RowType BY <1>11, <2>1 DEF CompleteImport, RowType
  <2>3. QED BY <1>11, <2>2 DEF CompleteImport
<1>12. CASE FailImport(r)
  <2>1. "quarantined" \in State BY DEF State
  <2>2. row'[r] \in RowType BY <1>12, <2>1 DEF FailImport, RowType
  <2>3. QED BY <1>12, <2>2 DEF FailImport
<1>13. CASE RecordRetention(r)
  <2>1. "retained" \in State BY DEF State
  <2>2. row'[r] \in RowType BY <1>13, <2>1 DEF RecordRetention, RowType
  <2>3. QED BY <1>13, <2>2 DEF RecordRetention
<1>14. CASE CleanupCommit(r)
  <2>1. "cleaning" \in State BY DEF State
  <2>2. row'[r] \in RowType BY <1>14, <2>1 DEF CleanupCommit, RowType
  <2>3. QED BY <1>14, <2>2 DEF CleanupCommit
<1>15. CASE CompleteCleanup(r)
  <2>1. "cleaned" \in State BY DEF State
  <2>2. row'[r] \in RowType BY <1>15, <2>1 DEF CompleteCleanup, RowType,
      QuotaPhase
  <2>3. QED BY <1>15, <2>2 DEF CompleteCleanup
<1>16. CASE FailCleanup(r)
  <2>1. "quarantined" \in State BY DEF State
  <2>2. row'[r] \in RowType BY <1>16, <2>1 DEF FailCleanup, RowType,
      QuotaPhase
  <2>3. QED BY <1>16, <2>2 DEF FailCleanup
<1>17. CASE UNCHANGED row BY <1>17
<1> QED
  BY <1>1, <1>2, <1>3, <1>4, <1>5, <1>6, <1>7, <1>8, <1>9, <1>10, <1>11, <1>12,
      <1>13, <1>14, <1>15, <1>16, <1>17 DEF Controller, Process, ReserveBegin,
      PrepareBegin, Refused, Spawn, RecordBegin, AllocateFails, PrepareFails,
      ActivateRead, ActivateRefused, FinalizeRead, SealNoChange, SealFails, Stuck,
      FailureLost, ImportRef, ImportFails, CleanupBegin, SpawnCleanup, CleanupFails, HelperMakes,
      HelperMade, HelperFails, HelperEmpties, HelperRemoves, RefLands, durable

\* A step of a run keeps the types.
LEMMA RunTypeOK ==
  ASSUME AllocationBounds, TypeOK, NEW r \in Runs, Controller(r) \/ Process(r)
  PROVE  TypeOK'
<1>a. row' \in [Runs -> RowType] BY RowTyped DEF TypeOK
<1> USE <1>a DEF TypeOK, AllocationBounds, Where
<1>1. CASE ReserveBegin(r) BY <1>1 DEF ReserveBegin, Goto, Open, durable,
    outside
<1>2. CASE ReserveCommit(r) BY <1>2 DEF ReserveCommit, Goto, outside
<1>3. CASE PrepareBegin(r) BY <1>3 DEF PrepareBegin, Goto, Open, durable,
    outside
<1>4. CASE PrepareCommit(r) BY <1>4 DEF PrepareCommit, Goto, outside,
    QuotaPhase
<1>5. CASE Refused(r) BY <1>5 DEF Refused, Goto, durable, outside
<1>6. CASE Spawn(r) BY <1>6 DEF Spawn, Goto, durable
<1>7. CASE RecordBegin(r) BY <1>7 DEF RecordBegin, Goto, Open, durable,
    outside
<1>8. CASE RecordCommit(r) BY <1>8 DEF RecordCommit, Goto, outside
<1>9. CASE AllocateFails(r) BY <1>9 DEF AllocateFails, Goto, durable, outside
<1>10. CASE FailPhysicalAllocation(r) BY <1>10 DEF FailPhysicalAllocation,
    Goto, outside
<1>11. CASE PrepareStage(r) BY <1>11 DEF PrepareStage, Goto, Advance, Open,
    Legal, outside
<1>12. CASE PrepareFails(r) BY <1>12, States DEF PrepareFails, Goto, durable,
    outside
<1>13. CASE Abandon(r) BY <1>13, States DEF Abandon, Goto, Advance, Open,
    Legal, outside
<1>14. CASE ActivateRead(r) BY <1>14 DEF ActivateRead, durable, outside
<1>15. CASE ActivateCommit(r) BY <1>15 DEF ActivateCommit, Advance, Open,
    outside
<1>16. CASE ActivateRefused(r) BY <1>16 DEF ActivateRefused, durable, outside
<1>17. CASE FinalizeRead(r) BY <1>17, States DEF FinalizeRead, Goto, durable,
    outside
<1>18. CASE FinalizeCommit(r) BY <1>18, States DEF FinalizeCommit, Goto,
    Advance, Open, outside
<1>19. CASE Seal(r) BY <1>19 DEF Seal, Goto, Open, outside
<1>20. CASE SealNoChange(r) BY <1>20 DEF SealNoChange, Goto, durable, outside
<1>21. CASE SealFails(r) BY <1>21 DEF SealFails, Goto, durable, outside
<1>22. CASE Stuck(r) BY <1>22 DEF Stuck, Goto, Unsettled, durable, outside
<1>23. CASE PrepareImport(r) BY <1>23 DEF PrepareImport, Goto, Open,
    Unsettled, outside
<1>24. CASE ImportRef(r) BY <1>24 DEF ImportRef, Goto, durable
<1>25. CASE ImportFails(r) BY <1>25 DEF ImportFails, Goto, durable, outside
<1>26. CASE CompleteImport(r) BY <1>26 DEF CompleteImport, Goto, outside
<1>27. CASE FailImport(r) BY <1>27 DEF FailImport, Goto, outside
<1>28. CASE RecordRetention(r) BY <1>28 DEF RecordRetention, Goto, Open,
    outside
<1>29. CASE CleanupBegin(r) BY <1>29 DEF CleanupBegin, Goto, Open, Identified,
    durable, outside
<1>30. CASE CleanupCommit(r) BY <1>30 DEF CleanupCommit, Goto, outside
<1>31. CASE SpawnCleanup(r) BY <1>31 DEF SpawnCleanup, Goto, durable
<1>32. CASE CompleteCleanup(r) BY <1>32 DEF CompleteCleanup, Goto, outside
<1>33. CASE CleanupFails(r) BY <1>33 DEF CleanupFails, Goto, durable, outside
<1>34. CASE FailCleanup(r) BY <1>34 DEF FailCleanup, Goto, outside
<1>35. CASE HelperMakes(r) BY <1>35 DEF HelperMakes, durable
<1>36. CASE HelperMade(r) BY <1>36 DEF HelperMade, durable
<1>37. CASE HelperFails(r) BY <1>37 DEF HelperFails, durable
<1>38. CASE HelperEmpties(r) BY <1>38 DEF HelperEmpties, durable
<1>39. CASE HelperRemoves(r) BY <1>39 DEF HelperRemoves, durable
<1>40. CASE RefLands(r) BY <1>40 DEF RefLands, durable
<1>41. CASE FailureLost(r) BY <1>41 DEF FailureLost, Goto, durable, outside
<1> QED BY <1>1, <1>2, <1>3, <1>4, <1>5, <1>6, <1>7, <1>8, <1>9, <1>10, <1>11,
    <1>12, <1>13, <1>14, <1>15, <1>16, <1>17, <1>18, <1>19, <1>20, <1>21, <1>22,
    <1>23, <1>24, <1>25, <1>26, <1>27, <1>28, <1>29, <1>30, <1>31, <1>32, <1>33,
    <1>34, <1>35, <1>36, <1>37, <1>38, <1>39, <1>40, <1>41 DEF Controller, Process

-----------------------------------------------------------------------------
(* The steps of one run *)

\* What a step of run r leaves alone.
OthersKept(r) ==
    /\ backend' = backend /\ crashes' = crashes
    /\ admission' \in {admission, "blocked"}
    /\ nextQuota' \in {nextQuota, nextQuota + 1}
    /\ \A s \in Runs \ {r} :
          /\ row'[s] = row[s] /\ pc'[s] = pc[s] /\ held'[s] = held[s] /\ act'[s] = act[s]
          /\ child'[s] = child[s] /\ dir'[s] = dir[s] /\ ref'[s] = ref[s]

\* Every action of a controller or of a process is about one run.
LEMMA StepKeepsOthers ==
  ASSUME TypeOK, NEW r \in Runs, Controller(r) \/ Process(r)
  PROVE  OthersKept(r) /\ todo' = todo
<1> USE DEF TypeOK, OthersKept
<1>1. CASE ReserveBegin(r) BY <1>1 DEF ReserveBegin, Goto, Open, durable,
    outside
<1>2. CASE ReserveCommit(r) BY <1>2 DEF ReserveCommit, Goto, outside
<1>3. CASE PrepareBegin(r) BY <1>3 DEF PrepareBegin, Goto, Open, durable,
    outside
<1>4. CASE PrepareCommit(r) BY <1>4 DEF PrepareCommit, Goto, outside
<1>5. CASE Refused(r) BY <1>5 DEF Refused, Goto, durable, outside
<1>6. CASE Spawn(r) BY <1>6 DEF Spawn, Goto, durable
<1>7. CASE RecordBegin(r) BY <1>7 DEF RecordBegin, Goto, Open, durable,
    outside
<1>8. CASE RecordCommit(r) BY <1>8 DEF RecordCommit, Goto, outside
<1>9. CASE AllocateFails(r) BY <1>9 DEF AllocateFails, Goto, durable, outside
<1>10. CASE FailPhysicalAllocation(r) BY <1>10 DEF FailPhysicalAllocation,
    Goto, outside
<1>11. CASE PrepareStage(r) BY <1>11 DEF PrepareStage, Goto, Advance, Open,
    outside
<1>12. CASE PrepareFails(r) BY <1>12 DEF PrepareFails, Goto, durable, outside
<1>13. CASE Abandon(r) BY <1>13 DEF Abandon, Goto, Advance, Open, outside
<1>14. CASE ActivateRead(r) BY <1>14 DEF ActivateRead, durable, outside
<1>15. CASE ActivateCommit(r) BY <1>15 DEF ActivateCommit, Advance, Open,
    outside
<1>16. CASE ActivateRefused(r) BY <1>16 DEF ActivateRefused, durable, outside
<1>17. CASE FinalizeRead(r) BY <1>17 DEF FinalizeRead, Goto, durable, outside
<1>18. CASE FinalizeCommit(r) BY <1>18 DEF FinalizeCommit, Goto, Advance,
    Open, outside
<1>19. CASE Seal(r) BY <1>19 DEF Seal, Goto, Open, outside
<1>20. CASE SealNoChange(r) BY <1>20 DEF SealNoChange, Goto, durable, outside
<1>21. CASE SealFails(r) BY <1>21 DEF SealFails, Goto, durable, outside
<1>22. CASE Stuck(r) BY <1>22 DEF Stuck, Goto, durable, outside
<1>23. CASE PrepareImport(r) BY <1>23 DEF PrepareImport, Goto, Open, outside
<1>24. CASE ImportRef(r) BY <1>24 DEF ImportRef, Goto, durable
<1>25. CASE ImportFails(r) BY <1>25 DEF ImportFails, Goto, durable, outside
<1>26. CASE CompleteImport(r) BY <1>26 DEF CompleteImport, Goto, outside
<1>27. CASE FailImport(r) BY <1>27 DEF FailImport, Goto, outside
<1>28. CASE RecordRetention(r) BY <1>28 DEF RecordRetention, Goto, Open,
    outside
<1>29. CASE CleanupBegin(r) BY <1>29 DEF CleanupBegin, Goto, Open, durable,
    outside
<1>30. CASE CleanupCommit(r) BY <1>30 DEF CleanupCommit, Goto, outside
<1>31. CASE SpawnCleanup(r) BY <1>31 DEF SpawnCleanup, Goto, durable
<1>32. CASE CompleteCleanup(r) BY <1>32 DEF CompleteCleanup, Goto, outside
<1>33. CASE CleanupFails(r) BY <1>33 DEF CleanupFails, Goto, durable, outside
<1>34. CASE FailCleanup(r) BY <1>34 DEF FailCleanup, Goto, outside
<1>35. CASE HelperMakes(r) BY <1>35 DEF HelperMakes, durable
<1>36. CASE HelperMade(r) BY <1>36 DEF HelperMade, durable
<1>37. CASE HelperFails(r) BY <1>37 DEF HelperFails, durable
<1>38. CASE HelperEmpties(r) BY <1>38 DEF HelperEmpties, durable
<1>39. CASE HelperRemoves(r) BY <1>39 DEF HelperRemoves, durable
<1>40. CASE RefLands(r) BY <1>40 DEF RefLands, durable
<1>41. CASE FailureLost(r) BY <1>41 DEF FailureLost, Goto, durable, outside
<1> QED BY <1>1, <1>2, <1>3, <1>4, <1>5, <1>6, <1>7, <1>8, <1>9, <1>10, <1>11,
    <1>12, <1>13, <1>14, <1>15, <1>16, <1>17, <1>18, <1>19, <1>20, <1>21, <1>22,
    <1>23, <1>24, <1>25, <1>26, <1>27, <1>28, <1>29, <1>30, <1>31, <1>32, <1>33,
    <1>34, <1>35, <1>36, <1>37, <1>38, <1>39, <1>40, <1>41 DEF Controller, Process

\* What holds of a run is not disturbed by a step of another: admission can only
\* be blocked by it, and the next project id only grow.
LEMMA OtherRunInv ==
  ASSUME TypeOK, NEW r \in Runs, OthersKept(r), NEW s \in Runs \ {r}, RunInv(s)
  PROVE  RunInv(s)'
<1>1. RowAgrees(s)' BY DEF RowAgrees, OthersKept, RunInv, TypeOK, RowType
<1>2. ImportAgrees(s)' BY DEF ImportAgrees, OthersKept, RunInv
<1>3. OutsideAgrees(s)' BY DEF OutsideAgrees, OthersKept, RunInv
<1>4. PlaceAgrees(s)' BY DEF PlaceAgrees, OthersKept, RunInv
<1>5. QED BY <1>1, <1>2, <1>3, <1>4 DEF RunInv

\* A step of a run keeps what is known of its row, its outside and its controller.
LEMMA OwnRunInv ==
  ASSUME AllocationBounds, TypeOK, NEW r \in Runs, RunInv(r), Controller(r) \/ Process(r)
  PROVE  RunInv(r)'
<1> USE DEF TypeOK, RowType, RunInv, RowAgrees, ImportAgrees, OutsideAgrees,
    PlaceAgrees, Kept, Importing, Removable
<1>1. CASE ReserveBegin(r) BY <1>1 DEF ReserveBegin, Goto, Open, durable,
    outside
<1>2. CASE ReserveCommit(r)
  <2> USE <1>2 DEF ReserveCommit, Goto, outside
  <2>a. row[r] = NoRow OBVIOUS
  <2>b. row'[r].state = "admitted" /\ row'[r].intent = "none" /\ row'[r].quota = "none"
        /\ row'[r].project = 0 /\ row'[r].cleanup = "required" /\ row'[r].imp = "none"
    BY <2>a DEF NoRow
  <2>1. RowAgrees(r)'
    BY <2>b
  <2>2. ImportAgrees(r)'
    BY <2>b
  <2>3. OutsideAgrees(r)'
    BY <2>b
  <2>4. PlaceAgrees(r)'
    BY <2>b
  <2>5. QED BY <2>1, <2>2, <2>3, <2>4
<1>3. CASE PrepareBegin(r) BY <1>3 DEF PrepareBegin, Goto, Open, durable,
    outside
<1>4. CASE PrepareCommit(r) BY <1>4 DEF PrepareCommit, Goto, outside
<1>5. CASE Refused(r) BY <1>5 DEF Refused, Goto, durable, outside
<1>6. CASE Spawn(r) BY <1>6 DEF Spawn, Goto, durable
<1>7. CASE RecordBegin(r) BY <1>7 DEF RecordBegin, Goto, Open, durable,
    outside
<1>8. CASE RecordCommit(r) BY <1>8 DEF RecordCommit, Goto, outside
<1>9. CASE AllocateFails(r) BY <1>9 DEF AllocateFails, Goto, durable, outside
<1>10. CASE FailPhysicalAllocation(r) BY <1>10 DEF FailPhysicalAllocation,
    Goto, outside
<1>11. CASE PrepareStage(r) BY <1>11 DEF PrepareStage, Goto, Advance, Open,
    Legal, outside
<1>12. CASE PrepareFails(r) BY <1>12 DEF PrepareFails, Goto, durable, outside
<1>13. CASE Abandon(r) BY <1>13 DEF Abandon, Goto, Advance, Open, Legal,
    outside
<1>14. CASE ActivateRead(r) BY <1>14 DEF ActivateRead, durable, outside
<1>15. CASE ActivateCommit(r) BY <1>15 DEF ActivateCommit, Advance, Open,
    Legal, outside
<1>16. CASE ActivateRefused(r) BY <1>16 DEF ActivateRefused, durable, outside
<1>17. CASE FinalizeRead(r) BY <1>17 DEF FinalizeRead, Goto, durable, outside
<1>18. CASE FinalizeCommit(r) BY <1>18 DEF FinalizeCommit, Goto, Advance,
    Open, Legal, outside
<1>19. CASE Seal(r) BY <1>19 DEF Seal, Goto, Open, outside
<1>20. CASE SealNoChange(r) BY <1>20 DEF SealNoChange, Goto, durable, outside
<1>21. CASE SealFails(r) BY <1>21 DEF SealFails, Goto, durable, outside
<1>22. CASE Stuck(r) BY <1>22 DEF Stuck, Goto, Unsettled, durable, outside
<1>23. CASE PrepareImport(r) BY <1>23 DEF PrepareImport, Goto, Open,
    Unsettled, outside
<1>24. CASE ImportRef(r) BY <1>24 DEF ImportRef, Goto, durable
<1>25. CASE ImportFails(r) BY <1>25 DEF ImportFails, Goto, durable, outside
<1>26. CASE CompleteImport(r) BY <1>26 DEF CompleteImport, Goto, outside
<1>27. CASE FailImport(r) BY <1>27 DEF FailImport, Goto, outside
<1>28. CASE RecordRetention(r) BY <1>28 DEF RecordRetention, Goto, Open,
    outside
<1>29. CASE CleanupBegin(r) BY <1>29 DEF CleanupBegin, Goto, Open, Legal,
    Identified, durable, outside
<1>30. CASE CleanupCommit(r) BY <1>30 DEF CleanupCommit, Goto, outside
<1>31. CASE SpawnCleanup(r) BY <1>31 DEF SpawnCleanup, Goto, durable
<1>32. CASE CompleteCleanup(r) BY <1>32 DEF CompleteCleanup, Goto, outside
<1>33. CASE CleanupFails(r) BY <1>33 DEF CleanupFails, Goto, durable, outside
<1>34. CASE FailCleanup(r) BY <1>34 DEF FailCleanup, Goto, outside
<1>35. CASE HelperMakes(r) BY <1>35 DEF HelperMakes, durable
<1>36. CASE HelperMade(r) BY <1>36 DEF HelperMade, durable
<1>37. CASE HelperFails(r) BY <1>37 DEF HelperFails, durable
<1>38. CASE HelperEmpties(r) BY <1>38 DEF HelperEmpties, durable
<1>39. CASE HelperRemoves(r) BY <1>39 DEF HelperRemoves, durable
<1>40. CASE RefLands(r) BY <1>40 DEF RefLands, durable
<1>41. CASE FailureLost(r) BY <1>41 DEF FailureLost, Goto, durable, outside
<1> QED BY <1>1, <1>2, <1>3, <1>4, <1>5, <1>6, <1>7, <1>8, <1>9, <1>10, <1>11,
    <1>12, <1>13, <1>14, <1>15, <1>16, <1>17, <1>18, <1>19, <1>20, <1>21, <1>22,
    <1>23, <1>24, <1>25, <1>26, <1>27, <1>28, <1>29, <1>30, <1>31, <1>32, <1>33,
    <1>34, <1>35, <1>36, <1>37, <1>38, <1>39, <1>40, <1>41 DEF Controller, Process

\* What a step of one run does to what the runs share.
LEMMA StepEffects ==
  ASSUME TypeOK, NEW r \in Runs, Controller(r) \/ Process(r)
  PROVE  /\ backend = "up" \/ row' = row
         /\ Unsettled(r)' => Unsettled(r) \/ \A s \in Runs : ~Unsettled(s)
         /\ row'[r].project = row[r].project
            \/ (row'[r].project = nextQuota /\ nextQuota' = nextQuota + 1)
         /\ nextQuota' \in {nextQuota, nextQuota + 1}
<1> USE DEF TypeOK, RowType
<1>1. CASE ReserveCommit(r) BY <1>1 DEF ReserveCommit, Unsettled
<1>2. CASE PrepareCommit(r) BY <1>2 DEF PrepareCommit, Unsettled
<1>3. CASE RecordCommit(r) BY <1>3 DEF RecordCommit, Unsettled
<1>4. CASE FailPhysicalAllocation(r) BY <1>4 DEF FailPhysicalAllocation,
    Unsettled
<1>5. CASE PrepareStage(r) BY <1>5 DEF PrepareStage, Advance, Open, Unsettled
<1>6. CASE Abandon(r) BY <1>6 DEF Abandon, Advance, Open, Unsettled
<1>7. CASE ActivateCommit(r) BY <1>7 DEF ActivateCommit, Advance, Open,
    Unsettled
<1>8. CASE FinalizeCommit(r) BY <1>8 DEF FinalizeCommit, Advance, Open,
    Unsettled
<1>9. CASE Seal(r) BY <1>9 DEF Seal, Open, Unsettled
<1>10. CASE PrepareImport(r) BY <1>10 DEF PrepareImport, Open, Unsettled
<1>11. CASE CompleteImport(r) BY <1>11 DEF CompleteImport, Unsettled
<1>12. CASE FailImport(r) BY <1>12 DEF FailImport, Unsettled
<1>13. CASE RecordRetention(r) BY <1>13 DEF RecordRetention, Open, Unsettled
<1>14. CASE CleanupCommit(r) BY <1>14 DEF CleanupCommit, Unsettled
<1>15. CASE CompleteCleanup(r) BY <1>15 DEF CompleteCleanup, Unsettled
<1>16. CASE FailCleanup(r) BY <1>16 DEF FailCleanup, Unsettled
<1>17. CASE UNCHANGED <<row, nextQuota>> 
  BY ONLY <1>17, nextQuota \in 1..(LastQuota + 1) DEF Unsettled
<1> QED BY <1>1, <1>2, <1>3, <1>4, <1>5, <1>6, <1>7, <1>8, <1>9, <1>10, <1>11,
    <1>12, <1>13, <1>14, <1>15, <1>16, <1>17 DEF
    Controller, Process, ReserveBegin, PrepareBegin, Refused, Spawn,
    RecordBegin, AllocateFails, PrepareFails, ActivateRead, ActivateRefused,
    FinalizeRead, SealNoChange, SealFails, Stuck, FailureLost, ImportRef, ImportFails,
    CleanupBegin, SpawnCleanup, CleanupFails, HelperMakes, HelperMade,
    HelperFails, HelperEmpties, HelperRemoves, RefLands, durable

\* A step of a run keeps the one unsettled import and the ids apart.
LEMMA SharedKept ==
  ASSUME IInv, NEW r \in Runs, Controller(r) \/ Process(r)
  PROVE  RecoverySettles' /\ OneUnsettled' /\ OwnProjects'
<1> USE DEF IInv
<1>1. OthersKept(r) /\ todo' = todo BY StepKeepsOthers
<1>2. RecoverySettles' BY <1>1, StepEffects DEF RecoverySettles, OthersKept
<1>3. OneUnsettled'
  BY <1>1, StepEffects DEF OneUnsettled, OthersKept, Unsettled
<1>4. OwnProjects'
  BY <1>1, StepEffects DEF OwnProjects, OthersKept, RunInv, RowAgrees, TypeOK,
      RowType
<1>5. QED BY <1>2, <1>3, <1>4

\* The inductive invariant is kept by every step of a controller or a process,
LEMMA StepKeepsIInv ==
  ASSUME AllocationBounds, IInv, NEW r \in Runs, Controller(r) \/ Process(r)
  PROVE  IInv'
<1>1. OthersKept(r) BY StepKeepsOthers DEF IInv
<1>2. ASSUME NEW s \in Runs PROVE RunInv(s)'
  <2>1. CASE s = r BY <2>1, OwnRunInv DEF IInv
  <2>2. CASE s # r BY <2>2, <1>1, OtherRunInv DEF IInv
  <2>3. QED BY <2>1, <2>2
<1>3. QED BY <1>2, SharedKept, RunTypeOK DEF IInv

-----------------------------------------------------------------------------
(* The end of the backend, and its next start *)

\* ... by the recovery of a row, which ends in quarantine whatever the row said,
LEMMA RecoverRowKeepsIInv ==
  ASSUME IInv, NEW r \in Runs, RecoverRow(r)
  PROVE  IInv'
<1> USE DEF IInv, RecoverRow, outside
<1>1. TypeOK'
  <2>1. "quarantined" \in State BY DEF State
  <2> DEFINE L == IF row[r].lease = "active" THEN "quarantined" ELSE row[r].lease
             Q == IF row[r].quota \in {"active", "allocated"} THEN "quarantined" ELSE row[r].quota
  <2>2. L \in {"none", "active", "released", "quarantined"} /\ Q \in QuotaPhase
    BY DEF TypeOK, RowType, QuotaPhase
  <2>3. row \in [Runs -> RowType] BY DEF TypeOK
  <2>4. PICK F : F = [row EXCEPT ![r].state = "quarantined", ![r].cleanup = "failed"] OBVIOUS
  <2>5. PICK G : G = [F EXCEPT ![r].lease = L] OBVIOUS
  <2>6. F[r] \in RowType BY ONLY <2>1, <2>4, <2>3, r \in Runs DEF RowType
  <2>7. F \in [Runs -> RowType] BY <2>4, <2>6 DEF TypeOK
  <2>8. row' = [G EXCEPT ![r].quota = Q] BY <2>4, <2>5 DEF TypeOK, RowType
  <2> HIDE DEF L, Q
  <2>9. G[r] \in RowType BY ONLY <2>2, <2>5, <2>7, r \in Runs DEF RowType
  <2>10. G \in [Runs -> RowType] BY <2>5, <2>7, <2>9
  <2>11. row'[r] \in RowType BY ONLY <2>2, <2>8, <2>10, r \in Runs DEF RowType
  <2>12. row' \in [Runs -> RowType] BY <2>11 DEF TypeOK
  <2>13. QED BY <2>12 DEF TypeOK
<1>2. OthersKept(r) BY DEF OthersKept, TypeOK
<1>3. RunInv(r)'
  <2> USE DEF TypeOK, RowType, RunInv, RowAgrees, ImportAgrees, OutsideAgrees,
      PlaceAgrees, Kept, Importing, Removable
  <2>1. RowAgrees(r)' BY DEF RecoverySettles
  <2>2. ImportAgrees(r)' BY DEF RecoverySettles
  <2>3. OutsideAgrees(r)' BY DEF RecoverySettles
  <2>4. PlaceAgrees(r)' BY DEF RecoverySettles
  <2>5. QED BY <2>1, <2>2, <2>3, <2>4
<1>4. ASSUME NEW s \in Runs PROVE RunInv(s)'
  <2>1. CASE s = r BY <2>1, <1>3
  <2>2. CASE s # r BY <2>2, <1>2, OtherRunInv
  <2>3. QED BY <2>1, <2>2
<1>5. RecoverySettles' BY DEF RecoverySettles, TypeOK, RowType
<1>6. OneUnsettled' BY DEF OneUnsettled, Unsettled, TypeOK, RowType
<1>7. OwnProjects' BY DEF OwnProjects, TypeOK, RowType
<1>8. QED BY <1>1, <1>4, <1>5, <1>6, <1>7

\* ... by a crash, which takes the controllers away and leaves the helpers,
LEMMA CrashKeepsIInv ==
  ASSUME AllocationBounds, IInv, Crash
  PROVE  IInv'
<1> USE DEF IInv, Crash, durable, outside
<1>1. TypeOK' BY DEF TypeOK, AllocationBounds, Where
<1>2. RecoverySettles' /\ OneUnsettled' /\ OwnProjects'
  BY DEF RecoverySettles, OneUnsettled, Unsettled, OwnProjects
<1>3. ASSUME NEW r \in Runs PROVE RunInv(r)'
  <2> USE <1>3 DEF TypeOK, RunInv
  <2>1. RowAgrees(r)' BY DEF RowAgrees
  <2>2. ImportAgrees(r)' BY DEF ImportAgrees
  <2>3. OutsideAgrees(r)' BY DEF OutsideAgrees
  <2>4. PlaceAgrees(r)' BY DEF PlaceAgrees, Importing
  <2>5. QED BY <2>1, <2>2, <2>3, <2>4
<1>4. QED BY <1>1, <1>2, <1>3

\* ... by a start, which lists every row that is not settled,
LEMMA StartKeepsIInv ==
  ASSUME IInv, Start
  PROVE  IInv'
<1> USE DEF IInv, Start, outside
<1>1. TypeOK' BY DEF TypeOK
<1>2. OneUnsettled' /\ OwnProjects'
  BY DEF OneUnsettled, Unsettled, OwnProjects
<1>3. RecoverySettles'
  BY DEF RecoverySettles, Unsafe, QuotaLeasesValid, QuotaLeaseValid, RunInv,
      RowAgrees, TypeOK, RowType, State
<1>4. ASSUME NEW r \in Runs PROVE RunInv(r)'
  <2> USE <1>4 DEF TypeOK, RunInv
  <2>1. RowAgrees(r)' BY DEF RowAgrees
  <2>2. ImportAgrees(r)' BY DEF ImportAgrees
  <2>3. OutsideAgrees(r)' BY DEF OutsideAgrees
  <2>4. PlaceAgrees(r)' BY DEF PlaceAgrees, Importing
  <2>5. QED BY <2>1, <2>2, <2>3, <2>4
<1>5. QED BY <1>1, <1>2, <1>3, <1>4

\* ... and by the end of a recovery, which blocks admission over what it settled.
LEMMA RecoveredKeepsIInv ==
  ASSUME IInv, Recovered
  PROVE  IInv'
<1> USE DEF IInv, Recovered, outside
<1>1. TypeOK' BY DEF TypeOK
<1>2. RecoverySettles' /\ OneUnsettled' /\ OwnProjects'
  BY DEF RecoverySettles, OneUnsettled, Unsettled, OwnProjects
<1>3. ASSUME NEW r \in Runs PROVE RunInv(r)'
  <2> USE <1>3 DEF TypeOK, RunInv
  <2>1. RowAgrees(r)' BY DEF RowAgrees
  <2>2. ImportAgrees(r)' BY DEF ImportAgrees
  <2>3. OutsideAgrees(r)' BY DEF OutsideAgrees
  <2>4. PlaceAgrees(r)'
    BY DEF PlaceAgrees, OutsideAgrees, RowAgrees, Importing, RecoverySettles,
        Unsafe, NoRow
  <2>5. QED BY <2>1, <2>2, <2>3, <2>4
<1>4. QED BY <1>1, <1>2, <1>3

\* It holds at first.
LEMMA InitIInv == AllocationBounds /\ Init => IInv
<1> SUFFICES ASSUME AllocationBounds, Init PROVE IInv OBVIOUS
<1> USE DEF Init, NoRow
<1>1. TypeOK BY States DEF TypeOK, RowType, QuotaPhase, Where, AllocationBounds
<1>2. RecoverySettles /\ OneUnsettled /\ OwnProjects
  BY DEF RecoverySettles, OneUnsettled, Unsettled, OwnProjects
<1>3. ASSUME NEW r \in Runs PROVE RunInv(r)
  BY AllocationBounds DEF AllocationBounds, RunInv, RowAgrees, ImportAgrees,
      OutsideAgrees, PlaceAgrees, Kept, Importing, Removable
<1>4. QED BY <1>1, <1>2, <1>3 DEF IInv

\* Nothing changes, nothing is lost.
LEMMA StutterKeepsIInv ==
  ASSUME IInv, UNCHANGED vars
  PROVE  IInv'
BY DEF IInv, vars, TypeOK, RecoverySettles, OneUnsettled, Unsettled, OwnProjects,
    RunInv,
       RowAgrees, ImportAgrees, OutsideAgrees, PlaceAgrees

\* The inductive invariant holds in every state.
THEOREM InvariantHolds == AllocationBounds => (Spec => []IInv)
<1> SUFFICES ASSUME AllocationBounds PROVE Spec => []IInv OBVIOUS
<1>1. ASSUME IInv, [Next]_vars PROVE IInv'
  BY <1>1, StepKeepsIInv, RecoverRowKeepsIInv, CrashKeepsIInv, StartKeepsIInv,
     RecoveredKeepsIInv, StutterKeepsIInv DEF Next
<1>2. QED BY <1>1, InitIInv, PTL DEF Spec

-----------------------------------------------------------------------------
(* What the registry promises *)

\* Every variable keeps a value of its kind, whatever crashes.
THEOREM TypeCorrect == AllocationBounds => (Spec => []TypeOK)
<1>1. IInv => TypeOK BY DEF IInv
<1>2. QED BY <1>1, InvariantHolds, PTL

\* The quota leases pass the check of the next start, in whatever state the
\* backend dies, but for a row whose import has failed.
THEOREM LeasesAlwaysAgree == AllocationBounds => (Spec => []LeasesAgree)
<1>1. ASSUME IInv PROVE LeasesAgree
  <2>1. SUFFICES ASSUME NEW r \in Runs, row[r].imp # "quarantined" PROVE QuotaLeaseValid(r)
    BY DEF LeasesAgree
  <2>2. RowAgrees(r) /\ row[r].state \in State /\ row[r].quota \in QuotaPhase
    BY <1>1 DEF IInv, RunInv, TypeOK, RowType
  <2>3. QED BY <2>1, <2>2 DEF RowAgrees, QuotaLeaseValid, Kept, State, QuotaPhase,
      NoRow
<1>2. QED BY <1>1, InvariantHolds, PTL

\* A directory or a helper at work on one belongs to a lease that was not
\* released, under a project id no other run has.
THEOREM DirectoriesStayLeased == AllocationBounds => (Spec => []DirectoriesLeased)
<1>1. ASSUME IInv PROVE DirectoriesLeased
  <2>1. SUFFICES ASSUME NEW r \in Runs, dir[r] # "none" \/ child[r] \in {"allocating", "cleaning"}
                 PROVE  /\ row[r].quota \in {"active", "allocated", "quarantined"}
                        /\ row[r].project \in 1..(nextQuota - 1)
                        /\ \A s \in Runs \ {r} : row[s].project # row[r].project
    BY DEF DirectoriesLeased
  <2>2. RowAgrees(r) /\ OutsideAgrees(r) BY <1>1 DEF IInv, RunInv
  <2>3. /\ row[r].quota \in QuotaPhase /\ row[r].project \in Nat
        /\ nextQuota \in Nat
    BY <1>1 DEF IInv, TypeOK, RowType
  <2>4. row[r].quota \notin {"none", "released"} BY <2>1, <2>2 DEF OutsideAgrees
  <2>5. row[r].project \in 1..(nextQuota - 1) BY <2>2, <2>3, <2>4 DEF RowAgrees
  <2>6. \A s \in Runs \ {r} : row[s].project # row[r].project
    BY <1>1, <2>3, <2>5 DEF IInv, OwnProjects
  <2>7. QED BY <2>3, <2>4, <2>5, <2>6 DEF QuotaPhase
<1>2. QED BY <1>1, InvariantHolds, PTL

\* While one import works on the repository no other is unsettled there.
THEOREM ImportsExclude == AllocationBounds => (Spec => []OneImport)
<1>1. ASSUME IInv PROVE OneImport
  <2>1. ASSUME NEW r \in Runs,
               child[r] = "update-ref" \/ pc[r] \in {"importing", "referring", "referred"}
        PROVE  Unsettled(r)
    BY <1>1, <2>1 DEF IInv, RunInv, OutsideAgrees, PlaceAgrees, ImportAgrees,
        Importing, Unsettled
  <2>2. QED BY <1>1, <2>1 DEF OneImport, IInv, OneUnsettled
<1>2. QED BY <1>1, InvariantHolds, PTL

\* A quarantine ref is accounted for, and a completed import keeps its ref and
\* its worktree.
THEOREM EvidenceStaysKept == AllocationBounds => (Spec => []EvidenceKept)
<1>1. ASSUME IInv PROVE EvidenceKept
  <2>1. SUFFICES ASSUME NEW r \in Runs
                 PROVE  /\ ref[r] => row[r].imp = "completed" \/ Unsettled(r)
                        /\ row[r].imp = "completed" => ref[r] /\ dir[r] = "whole"
    BY DEF EvidenceKept
  <2>2. ImportAgrees(r) /\ OutsideAgrees(r) BY <1>1 DEF IInv, RunInv
  <2>3. row[r].imp \in {"none", "requested", "completed", "quarantined"}
    BY <1>1 DEF IInv, TypeOK, RowType
  <2>4. QED BY <2>2, <2>3 DEF ImportAgrees, OutsideAgrees, Unsettled
<1>2. QED BY <1>1, InvariantHolds, PTL

\* Admission is open over a row, an import or a directory of unknown outcome only
\* when the failure itself could not be recorded; the next start settles its row.
THEOREM ResidueBlocks == AllocationBounds => (Spec => []BlockedByResidue)
<1>1. ASSUME IInv PROVE BlockedByResidue
  <2>1. SUFFICES ASSUME Open, NEW r \in Runs
                 PROVE  /\ row[r].state # "quarantined" /\ row[r].lease # "quarantined"
                        /\ pc[r] = "idle" => dir[r] = "none"
                        /\ pc[r] = "ended" /\ dir[r] # "none" => row[r].state \notin {"admitted", "cleaned"}
                        /\ pc[r] = "lost" => Unsafe(r) /\ row[r].quota \in {"active", "allocated"}
    BY DEF BlockedByResidue
  <2>2. RowAgrees(r) /\ ImportAgrees(r) /\ OutsideAgrees(r) /\ PlaceAgrees(r)
    BY <1>1 DEF IInv, RunInv
  <2>3. row[r].imp \in {"none", "requested", "completed", "quarantined"}
    BY <1>1 DEF IInv, TypeOK, RowType
  <2>4. row[r].state # "quarantined" BY <2>1, <2>2 DEF Open, PlaceAgrees
  <2>5. row[r].lease # "quarantined" BY <2>2, <2>3, <2>4 DEF ImportAgrees
  <2>6. pc[r] = "idle" => dir[r] = "none"
    BY <2>2 DEF PlaceAgrees, RowAgrees, OutsideAgrees, NoRow
  <2>7. pc[r] = "ended" /\ dir[r] # "none" => row[r].state \notin {"admitted", "cleaned"}
    BY <2>1, <2>2 DEF Open, PlaceAgrees, RowAgrees, OutsideAgrees
  <2>8. pc[r] = "lost" => Unsafe(r) /\ row[r].quota \in {"active", "allocated"}
    BY <2>2 DEF PlaceAgrees, RowAgrees, Kept, Unsafe
  <2>9. QED BY <2>4, <2>5, <2>6, <2>7, <2>8
<1>2. QED BY <1>1, InvariantHolds, PTL

\* What a step leaves a quarantined run.
KeepsQuarantined(r) ==
    row[r].state = "quarantined" =>
        /\ row'[r].state = "quarantined"
        /\ dir'[r] = dir[r] \/ child[r] # "none"
        /\ ref'[r] = ref[r] \/ child[r] # "none"
        /\ child'[r] \in {child[r], "none"}

\* A step of a quarantined run: its controller has ended, so only a process that
\* was already at work can move.
LEMMA QuarantinedStays ==
  ASSUME IInv, NEW r \in Runs, Controller(r) \/ Process(r)
  PROVE  KeepsQuarantined(r)
<1> SUFFICES ASSUME row[r].state = "quarantined"
             PROVE  /\ row'[r].state = "quarantined"
                    /\ dir'[r] = dir[r] \/ child[r] # "none"
                    /\ ref'[r] = ref[r] \/ child[r] # "none"
                    /\ child'[r] \in {child[r], "none"}
  BY DEF KeepsQuarantined
<1>p. pc[r] = "ended" BY DEF IInv, RunInv, PlaceAgrees
<1>t. TypeOK BY DEF IInv
<1> USE <1>p, <1>t DEF TypeOK
<1>1. CASE ReserveBegin(r) BY <1>1 DEF ReserveBegin, Goto, Open, durable,
    outside
<1>2. CASE ReserveCommit(r) BY <1>2 DEF ReserveCommit, Goto, outside
<1>3. CASE PrepareBegin(r) BY <1>3 DEF PrepareBegin, Goto, Open, durable,
    outside
<1>4. CASE PrepareCommit(r) BY <1>4 DEF PrepareCommit, Goto, outside
<1>5. CASE Refused(r) BY <1>5 DEF Refused, Goto, durable, outside
<1>6. CASE Spawn(r) BY <1>6 DEF Spawn, Goto, durable
<1>7. CASE RecordBegin(r) BY <1>7 DEF RecordBegin, Goto, Open, durable,
    outside
<1>8. CASE RecordCommit(r) BY <1>8 DEF RecordCommit, Goto, outside
<1>9. CASE AllocateFails(r) BY <1>9 DEF AllocateFails, Goto, durable, outside
<1>10. CASE FailPhysicalAllocation(r) BY <1>10 DEF FailPhysicalAllocation,
    Goto, outside
<1>11. CASE PrepareStage(r) BY <1>11 DEF PrepareStage, Goto, Advance, Open,
    Legal, outside
<1>12. CASE PrepareFails(r) BY <1>12 DEF PrepareFails, Goto, durable, outside
<1>13. CASE Abandon(r) BY <1>13 DEF Abandon, Goto, Advance, Open, Legal,
    outside
<1>14. CASE ActivateRead(r) BY <1>14 DEF ActivateRead, durable, outside
<1>15. CASE ActivateCommit(r) BY <1>15 DEF ActivateCommit, Advance, Open,
    Legal, outside
<1>16. CASE ActivateRefused(r) BY <1>16 DEF ActivateRefused, durable, outside
<1>17. CASE FinalizeRead(r) BY <1>17 DEF FinalizeRead, Goto, durable, outside
<1>18. CASE FinalizeCommit(r) BY <1>18 DEF FinalizeCommit, Goto, Advance,
    Open, Legal, outside
<1>19. CASE Seal(r) BY <1>19 DEF Seal, Goto, Open, outside
<1>20. CASE SealNoChange(r) BY <1>20 DEF SealNoChange, Goto, durable, outside
<1>21. CASE SealFails(r) BY <1>21 DEF SealFails, Goto, durable, outside
<1>22. CASE Stuck(r) BY <1>22 DEF Stuck, Goto, durable, outside
<1>23. CASE PrepareImport(r) BY <1>23 DEF PrepareImport, Goto, Open, outside
<1>24. CASE ImportRef(r) BY <1>24 DEF ImportRef, Goto, durable
<1>25. CASE ImportFails(r) BY <1>25 DEF ImportFails, Goto, durable, outside
<1>26. CASE CompleteImport(r) BY <1>26 DEF CompleteImport, Goto, outside
<1>27. CASE FailImport(r) BY <1>27 DEF FailImport, Goto, outside
<1>28. CASE RecordRetention(r) BY <1>28 DEF RecordRetention, Goto, Open,
    outside
<1>29. CASE CleanupBegin(r) BY <1>29 DEF CleanupBegin, Goto, Open, Legal,
    durable, outside
<1>30. CASE CleanupCommit(r) BY <1>30 DEF CleanupCommit, Goto, outside
<1>31. CASE SpawnCleanup(r) BY <1>31 DEF SpawnCleanup, Goto, durable
<1>32. CASE CompleteCleanup(r) BY <1>32 DEF CompleteCleanup, Goto, outside
<1>33. CASE CleanupFails(r) BY <1>33 DEF CleanupFails, Goto, durable, outside
<1>34. CASE FailCleanup(r) BY <1>34 DEF FailCleanup, Goto, outside
<1>35. CASE HelperMakes(r) BY <1>35 DEF HelperMakes, durable
<1>36. CASE HelperMade(r) BY <1>36 DEF HelperMade, durable
<1>37. CASE HelperFails(r) BY <1>37 DEF HelperFails, durable
<1>38. CASE HelperEmpties(r) BY <1>38 DEF HelperEmpties, durable
<1>39. CASE HelperRemoves(r) BY <1>39 DEF HelperRemoves, durable
<1>40. CASE RefLands(r) BY <1>40 DEF RefLands, durable
<1>41. CASE FailureLost(r) BY <1>41 DEF FailureLost, Goto, durable, outside
<1> QED BY <1>1, <1>2, <1>3, <1>4, <1>5, <1>6, <1>7, <1>8, <1>9, <1>10, <1>11,
    <1>12, <1>13, <1>14, <1>15, <1>16, <1>17, <1>18, <1>19, <1>20, <1>21, <1>22,
    <1>23, <1>24, <1>25, <1>26, <1>27, <1>28, <1>29, <1>30, <1>31, <1>32, <1>33,
    <1>34, <1>35, <1>36, <1>37, <1>38, <1>39, <1>40, <1>41 DEF Controller, Process

\* A quarantined row stays so for good, and its directory and its ref are
\* touched only by a process that was already at work.
THEOREM QuarantineStays == AllocationBounds => (Spec => QuarantineKeeps)
<1> SUFFICES ASSUME AllocationBounds PROVE Spec => QuarantineKeeps OBVIOUS
<1>1. ASSUME IInv, [Next]_vars
      PROVE  [\A r \in Runs : row[r].state = "quarantined" =>
                 /\ row'[r].state = "quarantined"
                 /\ dir'[r] = dir[r] \/ child[r] # "none"
                 /\ ref'[r] = ref[r] \/ child[r] # "none"
                 /\ child'[r] \in {child[r], "none"}]_vars
  <2>1. ASSUME NEW r \in Runs, NEW s \in Runs, Controller(s) \/ Process(s)
        PROVE  KeepsQuarantined(r)
    <3>1. CASE r = s BY <1>1, <2>1, <3>1, QuarantinedStays
    <3>2. CASE r # s
      <4>1. OthersKept(s) BY <1>1, <2>1, StepKeepsOthers DEF IInv
      <4>2. QED BY <3>2, <4>1 DEF OthersKept, KeepsQuarantined
    <3>3. QED BY <3>1, <3>2
  <2>2. ASSUME NEW r \in Runs, NEW s \in Runs, RecoverRow(s)
        PROVE  KeepsQuarantined(r)
    BY <1>1, <2>2 DEF RecoverRow, KeepsQuarantined, outside, IInv, TypeOK, RowType
  <2>3. ASSUME NEW r \in Runs, Crash \/ Start \/ Recovered
        PROVE  KeepsQuarantined(r)
    BY <2>3 DEF Crash, Start, Recovered, KeepsQuarantined, durable, outside
  <2>4. ASSUME UNCHANGED vars, NEW r \in Runs PROVE KeepsQuarantined(r)
    BY <2>4 DEF vars, KeepsQuarantined
  <2>5. \A r \in Runs : KeepsQuarantined(r) BY <1>1, <2>1, <2>2, <2>3, <2>4 DEF Next
  <2>6. QED BY <2>5 DEF KeepsQuarantined
<1>2. QED BY <1>1, InvariantHolds, PTL DEF Spec, QuarantineKeeps
=============================================================================
