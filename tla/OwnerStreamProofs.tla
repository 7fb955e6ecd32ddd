-------------------------- MODULE OwnerStreamProofs --------------------------
(* What holds of OwnerStream for any owners, runs, operations and bounds. *)
EXTENDS OwnerStream, TLAPS, FiniteSetTheorems, WellFoundedInduction

\* The events that are bounded are counted.
CountsType == counts \in [{"records", "crashes", "losses", "failures"} -> Nat]

LEMMA CountsTypeStep == CountsType /\ [Next]_vars => CountsType'
<1> SUFFICES ASSUME CountsType, [Next]_vars PROVE CountsType'
  OBVIOUS
<1>1. CASE UNCHANGED counts
  BY <1>1 DEF CountsType
<1>2. ASSUME NEW what \in {"records", "crashes", "losses", "failures"},
             counts' = [counts EXCEPT ![what] = @ + 1]
      PROVE  CountsType'
  BY <1>2 DEF CountsType
<1> QED
  BY <1>1, <1>2 DEF Next, vars, Record, Link, Duplicate, Accept, Reject, StoreFails, Boot,
     Crash, Stop, Ended, LoseProjection, Age, Count

LEMMA FailuresStay ==
  ASSUME CountsType, [Next]_vars, counts.failures > 0
  PROVE  counts'.failures > 0
<1>1. CASE UNCHANGED counts
  BY <1>1
<1>2. ASSUME NEW what \in {"records", "crashes", "losses", "failures"},
             counts' = [counts EXCEPT ![what] = @ + 1]
      PROVE  counts'.failures > 0
  BY <1>2 DEF CountsType
<1> QED
  BY <1>1, <1>2 DEF Next, vars, Record, Link, Duplicate, Accept, Reject, StoreFails, Boot,
     Crash, Stop, Ended, LoseProjection, Age, Count

\* What keeps the lifecycle honest: only verified owners are configured ones,
\* and "current" was computed from the tables as they are, unless the write that
\* belongs to a fault was lost.
LifecycleInv ==
  /\ available \subseteq configured
  /\ lifecycle = "current" /\ ~unmarked => faults = {} /\ (up => configured \subseteq available)
  /\ unmarked /\ up => counts.failures > 0

LEMMA LifecycleInvInit == Init => LifecycleInv
  BY DEF Init, LifecycleInv

LEMMA LifecycleInvStep ==
  ASSUME LifecycleInv, CountsType, [Next]_vars
  PROVE  LifecycleInv'
<1>0. counts.failures > 0 => counts'.failures > 0
  BY FailuresStay
<1>1. ASSUME NEW o \in Owners, NEW f \in Facts, Record(o, f) PROVE LifecycleInv'
  BY <1>0, <1>1 DEF Record, LifecycleInv, modelVars
<1>2. ASSUME NEW o \in Owners, Link(o) PROVE LifecycleInv'
  BY <1>2 DEF Link, Idle, LifecycleInv, Lifecycle
<1>3. CASE Duplicate
  BY <1>0, <1>3 DEF Duplicate, LifecycleInv, modelVars
<1>4. CASE Accept
  <2>1. faults' \subseteq faults
    BY <1>4 DEF Accept, FaultsAfter
  <2>2. /\ configured' = configured \cup {publishing.owner} /\ up' = up
        /\ available' = available \cup {publishing.owner}
    BY <1>4 DEF Accept
  <2>3. CASE lifecycle' = Lifecycle(faults', configured', available') /\ unmarked' = FALSE
    BY <2>2, <2>3 DEF LifecycleInv, Lifecycle
  <2>4. CASE UNCHANGED <<lifecycle, unmarked>>
    BY <1>0, <2>1, <2>2, <2>4 DEF LifecycleInv
  <2> QED
    BY <1>4, <2>3, <2>4 DEF Accept
<1>5. CASE Reject
  <2>1. CASE lifecycle' = "degraded" /\ unmarked' = FALSE
    BY <1>5, <2>1 DEF Reject, LifecycleInv
  <2>2. CASE unmarked' = TRUE /\ Count("failures", MaxFailures)
    <3>1. counts'.failures = counts.failures + 1 /\ counts.failures \in Nat
      BY <2>2 DEF Count, CountsType
    <3> QED
      BY <1>5, <2>2, <3>1 DEF Reject, LifecycleInv
  <2> QED
    BY <1>5, <2>1, <2>2 DEF Reject
<1>6. CASE StoreFails
  BY <1>0, <1>6 DEF StoreFails, LifecycleInv, modelVars
<1>7. CASE Boot
  BY <1>7 DEF Boot, LifecycleInv, Lifecycle
<1>8. CASE Crash
  BY <1>8 DEF Crash, Ended, LifecycleInv
<1>9. CASE Stop
  BY <1>9 DEF Stop, Ended, LifecycleInv
<1>10. CASE LoseProjection
  BY <1>10 DEF LoseProjection, LifecycleInv
<1>11. CASE Age
  BY <1>0, <1>11 DEF Age, LifecycleInv, modelVars
<1>12. CASE UNCHANGED vars
  BY <1>0, <1>12 DEF LifecycleInv, vars, modelVars
<1> QED
  BY <1>1, <1>2, <1>3, <1>4, <1>5, <1>6, <1>7, <1>8, <1>9, <1>10, <1>11, <1>12 DEF Next

\* The read model never calls itself current while a fault is stored or an owner
\* it knows is still to be verified, whatever the owners publish and whenever the
\* backend or a store fails: but after the fault whose write of the lifecycle was
\* lost, which takes an error of the store in a backend that runs.
THEOREM CurrentIsHonest == Spec => []CurrentHasNoFaults
<1>1. LifecycleInv => CurrentHasNoFaults
  BY DEF LifecycleInv, CurrentHasNoFaults
<1>2. Init => CountsType
  BY DEF Init, CountsType
<1> QED
  BY <1>1, <1>2, LifecycleInvInit, LifecycleInvStep, CountsTypeStep, PTL DEF Spec

------------------------------------------------------------------------------

\* No cursor and no fault is of an epoch its owner has yet to open.
EpochInv ==
  /\ epoch \in [Owners -> Nat] /\ DOMAIN cursor = Owners
  /\ publishing # None => publishing.owner \in Owners
  /\ \A fault \in faults : fault.epoch \in Nat /\ fault.epoch =< epoch[fault.owner]
  /\ \A fault \in faults : fault.owner \in Owners

\* Opening a new epoch leaves no fault ahead of it.
LEMMA BreakOffKeepsEpochs ==
  ASSUME EpochInv, BreakOff
  PROVE  /\ epoch' \in [Owners -> Nat] /\ \A o \in Owners : epoch[o] =< epoch'[o]
         /\ publishing' # None => publishing'.owner \in Owners
<1>1. Registry \in Owners
  BY DEF Owners
<1>2. CASE publishing.owner = Registry /\ ~publishing.retry
  <2>1. epoch' = [epoch EXCEPT ![Registry] = @ + 1] /\ publishing' = Publication(Registry, 1, TRUE)
    BY <1>2 DEF BreakOff
  <2> QED
    BY <2>1, <1>1 DEF EpochInv, Publication
<1>3. CASE ~(publishing.owner = Registry /\ ~publishing.retry)
  <2>1. UNCHANGED epoch /\ publishing' = None
    BY <1>3 DEF BreakOff
  <2>2. \A o \in Owners : epoch[o] \in Nat
    BY DEF EpochInv
  <2> QED
    BY <2>1, <2>2 DEF EpochInv
<1> QED
  BY <1>2, <1>3

LEMMA EpochInvInit == Init => EpochInv
  BY DEF Init, EpochInv

LEMMA EpochInvStep == EpochInv /\ [Next]_vars => EpochInv'
<1> SUFFICES ASSUME EpochInv, [Next]_vars PROVE EpochInv'
  OBVIOUS
<1>1. ASSUME NEW o \in Owners, NEW f \in Facts, Record(o, f) PROVE EpochInv'
  BY <1>1 DEF Record, Published, Publication, EpochInv, modelVars
<1>2. ASSUME NEW o \in Owners, Link(o) PROVE EpochInv'
  BY <1>2 DEF Link, Publication, EpochInv, ownerVars
<1>3. CASE Duplicate
  BY <1>3 DEF Duplicate, Proceed, Publication, EpochInv, ownerVars, modelVars
<1>4. CASE Accept
  <2>1. faults' \subseteq faults
    BY <1>4 DEF Accept, FaultsAfter
  <2>2. DOMAIN cursor' = DOMAIN cursor
    BY <1>4 DEF Accept
  <2>3. CASE UNCHANGED epoch /\ Proceed
    <3>1. publishing' # None => publishing'.owner \in Owners
      BY <1>4, <2>3 DEF Accept, Proceed, Publication, EpochInv
    <3> QED
      BY <2>1, <2>2, <2>3, <3>1 DEF EpochInv
  <2>4. CASE BreakOff
    BY <2>1, <2>2, <2>4, BreakOffKeepsEpochs DEF EpochInv
  <2> QED
    BY <1>4, <2>3, <2>4 DEF Accept
<1>5. CASE Reject
  <2>1. PICK fault : fault.owner = publishing.owner /\ fault.epoch = epoch[publishing.owner]
                       /\ faults' = faults \cup {fault}
    BY <1>5 DEF Reject, StoresFault, Offered, EventAt
  <2>2. BreakOff /\ UNCHANGED cursor /\ publishing.owner \in Owners
    BY <1>5 DEF Reject, StoresFault, EpochInv
  <2> QED
    BY <2>1, <2>2, BreakOffKeepsEpochs DEF EpochInv
<1>6. CASE StoreFails
  <2>1. BreakOff /\ UNCHANGED modelVars
    BY <1>6 DEF StoreFails
  <2> QED
    BY <2>1, BreakOffKeepsEpochs DEF EpochInv, modelVars
<1>7. CASE Boot
  BY <1>7 DEF Boot, EpochInv
<1>8. CASE Crash \/ Stop
  <2>1. publishing' = None /\ UNCHANGED <<epoch, cursor>>
    BY <1>8 DEF Crash, Stop, Ended, ownerVars
  <2>2. CASE UNCHANGED faults
    BY <2>1, <2>2 DEF EpochInv
  <2>3. CASE StoresFault
    <3>1. PICK fault : fault.owner = publishing.owner /\ fault.epoch = epoch[publishing.owner]
                         /\ faults' = faults \cup {fault}
      BY <2>3 DEF StoresFault, Offered, EventAt
    <3>2. publishing.owner \in Owners
      BY <2>3 DEF StoresFault, EpochInv
    <3> QED
      BY <2>1, <3>1, <3>2 DEF EpochInv
  <2> QED
    BY <1>8, <2>2, <2>3 DEF Crash, Stop
<1>9. CASE LoseProjection
  BY <1>9 DEF LoseProjection, EpochInv, ownerVars
<1>10. CASE Age
  BY <1>10 DEF Age, EpochInv, ownerVars, modelVars
<1>11. CASE UNCHANGED vars
  BY <1>11 DEF EpochInv, vars, ownerVars, modelVars
<1> QED
  BY <1>1, <1>2, <1>3, <1>4, <1>5, <1>6, <1>7, <1>8, <1>9, <1>10, <1>11 DEF Next

\* An event that is accepted while the cursor is at another epoch, or there is
\* none, is the first of its epoch.
LEMMA ReopensAtFirst ==
  ASSUME NEW event, Verdict(event) = "accepted",
         cursor[event.owner] = None \/ cursor[event.owner].epoch # event.epoch
  PROVE  Sequence(event) = 1
  BY DEF Verdict

\* The faults that go when an event is accepted are its owner's, of other epochs.
LEMMA ClearedFaults ==
  ASSUME NEW event, NEW fault \in faults \ FaultsAfter(event)
  PROVE  /\ fault.owner = event.owner /\ fault.epoch # event.epoch
         /\ cursor[event.owner] # None /\ cursor[event.owner].epoch # event.epoch
  BY DEF FaultsAfter

\* A stored fault disappears only when its own owner opens a later epoch, from
\* its first event, or when the store is lost: no other step of any owner and no
\* restart of the backend forgets it.
THEOREM FaultsPersist == Spec => FaultsClearOnlyByReopening
<1> DEFINE Cleared == \A fault \in faults \ faults' :
       \/ counts'.losses > counts.losses
       \/ /\ cursor'[fault.owner] # cursor[fault.owner]
          /\ Sequence(cursor'[fault.owner]) = 1
          /\ cursor'[fault.owner].epoch > fault.epoch
<1>1. ASSUME EpochInv, CountsType, Next PROVE Cleared
  <2>1. CASE Accept
    <3> SUFFICES ASSUME NEW fault \in faults \ faults'
                 PROVE  /\ cursor'[fault.owner] # cursor[fault.owner]
                        /\ Sequence(cursor'[fault.owner]) = 1
                        /\ cursor'[fault.owner].epoch > fault.epoch
      OBVIOUS
    <3>1. Offered.owner = publishing.owner /\ Offered.epoch = epoch[publishing.owner]
      BY DEF Offered, EventAt
    <3>2. fault \in faults \ FaultsAfter(Offered) /\ Verdict(Offered) = "accepted"
      BY <2>1 DEF Accept
    <3>3. /\ fault.owner = Offered.owner /\ fault.epoch # Offered.epoch
          /\ cursor[Offered.owner] # None /\ cursor[Offered.owner].epoch # Offered.epoch
      BY <3>2, ClearedFaults
    <3>4. Sequence(Offered) = 1
      BY <3>2, <3>3, ReopensAtFirst
    <3>5. fault \in faults
      OBVIOUS
    <3>6. /\ fault.owner \in Owners
          /\ fault.epoch \in Nat /\ fault.epoch =< epoch[fault.owner]
      BY <1>1, <3>5 DEF EpochInv
    <3>7. epoch[fault.owner] \in Nat
      BY <1>1, <3>6 DEF EpochInv
    <3>8. cursor' = [cursor EXCEPT ![publishing.owner] = Offered]
      BY <2>1 DEF Accept
    <3>9. DOMAIN cursor = Owners
      BY <1>1 DEF EpochInv
    <3>10. cursor'[fault.owner] = Offered
      BY <3>1, <3>3, <3>6, <3>8, <3>9
    <3>11. Offered.epoch > fault.epoch
      BY <3>1, <3>3, <3>6, <3>7
    <3>12. cursor[fault.owner].epoch # Offered.epoch
      BY <3>3
    <3> QED
      BY <3>4, <3>10, <3>11, <3>12
  <2>2. CASE LoseProjection
    <3>1. counts'.losses = counts.losses + 1 /\ counts.losses \in Nat
      BY <1>1, <2>2 DEF LoseProjection, Count, CountsType
    <3> QED
      BY <3>1
  <2>3. CASE \/ \E o \in Owners, f \in Facts : Record(o, f)
             \/ \E o \in Owners : Link(o)
             \/ Duplicate \/ Reject \/ StoreFails \/ Boot \/ Crash \/ Stop \/ Age
    <3>1. faults \subseteq faults'
      BY <2>3 DEF Record, Link, Duplicate, Reject, StoresFault, StoreFails, Boot, Crash, Stop, Age, modelVars
    <3> QED
      BY <3>1
  <2> QED
    BY <1>1, <2>1, <2>2, <2>3 DEF Next
<1>2. EpochInv /\ CountsType /\ [Next]_vars => [Cleared]_vars
  BY <1>1
<1>3. Init => CountsType
  BY DEF Init, CountsType
<1> QED
  BY <1>2, <1>3, EpochInvInit, EpochInvStep, CountsTypeStep, PTL DEF Spec, FaultsClearOnlyByReopening

------------------------------------------------------------------------------
(***************************************************************************)
(* The accepted events are gapless chains, they agree with their owners,   *)
(* and only the operation registry is ever refused.                        *)
(***************************************************************************)

------------------------------------------------------------------------------
(* Selecting elements of a sequence *)

LEMMA LeastNat ==
  ASSUME NEW T \in SUBSET Nat, T # {}
  PROVE  \E x \in T : \A y \in T : x =< y
<1> DEFINE R == OpToRel(<, Nat)
<1>1. IsWellFoundedOn(R, Nat)
  BY NatLessThanWellFounded
<1>2. \A x, y \in T : <<y, x>> \in R <=> y < x
  BY DEF OpToRel
<1> HIDE DEF R
<1>3. \E x \in T : \A y \in T : ~ (<<y, x>> \in R)
  BY <1>1, WFMin
<1>4. PICK x \in T : \A y \in T : ~ (<<y, x>> \in R)
  BY <1>3
<1>5. \A y \in T : ~ (y < x)
  BY <1>2, <1>4
<1> QED
  BY <1>5

LEMMA GreatestNat ==
  ASSUME NEW m \in Nat, NEW T \in SUBSET (0 .. m), T # {}
  PROVE  \E x \in T : \A y \in T : y =< x
<1> DEFINE U == {u \in Nat : \E y \in T : u = m - y}
<1>1. \A y \in T : m - y \in Nat
  OBVIOUS
<1>2. \A y \in T : m - y \in U
  BY <1>1
<1>8. U \in SUBSET Nat /\ U # {}
  BY <1>2
<1>3. \A u \in U : \E y \in T : u = m - y
  OBVIOUS
<1> HIDE DEF U
<1>4. \E u \in U : \A v \in U : u =< v
  BY <1>8, LeastNat
<1>5. PICK u \in U : \A v \in U : u =< v
  BY <1>4
<1>6. PICK x \in T : u = m - x
  BY <1>3
<1>7. \A y \in T : m - x =< m - y
  BY <1>2, <1>5, <1>6
<1> QED
  BY <1>7

\* The rank of an index among those that are kept.
Rank(keep, i) == Cardinality({j \in keep : j =< i})

LEMMA KeptFinite ==
  ASSUME NEW m \in Nat, NEW keep \in SUBSET (1 .. m)
  PROVE  IsFiniteSet(keep) /\ Cardinality(keep) \in Nat
<1>1. IsFiniteSet(1 .. m)
  <2>1. 1 \in Int /\ m \in Int
    OBVIOUS
  <2> QED
    BY <2>1, FS_Interval
<1>2. IsFiniteSet(keep)
  BY <1>1, FS_Subset
<1> QED
  BY <1>2, FS_CardinalityType

LEMMA RankBounds ==
  ASSUME NEW m \in Nat, NEW keep \in SUBSET (1 .. m), NEW i \in keep
  PROVE  Rank(keep, i) \in 1 .. Cardinality(keep)
<1> DEFINE low == {j \in keep : j =< i}
<1>1. low \in SUBSET keep /\ i \in low
  OBVIOUS
<1> HIDE DEF low
<1>2. IsFiniteSet(keep) /\ Cardinality(keep) \in Nat
  BY KeptFinite
<1>3. IsFiniteSet(low) /\ Cardinality(low) =< Cardinality(keep)
  BY <1>1, <1>2, FS_Subset
<1>4. Cardinality(low) \in Nat
  BY <1>3, FS_CardinalityType
<1>5. Cardinality(low) # 0
  BY <1>1, <1>3, FS_EmptySet
<1>6. Cardinality(low) \in 1 .. Cardinality(keep)
  BY <1>2, <1>3, <1>4, <1>5
<1> QED
  BY <1>6 DEF Rank, low

LEMMA RankGrows ==
  ASSUME NEW m \in Nat, NEW keep \in SUBSET (1 .. m), NEW i \in keep, NEW k \in keep, i < k
  PROVE  Rank(keep, i) < Rank(keep, k)
<1> DEFINE low == {j \in keep : j =< i}
           high == {j \in keep : j =< k}
<1>1. low \in SUBSET keep /\ high \in SUBSET keep
  OBVIOUS
<1>2. low \in SUBSET high /\ k \in high /\ k \notin low
  <2>1. i \in Nat /\ k \in Nat /\ \A j \in keep : j \in Nat
    OBVIOUS
  <2>2. \A j \in keep : j =< i => j =< k
    BY <2>1
  <2>3. k =< k /\ ~ (k =< i)
    BY <2>1
  <2> QED
    BY <2>2, <2>3
<1> HIDE DEF low, high
<1>3. IsFiniteSet(keep)
  BY KeptFinite
<1>4. IsFiniteSet(low) /\ IsFiniteSet(high)
  BY <1>1, <1>3, FS_Subset
<1>5. low # high
  BY <1>2
<1>6. Cardinality(low) =< Cardinality(high) /\ Cardinality(low) # Cardinality(high)
  BY <1>2, <1>4, <1>5, FS_Subset
<1>7. Cardinality(low) \in Nat /\ Cardinality(high) \in Nat
  BY <1>4, FS_CardinalityType
<1>8. Cardinality(low) < Cardinality(high)
  BY <1>6, <1>7
<1> QED
  BY <1>8 DEF Rank, low, high

\* Every number up to the count of the kept indices is the rank of one of them.
LEMMA RankOnto ==
  ASSUME NEW m \in Nat, NEW keep \in SUBSET (1 .. m), NEW n \in 1 .. Cardinality(keep)
  PROVE  \E i \in keep : Rank(keep, i) = n
<1> DEFINE c == Cardinality(keep)
           f == [i \in keep |-> Rank(keep, i)]
<1>1. IsFiniteSet(keep) /\ c \in Nat
  BY KeptFinite
<1>2. \A i \in keep : Rank(keep, i) \in 1 .. c
  BY RankBounds
<1>3. ASSUME NEW i \in keep, NEW k \in keep, Rank(keep, i) = Rank(keep, k) PROVE i = k
  <2>1. CASE i < k
    <3>1. Rank(keep, i) < Rank(keep, k)
      BY <2>1, RankGrows
    <3> QED
      BY <3>1, <1>2, <1>3
  <2>2. CASE k < i
    <3>1. Rank(keep, k) < Rank(keep, i)
      BY <2>2, RankGrows
    <3> QED
      BY <3>1, <1>2, <1>3
  <2>3. i \in Nat /\ k \in Nat
    OBVIOUS
  <2> QED
    BY <2>1, <2>2, <2>3
<1>4. f \in [keep -> 1 .. c] /\ \A i \in keep : f[i] = Rank(keep, i)
  BY <1>2
<1> HIDE DEF f
<1>5. f \in Injection(keep, 1 .. c)
  BY <1>3, <1>4 DEF Injection, IsInjective
<1>6. IsFiniteSet(1 .. c) /\ Cardinality(1 .. c) = c
  <2>1. 1 \in Int /\ c \in Int
    BY <1>1
  <2>2. /\ IsFiniteSet(1 .. c)
        /\ Cardinality(1 .. c) = IF 1 > c THEN 0 ELSE c - 1 + 1
    BY <2>1, FS_Interval
  <2> HIDE DEF c
  <2> QED
    BY <1>1, <2>2
<1>7. f \in Surjection(keep, 1 .. c)
  <2>1. Cardinality(keep) = Cardinality(1 .. c)
    BY <1>6
  <2> QED
    BY <1>5, <1>6, <2>1, FS_Injection
<1>8. \E i \in keep : f[i] = n
  BY <1>7 DEF Surjection
<1> QED
  BY <1>4, <1>8

\* Kept takes its elements from the kept indices, in increasing order.
IndexOf(keep, n) == CHOOSE i \in keep : Cardinality({j \in keep : j =< i}) = n

LEMMA IndexOfKept ==
  ASSUME NEW m \in Nat, NEW keep \in SUBSET (1 .. m), NEW n \in 1 .. Cardinality(keep)
  PROVE  IndexOf(keep, n) \in keep /\ Rank(keep, IndexOf(keep, n)) = n
<1>1. \E i \in keep : Rank(keep, i) = n
  BY RankOnto
<1>2. IndexOf(keep, n) = CHOOSE i \in keep : Rank(keep, i) = n
  BY DEF IndexOf, Rank
<1> QED
  BY <1>1, <1>2

LEMMA KeptElements ==
  ASSUME NEW S, NEW s \in Seq(S), NEW keep \in SUBSET (1 .. Len(s))
  PROVE  /\ Kept(s, keep) \in Seq(S) /\ Len(Kept(s, keep)) = Cardinality(keep)
         /\ Cardinality(keep) \in Nat
         /\ \A n \in 1 .. Cardinality(keep) : \E i \in keep : Kept(s, keep)[n] = s[i]
<1> DEFINE t == Kept(s, keep)
           c == Cardinality(keep)
<1>1. Len(s) \in Nat
  OBVIOUS
<1>2. c \in Nat
  BY <1>1, KeptFinite
<1>3. t = [n \in 1 .. c |-> s[IndexOf(keep, n)]]
  BY DEF Kept, IndexOf
<1>4. \A n \in 1 .. c : IndexOf(keep, n) \in keep
  BY <1>1, IndexOfKept
<1> HIDE DEF t, c
<1>7. \A i \in keep : s[i] \in S
  OBVIOUS
<1>8. \A n \in 1 .. c : t[n] = s[IndexOf(keep, n)]
  BY <1>3
<1>5. \A n \in 1 .. c : t[n] \in S /\ \E i \in keep : t[n] = s[i]
  BY <1>4, <1>7, <1>8
<1>6. t \in Seq(S) /\ Len(t) = c
  BY <1>2, <1>3, <1>5
<1> QED
  BY <1>2, <1>5, <1>6 DEF t, c

\* and leaves out none of them.
LEMMA KeptHolds ==
  ASSUME NEW S, NEW s \in Seq(S), NEW keep \in SUBSET (1 .. Len(s)), NEW i \in keep
  PROVE  \E n \in 1 .. Len(Kept(s, keep)) : Kept(s, keep)[n] = s[i]
<1> DEFINE m == Len(s)
           n == Rank(keep, i)
<1>1. m \in Nat /\ keep \in SUBSET (1 .. m)
  OBVIOUS
<1> HIDE DEF m
<1>2. n \in 1 .. Cardinality(keep)
  BY <1>1, RankBounds
<1>3. IndexOf(keep, n) \in keep /\ Rank(keep, IndexOf(keep, n)) = Rank(keep, i)
  BY <1>1, <1>2, IndexOfKept
<1>4. IndexOf(keep, n) = i
  <2>1. ASSUME NEW a \in keep, NEW b \in keep, a < b PROVE Rank(keep, a) # Rank(keep, b)
    <3>1. Rank(keep, a) < Rank(keep, b)
      BY <1>1, <2>1, RankGrows
    <3>2. Cardinality(keep) \in Nat
      BY <1>1, KeptFinite
    <3>3. Rank(keep, a) \in 1 .. Cardinality(keep)
      BY <1>1, RankBounds
    <3> QED
      BY <3>1, <3>2, <3>3
  <2> DEFINE k == IndexOf(keep, n)
  <2>4. \A j \in keep : j \in Nat
    BY <1>1
  <2>2. k \in keep /\ k \in Nat /\ i \in Nat
    BY <1>3, <2>4
  <2> HIDE DEF k
  <2>3. ~(k < i) /\ ~(i < k)
    BY <1>3, <2>1, <2>2 DEF k
  <2> QED
    BY <2>2, <2>3 DEF k
<1>5. Len(Kept(s, keep)) = Cardinality(keep)
  BY KeptElements
<1>6. Kept(s, keep)[n] = s[IndexOf(keep, n)]
  BY <1>2 DEF Kept, IndexOf
<1> QED
  BY <1>2, <1>4, <1>5, <1>6

\* What is kept from the beginning stays where it is.
LEMMA KeptPrefix ==
  ASSUME NEW S, NEW s \in Seq(S), NEW keep \in SUBSET (1 .. Len(s)), NEW p \in Nat,
         1 .. p \subseteq keep
  PROVE  /\ Len(Kept(s, keep)) >= p
         /\ \A n \in 1 .. p : Kept(s, keep)[n] = s[n]
         /\ (\E i \in keep : i > p) => Len(Kept(s, keep)) >= p + 1
<1> DEFINE c == Cardinality(keep)
<1>1. Len(s) \in Nat
  OBVIOUS
<1>2. IsFiniteSet(keep) /\ c \in Nat
  BY <1>1, KeptFinite
<1>3. Len(Kept(s, keep)) = c
  BY KeptElements
<1>4. \A n \in Nat : /\ IsFiniteSet(1 .. n)
                     /\ Cardinality(1 .. n) = n
  <2>1. TAKE n \in Nat
  <2>2. 1 \in Int /\ n \in Int
    OBVIOUS
  <2>3. /\ IsFiniteSet(1 .. n)
        /\ Cardinality(1 .. n) = IF 1 > n THEN 0 ELSE n - 1 + 1
    BY <2>2, FS_Interval
  <2> QED
    BY <2>3
<1>5. ASSUME NEW n \in 1 .. p PROVE Rank(keep, n) = n
  <2>1. {j \in keep : j =< n} = 1 .. n
    <3>1. \A j \in keep : j \in Nat /\ j >= 1
      BY <1>1
    <3>2. \A j \in 1 .. n : j \in 1 .. p /\ j =< n
      OBVIOUS
    <3>3. n \in Nat /\ \A j \in keep : j =< n => j \in 1 .. n
      BY <3>1
    <3> QED
      BY <3>2, <3>3
  <2>2. Cardinality(1 .. n) = n
    BY <1>4
  <2> QED
    BY <2>1, <2>2 DEF Rank
<1>6. p =< c
  <2>1. Cardinality(1 .. p) =< c
    BY <1>2, FS_Subset
  <2> QED
    BY <2>1, <1>4
<1>7. ASSUME NEW n \in 1 .. p PROVE Kept(s, keep)[n] = s[n]
  <2>1. n \in 1 .. c /\ n \in keep
    BY <1>2, <1>6
  <2> DEFINE i == IndexOf(keep, n)
  <2>2. i \in keep /\ Rank(keep, i) = n
    BY <1>1, <2>1, IndexOfKept
  <2>3. Kept(s, keep)[n] = s[i]
    BY <2>1 DEF Kept, IndexOf
  <2> HIDE DEF i
  <2>4. ~ (i < n)
    <3>1. ASSUME i < n PROVE Rank(keep, i) < Rank(keep, n)
      BY <1>1, <2>1, <2>2, <3>1, RankGrows
    <3> QED
      BY <2>2, <3>1, <1>5
  <2>5. ~ (n < i)
    <3>1. ASSUME n < i PROVE Rank(keep, n) < Rank(keep, i)
      BY <1>1, <2>1, <2>2, <3>1, RankGrows
    <3> QED
      BY <2>2, <3>1, <1>5
  <2>6. i = n
    BY <1>1, <2>2, <2>4, <2>5
  <2> QED
    BY <2>3, <2>6
<1>8. ASSUME NEW i \in keep, i > p PROVE c >= p + 1
  <2>1. Rank(keep, i) \in 1 .. c
    BY <1>1, RankBounds
  <2>2. CASE p = 0
    BY <1>2, <2>1, <2>2
  <2>3. CASE p > 0
    <3>1. p \in keep /\ Rank(keep, p) = p
      BY <1>5, <2>3
    <3>2. p < i
      BY <1>1, <1>8
    <3>3. Rank(keep, p) < Rank(keep, i)
      BY <1>1, <3>1, <3>2, RankGrows
    <3> QED
      BY <1>2, <2>1, <3>1, <3>3
  <2> QED
    BY <2>2, <2>3
<1> QED
  BY <1>2, <1>3, <1>6, <1>7, <1>8

------------------------------------------------------------------------------
(* What prune() and recover() keep *)

LEMMA UpdatedAtOwn ==
  ASSUME NEW fs \in Seq(Facts), NEW x \in Finished(fs)
  PROVE  UpdatedAt(fs, x) \in 1 .. Len(fs) /\ fs[UpdatedAt(fs, x)].subject = x
<1> DEFINE at == {i \in 1 .. Len(fs) : fs[i].subject = x /\ fs[i].kind # "cleaned"}
<1>1. UpdatedAt(fs, x) = CHOOSE i \in at : \A j \in at : j =< i
  <2>1. {i \in {k \in DOMAIN fs : fs[k].subject = x} : fs[i].kind # "cleaned"} = at
    OBVIOUS
  <2> QED
    BY <2>1 DEF UpdatedAt
<1>2. at # {}
  <2>1. KindsOf(fs, x) \cap {"ended", "recovered"} # {}
    BY DEF Finished, Done
  <2>2. PICK i \in DOMAIN fs : fs[i].subject = x /\ fs[i].kind \in {"ended", "recovered"}
    BY <2>1 DEF KindsOf
  <2> QED
    BY <2>2
<1>3. at \in SUBSET (0 .. Len(fs)) /\ Len(fs) \in Nat
  OBVIOUS
<1>4. \A i \in at : i \in 1 .. Len(fs) /\ fs[i].subject = x
  OBVIOUS
<1> HIDE DEF at
<1>5. \E i \in at : \A j \in at : j =< i
  BY <1>2, <1>3, GreatestNat
<1> QED
  BY <1>1, <1>4, <1>5

\* The newest finished operation is not old.
LEMMA NewestIsKept ==
  ASSUME StreamConstants, NEW fs \in Seq(Facts), NEW x \in Old(fs)
  PROVE  \E y \in Finished(fs) : y \notin Old(fs) /\ UpdatedAt(fs, y) > UpdatedAt(fs, x)
<1> DEFINE T == {UpdatedAt(fs, y) : y \in Finished(fs)}
           Above(y) == {z \in Finished(fs) : UpdatedAt(fs, z) > UpdatedAt(fs, y)}
<1>1. Len(fs) \in Nat /\ \A y \in Finished(fs) : UpdatedAt(fs, y) \in 1 .. Len(fs)
  BY UpdatedAtOwn
<1>2. T \in SUBSET (0 .. Len(fs)) /\ \A y \in Finished(fs) : UpdatedAt(fs, y) \in T
  BY <1>1
<1>3. \A y \in Old(fs) : Above(y) # {}
  <2>1. Cardinality({}) = 0
    BY FS_EmptySet
  <2>2. \A y \in Old(fs) : Cardinality(Above(y)) >= Retain
    BY DEF Old
  <2>3. Retain \in Nat \ {0}
    BY DEF StreamConstants
  <2> HIDE DEF Above
  <2>4. ASSUME NEW y \in Old(fs), Above(y) = {} PROVE FALSE
    <3>1. Cardinality(Above(y)) = 0
      BY <2>1, <2>4
    <3> QED
      BY <2>2, <2>3, <3>1
  <2> QED
    BY <2>4
<1>4. x \in Finished(fs)
  BY DEF Old
<1>5. \E t \in T : \A u \in T : u =< t
  <2> HIDE DEF T
  <2> QED
    BY <1>1, <1>2, <1>4, GreatestNat
<1>6. PICK y \in Finished(fs) : \A u \in T : u =< UpdatedAt(fs, y)
  BY <1>5
<1>7. \A z \in Finished(fs) : UpdatedAt(fs, z) =< UpdatedAt(fs, y)
  BY <1>2, <1>6
<1>8. Above(y) = {}
  BY <1>1, <1>7
<1>9. y \notin Old(fs)
  BY <1>3, <1>8
<1>10. PICK z \in Finished(fs) : UpdatedAt(fs, z) > UpdatedAt(fs, x)
  BY <1>3
<1>11. UpdatedAt(fs, y) > UpdatedAt(fs, x)
  BY <1>1, <1>4, <1>7, <1>10
<1> QED
  BY <1>9, <1>11

\* Facts that are not pruned stay at the beginning, and never alone there when
\* they were not: pruning spares the newest finished operation.
LEMMA PrunedKeeps ==
  ASSUME StreamConstants, NEW fs \in Seq(Facts), NEW p \in Nat, p < Len(fs),
         \A j \in 1 .. p : fs[j].subject \notin Old(fs)
  PROVE  /\ Len(Pruned(fs)) >= p + 1
         /\ \A j \in 1 .. p : Pruned(fs)[j] = fs[j]
         /\ fs[p + 1].subject \notin Old(fs) => Pruned(fs)[p + 1] = fs[p + 1]
<1> DEFINE keep == {i \in 1 .. Len(fs) : fs[i].subject \notin Old(fs)}
<1>1. Len(fs) \in Nat /\ Pruned(fs) = Kept(fs, keep)
  <2>1. DOMAIN fs = 1 .. Len(fs) /\ Len(fs) \in Nat
    OBVIOUS
  <2>2. Pruned(fs) = Kept(fs, keep)
    BY <2>1, Zenon DEF Pruned
  <2> QED
    BY <2>1, <2>2
<1>2. keep \in SUBSET (1 .. Len(fs)) /\ 1 .. p \subseteq keep
  BY <1>1
<1>3. \E i \in keep : i > p
  <2>1. CASE p + 1 \in keep
    BY <2>1
  <2>2. CASE p + 1 \notin keep
    <3> DEFINE x == fs[p + 1].subject
    <3>1. x \in Old(fs)
      BY <2>2, <1>1
    <3>2. PICK y \in Finished(fs) : y \notin Old(fs) /\ UpdatedAt(fs, y) > UpdatedAt(fs, x)
      BY <3>1, NewestIsKept
    <3>3. /\ UpdatedAt(fs, y) \in 1 .. Len(fs) /\ fs[UpdatedAt(fs, y)].subject = y
          /\ UpdatedAt(fs, x) \in 1 .. Len(fs) /\ fs[UpdatedAt(fs, x)].subject = x
      BY <3>1, UpdatedAtOwn DEF Old
    <3>4. UpdatedAt(fs, x) > p
      BY <3>1, <3>3
    <3>5. UpdatedAt(fs, y) \in keep /\ UpdatedAt(fs, y) > p
      BY <3>2, <3>3, <3>4
    <3> QED
      BY <3>5
  <2> QED
    BY <2>1, <2>2
<1>4. p + 1 \in keep <=> fs[p + 1].subject \notin Old(fs)
  BY <1>1
<1>5. p + 1 \in keep => 1 .. p + 1 \subseteq keep
  BY <1>2
<1> HIDE DEF keep
<1>6. Len(Kept(fs, keep)) >= p + 1 /\ \A j \in 1 .. p : Kept(fs, keep)[j] = fs[j]
  BY <1>2, <1>3, KeptPrefix
<1>7. ASSUME p + 1 \in keep PROVE Kept(fs, keep)[p + 1] = fs[p + 1]
  <2>1. p + 1 \in Nat /\ p + 1 \in 1 .. p + 1 /\ 1 .. (p + 1) \subseteq keep
    BY <1>5, <1>7
  <2>2. \A j \in 1 .. (p + 1) : Kept(fs, keep)[j] = fs[j]
    BY <1>2, <2>1, KeptPrefix
  <2> QED
    BY <2>1, <2>2
<1> QED
  BY <1>1, <1>4, <1>6, <1>7

LEMMA PrunedElements ==
  ASSUME NEW fs \in Seq(Facts)
  PROVE  /\ Pruned(fs) \in Seq(Facts)
         /\ \A n \in 1 .. Len(Pruned(fs)) :
              /\ Pruned(fs)[n].subject \notin Old(fs)
              /\ \E i \in 1 .. Len(fs) : Pruned(fs)[n] = fs[i]
<1> DEFINE keep == {i \in 1 .. Len(fs) : fs[i].subject \notin Old(fs)}
<1>1. Len(fs) \in Nat /\ Pruned(fs) = Kept(fs, keep)
  <2>1. DOMAIN fs = 1 .. Len(fs) /\ Len(fs) \in Nat
    OBVIOUS
  <2>2. Pruned(fs) = Kept(fs, keep)
    BY <2>1, Zenon DEF Pruned
  <2> QED
    BY <2>1, <2>2
<1>2. keep \in SUBSET (1 .. Len(fs)) /\ \A i \in keep : fs[i].subject \notin Old(fs)
  OBVIOUS
<1> HIDE DEF keep
<1>3. /\ Kept(fs, keep) \in Seq(Facts)
      /\ \A n \in 1 .. Len(Kept(fs, keep)) : \E i \in keep : Kept(fs, keep)[n] = fs[i]
  BY <1>2, KeptElements
<1> QED
  BY <1>1, <1>2, <1>3

LEMMA PrunedHolds ==
  ASSUME NEW fs \in Seq(Facts), NEW i \in 1 .. Len(fs), fs[i].subject \notin Old(fs)
  PROVE  \E n \in 1 .. Len(Pruned(fs)) : Pruned(fs)[n] = fs[i]
<1> DEFINE keep == {k \in 1 .. Len(fs) : fs[k].subject \notin Old(fs)}
<1>1. Pruned(fs) = Kept(fs, keep)
  <2>1. DOMAIN fs = 1 .. Len(fs) /\ Len(fs) \in Nat
    OBVIOUS
  <2> QED
    BY <2>1, Zenon DEF Pruned
<1>2. keep \in SUBSET (1 .. Len(fs)) /\ i \in keep
  OBVIOUS
<1> HIDE DEF keep
<1> QED
  BY <1>1, <1>2, KeptHolds

\* The facts of the operation registry are of operations that still have a row.
OpFacts == [subject : Ops, kind : RegistryKinds, at : Times]
RunFacts == [subject : Runs, kind : RunKinds, at : Times]

LEMMA PrunedOpFacts ==
  ASSUME NEW fs \in Seq(OpFacts)
  PROVE  fs \in Seq(Facts) /\ Pruned(fs) \in Seq(OpFacts)
<1>1. fs \in Seq(Facts)
  <2>1. OpFacts \subseteq Facts
    BY DEF OpFacts, Facts
  <2> QED
    BY <2>1
<1>2. Pruned(fs) \in Seq(Facts) /\ \A n \in 1 .. Len(Pruned(fs)) : \E i \in 1 .. Len(fs) : Pruned(fs)[n] = fs[i]
  BY <1>1, PrunedElements
<1>3. \A n \in 1 .. Len(Pruned(fs)) : Pruned(fs)[n] \in OpFacts
  BY <1>2
<1>4. Pruned(fs) \in Seq(OpFacts)
  BY <1>2, <1>3
<1> QED
  BY <1>1, <1>4

LEMMA RecoveredExtends ==
  ASSUME NEW fs \in Seq(OpFacts), now \in Times
  PROVE  \E more \in Seq(OpFacts) :
           /\ Recovered(fs) = fs \o more
           /\ \A n \in 1 .. Len(more) : \E i \in 1 .. Len(fs) : more[n].subject = fs[i].subject
<1> DEFINE first   == {i \in 1 .. Len(fs) : \A j \in 1 .. i - 1 : fs[j].subject # fs[i].subject}
           kc == {i \in first : ~Clean(fs, fs[i].subject)}
           kr == {i \in first : ~Done(fs, fs[i].subject) \/ ~Clean(fs, fs[i].subject)}
           unclean == Kept(fs, kc)
           open    == Kept(fs, kr)
           a == [i \in DOMAIN unclean |-> [subject |-> unclean[i].subject, kind |-> "cleaned", at |-> now]]
           b == [i \in DOMAIN open |-> [subject |-> open[i].subject, kind |-> "recovered", at |-> now]]
<1>1. Recovered(fs) = (fs \o a) \o b
  <2>1. DOMAIN fs = 1 .. Len(fs)
    OBVIOUS
  <2> QED
    BY <2>1, Zenon DEF Recovered
<1>2. kc \in SUBSET (1 .. Len(fs)) /\ kr \in SUBSET (1 .. Len(fs)) /\ Len(fs) \in Nat
  OBVIOUS
<1> HIDE DEF kc, kr, first
<1>3. /\ unclean \in Seq(OpFacts) /\ Len(unclean) \in Nat
      /\ \A n \in 1 .. Len(unclean) : \E i \in 1 .. Len(fs) : unclean[n] = fs[i]
  <2>1. /\ Kept(fs, kc) \in Seq(OpFacts)
        /\ \A n \in 1 .. Len(Kept(fs, kc)) : \E i \in kc : Kept(fs, kc)[n] = fs[i]
    BY <1>2, KeptElements
  <2> QED
    BY <1>2, <2>1
<1>4. /\ open \in Seq(OpFacts) /\ Len(open) \in Nat
      /\ \A n \in 1 .. Len(open) : \E i \in 1 .. Len(fs) : open[n] = fs[i]
  <2>1. /\ Kept(fs, kr) \in Seq(OpFacts)
        /\ \A n \in 1 .. Len(Kept(fs, kr)) : \E i \in kr : Kept(fs, kr)[n] = fs[i]
    BY <1>2, KeptElements
  <2> QED
    BY <1>2, <2>1
<1> HIDE DEF unclean, open
<1>5. /\ a \in Seq(OpFacts) /\ Len(a) = Len(unclean)
      /\ \A n \in 1 .. Len(unclean) : a[n].subject = unclean[n].subject
  <2>1. \A n \in 1 .. Len(unclean) :
          [subject |-> unclean[n].subject, kind |-> "cleaned", at |-> now] \in OpFacts
    <3>1. \A n \in 1 .. Len(unclean) : unclean[n] \in OpFacts
      BY <1>3
    <3>2. \A n \in 1 .. Len(unclean) : unclean[n].subject \in Ops
      BY <3>1 DEF OpFacts
    <3> QED
      BY <3>2 DEF OpFacts, RegistryKinds
  <2>2. a = [n \in 1 .. Len(unclean) |-> [subject |-> unclean[n].subject, kind |-> "cleaned", at |-> now]]
    BY <1>3
  <2> HIDE DEF a
  <2> QED
    BY <1>3, <2>1, <2>2
<1>6. /\ b \in Seq(OpFacts) /\ Len(b) = Len(open)
      /\ \A n \in 1 .. Len(open) : b[n].subject = open[n].subject
  <2>1. \A n \in 1 .. Len(open) :
          [subject |-> open[n].subject, kind |-> "recovered", at |-> now] \in OpFacts
    <3>1. \A n \in 1 .. Len(open) : open[n] \in OpFacts
      BY <1>4
    <3>2. \A n \in 1 .. Len(open) : open[n].subject \in Ops
      BY <3>1 DEF OpFacts
    <3> QED
      BY <3>2 DEF OpFacts, RegistryKinds
  <2>2. b = [n \in 1 .. Len(open) |-> [subject |-> open[n].subject, kind |-> "recovered", at |-> now]]
    BY <1>4
  <2> HIDE DEF b
  <2> QED
    BY <1>4, <2>1, <2>2
<1> HIDE DEF a, b
<1>7. (fs \o a) \o b = fs \o (a \o b)
  BY <1>5, <1>6
<1>8. a \o b \in Seq(OpFacts) /\ Len(a \o b) = Len(a) + Len(b)
  BY <1>5, <1>6
<1>9. ASSUME NEW n \in 1 .. Len(a \o b)
      PROVE  \E i \in 1 .. Len(fs) : (a \o b)[n].subject = fs[i].subject
  <2>1. CASE n =< Len(a)
    BY <1>3, <1>5, <1>6, <1>8, <2>1
  <2>2. CASE n > Len(a)
    <3>1. n - Len(a) \in 1 .. Len(b) /\ (a \o b)[n] = b[n - Len(a)]
      BY <1>5, <1>6, <1>8, <2>2
    <3> QED
      BY <3>1, <1>4, <1>6
  <2> QED
    BY <1>3, <1>5, <2>1, <2>2
<1> QED
  BY <1>1, <1>7, <1>8, <1>9

------------------------------------------------------------------------------
(* The invariant: types, and what the accepted events say of the cursors *)

StoreOK ==
  /\ facts \in [Owners -> Seq(Facts)] /\ facts[Registry] \in Seq(OpFacts)
  /\ \A o \in Others : facts[o] \in Seq(RunFacts)
  /\ pruned \subseteq Ops /\ epoch \in [Owners -> Nat \ {0}] /\ now \in Times
  /\ accepted \in Seq(Events) /\ cursor \in [Owners -> Events \cup {None}]
  /\ up \in BOOLEAN /\ linked \subseteq Owners /\ CountsType

\* No fact is kept of an operation whose row is gone.
RowsBehindFacts == \A i \in 1 .. Len(facts[Registry]) : facts[Registry][i].subject \notin pruned

\* A publication is of a linked owner and has something left to offer.
OnStack ==
  /\ publishing = None \/ publishing \in Publications
  /\ publishing # None => /\ publishing.owner \in linked
                          /\ publishing.next =< Len(facts[publishing.owner])
  /\ ~up => publishing = None /\ linked = {}

\* What is accepted of an owner are chains, the cursor the last of the newest.
HeldOK(o) ==
  /\ cursor[o] = None => \A i \in 1 .. Len(accepted) : accepted[i].owner # o
  /\ cursor[o] # None =>
       /\ cursor[o].owner = o /\ cursor[o].epoch =< epoch[o]
       /\ \A i \in 1 .. Len(accepted) : accepted[i].owner = o =>
            /\ accepted[i].epoch =< cursor[o].epoch
            /\ accepted[i].epoch = cursor[o].epoch =>
                 /\ Len(accepted[i].chain) =< Len(cursor[o].chain)
                 /\ \A k \in 1 .. Len(accepted[i].chain) :
                      accepted[i].chain[k] = cursor[o].chain[k]
       /\ \A k \in 1 .. Len(cursor[o].chain) : \E i \in 1 .. Len(accepted) :
            /\ accepted[i].owner = o /\ accepted[i].epoch = cursor[o].epoch
            /\ Len(accepted[i].chain) = k
       /\ \E j \in 1 .. Len(accepted) :
            /\ accepted[j] = cursor[o]
            /\ \A i \in 1 .. Len(accepted) : accepted[i].owner = o => i =< j

\* The read model follows the present epoch of an owner.
Follows(o) == cursor[o] # None /\ cursor[o].epoch = epoch[o]
Agrees(o, n) ==
  /\ Follows(o) /\ Len(cursor[o].chain) >= n
  /\ \A k \in 1 .. n : cursor[o].chain[k] = StreamOf(o)[k]

\* What a publication has offered is held; one that was begun again after a
\* refusal finds nothing beyond it.
OfferedIsHeld ==
  publishing # None =>
    /\ publishing.next > 1 => Agrees(publishing.owner, publishing.next - 1)
    /\ publishing.retry =>
         /\ publishing.owner = Registry
         /\ Follows(Registry) => Len(cursor[Registry].chain) = publishing.next - 1

LEMMA StreamType ==
  ASSUME StreamConstants, StoreOK, NEW o \in Owners
  PROVE  /\ StreamOf(o) \in Seq(Mapped) /\ Len(StreamOf(o)) = Len(facts[o])
         /\ Len(facts[o]) \in Nat
         /\ \A i \in 1 .. Len(facts[o]) : StreamOf(o)[i].subject = facts[o][i].subject
<1> DEFINE F == facts[o]
           M(f) == [subject |-> f.subject, kind |-> EventKind(f.kind), code |-> Code(F, f), at |-> f.at]
<1>1. F \in Seq(Facts) /\ Len(F) \in Nat /\ DOMAIN F = 1 .. Len(F)
  BY DEF StoreOK
<1>2. ASSUME NEW f \in Facts PROVE M(f) \in Mapped
  <2>1. f.subject \in Ops \cup Runs /\ f.kind \in RegistryKinds \cup RunKinds /\ f.at \in Times
    BY DEF Facts
  <2>2. EventKind(f.kind) \in EventKinds
    BY <2>1 DEF EventKind, EventKinds, RegistryKinds, RunKinds
  <2>3. Code(F, f) \in SafeCodes
    BY DEF Code, SafeCodes
  <2> QED
    BY <2>1, <2>2, <2>3 DEF Mapped
<1>3. StreamOf(o) = [i \in 1 .. Len(F) |-> M(F[i])]
  BY <1>1, Zenon DEF StreamOf
<1>4. \A i \in 1 .. Len(F) : F[i] \in Facts
  BY <1>1
<1>5. \A i \in 1 .. Len(F) : M(F[i]) \in Mapped /\ M(F[i]).subject = F[i].subject
  BY <1>2, <1>4
<1> HIDE DEF M, F
<1>6. StreamOf(o) \in Seq(Mapped) /\ Len(StreamOf(o)) = Len(F)
  BY <1>1, <1>3, <1>5
<1>7. \A i \in 1 .. Len(F) : StreamOf(o)[i].subject = F[i].subject
  BY <1>3, <1>5
<1> QED
  BY <1>1, <1>6, <1>7 DEF F

LEMMA EventAtType ==
  ASSUME StreamConstants, StoreOK, NEW o \in Owners, NEW n \in 1 .. Len(facts[o])
  PROVE  /\ EventAt(o, n) \in Events
         /\ EventAt(o, n).owner = o /\ EventAt(o, n).epoch = epoch[o]
         /\ EventAt(o, n).chain \in Seq(Mapped) /\ Len(EventAt(o, n).chain) = n
         /\ \A k \in 1 .. n : EventAt(o, n).chain[k] = StreamOf(o)[k]
<1>1. /\ StreamOf(o) \in Seq(Mapped) /\ Len(StreamOf(o)) = Len(facts[o]) /\ Len(facts[o]) \in Nat
  BY StreamType
<1> DEFINE c == SubSeq(StreamOf(o), 1, n)
<1>2. c \in Seq(Mapped) /\ Len(c) = n /\ \A k \in 1 .. n : c[k] = StreamOf(o)[k]
  BY <1>1
<1>3. EventAt(o, n) = [owner |-> o, epoch |-> epoch[o], chain |-> c]
  BY DEF EventAt
<1> HIDE DEF c
<1>4. c # <<>>
  <2>1. n # 0 /\ Len(<<>>) = 0
    BY <1>1
  <2> QED
    BY <1>2, <2>1
<1>5. epoch[o] \in Nat
  BY DEF StoreOK
<1> QED
  BY <1>2, <1>3, <1>4, <1>5 DEF Events

LEMMA OfferedType ==
  ASSUME StreamConstants, NoneIsNoRecord, StoreOK, OnStack, publishing # None,
         NEW o, o = publishing.owner, NEW n, n = publishing.next
  PROVE  /\ o \in Owners /\ n \in 1 .. Len(facts[o]) /\ n \in Nat
         /\ Offered = EventAt(o, n) /\ Offered \in Events /\ Offered # None
         /\ Offered.owner = o /\ Offered.epoch = epoch[o]
         /\ Offered.chain \in Seq(Mapped) /\ Len(Offered.chain) = n
         /\ \A k \in 1 .. n : Offered.chain[k] = StreamOf(o)[k]
<1>1. o \in Owners /\ n \in Nat \ {0} /\ n =< Len(facts[o])
  BY DEF OnStack, Publications
<1>2. Len(facts[o]) \in Nat
  BY <1>1, StreamType
<1>3. n \in 1 .. Len(facts[o])
  BY <1>1, <1>2
<1>4. Offered = EventAt(o, n)
  BY DEF Offered
<1> QED
  BY <1>1, <1>3, <1>4, EventAtType DEF NoneIsNoRecord

LEMMA HeldIs ==
  ASSUME StoreOK, NEW e
  PROVE  /\ \A i \in 1 .. Len(accepted) :
              (accepted[i].owner = e.owner /\ accepted[i].epoch = e.epoch
                 /\ Len(accepted[i].chain) = Len(e.chain)) => accepted[i] \in Held(e)
         /\ \A h \in Held(e) : \E i \in 1 .. Len(accepted) :
              /\ h = accepted[i] /\ h \in Events /\ h.owner = e.owner /\ h.epoch = e.epoch
              /\ Len(h.chain) = Len(e.chain)
<1>1. ToSet(accepted) = {accepted[i] : i \in 1 .. Len(accepted)} /\ \A i \in 1 .. Len(accepted) : accepted[i] \in Events
  BY DEF StoreOK, ToSet
<1> QED
  BY <1>1 DEF Held, Sequence

LEMMA EventsEqual ==
  ASSUME NEW a \in Events, NEW b \in Events, a.owner = b.owner, a.epoch = b.epoch,
         Len(a.chain) = Len(b.chain), \A k \in 1 .. Len(a.chain) : a.chain[k] = b.chain[k]
  PROVE  a = b
<1>1. a.chain \in Seq(Mapped) /\ b.chain \in Seq(Mapped)
  BY DEF Events
<1>2. a.chain = b.chain
  BY <1>1
<1> QED
  BY <1>2 DEF Events

\* What the read model may answer to an owner that replays from the start: a
\* duplicate, the next event, the first of a new epoch, or a conflict.
LEMMA Verdicts ==
  ASSUME StreamConstants, NoneIsNoRecord, StoreOK, OnStack, OfferedIsHeld, publishing # None,
         NEW o, o = publishing.owner, HeldOK(o), NEW n, n = publishing.next
  PROVE  /\ Verdict(Offered) \in {"duplicate", "accepted", "OWNER_SEQUENCE_CONFLICT"}
         /\ Verdict(Offered) = "accepted" =>
              /\ Held(Offered) = {}
              /\ \/ n = 1 /\ cursor[o] = None
                 \/ n = 1 /\ cursor[o] # None /\ cursor[o].epoch < epoch[o]
                 \/ n > 1 /\ Agrees(o, n - 1) /\ Len(cursor[o].chain) = n - 1
         /\ Verdict(Offered) = "duplicate" => Agrees(o, n)
         /\ Verdict(Offered) = "OWNER_SEQUENCE_CONFLICT" =>
              Follows(o) /\ n =< Len(cursor[o].chain) /\ cursor[o].chain[n] # StreamOf(o)[n]
<1> DEFINE e == Offered
           c == cursor[o]
<1>1. /\ o \in Owners /\ n \in 1 .. Len(facts[o]) /\ n \in Nat /\ n >= 1
      /\ e \in Events /\ e.owner = o /\ e.epoch = epoch[o]
      /\ e.chain \in Seq(Mapped) /\ Len(e.chain) = n
      /\ \A k \in 1 .. n : e.chain[k] = StreamOf(o)[k]
  BY OfferedType
<1>2. c # None => c \in Events /\ c.chain \in Seq(Mapped) /\ Len(c.chain) \in Nat /\ c.epoch \in Nat
  BY <1>1 DEF StoreOK, Events
<1>3. epoch[o] \in Nat
  BY <1>1 DEF StoreOK
<1>4. n > 1 => Agrees(o, n - 1)
  BY DEF OfferedIsHeld
<1>5. /\ \A i \in 1 .. Len(accepted) :
              (accepted[i].owner = o /\ accepted[i].epoch = epoch[o]
                 /\ Len(accepted[i].chain) = n) => accepted[i] \in Held(e)
      /\ \A h \in Held(e) : \E i \in 1 .. Len(accepted) :
              /\ h = accepted[i] /\ h \in Events /\ h.owner = o /\ h.epoch = epoch[o]
              /\ Len(h.chain) = n
  BY <1>1, HeldIs
<1> HIDE DEF e
<1>6. CASE c = None
  <2>1. Held(e) = {}
    BY <1>5, <1>6 DEF HeldOK
  <2>2. n = 1
    BY <1>1, <1>4, <1>6 DEF Agrees, Follows
  <2>3. Verdict(e) = "accepted"
    BY <1>1, <1>6, <2>1, <2>2 DEF Verdict, Sequence
  <2> QED
    BY <1>6, <2>1, <2>2, <2>3 DEF e
<1>7. CASE c # None /\ c.epoch # epoch[o]
  <2>1. c.epoch < epoch[o]
    BY <1>2, <1>3, <1>7 DEF HeldOK
  <2>2. Held(e) = {}
    <3>1. \A i \in 1 .. Len(accepted) : accepted[i].owner = o => accepted[i].epoch =< c.epoch
      BY <1>7 DEF HeldOK
    <3>2. ASSUME NEW h \in Held(e) PROVE FALSE
      <4>1. PICK i \in 1 .. Len(accepted) : h = accepted[i] /\ h.owner = o /\ h.epoch = epoch[o]
        BY <1>5
      <4>2. epoch[o] =< c.epoch
        BY <3>1, <4>1
      <4> QED
        BY <1>2, <1>3, <1>7, <2>1, <4>2
    <3> QED
      BY <3>2
  <2>3. n = 1
    BY <1>1, <1>4, <1>7 DEF Agrees, Follows
  <2>4. Verdict(e) = "accepted"
    BY <1>1, <1>7, <2>2, <2>3 DEF Verdict, Sequence
  <2> QED
    BY <1>7, <2>1, <2>2, <2>3, <2>4 DEF e
<1>8. CASE c # None /\ c.epoch = epoch[o] /\ n =< Len(c.chain)
  <2>1. PICK i \in 1 .. Len(accepted) : accepted[i].owner = o /\ accepted[i].epoch = epoch[o]
                                          /\ Len(accepted[i].chain) = n
    BY <1>1, <1>2, <1>8 DEF HeldOK
  <2>2. accepted[i] \in Held(e)
    BY <1>5, <2>1
  <2>3. \A h \in Held(e) : \A k \in 1 .. n : h.chain[k] = c.chain[k]
    <3>1. ASSUME NEW h \in Held(e), NEW k \in 1 .. n PROVE h.chain[k] = c.chain[k]
      <4>1. PICK j \in 1 .. Len(accepted) : h = accepted[j] /\ h.owner = o /\ h.epoch = epoch[o] /\ Len(h.chain) = n
        BY <1>5
      <4>2. accepted[j].owner = o /\ accepted[j].epoch = c.epoch /\ Len(accepted[j].chain) = n
        BY <1>8, <4>1
      <4>3. accepted[j].chain[k] = c.chain[k]
        BY <1>8, <4>2 DEF HeldOK
      <4> QED
        BY <4>1, <4>3
    <3> QED
      BY <3>1
  <2>4. Verdict(e) = IF e \in Held(e) THEN "duplicate" ELSE "OWNER_SEQUENCE_CONFLICT"
    BY <2>2 DEF Verdict
  <2>5. Follows(o)
    BY <1>8 DEF Follows
  <2>6. \A k \in 1 .. n : k < n => c.chain[k] = StreamOf(o)[k]
    <3>1. TAKE k \in 1 .. n
    <3>2. k < n => n > 1 /\ k \in 1 .. n - 1
      BY <1>1
    <3> QED
      BY <1>4, <3>2 DEF Agrees
  <2>7. CASE c.chain[n] = StreamOf(o)[n]
    <3>1. \A k \in 1 .. n : c.chain[k] = StreamOf(o)[k]
      BY <1>1, <2>6, <2>7
    <3>2. accepted[i] = e
      <4>1. accepted[i] \in Events
        BY DEF StoreOK
      <4>2. \A k \in 1 .. n : accepted[i].chain[k] = e.chain[k]
        BY <1>1, <2>2, <2>3, <3>1
      <4> QED
        BY <1>1, <2>1, <4>1, <4>2, EventsEqual
    <3>3. Verdict(e) = "duplicate"
      BY <2>2, <2>4, <3>2
    <3> QED
      BY <1>8, <2>5, <3>1, <3>3 DEF e, Agrees
  <2>8. CASE c.chain[n] # StreamOf(o)[n]
    <3>1. e \notin Held(e)
      BY <1>1, <2>3, <2>8
    <3>2. Verdict(e) = "OWNER_SEQUENCE_CONFLICT"
      BY <2>4, <3>1
    <3> QED
      BY <1>8, <2>5, <2>8, <3>2 DEF e
  <2> QED
    BY <2>7, <2>8
<1>9. CASE c # None /\ c.epoch = epoch[o] /\ n > Len(c.chain)
  <2>1. Len(c.chain) # 0
    BY <1>2, <1>9 DEF Events
  <2>2. n > 1 /\ Agrees(o, n - 1) /\ Len(c.chain) = n - 1
    <3>1. n > 1
      BY <1>1, <1>2, <1>9, <2>1
    <3>2. Agrees(o, n - 1)
      BY <1>4, <3>1
    <3>3. Len(c.chain) >= n - 1
      BY <3>2 DEF Agrees
    <3> QED
      BY <1>1, <1>2, <1>9, <3>1, <3>2, <3>3
  <2>3. Held(e) = {}
    <3>1. \A i \in 1 .. Len(accepted) : accepted[i].owner = o /\ accepted[i].epoch = c.epoch
             => Len(accepted[i].chain) =< Len(c.chain)
      BY <1>9 DEF HeldOK
    <3>2. ASSUME NEW h \in Held(e) PROVE FALSE
      <4>1. PICK i \in 1 .. Len(accepted) : h = accepted[i] /\ h.owner = o /\ h.epoch = epoch[o] /\ Len(h.chain) = n
        BY <1>5
      <4>2. n =< Len(c.chain)
        BY <1>9, <3>1, <4>1
      <4> QED
        BY <1>1, <1>2, <1>9, <4>2
    <3> QED
      BY <3>2
  <2>4. Previous(e) = c.chain
    <3>1. Previous(e) = SubSeq(e.chain, 1, n - 1)
      BY <1>1 DEF Previous, Front
    <3>2. \A k \in 1 .. n - 1 : e.chain[k] = c.chain[k]
      BY <1>1, <2>2 DEF Agrees
    <3>3. SubSeq(e.chain, 1, n - 1) \in Seq(Mapped) /\ Len(SubSeq(e.chain, 1, n - 1)) = n - 1
      BY <1>1
    <3>4. \A k \in 1 .. n - 1 : SubSeq(e.chain, 1, n - 1)[k] = c.chain[k]
      BY <1>1, <3>2
    <3>5. SubSeq(e.chain, 1, n - 1) = c.chain
      <4> DEFINE s == SubSeq(e.chain, 1, n - 1)
      <4>1. s \in Seq(Mapped) /\ Len(s) = n - 1 /\ \A k \in 1 .. n - 1 : s[k] = c.chain[k]
        BY <3>3, <3>4
      <4> HIDE DEF s
      <4> QED
        BY <1>1, <1>2, <1>9, <2>2, <4>1 DEF s
    <3> QED
      BY <3>1, <3>5
  <2>5. Verdict(e) = "accepted"
    BY <1>1, <1>2, <1>9, <2>2, <2>3, <2>4 DEF Verdict, Sequence
  <2> QED
    BY <2>2, <2>3, <2>5 DEF e
<1> QED
  BY <1>1, <1>2, <1>3, <1>6, <1>7, <1>8, <1>9

------------------------------------------------------------------------------
(* The owners' stores *)

\* A step adds facts of operations that have a row, and may prune the result.
RegistryMoves ==
  \/ facts'[Registry] = facts[Registry] /\ pruned' = pruned
  \/ \E more \in Seq(OpFacts) :
       /\ \A n \in 1 .. Len(more) : more[n].subject \notin pruned
       /\ \/ facts'[Registry] = facts[Registry] \o more /\ pruned' = pruned
          \/ /\ facts'[Registry] = Pruned(facts[Registry] \o more)
             /\ pruned' = pruned \cup Old(facts[Registry] \o more)
OtherMoves(o) ==
  facts'[o] = facts[o] \/ \E f \in RunFacts : facts'[o] = Append(facts[o], f)

LEMMA RecordMoves ==
  ASSUME StreamConstants, StoreOK, NEW o \in Owners, NEW f \in Facts, Record(o, f)
  PROVE  RegistryMoves /\ \A x \in Others : OtherMoves(x)
<1> DEFINE grown == Append(facts[o], f)
           kept == IF f.kind = "ended" THEN Pruned(grown) ELSE grown
<1>1. /\ facts' = [facts EXCEPT ![o] = kept]
      /\ pruned' = IF f.kind = "ended" THEN pruned \cup Old(grown) ELSE pruned
  BY DEF Record
<1>2. \A x \in Owners : facts'[x] = IF x = o THEN kept ELSE facts[x]
  BY <1>1 DEF StoreOK
<1>3. f \in Recordable(o)
  BY DEF Record
<1>4. Registry \in Owners /\ Registry \notin Others /\ Others \subseteq Owners
  BY DEF StreamConstants, Owners
<1>5. CASE o = Registry
  <2>1. f.subject \in Ops \ pruned /\ f.kind \in NextOfOp(f.subject)
    BY <1>3, <1>5 DEF Recordable
  <2>2. f.kind \in RegistryKinds
    BY <2>1 DEF NextOfOp, RegistryKinds
  <2>3. f \in OpFacts
    BY <2>1, <2>2 DEF Facts, OpFacts
  <2>4. <<f>> \in Seq(OpFacts) /\ Len(<<f>>) = 1 /\ <<f>>[1] = f
    BY <2>3
  <2>5. grown = facts[Registry] \o <<f>>
    BY <1>5, <2>3 DEF StoreOK
  <2>6. \A n \in 1 .. Len(<<f>>) : <<f>>[n].subject \notin pruned
    BY <2>1, <2>4
  <2> HIDE DEF grown
  <2>7. \/ kept = facts[Registry] \o <<f>> /\ pruned' = pruned
        \/ /\ kept = Pruned(facts[Registry] \o <<f>>)
           /\ pruned' = pruned \cup Old(facts[Registry] \o <<f>>)
    BY <1>1, <2>5
  <2> HIDE DEF kept
  <2>8. RegistryMoves
    BY <1>2, <1>4, <1>5, <2>4, <2>6, <2>7 DEF RegistryMoves
  <2> QED
    BY <1>2, <1>4, <1>5, <2>8 DEF OtherMoves
<1>6. CASE o # Registry
  <2>1. f.subject \in Runs /\ f.kind \in NextOfRun(o, f.subject)
    BY <1>3, <1>6 DEF Recordable
  <2>2. f.kind \in RunKinds
    BY <2>1 DEF NextOfRun, RunKinds
  <2>3. f \in RunFacts
    BY <2>1, <2>2 DEF Facts, RunFacts
  <2>4. f.kind # "ended"
    BY <2>2 DEF RunKinds
  <2>5. kept = Append(facts[o], f) /\ pruned' = pruned
    BY <1>1, <2>4
  <2> HIDE DEF kept, grown
  <2> QED
    BY <1>2, <1>4, <1>6, <2>3, <2>5 DEF RegistryMoves, OtherMoves
<1> QED
  BY <1>5, <1>6

LEMMA BootMoves ==
  ASSUME StreamConstants, StoreOK, RowsBehindFacts, Boot
  PROVE  RegistryMoves /\ \A x \in Others : OtherMoves(x)
<1> DEFINE F == facts[Registry]
<1>1. Registry \in Owners /\ Registry \notin Others /\ Others \subseteq Owners
  BY DEF StreamConstants, Owners
<1>2. /\ facts' = [facts EXCEPT ![Registry] = Pruned(Recovered(F))]
      /\ pruned' = pruned \cup Old(Recovered(F))
  BY DEF Boot
<1>3. facts'[Registry] = Pruned(Recovered(F)) /\ \A x \in Others : facts'[x] = facts[x]
  BY <1>1, <1>2 DEF StoreOK
<1>4. F \in Seq(OpFacts) /\ now \in Times
  BY DEF StoreOK
<1>5. \A i \in 1 .. Len(F) : F[i].subject \notin pruned
  BY DEF RowsBehindFacts
<1> HIDE DEF F
<1>6. PICK more \in Seq(OpFacts) :
        /\ Recovered(F) = F \o more
        /\ \A n \in 1 .. Len(more) : \E i \in 1 .. Len(F) : more[n].subject = F[i].subject
  BY <1>4, RecoveredExtends
<1>7. \A n \in 1 .. Len(more) : more[n].subject \notin pruned
  BY <1>5, <1>6
<1>8. RegistryMoves
  BY <1>2, <1>3, <1>6, <1>7 DEF RegistryMoves, F
<1> QED
  BY <1>3, <1>8 DEF OtherMoves

LEMMA Moves ==
  ASSUME StreamConstants, StoreOK, RowsBehindFacts, [Next]_vars
  PROVE  RegistryMoves /\ \A x \in Others : OtherMoves(x)
<1>1. ASSUME NEW o \in Owners, NEW f \in Facts, Record(o, f)
      PROVE  RegistryMoves /\ \A x \in Others : OtherMoves(x)
  BY <1>1, RecordMoves
<1>2. CASE Boot
  BY <1>2, BootMoves
<1>3. ASSUME UNCHANGED <<facts, pruned>>
      PROVE  RegistryMoves /\ \A x \in Others : OtherMoves(x)
  BY <1>3 DEF RegistryMoves, OtherMoves
<1>4. ASSUME (\E o \in Owners : Link(o)) \/ Duplicate \/ Accept \/ Reject \/ StoreFails \/ Crash
               \/ Stop \/ LoseProjection \/ Age \/ UNCHANGED vars
      PROVE  UNCHANGED <<facts, pruned>>
  BY <1>4 DEF Link, Duplicate, Accept, Reject, StoreFails, Crash, Stop, Ended, LoseProjection, Age, ownerVars, vars
<1> QED
  BY <1>1, <1>2, <1>3, <1>4 DEF Next

\* What is not pruned keeps its place at the beginning of the facts, and no step
\* leaves it the whole of them when it was not.
LEMMA MovesKeep ==
  ASSUME StreamConstants, StoreOK, RowsBehindFacts, RegistryMoves
  PROVE  /\ facts'[Registry] \in Seq(OpFacts) /\ facts[Registry] \in Seq(OpFacts)
         /\ pruned \subseteq pruned'
         /\ \A i \in 1 .. Len(facts'[Registry]) : facts'[Registry][i].subject \notin pruned'
         /\ \A p \in Nat :
              p < Len(facts[Registry]) /\ (\A j \in 1 .. p : facts[Registry][j].subject \notin pruned') =>
                /\ Len(facts'[Registry]) >= p + 1
                /\ \A j \in 1 .. p : facts'[Registry][j] = facts[Registry][j]
                /\ facts[Registry][p + 1].subject \notin pruned' =>
                     facts'[Registry][p + 1] = facts[Registry][p + 1]
<1> SUFFICES ASSUME NEW F, F = facts[Registry], NEW G, G = facts'[Registry]
             PROVE  /\ G \in Seq(OpFacts) /\ F \in Seq(OpFacts) /\ pruned \subseteq pruned'
                    /\ \A i \in 1 .. Len(G) : G[i].subject \notin pruned'
                    /\ \A p \in Nat : p < Len(F) /\ (\A j \in 1 .. p : F[j].subject \notin pruned') =>
                         /\ Len(G) >= p + 1
                         /\ \A j \in 1 .. p : G[j] = F[j]
                         /\ F[p + 1].subject \notin pruned' => G[p + 1] = F[p + 1]
  OBVIOUS
<1>1. F \in Seq(OpFacts) /\ Len(F) \in Nat /\ \A i \in 1 .. Len(F) : F[i].subject \notin pruned
  BY DEF StoreOK, RowsBehindFacts
<1>2. CASE G = F /\ pruned' = pruned
  BY <1>1, <1>2
<1>3. CASE ~ (G = F /\ pruned' = pruned)
  <2>1. PICK more \in Seq(OpFacts) :
          /\ \A n \in 1 .. Len(more) : more[n].subject \notin pruned
          /\ \/ G = F \o more /\ pruned' = pruned
             \/ G = Pruned(F \o more) /\ pruned' = pruned \cup Old(F \o more)
    BY <1>3 DEF RegistryMoves
  <2> DEFINE fs == F \o more
  <2>2. /\ fs \in Seq(OpFacts) /\ Len(fs) \in Nat /\ Len(fs) >= Len(F)
        /\ \A i \in 1 .. Len(F) : fs[i] = F[i]
    BY <1>1
  <2>3. \A i \in 1 .. Len(fs) : fs[i].subject \notin pruned
    <3>1. \A i \in 1 .. Len(fs) : i > Len(F) => i - Len(F) \in 1 .. Len(more) /\ fs[i] = more[i - Len(F)]
      BY <1>1
    <3>2. \A i \in 1 .. Len(fs) : i =< Len(F) => i \in 1 .. Len(F)
      BY <1>1
    <3> HIDE DEF fs
    <3> QED
      BY <1>1, <2>1, <2>2, <3>1, <3>2
  <2>4. \/ G = fs /\ pruned' = pruned
        \/ G = Pruned(fs) /\ pruned' = pruned \cup Old(fs)
    BY <2>1
  <2> HIDE DEF fs
  <2>5. CASE G = fs /\ pruned' = pruned
    BY <1>1, <2>2, <2>3, <2>5
  <2>6. CASE G = Pruned(fs) /\ pruned' = pruned \cup Old(fs)
    <3>1. fs \in Seq(Facts) /\ G \in Seq(OpFacts)
      BY <2>2, <2>6, PrunedOpFacts
    <3>2. \A i \in 1 .. Len(G) : G[i].subject \notin pruned'
      <4>1. \A i \in 1 .. Len(G) : G[i].subject \notin Old(fs) /\ \E k \in 1 .. Len(fs) : G[i] = fs[k]
        BY <2>6, <3>1, PrunedElements
      <4> QED
        BY <2>3, <2>6, <4>1
    <3>3. ASSUME NEW p \in Nat, p < Len(F), \A j \in 1 .. p : F[j].subject \notin pruned'
          PROVE  /\ Len(G) >= p + 1
                 /\ \A j \in 1 .. p : G[j] = F[j]
                 /\ F[p + 1].subject \notin pruned' => G[p + 1] = F[p + 1]
      <4>1. p < Len(fs) /\ p + 1 \in 1 .. Len(F) /\ \A j \in 1 .. p : j \in 1 .. Len(F)
        BY <1>1, <2>2, <3>3
      <4>2. \A j \in 1 .. p : fs[j] = F[j] /\ fs[j].subject \notin Old(fs)
        BY <2>2, <2>6, <3>3, <4>1
      <4>3. /\ Len(Pruned(fs)) >= p + 1
            /\ \A j \in 1 .. p : Pruned(fs)[j] = fs[j]
            /\ fs[p + 1].subject \notin Old(fs) => Pruned(fs)[p + 1] = fs[p + 1]
        BY <3>1, <4>1, <4>2, PrunedKeeps
      <4> QED
        BY <2>2, <2>6, <4>1, <4>2, <4>3
    <3> QED
      BY <1>1, <2>6, <3>1, <3>2, <3>3
  <2> QED
    BY <2>4, <2>5, <2>6
<1> QED
  BY <1>2, <1>3

\* Nothing that was said of an operation is unsaid while its row is there.
LEMMA KindsStay ==
  ASSUME StreamConstants, StoreOK, RowsBehindFacts, RegistryMoves, NEW x, x \notin pruned'
  PROVE  KindsOf(facts[Registry], x) \subseteq KindsOf(facts'[Registry], x)
<1> SUFFICES ASSUME NEW F, F = facts[Registry], NEW G, G = facts'[Registry], NEW i \in 1 .. Len(F), F[i].subject = x
             PROVE  \E n \in 1 .. Len(G) : G[n] = F[i]
  <2>1. facts[Registry] \in Seq(OpFacts) /\ facts'[Registry] \in Seq(OpFacts)
    BY MovesKeep
  <2>2. DOMAIN facts[Registry] = 1 .. Len(facts[Registry]) /\ DOMAIN facts'[Registry] = 1 .. Len(facts'[Registry])
    BY <2>1
  <2> QED
    BY <2>2 DEF KindsOf
<1>1. F \in Seq(OpFacts) /\ Len(F) \in Nat
  BY DEF StoreOK
<1>2. CASE G = F
  BY <1>2
<1>3. ASSUME NEW more \in Seq(OpFacts),
             \/ G = F \o more
             \/ G = Pruned(F \o more) /\ pruned' = pruned \cup Old(F \o more)
      PROVE  \E n \in 1 .. Len(G) : G[n] = F[i]
  <2> DEFINE fs == F \o more
  <2>1. fs \in Seq(OpFacts) /\ i \in 1 .. Len(fs) /\ fs[i] = F[i]
    BY <1>1
  <2>2. G = fs \/ (G = Pruned(fs) /\ pruned' = pruned \cup Old(fs))
    BY <1>3
  <2> HIDE DEF fs
  <2>3. fs \in Seq(Facts)
    BY <2>1, PrunedOpFacts
  <2>4. CASE G = fs
    BY <2>1, <2>4
  <2>5. CASE G = Pruned(fs) /\ pruned' = pruned \cup Old(fs)
    <3>1. fs[i].subject \notin Old(fs)
      BY <2>1, <2>5
    <3> QED
      BY <2>1, <2>3, <2>5, <3>1, PrunedHolds
  <2> QED
    BY <2>2, <2>4, <2>5
<1> QED
  BY <1>2, <1>3 DEF RegistryMoves

LEMMA StoreStep ==
  ASSUME StreamConstants, NoneIsNoRecord, StoreOK, RowsBehindFacts, OnStack, [Next]_vars
  PROVE  StoreOK' /\ RowsBehindFacts'
<1>1. RegistryMoves /\ \A x \in Others : OtherMoves(x)
  BY Moves
<1>2. Registry \in Owners /\ Registry \notin Others /\ Owners = Others \cup {Registry}
  BY DEF StreamConstants, Owners
<1>3. facts'[Registry] \in Seq(OpFacts) /\ RowsBehindFacts'
  BY <1>1, MovesKeep DEF RowsBehindFacts
<1>4. ASSUME NEW x \in Others PROVE facts'[x] \in Seq(RunFacts)
  <2>1. facts[x] \in Seq(RunFacts)
    BY DEF StoreOK
  <2>2. \A f \in RunFacts : Append(facts[x], f) \in Seq(RunFacts)
    BY <2>1
  <2> QED
    BY <1>1, <2>1, <2>2 DEF OtherMoves
<1>5. OpFacts \subseteq Facts /\ RunFacts \subseteq Facts
  BY DEF OpFacts, RunFacts, Facts
<1>6. \A x \in Owners : facts'[x] \in Seq(Facts)
  BY <1>2, <1>3, <1>4, <1>5
<1>7. facts' \in [Owners -> Seq(Facts)]
  <2>1. \/ UNCHANGED facts
        \/ \E o \in Owners : facts' = [facts EXCEPT ![o] = facts'[o]]
    <3>1. ASSUME NEW o \in Owners, NEW f \in Facts, Record(o, f)
          PROVE  facts' = [facts EXCEPT ![o] = facts'[o]]
      <4> DEFINE v == IF f.kind = "ended" THEN Pruned(Append(facts[o], f)) ELSE Append(facts[o], f)
      <4>1. facts' = [facts EXCEPT ![o] = v]
        BY <3>1 DEF Record
      <4> HIDE DEF v
      <4>2. v = facts'[o]
        BY <4>1 DEF StoreOK
      <4> QED
        BY <4>1, <4>2
    <3>2. ASSUME Boot
          PROVE  facts' = [facts EXCEPT ![Registry] = facts'[Registry]]
      <4> DEFINE v == Pruned(Recovered(facts[Registry]))
      <4>1. facts' = [facts EXCEPT ![Registry] = v]
        BY <3>2 DEF Boot
      <4> HIDE DEF v
      <4>2. v = facts'[Registry]
        BY <1>2, <4>1 DEF StoreOK
      <4> QED
        BY <4>1, <4>2
    <3> QED
      BY <1>2, <3>1, <3>2 DEF Next, Link, Duplicate, Accept, Reject, StoreFails, Crash, Stop, Ended,
         LoseProjection, Age, ownerVars, vars
  <2>2. CASE UNCHANGED facts
    BY <2>2 DEF StoreOK
  <2>3. ASSUME NEW o \in Owners, facts' = [facts EXCEPT ![o] = facts'[o]]
        PROVE  facts' \in [Owners -> Seq(Facts)]
    <3>1. facts'[o] \in Seq(Facts)
      BY <1>6
    <3> DEFINE v == facts'[o]
    <3>2. facts' = [facts EXCEPT ![o] = v] /\ v \in Seq(Facts)
      BY <2>3, <3>1
    <3> HIDE DEF v
    <3> QED
      BY <3>2 DEF StoreOK
  <2> QED
    BY <2>1, <2>2, <2>3
<1>8. pruned' \subseteq Ops
  <2>1. ASSUME NEW fs \in Seq(OpFacts) PROVE Old(fs) \subseteq Ops
    <3>1. \A i \in DOMAIN fs : fs[i] \in OpFacts
      OBVIOUS
    <3>2. \A i \in DOMAIN fs : fs[i].subject \in Ops
      BY <3>1 DEF OpFacts
    <3> QED
      BY <3>2 DEF Old, Finished
  <2>2. \A more \in Seq(OpFacts) : facts[Registry] \o more \in Seq(OpFacts)
    BY DEF StoreOK
  <2> QED
    BY <1>1, <2>1, <2>2 DEF RegistryMoves, StoreOK
<1>9. epoch' \in [Owners -> Nat \ {0}]
  <2>1. UNCHANGED epoch \/ epoch' = [epoch EXCEPT ![Registry] = @ + 1]
    BY DEF Next, Record, Boot, Link, Duplicate, Accept, Reject, StoreFails, BreakOff, Crash, Stop, Ended,
       LoseProjection, Age, ownerVars, vars
  <2> QED
    BY <1>2, <2>1 DEF StoreOK
<1>10. now' \in Times /\ up' \in BOOLEAN
  <2>1. UNCHANGED now \/ (now < MaxAgings /\ now' = now + 1)
    BY DEF Next, Record, Boot, Link, Duplicate, Accept, Reject, StoreFails, Crash, Stop, Ended,
       LoseProjection, Age, ownerVars, vars
  <2>2. UNCHANGED up \/ up' = TRUE \/ up' = FALSE
    BY DEF Next, Record, Boot, Link, Duplicate, Accept, Reject, StoreFails, Crash, Stop, Ended,
       LoseProjection, Age, ownerVars, vars
  <2>3. MaxAgings \in Nat
    BY DEF StreamConstants
  <2>4. now' \in Times
    BY <2>1, <2>3 DEF StoreOK, Times
  <2>5. up' \in BOOLEAN
    BY <2>2 DEF StoreOK
  <2> QED
    BY <2>4, <2>5
<1>11. linked' \subseteq Owners
  BY DEF StoreOK, Next, Record, Boot, Link, Duplicate, Accept, Reject, StoreFails, Crash, Stop, Ended,
     LoseProjection, Age, ownerVars, vars
<1>12. accepted' \in Seq(Events) /\ cursor' \in [Owners -> Events \cup {None}]
  <2>1. CASE Accept
    <3>1. Offered \in Events /\ publishing.owner \in Owners
      BY <2>1, OfferedType DEF Accept
    <3> QED
      BY <2>1, <3>1 DEF Accept, StoreOK
  <2>2. CASE LoseProjection
    BY <2>2 DEF LoseProjection
  <2>3. CASE UNCHANGED <<accepted, cursor>>
    BY <2>3 DEF StoreOK
  <2>4. Accept \/ LoseProjection \/ UNCHANGED <<accepted, cursor>>
    BY DEF Next, Record, Boot, Link, Duplicate, Reject, StoreFails, Crash, Stop, Ended, Age, modelVars, vars
  <2> QED
    BY <2>1, <2>2, <2>3, <2>4
<1>13. CountsType'
  BY CountsTypeStep DEF StoreOK
<1> QED
  BY <1>3, <1>4, <1>7, <1>8, <1>9, <1>10, <1>11, <1>12, <1>13 DEF StoreOK

------------------------------------------------------------------------------
(* The publication on the stack *)

LEMMA Publishes ==
  ASSUME StreamConstants, NoneIsNoRecord, StoreOK', NEW o \in Owners, NEW n \in Nat \ {0}, NEW r \in BOOLEAN
  PROVE  LET p == Publication(o, n, r)
         IN \/ p = None /\ n > Len(facts'[o])
            \/ /\ p # None /\ p \in Publications /\ n =< Len(facts'[o])
               /\ p.owner = o /\ p.next = n /\ p.retry = r
<1>1. Len(facts'[o]) \in Nat
  BY DEF StoreOK
<1>2. [owner |-> o, next |-> n, retry |-> r] \in Publications
  BY DEF Publications
<1> QED
  BY <1>1, <1>2 DEF Publication, NoneIsNoRecord

LEMMA OnStackStep ==
  ASSUME StreamConstants, NoneIsNoRecord, StoreOK, RowsBehindFacts, OnStack, [Next]_vars
  PROVE  OnStack'
<1>1. StoreOK'
  BY StoreStep
<1>2. Registry \in Owners /\ Registry \notin Others /\ Others \subseteq Owners /\ 1 \in Nat \ {0}
  BY DEF StreamConstants, Owners
<1>3. ASSUME NEW o \in Owners, NEW n \in Nat \ {0}, NEW r \in BOOLEAN,
             publishing' = Publication(o, n, r), o \in linked', up'
      PROVE  OnStack'
  BY <1>1, <1>3, Publishes DEF OnStack
<1>4. ASSUME publishing' = None, ~up' => linked' = {} PROVE OnStack'
  BY <1>4 DEF OnStack
<1>5. ASSUME publishing # None
      PROVE  /\ publishing.owner \in Owners /\ publishing.owner \in linked /\ up
             /\ publishing.next + 1 \in Nat \ {0} /\ publishing.retry \in BOOLEAN
  BY <1>5 DEF OnStack, Publications, StoreOK
<1>6. ASSUME NEW o \in Owners, NEW f \in Facts, Record(o, f) PROVE OnStack'
  <2>1. up' /\ linked' = linked
    BY <1>6 DEF Record, Idle
  <2>2. publishing' = None \/ (o \in linked /\ publishing' = Publication(o, 1, FALSE))
    BY <1>6 DEF Record, Published
  <2> QED
    BY <1>2, <1>3, <1>4, <2>1, <2>2
<1>7. ASSUME NEW o \in Owners, Link(o) PROVE OnStack'
  <2>1. up' /\ o \in linked' /\ publishing' = Publication(o, 1, FALSE)
    BY <1>7 DEF Link, Idle
  <2> QED
    BY <1>2, <1>3, <2>1
<1>8. ASSUME publishing # None, up' = up, linked' = linked, Proceed \/ BreakOff PROVE OnStack'
  <2>1. CASE Proceed
    BY <1>3, <1>5, <1>8, <2>1 DEF Proceed
  <2>2. CASE BreakOff
    BY <1>2, <1>3, <1>4, <1>5, <1>8, <2>2 DEF BreakOff
  <2> QED
    BY <1>8, <2>1, <2>2
<1>9. CASE Duplicate \/ Accept \/ Reject \/ StoreFails
  <2>1. publishing # None /\ (Proceed \/ BreakOff) /\ up' = up /\ linked' = linked
    BY <1>9 DEF Duplicate, Accept, Reject, StoresFault, StoreFails
  <2> QED
    BY <1>8, <2>1
<1>10. CASE Boot
  BY <1>4, <1>10 DEF Boot, OnStack
<1>11. CASE Crash \/ Stop
  BY <1>4, <1>11 DEF Crash, Stop, Ended
<1>12. CASE LoseProjection
  BY <1>4, <1>12 DEF LoseProjection, OnStack
<1>13. CASE Age
  BY <1>4, <1>13 DEF Age, OnStack
<1>14. CASE UNCHANGED vars
  BY <1>14 DEF vars, ownerVars, OnStack
<1> QED
  BY <1>6, <1>7, <1>9, <1>10, <1>11, <1>12, <1>13, <1>14 DEF Next

------------------------------------------------------------------------------
(* The accepted events *)

AcceptedOK == \A o \in Owners : HeldOK(o)

\* The replay goes on after an accepted event, or breaks off when the store fails.
LEMMA AcceptEpochs ==
  ASSUME StoreOK, Accept, NEW x \in Owners
  PROVE  /\ epoch[x] \in Nat /\ epoch'[x] \in Nat /\ epoch[x] =< epoch'[x]
         /\ x # Registry => epoch'[x] = epoch[x]
         /\ publishing.owner # Registry => epoch'[x] = epoch[x]
<1>1. epoch' = epoch \/ (publishing.owner = Registry /\ epoch' = [epoch EXCEPT ![Registry] = @ + 1])
  BY DEF Accept, BreakOff
<1> QED
  BY <1>1 DEF StoreOK

LEMMA AcceptEffect ==
  ASSUME StreamConstants, NoneIsNoRecord, StoreOK, OnStack, Accept,
         NEW o, o = publishing.owner, NEW n, n = publishing.next
  PROVE  /\ o \in Owners /\ n \in Nat /\ n >= 1 /\ n =< Len(facts[o])
         /\ Len(accepted) \in Nat /\ accepted' \in Seq(Events) /\ Len(accepted') = Len(accepted) + 1
         /\ accepted'[Len(accepted) + 1] = Offered
         /\ \A i \in 1 .. Len(accepted) : accepted'[i] = accepted[i]
         /\ cursor'[o] = Offered /\ \A x \in Owners \ {o} : cursor'[x] = cursor[x]
         /\ Offered \in Events /\ Offered # None /\ Offered.owner = o /\ Offered.epoch = epoch[o]
         /\ Offered.chain \in Seq(Mapped) /\ Len(Offered.chain) = n
         /\ \A k \in 1 .. n : Offered.chain[k] = StreamOf(o)[k]
         /\ facts' = facts /\ Verdict(Offered) = "accepted"
<1>1. publishing # None
  BY DEF Accept
<1>2. /\ o \in Owners /\ n \in 1 .. Len(facts[o]) /\ n \in Nat
      /\ Offered \in Events /\ Offered # None /\ Offered.owner = o /\ Offered.epoch = epoch[o]
      /\ Offered.chain \in Seq(Mapped) /\ Len(Offered.chain) = n
      /\ \A k \in 1 .. n : Offered.chain[k] = StreamOf(o)[k]
  BY <1>1, OfferedType
<1>3. accepted \in Seq(Events) /\ cursor \in [Owners -> Events \cup {None}]
  BY DEF StoreOK
<1>4. /\ accepted' = Append(accepted, Offered) /\ cursor' = [cursor EXCEPT ![o] = Offered]
      /\ facts' = facts /\ Verdict(Offered) = "accepted"
  BY DEF Accept
<1> QED
  BY <1>2, <1>3, <1>4

LEMMA HeldStepAccept ==
  ASSUME StreamConstants, NoneIsNoRecord, StoreOK, OnStack, OfferedIsHeld, AcceptedOK, Accept,
         NEW o \in Owners
  PROVE  HeldOK(o)'
<1> DEFINE p == publishing.owner
           n == publishing.next
           L == Len(accepted)
           e == Offered
<1>1. /\ p \in Owners /\ n \in Nat /\ n >= 1
      /\ L \in Nat /\ Len(accepted') = L + 1
      /\ accepted'[L + 1] = e
      /\ \A i \in 1 .. L : accepted'[i] = accepted[i]
      /\ cursor'[p] = e /\ \A x \in Owners \ {p} : cursor'[x] = cursor[x]
      /\ e \in Events /\ e # None /\ e.owner = p /\ e.epoch = epoch[p]
      /\ e.chain \in Seq(Mapped) /\ Len(e.chain) = n
      /\ \A k \in 1 .. n : e.chain[k] = StreamOf(p)[k]
      /\ \A x \in Owners : epoch[x] \in Nat /\ epoch'[x] \in Nat /\ epoch[x] =< epoch'[x]
      /\ Verdict(e) = "accepted"
  BY AcceptEffect, AcceptEpochs
<1>2. /\ HeldOK(o)
      /\ \/ n = 1 /\ cursor[p] = None
         \/ n = 1 /\ cursor[p] # None /\ cursor[p].epoch < epoch[p]
         \/ n > 1 /\ Agrees(p, n - 1) /\ Len(cursor[p].chain) = n - 1
  <2>1. HeldOK(o) /\ HeldOK(p)
    BY <1>1 DEF AcceptedOK
  <2>2. publishing # None
    BY DEF Accept
  <2> QED
    BY <1>1, <2>1, <2>2, Verdicts
<1>3. \A i \in 1 .. L + 1 : i \in 1 .. L \/ i = L + 1
  BY <1>1
<1>4. \A x \in Owners : epoch[x] \in Nat
  BY DEF StoreOK
<1>5. \A i \in 1 .. L : accepted[i] \in Events /\ accepted[i].epoch \in Nat
                          /\ accepted[i].chain \in Seq(Mapped) /\ Len(accepted[i].chain) \in Nat
  <2>1. \A i \in 1 .. L : accepted[i] \in Events
    BY DEF StoreOK
  <2> QED
    BY <2>1 DEF Events
<1> HIDE DEF p, n, L, e
<1>6. CASE o # p
  <2>1. cursor'[o] = cursor[o]
    BY <1>1, <1>6
  <2>2. \A i \in 1 .. L + 1 : accepted'[i].owner = o => i \in 1 .. L /\ accepted'[i] = accepted[i]
    BY <1>1, <1>3, <1>6
  <2>3. CASE cursor[o] = None
    BY <1>1, <1>2, <2>1, <2>2, <2>3 DEF HeldOK, L
  <2>4. CASE cursor[o] # None
    <3>1. \A i \in 1 .. L : i \in 1 .. L + 1
      BY <1>1
    <3>2. /\ cursor[o].owner = o /\ cursor[o].epoch =< epoch[o]
          /\ \A i \in 1 .. L : accepted[i].owner = o =>
               /\ accepted[i].epoch =< cursor[o].epoch
               /\ accepted[i].epoch = cursor[o].epoch =>
                    /\ Len(accepted[i].chain) =< Len(cursor[o].chain)
                    /\ \A k \in 1 .. Len(accepted[i].chain) :
                         accepted[i].chain[k] = cursor[o].chain[k]
          /\ \A k \in 1 .. Len(cursor[o].chain) : \E i \in 1 .. L :
               /\ accepted[i].owner = o /\ accepted[i].epoch = cursor[o].epoch
               /\ Len(accepted[i].chain) = k
          /\ \E j \in 1 .. L :
               /\ accepted[j] = cursor[o]
               /\ \A i \in 1 .. L : accepted[i].owner = o => i =< j
      BY <1>2, <2>4 DEF HeldOK, L
    <3>3. ASSUME NEW k \in 1 .. Len(cursor[o].chain)
          PROVE  \E i \in 1 .. L + 1 :
               /\ accepted'[i].owner = o /\ accepted'[i].epoch = cursor[o].epoch
               /\ Len(accepted'[i].chain) = k
      <4>1. PICK i \in 1 .. L : /\ accepted[i].owner = o /\ accepted[i].epoch = cursor[o].epoch
                               /\ Len(accepted[i].chain) = k
        BY <3>2
      <4>2. i \in 1 .. L + 1 /\ accepted'[i] = accepted[i]
        BY <1>1, <3>1
      <4> QED
        BY <4>1, <4>2
    <3>4. \E j \in 1 .. L + 1 :
               /\ accepted'[j] = cursor[o]
               /\ \A i \in 1 .. L + 1 : accepted'[i].owner = o => i =< j
      BY <1>1, <2>2, <3>1, <3>2
    <3>5. ASSUME NEW i \in 1 .. L + 1, accepted'[i].owner = o
          PROVE
               /\ accepted'[i].epoch =< cursor[o].epoch
               /\ accepted'[i].epoch = cursor[o].epoch =>
                    /\ Len(accepted'[i].chain) =< Len(cursor[o].chain)
                    /\ \A k \in 1 .. Len(accepted'[i].chain) :
                         accepted'[i].chain[k] = cursor[o].chain[k]
      <4>1. i \in 1 .. L /\ accepted'[i] = accepted[i] /\ accepted[i].owner = o
        BY <2>2, <3>5
      <4>2. /\ accepted[i].epoch =< cursor[o].epoch
            /\ accepted[i].epoch = cursor[o].epoch =>
                 /\ Len(accepted[i].chain) =< Len(cursor[o].chain)
                 /\ \A k \in 1 .. Len(accepted[i].chain) : accepted[i].chain[k] = cursor[o].chain[k]
        BY <3>2, <4>1
      <4> QED
        BY <4>1, <4>2
    <3>6. cursor[o].epoch =< epoch'[o]
      <4>1. cursor[o].epoch \in Nat
        BY <2>4 DEF StoreOK, Events
      <4>2. epoch[o] \in Nat /\ epoch'[o] \in Nat /\ epoch[o] =< epoch'[o]
        BY <1>1
      <4> QED
        BY <3>2, <4>1, <4>2
    <3> QED
      BY <1>1, <2>1, <2>4, <3>2, <3>3, <3>4, <3>5, <3>6 DEF HeldOK
  <2> QED
    BY <2>3, <2>4
<1>7. CASE o = p
  <2>1. cursor'[o] = e /\ e # None /\ e.owner = o /\ e.epoch =< epoch'[o] /\ e.epoch = epoch[o] /\ epoch[o] \in Nat
    BY <1>1, <1>4, <1>7
  <2>2. \E j \in 1 .. L + 1 :
           /\ accepted'[j] = e
           /\ \A i \in 1 .. L + 1 : accepted'[i].owner = o => i =< j
    BY <1>1
  <2>3. CASE n = 1 /\ (cursor[o] = None \/ cursor[o].epoch < epoch[o])
    <3>1. \A i \in 1 .. L : accepted[i].owner = o => accepted[i].epoch < epoch[o]
      <4>1. CASE cursor[o] = None
        BY <1>2, <4>1 DEF HeldOK, L
      <4>2. CASE cursor[o] # None /\ cursor[o].epoch < epoch[o]
        <5>1. \A i \in 1 .. L : accepted[i].owner = o => accepted[i].epoch =< cursor[o].epoch
          BY <1>2, <4>2 DEF HeldOK, L
        <5>2. cursor[o].epoch \in Nat
          BY <4>2 DEF StoreOK, Events
        <5> QED
          BY <1>5, <2>1, <4>2, <5>1, <5>2
      <4> QED
        BY <2>3, <4>1, <4>2
    <3>2. \A i \in 1 .. L + 1 : accepted'[i].owner = o =>
               \/ accepted'[i].epoch < e.epoch
               \/ accepted'[i] = e
      BY <1>1, <1>3, <2>1, <3>1
    <3>3. \A i \in 1 .. L + 1 : accepted'[i].owner = o =>
               /\ accepted'[i].epoch =< e.epoch
               /\ accepted'[i].epoch = e.epoch => accepted'[i] = e
      <4>1. \A i \in 1 .. L + 1 : accepted'[i].epoch \in Nat
        BY <1>1, <1>3, <1>4, <1>5
      <4> QED
        BY <2>1, <3>2, <4>1
    <3>4. \A k \in 1 .. Len(e.chain) : \E i \in 1 .. L + 1 :
               /\ accepted'[i].owner = o /\ accepted'[i].epoch = e.epoch
               /\ Len(accepted'[i].chain) = k
      <4>1. Len(e.chain) = 1 /\ L + 1 \in 1 .. L + 1
        BY <1>1, <2>3
      <4> QED
        BY <1>1, <2>1, <4>1
    <3>5. Len(e.chain) =< Len(e.chain)
      BY <1>1
    <3> QED
      BY <1>1, <2>1, <2>2, <3>3, <3>4, <3>5 DEF HeldOK
  <2>4. CASE n > 1 /\ Agrees(o, n - 1) /\ Len(cursor[o].chain) = n - 1
    <3>1. /\ cursor[o] # None /\ cursor[o].epoch = e.epoch
          /\ \A k \in 1 .. n - 1 : cursor[o].chain[k] = StreamOf(o)[k]
      BY <2>1, <2>4 DEF Agrees, Follows
    <3>2. \A k \in 1 .. n - 1 : e.chain[k] = cursor[o].chain[k]
      BY <1>1, <1>7, <3>1
    <3>3. /\ \A i \in 1 .. L : accepted[i].owner = o =>
               /\ accepted[i].epoch =< e.epoch
               /\ accepted[i].epoch = e.epoch =>
                    /\ Len(accepted[i].chain) =< n - 1
                    /\ \A k \in 1 .. Len(accepted[i].chain) :
                         accepted[i].chain[k] = cursor[o].chain[k]
          /\ \A k \in 1 .. n - 1 : \E i \in 1 .. L :
               /\ accepted[i].owner = o /\ accepted[i].epoch = e.epoch
               /\ Len(accepted[i].chain) = k
      BY <1>2, <2>4, <3>1 DEF HeldOK, L
    <3>4. ASSUME NEW i \in 1 .. L + 1, accepted'[i].owner = o
          PROVE  /\ accepted'[i].epoch =< e.epoch
                 /\ accepted'[i].epoch = e.epoch =>
                      /\ Len(accepted'[i].chain) =< Len(e.chain)
                      /\ \A k \in 1 .. Len(accepted'[i].chain) :
                           accepted'[i].chain[k] = e.chain[k]
      <4>1. CASE i = L + 1
        BY <1>1, <2>1, <4>1
      <4>2. CASE i \in 1 .. L
        <5>1. accepted'[i] = accepted[i] /\ accepted[i].owner = o /\ accepted[i].epoch =< e.epoch
          BY <1>1, <3>3, <3>4, <4>2
        <5>2. ASSUME accepted[i].epoch = e.epoch
              PROVE  /\ Len(accepted[i].chain) =< Len(e.chain)
                     /\ \A k \in 1 .. Len(accepted[i].chain) : accepted[i].chain[k] = e.chain[k]
          <6>1. Len(accepted[i].chain) =< n - 1 /\ Len(accepted[i].chain) \in Nat
            BY <1>5, <3>3, <4>2, <5>1, <5>2
          <6>2. \A k \in 1 .. Len(accepted[i].chain) : k \in 1 .. n - 1
            BY <1>1, <6>1
          <6>3. \A k \in 1 .. Len(accepted[i].chain) : accepted[i].chain[k] = cursor[o].chain[k]
            BY <3>3, <4>2, <5>1, <5>2
          <6>4. \A k \in 1 .. Len(accepted[i].chain) : accepted[i].chain[k] = e.chain[k]
            BY <3>2, <6>2, <6>3
          <6> QED
            BY <1>1, <6>1, <6>4
        <5> QED
          BY <5>1, <5>2
      <4> QED
        BY <1>3, <4>1, <4>2
    <3>5. ASSUME NEW k \in 1 .. Len(e.chain)
          PROVE  \E i \in 1 .. L + 1 :
                   /\ accepted'[i].owner = o /\ accepted'[i].epoch = e.epoch
                   /\ Len(accepted'[i].chain) = k
      <4>1. CASE k = n
        BY <1>1, <2>1, <4>1
      <4>2. CASE k # n
        <5>1. k \in 1 .. n - 1
          BY <1>1, <4>2
        <5>2. PICK i \in 1 .. L : /\ accepted[i].owner = o /\ accepted[i].epoch = e.epoch
                                 /\ Len(accepted[i].chain) = k
          BY <3>3, <5>1
        <5>3. i \in 1 .. L + 1 /\ accepted'[i] = accepted[i]
          BY <1>1
        <5> QED
          BY <5>2, <5>3
      <4> QED
        BY <4>1, <4>2
    <3> QED
      BY <1>1, <2>1, <2>2, <3>4, <3>5 DEF HeldOK
  <2> QED
    BY <1>2, <1>7, <2>3, <2>4
<1> QED
  BY <1>6, <1>7

LEMMA EpochsGrow ==
  ASSUME StreamConstants, StoreOK, [Next]_vars, NEW o \in Owners
  PROVE  epoch'[o] \in Nat /\ epoch[o] \in Nat /\ epoch[o] =< epoch'[o]
<1>1. UNCHANGED epoch \/ epoch' = [epoch EXCEPT ![Registry] = @ + 1]
  BY DEF Next, Record, Boot, Link, Duplicate, Accept, Reject, StoreFails, BreakOff, Crash, Stop, Ended,
     LoseProjection, Age, ownerVars, vars
<1>2. epoch \in [Owners -> Nat] /\ Registry \in Owners
  BY DEF StoreOK, Owners
<1> QED
  BY <1>1, <1>2

LEMMA AcceptedStep ==
  ASSUME StreamConstants, NoneIsNoRecord, StoreOK, OnStack, OfferedIsHeld, AcceptedOK, [Next]_vars
  PROVE  AcceptedOK'
<1> SUFFICES ASSUME NEW o \in Owners PROVE HeldOK(o)'
  BY DEF AcceptedOK
<1>1. CASE Accept
  BY <1>1, HeldStepAccept
<1>2. CASE LoseProjection
  <2>1. accepted' = <<>> /\ cursor'[o] = None
    BY <1>2 DEF LoseProjection
  <2>2. Len(accepted') = 0
    BY <2>1
  <2> QED
    BY <2>1, <2>2 DEF HeldOK
<1>3. CASE UNCHANGED <<accepted, cursor>>
  <2>1. HeldOK(o) /\ epoch'[o] \in Nat /\ epoch[o] \in Nat /\ epoch[o] =< epoch'[o]
    BY EpochsGrow DEF AcceptedOK
  <2>2. cursor[o] # None => cursor[o].epoch \in Nat
    BY DEF StoreOK, Events
  <2>3. cursor[o] # None => cursor[o].epoch =< epoch'[o]
    BY <2>1, <2>2 DEF HeldOK
  <2> QED
    BY <1>3, <2>1, <2>3 DEF HeldOK
<1> QED
  BY <1>1, <1>2, <1>3 DEF Next, Record, Boot, Link, Duplicate, Reject, StoreFails, Crash, Stop, Ended, Age,
     modelVars, vars

LEMMA OfferedStep ==
  ASSUME StreamConstants, NoneIsNoRecord, StoreOK, RowsBehindFacts, OnStack, OfferedIsHeld, AcceptedOK, [Next]_vars
  PROVE  OfferedIsHeld'
<1>1. StoreOK' /\ OnStack'
  BY StoreStep, OnStackStep
<1>2. Registry \in Owners /\ 1 \in Nat \ {0}
  BY DEF Owners
<1>3. ASSUME NEW o \in Owners, NEW r \in BOOLEAN, publishing' = Publication(o, 1, r),
             r => o = Registry /\ ~Follows(Registry)'
      PROVE  OfferedIsHeld'
  <2>1. \/ publishing' = None
        \/ publishing'.owner = o /\ publishing'.next = 1 /\ publishing'.retry = r
    BY <1>1, <1>2, <1>3, Publishes
  <2> QED
    BY <1>3, <2>1 DEF OfferedIsHeld
<1>4. ASSUME publishing' = None PROVE OfferedIsHeld'
  BY <1>4 DEF OfferedIsHeld
<1>5. ASSUME publishing # None
      PROVE  /\ publishing.owner \in Owners /\ HeldOK(publishing.owner)
             /\ publishing.next \in Nat \ {0} /\ publishing.next + 1 \in Nat \ {0}
             /\ publishing.next + 1 > 1 /\ publishing.next + 1 - 1 = publishing.next
             /\ publishing.retry \in BOOLEAN
  BY <1>5 DEF OnStack, Publications, AcceptedOK
<1>6. CASE \E o \in Owners, f \in Facts : Record(o, f)
  BY <1>3, <1>4, <1>6 DEF Record, Published
<1>7. CASE \E o \in Owners : Link(o)
  BY <1>3, <1>7 DEF Link
<1>8. ASSUME NEW o \in Owners, NEW n \in Nat \ {0}, NEW r \in BOOLEAN,
             publishing' = Publication(o, n + 1, r), Agrees(o, n)',
             r => o = Registry /\ Len(cursor'[Registry].chain) = n
      PROVE  OfferedIsHeld'
  <2>1. n + 1 \in Nat \ {0} /\ n + 1 - 1 = n
    OBVIOUS
  <2>2. \/ publishing' = None
        \/ publishing'.owner = o /\ publishing'.next = n + 1 /\ publishing'.retry = r
    BY <1>1, <1>8, <2>1, Publishes
  <2>3. CASE publishing' = None
    BY <1>4, <2>3
  <2>4. CASE publishing'.owner = o /\ publishing'.next = n + 1 /\ publishing'.retry = r
    BY <1>8, <2>1, <2>4 DEF OfferedIsHeld, Agrees, Follows
  <2> QED
    BY <2>2, <2>3, <2>4
<1>9. ASSUME NEW o, NEW n, NEW r, publishing # None, o = publishing.owner, n = publishing.next,
             r = publishing.retry, Duplicate
      PROVE  OfferedIsHeld'
  <2>1. /\ publishing' = Publication(o, n + 1, r) /\ Verdict(Offered) = "duplicate"
        /\ facts' = facts /\ epoch' = epoch /\ cursor' = cursor
    BY <1>9 DEF Duplicate, Proceed, ownerVars, modelVars
  <2>2. o \in Owners /\ n \in Nat \ {0} /\ r \in BOOLEAN /\ HeldOK(o)
    BY <1>5, <1>9
  <2>3. Agrees(o, n)
    BY <1>9, <2>1, <2>2, Verdicts
  <2>4. Agrees(o, n)'
    BY <2>1, <2>3 DEF Agrees, Follows, StreamOf
  <2>5. ASSUME r PROVE FALSE
    <3>1. o = Registry /\ (Follows(Registry) => Len(cursor[Registry].chain) = n - 1)
      BY <1>9, <2>5 DEF OfferedIsHeld
    <3>2. Follows(Registry) /\ Len(cursor[Registry].chain) >= n
      BY <2>3, <3>1 DEF Agrees
    <3> QED
      BY <2>2, <3>1, <3>2
  <2> QED
    BY <1>8, <2>1, <2>2, <2>4, <2>5
<1>10. ASSUME NEW o, NEW n, NEW r, publishing # None, o = publishing.owner, n = publishing.next,
              r = publishing.retry, Accept, Proceed, epoch' = epoch
       PROVE  OfferedIsHeld'
  <2>1. publishing' = Publication(o, n + 1, r)
    BY <1>10 DEF Proceed
  <2>2. o \in Owners /\ n \in Nat \ {0} /\ r \in BOOLEAN
    BY <1>5, <1>10
  <2>3. /\ cursor'[o] = Offered /\ Offered # None /\ Offered.epoch = epoch[o]
        /\ Len(Offered.chain) = n
        /\ \A k \in 1 .. n : Offered.chain[k] = StreamOf(o)[k]
        /\ facts' = facts /\ epoch' = epoch
    BY <1>10, AcceptEffect
  <2>4. StreamOf(o)' = StreamOf(o)
    BY <2>3 DEF StreamOf
  <2>5. n >= n
    BY <2>2
  <2> DEFINE e == Offered
  <2>6. /\ cursor'[o] = e /\ e # None /\ e.epoch = epoch'[o] /\ Len(e.chain) = n
        /\ \A k \in 1 .. n : e.chain[k] = StreamOf(o)'[k]
    BY <2>3, <2>4
  <2> HIDE DEF e
  <2>7. Agrees(o, n)'
    BY <2>5, <2>6 DEF Agrees, Follows
  <2>8. r => o = Registry /\ Len(cursor'[Registry].chain) = n
    BY <1>10, <2>6 DEF OfferedIsHeld
  <2> QED
    BY <1>8, <2>1, <2>2, <2>7, <2>8
<1>11. ASSUME publishing # None, BreakOff,
              cursor'[Registry] = cursor[Registry]
                \/ (cursor'[Registry] # None /\ cursor'[Registry].epoch = epoch[Registry])
       PROVE  OfferedIsHeld'
  <2>1. CASE publishing.owner = Registry /\ ~publishing.retry
    <3>1. epoch' = [epoch EXCEPT ![Registry] = @ + 1] /\ publishing' = Publication(Registry, 1, TRUE)
      BY <1>11, <2>1 DEF BreakOff
    <3>2. epoch'[Registry] = epoch[Registry] + 1 /\ epoch[Registry] \in Nat
      BY <1>2, <3>1 DEF StoreOK
    <3>3. cursor[Registry] # None => cursor[Registry].epoch \in Nat /\ cursor[Registry].epoch =< epoch[Registry]
      <4>1. HeldOK(Registry)
        BY <1>2 DEF AcceptedOK
      <4> QED
        BY <1>2, <4>1 DEF HeldOK, StoreOK, Events
    <3>4. ~Follows(Registry)'
      BY <1>11, <3>2, <3>3 DEF Follows
    <3> QED
      BY <1>2, <1>3, <3>1, <3>4
  <2>2. CASE ~(publishing.owner = Registry /\ ~publishing.retry)
    BY <1>4, <1>11, <2>2 DEF BreakOff
  <2> QED
    BY <2>1, <2>2
<1>12. CASE Boot \/ LoseProjection \/ Age
  <2>1. publishing = None /\ publishing' = publishing
    BY <1>12 DEF Boot, LoseProjection, Age, OnStack
  <2> QED
    BY <1>4, <2>1
<1>13. CASE Crash \/ Stop
  BY <1>4, <1>13 DEF Crash, Stop, Ended
<1>14. CASE UNCHANGED vars
  <2>1. facts' = facts /\ epoch' = epoch /\ cursor' = cursor /\ publishing' = publishing
    BY <1>14 DEF vars, ownerVars, modelVars
  <2>2. \A o : StreamOf(o)' = StreamOf(o)
    BY <2>1 DEF StreamOf
  <2> QED
    BY <2>1, <2>2 DEF OfferedIsHeld, Agrees, Follows
<1>15. ASSUME Duplicate \/ Accept PROVE OfferedIsHeld'
  <2>1. publishing # None
    BY <1>15 DEF Duplicate, Accept
  <2>2. CASE Duplicate
    BY <1>9, <2>1, <2>2
  <2>3. CASE Accept /\ Proceed /\ epoch' = epoch
    BY <1>10, <2>1, <2>3
  <2>4. CASE Accept /\ BreakOff
    <3>1. cursor'[Registry] = cursor[Registry]
            \/ (cursor'[Registry] # None /\ cursor'[Registry].epoch = epoch[Registry])
      BY <1>2, <2>4, AcceptEffect
    <3> QED
      BY <1>11, <2>1, <2>4, <3>1
  <2> QED
    BY <1>15, <2>2, <2>3, <2>4 DEF Accept
<1>16. CASE Reject \/ StoreFails
  <2>1. publishing # None /\ BreakOff /\ cursor' = cursor
    BY <1>16 DEF Reject, StoresFault, StoreFails, modelVars
  <2> QED
    BY <1>11, <2>1
<1> QED
  BY <1>6, <1>7, <1>12, <1>13, <1>14, <1>15, <1>16 DEF Next

------------------------------------------------------------------------------
(* The accepted streams are gapless *)

HoldsInv == StoreOK /\ RowsBehindFacts /\ OnStack /\ AcceptedOK /\ OfferedIsHeld

LEMMA HoldsInit == StreamConstants /\ NoneIsNoRecord /\ Init => HoldsInv
<1> SUFFICES ASSUME StreamConstants, NoneIsNoRecord, Init PROVE HoldsInv
  OBVIOUS
<1>1. Registry \in Owners /\ Others \subseteq Owners /\ MaxAgings \in Nat
  BY DEF Owners, StreamConstants
<1>2. \A S : <<>> \in Seq(S)
  OBVIOUS
<1>3. StoreOK
  <2>1. /\ facts \in [Owners -> Seq(Facts)] /\ facts[Registry] \in Seq(OpFacts)
        /\ \A o \in Others : facts[o] \in Seq(RunFacts)
    BY <1>1, <1>2 DEF Init
  <2>2. /\ pruned \subseteq Ops /\ epoch \in [Owners -> Nat \ {0}] /\ now \in Times
        /\ cursor \in [Owners -> Events \cup {None}]
    BY <1>1 DEF Init, Times
  <2>3. accepted \in Seq(Events) /\ up \in BOOLEAN /\ linked \subseteq Owners /\ CountsType
    BY <1>2 DEF Init, CountsType
  <2> QED
    BY <2>1, <2>2, <2>3 DEF StoreOK
<1>4. Len(<<>>) = 0
  OBVIOUS
<1> QED
  BY <1>1, <1>3, <1>4 DEF Init, HoldsInv, RowsBehindFacts, OnStack, AcceptedOK, HeldOK, OfferedIsHeld

LEMMA HoldsStep ==
  ASSUME StreamConstants, NoneIsNoRecord, HoldsInv, [Next]_vars
  PROVE  HoldsInv'
BY StoreStep, OnStackStep, AcceptedStep, OfferedStep DEF HoldsInv

LEMMA GaplessStep ==
  ASSUME StreamConstants, NoneIsNoRecord, HoldsInv, GaplessStreams, [Next]_vars
  PROVE  GaplessStreams'
<1> USE DEF HoldsInv
<1>1. ASSUME NEW o, NEW n, o = publishing.owner, n = publishing.next, Accept PROVE GaplessStreams'
  <2> DEFINE L == Len(accepted)
             e == Offered
             Chained(i, ev) ==
               LET earlier == {j \in 1 .. i - 1 : accepted[j].owner = ev.owner}
               IN \/ Sequence(ev) = 1 /\ \A j \in earlier : accepted[j].epoch # ev.epoch
                  \/ \E j \in earlier : /\ \A k \in earlier : k =< j
                                        /\ accepted[j].epoch = ev.epoch /\ accepted[j].chain = Previous(ev)
  <2>1. /\ o \in Owners /\ n \in Nat /\ n >= 1
        /\ L \in Nat /\ Len(accepted') = L + 1 /\ accepted' \in Seq(Events)
        /\ accepted'[L + 1] = e
        /\ \A i \in 1 .. L : accepted'[i] = accepted[i]
        /\ e \in Events /\ e.owner = o /\ e.epoch = epoch[o]
        /\ e.chain \in Seq(Mapped) /\ Len(e.chain) = n
        /\ \A k \in 1 .. n : e.chain[k] = StreamOf(o)[k]
    <3>1. StoreOK /\ OnStack
      OBVIOUS
    <3>2. /\ o \in Owners /\ n \in Nat /\ n >= 1
          /\ Len(accepted) \in Nat /\ accepted' \in Seq(Events) /\ Len(accepted') = Len(accepted) + 1
          /\ accepted'[Len(accepted) + 1] = Offered
          /\ \A i \in 1 .. Len(accepted) : accepted'[i] = accepted[i]
          /\ Offered \in Events /\ Offered.owner = o /\ Offered.epoch = epoch[o]
          /\ Offered.chain \in Seq(Mapped) /\ Len(Offered.chain) = n
          /\ \A k \in 1 .. n : Offered.chain[k] = StreamOf(o)[k]
      <4> HIDE DEF HoldsInv
      <4> QED
        BY <1>1, <3>1, AcceptEffect
    <3> QED
      BY <3>2
  <2>2. /\ HeldOK(o)
        /\ \/ n = 1 /\ cursor[o] = None
           \/ n = 1 /\ cursor[o] # None /\ cursor[o].epoch < epoch[o]
           \/ n > 1 /\ Agrees(o, n - 1) /\ Len(cursor[o].chain) = n - 1
    <3>1. HeldOK(o) /\ Verdict(Offered) = "accepted" /\ publishing # None
      BY <1>1, <2>1 DEF AcceptedOK, Accept
    <3> QED
      BY <1>1, <3>1, Verdicts
  <2>3. \A i \in 1 .. L : Chained(i, accepted[i])
    <3>1. \A i \in DOMAIN accepted : Chained(i, accepted[i])
      BY DEF GaplessStreams
    <3>2. DOMAIN accepted = 1 .. L
      BY DEF StoreOK
    <3> HIDE DEF Chained, L
    <3> QED
      BY <3>1, <3>2
  <2>4. \A i \in 1 .. L : accepted[i] \in Events /\ accepted[i].epoch \in Nat
    <3>1. \A i \in 1 .. L : accepted[i] \in Events
      BY DEF StoreOK
    <3> QED
      BY <3>1 DEF Events
  <2>5. epoch[o] \in Nat
    BY <2>1 DEF StoreOK
  <2>6. Chained(L + 1, e)
    <3> DEFINE earlier == {j \in 1 .. L : accepted[j].owner = o}
    <3>1. (L + 1) - 1 = L /\ e.owner = o
      BY <2>1
    <3>2. CASE n = 1 /\ (cursor[o] = None \/ (cursor[o] # None /\ cursor[o].epoch < epoch[o]))
      <4>1. ASSUME NEW j \in earlier PROVE accepted[j].epoch # epoch[o]
        <5>1. cursor[o] # None /\ cursor[o].epoch < epoch[o] /\ cursor[o].epoch \in Nat
          <6>1. cursor[o] # None
            BY <2>2, <4>1 DEF HeldOK
          <6>2. cursor[o] \in Events
            BY <2>1, <6>1 DEF StoreOK
          <6> QED
            BY <3>2, <6>1, <6>2 DEF Events
        <5>2. accepted[j].epoch =< cursor[o].epoch
          BY <2>2, <4>1, <5>1 DEF HeldOK
        <5> QED
          BY <2>4, <2>5, <4>1, <5>1, <5>2
      <4>2. Sequence(e) = 1
        BY <2>1, <3>2 DEF Sequence
      <4> HIDE DEF e, L
      <4> QED
        BY <2>1, <3>1, <4>1, <4>2
    <3>3. CASE n > 1 /\ Agrees(o, n - 1) /\ Len(cursor[o].chain) = n - 1
      <4>1. /\ cursor[o] # None /\ cursor[o].epoch = epoch[o]
            /\ \A k \in 1 .. n - 1 : cursor[o].chain[k] = StreamOf(o)[k]
            /\ cursor[o].chain \in Seq(Mapped)
        <5>1. /\ cursor[o] # None /\ cursor[o].epoch = epoch[o]
              /\ \A k \in 1 .. n - 1 : cursor[o].chain[k] = StreamOf(o)[k]
          BY <3>3 DEF Agrees, Follows
        <5>2. cursor[o] \in Events
          BY <2>1, <5>1 DEF StoreOK
        <5>3. \A ev \in Events : ev.chain \in Seq(Mapped)
          BY DEF Events
        <5> QED
          BY <5>1, <5>2, <5>3
      <4>2. PICK j \in 1 .. L : /\ accepted[j] = cursor[o]
                                /\ \A i \in 1 .. L : accepted[i].owner = o => i =< j
        BY <2>2, <4>1 DEF HeldOK
      <4>3. accepted[j].owner = o
        BY <2>2, <4>1, <4>2 DEF HeldOK
      <4>4. Previous(e) = cursor[o].chain
        <5>1. Previous(e) = SubSeq(e.chain, 1, n - 1)
          BY <2>1 DEF Previous, Front
        <5>2. \A k \in 1 .. n - 1 : e.chain[k] = cursor[o].chain[k]
          BY <2>1, <4>1
        <5> DEFINE s == SubSeq(e.chain, 1, n - 1)
        <5>3. s \in Seq(Mapped) /\ Len(s) = n - 1 /\ \A k \in 1 .. n - 1 : s[k] = e.chain[k]
          BY <2>1
        <5> HIDE DEF s
        <5>4. s = cursor[o].chain
          BY <3>3, <4>1, <5>2, <5>3
        <5> QED
          BY <5>1, <5>4 DEF s
      <4> HIDE DEF e, L
      <4> QED
        BY <2>1, <3>1, <4>1, <4>2, <4>3, <4>4
    <3> QED
      BY <2>2, <3>2, <3>3
  <2> HIDE DEF L, e
  <2>7. ASSUME NEW i \in 1 .. L + 1
        PROVE  LET earlier == {j \in 1 .. i - 1 : accepted'[j].owner = accepted'[i].owner}
               IN \/ Sequence(accepted'[i]) = 1 /\ \A j \in earlier : accepted'[j].epoch # accepted'[i].epoch
                  \/ \E j \in earlier : /\ \A k \in earlier : k =< j
                                        /\ accepted'[j].epoch = accepted'[i].epoch
                                        /\ accepted'[j].chain = Previous(accepted'[i])
    <3>1. \A j \in 1 .. i - 1 : j \in 1 .. L /\ accepted'[j] = accepted[j]
      BY <2>1
    <3>2. Chained(i, accepted'[i])
      <4>1. i \in 1 .. L \/ i = L + 1
        BY <2>1
      <4> HIDE DEF Chained
      <4> QED
        BY <2>1, <2>3, <2>6, <4>1
    <3>3. {j \in 1 .. i - 1 : accepted'[j].owner = accepted'[i].owner}
            = {j \in 1 .. i - 1 : accepted[j].owner = accepted'[i].owner}
      BY <3>1
    <3> QED
      BY <3>1, <3>2, <3>3
  <2>8. DOMAIN accepted' = 1 .. L + 1
    BY <2>1
  <2> QED
    BY <2>7, <2>8 DEF GaplessStreams
<1>2. CASE LoseProjection
  BY <1>2 DEF LoseProjection, GaplessStreams
<1>3. CASE UNCHANGED accepted
  BY <1>3 DEF GaplessStreams
<1> QED
  BY <1>1, <1>2, <1>3 DEF Next, Record, Boot, Link, Duplicate, Reject, StoreFails, Crash, Stop, Ended, Age,
     modelVars, vars

\* GaplessStreams: ingest takes only what continues the chain of an owner and
\* epoch, whatever the owners offer, and after another epoch nothing of an
\* earlier one.
THEOREM Gapless == Spec => []GaplessStreams
<1>1. Init => HoldsInv /\ GaplessStreams
  BY HoldsInit, StreamConstants, NoneIsNoRecord DEF Init, GaplessStreams
<1>2. HoldsInv /\ GaplessStreams /\ [Next]_vars => (HoldsInv /\ GaplessStreams)'
  BY HoldsStep, GaplessStep, StreamConstants, NoneIsNoRecord
<1> QED
  BY <1>1, <1>2, PTL DEF Spec

------------------------------------------------------------------------------
(* The streams agree with their owners *)

\* The other owners only append, so what is held of one is the beginning of it.
OthersOK ==
  \A o \in Others : cursor[o] # None =>
    Agrees(o, Len(cursor[o].chain)) /\ Len(cursor[o].chain) =< Len(facts[o])

\* An event that was made of a fact: all of it stays as it was, but the safe code
\* of a terminal fact, which the recovery of its operation may still change.
MadeOf(m, f, fs) ==
  /\ f.subject = m.subject /\ EventKind(f.kind) = m.kind /\ f.at = m.at /\ m.code \in SafeCodes
  /\ m.code = "none" <=> f.kind \notin {"ended", "recovered"}
  /\ m.code = "ok" => "recovered" \in KindsOf(fs, f.subject)

\* What is held of the registry in the present epoch is, up to the first pruned
\* operation, made of its facts; and its facts go on beyond that.
RegistryOK ==
  /\ cursor[Registry] # None => Len(facts[Registry]) >= 1
  /\ Follows(Registry) => \A k \in 1 .. Len(cursor[Registry].chain) :
       (\A j \in 1 .. k - 1 : cursor[Registry].chain[j].subject \notin pruned) =>
         /\ Len(facts[Registry]) >= k
         /\ cursor[Registry].chain[k].subject \notin pruned =>
              MadeOf(cursor[Registry].chain[k], facts[Registry][k], facts[Registry])

\* What is held tells of an operation the registry has pruned, or of the end of
\* one that was recovered since: no replay under the same epoch agrees with it.
Diverged ==
  \E k \in 1 .. Len(cursor[Registry].chain) :
    \/ cursor[Registry].chain[k].subject \in pruned
    \/ /\ cursor[Registry].chain[k].code = "failure"
       /\ "recovered" \in KindsOf(facts[Registry], cursor[Registry].chain[k].subject)

\* A stored fault is a conflict of the registry under an epoch it has left, or is
\* to leave: when the backend dies between the fault and the new epoch.
FaultsOK ==
  \A fault \in faults :
    /\ fault.owner = Registry /\ fault.code = "OWNER_SEQUENCE_CONFLICT"
    /\ cursor[Registry] # None /\ fault.epoch \in Nat /\ fault.epoch =< cursor[Registry].epoch
    /\ cursor[Registry].epoch < epoch[Registry] \/ Diverged

\* A linked owner that is not being published is held up to what it publishes.
SyncOK ==
  counts.failures = 0 => \A o \in linked : publishing = None \/ publishing.owner # o => InSync(o)

AgreeInv == OthersOK /\ RegistryOK /\ FaultsOK /\ SyncOK

LEMMA SameStream ==
  ASSUME NEW o, facts'[o] = facts[o]
  PROVE  /\ StreamOf(o)' = StreamOf(o)
         /\ epoch'[o] = epoch[o] => \A n : EventAt(o, n)' = EventAt(o, n)
<1>1. StreamOf(o)' = StreamOf(o)
  BY DEF StreamOf
<1> QED
  BY <1>1 DEF EventAt

LEMMA OtherStream ==
  ASSUME StreamConstants, StoreOK, NEW o \in Others, OtherMoves(o)
  PROVE  \A i \in 1 .. Len(facts[o]) : StreamOf(o)'[i] = StreamOf(o)[i] /\ facts'[o][i] = facts[o][i]
<1> DEFINE M(f) == [subject |-> f.subject, kind |-> EventKind(f.kind), code |-> "none", at |-> f.at]
<1>1. facts[o] \in Seq(RunFacts) /\ Len(facts[o]) \in Nat
  BY DEF StoreOK
<1>2. \A f \in RunFacts : \A fs : Code(fs, f) = "none"
  BY DEF RunFacts, RunKinds, Code
<1>3. ASSUME NEW i \in 1 .. Len(facts[o]) PROVE StreamOf(o)[i] = M(facts[o][i])
  <2>1. i \in DOMAIN facts[o] /\ Code(facts[o], facts[o][i]) = "none"
    BY <1>1, <1>2
  <2> QED
    BY <2>1 DEF StreamOf
<1>4. /\ facts'[o] \in Seq(RunFacts) /\ Len(facts[o]) =< Len(facts'[o])
      /\ \A i \in 1 .. Len(facts[o]) : facts'[o][i] = facts[o][i]
  <2>1. ASSUME NEW f \in RunFacts
        PROVE  /\ Append(facts[o], f) \in Seq(RunFacts) /\ Len(facts[o]) =< Len(Append(facts[o], f))
               /\ \A i \in 1 .. Len(facts[o]) : Append(facts[o], f)[i] = facts[o][i]
    BY <1>1
  <2>2. CASE facts'[o] = facts[o]
    BY <1>1, <2>2
  <2>3. CASE facts'[o] # facts[o]
    <3>1. PICK f \in RunFacts : facts'[o] = Append(facts[o], f)
      BY <2>3 DEF OtherMoves
    <3> DEFINE s == Append(facts[o], f)
    <3>2. /\ s \in Seq(RunFacts) /\ Len(facts[o]) =< Len(s)
          /\ \A i \in 1 .. Len(facts[o]) : s[i] = facts[o][i]
      BY <2>1
    <3> HIDE DEF s
    <3>3. facts'[o] = s
      BY <3>1 DEF s
    <3> QED
      BY <3>2, <3>3
  <2> QED
    BY <2>2, <2>3
<1>5. ASSUME NEW i \in 1 .. Len(facts[o]) PROVE StreamOf(o)'[i] = M(facts'[o][i])
  <2>1. i \in DOMAIN facts'[o] /\ Code(facts'[o], facts'[o][i]) = "none"
    BY <1>1, <1>2, <1>4
  <2> QED
    BY <2>1 DEF StreamOf
<1> QED
  BY <1>3, <1>4, <1>5

LEMMA EpochMoves ==
  ASSUME StreamConstants, StoreOK, [Next]_vars
  PROVE  /\ \A o \in Others : epoch'[o] = epoch[o]
         /\ \/ epoch'[Registry] = epoch[Registry]
            \/ epoch'[Registry] = epoch[Registry] + 1 /\ (Accept \/ Reject \/ StoreFails)
<1>1. UNCHANGED epoch \/ (epoch' = [epoch EXCEPT ![Registry] = @ + 1] /\ (Accept \/ Reject \/ StoreFails))
  BY DEF Next, Record, Boot, Link, Duplicate, Accept, Reject, StoreFails, BreakOff, Crash, Stop, Ended,
     LoseProjection, Age, ownerVars, vars
<1>2. epoch \in [Owners -> Nat] /\ Registry \in Owners /\ Registry \notin Others /\ Others \subseteq Owners
  BY DEF StoreOK, Owners, StreamConstants
<1> QED
  BY <1>1, <1>2

LEMMA ModelMoves ==
  ASSUME [Next]_vars
  PROVE  Accept \/ LoseProjection \/ (accepted' = accepted /\ cursor' = cursor)
BY DEF Next, Record, Boot, Link, Duplicate, Reject, StoreFails, Crash, Stop, Ended, Age, modelVars, vars

LEMMA OthersStep ==
  ASSUME StreamConstants, NoneIsNoRecord, HoldsInv, OthersOK, [Next]_vars
  PROVE  OthersOK'
<1> USE DEF HoldsInv
<1> SUFFICES ASSUME NEW o \in Others, cursor'[o] # None
             PROVE  (Agrees(o, Len(cursor[o].chain)) /\ Len(cursor[o].chain) =< Len(facts[o]))'
  BY DEF OthersOK
<1>1. o \in Owners /\ OtherMoves(o) /\ epoch'[o] = epoch[o]
  BY Moves, EpochMoves DEF Owners
<1>2. /\ \A i \in 1 .. Len(facts[o]) : StreamOf(o)'[i] = StreamOf(o)[i]
      /\ Len(facts[o]) \in Nat /\ Len(facts'[o]) \in Nat /\ Len(facts[o]) =< Len(facts'[o])
  <2>1. facts[o] \in Seq(RunFacts)
    BY DEF StoreOK
  <2>2. Len(facts[o]) \in Nat /\ Len(facts'[o]) \in Nat /\ Len(facts[o]) =< Len(facts'[o])
    BY <1>1, <2>1 DEF OtherMoves
  <2> QED
    BY <1>1, <2>2, OtherStream
<1>3. ASSUME cursor'[o] = cursor[o] PROVE (Agrees(o, Len(cursor[o].chain)) /\ Len(cursor[o].chain) =< Len(facts[o]))'
  <2> DEFINE c == cursor[o]
             l == Len(c.chain)
  <2>1. Agrees(o, l) /\ l =< Len(facts[o]) /\ c # None
    BY <1>3 DEF OthersOK
  <2>2. c.chain \in Seq(Mapped) /\ l \in Nat
    BY <1>1, <2>1 DEF StoreOK, Events
  <2>3. c.epoch = epoch[o] /\ \A k \in 1 .. l : c.chain[k] = StreamOf(o)[k]
    BY <2>1 DEF Agrees, Follows
  <2>4. l >= l /\ l =< Len(facts'[o]) /\ \A k \in 1 .. l : c.chain[k] = StreamOf(o)'[k]
    BY <1>2, <2>1, <2>2, <2>3
  <2>5. cursor'[o] = c
    BY <1>3
  <2> HIDE DEF c
  <2> QED
    BY <1>1, <2>1, <2>3, <2>4, <2>5 DEF Agrees, Follows
<1>4. CASE LoseProjection
  BY <1>1, <1>4 DEF LoseProjection
<1>5. ASSUME NEW n, n = publishing.next, o = publishing.owner, Accept
      PROVE  (Agrees(o, Len(cursor[o].chain)) /\ Len(cursor[o].chain) =< Len(facts[o]))'
  <2> DEFINE e == Offered
  <2>1. /\ n \in Nat /\ n =< Len(facts[o]) /\ cursor'[o] = e /\ e # None /\ e.epoch = epoch[o]
        /\ Len(e.chain) = n /\ \A k \in 1 .. n : e.chain[k] = StreamOf(o)[k]
        /\ facts' = facts
    BY <1>5, AcceptEffect
  <2>2. StreamOf(o)' = StreamOf(o)
    BY <2>1, SameStream
  <2>3. n >= n
    BY <2>1
  <2> HIDE DEF e
  <2> QED
    BY <1>1, <2>1, <2>2, <2>3 DEF Agrees, Follows
<1>6. CASE Accept
  <2>1. CASE publishing.owner = o
    BY <1>5, <1>6, <2>1
  <2>2. CASE publishing.owner # o
    <3>1. cursor'[o] = cursor[o]
      BY <1>1, <1>6, <2>2, AcceptEffect
    <3> QED
      BY <1>3, <3>1
  <2> QED
    BY <2>1, <2>2
<1>7. cursor' = cursor => cursor'[o] = cursor[o]
  OBVIOUS
<1> QED
  BY <1>3, <1>4, <1>6, <1>7, ModelMoves

LEMMA StreamMade ==
  ASSUME StreamConstants, StoreOK, NEW i \in 1 .. Len(facts[Registry])
  PROVE  /\ MadeOf(StreamOf(Registry)[i], facts[Registry][i], facts[Registry])
         /\ StreamOf(Registry)[i] =
              [subject |-> facts[Registry][i].subject, kind |-> EventKind(facts[Registry][i].kind),
               code |-> Code(facts[Registry], facts[Registry][i]), at |-> facts[Registry][i].at]
<1> DEFINE F == facts[Registry]
           f == F[i]
           m == [subject |-> f.subject, kind |-> EventKind(f.kind), code |-> Code(F, f), at |-> f.at]
<1>1. DOMAIN F = 1 .. Len(F)
  BY DEF StoreOK
<1>2. StreamOf(Registry)[i] = m
  BY <1>1 DEF StreamOf
<1>3. m.subject = f.subject /\ m.kind = EventKind(f.kind) /\ m.at = f.at /\ m.code = Code(F, f)
  OBVIOUS
<1>4. /\ Code(F, f) \in SafeCodes
      /\ Code(F, f) = "none" <=> f.kind \notin {"ended", "recovered"}
      /\ Code(F, f) = "ok" => "recovered" \in KindsOf(F, f.subject)
  BY DEF Code, SafeCodes
<1> HIDE DEF f, F, m
<1>5. MadeOf(m, f, F)
  BY <1>3, <1>4 DEF MadeOf
<1> QED
  BY <1>2, <1>5 DEF f, F, m

\* Where the registry contradicts what is held, it goes on to contradict it.
LEMMA ConflictDiverges ==
  ASSUME StreamConstants, StoreOK, RegistryOK, Follows(Registry),
         NEW n \in 1 .. Len(cursor[Registry].chain),
         cursor[Registry].chain \in Seq(Mapped),
         cursor[Registry].chain[n] # StreamOf(Registry)[n]
  PROVE  Diverged
<1> DEFINE c == cursor[Registry].chain
           F == facts[Registry]
<1> SUFFICES ASSUME \A k \in 1 .. Len(c) : c[k].subject \notin pruned
             PROVE  Diverged
  BY DEF Diverged
<1>1. Len(c) \in Nat /\ \A j \in 1 .. n - 1 : j \in 1 .. Len(c)
  OBVIOUS
<1>2. Len(F) >= n /\ MadeOf(c[n], F[n], F)
  BY <1>1 DEF RegistryOK
<1>3. n \in 1 .. Len(F) /\ c[n] \in Mapped
  <2>1. F \in Seq(OpFacts) /\ n \in Nat /\ n >= 1
    BY <1>1 DEF StoreOK
  <2>2. Len(F) \in Nat
    BY <2>1
  <2> QED
    BY <1>2, <2>1, <2>2
<1>4. StreamOf(Registry)[n] =
        [subject |-> F[n].subject, kind |-> EventKind(F[n].kind), code |-> Code(F, F[n]), at |-> F[n].at]
  BY <1>3, StreamMade
<1> DEFINE m == c[n]
           f == F[n]
<1>5. m # [subject |-> f.subject, kind |-> EventKind(f.kind), code |-> Code(F, f), at |-> f.at]
      /\ MadeOf(m, f, F) /\ m \in Mapped
  BY <1>2, <1>3, <1>4
<1> HIDE DEF m, f, F, c
<1>6. m = [subject |-> m.subject, kind |-> m.kind, code |-> m.code, at |-> m.at]
  BY <1>5 DEF Mapped
<1>7. m.code # Code(F, f)
  BY <1>5, <1>6 DEF MadeOf
<1>8. m.code = "failure" /\ "recovered" \in KindsOf(F, m.subject)
  BY <1>5, <1>7 DEF MadeOf, Code, SafeCodes
<1> QED
  BY <1>8 DEF Diverged, m, F, c

\* What has diverged is not what the registry now tells.
LEMMA DivergedDisagrees ==
  ASSUME StreamConstants, StoreOK, RowsBehindFacts, cursor[Registry] # None, Diverged,
         Agrees(Registry, Len(cursor[Registry].chain)),
         Len(cursor[Registry].chain) =< Len(facts[Registry])
  PROVE  FALSE
<1> DEFINE c == cursor[Registry].chain
           F == facts[Registry]
<1>1. PICK k \in 1 .. Len(c) :
        c[k].subject \in pruned \/ (c[k].code = "failure" /\ "recovered" \in KindsOf(F, c[k].subject))
  BY DEF Diverged
<1>2. Len(c) \in Nat /\ Len(F) \in Nat
  <2>1. Registry \in Owners
    BY DEF Owners
  <2>2. cursor[Registry] \in Events
    BY <2>1 DEF StoreOK
  <2>3. F \in Seq(OpFacts)
    BY DEF StoreOK
  <2> QED
    BY <2>2, <2>3 DEF Events
<1>3. k \in 1 .. Len(F) /\ c[k] = StreamOf(Registry)[k]
  BY <1>2 DEF Agrees
<1>4. c[k] = [subject |-> F[k].subject, kind |-> EventKind(F[k].kind), code |-> Code(F, F[k]), at |-> F[k].at]
  BY <1>3, StreamMade
<1> HIDE DEF c
<1>5. c[k].subject = F[k].subject /\ c[k].code = Code(F, F[k])
  BY <1>4
<1>6. c[k].subject \notin pruned
  BY <1>3, <1>5 DEF RowsBehindFacts
<1>7. "recovered" \in KindsOf(F, F[k].subject) => Code(F, F[k]) # "failure"
  BY DEF Code
<1> QED
  BY <1>1, <1>5, <1>6, <1>7

\* The registry does not come back to what it has left.
LEMMA DivergedStays ==
  ASSUME StreamConstants, StoreOK, RowsBehindFacts, RegistryMoves, cursor'[Registry] = cursor[Registry], Diverged
  PROVE  Diverged'
<1>1. PICK k \in 1 .. Len(cursor[Registry].chain) :
        \/ cursor[Registry].chain[k].subject \in pruned
        \/ /\ cursor[Registry].chain[k].code = "failure"
           /\ "recovered" \in KindsOf(facts[Registry], cursor[Registry].chain[k].subject)
  BY DEF Diverged
<1>2. pruned \subseteq pruned'
  BY MovesKeep
<1>3. CASE cursor[Registry].chain[k].subject \in pruned'
  BY <1>3 DEF Diverged
<1>4. CASE cursor[Registry].chain[k].subject \notin pruned'
  <2>1. /\ cursor[Registry].chain[k].code = "failure"
        /\ "recovered" \in KindsOf(facts'[Registry], cursor[Registry].chain[k].subject)
    BY <1>1, <1>2, <1>4, KindsStay
  <2> QED
    BY <2>1 DEF Diverged
<1> QED
  BY <1>3, <1>4

LEMMA RegistryStep ==
  ASSUME StreamConstants, NoneIsNoRecord, HoldsInv, RegistryOK, [Next]_vars
  PROVE  RegistryOK'
<1> USE DEF HoldsInv
<1> DEFINE F == facts[Registry]
           G == facts'[Registry]
           c == cursor[Registry]
<1>1. Registry \in Owners
  BY DEF Owners
<1>2. /\ G \in Seq(OpFacts) /\ F \in Seq(OpFacts) /\ pruned \subseteq pruned'
      /\ \A p \in Nat : p < Len(F) /\ (\A j \in 1 .. p : F[j].subject \notin pruned') =>
           /\ Len(G) >= p + 1
           /\ \A j \in 1 .. p : G[j] = F[j]
           /\ F[p + 1].subject \notin pruned' => G[p + 1] = F[p + 1]
  <2>1. RegistryMoves
    BY Moves
  <2>2. /\ facts'[Registry] \in Seq(OpFacts) /\ facts[Registry] \in Seq(OpFacts)
        /\ pruned \subseteq pruned'
    BY <2>1, MovesKeep
  <2>3. \A p \in Nat :
          p < Len(facts[Registry]) /\ (\A j \in 1 .. p : facts[Registry][j].subject \notin pruned') =>
            /\ Len(facts'[Registry]) >= p + 1
            /\ \A j \in 1 .. p : facts'[Registry][j] = facts[Registry][j]
            /\ facts[Registry][p + 1].subject \notin pruned' => facts'[Registry][p + 1] = facts[Registry][p + 1]
    BY <2>1, MovesKeep
  <2> QED
    BY <2>2, <2>3
<1>3. Len(F) \in Nat /\ Len(G) \in Nat
  BY <1>2
<1>4. Len(F) >= 1 => Len(G) >= 1
  <2>1. 0 \in Nat /\ 1 .. 0 = {} /\ 0 + 1 = 1
    OBVIOUS
  <2> QED
    BY <1>2, <1>3, <2>1
<1>5. c # None => c \in Events /\ c.chain \in Seq(Mapped) /\ Len(c.chain) \in Nat /\ c.epoch \in Nat
                    /\ c.epoch =< epoch[Registry]
  <2>1. HeldOK(Registry)
    BY <1>1 DEF AcceptedOK
  <2>2. StoreOK
    OBVIOUS
  <2>3. c \in Events \cup {None}
    BY <1>1, <2>2 DEF StoreOK
  <2>4. \A e \in Events : e.chain \in Seq(Mapped) /\ Len(e.chain) \in Nat /\ e.epoch \in Nat
    BY DEF Events
  <2>5. c # None => c.epoch =< epoch[Registry]
    BY <2>1 DEF HeldOK
  <2> QED
    BY <2>3, <2>4, <2>5
<1>6. ASSUME cursor' = cursor PROVE RegistryOK'
  <2>1. cursor'[Registry] # None => Len(G) >= 1
    BY <1>4, <1>6 DEF RegistryOK
  <2>2. ASSUME Follows(Registry)', NEW k \in 1 .. Len(c.chain),
               \A j \in 1 .. k - 1 : c.chain[j].subject \notin pruned'
        PROVE  Len(G) >= k /\ (c.chain[k].subject \notin pruned' => MadeOf(c.chain[k], G[k], G))
    <3>1. c # None /\ c.epoch = epoch'[Registry] /\ epoch[Registry] \in Nat
      BY <1>1, <1>6, <2>2 DEF Follows, StoreOK
    <3>2. epoch'[Registry] = epoch[Registry]
      BY <1>5, <3>1, EpochMoves
    <3>3. Follows(Registry)
      BY <3>1, <3>2 DEF Follows
    <3>4. k \in Nat /\ k - 1 \in Nat /\ (k - 1) + 1 = k
      BY <1>5, <3>1
    <3>5. \A i \in 1 .. Len(c.chain) : (\A j \in 1 .. i - 1 : c.chain[j].subject \notin pruned) =>
            Len(F) >= i /\ (c.chain[i].subject \notin pruned => MadeOf(c.chain[i], F[i], F))
      BY <3>3 DEF RegistryOK
    <3>6. Len(F) >= k /\ (c.chain[k].subject \notin pruned => MadeOf(c.chain[k], F[k], F))
      BY <1>2, <2>2, <3>5
    <3>7. ASSUME NEW j \in 1 .. k - 1 PROVE F[j].subject = c.chain[j].subject /\ F[j].subject \notin pruned'
      <4>1. j \in 1 .. Len(c.chain) /\ \A i \in 1 .. j - 1 : i \in 1 .. k - 1
        BY <1>5, <3>1, <3>4
      <4>2. \A i \in 1 .. j - 1 : c.chain[i].subject \notin pruned
        BY <1>2, <2>2, <4>1
      <4>3. c.chain[j].subject \notin pruned /\ c.chain[j].subject \notin pruned'
        BY <1>2, <2>2
      <4> QED
        BY <3>5, <4>1, <4>2, <4>3 DEF MadeOf
    <3>8. k - 1 < Len(F)
      BY <1>3, <3>4, <3>6
    <3> HIDE DEF F, G, c
    <3>9. Len(G) >= k /\ (F[k].subject \notin pruned' => G[k] = F[k])
      BY <1>2, <3>4, <3>7, <3>8
    <3>10. ASSUME c.chain[k].subject \notin pruned' PROVE MadeOf(c.chain[k], G[k], G)
      <4>1. MadeOf(c.chain[k], F[k], F)
        BY <1>2, <3>6, <3>10
      <4>2. F[k].subject \notin pruned' /\ G[k] = F[k]
        BY <3>9, <3>10, <4>1 DEF MadeOf
      <4>3. KindsOf(F, F[k].subject) \subseteq KindsOf(G, F[k].subject)
        BY <4>2, KindsStay, Moves DEF F, G
      <4> QED
        BY <4>1, <4>2, <4>3 DEF MadeOf
    <3> QED
      BY <3>9, <3>10
  <2> QED
    BY <1>6, <2>1, <2>2 DEF RegistryOK
<1>7. CASE LoseProjection
  BY <1>1, <1>7 DEF LoseProjection, RegistryOK, Follows
<1>8. ASSUME NEW n, n = publishing.next, Registry = publishing.owner, Accept PROVE RegistryOK'
  <2> DEFINE e == Offered
  <2>1. /\ n \in Nat /\ n >= 1 /\ n =< Len(F) /\ cursor'[Registry] = e
        /\ e.chain \in Seq(Mapped) /\ Len(e.chain) = n
        /\ \A k \in 1 .. n : e.chain[k] = StreamOf(Registry)[k]
        /\ facts' = facts
    BY <1>8, AcceptEffect
  <2>2. \A i \in 1 .. Len(F) : MadeOf(StreamOf(Registry)[i], F[i], F)
    BY <1>1, StreamMade
  <2>3. \A k \in 1 .. n : k \in 1 .. Len(F) /\ Len(F) >= k /\ MadeOf(e.chain[k], F[k], F)
    BY <1>3, <2>1, <2>2
  <2>4. G = F
    BY <2>1
  <2> HIDE DEF e
  <2> QED
    BY <1>3, <2>1, <2>3, <2>4 DEF RegistryOK
<1>9. CASE Accept
  <2>1. CASE publishing.owner = Registry
    BY <1>8, <1>9, <2>1
  <2>2. CASE publishing.owner # Registry
    <3>1. /\ cursor'[Registry] = cursor[Registry] /\ facts' = facts /\ pruned' = pruned
          /\ epoch'[Registry] = epoch[Registry]
      BY <1>1, <1>9, <2>2, AcceptEffect, AcceptEpochs DEF Accept
    <3> QED
      BY <3>1 DEF RegistryOK, Follows
  <2> QED
    BY <2>1, <2>2
<1> QED
  BY <1>6, <1>7, <1>9, ModelMoves

\* Only the registry is refused, and only in its first attempt.
LEMMA Refused ==
  ASSUME StreamConstants, NoneIsNoRecord, HoldsInv, OthersOK, StoresFault
  PROVE  /\ Verdict(Offered) = "OWNER_SEQUENCE_CONFLICT" /\ Offered.owner = Registry
         /\ publishing.owner = Registry /\ ~publishing.retry /\ Follows(Registry)
         /\ Reject => epoch'[Registry] = epoch[Registry] + 1 /\ publishing' = Publication(Registry, 1, TRUE)
         /\ Offered.epoch = epoch[Registry] /\ epoch[Registry] \in Nat
<1> USE DEF HoldsInv
<1> SUFFICES ASSUME NEW o, NEW n, o = publishing.owner, n = publishing.next
             PROVE  /\ Verdict(Offered) = "OWNER_SEQUENCE_CONFLICT" /\ Offered.owner = Registry
                    /\ o = Registry /\ ~publishing.retry /\ Follows(Registry)
                    /\ Reject => epoch'[Registry] = epoch[Registry] + 1 /\ publishing' = Publication(Registry, 1, TRUE)
                    /\ Offered.epoch = epoch[Registry] /\ epoch[Registry] \in Nat
  OBVIOUS
<1>1. publishing # None /\ Verdict(Offered) \in FaultCodes /\ (Reject => BreakOff)
  BY DEF StoresFault, Reject
<1>2. o \in Owners /\ n \in Nat /\ n >= 1 /\ n =< Len(facts[o]) /\ HeldOK(o) /\ Offered.owner = o
      /\ Offered.epoch = epoch[o]
  <2>1. o \in Owners /\ n \in Nat /\ n \in 1 .. Len(facts[o]) /\ Offered.owner = o
        /\ Offered.epoch = epoch[o]
    BY <1>1, OfferedType
  <2>2. Len(facts[o]) \in Nat
    BY <2>1, StreamType
  <2> QED
    BY <2>1, <2>2 DEF AcceptedOK
<1>3. Verdict(Offered) = "OWNER_SEQUENCE_CONFLICT"
  <2>1. Verdict(Offered) \in {"duplicate", "accepted", "OWNER_SEQUENCE_CONFLICT"}
    BY <1>1, <1>2, Verdicts
  <2> QED
    BY <1>1, <2>1 DEF FaultCodes
<1>4. Follows(o) /\ n =< Len(cursor[o].chain) /\ cursor[o].chain[n] # StreamOf(o)[n]
  BY <1>1, <1>2, <1>3, Verdicts
<1>5. cursor[o] # None /\ Len(cursor[o].chain) \in Nat
  BY <1>2, <1>4 DEF Follows, StoreOK, Events
<1>6. o = Registry
  <2>1. ASSUME o \in Others PROVE FALSE
    <3>1. Agrees(o, Len(cursor[o].chain))
      BY <1>5, <2>1 DEF OthersOK
    <3>2. n \in 1 .. Len(cursor[o].chain)
      BY <1>2, <1>4, <1>5
    <3> QED
      BY <1>4, <3>1, <3>2 DEF Agrees
  <2> QED
    BY <1>2, <2>1 DEF Owners
<1>7. ~publishing.retry
  <2>1. ASSUME publishing.retry PROVE FALSE
    <3>1. Follows(Registry) => Len(cursor[Registry].chain) = n - 1
      BY <1>1, <2>1 DEF OfferedIsHeld
    <3> QED
      BY <1>2, <1>4, <1>5, <1>6, <3>1
  <2> QED
    BY <2>1
<1>8. Reject => epoch' = [epoch EXCEPT ![Registry] = @ + 1] /\ publishing' = Publication(Registry, 1, TRUE)
  BY <1>1, <1>6, <1>7 DEF BreakOff
<1>9. epoch[Registry] \in Nat /\ (Reject => epoch'[Registry] = epoch[Registry] + 1)
  BY <1>2, <1>6, <1>8 DEF StoreOK
<1> QED
  BY <1>2, <1>3, <1>4, <1>6, <1>7, <1>8, <1>9

LEMMA FaultsStep ==
  ASSUME StreamConstants, NoneIsNoRecord, HoldsInv, OthersOK, RegistryOK, FaultsOK, [Next]_vars
  PROVE  FaultsOK'
<1> USE DEF HoldsInv
<1>1. /\ Registry \in Owners /\ epoch[Registry] \in Nat
      /\ epoch'[Registry] = epoch[Registry] \/ epoch'[Registry] = epoch[Registry] + 1
  BY EpochMoves DEF Owners, StoreOK
<1>2. cursor[Registry] # None => /\ cursor[Registry].epoch \in Nat /\ cursor[Registry].epoch =< epoch[Registry]
                                 /\ cursor[Registry].chain \in Seq(Mapped) /\ Len(cursor[Registry].chain) \in Nat
  <2>1. HeldOK(Registry)
    BY <1>1 DEF AcceptedOK
  <2>2. cursor[Registry] # None => cursor[Registry] \in Events
    BY <1>1 DEF StoreOK
  <2>3. cursor[Registry] \in Events => /\ cursor[Registry].epoch \in Nat
                                       /\ cursor[Registry].chain \in Seq(Mapped)
    BY DEF Events
  <2>4. cursor[Registry] # None => cursor[Registry].epoch =< epoch[Registry]
    BY <2>1 DEF HeldOK
  <2> QED
    BY <2>2, <2>3, <2>4
<1>3. ASSUME faults' \subseteq faults, cursor'[Registry] = cursor[Registry] PROVE FaultsOK'
  <2>1. Diverged => Diverged'
    BY <1>3, Moves, DivergedStays
  <2> QED
    BY <1>1, <1>2, <1>3, <2>1 DEF FaultsOK
<1>4. ASSUME StoresFault, cursor' = cursor PROVE FaultsOK'
  <2>1. /\ Verdict(Offered) = "OWNER_SEQUENCE_CONFLICT" /\ Offered.owner = Registry /\ Follows(Registry)
        /\ publishing.owner = Registry /\ Offered.epoch = epoch[Registry]
    BY <1>4, Refused
  <2>2. faults' = faults \cup {[owner |-> Offered.owner, epoch |-> Offered.epoch, code |-> Verdict(Offered)]}
    BY <1>4 DEF StoresFault
  <2>3. cursor[Registry] # None /\ cursor[Registry].epoch = epoch[Registry]
    BY <2>1 DEF Follows
  <2>4. Diverged
    <3>1. publishing # None /\ HeldOK(Registry) /\ publishing.next \in Nat \ {0}
      BY <1>1, <1>4 DEF StoresFault, AcceptedOK, OnStack, Publications
    <3>2. /\ publishing.next =< Len(cursor[Registry].chain)
          /\ cursor[Registry].chain[publishing.next] # StreamOf(Registry)[publishing.next]
      BY <2>1, <3>1, Verdicts
    <3>3. publishing.next \in 1 .. Len(cursor[Registry].chain)
      BY <1>2, <2>3, <3>1, <3>2
    <3> QED
      BY <1>2, <2>1, <2>3, <3>2, <3>3, ConflictDiverges
  <2>5. Diverged'
    BY <1>4, <2>4, Moves, DivergedStays
  <2>6. \A fault \in faults' : /\ fault.owner = Registry /\ fault.code = "OWNER_SEQUENCE_CONFLICT"
                                /\ fault.epoch \in Nat /\ fault.epoch =< cursor[Registry].epoch
    BY <1>1, <2>1, <2>2, <2>3 DEF FaultsOK
  <2> QED
    BY <1>4, <2>3, <2>5, <2>6 DEF FaultsOK
<1>5. ASSUME NEW o, NEW n, o = publishing.owner, n = publishing.next, Accept PROVE FaultsOK'
  <2>1. /\ o \in Owners /\ \A x \in Owners \ {o} : cursor'[x] = cursor[x]
        /\ Offered.owner = o /\ Offered.epoch = epoch[o] /\ n \in Nat /\ n =< Len(facts[o])
    BY <1>5, AcceptEffect
  <2>2. faults' = FaultsAfter(Offered)
    BY <1>5 DEF Accept
  <2>3. faults' \subseteq faults
    BY <2>2 DEF FaultsAfter
  <2>4. CASE o # Registry
    BY <1>1, <1>3, <2>1, <2>3, <2>4
  <2>5. CASE o = Registry
    <3>1. ASSUME NEW fault \in faults' PROVE FALSE
      <4>1. /\ fault.owner = Registry /\ cursor[Registry] # None
            /\ fault.epoch \in Nat /\ fault.epoch =< cursor[Registry].epoch
            /\ cursor[Registry].epoch < epoch[Registry] \/ Diverged
        BY <2>3, <3>1 DEF FaultsOK
      <4>2. CASE cursor[Registry].epoch < epoch[Registry]
        <5>1. fault.epoch = epoch[Registry]
          BY <1>1, <1>2, <2>1, <2>2, <2>5, <3>1, <4>1, <4>2 DEF FaultsAfter
        <5> QED
          BY <1>1, <1>2, <4>1, <4>2, <5>1
      <4>3. CASE ~(cursor[Registry].epoch < epoch[Registry])
        <5>1. Diverged
          BY <4>1, <4>3
        <5>2. publishing # None /\ HeldOK(Registry) /\ Verdict(Offered) = "accepted"
          BY <1>1, <1>5 DEF Accept, AcceptedOK
        <5>3. n > 1 /\ Agrees(Registry, n - 1) /\ Len(cursor[Registry].chain) = n - 1
          BY <1>5, <2>5, <4>1, <4>3, <5>2, Verdicts
        <5>4. Len(cursor[Registry].chain) =< Len(facts[Registry])
          <6>1. Len(facts[Registry]) \in Nat
            BY <1>1, StreamType
          <6> QED
            BY <2>1, <2>5, <5>3, <6>1
        <5> QED
          BY <4>1, <5>1, <5>3, <5>4, DivergedDisagrees
      <4> QED
        BY <4>2, <4>3
    <3> QED
      BY <3>1 DEF FaultsOK
  <2> QED
    BY <2>4, <2>5
<1>6. CASE LoseProjection
  BY <1>6 DEF LoseProjection, FaultsOK
<1>7. CASE Reject
  BY <1>4, <1>7 DEF Reject
<1>8. CASE Crash
  <2>1. cursor' = cursor
    BY <1>8 DEF Crash, Ended
  <2> QED
    BY <1>3, <1>4, <1>8, <2>1 DEF Crash
<1> QED
  BY <1>3, <1>5, <1>6, <1>7, <1>8 DEF Next, Record, Boot, Link, Duplicate, StoreFails, Stop, Ended, Age,
     modelVars, vars

LEMMA InSyncKept ==
  ASSUME NEW o, facts'[o] = facts[o], epoch'[o] = epoch[o], cursor'[o] = cursor[o], InSync(o)
  PROVE  InSync(o)'
<1>1. \A n : EventAt(o, n)' = EventAt(o, n)
  BY SameStream
<1>2. PICK n \in 0 .. Len(facts[o]) :
        /\ cursor[o] = IF n = 0 THEN None ELSE EventAt(o, n)
        /\ \A i \in n + 1 .. Len(facts[o]) : Unpublished(o, facts[o][i])
  BY DEF InSync
<1>3. /\ n \in 0 .. Len(facts'[o])
      /\ cursor'[o] = IF n = 0 THEN None ELSE EventAt(o, n)'
      /\ \A i \in n + 1 .. Len(facts'[o]) : Unpublished(o, facts'[o][i])
  BY <1>1, <1>2
<1> QED
  BY <1>3 DEF InSync

\* An owner without facts is not held.
LEMMA EmptyIsInSync ==
  ASSUME StreamConstants, StoreOK', OthersOK', RegistryOK', NEW o \in Owners, Len(facts'[o]) = 0
  PROVE  InSync(o)'
<1>1. cursor'[o] = None
  <2>1. ASSUME cursor'[o] # None PROVE FALSE
    <3>1. cursor'[o].chain \in Seq(Mapped) /\ cursor'[o].chain # <<>>
      BY <2>1 DEF StoreOK, Events
    <3>2. Len(cursor'[o].chain) \in Nat /\ Len(cursor'[o].chain) # 0
      BY <3>1
    <3>3. CASE o = Registry
      BY <2>1, <3>3 DEF RegistryOK
    <3>4. CASE o \in Others
      BY <2>1, <3>2, <3>4 DEF OthersOK
    <3> QED
      BY <3>3, <3>4 DEF Owners
  <2> QED
    BY <2>1
<1>2. 0 \in 0 .. Len(facts'[o]) /\ \A i \in 0 + 1 .. Len(facts'[o]) : Unpublished(o, facts'[o][i])
  OBVIOUS
<1> QED
  BY <1>1, <1>2 DEF InSync

\* When all that an owner has was offered, all of it is held and nothing else.
LEMMA OfferedAll ==
  ASSUME StreamConstants, StoreOK, RowsBehindFacts, AcceptedOK, OthersOK, RegistryOK,
         NEW o \in Owners, Len(facts[o]) >= 1, Agrees(o, Len(facts[o]))
  PROVE  InSync(o)
<1> DEFINE n == Len(facts[o])
           A == cursor[o].chain
<1>1. n \in Nat /\ \A i \in 1 .. n : StreamOf(o)[i].subject = facts[o][i].subject
  BY StreamType
<1>2. cursor[o] # None /\ cursor[o].epoch = epoch[o] /\ Len(A) >= n /\ \A k \in 1 .. n : A[k] = StreamOf(o)[k]
  BY DEF Agrees, Follows
<1>3. cursor[o] \in Events /\ cursor[o].owner = o /\ A \in Seq(Mapped) /\ Len(A) \in Nat
  <2>1. cursor[o] \in Events
    BY <1>2 DEF StoreOK
  <2> QED
    BY <1>2, <2>1 DEF AcceptedOK, HeldOK, Events
<1>4. Len(A) = n
  <2>1. CASE o \in Others
    BY <1>1, <1>2, <1>3, <2>1 DEF OthersOK
  <2>2. CASE o = Registry
    <3>1. ASSUME Len(A) > n PROVE FALSE
      <4>1. n + 1 \in 1 .. Len(A) /\ n + 1 - 1 = n
        BY <1>1, <1>3, <3>1
      <4>2. \A j \in 1 .. n : A[j].subject \notin pruned
        BY <1>1, <1>2, <2>2 DEF RowsBehindFacts
      <4>3. Len(facts[Registry]) >= n + 1
        <5>1. /\ Follows(Registry) /\ A = cursor[Registry].chain
              /\ \A j \in 1 .. (n + 1) - 1 : cursor[Registry].chain[j].subject \notin pruned
          BY <1>2, <2>2, <4>1, <4>2 DEF Follows
        <5>2. \A k \in 1 .. Len(A) :
                (\A j \in 1 .. k - 1 : cursor[Registry].chain[j].subject \notin pruned) =>
                  Len(facts[Registry]) >= k
          BY <5>1 DEF RegistryOK
        <5> HIDE DEF A, n
        <5> QED
          BY <4>1, <5>1, <5>2
      <4> QED
        BY <1>1, <2>2, <4>3
    <3> QED
      BY <1>1, <1>2, <1>3, <3>1
  <2> QED
    BY <2>1, <2>2 DEF Owners
<1>5. n \in 1 .. Len(facts[o]) /\ n # 0
  BY <1>1
<1>6. /\ EventAt(o, n) \in Events
      /\ EventAt(o, n).owner = o /\ EventAt(o, n).epoch = epoch[o]
      /\ Len(EventAt(o, n).chain) = n
      /\ \A k \in 1 .. n : EventAt(o, n).chain[k] = StreamOf(o)[k]
  BY <1>5, EventAtType
<1>7. cursor[o] = EventAt(o, n)
  BY <1>2, <1>3, <1>4, <1>6, EventsEqual
<1>8. n \in 0 .. Len(facts[o]) /\ \A i \in n + 1 .. Len(facts[o]) : Unpublished(o, facts[o][i])
  BY <1>1
<1> QED
  BY <1>5, <1>7, <1>8 DEF InSync

\* What is not published on its own leaves an owner in step.
LEMMA UnpublishedKeeps ==
  ASSUME StreamConstants, StoreOK, NEW o \in Others, NEW f \in RunFacts, Unpublished(o, f),
         facts'[o] = Append(facts[o], f), epoch'[o] = epoch[o], cursor'[o] = cursor[o], InSync(o)
  PROVE  InSync(o)'
<1>1. facts[o] \in Seq(RunFacts) /\ Len(facts[o]) \in Nat
  BY DEF StoreOK
<1>2. OtherMoves(o)
  BY DEF OtherMoves
<1>3. /\ facts'[o] \in Seq(RunFacts) /\ Len(facts'[o]) = Len(facts[o]) + 1
      /\ facts'[o][Len(facts[o]) + 1] = f
      /\ \A i \in 1 .. Len(facts[o]) : facts'[o][i] = facts[o][i]
  BY <1>1
<1>4. PICK n \in 0 .. Len(facts[o]) :
        /\ cursor[o] = IF n = 0 THEN None ELSE EventAt(o, n)
        /\ \A i \in n + 1 .. Len(facts[o]) : Unpublished(o, facts[o][i])
  BY DEF InSync
<1>5. n \in 0 .. Len(facts'[o])
  BY <1>1, <1>3
<1>6. \A i \in n + 1 .. Len(facts'[o]) : Unpublished(o, facts'[o][i])
  <2>1. ASSUME NEW i \in n + 1 .. Len(facts'[o]) PROVE Unpublished(o, facts'[o][i])
    <3>1. CASE i = Len(facts[o]) + 1
      BY <1>3, <3>1
    <3>2. CASE i # Len(facts[o]) + 1
      <4>1. i \in n + 1 .. Len(facts[o]) /\ i \in 1 .. Len(facts[o])
        BY <1>1, <1>3, <2>1, <3>2
      <4> QED
        BY <1>3, <1>4, <4>1
    <3> QED
      BY <3>1, <3>2
  <2> QED
    BY <2>1
<1>7. n # 0 => EventAt(o, n)' = EventAt(o, n)
  <2> DEFINE S == StreamOf(o)
             T == StreamOf(o)'
  <2>1. \A i \in 1 .. Len(facts[o]) : T[i] = S[i]
    BY <1>2, OtherStream
  <2>2. DOMAIN facts[o] = 1 .. Len(facts[o]) /\ DOMAIN facts'[o] = 1 .. Len(facts'[o])
    BY <1>1, <1>3
  <2>3. SubSeq(T, 1, n) = SubSeq(S, 1, n)
    <3>1. \A i \in 1 .. n : i \in 1 .. Len(facts[o])
      BY <1>1, <1>4
    <3>2. \A i \in 1 .. n : T[i] = S[i]
      BY <2>1, <3>1
    <3> HIDE DEF S, T
    <3>3. SubSeq(T, 1, n) = [i \in 1 .. n |-> T[i]] /\ SubSeq(S, 1, n) = [i \in 1 .. n |-> S[i]]
      BY <1>4
    <3> QED
      BY <3>2, <3>3
  <2> QED
    BY <2>3 DEF EventAt
<1> QED
  BY <1>4, <1>5, <1>6, <1>7 DEF InSync

\* The same of the next state.
LEMMA OfferedAllNow ==
  StreamConstants /\ StoreOK /\ RowsBehindFacts /\ AcceptedOK /\ OthersOK /\ RegistryOK =>
    \A o \in Owners : Len(facts[o]) >= 1 /\ Agrees(o, Len(facts[o])) => InSync(o)
BY OfferedAll

LEMMA OfferedAllNext ==
  (StreamConstants /\ StoreOK /\ RowsBehindFacts /\ AcceptedOK /\ OthersOK /\ RegistryOK =>
     \A o \in Owners : Len(facts[o]) >= 1 /\ Agrees(o, Len(facts[o])) => InSync(o))'
BY OfferedAllNow, PTL

LEMMA FailuresGrow ==
  ASSUME StreamConstants, StoreOK, [Next]_vars, counts'.failures = 0
  PROVE  /\ counts.failures = 0 /\ ~StoreFails /\ ~Count("failures", MaxFailures)
<1>1. counts \in [{"records", "crashes", "losses", "failures"} -> Nat]
  BY DEF StoreOK, CountsType
<1>2. \/ counts' = counts
      \/ \E w \in {"records", "crashes", "losses"} : counts' = [counts EXCEPT ![w] = @ + 1]
      \/ counts' = [counts EXCEPT !["failures"] = @ + 1]
  BY DEF Next, Record, Boot, Link, Duplicate, Accept, Reject, StoreFails, Crash, Stop, Ended,
     LoseProjection, Age, Count, vars
<1>3. ASSUME counts' = [counts EXCEPT !["failures"] = @ + 1] PROVE FALSE
  <2>1. counts'.failures = counts.failures + 1 /\ counts.failures \in Nat
    BY <1>1, <1>3
  <2> QED
    BY <2>1
<1>4. StoreFails \/ Count("failures", MaxFailures) => counts' = [counts EXCEPT !["failures"] = @ + 1]
  BY DEF StoreFails, Count
<1>5. counts.failures = 0
  BY <1>1, <1>2, <1>3
<1> QED
  BY <1>3, <1>4, <1>5

LEMMA SyncStep ==
  ASSUME StreamConstants, NoneIsNoRecord, HoldsInv, AgreeInv, [Next]_vars,
         HoldsInv', OthersOK', RegistryOK'
  PROVE  SyncOK'
<1> USE DEF HoldsInv, AgreeInv
<1> SUFFICES ASSUME counts'.failures = 0, NEW x \in linked', publishing' = None \/ publishing'.owner # x
             PROVE  InSync(x)'
  BY DEF SyncOK
<1>1. counts.failures = 0 /\ ~StoreFails /\ ~Count("failures", MaxFailures)
  BY FailuresGrow
<1>2. x \in Owners /\ epoch[x] \in Nat /\ 1 \in Nat \ {0} /\ Len(facts'[x]) \in Nat
  BY DEF StoreOK
<1>3. ASSUME NEW o \in Owners, NEW r \in BOOLEAN, publishing' = Publication(o, 1, r)
      PROVE  \/ publishing' = None /\ 1 > Len(facts'[o])
             \/ publishing' # None /\ publishing'.owner = o
  BY <1>2, <1>3, Publishes
<1>4. ASSUME x \in linked, publishing = None \/ publishing.owner # x PROVE InSync(x)
  BY <1>1, <1>4 DEF SyncOK
<1>5. ASSUME publishing' = Publication(x, 1, FALSE) PROVE InSync(x)'
  <2>1. 1 > Len(facts'[x])
    <3>1. FALSE \in BOOLEAN
      OBVIOUS
    <3> QED
      BY <1>2, <1>5, <1>3, <3>1
  <2>2. Len(facts'[x]) = 0
    BY <1>2, <2>1
  <2> QED
    BY <1>2, <2>2, EmptyIsInSync
<1>6. ASSUME NEW o \in Owners, NEW f \in Facts, Record(o, f) PROVE InSync(x)'
  <2>1. publishing = None /\ linked' = linked /\ epoch' = epoch /\ cursor' = cursor
    BY <1>6 DEF Record, Idle, modelVars
  <2>2. InSync(x)
    BY <1>4, <2>1
  <2>3. CASE x # o
    <3>1. facts'[x] = facts[x]
      BY <1>2, <1>6, <2>3 DEF Record, StoreOK
    <3> QED
      BY <2>1, <2>2, <3>1, InSyncKept
  <2>4. CASE x = o /\ ~Unpublished(o, f)
    <3>1. publishing' = Publication(x, 1, FALSE)
      BY <1>6, <2>1, <2>4 DEF Record, Published
    <3> QED
      BY <1>5, <3>1
  <2>5. CASE x = o /\ Unpublished(o, f)
    <3>1. o \in Others /\ o # Registry /\ f.kind = "run.started"
      BY <2>5 DEF Unpublished, StreamConstants
    <3>2. f \in RunFacts
      <4>1. f.subject \in Runs
        BY <1>6, <3>1 DEF Record, Recordable
      <4> QED
        BY <3>1, <4>1 DEF Facts, RunFacts, RunKinds
    <3>3. facts' = [facts EXCEPT ![o] = Append(facts[o], f)]
      BY <1>6, <3>1 DEF Record
    <3>4. facts'[o] = Append(facts[o], f)
      BY <3>3 DEF StoreOK
    <3> QED
      BY <2>1, <2>2, <2>5, <3>1, <3>2, <3>4, UnpublishedKeeps
  <2> QED
    BY <2>3, <2>4, <2>5
<1>7. ASSUME NEW o \in Owners, Link(o) PROVE InSync(x)'
  <2>1. /\ publishing = None /\ linked' = linked \cup {o} /\ epoch' = epoch /\ cursor' = cursor
        /\ facts' = facts /\ publishing' = Publication(o, 1, FALSE)
    BY <1>7 DEF Link, Idle, ownerVars
  <2>2. CASE x # o
    <3>1. InSync(x)
      BY <1>4, <2>1, <2>2
    <3> QED
      BY <2>1, <3>1, InSyncKept
  <2>3. CASE x = o
    BY <1>5, <2>1, <2>3
  <2> QED
    BY <2>2, <2>3
<1>8. ASSUME NEW o, NEW n, NEW r, publishing # None, o = publishing.owner, n = publishing.next,
             r = publishing.retry, Duplicate \/ Accept
      PROVE  InSync(x)'
  <2>1. o \in Owners /\ n \in Nat \ {0} /\ r \in BOOLEAN /\ HeldOK(o) /\ n =< Len(facts[o])
    BY <1>8 DEF OnStack, Publications, AcceptedOK
  <2>2. /\ publishing' = Publication(o, n + 1, r) /\ facts' = facts /\ epoch' = epoch /\ linked' = linked
        /\ pruned' = pruned
    BY <1>1, <1>8 DEF Duplicate, Accept, Proceed, ownerVars
  <2>3. CASE x # o
    <3>1. InSync(x)
      BY <1>4, <1>8, <2>2, <2>3
    <3>2. cursor'[x] = cursor[x]
      <4>1. CASE Duplicate
        BY <4>1 DEF Duplicate, modelVars
      <4>2. CASE Accept
        BY <1>2, <1>8, <2>3, <4>2, AcceptEffect
      <4> QED
        BY <1>8, <4>1, <4>2
    <3> QED
      BY <2>2, <3>1, <3>2, InSyncKept
  <2>4. CASE x = o
    <3>1. n + 1 > Len(facts'[o])
      <4>1. n + 1 \in Nat \ {0}
        BY <2>1
      <4> QED
        BY <2>1, <2>2, <2>4, <4>1, Publishes
    <3>2. n = Len(facts'[o]) /\ Len(facts'[o]) >= 1
      BY <1>2, <2>1, <2>2, <2>4, <3>1
    <3>3. Agrees(o, n)'
      <4>1. CASE Duplicate
        <5>1. Verdict(Offered) = "duplicate" /\ cursor' = cursor
          BY <4>1 DEF Duplicate, modelVars
        <5>2. Agrees(o, n)
          BY <1>8, <2>1, <5>1, Verdicts
        <5>3. StreamOf(o)' = StreamOf(o)
          BY <2>2, SameStream
        <5> QED
          BY <2>2, <5>1, <5>2, <5>3 DEF Agrees, Follows
      <4>2. CASE Accept
        <5> DEFINE e == Offered
        <5>1. /\ cursor'[o] = e /\ e # None /\ e.epoch = epoch[o] /\ Len(e.chain) = n
              /\ \A k \in 1 .. n : e.chain[k] = StreamOf(o)[k]
          BY <1>8, <4>2, AcceptEffect
        <5>2. StreamOf(o)' = StreamOf(o)
          BY <2>2, SameStream
        <5>3. n >= n
          BY <2>1
        <5> HIDE DEF e
        <5> QED
          BY <2>2, <5>1, <5>2, <5>3 DEF Agrees, Follows
      <4> QED
        BY <1>8, <4>1, <4>2
    <3>4. (Agrees(o, Len(facts[o])))'
      BY <3>2, <3>3 DEF Agrees, Follows
    <3>5. InSync(o)'
      BY <2>1, <3>2, <3>4, OfferedAllNext
    <3> QED
      BY <2>4, <3>5
  <2> QED
    BY <2>3, <2>4
<1>9. CASE Duplicate \/ Accept
  <2>1. publishing # None
    BY <1>9 DEF Duplicate, Accept
  <2> QED
    BY <1>8, <1>9, <2>1
<1>10. CASE Reject
  <2>1. publishing.owner = Registry /\ publishing' = Publication(Registry, 1, TRUE) /\ publishing # None
    BY <1>10, Refused DEF Reject, StoresFault
  <2>2. facts' = facts /\ cursor' = cursor /\ linked' = linked
    BY <1>10 DEF Reject
  <2>3. Registry \in Owners /\ Len(facts'[Registry]) \in Nat /\ 1 =< Len(facts'[Registry])
    <3>1. Registry \in Owners /\ publishing.next \in Nat \ {0} /\ publishing.next =< Len(facts[Registry])
      BY <2>1 DEF OnStack, Publications, Owners
    <3>2. Len(facts[Registry]) \in Nat
      BY <3>1 DEF StoreOK
    <3> QED
      BY <2>2, <3>1, <3>2
  <2>4. publishing' # None /\ publishing'.owner = Registry
    <3>1. TRUE \in BOOLEAN
      OBVIOUS
    <3>2. \/ publishing' = None /\ 1 > Len(facts'[Registry])
          \/ publishing' # None /\ publishing'.owner = Registry
      BY <1>3, <2>1, <2>3, <3>1
    <3> QED
      BY <2>3, <3>2
  <2>5. x # Registry
    BY <2>4
  <2>6. epoch'[x] = epoch[x] /\ InSync(x)
    BY <1>2, <1>4, <2>1, <2>2, <2>5, EpochMoves DEF Owners
  <2> QED
    BY <2>2, <2>6, InSyncKept
<1>11. CASE Boot \/ Crash \/ Stop \/ LoseProjection
  <2>1. linked' = {}
    BY <1>11 DEF Boot, Crash, Stop, Ended, LoseProjection, OnStack
  <2> QED
    BY <2>1
<1>12. CASE Age \/ UNCHANGED vars
  <2>1. facts' = facts /\ cursor' = cursor /\ linked' = linked /\ epoch' = epoch /\ publishing' = publishing
    BY <1>12 DEF Age, ownerVars, modelVars, vars
  <2>2. InSync(x)
    BY <1>4, <2>1
  <2> QED
    BY <2>1, <2>2, InSyncKept
<1> QED
  BY <1>1, <1>6, <1>7, <1>9, <1>10, <1>11, <1>12 DEF Next

LEMMA AgreeStep ==
  ASSUME StreamConstants, NoneIsNoRecord, HoldsInv, AgreeInv, [Next]_vars
  PROVE  AgreeInv'
<1>1. HoldsInv' /\ OthersOK' /\ RegistryOK' /\ FaultsOK'
  BY HoldsStep, OthersStep, RegistryStep, FaultsStep DEF AgreeInv
<1>2. SyncOK'
  BY <1>1, SyncStep
<1> QED
  BY <1>1, <1>2 DEF AgreeInv

LEMMA AgreeInit == StreamConstants /\ Init => AgreeInv
<1>1. Registry \in Owners /\ Others \subseteq Owners
  BY DEF Owners
<1> QED
  BY <1>1 DEF Init, AgreeInv, OthersOK, RegistryOK, FaultsOK, SyncOK, Follows

\* StreamsAgree: prune(), recover(), crashes and the loss of the projection leave
\* nothing in the read model that its owner does not hold, and nothing out of it.
THEOREM Agreement == Spec => []StreamsAgree
<1>1. Init => HoldsInv /\ AgreeInv
  BY HoldsInit, AgreeInit, StreamConstants, NoneIsNoRecord
<1>2. HoldsInv /\ AgreeInv /\ [Next]_vars => (HoldsInv /\ AgreeInv)'
  BY HoldsStep, AgreeStep, StreamConstants, NoneIsNoRecord
<1>3. HoldsInv /\ AgreeInv => StreamsAgree
  BY DEF AgreeInv, SyncOK, StreamsAgree, AtRest, Idle
<1> QED
  BY <1>1, <1>2, <1>3, PTL DEF Spec

LEMMA InSyncAgrees ==
  ASSUME StreamConstants, StoreOK, InSync(Registry), cursor[Registry] # None
  PROVE  /\ cursor[Registry].epoch = epoch[Registry]
         /\ Agrees(Registry, Len(cursor[Registry].chain))
         /\ Len(cursor[Registry].chain) =< Len(facts[Registry])
<1>1. PICK n \in 0 .. Len(facts[Registry]) : cursor[Registry] = IF n = 0 THEN None ELSE EventAt(Registry, n)
  BY DEF InSync
<1>2. n # 0 /\ cursor[Registry] = EventAt(Registry, n) /\ Registry \in Owners
  BY <1>1 DEF Owners
<1>3. /\ StreamOf(Registry) \in Seq(Mapped) /\ Len(StreamOf(Registry)) = Len(facts[Registry])
      /\ Len(facts[Registry]) \in Nat
  BY <1>2, StreamType
<1> DEFINE c == SubSeq(StreamOf(Registry), 1, n)
<1>4. cursor[Registry].epoch = epoch[Registry] /\ cursor[Registry].chain = c
  BY <1>2 DEF EventAt
<1>5. Len(c) = n /\ \A k \in 1 .. n : c[k] = StreamOf(Registry)[k]
  BY <1>1, <1>2, <1>3
<1> HIDE DEF c
<1> QED
  BY <1>1, <1>2, <1>3, <1>4, <1>5 DEF Agrees, Follows

\* OwnersOnlyDiverge: a replay meets no gap, rewind, broken chain or unknown
\* epoch; only the registry is refused, and its faults end with its publication.
THEOREM Divergence == Spec => []OwnersOnlyDiverge
<1>1. Init => HoldsInv /\ AgreeInv
  BY HoldsInit, AgreeInit, StreamConstants, NoneIsNoRecord
<1>2. HoldsInv /\ AgreeInv /\ [Next]_vars => (HoldsInv /\ AgreeInv)'
  BY HoldsStep, AgreeStep, StreamConstants, NoneIsNoRecord
<1>3. HoldsInv /\ AgreeInv => OwnersOnlyDiverge
  <2> SUFFICES ASSUME HoldsInv, AgreeInv PROVE OwnersOnlyDiverge
    OBVIOUS
  <2>1. \A fault \in faults : /\ fault.owner = Registry /\ fault.code = "OWNER_SEQUENCE_CONFLICT"
                              /\ cursor[Registry] # None
                              /\ cursor[Registry].epoch < epoch[Registry] \/ Diverged
    BY DEF AgreeInv, FaultsOK
  <2>2. ASSUME counts.failures = 0, AtRest(Registry), faults # {} PROVE FALSE
    <3>1. InSync(Registry)
      BY <2>2 DEF AgreeInv, SyncOK, AtRest, Idle
    <3>2. /\ cursor[Registry] # None /\ epoch[Registry] \in Nat
          /\ cursor[Registry].epoch < epoch[Registry] \/ Diverged
      BY <2>1, <2>2 DEF HoldsInv, StoreOK, Owners
    <3>3. /\ cursor[Registry].epoch = epoch[Registry]
          /\ Agrees(Registry, Len(cursor[Registry].chain)) /\ Len(cursor[Registry].chain) =< Len(facts[Registry])
      BY <3>1, <3>2, InSyncAgrees, StreamConstants DEF HoldsInv
    <3>4. ~(cursor[Registry].epoch < epoch[Registry])
      BY <3>2, <3>3
    <3>5. Diverged
      BY <3>2, <3>4
    <3> QED
      BY <3>2, <3>3, <3>5, DivergedDisagrees, StreamConstants DEF HoldsInv
  <2> QED
    BY <2>1, <2>2 DEF OwnersOnlyDiverge
<1> QED
  BY <1>1, <1>2, <1>3, PTL DEF Spec

------------------------------------------------------------------------------
(***************************************************************************)
(* What is shown of a run: the derived tables are the fold of the accepted *)
(* events, or, once rows expired, agree with it in what has not ended.     *)
(***************************************************************************)

TableRows ==
  [run : [Runs -> RunRows], process : [Ops -> {"none", "live", "clean"}], activity : [Runs -> Nat],
   timeline : SUBSET Events]

Starts(event, x) == Newest(event).subject = x /\ Newest(event).kind \in {"process.started", "process.activity"}
Cleans(event, x) == Newest(event).subject = x /\ Newest(event).kind = "process.cleaned"

\* The timeline is of the first n events.
TimelineHeld(t, s, n) == \A e \in t.timeline : \E i \in 1 .. n : e = s[i]
\* A completed run has no live process.
NoneLive(t) ==
  \A r \in Runs : t.run[r].shown = "completed" => \A x \in Ops : RunOf[x] = r => t.process[x] # "live"
\* A process that is not live was cleaned after each event that says it lives.
LiveShown(t, s, n) ==
  \A x \in Ops, i \in 1 .. n : Starts(s[i], x) /\ t.process[x] # "live" => \E j \in i + 1 .. n : Cleans(s[j], x)

TablesOK(t, s, n) == t \in TableRows /\ TimelineHeld(t, s, n) /\ NoneLive(t) /\ LiveShown(t, s, n)

LEMMA EventRows ==
  ASSUME StreamConstants, NEW e \in Events
  PROVE  Newest(e) \in Mapped /\ RunOfEvent(e) \in Runs
         /\ \A x \in Ops : Newest(e).subject = x => RunOfEvent(e) = RunOf[x]
<1>1. e.chain \in Seq(Mapped) /\ e.chain # <<>>
  BY DEF Events
<1>2. Len(e.chain) \in DOMAIN e.chain
  BY <1>1
<1>3. Newest(e) \in Mapped
  BY <1>1, <1>2 DEF Newest, Last
<1> QED
  BY <1>3 DEF Mapped, RunOfEvent, StreamConstants

\* One event more.
LEMMA ProjectKeeps ==
  ASSUME StreamConstants, NEW s, NEW n \in Nat, NEW t, TablesOK(t, s, n), NEW e \in Events, s[n + 1] = e
  PROVE  TablesOK(ProjectEvent(t, e), s, n + 1)
<1> DEFINE r == RunOfEvent(e)
           kind == Newest(e).kind
           process == ProjectProcess(t, e)
           owner == OwnerLifecycle(t.run[r], kind)
           live == \E x \in Ops : RunOf[x] = r /\ process[x] = "live"
           new == [owner |-> owner, shown |-> Shown(owner, live)]
           u == ProjectEvent(t, e)
<1>1. Newest(e) \in Mapped /\ r \in Runs /\ \A x \in Ops : Newest(e).subject = x => r = RunOf[x]
  BY EventRows
<1>2. /\ t \in TableRows /\ TimelineHeld(t, s, n) /\ NoneLive(t) /\ LiveShown(t, s, n)
      /\ t.run \in [Runs -> RunRows] /\ t.process \in [Ops -> {"none", "live", "clean"}]
      /\ t.activity \in [Runs -> Nat] /\ t.timeline \in SUBSET Events
  BY DEF TablesOK, TableRows
<1>3. /\ process \in [Ops -> {"none", "live", "clean"}]
      /\ \A x \in Ops : Newest(e).subject # x => process[x] = t.process[x]
      /\ \A x \in Ops : Starts(e, x) => process[x] = "live"
      /\ \A x \in Ops : ~Starts(e, x) /\ ~Cleans(e, x) => process[x] = t.process[x]
  BY <1>2 DEF ProjectProcess, Starts, Cleans
<1>4. owner \in {"unknown", "active", "completed"}
  <2>1. t.run[r].owner \in {"absent", "unknown", "active", "completed"}
    BY <1>1, <1>2 DEF RunRows
  <2> QED
    BY <2>1 DEF OwnerLifecycle
<1> HIDE DEF process, owner
<1>5. new \in RunRows /\ (new.shown = "completed" => ~live)
  BY <1>4 DEF Shown, RunRows
<1> HIDE DEF new
<1>6. u = [run |-> [t.run EXCEPT ![r] = new], process |-> process,
           activity |-> IF kind = "process.activity" THEN [t.activity EXCEPT ![r] = @ + 1] ELSE t.activity,
           timeline |-> IF kind = "process.activity" THEN t.timeline ELSE t.timeline \cup {e}]
  BY DEF ProjectEvent, new, process, owner
<1> HIDE DEF u, r, kind
<1>7. u \in TableRows
  <2>1. [t.run EXCEPT ![r] = new] \in [Runs -> RunRows]
    BY <1>1, <1>2, <1>5
  <2>2. [t.activity EXCEPT ![r] = @ + 1] \in [Runs -> Nat]
    BY <1>1, <1>2
  <2> QED
    BY <1>2, <1>3, <1>6, <2>1, <2>2 DEF TableRows
<1>8. TimelineHeld(u, s, n + 1)
  <2>1. \A i \in 1 .. n : i \in 1 .. n + 1
    OBVIOUS
  <2>2. n + 1 \in 1 .. n + 1
    OBVIOUS
  <2>3. u.timeline \subseteq t.timeline \cup {e}
    BY <1>6
  <2> QED
    BY <1>2, <2>1, <2>2, <2>3 DEF TimelineHeld
<1>9. NoneLive(u)
  <2> SUFFICES ASSUME NEW q \in Runs, u.run[q].shown = "completed", NEW x \in Ops, RunOf[x] = q
               PROVE  u.process[x] # "live"
    BY DEF NoneLive
  <2>1. u.process = process /\ u.run[q] = IF q = r THEN new ELSE t.run[q]
    BY <1>2, <1>6
  <2>2. CASE q = r
    BY <1>5, <2>1, <2>2
  <2>3. CASE q # r
    BY <1>1, <1>2, <1>3, <2>1, <2>3 DEF NoneLive
  <2> QED
    BY <2>2, <2>3
<1>10. LiveShown(u, s, n + 1)
  <2> SUFFICES ASSUME NEW x \in Ops, NEW i \in 1 .. n + 1, Starts(s[i], x), u.process[x] # "live"
               PROVE  \E j \in i + 1 .. n + 1 : Cleans(s[j], x)
    BY DEF LiveShown
  <2>1. process[x] # "live" /\ ~Starts(e, x)
    BY <1>3, <1>6
  <2>2. i \in 1 .. n
    BY <2>1
  <2>3. CASE Cleans(e, x)
    <3>1. n + 1 \in i + 1 .. n + 1
      BY <2>2
    <3> QED
      BY <2>3, <3>1
  <2>4. CASE ~Cleans(e, x)
    <3>1. t.process[x] # "live"
      BY <1>3, <2>1, <2>4
    <3>2. PICK j \in i + 1 .. n : Cleans(s[j], x)
      BY <1>2, <2>2, <3>1 DEF LiveShown
    <3>3. j \in i + 1 .. n + 1
      OBVIOUS
    <3> QED
      BY <3>2, <3>3
  <2> QED
    BY <2>3, <2>4
<1> QED
  BY <1>7, <1>8, <1>9, <1>10 DEF TablesOK, u

LEMMA EmptyOK ==
  ASSUME NEW s
  PROVE  TablesOK(EmptyTables, s, 0)
<1>1. EmptyTables \in TableRows
  BY DEF EmptyTables, TableRows, RunRows
<1> QED
  BY <1>1 DEF TablesOK, TimelineHeld, NoneLive, LiveShown, EmptyTables

\* The steps of a rebuild.
FoldsTo(f, s, m) ==
  f = [n \in 0 .. m |-> IF n = 0 THEN EmptyTables ELSE ProjectEvent(f[n - 1], s[n])]

LEMMA FoldExists ==
  ASSUME NEW s, NEW m \in Nat
  PROVE  \E f : FoldsTo(f, s, m)
<1> DEFINE T == {k \in Nat : ~ \E f : FoldsTo(f, s, k)}
<1> SUFFICES ASSUME T # {} PROVE FALSE
  OBVIOUS
<1>1. T \in SUBSET Nat
  OBVIOUS
<1>2. PICK k \in T : \A y \in T : k =< y
  BY <1>1, LeastNat
<1>3. k \in Nat /\ ~ \E f : FoldsTo(f, s, k)
  OBVIOUS
<1>4. CASE k = 0
  <2> DEFINE f == [n \in 0 .. 0 |-> EmptyTables]
  <2>1. f = [n \in 0 .. 0 |-> IF n = 0 THEN EmptyTables ELSE ProjectEvent(f[n - 1], s[n])]
    OBVIOUS
  <2> QED
    BY <1>3, <1>4, <2>1 DEF FoldsTo
<1>5. CASE k # 0
  <2>1. k - 1 \in Nat /\ ~(k =< k - 1)
    BY <1>3, <1>5
  <2>2. PICK f : FoldsTo(f, s, k - 1)
    BY <1>2, <2>1
  <2> DEFINE g == [n \in 0 .. k |-> IF n = k THEN ProjectEvent(f[k - 1], s[k]) ELSE f[n]]
             h == [n \in 0 .. k |-> IF n = 0 THEN EmptyTables ELSE ProjectEvent(g[n - 1], s[n])]
  <2>3. \A n \in 0 .. k - 1 : f[n] = IF n = 0 THEN EmptyTables ELSE ProjectEvent(f[n - 1], s[n])
    BY <2>2 DEF FoldsTo
  <2>4. \A n \in 0 .. k : g[n] = h[n]
    <3> SUFFICES ASSUME NEW n \in 0 .. k PROVE g[n] = h[n]
      OBVIOUS
    <3>1. CASE n = 0
      BY <1>3, <1>5, <2>3, <3>1
    <3>2. CASE n # 0
      <4>1. n - 1 \in 0 .. k /\ n - 1 # k /\ n - 1 \in 0 .. k - 1
        BY <1>3, <3>2
      <4>2. g[n - 1] = f[n - 1]
        BY <4>1
      <4>3. h[n] = ProjectEvent(f[n - 1], s[n])
        BY <3>2, <4>2
      <4>4. CASE n = k
        BY <4>3, <4>4
      <4>5. CASE n # k
        BY <1>3, <2>3, <3>2, <4>3, <4>5
      <4> QED
        BY <4>4, <4>5
    <3> QED
      BY <3>1, <3>2
  <2>5. g = h
    BY <2>4
  <2> QED
    BY <1>3, <2>5 DEF FoldsTo
<1> QED
  BY <1>4, <1>5

LEMMA RebuiltOK ==
  ASSUME StreamConstants, NEW s \in Seq(Events)
  PROVE  TablesOK(Rebuilt(s), s, Len(s))
<1> DEFINE L == Len(s)
           f == CHOOSE f : FoldsTo(f, s, L)
<1>1. L \in Nat /\ \A n \in 1 .. L : s[n] \in Events
  OBVIOUS
<1>2. FoldsTo(f, s, L)
  BY <1>1, FoldExists
<1>3. Rebuilt(s) = f[L]
  BY DEF Rebuilt, FoldsTo
<1> HIDE DEF f, L
<1>4. f[0] = EmptyTables /\ \A n \in 1 .. L : f[n] = ProjectEvent(f[n - 1], s[n])
  <2>1. \A n \in 0 .. L : f[n] = IF n = 0 THEN EmptyTables ELSE ProjectEvent(f[n - 1], s[n])
    BY <1>2 DEF FoldsTo
  <2> QED
    BY <1>1, <2>1
<1> DEFINE T == {n \in Nat : n =< L /\ ~TablesOK(f[n], s, n)}
<1>5. T = {}
  <2> SUFFICES ASSUME T # {} PROVE FALSE
    OBVIOUS
  <2>1. T \in SUBSET Nat
    OBVIOUS
  <2>2. PICK k \in T : \A y \in T : k =< y
    BY <2>1, LeastNat
  <2>3. k \in Nat /\ k =< L /\ ~TablesOK(f[k], s, k)
    OBVIOUS
  <2>4. k # 0
    BY <1>4, <2>3, EmptyOK
  <2>5. k - 1 \in Nat /\ k - 1 =< L /\ ~(k =< k - 1) /\ k \in 1 .. L /\ (k - 1) + 1 = k
    BY <1>1, <2>3, <2>4
  <2>6. TablesOK(f[k - 1], s, k - 1)
    BY <2>2, <2>5
  <2>7. TablesOK(ProjectEvent(f[k - 1], s[k]), s, (k - 1) + 1)
    BY <1>1, <2>5, <2>6, ProjectKeeps
  <2> QED
    BY <1>4, <2>3, <2>5, <2>7
<1>6. TablesOK(f[L], s, L)
  BY <1>1, <1>5
<1> QED
  BY <1>3, <1>6 DEF L

\* What expires is of runs that are completed.
LEMMA ExpiryKeeps ==
  ASSUME StreamConstants, NEW s, NEW n, NEW t, TablesOK(t, s, n)
  PROVE  TablesOK(WithoutExpired(t, s), s, n)
<1> DEFINE gone == Expired(t, s)
           u == WithoutExpired(t, s)
<1>1. gone \subseteq Runs /\ \A r \in gone : t.run[r].shown = "completed"
  BY DEF Expired
<1>2. /\ t \in TableRows /\ TimelineHeld(t, s, n) /\ NoneLive(t) /\ LiveShown(t, s, n)
      /\ t.run \in [Runs -> RunRows] /\ t.process \in [Ops -> {"none", "live", "clean"}]
      /\ t.activity \in [Runs -> Nat] /\ t.timeline \in SUBSET Events
  BY DEF TablesOK, TableRows
<1> HIDE DEF gone
<1>3. /\ u.run = [r \in Runs |-> IF r \in gone THEN [owner |-> "absent", shown |-> "absent"] ELSE t.run[r]]
      /\ u.process = [x \in Ops |-> IF RunOf[x] \in gone THEN "none" ELSE t.process[x]]
      /\ u.timeline = {e \in t.timeline : RunOfEvent(e) \notin gone} /\ u.activity = t.activity
      /\ u = [run |-> u.run, process |-> u.process, activity |-> u.activity, timeline |-> u.timeline]
  <2>1. t = [run |-> t.run, process |-> t.process, activity |-> t.activity, timeline |-> t.timeline]
    BY <1>2 DEF TableRows
  <2>2. u = [t EXCEPT !.run = [r \in Runs |-> IF r \in gone THEN [owner |-> "absent", shown |-> "absent"] ELSE t.run[r]],
                      !.process = [x \in Ops |-> IF RunOf[x] \in gone THEN "none" ELSE t.process[x]],
                      !.timeline = {e \in t.timeline : RunOfEvent(e) \notin gone}]
    BY DEF WithoutExpired, gone, u
  <2> HIDE DEF u
  <2> QED
    BY <2>1, <2>2
<1> HIDE DEF u
<1>4. u \in TableRows
  <2>1. u.run \in [Runs -> RunRows] /\ u.process \in [Ops -> {"none", "live", "clean"}]
    BY <1>2, <1>3 DEF RunRows
  <2>2. u.timeline \in SUBSET Events /\ u.activity \in [Runs -> Nat]
    BY <1>2, <1>3
  <2> QED
    BY <1>3, <2>1, <2>2 DEF TableRows
<1>5. TimelineHeld(u, s, n)
  BY <1>2, <1>3 DEF TimelineHeld
<1>6. NoneLive(u)
  BY <1>2, <1>3 DEF NoneLive
<1>7. LiveShown(u, s, n)
  <2>1. \A x \in Ops : u.process[x] # "live" => t.process[x] # "live"
    BY <1>1, <1>2, <1>3 DEF NoneLive, StreamConstants
  <2> QED
    BY <1>2, <2>1 DEF LiveShown
<1> QED
  BY <1>4, <1>5, <1>6, <1>7 DEF TablesOK, u

DerivedInv == TablesOK(derived, accepted, Len(accepted))

LEMMA DerivedStep ==
  ASSUME StreamConstants, NoneIsNoRecord, HoldsInv, DerivedInv, [Next]_vars
  PROVE  DerivedInv'
<1> USE DEF HoldsInv
<1>1. ASSUME accepted' = accepted, derived' = derived PROVE DerivedInv'
  BY <1>1 DEF DerivedInv
<1>2. CASE Accept
  <2>1. /\ Len(accepted) \in Nat /\ Len(accepted') = Len(accepted) + 1
        /\ accepted'[Len(accepted) + 1] = Offered /\ Offered \in Events
        /\ \A i \in 1 .. Len(accepted) : accepted'[i] = accepted[i]
    BY <1>2, AcceptEffect
  <2>2. derived' = ProjectEvent(derived, Offered)
    BY <1>2 DEF Accept
  <2>3. TablesOK(derived, accepted', Len(accepted))
    <3>1. \A i \in 1 .. Len(accepted) : \A j \in i + 1 .. Len(accepted) : j \in 1 .. Len(accepted)
      BY <2>1
    <3>2. /\ derived \in TableRows /\ NoneLive(derived) /\ TimelineHeld(derived, accepted, Len(accepted))
          /\ LiveShown(derived, accepted, Len(accepted))
      BY DEF DerivedInv, TablesOK
    <3>3. TimelineHeld(derived, accepted', Len(accepted))
      BY <2>1, <3>2 DEF TimelineHeld
    <3>4. LiveShown(derived, accepted', Len(accepted))
      <4> SUFFICES ASSUME NEW x \in Ops, NEW i \in 1 .. Len(accepted), Starts(accepted'[i], x), derived.process[x] # "live"
                   PROVE  \E j \in i + 1 .. Len(accepted) : Cleans(accepted'[j], x)
        BY DEF LiveShown
      <4>1. accepted'[i] = accepted[i]
        BY <2>1
      <4>2. PICK j \in i + 1 .. Len(accepted) : Cleans(accepted[j], x)
        BY <3>2, <4>1 DEF LiveShown
      <4>3. accepted'[j] = accepted[j]
        BY <2>1, <3>1
      <4> QED
        BY <4>2, <4>3
    <3> QED
      BY <3>2, <3>3, <3>4 DEF TablesOK
  <2> QED
    BY <2>1, <2>2, <2>3, ProjectKeeps DEF DerivedInv
<1>3. CASE Boot
  <2>1. accepted' = accepted /\ derived' = WithoutExpired(Rebuilt(accepted), accepted) /\ accepted \in Seq(Events)
    BY <1>3 DEF Boot, StoreOK
  <2>2. TablesOK(WithoutExpired(Rebuilt(accepted), accepted), accepted, Len(accepted))
    BY <2>1, RebuiltOK, ExpiryKeeps
  <2> QED
    BY <2>1, <2>2 DEF DerivedInv
<1>4. CASE LoseProjection
  <2>1. accepted' = <<>> /\ derived' = EmptyTables /\ Len(<<>>) = 0
    BY <1>4 DEF LoseProjection
  <2> QED
    BY <2>1, EmptyOK DEF DerivedInv
<1>5. CASE \E o \in Owners, f \in Facts : Record(o, f)
  BY <1>1, <1>5 DEF Record, modelVars
<1>6. CASE \E o \in Owners : Link(o)
  BY <1>1, <1>6 DEF Link
<1>7. CASE Duplicate \/ Reject \/ StoreFails \/ Crash \/ Stop \/ Age \/ UNCHANGED vars
  BY <1>1, <1>7 DEF Duplicate, Reject, StoreFails, Crash, Stop, Ended, Age, modelVars, vars
<1> QED
  BY <1>2, <1>3, <1>4, <1>5, <1>6, <1>7 DEF Next

\* The other tables, what is heard, and the bounds.
RestInv ==
  /\ faults \subseteq [owner : Owners, epoch : Nat \ {0}, code : FaultCodes]
  /\ available \subseteq configured /\ configured \subseteq Owners
  /\ lifecycle \in {"stopped", "current", "degraded"} /\ heard \subseteq Ops
  /\ unmarked \in BOOLEAN
  /\ counts.records =< MaxRecords /\ counts.crashes =< MaxCrashes
  /\ counts.losses =< MaxLosses /\ counts.failures =< MaxFailures

LEMMA Counted ==
  ASSUME StreamConstants, CountsType, RestInv
  PROVE  /\ Count("records", MaxRecords) \/ Count("crashes", MaxCrashes) \/ Count("losses", MaxLosses)
              \/ Count("failures", MaxFailures) \/ counts' = counts
            => /\ counts'.records =< MaxRecords /\ counts'.crashes =< MaxCrashes
               /\ counts'.losses =< MaxLosses /\ counts'.failures =< MaxFailures
BY DEF Count, CountsType, RestInv, StreamConstants

LEMMA RestStep ==
  ASSUME StreamConstants, NoneIsNoRecord, HoldsInv, RestInv, [Next]_vars
  PROVE  RestInv'
<1> USE DEF HoldsInv
<1> DEFINE Within == /\ counts'.records =< MaxRecords /\ counts'.crashes =< MaxCrashes
                     /\ counts'.losses =< MaxLosses /\ counts'.failures =< MaxFailures
<1>0. \A f, c, a : Lifecycle(f, c, a) \in {"current", "degraded"}
  BY DEF Lifecycle
<1>1. ASSUME NEW o \in Owners, NEW f \in Facts, Record(o, f) PROVE RestInv'
  <2>1. Within
    BY <1>1, Counted DEF Record, StoreOK
  <2>2. f \in Recordable(o) /\ heard' = (IF f.kind = "started" THEN heard \cup {f.subject} ELSE heard) /\ UNCHANGED modelVars
    BY <1>1 DEF Record
  <2>3. f.kind = "started" => f.subject \in Ops
    <3>1. CASE o = Registry
      BY <2>2, <3>1 DEF Recordable
    <3>2. CASE o # Registry
      <4>1. f.kind \in NextOfRun(o, f.subject)
        BY <2>2, <3>2 DEF Recordable
      <4> QED
        BY <4>1 DEF NextOfRun
    <3> QED
      BY <3>1, <3>2
  <2> QED
    BY <2>1, <2>2, <2>3 DEF RestInv, modelVars
<1>2. ASSUME NEW o \in Owners, Link(o) PROVE RestInv'
  BY <1>0, <1>2 DEF Link, RestInv
<1>3. ASSUME Accept PROVE RestInv'
  <2>1. publishing.owner \in Owners
    BY <1>3, OfferedType DEF Accept
  <2>2. faults' \subseteq faults
    BY <1>3 DEF Accept, FaultsAfter
  <2>3. /\ configured' = configured \cup {publishing.owner} /\ available' = available \cup {publishing.owner}
        /\ heard' = heard
        /\ lifecycle' \in {lifecycle, Lifecycle(faults', configured', available')} /\ unmarked' \in {FALSE, unmarked}
    BY <1>3 DEF Accept
  <2>4. Within
    BY <1>3, Counted DEF Accept, StoreOK
  <2> QED
    BY <1>0, <2>1, <2>2, <2>3, <2>4 DEF RestInv
<1>4. ASSUME StoresFault PROVE faults' \subseteq [owner : Owners, epoch : Nat \ {0}, code : FaultCodes]
  <2>1. /\ publishing # None /\ Offered.owner \in Owners /\ Offered.epoch \in Nat \ {0}
        /\ Verdict(Offered) \in FaultCodes
    BY <1>4, OfferedType DEF StoresFault, StoreOK
  <2> QED
    BY <1>4, <2>1 DEF StoresFault, RestInv
<1>10. CASE Reject
  <2>1. Within
    BY <1>10, Counted DEF Reject, StoreOK
  <2>2. /\ UNCHANGED <<configured, available, heard>>
        /\ lifecycle' \in {lifecycle, "degraded"} /\ unmarked' \in BOOLEAN
    BY <1>10 DEF Reject
  <2>3. faults' \subseteq [owner : Owners, epoch : Nat \ {0}, code : FaultCodes]
    BY <1>4, <1>10 DEF Reject
  <2> QED
    BY <2>1, <2>2, <2>3 DEF RestInv
<1>5. CASE StoreFails
  <2>1. Within
    BY <1>5, Counted DEF StoreFails, StoreOK
  <2> QED
    BY <1>5, <2>1 DEF StoreFails, RestInv, modelVars
<1>6. CASE Boot
  BY <1>0, <1>6 DEF Boot, RestInv
<1>7. CASE Crash \/ Stop
  <2>1. Within
    BY <1>7, Counted DEF Crash, Stop, Ended, StoreOK
  <2>2. faults' \subseteq [owner : Owners, epoch : Nat \ {0}, code : FaultCodes]
    BY <1>4, <1>7 DEF Crash, Stop, RestInv
  <2> QED
    BY <1>7, <2>1, <2>2 DEF Crash, Stop, Ended, RestInv
<1>8. CASE LoseProjection
  <2>1. Within
    BY <1>8, Counted DEF LoseProjection, StoreOK
  <2> QED
    BY <1>8, <2>1 DEF LoseProjection, RestInv
<1>9. CASE Duplicate \/ Age \/ UNCHANGED vars
  BY <1>9 DEF Duplicate, Age, RestInv, modelVars, vars
<1> QED
  BY <1>1, <1>2, <1>3, <1>5, <1>6, <1>7, <1>8, <1>9, <1>10 DEF Next

ShownInv == HoldsInv /\ DerivedInv /\ RestInv

LEMMA ShownInit == StreamConstants /\ NoneIsNoRecord /\ Init => ShownInv
<1> SUFFICES ASSUME StreamConstants, NoneIsNoRecord, Init PROVE ShownInv
  OBVIOUS
<1>1. accepted = <<>> /\ derived = EmptyTables /\ Len(<<>>) = 0
  BY DEF Init
<1>2. DerivedInv
  BY <1>1, EmptyOK DEF DerivedInv
<1>4. unmarked \in BOOLEAN
  BY DEF Init
<1>3. RestInv
  BY <1>4, SMTT(20) DEF Init, RestInv, StreamConstants
<1> QED
  BY <1>2, <1>3, HoldsInit DEF ShownInv

LEMMA ShownStep ==
  ASSUME StreamConstants, NoneIsNoRecord, ShownInv, [Next]_vars
  PROVE  ShownInv'
BY HoldsStep, DerivedStep, RestStep DEF ShownInv

\* TypeOK: the stores of the owners and of the read model have the shape of their
\* tables, the cursors and the timeline are of accepted events, through rebuilds,
\* expiry, crashes and losses.
THEOREM StreamTypes == Spec => []TypeOK
<1>1. Init => ShownInv
  BY ShownInit, StreamConstants, NoneIsNoRecord
<1>2. ShownInv /\ [Next]_vars => ShownInv'
  BY ShownStep, StreamConstants, NoneIsNoRecord
<1>3. ShownInv => TypeOK
  <2> SUFFICES ASSUME ShownInv PROVE TypeOK
    OBVIOUS
  <2>1. /\ facts \in [Owners -> Seq(Facts)] /\ pruned \subseteq Ops /\ epoch \in [Owners -> Nat \ {0}]
        /\ accepted \in Seq(Events) /\ cursor \in [Owners -> Events \cup {None}]
        /\ up \in BOOLEAN /\ linked \subseteq Owners /\ now \in Times
    BY DEF ShownInv, HoldsInv, StoreOK
  <2>2. ToSet(accepted) = {accepted[i] : i \in 1 .. Len(accepted)} /\ DOMAIN accepted = 1 .. Len(accepted)
    BY <2>1 DEF ToSet
  <2>3. cursor \in [Owners -> ToSet(accepted) \cup {None}]
    <3>1. \A o \in Owners : cursor[o] # None => \E j \in 1 .. Len(accepted) : accepted[j] = cursor[o]
      BY DEF ShownInv, HoldsInv, AcceptedOK, HeldOK
    <3> QED
      BY <2>1, <2>2, <3>1
  <2>4. /\ derived.run \in [Runs -> RunRows] /\ derived.activity \in [Runs -> Nat]
        /\ derived.process \in [Ops -> {"none", "live", "clean"}]
        /\ derived.timeline \subseteq ToSet(accepted)
    <3>1. derived \in TableRows /\ TimelineHeld(derived, accepted, Len(accepted))
      BY DEF ShownInv, DerivedInv, TablesOK
    <3> QED
      BY <2>2, <3>1 DEF TableRows, TimelineHeld
  <2>5. publishing = None \/ publishing \in [owner : linked, next : Nat \ {0}, retry : BOOLEAN]
    BY DEF ShownInv, HoldsInv, OnStack, Publications
  <2>6. \A i \in DOMAIN accepted : accepted[i] \in Events
    BY <2>1
  <2> QED
    BY <2>1, <2>3, <2>4, <2>5, <2>6 DEF TypeOK, ShownInv, RestInv
<1> QED
  BY <1>1, <1>2, <1>3, PTL DEF Spec

\* Events are accepted in the order of their epochs and numbers, and only the
\* registry tells of processes.
OrderOK ==
  /\ \A a, b \in 1 .. Len(accepted) : a < b /\ accepted[a].owner = accepted[b].owner =>
       /\ accepted[a].epoch =< accepted[b].epoch
       /\ accepted[a].epoch = accepted[b].epoch => Len(accepted[a].chain) < Len(accepted[b].chain)
  /\ \A a \in 1 .. Len(accepted) : accepted[a].owner # Registry => Newest(accepted[a]).kind \in RunKinds

LEMMA OrderStep ==
  ASSUME StreamConstants, NoneIsNoRecord, HoldsInv, OrderOK, [Next]_vars
  PROVE  OrderOK'
<1> USE DEF HoldsInv
<1>1. ASSUME accepted' = accepted PROVE OrderOK'
  BY <1>1 DEF OrderOK
<1>2. ASSUME NEW o, NEW n, o = publishing.owner, n = publishing.next, Accept PROVE OrderOK'
  <2> DEFINE L == Len(accepted)
             e == Offered
  <2>1. /\ o \in Owners /\ n \in Nat /\ n >= 1 /\ n =< Len(facts[o])
        /\ L \in Nat /\ Len(accepted') = L + 1 /\ accepted'[L + 1] = e
        /\ \A i \in 1 .. L : accepted'[i] = accepted[i] /\ accepted[i] \in Events
        /\ e \in Events /\ e.owner = o /\ e.epoch = epoch[o] /\ e.chain \in Seq(Mapped) /\ Len(e.chain) = n
        /\ \A k \in 1 .. n : e.chain[k] = StreamOf(o)[k]
        /\ Verdict(e) = "accepted" /\ epoch[o] \in Nat
    BY <1>2, AcceptEffect DEF StoreOK
  <2>2. HeldOK(o)
    BY <2>1 DEF AcceptedOK
  <2>3. ASSUME NEW a \in 1 .. L, accepted[a].owner = o
        PROVE  accepted[a].epoch =< e.epoch /\ (accepted[a].epoch = e.epoch => Len(accepted[a].chain) < Len(e.chain))
    <3>1. /\ cursor[o] # None /\ accepted[a].epoch =< cursor[o].epoch /\ cursor[o].epoch =< epoch[o]
          /\ accepted[a].epoch = cursor[o].epoch => Len(accepted[a].chain) =< Len(cursor[o].chain)
      BY <2>2, <2>3 DEF HeldOK
    <3>2. accepted[a].epoch \in Nat /\ cursor[o] \in Events /\ cursor[o].epoch \in Nat
      <4>1. cursor[o] \in Events
        BY <2>1, <3>1 DEF StoreOK
      <4> QED
        BY <2>1, <4>1 DEF Events
    <3>3. cursor[o].epoch = e.epoch => Len(e.chain) = Len(cursor[o].chain) + 1
      <4> SUFFICES ASSUME cursor[o].epoch = e.epoch PROVE Len(e.chain) = Len(cursor[o].chain) + 1
        OBVIOUS
      <4>1. Held(e) = {}
        BY <2>1 DEF Verdict
      <4>2. ~(n < Len(cursor[o].chain) + 1) /\ ~(n > Len(cursor[o].chain) + 1)
        BY <2>1, <3>1, <4>1 DEF Verdict, Sequence
      <4>3. Len(cursor[o].chain) \in Nat
        BY <3>2 DEF Events
      <4>4. n \in Nat /\ Len(e.chain) = n
        BY <2>1
      <4> HIDE DEF e
      <4> QED
        BY <4>2, <4>3, <4>4
    <3>4. Len(cursor[o].chain) \in Nat /\ Len(accepted[a].chain) \in Nat
      BY <2>1, <3>2 DEF Events
    <3> QED
      BY <2>1, <3>1, <3>2, <3>3, <3>4
  <2>4. e.owner # Registry => Newest(e).kind \in RunKinds
    <3> SUFFICES ASSUME o # Registry PROVE Newest(e).kind \in RunKinds
      BY <2>1
    <3>1. facts[o] \in Seq(RunFacts)
      BY <2>1 DEF StoreOK, Owners
    <3>2. Newest(e) = StreamOf(o)[n]
      BY <2>1 DEF Newest, Last
    <3>3. facts[o][n] \in RunFacts /\ n \in DOMAIN facts[o]
      BY <2>1, <3>1
    <3>4. StreamOf(o)[n].kind = EventKind(facts[o][n].kind)
      BY <3>3 DEF StreamOf
    <3> QED
      BY <3>2, <3>3, <3>4 DEF RunFacts, EventKind, RunKinds
  <2> HIDE DEF e, L
  <2>5. /\ \A a, b \in 1 .. L : a < b /\ accepted[a].owner = accepted[b].owner =>
             /\ accepted[a].epoch =< accepted[b].epoch
             /\ accepted[a].epoch = accepted[b].epoch => Len(accepted[a].chain) < Len(accepted[b].chain)
        /\ \A a \in 1 .. L : accepted[a].owner # Registry => Newest(accepted[a]).kind \in RunKinds
    BY DEF OrderOK, L
  <2>6. ASSUME NEW a \in 1 .. L + 1, NEW b \in 1 .. L + 1, a < b, accepted'[a].owner = accepted'[b].owner
        PROVE  /\ accepted'[a].epoch =< accepted'[b].epoch
               /\ accepted'[a].epoch = accepted'[b].epoch => Len(accepted'[a].chain) < Len(accepted'[b].chain)
    <3>1. a \in 1 .. L /\ accepted'[a] = accepted[a]
      BY <2>1, <2>6
    <3>2. CASE b = L + 1
      BY <2>1, <2>3, <2>6, <3>1, <3>2
    <3>3. CASE b # L + 1
      <4>1. b \in 1 .. L /\ accepted'[b] = accepted[b]
        BY <2>1, <3>3
      <4> QED
        BY <2>5, <2>6, <3>1, <4>1
    <3> QED
      BY <3>2, <3>3
  <2>7. \A a \in 1 .. L + 1 : accepted'[a].owner # Registry => Newest(accepted'[a]).kind \in RunKinds
    <3> TAKE a \in 1 .. L + 1
    <3>1. CASE a = L + 1
      BY <2>1, <2>4, <3>1
    <3>2. CASE a # L + 1
      BY <2>1, <2>5, <3>2
    <3> QED
      BY <3>1, <3>2
  <2> QED
    BY <2>1, <2>6, <2>7 DEF OrderOK, Newest
<1>3. CASE LoseProjection
  <2>1. accepted' = <<>> /\ Len(<<>>) = 0
    BY <1>3 DEF LoseProjection
  <2> QED
    BY <2>1 DEF OrderOK
<1>4. CASE \E o \in Owners, f \in Facts : Record(o, f)
  BY <1>1, <1>4 DEF Record, modelVars
<1>5. CASE \E o \in Owners : Link(o)
  BY <1>1, <1>5 DEF Link
<1>6. CASE Duplicate \/ Reject \/ StoreFails \/ Boot \/ Crash \/ Stop \/ Age \/ UNCHANGED vars
  BY <1>1, <1>6 DEF Duplicate, Reject, StoreFails, Boot, Crash, Stop, Ended, Age, modelVars, vars
<1> QED
  BY <1>2, <1>3, <1>4, <1>5, <1>6 DEF Next

\* CompletedHasNoProcess: what the read model shows as completed has no process
\* that runs by the last word of the registry, though rows expire, the registry
\* prunes and recovers, and the derived tables are rebuilt.
THEOREM CompletedAreIdle == Spec => []CompletedHasNoProcess
<1> DEFINE Inv == HoldsInv /\ AgreeInv /\ DerivedInv /\ OrderOK
<1>1. Init => Inv
  <2>1. Init => OrderOK
    <3>1. Init => accepted = <<>> /\ Len(<<>>) = 0
      BY DEF Init
    <3> QED
      BY <3>1 DEF OrderOK
  <2> QED
    BY <2>1, ShownInit, AgreeInit, StreamConstants, NoneIsNoRecord DEF ShownInv
<1>2. Inv /\ [Next]_vars => Inv'
  BY HoldsStep, AgreeStep, DerivedStep, OrderStep, StreamConstants, NoneIsNoRecord
<1>3. Inv => CompletedHasNoProcess
  <2> SUFFICES ASSUME Inv, Idle, Registry \in linked, counts.failures = 0, NEW r \in Runs,
                      derived.run[r].shown = "completed", NEW i \in DOMAIN facts[Registry],
                      RunOf[facts[Registry][i].subject] = r, facts[Registry][i].kind \in {"started", "activity"}
               PROVE  \E j \in i + 1 .. Len(facts[Registry]) :
                        facts[Registry][j].subject = facts[Registry][i].subject
                          /\ facts[Registry][j].kind \in {"activity", "cleaned"}
    BY DEF CompletedHasNoProcess
  <2> DEFINE F == facts[Registry]
             N == Len(F)
             x == F[i].subject
  <2>1. F \in Seq(OpFacts) /\ N \in Nat /\ i \in 1 .. N /\ F[i] \in OpFacts /\ x \in Ops /\ Registry \in Owners
    <3>1. F \in Seq(OpFacts) /\ Registry \in Owners
      BY DEF HoldsInv, StoreOK, Owners
    <3> HIDE DEF F
    <3>2. N \in Nat /\ DOMAIN F = 1 .. N /\ \A k \in 1 .. N : F[k] \in OpFacts
      BY <3>1
    <3>3. i \in DOMAIN F
      BY DEF F
    <3> QED
      BY <3>1, <3>2, <3>3 DEF OpFacts
  <2>2. cursor[Registry] = EventAt(Registry, N)
    <3>1. InSync(Registry)
      BY DEF AgreeInv, SyncOK, Idle
    <3>2. \A f : ~Unpublished(Registry, f)
      BY StreamConstants DEF Unpublished, StreamConstants
    <3>3. PICK n \in 0 .. N : /\ cursor[Registry] = IF n = 0 THEN None ELSE EventAt(Registry, n)
                              /\ \A k \in n + 1 .. N : Unpublished(Registry, F[k])
      BY <3>1 DEF InSync
    <3>4. n = N
      BY <2>1, <3>2, <3>3
    <3> QED
      BY <2>1, <3>3, <3>4
  <2>3. /\ cursor[Registry] \in Events /\ cursor[Registry] # None
        /\ cursor[Registry].chain \in Seq(Mapped) /\ Len(cursor[Registry].chain) = N
        /\ \A k \in 1 .. N : cursor[Registry].chain[k] = StreamOf(Registry)[k]
    <3>1. N \in 1 .. Len(facts[Registry])
      BY <2>1
    <3> QED
      BY <2>1, <2>2, <3>1, EventAtType, StreamConstants, NoneIsNoRecord DEF HoldsInv, NoneIsNoRecord
  <2>4. \A k \in 1 .. N : StreamOf(Registry)[k].subject = F[k].subject /\ StreamOf(Registry)[k].kind = EventKind(F[k].kind)
    BY <2>1 DEF StreamOf
  <2>5. ASSUME NEW a \in 1 .. Len(accepted), accepted[a].owner = Registry, accepted[a].epoch = cursor[Registry].epoch
        PROVE  /\ Len(accepted[a].chain) \in 1 .. N
               /\ Newest(accepted[a]).subject = F[Len(accepted[a].chain)].subject
               /\ Newest(accepted[a]).kind = EventKind(F[Len(accepted[a].chain)].kind)
    <3>1. accepted[a].chain \in Seq(Mapped) /\ accepted[a].chain # <<>>
      <4>1. accepted[a] \in Events
        BY DEF HoldsInv, StoreOK
      <4> QED
        BY <4>1 DEF Events
    <3>2. /\ Len(accepted[a].chain) =< N
          /\ \A k \in 1 .. Len(accepted[a].chain) : accepted[a].chain[k] = cursor[Registry].chain[k]
      BY <2>1, <2>3, <2>5 DEF HoldsInv, AcceptedOK, HeldOK
    <3>3. Len(accepted[a].chain) \in 1 .. N
      BY <2>1, <3>1, <3>2
    <3>4. Newest(accepted[a]) = StreamOf(Registry)[Len(accepted[a].chain)]
      BY <2>3, <3>2, <3>3 DEF Newest, Last
    <3> QED
      BY <2>4, <3>3, <3>4
  <2>6. PICK p \in 1 .. Len(accepted) : /\ accepted[p].owner = Registry /\ accepted[p].epoch = cursor[Registry].epoch
                                        /\ Len(accepted[p].chain) = i
    BY <2>1, <2>3 DEF HoldsInv, AcceptedOK, HeldOK
  <2>7. Starts(accepted[p], x)
    BY <2>5, <2>6 DEF Starts, EventKind
  <2>8. derived.process[x] # "live"
    BY <2>1 DEF DerivedInv, TablesOK, NoneLive
  <2>9. PICK q \in p + 1 .. Len(accepted) : Cleans(accepted[q], x)
    BY <2>1, <2>7, <2>8 DEF DerivedInv, TablesOK, LiveShown
  <2>10. q \in 1 .. Len(accepted) /\ p < q
    BY DEF HoldsInv, StoreOK
  <2>11. accepted[q].owner = Registry
    BY <2>9, <2>10 DEF OrderOK, Cleans, RunKinds
  <2>12. accepted[q].epoch = cursor[Registry].epoch /\ Len(accepted[q].chain) > i
    <3>1. accepted[q].epoch =< cursor[Registry].epoch
      BY <2>1, <2>3, <2>10, <2>11 DEF HoldsInv, AcceptedOK, HeldOK
    <3>2. /\ accepted[p].epoch =< accepted[q].epoch
          /\ accepted[p].epoch = accepted[q].epoch => Len(accepted[p].chain) < Len(accepted[q].chain)
      BY <2>6, <2>10, <2>11 DEF OrderOK
    <3>3. accepted[q].epoch \in Nat /\ cursor[Registry].epoch \in Nat /\ Len(accepted[q].chain) \in Nat
      <4>1. accepted[q] \in Events
        BY <2>10 DEF HoldsInv, StoreOK
      <4> QED
        BY <2>3, <4>1 DEF Events
    <3> QED
      BY <2>1, <2>6, <3>1, <3>2, <3>3
  <2> DEFINE j == Len(accepted[q].chain)
  <2>13. j \in i + 1 .. N /\ F[j] \in OpFacts /\ F[j].subject = x /\ EventKind(F[j].kind) = "process.cleaned"
    <3>1. j \in 1 .. N /\ F[j].subject = x /\ EventKind(F[j].kind) = "process.cleaned"
      BY <2>5, <2>9, <2>10, <2>11, <2>12 DEF Cleans
    <3> QED
      BY <2>1, <2>12, <3>1
  <2>14. F[j].kind = "cleaned"
    BY <2>13 DEF OpFacts, RegistryKinds, EventKind
  <2> QED
    BY <2>13, <2>14
<1> QED
  BY <1>1, <1>2, <1>3, PTL DEF Spec
=============================================================================
