---------------------------- MODULE MergePromise ----------------------------
(***************************************************************************)
(* What the governed merge promises its human about every accepted merge,  *)
(* with none of the steps that get there: the outcome the ledger reports   *)
(* against what really happened to the destination ref.  A merge reported  *)
(* merged did land; one reported not merged is not in the ref and will not *)
(* land any more, unless its update-ref child was lost sight of; and a     *)
(* report may only ever be withdrawn into "unknown".                       *)
(***************************************************************************)
CONSTANT Merges

VARIABLES
    outcome,       \* merge -> what the ledger says of it
    landed,        \* the merges whose commit the ref has pointed to
    contained,     \* the merges the destination ref contains now
    loose          \* the merges whose update-ref child was lost sight of

vars == <<outcome, landed, contained, loose>>

Outcome == {"none", "open", "merged", "notMerged", "unknown"}

Init == /\ outcome = [m \in Merges |-> "none"]
        /\ landed = {}
        /\ contained = {}
        /\ loose = {}

Accept(m) == /\ outcome[m] = "none"
             /\ outcome' = [outcome EXCEPT ![m] = "open"]
             /\ UNCHANGED <<landed, contained, loose>>

\* The one ref update; a merge that is not open lands only when it is loose.
Land(m) == /\ outcome[m] # "none"
           /\ outcome[m] \in {"merged", "notMerged"} => m \in loose
           /\ m \notin contained
           /\ contained' = contained \cup {m}
           /\ landed' = landed \cup {m}
           /\ UNCHANGED <<outcome, loose>>

Report(m, answer) ==
    /\ \/ outcome[m] = "open" /\ answer = "unknown"
       \/ outcome[m] = "open" /\ answer = "merged" /\ m \in landed
       \/ /\ outcome[m] = "open"
          /\ answer = "notMerged"
          /\ m \in contained => m \in loose
       \/ outcome[m] \in {"merged", "notMerged"} /\ answer = "unknown"
    /\ outcome' = [outcome EXCEPT ![m] = answer]
    /\ UNCHANGED <<landed, contained, loose>>

LoseTrack(S) == /\ \A m \in S : outcome[m] \in {"open", "unknown"}
                /\ loose' = loose \cup S
                /\ UNCHANGED <<outcome, landed, contained>>

\* The owner of the repository sets the branch back to its base.
Rewind == /\ contained' = {}
          /\ UNCHANGED <<outcome, landed, loose>>

Next == \/ \E m \in Merges : Accept(m) \/ Land(m)
        \/ \E S \in SUBSET Merges : LoseTrack(S)
        \/ \E m \in Merges, answer \in Outcome : Report(m, answer)
        \/ Rewind

Spec == Init /\ [][Next]_vars
=============================================================================
