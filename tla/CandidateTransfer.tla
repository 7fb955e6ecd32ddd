-------------------------- MODULE CandidateTransfer --------------------------
(***************************************************************************)
(* The way of the objects of one run: its private repository is seeded     *)
(* from the user's (private-git-seeder.ts), the producer commits into it,  *)
(* the candidate is sealed (candidate-sealer.ts) and its objects imported  *)
(* under a quarantine ref of the user's repository                         *)
(* (candidate-importer.ts).  Each is a sequence of git commands, and both  *)
(* repositories may move between two of them: the user commits, and what   *)
(* is left of the producer writes until the seal has read everything.      *)
(*                                                                         *)
(* Commits are given with their ancestors and trees.  A seed bundles HEAD, *)
(* not the base it has checked, so that a commit the user makes in between *)
(* comes into the private repository as well; an import that refuses the   *)
(* state after its update of the ref leaves the ref.                       *)
(***************************************************************************)
EXTENDS Naturals, FiniteSets

CONSTANTS
  Commits, Base,    \* Base is the commit the run was approved for
  Ancestors,        \* of each commit, itself among them
  TreeOf,           \* of each commit
  Merges,           \* the commits with two parents
  Permitted,        \* the trees the mutation policy allows
  UserCommits       \* what the user's HEAD may become

CommitsAreGiven ==
  /\ Base \in Commits
  /\ Ancestors \in [Commits \union UserCommits -> SUBSET (Commits \union UserCommits)]

VARIABLES
  source,       \* [head, objects, ref, touched]: the user's repository
  private,      \* [head, objects, dirty]: the run's
  step,         \* the command that is next
  seen,         \* what the commands of this stage have read
  sealed,       \* the candidate: [commit, tree], or NoCandidate
  outcome       \* of each stage

vars == <<source, private, step, seen, sealed, outcome>>

NoCommit == "none"
NoCandidate == [commit |-> NoCommit, tree |-> NoCommit]
Nothing == [head |-> NoCommit, tree |-> NoCommit, clean |-> FALSE, pending |-> {}, before |-> NoCommit]

Init ==
  /\ source \in [head : {Base}, objects : {Ancestors[Base]}, ref : {NoCommit}, touched : BOOLEAN]
  /\ private = [head |-> NoCommit, objects |-> {}, dirty |-> FALSE]
  /\ step = "seed-head" /\ seen = Nothing /\ sealed = NoCandidate
  /\ outcome = [seed |-> "none", seal |-> "none", import |-> "none"]

Finish(stage, code) == outcome' = [outcome EXCEPT ![stage] = code] /\ seen' = Nothing
Refuse(stage) == step' = "over" /\ Finish(stage, "refused")

---------------------------------------------------------------------------
(* What moves while the commands run.                                      *)

\* The user commits, or touches a file of the work tree.
UserMoves ==
  /\ step # "over"
  /\ \/ \E c \in UserCommits :
          source' = [source EXCEPT !.head = c, !.objects = @ \union Ancestors[c]]
     \/ source' = [source EXCEPT !.touched = ~@]
  /\ UNCHANGED <<private, step, seen, sealed, outcome>>

\* The producer writes while it runs, and what is left of it until the seal
\* has taken what it reads.
ProducerWrites ==
  /\ step \in {"produce", "seal"}
  /\ \/ \E c \in Commits :
          /\ Cardinality(Ancestors[c] \ private.objects) <= 1
          /\ private' = [private EXCEPT !.head = c, !.objects = @ \union Ancestors[c], !.dirty = FALSE]
     \/ private' = [private EXCEPT !.dirty = TRUE]
  /\ UNCHANGED <<source, step, seen, sealed, outcome>>

---------------------------------------------------------------------------
(* Seed.                                                                   *)

SeedHead ==
  /\ step = "seed-head"
  /\ IF source.head = Base THEN step' = "seed-tree" /\ UNCHANGED <<seen, outcome>> ELSE Refuse("seed")
  /\ UNCHANGED <<source, private, sealed>>

SeedTree ==
  /\ step = "seed-tree"
  /\ IF TreeOf[source.head] = TreeOf[Base] THEN step' = "seed-bundle" /\ UNCHANGED <<seen, outcome>> ELSE Refuse("seed")
  /\ UNCHANGED <<source, private, sealed>>

\* HEAD is bundled, whatever it is by now.
SeedBundle ==
  /\ step = "seed-bundle" /\ step' = "seed-private"
  /\ seen' = [seen EXCEPT !.head = source.head]
  /\ UNCHANGED <<source, private, sealed, outcome>>

\* init, fetch, update-ref, reset: the base must be among what was fetched.
SeedPrivate ==
  /\ step = "seed-private"
  /\ IF Base \in Ancestors[seen.head]
       THEN private' = [private EXCEPT !.objects = Ancestors[seen.head], !.head = Base] /\ step' = "seed-verify" /\ UNCHANGED <<seen, outcome>>
       ELSE private' = [private EXCEPT !.objects = Ancestors[seen.head]] /\ Refuse("seed")
  /\ UNCHANGED <<source, sealed>>

\* verify: the private HEAD and tree, its only branch, its own object store.
SeedVerify ==
  /\ step = "seed-verify"
  /\ IF private.head = Base THEN step' = "produce" /\ Finish("seed", "ok") ELSE Refuse("seed")
  /\ UNCHANGED <<source, private, sealed>>

---------------------------------------------------------------------------
(* Seal.                                                                   *)

SealBegins ==
  /\ step = "produce" /\ step' = "seal"
  /\ seen' = [Nothing EXCEPT !.pending = {"head", "tree", "status"}]
  /\ UNCHANGED <<source, private, sealed, outcome>>

\* The commands run side by side: each reads HEAD, its tree or the status when
\* it gets to it.
SealReads(what) ==
  /\ step = "seal" /\ what \in seen.pending
  /\ seen' = [CASE what = "head" -> [seen EXCEPT !.head = private.head]
                [] what = "tree" -> [seen EXCEPT !.tree = TreeOf[private.head]]
                [] what = "status" -> [seen EXCEPT !.clean = ~private.dirty]
              EXCEPT !.pending = @ \ {what}]
  /\ UNCHANGED <<source, private, step, sealed, outcome>>

NoChange(c, t) == c = Base \/ t = TreeOf[Base]
LawfulHistory(c) == Base \in Ancestors[c] /\ Merges \intersect (Ancestors[c] \ Ancestors[Base]) = {}

\* (mutant: the history is not looked at)
AcceptableAlone(c, t) == seen.clean /\ ~NoChange(c, t) /\ TreeOf[c] \in Permitted

\* verifyTree looks at the tree of the commit, not at the tree that was read.
Acceptable(c, t) == seen.clean /\ ~NoChange(c, t) /\ LawfulHistory(c) /\ TreeOf[c] \in Permitted

Sealed ==
  /\ step = "seal" /\ seen.pending = {}
  /\ IF Acceptable(seen.head, seen.tree)
       THEN step' = "import" /\ Finish("seal", "ok") /\ sealed' = [commit |-> seen.head, tree |-> seen.tree]
       ELSE Refuse("seal") /\ UNCHANGED sealed
  /\ UNCHANGED <<source, private>>

---------------------------------------------------------------------------
(* Import.                                                                 *)

\* The first snapshot: HEAD is where it was expected, the ref is not there.
ImportSnapshot ==
  /\ step = "import"
  /\ IF source.head = Base /\ source.ref = NoCommit
       THEN step' = "import-fetch" /\ seen' = [Nothing EXCEPT !.head = source.head, !.clean = ~source.touched] /\ UNCHANGED outcome
       ELSE Refuse("import")
  /\ UNCHANGED <<source, private, sealed>>

\* The private ref is bundled without the base's ancestors, and fetched.
ImportFetch ==
  /\ step = "import-fetch" /\ step' = "import-verify"
  /\ source' = [source EXCEPT !.objects = @ \union Ancestors[private.head]]
  /\ UNCHANGED <<private, seen, sealed, outcome>>

\* (mutant: the candidate's tree is taken from the seal)
SameCandidateByName == sealed.commit \in source.objects

\* verifyObjects: the commit, its tree and its base, read in the source.
SameCandidate ==
  /\ sealed.commit \in source.objects /\ TreeOf[sealed.commit] = sealed.tree
  /\ Base \in Ancestors[sealed.commit]

ImportVerify ==
  /\ step = "import-verify"
  /\ IF SameCandidate THEN step' = "import-ref" /\ UNCHANGED <<seen, outcome>> ELSE Refuse("import")
  /\ UNCHANGED <<source, private, sealed>>

\* update-ref from absence, and the bundle is no longer needed.
ImportRef ==
  /\ step = "import-ref" /\ source.ref = NoCommit
  /\ source' = [source EXCEPT !.ref = sealed.commit]
  /\ step' = "import-after"
  /\ UNCHANGED <<private, seen, sealed, outcome>>

\* The second snapshot is the first one with the ref. A refusal here leaves the
\* ref where it is.
SameSnapshot == source.head = seen.head /\ source.touched = ~seen.clean

ImportAfter ==
  /\ step = "import-after"
  /\ IF SameSnapshot THEN step' = "over" /\ Finish("import", "ok") ELSE Refuse("import")
  /\ UNCHANGED <<source, private, sealed>>

Next ==
  \/ UserMoves \/ ProducerWrites
  \/ SeedHead \/ SeedTree \/ SeedBundle \/ SeedPrivate \/ SeedVerify
  \/ SealBegins \/ Sealed \/ \E what \in {"head", "tree", "status"} : SealReads(what)
  \/ ImportSnapshot \/ ImportFetch \/ ImportVerify \/ ImportRef \/ ImportAfter

Spec == Init /\ [][Next]_vars

---------------------------------------------------------------------------

TypeOK ==
  /\ source.head \in Commits \union UserCommits /\ source.ref \in Commits \union {NoCommit}
  /\ private.head \in Commits \union {NoCommit}
  /\ step \in {"seed-head", "seed-tree", "seed-bundle", "seed-private", "seed-verify", "produce", "seal",
               "import", "import-fetch", "import-verify", "import-ref", "import-after", "over"}

\* What the quarantine ref names is the commit that was sealed, has the tree
\* that was sealed, changes something, descends from the base without a merge
\* and keeps to the policy: though the seal reads its HEAD and its tree apart
\* (seal, candidate-sealer.ts:28; verifyObjects, candidate-importer.ts:75).
QuarantinedIsSealed ==
  source.ref # NoCommit =>
    /\ source.ref = sealed.commit /\ source.ref \in source.objects
    /\ TreeOf[source.ref] = sealed.tree /\ TreeOf[source.ref] \in Permitted
    /\ LawfulHistory(source.ref) /\ ~NoChange(source.ref, TreeOf[source.ref])
=============================================================================
