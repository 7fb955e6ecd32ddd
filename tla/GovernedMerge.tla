---------------------------- MODULE GovernedMerge ----------------------------
(***************************************************************************)
(* The governed merge: the human's challenge and authorization and the     *)
(* durable intent (merge-authorization-registry.ts), the currentness read  *)
(* behind them (verdict-merge-service.ts, verdict-projection-authority.ts),*)
(* and the native git executor with its recovery                           *)
(* (native-git-merge-service.ts).                                          *)
(*                                                                         *)
(* All challenges are of one task; a challenge asks for one merge, the     *)
(* tuple of destination, subject and task revision, and every merge wants  *)
(* to move the same branch from the same base.  A call is a pair of the    *)
(* request and where it awaits; several may be under way.  Time is the     *)
(* moment each record lapses.  Sessions, digests and roles that do not     *)
(* match are a call that ends without effect.                              *)
(***************************************************************************)
EXTENDS Naturals, FiniteSets

CONSTANTS
    Merges,          \* the tuples that can be merged
    Challenges,      \* the challenges the human may be shown
    Asks(_),         \* the merge a challenge asks for
    FreshProjection, \* every read of the verdict is a new explanation
    MaxCrashes,      \* bound: how often the backend dies
    MaxDrifts,       \* bound: how often mode or verdict change
    MaxMoves         \* bound: how often the owner moves the branch

ASSUME MergeAssumption == /\ \A c \in Challenges : Asks(c) \in Merges
                          /\ FreshProjection \in BOOLEAN
                          /\ MaxCrashes \in Nat
                          /\ MaxDrifts \in Nat
                          /\ MaxMoves \in Nat
ASSUME BranchAssumption == "base" \notin Merges /\ "other" \notin Merges

VARIABLES
    backend,       \* "up" or "down"
    mode,          \* the task's mode allows merge-controlled
    current,       \* Ranex says pass and current for the stored query
    drifts,
    lapsed,        \* the challenges whose time is over
    authLapsed,    \* the challenges whose authorization's time is over
    challenge,     \* challenge -> its latest event
    authorization, \* challenge -> the latest event of its authorization
    answer,        \* challenge -> the last refusal of its creation
    calls,         \* requests that await something
    state,         \* merge -> its latest durable event
    oid,           \* the merges whose commit an event names
    exec,          \* merge -> what its executor believes the state to be
    checked,       \* the merges whose executor re-read the verdict at cas-ready
    child,         \* merge -> its update-ref process
    recovery,      \* merge -> where its recovery stands
    ref,           \* the destination branch
    moves,
    residual,      \* the merges whose child the registry calls a possible residual
    crashes,
    landed, contained, strays   \* history: what happened to the branch

human == <<lapsed, authLapsed, challenge, authorization, answer, calls>>
world == <<mode, current, drifts>>
branch == <<ref, moves, residual, landed, contained, strays>>
vars == <<backend, mode, current, drifts, lapsed, authLapsed, challenge,
          authorization, answer, calls, state, oid, exec, checked, child,
          recovery, ref, moves, residual, crashes, landed, contained, strays>>

Lifecycle == {"preflight-pending", "preflighting", "constructing",
              "cas-ready", "cas-started", "post-verifying", "committed",
              "cleaning", "completed", "refused", "recovery-required",
              "quarantined"}
Terminal == {"completed", "refused", "quarantined"}
\* Mutant: a failure during the swap counts as one before it.
AfterCasLate == {"post-verifying", "committed", "cleaning"}
AfterCas == {"cas-started", "post-verifying", "committed", "cleaning"}
Idle == [at |-> "none", from |-> "none", seen |-> "none"]

Init ==
    /\ backend = "up" /\ mode = TRUE /\ current = TRUE /\ drifts = 0
    /\ lapsed = {} /\ authLapsed = {} /\ calls = {}
    /\ challenge = [c \in Challenges |-> "none"]
    /\ authorization = [c \in Challenges |-> "none"]
    /\ answer = [c \in Challenges |-> "none"]
    /\ state = [m \in Merges |-> "missing"]
    /\ exec = [m \in Merges |-> "idle"]
    /\ child = [m \in Merges |-> "none"]
    /\ recovery = [m \in Merges |-> Idle]
    /\ oid = {} /\ checked = {} /\ ref = "base" /\ moves = 0 /\ crashes = 0
    /\ residual = {} /\ landed = {} /\ contained = {} /\ strays = {}
------------------------------------------------------------------------------
(* The human's three requests.  Each looks at the rows, awaits the mode     *)
(* authority, awaits the verdict, and commits in one transaction that does  *)
(* not look at the rows again: only the UNIQUE columns still refuse.        *)

Call(k, c, at) == [kind |-> k, of |-> c, at |-> at]
Moved(call, at) == (calls \ {call}) \cup {[call EXCEPT !.at = at]}

\* currentAuthorizationBinding: the projection read again must have the very
\* digest of the stored explanation.
BindingCurrent == current /\ ~FreshProjection

\* What each request requires of the stored rows when it arrives.
Asked(k, c) == CASE k = "challenge" -> challenge[c] = "none"
                 [] k = "authorize" -> challenge[c] = "created"
                 [] k = "execute"   -> authorization[c] = "authorized"

Request(k, c) ==
    /\ backend = "up"
    /\ Asked(k, c)
    /\ k = "execute" => c \notin authLapsed
    /\ \A call \in calls : ~(call.kind = k /\ call.of = c)
    /\ calls' = calls \cup {Call(k, c, "mode")}
    /\ UNCHANGED <<backend, world, lapsed, authLapsed, challenge,
                   authorization, answer, state, oid, exec, checked, child,
                   recovery, branch, crashes>>

\* An authorization asked for too late is expired before anything is awaited.
ExecuteExpired(c) ==
    /\ backend = "up"
    /\ Asked("execute", c)
    /\ c \in authLapsed
    /\ authorization' = [authorization EXCEPT ![c] = "expired"]
    /\ UNCHANGED <<backend, world, lapsed, authLapsed, challenge, answer,
                   calls, state, oid, exec, checked, child, recovery, branch,
                   crashes>>

\* The mode authority allows; only then does authorize look at the clock.
ModeAllows(call) ==
    /\ call.at = "mode"
    /\ mode
    /\ ~(call.kind = "authorize" /\ call.of \in lapsed)
    /\ calls' = Moved(call, "binding")
    /\ UNCHANGED <<backend, world, lapsed, authLapsed, challenge,
                   authorization, answer, state, oid, exec, checked, child,
                   recovery, branch, crashes>>

AuthorizeExpired(call) ==
    /\ call.at = "mode"
    /\ call.kind = "authorize"
    /\ mode
    /\ call.of \in lapsed
    /\ challenge' = [challenge EXCEPT ![call.of] = "expired"]
    /\ calls' = calls \ {call}
    /\ UNCHANGED <<backend, world, lapsed, authLapsed, authorization, answer,
                   state, oid, exec, checked, child, recovery, branch,
                   crashes>>

BindingRead(call) ==
    /\ call.at = "binding"
    /\ BindingCurrent
    /\ calls' = Moved(call, "commit")
    /\ UNCHANGED <<backend, world, lapsed, authLapsed, challenge,
                   authorization, answer, state, oid, exec, checked, child,
                   recovery, branch, crashes>>

BindingRefused(call) ==
    /\ call.at = "binding"
    /\ ~BindingCurrent
    /\ answer' = IF call.kind = "challenge"
                 THEN [answer EXCEPT ![call.of] = "VERDICT_UNKNOWN"]
                 ELSE answer
    /\ calls' = calls \ {call}
    /\ UNCHANGED <<backend, world, lapsed, authLapsed, challenge,
                   authorization, state, oid, exec, checked, child, recovery,
                   branch, crashes>>

\* A call that is refused for its mode or its actor leaves no trace.
CallRefused(call) ==
    /\ call.at = "mode"
    /\ calls' = calls \ {call}
    /\ UNCHANGED <<backend, world, lapsed, authLapsed, challenge,
                   authorization, answer, state, oid, exec, checked, child,
                   recovery, branch, crashes>>

CreateChallenge(call) ==
    /\ call.at = "commit"
    /\ call.kind = "challenge"
    /\ challenge' = [challenge EXCEPT ![call.of] = "created"]
    /\ answer' = [answer EXCEPT ![call.of] = "none"]
    /\ calls' = calls \ {call}
    /\ UNCHANGED <<backend, world, lapsed, authLapsed, authorization, state,
                   oid, exec, checked, child, recovery, branch, crashes>>

\* Every other open challenge of the task is revoked; challenge_id is UNIQUE
\* in authorizations.
Authorize(call) ==
    /\ call.at = "commit"
    /\ call.kind = "authorize"
    /\ calls' = calls \ {call}
    /\ IF authorization[call.of] = "none"
       THEN /\ challenge' = [c \in Challenges |->
                  CASE c = call.of -> "authorized"
                    [] challenge[c] = "created" /\ c # call.of -> "revoked"
                    [] OTHER -> challenge[c]]
            /\ authorization' = [authorization EXCEPT ![call.of] = "authorized"]
            /\ authLapsed' = IF call.of \in lapsed
                             THEN authLapsed \cup {call.of} ELSE authLapsed
       ELSE UNCHANGED <<challenge, authorization, authLapsed>>
    /\ UNCHANGED <<backend, world, lapsed, answer, state, oid, exec, checked,
                   child, recovery, branch, crashes>>

\* createIntent commits and the controller starts the executor.  One intent
\* per authorization and per tuple, for ever.
CreateIntent(call) ==
    LET m == Asks(call.of) IN
    /\ call.at = "commit"
    /\ call.kind = "execute"
    /\ calls' = calls \ {call}
    /\ IF state[m] = "missing"
       THEN /\ authorization' = [authorization EXCEPT ![call.of] = "consumed"]
            /\ state' = [state EXCEPT ![m] = "preflight-pending"]
            /\ exec' = [exec EXCEPT ![m] = "starting"]
       ELSE UNCHANGED <<authorization, state, exec>>
    /\ UNCHANGED <<backend, world, lapsed, authLapsed, challenge, answer, oid,
                   checked, child, recovery, branch, crashes>>

\* The client repeats its request; the replayed answer starts it again.
StartAgain(m) ==
    /\ backend = "up"
    /\ exec[m] = "idle"
    /\ state[m] = "preflight-pending"
    /\ exec' = [exec EXCEPT ![m] = "starting"]
    /\ UNCHANGED <<backend, world, human, state, oid, checked, child,
                   recovery, branch, crashes>>
------------------------------------------------------------------------------
(* The executor.  It keeps the state it believes in and appends an event    *)
(* only while the ledger still says the same (transitionMerge).             *)

NotAdmitted(m) ==
    /\ exec[m] = "starting"
    /\ exec' = [exec EXCEPT ![m] = "idle"]
    /\ UNCHANGED <<backend, world, human, state, oid, checked, child,
                   recovery, branch, crashes>>

\* startOperation: no merge is admitted while a residual is unresolved.
Admitted(m) ==
    /\ exec[m] = "starting"
    /\ residual = {}
    /\ exec' = [exec EXCEPT ![m] = "preflight-pending"]
    /\ UNCHANGED <<backend, world, human, state, oid, checked, child,
                   recovery, branch, crashes>>

\* transitionMerge inside execute.
Advance(m, from, to) ==
    /\ exec[m] = from
    /\ state[m] = from
    /\ state' = [state EXCEPT ![m] = to]
    /\ exec' = [exec EXCEPT ![m] = to]

Preflight(m) ==
    /\ Advance(m, "preflight-pending", "preflighting")
    /\ UNCHANGED <<backend, world, human, oid, checked, child, recovery,
                   branch, crashes>>

PreflightPasses(m) ==
    /\ Advance(m, "preflighting", "constructing")
    /\ mode /\ BindingCurrent
    /\ ref = "base"
    /\ UNCHANGED <<backend, world, human, oid, checked, child, recovery,
                   branch, crashes>>

Construct(m) ==
    /\ Advance(m, "constructing", "cas-ready")
    /\ oid' = oid \cup {m}
    /\ UNCHANGED <<backend, world, human, checked, child, recovery, branch,
                   crashes>>

CheckAgain(m) ==
    /\ exec[m] = "cas-ready"
    /\ m \notin checked
    /\ mode /\ BindingCurrent
    /\ checked' = checked \cup {m}
    /\ UNCHANGED <<backend, world, human, state, oid, exec, child, recovery,
                   branch, crashes>>

\* The branch is read once more, the event appended, update-ref spawned and
\* its pid given to the operation registry.
StartCas(m) ==
    /\ m \in checked
    /\ ref = "base"
    /\ Advance(m, "cas-ready", "cas-started")
    /\ checked' = checked \ {m}
    /\ child' = [child EXCEPT ![m] = "running"]
    /\ UNCHANGED <<backend, world, human, oid, recovery, branch, crashes>>

\* update-ref compares and swaps; killed or not, until it is gone.
UpdateRef(m) ==
    /\ child[m] \in {"running", "killed", "orphan"}
    /\ IF ref = "base"
       THEN /\ ref' = m
            /\ landed' = landed \cup {m}
            /\ contained' = contained \cup {m}
            /\ child' = [child EXCEPT ![m] = IF @ = "running" THEN "done"
                                             ELSE "none"]
       ELSE /\ child' = [child EXCEPT ![m] = IF @ = "running" THEN "failed"
                                             ELSE "none"]
            /\ UNCHANGED <<ref, landed, contained>>
    /\ UNCHANGED <<backend, world, human, state, oid, exec, checked, recovery,
                   moves, residual, strays, crashes>>

ChildGone(m) ==
    /\ child[m] \in {"killed", "orphan"}
    /\ child' = [child EXCEPT ![m] = "none"]
    /\ UNCHANGED <<backend, world, human, state, oid, exec, checked, recovery,
                   branch, crashes>>

CasDone(m) ==
    /\ child[m] = "done"
    /\ Advance(m, "cas-started", "post-verifying")
    /\ child' = [child EXCEPT ![m] = "none"]
    /\ UNCHANGED <<backend, world, human, oid, checked, recovery, branch,
                   crashes>>

\* The branch still points to the commit: committed and cleaning at once.
PostVerify(m) ==
    /\ exec[m] = "post-verifying"
    /\ state[m] = "post-verifying"
    /\ ref = m
    /\ state' = [state EXCEPT ![m] = "cleaning"]
    /\ exec' = [exec EXCEPT ![m] = "cleaning"]
    /\ UNCHANGED <<backend, world, human, oid, checked, child, recovery,
                   branch, crashes>>

Complete(m) ==
    /\ exec[m] = "cleaning"
    /\ state[m] = "cleaning"
    /\ state' = [state EXCEPT ![m] = "completed"]
    /\ exec' = [exec EXCEPT ![m] = "idle"]
    /\ UNCHANGED <<backend, world, human, oid, checked, child, recovery,
                   branch, crashes>>

\* Mutant: the executor gives up and leaves its child running.
FailsLeavingChild(m) ==
    /\ exec[m] \notin {"idle", "starting"}
    /\ state' = [state EXCEPT ![m] = IF exec[m] \in AfterCas
                                     THEN "recovery-required" ELSE "refused"]
    /\ exec' = [exec EXCEPT ![m] = "idle"]
    /\ checked' = checked \ {m}
    /\ UNCHANGED <<backend, world, human, oid, child, recovery, branch,
                   crashes>>

\* Any step may fail: a guard above, a git process, its timeout, a ledger
\* that says something else.  A running child is killed, not awaited.
Fails(m) ==
    LET terminal == IF exec[m] \in AfterCas THEN "recovery-required"
                    ELSE "refused" IN
    /\ exec[m] \notin {"idle", "starting"}
    /\ state' = IF state[m] = exec[m] THEN [state EXCEPT ![m] = terminal]
                ELSE state
    /\ exec' = [exec EXCEPT ![m] = "idle"]
    /\ checked' = checked \ {m}
    /\ child' = [child EXCEPT ![m] = IF @ = "running" THEN "killed"
                                     ELSE IF @ \in {"done", "failed"}
                                          THEN "none" ELSE @]
    /\ UNCHANGED <<backend, world, human, oid, recovery, branch, crashes>>
------------------------------------------------------------------------------
(* Crash, restart and recovery.                                             *)

Stop == /\ backend' = "down"
        /\ crashes' = crashes + 1
        /\ calls' = {} /\ checked' = {}
        /\ exec' = [m \in Merges |-> "idle"]
        /\ recovery' = [m \in Merges |-> Idle]
        /\ UNCHANGED <<world, lapsed, authLapsed, challenge, authorization,
                       answer, oid, ref, moves, residual, landed,
                       contained>>

Crash ==
    /\ backend = "up"
    /\ crashes < MaxCrashes
    /\ strays' = strays \cup {m \in Merges : child[m] = "killed"}
    /\ Stop
    /\ UNCHANGED <<state, child>>

\* It dies between the spawn of update-ref and the commit of its pid.
CrashAtSpawn(m) ==
    /\ crashes < MaxCrashes
    /\ m \in checked
    /\ ref = "base"
    /\ exec[m] = "cas-ready" /\ state[m] = "cas-ready"
    /\ state' = [state EXCEPT ![m] = "cas-started"]
    /\ child' = [child EXCEPT ![m] = "orphan"]
    /\ strays' = strays \cup {m} \cup {n \in Merges : child[n] = "killed"}
    /\ Stop

\* The operation registry ends the children its ledger names.  One whose
\* birth token it cannot compare, or which survives its signals, it leaves
\* running and marks a possible residual.
EndChildren(left) ==
    /\ child' = [m \in Merges |->
          CASE m \in left -> "orphan"
            [] child[m] \in {"killed", "orphan"} -> child[m]
            [] OTHER -> "none"]
    /\ residual' = residual \cup left
    /\ strays' = strays \cup left

Left == SUBSET {m \in Merges : child[m] = "running"}

\* Mutant: merges that were never accepted are taken up too.
RestartAll ==
    /\ backend = "down"
    /\ backend' = "up"
    /\ \E left \in Left : EndChildren(left)
    /\ recovery' = [m \in Merges |->
          [at |-> "queued", from |-> state[m], seen |-> "none"]]
    /\ UNCHANGED <<world, human, state, oid, exec, checked, ref, moves, landed,
                   contained, crashes>>

\* Then every merge that is not settled waits for its recovery, whatever is
\* left running: "recovery" operations are admitted beside a residual.
Restart ==
    /\ backend = "down"
    /\ backend' = "up"
    /\ \E left \in Left : EndChildren(left)
    /\ recovery' = [m \in Merges |->
          IF state[m] \in Terminal \cup {"missing"} THEN Idle
          ELSE [at |-> "queued", from |-> state[m], seen |-> "none"]]
    /\ UNCHANGED <<world, human, state, oid, exec, checked, ref, moves, landed,
                   contained, crashes>>

\* The registry admits no recovery operation: onStart ends there.
RecoveryStops ==
    /\ \E m \in Merges : recovery[m].at = "queued"
    /\ \A m \in Merges : recovery[m].at \in {"none", "queued"}
    /\ recovery' = [m \in Merges |-> Idle]
    /\ UNCHANGED <<backend, world, human, state, oid, exec, checked, child,
                   branch, crashes>>

\* One at a time: the branch is read ...
RecoverRead(m) ==
    /\ recovery[m].at = "queued"
    /\ \A n \in Merges : recovery[n].at \in {"none", "queued"}
    /\ recovery' = [recovery EXCEPT ![m].at = "read", ![m].seen = ref]
    /\ UNCHANGED <<backend, world, human, state, oid, exec, checked, child,
                   branch, crashes>>

\* Mutant: a merge that did not commit is put back to be tried again.
RecoverDecideRetries(m) ==
    /\ recovery[m].at = "read"
    /\ state[m] = recovery[m].from
    /\ state' = [state EXCEPT ![m] = IF recovery[m].seen = "base"
                                     THEN "preflight-pending" ELSE "cleaning"]
    /\ recovery' = [recovery EXCEPT ![m].at = "cleaning"]
    /\ UNCHANGED <<backend, world, human, oid, exec, checked, child, branch,
                   crashes>>

\* ... and what was read decides, if the ledger still says what it said.
RecoverDecide(m) ==
    /\ recovery[m].at = "read"
    /\ state[m] = recovery[m].from
    /\ \/ /\ recovery[m].seen = "base"
          /\ state' = [state EXCEPT ![m] = "refused"]
       \/ /\ recovery[m].seen = m
          /\ m \in oid
          /\ state' = [state EXCEPT ![m] = "cleaning"]
    /\ recovery' = [recovery EXCEPT ![m].at = "cleaning"]
    /\ UNCHANGED <<backend, world, human, oid, exec, checked, child, branch,
                   crashes>>

RecoverDone(m) ==
    /\ recovery[m].at = "cleaning"
    /\ state[m] \in {"refused", "cleaning"}
    /\ state' = [state EXCEPT ![m] = IF @ = "cleaning" THEN "completed" ELSE @]
    /\ recovery' = [recovery EXCEPT ![m] = Idle]
    /\ UNCHANGED <<backend, world, human, oid, exec, checked, child, branch,
                   crashes>>

\* Anything else quarantines, from whatever state the ledger is in by then.
RecoverFails(m) ==
    /\ recovery[m].at \in {"queued", "read", "cleaning"}
    /\ recovery[m].at = "queued" =>
          \A n \in Merges : recovery[n].at \in {"none", "queued"}
    /\ state' = [state EXCEPT ![m] = "quarantined"]
    /\ recovery' = [recovery EXCEPT ![m] = Idle]
    /\ UNCHANGED <<backend, world, human, oid, exec, checked, child, branch,
                   crashes>>
------------------------------------------------------------------------------
(* The world around: mode and verdict change, time passes, and the owner    *)
(* works in the repository.                                                 *)

Drift ==
    /\ drifts < MaxDrifts
    /\ drifts' = drifts + 1
    /\ \/ mode' = ~mode /\ UNCHANGED current
       \/ current' = ~current /\ UNCHANGED mode
    /\ UNCHANGED <<backend, human, state, oid, exec, checked, child, recovery,
                   branch, crashes>>

\* An authorization never outlives its challenge.
Lapse(c) ==
    /\ \/ /\ challenge[c] # "none"
          /\ c \notin lapsed
          /\ lapsed' = lapsed \cup {c}
          /\ authLapsed' = IF authorization[c] = "none" THEN authLapsed
                           ELSE authLapsed \cup {c}
       \/ /\ authorization[c] # "none"
          /\ c \notin authLapsed
          /\ authLapsed' = authLapsed \cup {c}
          /\ UNCHANGED lapsed
    /\ UNCHANGED <<backend, world, challenge, authorization, answer, calls,
                   state, oid, exec, checked, child, recovery, branch,
                   crashes>>

OwnerMoves(to) ==
    /\ moves < MaxMoves
    /\ to # ref
    /\ moves' = moves + 1
    /\ ref' = to
    /\ contained' = IF to = "base" THEN {} ELSE contained
    /\ UNCHANGED <<backend, world, human, state, oid, exec, checked, child,
                   recovery, residual, landed, strays, crashes>>

HumanNext ==
    \/ \E c \in Challenges, k \in {"challenge", "authorize", "execute"} :
          Request(k, c)
    \/ \E c \in Challenges : ExecuteExpired(c) \/ Lapse(c)
    \/ \E call \in calls :
          \/ ModeAllows(call) \/ AuthorizeExpired(call) \/ BindingRead(call)
          \/ BindingRefused(call) \/ CallRefused(call)
          \/ CreateChallenge(call) \/ Authorize(call) \/ CreateIntent(call)

MergeNext == \E m \in Merges :
    \/ StartAgain(m) \/ NotAdmitted(m) \/ Admitted(m) \/ Preflight(m)
    \/ PreflightPasses(m) \/ Construct(m) \/ CheckAgain(m) \/ StartCas(m)
    \/ UpdateRef(m) \/ ChildGone(m) \/ CasDone(m) \/ PostVerify(m)
    \/ Complete(m) \/ Fails(m) \/ CrashAtSpawn(m)
    \/ RecoverRead(m) \/ RecoverDecide(m) \/ RecoverDone(m) \/ RecoverFails(m)

Next == HumanNext \/ MergeNext \/ Crash \/ Restart \/ RecoveryStops \/ Drift
        \/ \E to \in {"base", "other"} : OwnerMoves(to)

Spec == Init /\ [][Next]_vars
------------------------------------------------------------------------------
CallKinds == {"challenge", "authorize", "execute"}

\* The types of all variables; the sets tie history to what happened: what
\* the branch contains has landed, and the branch points to a landed merge.
TypeOK ==
    /\ backend \in {"up", "down"}
    /\ mode \in BOOLEAN /\ current \in BOOLEAN
    /\ drifts \in Nat /\ moves \in Nat /\ crashes \in Nat
    /\ lapsed \subseteq Challenges /\ authLapsed \subseteq Challenges
    /\ challenge \in [Challenges -> {"none", "created", "authorized",
                                     "expired", "revoked"}]
    /\ authorization \in [Challenges -> {"none", "authorized", "consumed",
                                         "expired"}]
    /\ answer \in [Challenges -> {"none", "VERDICT_UNKNOWN"}]
    /\ calls \subseteq [kind : CallKinds, of : Challenges,
                        at : {"mode", "binding", "commit"}]
    /\ state \in [Merges -> Lifecycle \cup {"missing"}]
    /\ exec \in [Merges -> Lifecycle \cup {"idle", "starting"}]
    /\ child \in [Merges -> {"none", "running", "done", "failed", "killed",
                             "orphan"}]
    /\ recovery \in [Merges ->
          [at : {"none", "queued", "read", "cleaning"},
           from : Lifecycle \cup {"none"},
           seen : Merges \cup {"none", "base", "other"}]]
    /\ oid \subseteq Merges /\ checked \subseteq Merges
    /\ landed \subseteq Merges /\ contained \subseteq landed
    /\ strays \subseteq Merges /\ residual \subseteq strays
    /\ ref \in Merges \cup {"base", "other"}
    /\ ref \in Merges => ref \in contained
    /\ ref = "base" => contained = {}

\* While the backend runs, a child that the ledger calls running is awaited
\* by its executor (git, execute), and recovery does not decide on the base it
\* read while one runs; and as long as a child that recovery could not end is
\* unresolved, no executor works on the branch beside it (recover, admission).
UpdateHasExecutor == backend = "up" =>
    /\ \A m \in Merges : child[m] = "running" =>
        /\ exec[m] = "cas-started"
        /\ recovery[m].at \in {"read", "cleaning"} =>
              state[m] # recovery[m].from \/ recovery[m].seen # "base"
    /\ residual # {} => \A m \in Merges : exec[m] \in {"idle", "starting"}

\* A merge moves the branch at most once, whatever is retried, recovered,
\* rewound by the owner or authorized again (createIntent's tuple_digest,
\* pendingIntent, transitionMerge).
LandsOnce == [][\A m \in Merges : m \in landed /\ m \in contained' =>
                    m \in contained]_vars

\* The ledger keeps the promise of MergePromise to the human: "completed" is
\* said only of a merge that landed, "refused" only of one the branch does
\* not contain and will not get, unless its child was lost sight of: spawned
\* and not recorded, killed and not awaited, or left a possible residual.
Outcome(s) ==
    CASE s = "missing" -> "none"
      [] s = "completed" -> "merged"
      [] s = "refused" -> "notMerged"
      [] s = "quarantined" -> "unknown"
      [] OTHER -> "open"
Promise == INSTANCE MergePromise
    WITH outcome <- [m \in Merges |-> Outcome(state[m])], loose <- strays
KeepsPromise == Promise!Spec

-----------------------------------------------------------------------------
(* Stated by the documents or the comments, and not so; no run keeps these.*)

\* A verdict that passed and was current all along is never answered with
\* VERDICT_UNKNOWN when its challenge is asked for (currentAuthorizationBinding).
\* The backend binds a projection that is new with every read: with
\* FreshProjection every challenge is refused.
CurrentPassIsOffered ==
    \A c \in Challenges : drifts = 0 => answer[c] # "VERDICT_UNKNOWN"

\* A refused merge never lands (recover: "not-committed").  Recovery reads the
\* branch without asking for the children that were lost sight of: one of them
\* still swaps a branch that recovery found at its base.
RefusedNeverLands == [][\A m \in Merges : state[m] = "refused" /\ m \in landed'
                            => m \in landed]_vars

\* A settled merge is never settled otherwise; recover's catch quarantines one
\* that another call has settled meanwhile.
SettledIsFinal == [][\A m \in Merges : state[m] \in Terminal =>
                         state'[m] = state[m]]_vars

\* A revoked challenge is never authorized; authorize looks at it before two
\* awaits and not again.
RevokedIsFinal == [][\A c \in Challenges : challenge[c] = "revoked" =>
                         challenge'[c] # "authorized"]_vars
=============================================================================
