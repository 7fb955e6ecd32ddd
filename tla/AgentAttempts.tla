---------------------------- MODULE AgentAttempts ----------------------------
(***************************************************************************)
(* The attempts of the agent registry (agent-registry.ts) from their       *)
(* admission to their settlement, with the session of the fixture adapter  *)
(* and its host process (fixture-adapter.ts), the credential lease         *)
(* (credential-lease-authority.ts) and the recovery at start.              *)
(*                                                                         *)
(* startAttempt, runSession and the one settlement of a live attempt are   *)
(* three asynchronous calls over the same row; none of them compares the   *)
(* row's state before it writes it.  Every read again of task, mode and    *)
(* workspace between two stages is the stage's chance to fail.             *)
(***************************************************************************)
EXTENDS Naturals, FiniteSets

CONSTANTS
    Attempts,
    NoAttempt,
    ParentOf(_),   \* the parent an attempt is requested under, or NoAttempt
    Says(_),       \* the kinds of observation the host of an attempt may send
    MaxCrashes     \* bound: how often the backend dies

ASSUME AttemptAssumption ==
    /\ NoAttempt \notin Attempts
    /\ \A a \in Attempts : ParentOf(a) \in Attempts \cup {NoAttempt}
    /\ MaxCrashes \in Nat

VARIABLES
    backend,       \* "up" or "down"
    admission,     \* "enabled" or "blocked", in memory only
    state,         \* attempt -> attempts.state
    stage,         \* attempt -> what startAttempt awaits
    attached,      \* the attempts in attempt_children
    owned,         \* the attempts with owned_resource_count = 1
    live,          \* the attempts in the registry's live map
    cancelled,     \* the live attempts marked cancelled
    settle,        \* attempt -> where its settlement stands
    run,           \* attempt -> where runSession stands
    timer,         \* the live attempts with a deadline armed
    todo,          \* attempt -> the children its settlement has not visited
    waits,         \* attempt -> the child its settlement waits for
    residual,      \* the live attempts whose cleanup left something behind
    lease,         \* attempt -> its credential lease
    host,          \* attempt -> its adapter host process
    piped,         \* the attempts whose host's output is not read to its end
    tracked,       \* the attempts with a process row that is not cleaned
    ops,           \* admission of the operation registry
    crashes

start == <<stage, attached, owned>>
joins == <<todo, waits, residual>>
settlement == <<live, cancelled, settle, timer, joins>>
process == <<host, piped, tracked, ops>>
vars == <<backend, admission, state, stage, attached, owned, live, cancelled,
          settle, run, timer, todo, waits, residual, lease, host, piped,
          tracked, ops, crashes>>

Terminal == {"cleaned", "cleanup_failed", "recovered_terminal",
             "unverified_residual"}
Settling == Terminal \cup {"completed_observed", "failed_observed",
                           "cancelling", "timed_out", "cleaning"}
AttemptState == Settling \cup {"absent", "requested", "adapter_resolved",
                               "registered", "starting", "ready", "active"}
Stages == {"idle", "preparing", "operation", "register", "start", "failing"}
Settlement == {"none", "children", "grace", "stopping", "joining", "cleanup",
               "dispose", "release", "finalize", "broken"}
Children(a) == {c \in attached : ParentOf(c) = a}

Init ==
    /\ backend = "up" /\ admission = "enabled" /\ crashes = 0
    /\ state = [a \in Attempts |-> "absent"]
    /\ stage = [a \in Attempts |-> "idle"]
    /\ settle = [a \in Attempts |-> "none"]
    /\ run = [a \in Attempts |-> "none"]
    /\ lease = [a \in Attempts |-> "none"]
    /\ host = [a \in Attempts |-> "none"]
    /\ attached = {} /\ owned = {} /\ live = {} /\ cancelled = {}
    /\ timer = {} /\ piped = {} /\ tracked = {} /\ ops = "enabled"
    /\ todo = [a \in Attempts |-> {}] /\ residual = {}
    /\ waits = [a \in Attempts |-> NoAttempt]
------------------------------------------------------------------------------
(* startAttempt.                                                            *)

\* requireChild: only a parent at work may have a child.
MayParent(a) ==
    ParentOf(a) \in Attempts =>
        state[ParentOf(a)] \in {"starting", "ready", "active"}

\* Admission and the parent's row are read here and never again.
Ask(a) ==
    /\ backend = "up" /\ admission = "enabled"
    /\ state[a] = "absent"
    /\ ParentOf(a) \in Attempts => state[ParentOf(a)] # "absent"
    /\ IF MayParent(a)
       THEN /\ state' = [state EXCEPT ![a] = "requested"]
            /\ stage' = [stage EXCEPT ![a] = "preparing"]
       ELSE /\ state' = [state EXCEPT ![a] = "cleaned"]
            /\ UNCHANGED stage
    /\ UNCHANGED <<backend, admission, attached, owned, settlement, run, lease,
                   process, crashes>>

\* The task is read again and the workspace prepared; then the attempt is
\* admitted, attached to its parent and its adapter resolved.
Admit(a) ==
    /\ stage[a] = "preparing"
    /\ state' = [state EXCEPT ![a] = "adapter_resolved"]
    /\ stage' = [stage EXCEPT ![a] = "operation"]
    /\ attached' = IF ParentOf(a) \in Attempts THEN attached \cup {a}
                   ELSE attached
    /\ UNCHANGED <<backend, admission, owned, settlement, run, lease, process,
                   crashes>>

\* The operation registry admits none over a process it could not end.
StartOperation(a) ==
    /\ stage[a] = "operation"
    /\ ops = "enabled"
    /\ stage' = [stage EXCEPT ![a] = "register"]
    /\ UNCHANGED <<backend, admission, state, attached, owned, settlement, run,
                   lease, process, crashes>>

\* The lease is issued, and the session created and registered.
RegisterResource(a) ==
    /\ stage[a] = "register"
    /\ stage' = [stage EXCEPT ![a] = "start"]
    /\ owned' = owned \cup {a}
    /\ lease' = [lease EXCEPT ![a] = "issued"]
    /\ state' = [state EXCEPT ![a] = "registered"]
    /\ UNCHANGED <<backend, admission, attached, settlement, run, process,
                   crashes>>

GoLive(a) ==
    /\ stage[a] = "start"
    /\ stage' = [stage EXCEPT ![a] = "idle"]
    /\ live' = live \cup {a}
    /\ timer' = timer \cup {a}
    /\ state' = [state EXCEPT ![a] = "starting"]
    /\ run' = [run EXCEPT ![a] = "checking"]
    /\ UNCHANGED <<backend, admission, attached, owned, cancelled, settle,
                   joins, lease, process, crashes>>

\* Any stage may throw; session, lease and operation are released first.
StartFails(a) ==
    /\ stage[a] \notin {"idle", "failing"}
    /\ stage' = [stage EXCEPT ![a] = "failing"]
    /\ lease' = [lease EXCEPT ![a] = IF @ = "none" THEN @ ELSE "disposed"]
    /\ owned' = owned \ {a}
    /\ UNCHANGED <<backend, admission, state, attached, settlement, run,
                   process, crashes>>

\* A workspace that cannot be finalised blocks admission.
StartRefused(a) ==
    /\ stage[a] = "failing"
    /\ stage' = [stage EXCEPT ![a] = "idle"]
    /\ \/ state' = [state EXCEPT ![a] = "cleaned"] /\ UNCHANGED admission
       \/ /\ state' = [state EXCEPT ![a] = "cleanup_failed"]
          /\ admission' = "blocked"
    /\ UNCHANGED <<backend, attached, owned, settlement, run, lease, process,
                   crashes>>
------------------------------------------------------------------------------
(* runSession and what the host says.                                       *)

\* The first to ask settles a live attempt; later ones get the same promise.
CancelLive(a) ==
    IF settle[a] = "none"
    THEN /\ settle' = [settle EXCEPT ![a] = "children"]
         /\ todo' = [todo EXCEPT ![a] = Children(a)]
         /\ timer' = timer \ {a}
    ELSE UNCHANGED <<settle, todo, timer>>

\* cleanOwned, up to its first await.
BeginCleaning(a) ==
    /\ settle' = [settle EXCEPT ![a] = "joining"]
    /\ todo' = [todo EXCEPT ![a] = Children(a)]
    /\ timer' = timer \ {a}
    /\ state' = [state EXCEPT ![a] = "cleaning"]

\* The checks pass and the workspace is activated; session.start consumes the
\* lease or spawns nothing.
SessionStart(a) ==
    /\ run[a] = "checking"
    /\ lease[a] = "issued"
    /\ lease' = [lease EXCEPT ![a] = "consumed"]
    /\ host' = [host EXCEPT ![a] = "running"]
    /\ piped' = piped \cup {a}
    /\ tracked' = tracked \cup {a}
    /\ run' = [run EXCEPT ![a] = "running"]
    /\ UNCHANGED <<backend, admission, state, start, settlement, ops, crashes>>

HostExits(a) ==
    /\ host[a] = "running"
    /\ host' = [host EXCEPT ![a] = "gone"]
    /\ UNCHANGED <<backend, admission, state, start, settlement, run, lease,
                   piped, tracked, ops, crashes>>

\* The output is read to its end, after the exit; the session has ended.
OutputEnds(a) ==
    /\ host[a] = "gone"
    /\ a \in piped
    /\ piped' = piped \ {a}
    /\ UNCHANGED <<backend, admission, state, start, settlement, run, lease,
                   host, tracked, ops, crashes>>

SessionEnded(a) == run[a] = "running" /\ host[a] = "gone" /\ a \notin piped

RunEnds(a) ==
    /\ SessionEnded(a)
    /\ run' = [run EXCEPT ![a] = "ended"]
    /\ IF a \in live \ cancelled /\ settle[a] = "none"
       THEN BeginCleaning(a)
       ELSE /\ state' = IF a \in live \ cancelled
                        THEN [state EXCEPT ![a] = "failed_observed"] ELSE state
            /\ UNCHANGED <<settle, todo, timer>>
    /\ UNCHANGED <<backend, admission, start, live, cancelled, waits, residual,
                   lease, process, crashes>>

\* A check refuses, the lease refuses, or the host exits with an error: the
\* row is written even when a settlement has begun.
RunFails(a) ==
    /\ run[a] = "checking" \/ SessionEnded(a)
    /\ run' = [run EXCEPT ![a] = "ended"]
    /\ IF a \in live /\ settle[a] = "none"
       THEN BeginCleaning(a)
       ELSE /\ state' = IF a \in live
                        THEN [state EXCEPT ![a] = "failed_observed"] ELSE state
            /\ UNCHANGED <<settle, todo, timer>>
    /\ UNCHANGED <<backend, admission, start, live, cancelled, waits, residual,
                   lease, process, crashes>>

Observed(a, kind) == backend = "up" /\ a \in piped /\ kind \in Says(a)

\* "ready" writes the row whatever its state and arms a deadline again.
ObserveReady(a) ==
    /\ Observed(a, "ready")
    /\ state' = [state EXCEPT ![a] = "ready"]
    /\ timer' = IF a \in live THEN timer \cup {a} ELSE timer
    /\ UNCHANGED <<backend, admission, start, live, cancelled, settle, joins,
                   run, lease, process, crashes>>

ObserveActivity(a) ==
    /\ Observed(a, "activity")
    /\ state' = [state EXCEPT ![a] = IF @ = "ready" THEN "active" ELSE @]
    /\ timer' = IF a \in live THEN timer \cup {a} ELSE timer
    /\ UNCHANGED <<backend, admission, start, live, cancelled, settle, joins,
                   run, lease, process, crashes>>

ObserveEnd(a, seen) ==
    /\ Observed(a, seen)
    /\ state' = [state EXCEPT ![a] = IF @ \in Settling THEN @ ELSE seen]
    /\ UNCHANGED <<backend, admission, start, settlement, run, lease, process,
                   crashes>>

\* An observation that is refused cancels the attempt.
ObserveInvalid(a) ==
    /\ Observed(a, "invalid")
    /\ state' = [state EXCEPT ![a] = IF @ \in Settling THEN @
                                     ELSE "failed_observed"]
    /\ IF a \in live
       THEN cancelled' = cancelled \cup {a} /\ CancelLive(a)
       ELSE UNCHANGED <<cancelled, settle, todo, timer>>
    /\ UNCHANGED <<backend, admission, start, live, waits, residual, run,
                   lease, process, crashes>>

\* A deadline that is armed after the settlement began has nothing to settle.
Deadline(a) ==
    /\ a \in timer /\ a \in live
    /\ state' = [state EXCEPT ![a] = "timed_out"]
    /\ cancelled' = cancelled \cup {a}
    /\ timer' = timer \ {a}
    /\ IF settle[a] = "none"
       THEN /\ settle' = [settle EXCEPT ![a] = "children"]
            /\ todo' = [todo EXCEPT ![a] = Children(a)]
       ELSE UNCHANGED <<settle, todo>>
    /\ UNCHANGED <<backend, admission, start, live, waits, residual, run,
                   lease, process, crashes>>

\* cancelAttempt of one that is not live makes it cleaned, whatever it is.
CancelAttempt(a) ==
    /\ backend = "up"
    /\ state[a] # "absent"
    /\ IF a \in live
       THEN /\ state' = [state EXCEPT ![a] =
                  IF @ \in {"completed_observed", "failed_observed", "cleaning"}
                  THEN @ ELSE "cancelling"]
            /\ cancelled' = cancelled \cup {a}
            /\ CancelLive(a)
       ELSE /\ state' = [state EXCEPT ![a] = "cleaned"]
            /\ UNCHANGED <<cancelled, settle, todo, timer>>
    /\ UNCHANGED <<backend, admission, start, live, waits, residual, run,
                   lease, process, crashes>>
------------------------------------------------------------------------------
(* The settlement: cancelLive and, at its end or alone, cleanOwned.         *)

Joining(a) == settle[a] \in {"children", "joining"} /\ waits[a] = NoAttempt

\* cancelChildren, one child: a terminal one is passed over, a live one is
\* cancelled and awaited.
VisitChild(a, c) ==
    /\ Joining(a)
    /\ c \in todo[a]
    /\ todo' = [todo EXCEPT ![a] = @ \ {c},
                            ![c] = IF state[c] \notin Terminal /\ settle[c] = "none"
                                   THEN Children(c) ELSE @]
    /\ IF state[c] \in Terminal
       THEN UNCHANGED <<state, cancelled, settle, timer, waits>>
       ELSE /\ c \in live
            /\ state' = [state EXCEPT ![c] = "cancelling"]
            /\ cancelled' = cancelled \cup {c}
            /\ waits' = [waits EXCEPT ![a] = c]
            /\ settle' = [settle EXCEPT ![c] = IF @ = "none" THEN "children" ELSE @]
            /\ timer' = IF settle[c] = "none" THEN timer \ {c} ELSE timer
    /\ UNCHANGED <<backend, admission, start, live, residual, run, lease,
                   process, crashes>>

ChildSettled(a) ==
    /\ waits[a] \in Attempts
    /\ waits[a] \notin live
    /\ waits' = [waits EXCEPT ![a] = NoAttempt]
    /\ UNCHANGED <<backend, admission, state, start, live, cancelled, settle,
                   timer, todo, residual, run, lease, process, crashes>>

\* A mutant: a child that is not live is waited for
ChildRefusesLate(a) == waits[a] \in live /\ settle[waits[a]] = "broken"

\* A child that is at work and not live, or whose own settlement rejects.
ChildRefuses(a) ==
    \/ Joining(a) /\ \E c \in todo[a] : state[c] \notin Terminal /\ c \notin live
    \/ waits[a] \in live /\ settle[waits[a]] = "broken"

\* A mutant: the deadlines that were armed during the settlement stay armed
SettledArmed(a) ==
    /\ live' = live \ {a} /\ cancelled' = cancelled \ {a}
    /\ UNCHANGED timer
    /\ residual' = residual \ {a}
    /\ settle' = [settle EXCEPT ![a] = "none"]
    /\ todo' = [todo EXCEPT ![a] = {}]
    /\ waits' = [waits EXCEPT ![a] = NoAttempt]

Settled(a) ==
    /\ live' = live \ {a}
    /\ cancelled' = cancelled \ {a}
    /\ timer' = timer \ {a}
    /\ residual' = residual \ {a}
    /\ settle' = [settle EXCEPT ![a] = "none"]
    /\ todo' = [todo EXCEPT ![a] = {}]
    /\ waits' = [waits EXCEPT ![a] = NoAttempt]

\* A mutant: a failed cleanup leaves admission as it is
CleanupFailedQuietly(a) ==
    /\ Settled(a)
    /\ lease' = [lease EXCEPT ![a] = "disposed"]
    /\ state' = [state EXCEPT ![a] = "cleanup_failed"]
    /\ UNCHANGED admission

CleanupFailed(a) ==
    /\ Settled(a)
    /\ lease' = [lease EXCEPT ![a] = "disposed"]
    /\ state' = [state EXCEPT ![a] = "cleanup_failed"]
    /\ admission' = "blocked"

\* In cancelLive the error escapes and the settlement stays rejected; in
\* cleanOwned it is caught.
JoinFails(a) ==
    /\ ChildRefuses(a)
    /\ IF settle[a] = "children"
       THEN /\ settle' = [settle EXCEPT ![a] = "broken"]
            /\ waits' = [waits EXCEPT ![a] = NoAttempt]
            /\ UNCHANGED <<admission, state, live, cancelled, timer, todo,
                           residual, lease>>
       ELSE CleanupFailed(a)
    /\ UNCHANGED <<backend, start, run, process, crashes>>

\* The children are joined; in cleanOwned they are looked at once more.
Joined(a) ==
    /\ Joining(a) /\ todo[a] = {}
    /\ settle' = [settle EXCEPT ![a] = IF @ = "children" THEN "grace"
                                       ELSE "cleanup"]
    /\ residual' = IF settle[a] = "joining" /\ \E c \in Children(a) :
                        state[c] \notin {"cleaned", "recovered_terminal"}
                   THEN residual \cup {a} ELSE residual
    /\ UNCHANGED <<backend, admission, state, start, live, cancelled, timer,
                   todo, waits, run, lease, process, crashes>>

\* session.cancel has returned, or its deadline has passed.
GraceEnds(a) ==
    /\ settle[a] = "grace"
    /\ settle' = [settle EXCEPT ![a] = "stopping"]
    /\ UNCHANGED <<backend, admission, state, start, live, cancelled, timer,
                   joins, run, lease, process, crashes>>

\* operation.cancel calls its process cleaned without looking at it.
OperationCancelled(a) ==
    /\ settle[a] = "stopping"
    /\ BeginCleaning(a)
    /\ tracked' = tracked \ {a}
    /\ UNCHANGED <<backend, admission, start, live, cancelled, waits, residual,
                   run, lease, host, piped, ops, crashes>>

\* The operation was cancelled as an operation and is terminal already.
OperationRefuses(a) ==
    /\ settle[a] = "stopping"
    /\ settle' = [settle EXCEPT ![a] = "broken"]
    /\ UNCHANGED <<backend, admission, state, start, live, cancelled, timer,
                   joins, run, lease, process, crashes>>

\* session.cleanup returns when the host has exited or two seconds later.
CleanupReturns(a) ==
    /\ settle[a] = "cleanup"
    /\ settle' = [settle EXCEPT ![a] = "dispose"]
    /\ IF host[a] = "running"
       THEN residual' = residual \cup {a} /\ UNCHANGED tracked
       ELSE tracked' = tracked \ {a} /\ UNCHANGED residual
    /\ UNCHANGED <<backend, admission, state, start, live, cancelled, timer,
                   todo, waits, run, lease, host, piped, ops, crashes>>

\* A mutant: the lease is not disposed
DisposeNothing(a) ==
    /\ settle[a] = "dispose"
    /\ settle' = [settle EXCEPT ![a] = "release"]
    /\ UNCHANGED <<backend, admission, state, start, live, cancelled, timer,
                   joins, run, lease, process, crashes>>

Dispose(a) ==
    /\ settle[a] = "dispose"
    /\ settle' = [settle EXCEPT ![a] = "release"]
    /\ lease' = [lease EXCEPT ![a] = "disposed"]
    /\ UNCHANGED <<backend, admission, state, start, live, cancelled, timer,
                   joins, run, process, crashes>>

\* operation.cleanup refuses an operation with a process that is not clean.
Release(a) ==
    /\ settle[a] = "release"
    /\ IF a \in tracked \/ a \in residual
       THEN CleanupFailed(a)
       ELSE /\ settle' = [settle EXCEPT ![a] = "finalize"]
            /\ UNCHANGED <<admission, state, live, cancelled, timer, joins,
                           lease>>
    /\ ops' = IF a \in tracked THEN "blocked" ELSE ops
    /\ UNCHANGED <<backend, start, run, host, piped, tracked, crashes>>

Finalize(a) ==
    /\ settle[a] = "finalize"
    /\ Settled(a)
    /\ owned' = owned \ {a}
    /\ state' = [state EXCEPT ![a] = "cleaned"]
    /\ UNCHANGED <<backend, admission, stage, attached, run, lease, process,
                   crashes>>

\* The deadline of the cleanup passes, or the workspace is not finalised.
CleanFails(a) ==
    /\ settle[a] \in {"cleanup", "finalize"}
    /\ CleanupFailed(a)
    /\ UNCHANGED <<backend, start, run, process, crashes>>
------------------------------------------------------------------------------
(* The backend dies and starts again.                                       *)

Crash ==
    /\ backend = "up" /\ crashes < MaxCrashes
    /\ backend' = "down" /\ crashes' = crashes + 1
    /\ stage' = [a \in Attempts |-> "idle"]
    /\ run' = [a \in Attempts |-> "none"]
    /\ settle' = [a \in Attempts |-> "none"]
    /\ todo' = [a \in Attempts |-> {}]
    /\ waits' = [a \in Attempts |-> NoAttempt]
    /\ lease' = [a \in Attempts |-> "none"]
    /\ live' = {} /\ cancelled' = {} /\ timer' = {} /\ residual' = {}
    /\ piped' = {}
    /\ host' = [a \in Attempts |-> IF host[a] = "running" THEN "orphan"
                                   ELSE host[a]]
    /\ UNCHANGED <<admission, state, attached, owned, tracked, ops>>

Interrupted == {a \in Attempts : state[a] \notin Terminal \cup {"absent"}}

\* The operation registry ends the processes it has rows of, but survivors;
\* a row whose exit was seen is not looked at.  Rows that are terminal are
\* not looked at here.
Restart(survivors) ==
    LET listed == {a \in tracked : host[a] = "orphan"}
        left == (tracked \ listed) \cup survivors
        unproved == Interrupted \cap owned \cap left
    IN
    /\ backend = "down"
    /\ survivors \subseteq listed
    /\ backend' = "up"
    /\ tracked' = left
    /\ host' = [a \in Attempts |-> IF a \in survivors THEN "residual"
                                   ELSE IF a \in listed THEN "gone" ELSE host[a]]
    /\ ops' = IF \E a \in Attempts : host'[a] = "residual" THEN "blocked"
              ELSE "enabled"
    /\ state' = [a \in Attempts |->
           IF a \in unproved THEN "unverified_residual"
           ELSE IF a \in Interrupted THEN "recovered_terminal" ELSE state[a]]
    /\ owned' = owned \ (Interrupted \ unproved)
    /\ admission' = IF unproved = {} THEN "enabled" ELSE "blocked"
    /\ UNCHANGED <<stage, attached, settlement, run, lease, piped, crashes>>
------------------------------------------------------------------------------
StartStep(a) ==
    \/ Admit(a) \/ StartOperation(a) \/ RegisterResource(a) \/ GoLive(a)
    \/ StartFails(a) \/ StartRefused(a)

RunStep(a) ==
    SessionStart(a) \/ RunEnds(a) \/ RunFails(a) \/ OutputEnds(a)

SettleStep(a) ==
    \/ \E c \in Attempts : VisitChild(a, c)
    \/ ChildSettled(a) \/ JoinFails(a) \/ Joined(a) \/ GraceEnds(a)
    \/ OperationCancelled(a) \/ OperationRefuses(a) \/ CleanupReturns(a)
    \/ Dispose(a) \/ Release(a) \/ Finalize(a) \/ CleanFails(a)

Environment(a) ==
    \/ HostExits(a) \/ ObserveReady(a) \/ ObserveActivity(a)
    \/ \E seen \in {"completed_observed", "failed_observed"} : ObserveEnd(a, seen)
    \/ ObserveInvalid(a) \/ Deadline(a) \/ CancelAttempt(a)

Next ==
    \/ \E a \in Attempts :
          Ask(a) \/ StartStep(a) \/ RunStep(a) \/ SettleStep(a) \/ Environment(a)
    \/ Crash
    \/ \E survivors \in SUBSET Attempts : Restart(survivors)

\* Promises resolve and the deadlines of grace and cleanup are timers; a host
\* need not exit and nobody need ask for anything.
Fairness == \A a \in Attempts : WF_vars(SettleStep(a))
Spec == Init /\ [][Next]_vars
FairSpec == Spec /\ Fairness
------------------------------------------------------------------------------
(* Properties.                                                              *)

\* The variables have the types of the rows and of the memory they stand for,
\* and what is in flight belongs to a backend that runs.
TypeOK ==
    /\ backend \in {"up", "down"} /\ admission \in {"enabled", "blocked"}
    /\ ops \in {"enabled", "blocked"} /\ crashes \in 0..MaxCrashes
    /\ state \in [Attempts -> AttemptState]
    /\ stage \in [Attempts -> Stages]
    /\ settle \in [Attempts -> Settlement]
    /\ run \in [Attempts -> {"none", "checking", "running", "ended"}]
    /\ lease \in [Attempts -> {"none", "issued", "consumed", "disposed"}]
    /\ host \in [Attempts -> {"none", "running", "gone", "orphan",
                               "residual"}]
    /\ todo \in [Attempts -> SUBSET Attempts]
    /\ waits \in [Attempts -> Attempts \cup {NoAttempt}]
    /\ attached \subseteq Attempts /\ owned \subseteq Attempts
    /\ live \subseteq Attempts /\ cancelled \subseteq live
    /\ timer \subseteq live /\ residual \subseteq live
    /\ piped \subseteq Attempts /\ tracked \subseteq Attempts
    /\ \A a \in Attempts : settle[a] # "none" => a \in live
    /\ backend = "down" => live = {} /\ piped = {}

\* While a host runs that no settlement can reach any more, no new attempt is
\* admitted: runSession may spawn it beside a settlement that has begun.
UnownedHostBlocks ==
    \A a \in Attempts : host[a] = "running" /\ a \notin live =>
        admission = "blocked"

\* Once an attempt is settled nothing is spawned for it: the lease it holds is
\* disposed before it leaves the live map.
SettledNeverSpawns ==
    [][\A a \in Attempts :
          host[a] = "none" /\ host'[a] = "running" => a \in live']_vars

\* A cancelled attempt is settled in the end, whatever its host does, or its
\* settlement has rejected.
CancelSettles ==
    \A a \in Attempts : a \in cancelled ~> a \notin live \/ settle[a] = "broken"

(* Stated by the documents, and not so; no run keeps these.                   *)

\* agent-protocol.md calls the four final states immutable: a cancellation or a
\* late "ready" rewrites them.
TerminalIsImmutable ==
    [][\A a \in Attempts : state[a] \in Terminal => state'[a] = state[a]]_vars

\* agent-protocol.md: admission agrees with blocked and unverified state after
\* startup reconciliation: the second start after a residual forgets it.
AdmissionAgrees ==
    backend = "up" /\ admission = "enabled" =>
        \A a \in Attempts : state[a] # "unverified_residual"
==============================================================================
