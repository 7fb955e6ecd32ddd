-------------------------- MODULE OperationRegistry --------------------------
(***************************************************************************)
(* The durable operation registry of the Kogg backend (kogg-operations)    *)
(* together with the clients that run child processes under it.  Rows of   *)
(* the SQLite tables survive a crash; leases, timers, promises and client  *)
(* functions do not; the children belong to the operating system and       *)
(* survive too.  A step is a run of JavaScript between two awaits.         *)
(***************************************************************************)
EXTENDS Naturals, FiniteSets

CONSTANTS
  Ops,            \* operation identifiers
  Procs,          \* process registration identifiers
  NoOp, NoProc,   \* "none" for the two
  Exempt,         \* operations of a kind admitted while admission is not enabled
  Cancellable,    \* operations started with cancellable: true
  AbsoluteTimed,  \* operations started with absoluteTimeoutMs
  IdleTimed,      \* operations started with idleTimeoutMs
  Deferred,       \* processes whose client awaits between registration and spawn
  Awaited,        \* processes whose cancel callback waits for the child to close
  Detached,       \* processes spawned as the leader of a process group
  Proven,         \* processes whose client proves cleanup in a turn after the exit
  MaxCrashes      \* bound on the crashes of one behaviour

ASSUME ConstantsAssumption ==
  /\ NoOp \notin Ops /\ NoProc \notin Procs
  /\ Exempt \subseteq Ops /\ Cancellable \subseteq Ops
  /\ AbsoluteTimed \subseteq Ops /\ IdleTimed \subseteq Ops
  /\ Deferred \subseteq Procs /\ Awaited \subseteq Procs /\ Detached \subseteq Procs
  /\ Proven \subseteq Procs
  /\ MaxCrashes \in Nat

\* prune() removes the clean operations beyond the 100 newest: with at most
\* 100 operations it removes nothing.
ASSUME PruneIsIdle == Cardinality(Ops) =< 100

Terminal == {"refused", "completed", "failed", "timed-out", "cancelled", "recovered"}

OpStates == Terminal \cup {"absent", "requested", "starting", "active", "waiting",
                           "stalled", "cancelling", "recovering"}

OpCleanups == {"not-required", "required", "cleaning", "cleaned", "failed"}

\* TRANSITIONS; recovery writes its states without consulting the table.
Successors(state) ==
  CASE state = "requested"  -> {"refused", "starting"}
    [] state = "starting"   -> {"active", "waiting", "cancelling", "completed", "failed", "timed-out"}
    [] state = "active"     -> {"waiting", "stalled", "cancelling", "completed", "failed", "timed-out"}
    [] state = "waiting"    -> {"active", "stalled", "cancelling", "completed", "failed", "timed-out"}
    [] state = "stalled"    -> {"active", "cancelling", "failed", "timed-out"}
    [] state = "cancelling" -> {"cancelled", "failed"}
    [] OTHER                -> {}

ProcStates == {"absent", "registered", "spawning", "started", "ready",
               "exited", "signalled", "spawn-failed", "possible-residual"}

ProcSuccessors(state) ==
  CASE state = "registered"   -> {"spawning", "spawn-failed"}
    [] state = "spawning"     -> {"started", "spawn-failed", "exited", "signalled"}
    [] state = "started"      -> {"ready", "exited", "signalled", "spawn-failed"}
    [] state = "ready"        -> {"exited", "signalled"}
    [] state = "spawn-failed" -> {"exited", "signalled"}
    [] OTHER                  -> {}

ProcCleanups == {"required", "cleaned", "failed"}

\* The classes zero, nonzero and signal are one: its client observed the exit.
ExitClasses == {"none", "observed", "recovered"}

OpRows   == [state : OpStates, cleanup : OpCleanups]
ProcRows == [op : Ops \cup {NoOp}, state : ProcStates, cleanup : ProcCleanups,
             pid : BOOLEAN, exit : ExitClasses]

\* Who awaits a cleanupOperation call: the client function, lease.cancel() or
\* cancelAfterTimeout().  "cancelled" is lease.cancel() past its cleanup.
Callers == {"body", "cancel", "timeout"}
Flights == Ops \X (Callers \cup {"cancelled"})

VARIABLES
  operation,    \* the operations table: [state, cleanup] of each row
  process,      \* the processes table: [op, state, cleanup, pid, exit] of each row
  admission,    \* operation_meta.admission
  phase,        \* the backend process: down, recovering, open or stopping
  leases,       \* operations in the leases map
  timers,       \* armed timers, pairs <<operation, "absolute" or "idle">>
  body,         \* where the client function of each operation stands
  run,          \* where the client's promise for each process stands
  flights,      \* cleanupOperation calls awaiting
  cancelling,   \* process.cancel() calls awaiting, pairs <<process, caller>>
  incomplete,   \* operations recover() has reopened
  rows,         \* processes recover() has still to reconcile
  terminating,  \* the process whose termination recover() awaits
  stopQueue,    \* leases onStop() has still to cancel
  stopCurrent,  \* the lease whose cancellation onStop() awaits
  child,        \* the operating system's view: none, alive or gone
  killed,       \* children that were sent a kill signal
  crashes       \* crashes so far

rowVars      == <<operation, process, admission>>
clientVars   == <<leases, timers, body, run, flights, cancelling>>
recoveryVars == <<incomplete, rows, terminating>>
stopVars     == <<stopQueue, stopCurrent>>
osVars       == <<child, killed>>
vars == <<rowVars, phase, clientVars, recoveryVars, stopVars, osVars, crashes>>

------------------------------------------------------------------------------
(* Helpers *)

ProcsOf(o) == {p \in Procs : process[p].op = o}
Dirty(o)   == \E p \in ProcsOf(o) : process[p].cleanup # "cleaned"
CanTransition(o, state) == state \in Successors(operation[o].state)
NotRunning(p) == run[p] \in {"none", "registered", "done"}

\* JavaScript other than recover() runs once the database is open, and while
\* recover() awaits a termination (this.database is set before recover()).
Running == phase \in {"open", "stopping"} \/ (phase = "recovering" /\ terminating # NoProc)

SetState(o, state) == operation' = [operation EXCEPT ![o].state = state]

\* The lease of an operation that reached a terminal state leaves the map.
Settle(o, state) == SetState(o, state) /\ leases' = leases \ {o}

\* clear()
Disarm(o) == timers' = {t \in timers : t[1] # o}

\* Mutant: the absolute timer is forgotten.
ArmIdleOnly(o, kinds) ==
  timers' = timers \cup {<<o, "idle">> : k \in {kind \in kinds : kind = "idle" /\ o \in IdleTimed}}

\* arm() and armIdle()
Arm(o, kinds) ==
  timers' = timers \cup {<<o, k>> : k \in {kind \in kinds :
              \/ kind = "absolute" /\ o \in AbsoluteTimed
              \/ kind = "idle" /\ o \in IdleTimed}}

------------------------------------------------------------------------------
(* Init *)

Init ==
  /\ operation = [o \in Ops |-> [state |-> "absent", cleanup |-> "not-required"]]
  /\ process = [p \in Procs |-> [op |-> NoOp, state |-> "absent", cleanup |-> "required",
                                 pid |-> FALSE, exit |-> "none"]]
  /\ admission = "recovering" /\ phase = "down"
  /\ leases = {} /\ timers = {} /\ flights = {} /\ cancelling = {}
  /\ body = [o \in Ops |-> "none"] /\ run = [p \in Procs |-> "none"]
  /\ incomplete = {} /\ rows = {} /\ terminating = NoProc
  /\ stopQueue = {} /\ stopCurrent = NoOp
  /\ child = [p \in Procs |-> "none"] /\ killed = {} /\ crashes = 0

------------------------------------------------------------------------------
(* Operations: the lease methods a client function calls *)

StartOperation(o) ==
  /\ Running /\ operation[o].state = "absent"
  /\ admission = "enabled" \/ o \in Exempt
  /\ SetState(o, "requested")
  /\ leases' = leases \cup {o}
  /\ body' = [body EXCEPT ![o] = "admitted"]
  /\ UNCHANGED <<process, admission, phase, timers, run, flights, cancelling,
                 recoveryVars, stopVars, osVars, crashes>>

\* start(), in a later turn than startOperation: its promise is awaited.
Start(o) ==
  /\ Running /\ body[o] = "admitted" /\ CanTransition(o, "starting")
  /\ SetState(o, "starting")
  /\ Arm(o, {"absolute", "idle"})
  /\ body' = [body EXCEPT ![o] = "working"]
  /\ UNCHANGED <<process, admission, phase, leases, run, flights, cancelling,
                 recoveryVars, stopVars, osVars, crashes>>

\* active() and waiting(); a refused transition throws into the client.
Progress(o, state) ==
  /\ Running /\ body[o] = "working" /\ operation[o].state # state
  /\ IF CanTransition(o, state)
       THEN SetState(o, state) /\ Arm(o, {"idle"}) /\ UNCHANGED body
       ELSE body' = [body EXCEPT ![o] = "failing"] /\ UNCHANGED <<operation, timers>>
  /\ UNCHANGED <<process, admission, phase, leases, run, flights, cancelling,
                 recoveryVars, stopVars, osVars, crashes>>

\* activity() of an operation or of one of its processes re-arms the idle timer.
Activity(o) ==
  /\ Running /\ body[o] = "working" /\ operation[o].state \notin Terminal
  /\ <<o, "idle">> \notin timers
  /\ Arm(o, {"idle"})
  /\ UNCHANGED <<rowVars, phase, leases, body, run, flights, cancelling,
                 recoveryVars, stopVars, osVars, crashes>>

------------------------------------------------------------------------------
(* Processes: registerProcess and the promise a client keeps per child *)

\* registerProcess consults no operation state.
Registered(o, p, row) ==
  /\ process' = [process EXCEPT ![p] = row]
  /\ operation' = [operation EXCEPT ![o].cleanup = "required"]

Row(o, state, pid) ==
  [op |-> o, state |-> state, cleanup |-> "required", pid |-> pid, exit |-> "none"]

\* The repository probe registers, then awaits realpath before it spawns.
Register(o, p) ==
  /\ Running /\ body[o] = "working" /\ p \in Deferred /\ process[p].state = "absent"
  /\ Registered(o, p, Row(o, "registered", FALSE))
  /\ run' = [run EXCEPT ![p] = "registered"]
  /\ UNCHANGED <<admission, phase, leases, timers, body, flights, cancelling,
                 recoveryVars, stopVars, osVars, crashes>>

\* p is about to be spawned by the client function of o.
Launching(o, p) ==
  /\ Running /\ body[o] = "working"
  /\ IF p \in Deferred THEN process[p].op = o /\ run[p] = "registered"
                       ELSE process[p].state = "absent"

\* The row a launch of p leaves: a deferred one was registered before.
LaunchRow(o, p, state, pid) ==
  IF p \in Deferred
    THEN /\ process' = [process EXCEPT ![p].state = state, ![p].pid = pid]
         /\ UNCHANGED operation
    ELSE Registered(o, p, Row(o, state, pid))

\* spawning(), spawn, started(pid): one turn.  controller-git-runner reports ready() too.
Launch(o, p) ==
  /\ Launching(o, p)
  /\ LaunchRow(o, p, IF p \in Deferred \cup Proven THEN "started" ELSE "ready", TRUE)
  /\ child' = [child EXCEPT ![p] = "alive"]
  /\ run' = [run EXCEPT ![p] = "spawned"]
  /\ UNCHANGED <<admission, phase, leases, timers, body, flights, cancelling,
                 recoveryVars, stopVars, killed, crashes>>

\* spawn returned without a pid; its error event comes later.
LaunchError(o, p) ==
  /\ Launching(o, p)
  /\ LaunchRow(o, p, "spawning", FALSE)
  /\ run' = [run EXCEPT ![p] = "unspawned"]
  /\ UNCHANGED <<admission, phase, leases, timers, body, flights, cancelling,
                 recoveryVars, stopVars, osVars, crashes>>

\* The process's promise rejects: the client function leaves its try block.
Reject(o) == body' = [body EXCEPT ![o] = IF @ = "working" THEN "failing" ELSE @]

SpawnFailed(p) ==
  /\ Running /\ run[p] = "unspawned" /\ "spawn-failed" \in ProcSuccessors(process[p].state)
  /\ process' = [process EXCEPT ![p].state = "spawn-failed", ![p].cleanup = "cleaned"]
  /\ run' = [run EXCEPT ![p] = "done"]
  /\ Reject(process[p].op)
  /\ UNCHANGED <<operation, admission, phase, leases, timers, flights, cancelling,
                 recoveryVars, stopVars, osVars, crashes>>

\* The close event: exited(class), then cleanup() unless it needs a later proof.
\* A killed child reports a signal.
Close(p, state) ==
  /\ Running /\ run[p] = "spawned" /\ child[p] = "gone"
  /\ state \in ProcSuccessors(process[p].state)
  /\ p \in killed => state = "signalled"
  /\ process' = [process EXCEPT ![p].state = state, ![p].exit = "observed",
                               ![p].cleanup = IF p \in Proven THEN @ ELSE "cleaned"]
  /\ run' = [run EXCEPT ![p] = IF p \in Proven THEN "closed" ELSE "done"]
  /\ \/ state = "exited" /\ UNCHANGED body
     \/ Reject(process[p].op)
  /\ UNCHANGED <<operation, admission, phase, leases, timers, flights, cancelling,
                 recoveryVars, stopVars, osVars, crashes>>

\* The codex host calls cleanup() when its owner has enumerated no residual.
Prove(p) ==
  /\ Running /\ run[p] = "closed"
  /\ process' = [process EXCEPT ![p].cleanup = "cleaned"]
  /\ run' = [run EXCEPT ![p] = "done"]
  /\ UNCHANGED <<operation, admission, phase, leases, timers, body, flights, cancelling,
                 recoveryVars, stopVars, osVars, crashes>>

\* failed(PROCESS_READINESS_FAILED) of a live child, which is then killed.
ReadinessFailed(p) ==
  /\ Running /\ p \in Proven /\ run[p] = "spawned"
  /\ "spawn-failed" \in ProcSuccessors(process[p].state)
  /\ process' = [process EXCEPT ![p].state = "spawn-failed"]
  /\ killed' = IF child[p] = "alive" THEN killed \cup {p} ELSE killed
  /\ Reject(process[p].op)
  /\ UNCHANGED <<operation, admission, phase, leases, timers, run, flights, cancelling,
                 recoveryVars, stopVars, child, crashes>>

\* The client's own deadline for a child.  A client that does not wait for the
\* child to close declares it cleaned at once.
Overdue(p) ==
  /\ Running /\ run[p] = "spawned" /\ child[p] = "alive" /\ p \notin killed
  /\ killed' = killed \cup {p}
  /\ IF p \in Awaited
       THEN UNCHANGED <<process, body>>
       ELSE process' = [process EXCEPT ![p].cleanup = "cleaned"] /\ Reject(process[p].op)
  /\ UNCHANGED <<operation, admission, phase, leases, timers, run, flights, cancelling,
                 recoveryVars, stopVars, child, crashes>>

------------------------------------------------------------------------------
(* cleanupOperation *)

BeginCleanup(o, caller) ==
  /\ operation' = [operation EXCEPT ![o].cleanup = "cleaning"]
  /\ flights' = flights \cup {<<o, caller>>}

\* A transition followed in the same turn by a cleanup that cancels every
\* process of the lease; a cancel callback first signals a live child.
BeginCancelling(o, caller, state) ==
  /\ operation' = [operation EXCEPT ![o] = [state |-> state, cleanup |-> "cleaning"]]
  /\ flights' = flights \cup {<<o, caller>>}
  /\ cancelling' = cancelling \cup (ProcsOf(o) \X {caller})
  /\ killed' = killed \cup {p \in ProcsOf(o) : child[p] = "alive"}

\* Mutant: the process is declared cleaned while its callback still waits.
CancelWithoutWaiting(p, caller) ==
  /\ Running /\ <<p, caller>> \in cancelling
  /\ cancelling' = cancelling \ {<<p, caller>>}
  /\ process' = [process EXCEPT ![p].cleanup = "cleaned"]
  /\ UNCHANGED <<operation, admission, phase, leases, timers, body, run, flights,
                 recoveryVars, stopVars, osVars, crashes>>

\* DurableProcessLease.cancel: the callback settles, then cleanup().
CancelReturns(p, caller) ==
  /\ Running /\ <<p, caller>> \in cancelling
  /\ p \in Awaited /\ p \in killed => child[p] # "alive"
  /\ cancelling' = cancelling \ {<<p, caller>>}
  /\ process' = [process EXCEPT ![p].cleanup = "cleaned"]
  /\ UNCHANGED <<operation, admission, phase, leases, timers, body, run, flights,
                 recoveryVars, stopVars, osVars, crashes>>

\* What the awaiting function does once its cleanup has settled.
Resume(o, caller, ok) ==
  /\ flights' = (flights \ {<<o, caller>>}) \cup
                  (IF caller = "cancel" /\ ok THEN {<<o, "cancelled">>} ELSE {})
  /\ body' = IF caller # "body" THEN body
             ELSE [body EXCEPT ![o] = IF @ = "aborting" THEN "aborted"
                                      ELSE IF ok THEN "closed" ELSE "failing"]

\* Mutant: the dirty rows are not counted.
CleanupTrusts(o, caller) ==
  /\ Running /\ <<o, caller>> \in flights /\ caller \in Callers
  /\ \A p \in ProcsOf(o) : <<p, caller>> \notin cancelling
  /\ operation' = [operation EXCEPT ![o].cleanup = "cleaned"]
  /\ Resume(o, caller, TRUE)
  /\ UNCHANGED <<process, admission, phase, leases, timers, run, cancelling,
                 recoveryVars, stopVars, osVars, crashes>>

\* The cleanup's work is done: the rows decide.
CleanupReturns(o, caller) ==
  /\ Running /\ <<o, caller>> \in flights /\ caller \in Callers
  /\ \A p \in ProcsOf(o) : <<p, caller>> \notin cancelling
  /\ operation' = [operation EXCEPT ![o].cleanup = IF Dirty(o) THEN "failed" ELSE "cleaned"]
  /\ admission' = IF Dirty(o) THEN "blocked" ELSE admission
  /\ Resume(o, caller, ~Dirty(o))
  /\ UNCHANGED <<process, phase, leases, timers, run, cancelling,
                 recoveryVars, stopVars, osVars, crashes>>

\* Mutant: the failure is recorded, admission stays as it is.
RejectKeepsAdmission(o, caller) ==
  /\ Running /\ <<o, caller>> \in flights /\ caller \in Callers
  /\ \E p \in ProcsOf(o) : <<p, caller>> \in cancelling
  /\ operation' = [operation EXCEPT ![o].cleanup = "failed"]
  /\ Resume(o, caller, FALSE)
  /\ UNCHANGED <<process, admission, phase, leases, timers, run, cancelling,
                 recoveryVars, stopVars, osVars, crashes>>

\* Mutant: no cleanup timer, only a callback that has seen its child end rejects.
RejectWithoutTimer(o, caller) ==
  /\ Running /\ <<o, caller>> \in flights /\ caller \in Callers
  /\ \E p \in ProcsOf(o) :
       <<p, caller>> \in cancelling /\ child[p] # "alive" /\ cancelling' = cancelling \ {<<p, caller>>}
  /\ operation' = [operation EXCEPT ![o].cleanup = "failed"]
  /\ admission' = "blocked"
  /\ Resume(o, caller, FALSE)
  /\ UNCHANGED <<process, phase, leases, timers, run, recoveryVars, stopVars, osVars, crashes>>

\* The cleanup timer wins the race, or a cancel callback rejects; the other
\* callbacks run on.
CleanupRejects(o, caller) ==
  /\ Running /\ <<o, caller>> \in flights /\ caller \in Callers
  /\ \E p \in ProcsOf(o) :
       /\ <<p, caller>> \in cancelling
       /\ cancelling' \in {cancelling, cancelling \ {<<p, caller>>}}
  /\ operation' = [operation EXCEPT ![o].cleanup = "failed"]
  /\ admission' = "blocked"
  /\ Resume(o, caller, FALSE)
  /\ UNCHANGED <<process, phase, leases, timers, run,
                 recoveryVars, stopVars, osVars, crashes>>

------------------------------------------------------------------------------
(* The end of a client function: runOperation and its relatives *)

Finish(o) ==
  /\ Running /\ body[o] = "working" /\ \A p \in ProcsOf(o) : run[p] = "done"
  /\ BeginCleanup(o, "body")
  /\ body' = [body EXCEPT ![o] = "closing"]
  /\ UNCHANGED <<process, admission, phase, leases, timers, run, cancelling,
                 recoveryVars, stopVars, osVars, crashes>>

\* The catch clause; other processes of the operation may still be running.
Abort(o) ==
  /\ Running
  /\ \/ body[o] = "failing"
     \/ body[o] = "working" /\ \A p \in ProcsOf(o) : NotRunning(p)
  /\ BeginCleanup(o, "body")
  /\ body' = [body EXCEPT ![o] = "aborting"]
  /\ UNCHANGED <<process, admission, phase, leases, timers, run, cancelling,
                 recoveryVars, stopVars, osVars, crashes>>

\* The catch clause of runOperation on a TimeoutError: timeout(), then cleanup;
\* the fail() that ends other clients is skipped, as Fail does of a terminal state.
AbortTimedOut(o) ==
  /\ Running /\ body[o] = "failing" /\ CanTransition(o, "timed-out")
  /\ Disarm(o)
  /\ operation' = [operation EXCEPT ![o] = [state |-> "timed-out", cleanup |-> "cleaning"]]
  /\ leases' = leases \ {o}
  /\ flights' = flights \cup {<<o, "body">>}
  /\ body' = [body EXCEPT ![o] = "aborting"]
  /\ UNCHANGED <<process, admission, phase, run, cancelling,
                 recoveryVars, stopVars, osVars, crashes>>

\* Mutant: complete() does not look at the state it leaves.
CompleteAnyway(o) ==
  /\ Running /\ body[o] = "closed"
  /\ Disarm(o) /\ Settle(o, "completed")
  /\ body' = [body EXCEPT ![o] = "ended"]
  /\ UNCHANGED <<process, admission, phase, run, flights, cancelling,
                 recoveryVars, stopVars, osVars, crashes>>

\* complete(); a conflicting terminal state throws into the catch clause.
Complete(o) ==
  /\ Running /\ body[o] = "closed"
  /\ Disarm(o)
  /\ IF CanTransition(o, "completed")
       THEN Settle(o, "completed") /\ body' = [body EXCEPT ![o] = "ended"]
       ELSE body' = [body EXCEPT ![o] = "failing"] /\ UNCHANGED <<operation, leases>>
  /\ UNCHANGED <<process, admission, phase, run, flights, cancelling,
                 recoveryVars, stopVars, osVars, crashes>>

\* Mutant: fail() leaves the lease in the map.
FailKeepsLease(o) ==
  /\ Running /\ body[o] = "aborted"
  /\ Disarm(o)
  /\ body' = [body EXCEPT ![o] = "ended"]
  /\ IF CanTransition(o, "failed") THEN SetState(o, "failed") ELSE UNCHANGED operation
  /\ UNCHANGED <<process, admission, phase, leases, run, flights, cancelling,
                 recoveryVars, stopVars, osVars, crashes>>

\* fail(); a conflicting terminal state throws out of the client function.
Fail(o) ==
  /\ Running /\ body[o] = "aborted"
  /\ Disarm(o)
  /\ body' = [body EXCEPT ![o] = "ended"]
  /\ IF CanTransition(o, "failed") THEN Settle(o, "failed") ELSE UNCHANGED <<operation, leases>>
  /\ UNCHANGED <<process, admission, phase, run, flights, cancelling,
                 recoveryVars, stopVars, osVars, crashes>>

------------------------------------------------------------------------------
(* Cancellation and timeouts *)

\* registry.cancel: throws, and changes nothing, unless the lease can cancel.
Cancel(o) ==
  /\ Running /\ o \in leases /\ o \in Cancellable /\ CanTransition(o, "cancelling")
  /\ BeginCancelling(o, "cancel", "cancelling")
  /\ UNCHANGED <<process, admission, phase, leases, timers, body, run,
                 recoveryVars, stopVars, child, crashes>>

\* The last line of lease.cancel(); it throws when the client function has
\* already failed the operation.
Cancelled(o) ==
  /\ Running /\ <<o, "cancelled">> \in flights
  /\ flights' = flights \ {<<o, "cancelled">>}
  /\ IF CanTransition(o, "cancelled") THEN Settle(o, "cancelled") ELSE UNCHANGED <<operation, leases>>
  /\ UNCHANGED <<process, admission, phase, timers, body, run, cancelling,
                 recoveryVars, stopVars, osVars, crashes>>

\* cancelAfterTimeout.  The idle path first goes to stalled, which a starting
\* operation refuses; any refusal is logged and swallowed.
Timeout(o, kind) ==
  /\ Running /\ <<o, kind>> \in timers
  /\ LET stalls == kind = "idle" => CanTransition(o, "stalled")
     IN  IF stalls /\ CanTransition(o, "timed-out")
           THEN /\ Disarm(o)
                /\ BeginCancelling(o, "timeout", "timed-out")
                /\ leases' = leases \ {o}
           ELSE /\ IF stalls THEN Disarm(o) ELSE timers' = timers \ {<<o, kind>>}
                /\ UNCHANGED <<operation, leases, flights, cancelling, killed>>
  /\ UNCHANGED <<process, admission, phase, body, run,
                 recoveryVars, stopVars, child, crashes>>

------------------------------------------------------------------------------
(* onStop: the leases are cancelled one after the other, then the end *)

Volatile ==
  /\ phase' = "down"
  /\ leases' = {} /\ timers' = {} /\ flights' = {} /\ cancelling' = {}
  /\ body' = [o \in Ops |-> "none"] /\ run' = [p \in Procs |-> "none"]
  /\ incomplete' = {} /\ rows' = {} /\ terminating' = NoProc
  /\ stopQueue' = {} /\ stopCurrent' = NoOp

BeginStop ==
  /\ phase = "open"
  /\ phase' = "stopping" /\ admission' = "blocked" /\ stopQueue' = leases
  /\ UNCHANGED <<operation, process, clientVars, recoveryVars, stopCurrent, osVars, crashes>>

StopSettled == {<<stopCurrent, "cancel">>, <<stopCurrent, "cancelled">>} \cap flights = {}

StopCancel(o) ==
  /\ phase = "stopping" /\ o \in stopQueue /\ StopSettled
  /\ stopQueue' = stopQueue \ {o}
  /\ IF CanTransition(o, "cancelling")
       THEN BeginCancelling(o, "cancel", "cancelling") /\ stopCurrent' = o
       ELSE UNCHANGED <<operation, flights, cancelling, killed, stopCurrent>>
  /\ UNCHANGED <<process, admission, phase, leases, timers, body, run,
                 recoveryVars, child, crashes>>

EndStop ==
  /\ phase = "stopping" /\ stopQueue = {} /\ StopSettled
  /\ Volatile
  /\ UNCHANGED <<rowVars, osVars, crashes>>

------------------------------------------------------------------------------
(* The environment: children end, the backend crashes *)

Exit(p) ==
  /\ child[p] = "alive"
  /\ child' = [child EXCEPT ![p] = "gone"]
  /\ UNCHANGED <<rowVars, phase, clientVars, recoveryVars, stopVars, killed, crashes>>

Crash ==
  /\ phase # "down" /\ crashes < MaxCrashes
  /\ Volatile /\ crashes' = crashes + 1
  /\ UNCHANGED <<rowVars, osVars>>

\* The backend dies between spawn and the commit of started(pid).
CrashInLaunch(o, p) ==
  /\ Launching(o, p) /\ crashes < MaxCrashes
  /\ LaunchRow(o, p, "spawning", FALSE)
  /\ child' = [child EXCEPT ![p] = "alive"]
  /\ Volatile /\ crashes' = crashes + 1
  /\ UNCHANGED <<admission, killed>>

------------------------------------------------------------------------------
(* startDatabase and recover *)

Reopens(o) ==
  \/ operation[o].state \notin Terminal \cup {"absent"}
  \/ operation[o].cleanup \in {"required", "cleaning", "failed"}

Unreconciled(p) == process[p].cleanup # "cleaned"
                     /\ process[p].state \in {"started", "ready", "spawning", "registered"}

Open ==
  /\ phase = "down"
  /\ phase' = "recovering" /\ admission' = "recovering"
  /\ incomplete' = {o \in Ops : Reopens(o)}
  /\ rows' = {p \in Procs : Unreconciled(p)}
  /\ operation' = [o \in Ops |-> IF Reopens(o) THEN [operation[o] EXCEPT !.state = "recovering"]
                                 ELSE operation[o]]
  /\ UNCHANGED <<process, clientVars, terminating, stopVars, osVars, crashes>>

RecoveredRow(p) == process' = [process EXCEPT ![p].state = "exited", ![p].exit = "recovered",
                                              ![p].cleanup = "cleaned"]

\* Mutant: the two columns are swapped.
SwappedRow(p) == process' = [process EXCEPT ![p].state = "failed", ![p].cleanup = "possible-residual"]

ResidualRow(p) == process' = [process EXCEPT ![p].state = "possible-residual",
                                             ![p].cleanup = "failed"]

Seen(p) == process[p].pid /\ child[p] = "alive"

\* recover() looks at the next row.  The row's pid may name no process, the
\* child (which linux lets the registry identify), or a stranger that took it.
Reconcile(p) ==
  /\ phase = "recovering" /\ terminating = NoProc /\ p \in rows
  /\ \/ ~Seen(p) /\ RecoveredRow(p) /\ rows' = rows \ {p} /\ UNCHANGED <<killed, terminating>>
     \/ process[p].pid /\ ResidualRow(p) /\ rows' = rows \ {p} /\ UNCHANGED <<killed, terminating>>
     \/ Seen(p) /\ p \in Detached
          /\ killed' = killed \cup {p} /\ terminating' = p /\ UNCHANGED <<process, rows>>
     \* no group has this pid: ESRCH is taken for absence
     \/ Seen(p) /\ p \notin Detached
          /\ RecoveredRow(p) /\ rows' = rows \ {p} /\ UNCHANGED <<killed, terminating>>
  /\ UNCHANGED <<operation, admission, phase, clientVars, incomplete, stopVars, child, crashes>>

\* Mutant: terminate() has no deadline.
TerminatedEventually(p) ==
  /\ phase = "recovering" /\ terminating = p /\ child[p] # "alive"
  /\ terminating' = NoProc /\ rows' = rows \ {p}
  /\ RecoveredRow(p)
  /\ UNCHANGED <<operation, admission, phase, clientVars, incomplete, stopVars, osVars, crashes>>

\* terminate() returns when the child is gone and throws at its deadline.
Terminated(p) ==
  /\ phase = "recovering" /\ terminating = p
  /\ terminating' = NoProc /\ rows' = rows \ {p}
  /\ IF child[p] = "alive" THEN ResidualRow(p) ELSE RecoveredRow(p)
  /\ UNCHANGED <<operation, admission, phase, clientVars, incomplete, stopVars, osVars, crashes>>

\* Mutant: the rows of the processes are not consulted.
UnresolvedWithoutRows(o) == operation[o].cleanup = "failed" /\ ProcsOf(o) = {}

Unresolved(o) ==
  \/ operation[o].cleanup = "failed" /\ ProcsOf(o) = {}
  \/ \E p \in ProcsOf(o) : process[p].cleanup = "failed" \/ process[p].state = "possible-residual"

FinishRecovery ==
  /\ phase = "recovering" /\ rows = {} /\ terminating = NoProc
  /\ phase' = "open" /\ incomplete' = {}
  /\ operation' = [o \in Ops |->
       IF o \notin incomplete THEN operation[o]
       ELSE IF Unresolved(o) THEN [state |-> "failed", cleanup |-> "failed"]
       ELSE [state |-> "recovered", cleanup |-> "cleaned"]]
  /\ admission' = IF \E o \in Ops : Unresolved(o) THEN "blocked" ELSE "enabled"
  /\ UNCHANGED <<process, clientVars, rows, terminating, stopVars, osVars, crashes>>

------------------------------------------------------------------------------

OperationStep(o) ==
  \/ StartOperation(o) \/ Start(o) \/ Activity(o)
  \/ \E state \in {"active", "waiting"} : Progress(o, state)
  \/ Finish(o) \/ Abort(o) \/ AbortTimedOut(o) \/ Complete(o) \/ Fail(o)
  \/ Cancel(o) \/ Cancelled(o)
  \/ \E kind \in {"absolute", "idle"} : Timeout(o, kind)
  \/ \E caller \in Callers : CleanupReturns(o, caller) \/ CleanupRejects(o, caller)

ProcessStep(p) ==
  \/ SpawnFailed(p) \/ Prove(p) \/ ReadinessFailed(p) \/ Overdue(p) \/ Exit(p)
  \/ \E state \in {"exited", "signalled"} : Close(p, state)
  \/ \E caller \in Callers : CancelReturns(p, caller)
  \/ \E o \in Ops : Register(o, p) \/ Launch(o, p) \/ LaunchError(o, p) \/ CrashInLaunch(o, p)
  \/ Reconcile(p) \/ Terminated(p)

Next ==
  \/ \E o \in Ops : OperationStep(o) \/ StopCancel(o)
  \/ \E p \in Procs : ProcessStep(p)
  \/ BeginStop \/ EndStop \/ Crash \/ Open \/ FinishRecovery

Spec == Init /\ [][Next]_vars

\* The event loop runs every settled promise and every expired timer (the
\* cleanup timer among them), and recover() runs to its end.  Nothing is
\* assumed of client functions, of restarts, or of children: one that was sent
\* a signal may live for ever.
Fairness ==
  /\ \A o \in Ops :
       /\ WF_vars(body[o] = "failing" /\ Abort(o)) /\ WF_vars(Complete(o)) /\ WF_vars(Fail(o))
       /\ WF_vars(Cancelled(o)) /\ WF_vars(Timeout(o, "absolute"))
       /\ \A caller \in Callers :
            WF_vars(CleanupReturns(o, caller)) /\ WF_vars(CleanupRejects(o, caller))
  /\ \A p \in Procs :
       /\ WF_vars(Reconcile(p)) /\ WF_vars(Terminated(p))
       /\ \A caller \in Callers : WF_vars(CancelReturns(p, caller))
  /\ WF_vars(FinishRecovery)

FairSpec == Spec /\ Fairness

------------------------------------------------------------------------------
(* Properties *)

\* Type correctness of the rows and of the registry's volatile state.
TypeOK ==
  /\ operation \in [Ops -> OpRows] /\ process \in [Procs -> ProcRows]
  /\ admission \in {"enabled", "recovering", "blocked"}
  /\ phase \in {"down", "recovering", "open", "stopping"}
  /\ leases \subseteq Ops /\ timers \subseteq Ops \X {"absolute", "idle"}
  /\ body \in [Ops -> {"none", "admitted", "working", "failing", "closing", "closed",
                       "aborting", "aborted", "ended"}]
  /\ run \in [Procs -> {"none", "registered", "unspawned", "spawned", "closed", "done"}]
  /\ flights \subseteq Flights /\ cancelling \subseteq Procs \X Callers
  /\ incomplete \subseteq Ops /\ rows \subseteq Procs /\ terminating \in Procs \cup {NoProc}
  /\ stopQueue \subseteq Ops /\ stopCurrent \in Ops \cup {NoOp}
  /\ child \in [Procs -> {"none", "alive", "gone"}] /\ killed \subseteq Procs
  /\ crashes \in Nat

\* While an operation of an ordinary kind has a failed cleanup, admission is not
\* enabled, before and after any number of restarts (cleanupOperation writes
\* both, recover() decides again).
FailedCleanupBlocksAdmission ==
  \A o \in Ops \ Exempt : operation[o].cleanup = "failed" => admission # "enabled"

\* No work is admitted while the registry knows of a process it could not
\* prove gone (recover()'s residual rows).
ResidualBlocksAdmission ==
  (\E p \in Procs : process[p].cleanup = "failed" \/ process[p].state = "possible-residual")
    => admission # "enabled"

\* In an open registry the leases map holds exactly the operations that are
\* not terminal: each can be cancelled and shut down, and none is left over
\* from an earlier instance.
LeasesAreLive ==
  phase \in {"open", "stopping"} =>
    leases = {o \in Ops : operation[o].state \notin Terminal \cup {"absent"}}

\* A cleaned operation has no process left to clean, unless recovery declared it so.
CleanedOperationIsClean ==
  \A o \in Ops : operation[o].cleanup = "cleaned" /\ operation[o].state # "recovered" => ~Dirty(o)

\* Mutant: the evidence of the exit is not asked for.
AttestsWithoutExit(p) ==
  /\ process[p].op # NoOp
  /\ operation[process[p].op].state \in {"completed", "failed", "timed-out", "cancelled"}
  /\ operation[process[p].op].cleanup = "cleaned"
  /\ process[p].cleanup = "cleaned"

\* processExecutionAttestation: the rows under which it vouches for a process.
Attestable(p) ==
  /\ process[p].op # NoOp
  /\ operation[process[p].op].state \in {"completed", "failed", "timed-out", "cancelled"}
  /\ operation[process[p].op].cleanup = "cleaned"
  /\ process[p].state \in {"exited", "signalled"} /\ process[p].cleanup = "cleaned"
  /\ process[p].exit = "observed"

\* An attested process has ended: its client saw it close, whatever restarts
\* and cancellations came before or after.
AttestedProcessIsGone == \A p \in Procs : Attestable(p) => child[p] = "gone"

\* A client that waits for its child, spawns it in the turn it registers it and
\* makes it a group leader: its process is declared cleaned only once the child
\* is gone, provided the pid reached the row.
CleanedProcessIsGone ==
  \A p \in (Awaited \cap Detached) \ Deferred :
    process[p].cleanup = "cleaned" /\ process[p].pid => child[p] # "alive"

\* A terminal operation changes state only when a restart reopens it, and a
\* restart reopens only one whose cleanup was not finished.
TerminalIsFinal ==
  [][\A o \in Ops : operation[o].state \in Terminal /\ operation'[o].state # operation[o].state
       => phase = "down" /\ operation[o].cleanup \notin {"not-required", "cleaned"}]_vars

\* A restarted registry finishes recovery, whatever its children do.
RecoveryEnds == phase = "recovering" ~> phase \in {"open", "down"}

\* A cancelled operation comes to rest: terminal, or with its failure recorded.
CancellationSettles ==
  \A o \in Ops : operation[o].state = "cancelling" ~>
    \/ operation[o].state \in Terminal \/ operation[o].cleanup = "failed" \/ phase = "down"

\* An operation with an absolute deadline does not stay at work for ever.
DeadlinesHold ==
  \A o \in AbsoluteTimed : operation[o].state \in {"starting", "active", "waiting"} ~>
    operation[o].state \in Terminal \cup {"cancelling"} \/ phase = "down"

------------------------------------------------------------------------------
(* What the documents say and the code does not do *)

\* "Cancel requests remain pending until external zero-descendant proof or
\* quarantine" (operations.md:178): a cancelled operation has no live child.
CancelledHasNoDescendant ==
  \A p \in Procs : process[p].op # NoOp /\ operation[process[p].op].state = "cancelled"
    => child[p] # "alive"

\* "ESRCH proves the reconciled process is already absent"
\* (operation-registry.ts:742): a row with a pid that recovery marks exited and
\* cleaned has no living child.
RecoveredProcessIsGone ==
  \A p \in Procs : process[p].exit = "recovered" /\ process[p].pid => child[p] # "alive"

\* "Registered path missing | Project remains visible but unavailable | [...]
\* offer explicit relocate/remove actions" (projects.md:280): a probe that never
\* spawned a child does not stop the admission of project mutations.
ProbeWithoutChildDoesNotBlock ==
  phase = "open" /\ (\A p \in Procs : child[p] = "none") => admission # "blocked"
==============================================================================
