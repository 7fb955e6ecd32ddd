------------------------- MODULE ProjectRegistry -------------------------
(* The project registry: one SQLite database of projects, repositories,   *)
(* task bindings and the pending switch, the generated workspace files    *)
(* beside it, and the calls of several windows, each of which gives way   *)
(* at every await.  Source: packages/kogg-projects/src/node.              *)
EXTENDS Integers, FiniteSets, SequencesExt

CONSTANTS
  Projects, Repos, Paths, Tasks,  \* identities the registry can hand out, and directories
  Windows,                        \* callers: front ends, and backend services that ask
  Requests,                       \* request ids
  KeptResults,                    \* request results kept (1000 in the code)
  MaxCalls, MaxResends, MaxMoves, \* bounds: calls made, requests sent again, times the disk changes
  None

VARIABLES
  db,         \* the rows: registry_meta, projects, repositories, bindings, results
  disk,       \* directories that exist
  files,      \* workspace file of each project: the roots it lists, or None
  accepting,  \* the registry takes mutations
  calls,      \* the call each window is in, or None
  tracked,    \* trackedOperations: request id -> operation
  live,       \* operations started and not yet ended
  view,       \* the registry revision of each window's snapshot
  open,       \* the project whose workspace each window has open
  issued, moves,
  sent,       \* the call each request id was made for
  applied     \* history: how often each request was carried out

vars == <<db, disk, files, accepting, calls, tracked, live, view, open, issued, moves, sent, applied>>

RepoKinds   == {"add", "relocate", "removeRepository"}
PlainKinds  == {"role", "bind", "clear"}
Tracked     == RepoKinds \cup PlainKinds \cup {"create", "removeProject", "switch"}
Kinds       == Tracked \cup {"snapshot", "reconcile", "cancelSwitch", "source"}

Steps == {"probe", "mutate", "write", "unlink", "list", "look", "target", "ticket", "cancel",
          "snapshot", "reconcile", "before", "measure", "after", "sourced", "complete", "failed"}

\* The rows as they are kept, as they are listed and as their changes are written.
OrNone(S) == S \cup {None}
Switches  == [request : Requests, from : OrNone(Projects), to : Projects]
Digests   == Kinds \X OrNone(Projects) \X OrNone(Repos) \X OrNone(Paths) \X OrNone(Tasks) \X Nat
Rows ==
  [revision : Nat, projects : SUBSET Projects, home : [Repos -> OrNone(Projects)],
   root : [Repos -> OrNone(Paths)], avail : [Repos -> {"available", "missing"}],
   bound : [Tasks -> OrNone(Repos)], active : OrNone(Projects), pending : OrNone(Switches),
   results : Seq(Requests \X Digests), told : [Projects -> OrNone({"available", "unavailable"})]]
Listed  == [repo : Repos, project : Projects, root : OrNone(Paths), avail : {"available", "missing"}]
Changes == [repo : Repos, project : Projects, avail : {"available", "missing"}]

\* A call: what it asks, the step it is at and what it has read so far.
Calls ==
  [kind : Kinds, request : OrNone(Requests), project : OrNone(Projects), repo : OrNone(Repos),
   path : OrNone(Paths), task : OrNone(Tasks), expect : Nat, pc : Steps, rows : SUBSET Listed,
   changes : SUBSET Changes, roots : SUBSET OrNone(Paths), held : BOOLEAN]

ASSUME ProjectConstants ==
  /\ None \notin Projects \cup Repos \cup Paths \cup Tasks \cup Requests \cup Calls \cup Switches \cup Nat
  /\ None \notin {"available", "unavailable"}
  /\ KeptResults \in Nat \ {0}
  /\ MaxCalls \in Nat /\ MaxResends \in Nat /\ MaxMoves \in Nat

Of(p)         == {r \in Repos : db.home[r] = p}
RootsOf(d, p) == {d.root[r] : r \in {r \in Repos : d.home[r] = p}}
Available(d, p) ==
  /\ p \in d.projects
  /\ \A r \in Repos : d.home[r] = p => d.avail[r] = "available"

\* The registry is found with one project, the active one or, to bound the starts, one of one repository.
Init ==
  /\ \E p \in Projects, root \in [Repos -> Paths \cup {None}], on \in BOOLEAN :
       LET mine == {r \in Repos : root[r] # None}
       IN  /\ mine # {} /\ (on \/ Cardinality(mine) = 1) /\ \A r, s \in mine : root[r] = root[s] => r = s
           /\ db = [revision |-> 1, projects |-> {p}, home |-> [r \in Repos |-> IF r \in mine THEN p ELSE None],
                    root |-> root, avail |-> [r \in Repos |-> "available"],
                    bound |-> [t \in Tasks |-> None], active |-> IF on THEN p ELSE None, pending |-> None,
                    results |-> <<>>, told |-> [x \in Projects |-> IF x = p THEN "available" ELSE None]]
           /\ files = [x \in Projects |-> IF x = p THEN {root[r] : r \in mine} ELSE None]
  /\ disk = Paths
  /\ accepting = TRUE
  /\ calls = [w \in Windows |-> None]
  /\ tracked = [q \in Requests |-> None]
  /\ live = {}
  /\ view = [w \in Windows |-> 1]
  /\ open = [w \in Windows |-> None]
  /\ issued = 0 /\ moves = 0
  /\ sent = [q \in Requests |-> None]
  /\ applied = [q \in Requests |-> 0]

-----------------------------------------------------------------------------
(* What each operation does inside the transaction: the new rows, or None  *)
(* when the code throws and the transaction is rolled back.                *)

Registered(path) == \E r \in Repos : db.home[r] # None /\ db.root[r] = path

Inserted(c) ==
  IF Registered(c.path) THEN None
  ELSE [db EXCEPT !.home[c.repo] = c.project, !.root[c.repo] = c.path, !.avail[c.repo] = "available"]

CreateProject(c) ==
  LET d == Inserted(c)
  IN  IF d = None THEN None
      ELSE [d EXCEPT !.projects = @ \cup {c.project}, !.told[c.project] = "available"]

\* renameProject and setExecutionProfile do to these rows what this does.
SetRoleAssignment(c) == IF c.project \in db.projects THEN db ELSE None

InUse(p) == \E t \in Tasks : db.bound[t] \in Of(p)

Switching(p) ==
  \/ db.active = p
  \/ db.pending # None /\ p \in {db.pending.from, db.pending.to}

RemoveProject(c) ==
  IF Switching(c.project) \/ c.project \notin db.projects \/ InUse(c.project) THEN None
  ELSE [db EXCEPT !.home = [r \in Repos |-> IF r \in Of(c.project) THEN None ELSE @[r]],
                  !.projects = @ \ {c.project}, !.told[c.project] = "unavailable"]

AddRepository(c) == IF c.project \in db.projects THEN Inserted(c) ELSE None

\* A repository is known by the path of its Git directory, so one that was moved is another.
RelocateRepository(c) ==
  IF db.home[c.repo] # c.project \/ db.root[c.repo] # c.path THEN None
  ELSE [db EXCEPT !.avail[c.repo] = "available"]

RemoveRepository(c) ==
  IF c.repo \notin Of(c.project) \/ Cardinality(Of(c.project)) <= 1
     \/ \E t \in Tasks : db.bound[t] = c.repo
  THEN None
  ELSE [db EXCEPT !.home[c.repo] = None]

BindTaskRepository(c) ==
  IF c.repo \notin Of(c.project) THEN None ELSE [db EXCEPT !.bound[c.task] = c.repo]

ClearTaskRepository(c) ==
  IF db.bound[c.task] \notin Of(c.project) THEN None ELSE [db EXCEPT !.bound[c.task] = None]

SwitchRows(c) ==
  IF db.pending # None THEN None
  ELSE [db EXCEPT !.pending = [request |-> c.request, from |-> db.active, to |-> c.project]]

Operation(c) ==
  CASE c.kind = "create"           -> CreateProject(c)
    [] c.kind = "role"             -> SetRoleAssignment(c)
    [] c.kind = "removeProject"    -> RemoveProject(c)
    [] c.kind = "add"              -> AddRepository(c)
    [] c.kind = "relocate"         -> RelocateRepository(c)
    [] c.kind = "removeRepository" -> RemoveRepository(c)
    [] c.kind = "bind"             -> BindTaskRepository(c)
    [] c.kind = "clear"            -> ClearTaskRepository(c)
    [] c.kind = "switch"           -> SwitchRows(c)

-----------------------------------------------------------------------------
(* The steps of a call.                                                    *)

At(w, pc)        == calls[w] # None /\ calls[w].pc = pc
Goto(w, pc)      == calls' = [calls EXCEPT ![w].pc = pc]
Return(w)        == calls' = [calls EXCEPT ![w] = None]
EndOperationKeepsIt(q) == live' = live \ {tracked[q]} /\ UNCHANGED tracked
EndOperation(q)  == /\ live' = live \ {tracked[q]}
                    /\ tracked' = [tracked EXCEPT ![q] = None]

FreshProject(p) == db.told[p] = None /\ \A w \in Windows : calls[w] # None => calls[w].project # p
FreshRepo(r)    == db.root[r] = None /\ \A w \in Windows : calls[w] # None => calls[w].repo # r

First(kind) ==
  CASE kind \in {"create", "add", "relocate"}                 -> "probe"
    [] kind \in {"switch", "snapshot", "reconcile", "source"} -> "list"
    [] kind = "cancelSwitch"                                  -> "cancel"
    [] OTHER                                                  -> "mutate"

\* What a caller can name: identities are handed out in no particular order, the rest is known.
ProjectsFor(k) ==
  CASE k = "create"                   -> {p \in Projects : FreshProject(p)}
    [] k \in {"snapshot", "reconcile"} -> {None}
    [] OTHER                           -> db.projects
ReposFor(k, p) ==
  CASE k \in {"create", "add"} -> {r \in Repos : FreshRepo(r)}
    [] k \in {"relocate", "removeRepository", "bind", "source"} -> Of(p)
    [] OTHER                   -> {None}
PathsFor(k) == IF k \in {"create", "add", "relocate"} THEN Paths ELSE {None}
TasksFor(k) == IF k \in {"bind", "clear"} THEN Tasks ELSE {None}

\* requested: the operation of the call starts and takes the place of the request's last one.
Requested(w, c) ==
  /\ calls[w] = None /\ accepting
  /\ calls' = [calls EXCEPT ![w] = c]
  /\ issued' = issued + 1
  /\ IF c.kind \in Tracked
     THEN /\ tracked' = [tracked EXCEPT ![c.request] = issued + 1]
          /\ live' = live \cup {issued + 1}
          /\ sent' = [sent EXCEPT ![c.request] = c]
     ELSE UNCHANGED <<tracked, live, sent>>
  /\ UNCHANGED <<db, disk, files, accepting, view, open, moves, applied>>

Ask(w) ==
  /\ issued < MaxCalls
  /\ \E k \in Kinds :
    \E q \in CASE k \in Tracked       -> {q \in Requests : sent[q] = None}
               [] k = "cancelSwitch" -> Requests
               [] OTHER              -> {None} :
    \E p \in ProjectsFor(k) : \E r \in ReposFor(k, p), a \in PathsFor(k), t \in TasksFor(k) :
      Requested(w, [kind |-> k, request |-> q, project |-> p, repo |-> r, path |-> a, task |-> t,
                    expect |-> view[w], pc |-> First(k), rows |-> {}, changes |-> {},
                    roots |-> {}, held |-> FALSE])

\* The same request once more: the answer was lost, or it is still being worked on.
Resend(w) ==
  /\ issued < MaxCalls + MaxResends
  /\ \E q \in Requests : sent[q] # None /\ Requested(w, sent[q])

\* completed: the operation ends and the caller gets a snapshot.
Complete(w) ==
  /\ At(w, "complete")
  /\ EndOperation(calls[w].request)
  /\ view' = [view EXCEPT ![w] = db.revision]
  /\ Return(w)
  /\ UNCHANGED <<db, disk, files, accepting, open, issued, moves, sent, applied>>

\* The catch of each method: createProject also removes the workspace it wrote.
Failed(w) ==
  /\ At(w, "failed")
  /\ EndOperation(calls[w].request)
  /\ files' = IF calls[w].kind = "create" THEN [files EXCEPT ![calls[w].project] = None] ELSE files
  /\ Return(w)
  /\ UNCHANGED <<db, disk, accepting, view, open, issued, moves, sent, applied>>

\* probe: Git answers for a directory that is there.
Probe(w) ==
  /\ At(w, "probe")
  /\ LET c == calls[w]
     IN  calls' = [calls EXCEPT ![w] = [c EXCEPT
           !.pc = IF c.path \notin disk THEN "failed" ELSE IF c.kind = "create" THEN "write" ELSE "mutate",
           !.roots = {c.path}]]
  /\ UNCHANGED <<db, disk, files, accepting, tracked, live, view, open, issued, moves, sent, applied>>

\* ProjectWorkspaceProjection.write: a temporary file renamed into place.
Write(w) ==
  /\ At(w, "write")
  /\ \/ /\ files' = [files EXCEPT ![calls[w].project] = calls[w].roots]
        /\ Goto(w, IF calls[w].kind \in {"create", "switch"} THEN "mutate" ELSE "complete")
     \/ /\ Goto(w, "failed")
        /\ UNCHANGED files
  /\ UNCHANGED <<db, disk, accepting, tracked, live, view, open, issued, moves, sent, applied>>

\* ProjectWorkspaceProjection.remove.
Unlink(w) ==
  /\ At(w, "unlink")
  /\ files' = [files EXCEPT ![calls[w].project] = None]
  /\ Goto(w, "complete")
  /\ UNCHANGED <<db, disk, accepting, tracked, live, view, open, issued, moves, sent, applied>>

Digest(c) == <<c.kind, c.project, c.repo, c.path, c.task, c.expect>>
Known(q)  == \E i \in DOMAIN db.results : db.results[i][1] = q
Before(q) == (CHOOSE i \in DOMAIN db.results : db.results[i][1] = q)

\* The rows a committed operation leaves: revision, result, and the oldest results dropped.
CommittedUnchecked(c) ==
  LET d == Operation(c)
  IN  IF d = None THEN None
      ELSE [d EXCEPT !.revision = @ + 1,
                     !.results = LET s == Append(@, <<c.request, Digest(c)>>)
                                 IN  SubSeq(s, IF Len(s) > KeptResults THEN 2 ELSE 1, Len(s))]

Committed(c) ==
  IF db.revision # c.expect \/ Operation(c) = None THEN None
  ELSE [Operation(c) EXCEPT !.revision = @ + 1,
          !.results = LET s == Append(@, <<c.request, Digest(c)>>)
                      IN  SubSeq(s, IF Len(s) > KeptResults THEN 2 ELSE 1, Len(s))]

\* Where a call goes when mutate returns: the rows refreshProjection reads are read in this step.
Proceed(w, d, executed) ==
  LET c == calls[w]
  IN  calls' = [calls EXCEPT ![w] = [c EXCEPT
        !.roots = RootsOf(d, c.project),
        !.pc = CASE c.kind \in RepoKinds -> "write"
                 [] c.kind = "create" /\ ~executed -> "unlink"
                 [] c.kind = "removeProject" -> "unlink"
                 [] c.kind = "switch" -> "ticket"
                 [] OTHER -> "complete"]]

\* mutateChecked: replay, revision, operation, event and result in one transaction.
Mutate(w) ==
  /\ At(w, "mutate")
  /\ LET c == calls[w]
     IN  \/ /\ accepting /\ Known(c.request)
            /\ IF db.results[Before(c.request)][2] = Digest(c)
               THEN Proceed(w, db, FALSE)
               ELSE Goto(w, "failed")
            /\ UNCHANGED <<db, applied>>
         \/ /\ accepting /\ ~Known(c.request) /\ Committed(c) # None
            /\ db' = Committed(c)
            /\ applied' = [applied EXCEPT ![c.request] = @ + 1]
            /\ Proceed(w, Committed(c), TRUE)
         \/ /\ ~accepting \/ (~Known(c.request) /\ Committed(c) = None)
            /\ Goto(w, "failed")
            /\ UNCHANGED <<db, applied>>
  /\ UNCHANGED <<disk, files, accepting, tracked, live, view, open, issued, moves, sent>>

-----------------------------------------------------------------------------
(* refreshRepositoryAvailability: the rows are read, every root is looked  *)
(* at in turn, and what changed is written in one transaction.             *)

\* The first read.  rows: the repositories still to look at, in the order of their random ids.
List(w) ==
  /\ At(w, "list")
  /\ calls' = [calls EXCEPT ![w].pc = "look", ![w].changes = {},
       ![w].rows = {[repo |-> r, project |-> db.home[r], root |-> db.root[r], avail |-> db.avail[r]] :
                      r \in {r \in Repos : db.home[r] # None}}]
  /\ UNCHANGED <<db, disk, files, accepting, tracked, live, view, open, issued, moves, sent, applied>>

Look(w) ==
  /\ At(w, "look")
  /\ \E row \in calls[w].rows :
     LET now == IF row.root \in disk THEN "available" ELSE "missing"
     IN  calls' = [calls EXCEPT ![w].rows = @ \ {row},
                     ![w].changes = IF now = row.avail THEN @
                                    ELSE @ \cup {[repo |-> row.repo, project |-> row.project, avail |-> now]}]
  /\ UNCHANGED <<db, disk, files, accepting, tracked, live, view, open, issued, moves, sent, applied>>

\* The rows after the changes; the event of a project is worked out from the rows it has then.
RevalidatedEarly(changes) ==
  IF changes = {} THEN db
  ELSE [db EXCEPT !.revision = @ + 1,
          !.avail = [r \in Repos |-> IF db.home[r] # None /\ \E c \in changes : c.repo = r
                                     THEN (CHOOSE c \in changes : c.repo = r).avail ELSE @[r]],
          !.told = [p \in Projects |-> IF \E c \in changes : c.project = p
                                       THEN IF Available(db, p) THEN "available" ELSE "unavailable" ELSE @[p]]]

Revalidated(changes) ==
  LET after == [r \in Repos |-> IF db.home[r] # None /\ \E c \in changes : c.repo = r
                                THEN (CHOOSE c \in changes : c.repo = r).avail ELSE db.avail[r]]
      lost(p) == \E r \in Of(p) : after[r] # "available"
  IN  IF changes = {} THEN db
      ELSE [db EXCEPT !.revision = @ + 1, !.avail = after,
              !.told = [p \in Projects |-> IF \E c \in changes : c.project = p
                                           THEN IF lost(p) THEN "unavailable" ELSE "available" ELSE @[p]]]

Refresh(w) ==
  /\ At(w, "look") /\ calls[w].rows = {}
  /\ db' = Revalidated(calls[w].changes)
  /\ Goto(w, CASE calls[w].kind = "switch"    -> "target"
               [] calls[w].kind = "reconcile" -> "reconcile"
               [] calls[w].kind = "snapshot"  -> "snapshot"
               [] OTHER -> IF calls[w].held THEN "after" ELSE "before")
  /\ UNCHANGED <<disk, files, accepting, tracked, live, view, open, issued, moves, sent, applied>>

\* snapshot: what a window's load() shows.
Snapshot(w) ==
  /\ At(w, "snapshot")
  /\ view' = [view EXCEPT ![w] = db.revision]
  /\ Return(w)
  /\ UNCHANGED <<db, disk, files, accepting, tracked, live, open, issued, moves, sent, applied>>

-----------------------------------------------------------------------------
(* resolveSourceBinding: a binding, a measurement of its directory, and    *)
(* the binding again.                                                      *)

\* resolveBinding of an available repository of the active project.
Bound(p, r) == db.active = p /\ db.home[r] = p /\ Available(db, p)

\* held is worked out at the measurement: the binding was good while Git was asked.
BindingBefore(w) ==
  /\ At(w, "before")
  /\ LET c == calls[w]
     IN  IF Bound(c.project, c.repo)
         THEN calls' = [calls EXCEPT ![w] = [c EXCEPT !.pc = "measure", !.path = db.root[c.repo],
                                                      !.expect = db.revision]]
         ELSE Return(w)
  /\ UNCHANGED <<db, disk, files, accepting, tracked, live, view, open, issued, moves, sent, applied>>

Measure(w) ==
  /\ At(w, "measure")
  /\ LET c == calls[w]
     IN  IF c.path \in disk
         THEN calls' = [calls EXCEPT ![w] = [c EXCEPT !.pc = "list", !.held = TRUE,
                          !.roots = IF Bound(c.project, c.repo) THEN {c.path} ELSE {}]]
         ELSE Return(w)
  /\ UNCHANGED <<db, disk, files, accepting, tracked, live, view, open, issued, moves, sent, applied>>

SameRoot(c)    == db.root[c.repo] = c.path

\* sameBinding compares the registry's revision with the rest.
SameBinding(c) == Bound(c.project, c.repo) /\ db.root[c.repo] = c.path /\ db.revision = c.expect

BindingAfter(w) ==
  /\ At(w, "after")
  /\ IF SameBinding(calls[w]) THEN Goto(w, "sourced") ELSE Return(w)
  /\ UNCHANGED <<db, disk, files, accepting, tracked, live, view, open, issued, moves, sent, applied>>

Sourced(w) ==
  /\ At(w, "sourced")
  /\ Return(w)
  /\ UNCHANGED <<db, disk, files, accepting, tracked, live, view, open, issued, moves, sent, applied>>

-----------------------------------------------------------------------------
(* Switching.                                                              *)

\* requestSwitch after its refresh: the target is checked and its roots are read.
Target(w) ==
  /\ At(w, "target")
  /\ LET c == calls[w]
     IN  IF Available(db, c.project)
         THEN calls' = [calls EXCEPT ![w] = [c EXCEPT !.pc = "write", !.roots = RootsOf(db, c.project)]]
         ELSE Goto(w, "failed")
  /\ UNCHANGED <<db, disk, files, accepting, tracked, live, view, open, issued, moves, sent, applied>>

\* The widget opens the ticket's workspace, or gives the switch up; the operation stays tracked.
Ticket(w) ==
  /\ At(w, "ticket")
  /\ \/ /\ open' = [open EXCEPT ![w] = calls[w].project]
        /\ calls' = [calls EXCEPT ![w].kind = "reconcile", ![w].pc = "list"]
     \/ /\ calls' = [calls EXCEPT ![w].kind = "cancelSwitch", ![w].pc = "cancel"]
        /\ UNCHANGED open
  /\ UNCHANGED <<db, disk, files, accepting, tracked, live, view, issued, moves, sent, applied>>

Cleared(d) == [d EXCEPT !.pending = None, !.revision = @ + 1]

\* reconcileWorkspace with a switch pending.
ReconcilePending(w) ==
  /\ At(w, "reconcile") /\ db.pending # None
  /\ \/ /\ ~Available(db, db.pending.to)
        /\ db' = Cleared(db)
        /\ UNCHANGED <<tracked, live, open>>
     \/ /\ Available(db, db.pending.to) /\ open[w] = db.pending.to
        /\ db' = [Cleared(db) EXCEPT !.active = db.pending.to]
        /\ EndOperation(db.pending.request)
        /\ UNCHANGED open
     \/ /\ Available(db, db.pending.to) /\ open[w] # db.pending.to
        /\ db' = Cleared(db)
        /\ EndOperation(db.pending.request)
        /\ open' = IF db.pending.from = None THEN open ELSE [open EXCEPT ![w] = db.pending.from]
  /\ Return(w)
  /\ UNCHANGED <<disk, files, accepting, view, issued, moves, sent, applied>>

\* reconcileWorkspace with none: the active project's workspace is reopened.
ReconcileActive(w) ==
  /\ At(w, "reconcile") /\ db.pending = None
  /\ open' = IF db.active # None /\ Available(db, db.active) THEN [open EXCEPT ![w] = db.active] ELSE open
  /\ Return(w)
  /\ UNCHANGED <<db, disk, files, accepting, tracked, live, view, issued, moves, sent, applied>>

CancelSwitch(w) ==
  /\ At(w, "cancel")
  /\ IF db.pending # None /\ db.pending.request = calls[w].request
     THEN db' = Cleared(db) /\ EndOperation(calls[w].request)
     ELSE UNCHANGED <<db, tracked, live>>
  /\ Return(w)
  /\ UNCHANGED <<disk, files, accepting, view, open, issued, moves, sent, applied>>

-----------------------------------------------------------------------------
(* The world around: directories come and go, the backend stops and starts. *)

DiskChanges ==
  /\ moves < MaxMoves
  /\ \E a \in Paths : disk' = IF a \in disk THEN disk \ {a} ELSE disk \cup {a}
  /\ moves' = moves + 1
  /\ UNCHANGED <<db, files, accepting, calls, tracked, live, view, open, issued, sent, applied>>

\* onStop: nothing is accepted from here on, and probes in flight are cancelled.
Stop ==
  /\ accepting
  /\ accepting' = FALSE
  /\ calls' = [w \in Windows |-> IF At(w, "probe") THEN [calls[w] EXCEPT !.pc = "failed"] ELSE calls[w]]
  /\ UNCHANGED <<db, disk, files, tracked, live, view, open, issued, moves, sent, applied>>

\* recoverExpiredSwitch: a switch pending for more than thirty seconds is dropped.
Unexpired == IF db.pending = None THEN {db} ELSE {db, Cleared(db)}

\* onStart on the same database: calls and tracked operations are gone, every root is looked at.
Start ==
  /\ ~accepting
  /\ \E d \in Unexpired :
       LET now(r) == IF d.root[r] \in disk THEN "available" ELSE "missing"
           moved  == {r \in Repos : d.home[r] # None /\ d.avail[r] # now(r)}
           lost(p) == \E r \in Repos : d.home[r] = p /\ now(r) # "available"
       IN  db' = IF moved = {} THEN d
                 ELSE [d EXCEPT !.revision = @ + 1,
                         !.avail = [r \in Repos |-> IF r \in moved THEN now(r) ELSE @[r]],
                         !.told = [p \in Projects |-> IF \E r \in moved : d.home[r] = p
                                                      THEN IF lost(p) THEN "unavailable" ELSE "available" ELSE @[p]]]
  /\ accepting' = TRUE
  /\ calls' = [w \in Windows |-> None]
  /\ tracked' = [q \in Requests |-> None]
  /\ live' = {}
  /\ UNCHANGED <<disk, files, view, open, issued, moves, sent, applied>>

WindowStep(w) ==
  \/ Ask(w) \/ Resend(w) \/ Complete(w) \/ Failed(w) \/ Probe(w) \/ Write(w) \/ Unlink(w) \/ Mutate(w)
  \/ List(w) \/ Look(w) \/ Refresh(w) \/ Snapshot(w)
  \/ BindingBefore(w) \/ Measure(w) \/ BindingAfter(w) \/ Sourced(w)
  \/ Target(w) \/ Ticket(w) \/ ReconcilePending(w) \/ ReconcileActive(w) \/ CancelSwitch(w)

Next == (\E w \in Windows : WindowStep(w)) \/ DiskChanges \/ Stop \/ Start

Spec == Init /\ [][Next]_vars

-----------------------------------------------------------------------------
(* The rows, the calls and the operations in memory have their types; an   *)
(* operation a request is tracked by is one that has not ended.            *)
TypeOK ==
  /\ db \in Rows /\ disk \subseteq Paths
  /\ files \in [Projects -> OrNone(SUBSET OrNone(Paths))]
  /\ accepting \in BOOLEAN
  /\ calls \in [Windows -> OrNone(Calls)]
  /\ live \subseteq 1..issued
  /\ tracked \in [Requests -> live \cup {None}]
  /\ view \in [Windows -> Nat] /\ open \in [Windows -> OrNone(Projects)]
  /\ issued \in Nat /\ moves \in Nat
  /\ sent \in [Requests -> OrNone(Calls)]
  /\ applied \in [Requests -> Nat]

(* What a row names exists: the active project, both ends of a pending     *)
(* switch, and the repository of each task (requestSwitch never asks again *)
(* whether its target is still there after its awaits).                    *)
ReferencesHold ==
  /\ db.active \in db.projects \cup {None}
  /\ db.pending # None => db.pending.to \in db.projects /\ db.pending.from \in db.projects \cup {None}
  /\ \A r \in Repos : db.home[r] \in db.projects \cup {None}
  /\ \A t \in Tasks : db.bound[t] # None => db.home[db.bound[t]] # None

(* A request is carried out at most once, although its result is forgotten *)
(* when enough later ones were stored and it may be sent again.            *)
AppliedOnce == \A q \in Requests : applied[q] <= 1

(* A project with a missing repository is one the owner's events called    *)
(* unavailable last, whatever changed while the roots were looked at.      *)
UnavailableIsTold ==
  \A p \in db.projects : ~Available(db, p) => db.told[p] = "unavailable"

(* A source measurement is handed out only if the binding held at the      *)
(* moment Git was asked, between the two readings of the registry.         *)
MeasuredWhileBound == \A w \in Windows : At(w, "sourced") => calls[w].roots # {}
=============================================================================
