----------------------------- MODULE Marketplace -----------------------------
(***************************************************************************)
(* One package of the marketplace: what the registry offers, the versions  *)
(* kept under the state directory and the one `current' names              *)
(* (marketplace-client.ts), the service that installs, updates, rolls back *)
(* and removes for the windows (marketplace-service-impl.ts), and what the *)
(* plugin host runs, from the start on (signed-plugin-resolver.ts).        *)
(*                                                                         *)
(* Nothing orders the calls of two windows, and the temporary directory of *)
(* a version is named after the process, so that overlapping calls share   *)
(* it.  A version that runs goes on running when another is deployed.      *)
(***************************************************************************)
EXTENDS Naturals, FiniteSets

CONSTANTS
  Windows,
  Versions,     \* numbers, in the order of their names
  MaxCrashes    \* bound: the backend dies

MarketBounds == IsFiniteSet(Versions) /\ Versions \subseteq Nat \ {0} /\ MaxCrashes \in Nat

VARIABLES
  partial,      \* what is in the temporary directory of each version
  kept,         \* what is in the directory of each version
  current,      \* the version the file names, or 0
  running,      \* the versions deployed in the plugin host
  job,          \* of each window: [op, version, next]
  busy,         \* the widget's flag
  overlapped,   \* two calls that change the package ran at a time
  crashes

vars == <<partial, kept, current, running, job, busy, overlapped, crashes>>
disk == <<partial, kept, current>>

Idle == [op |-> "none", version |-> 0, next |-> "none"]
Present == {v \in Versions : kept[v] # "absent"}

Init ==
  /\ partial = [v \in Versions |-> "absent"] /\ kept = [v \in Versions |-> "absent"]
  /\ current = 0 /\ running = {}
  /\ job = [w \in Windows |-> Idle] /\ busy = [w \in Windows |-> FALSE]
  /\ overlapped = FALSE /\ crashes = 0

Goto(w, step) == job' = [job EXCEPT ![w].next = step]

---------------------------------------------------------------------------
(* The widget: one call at a time in a window.                             *)

Call(w, op, version, step) ==
  /\ ~busy[w] /\ busy' = [busy EXCEPT ![w] = TRUE]
  /\ job' = [job EXCEPT ![w] = [op |-> op, version |-> version, next |-> step]]
  /\ overlapped' = (overlapped \/ \E x \in Windows : job[x].op # "none")
  /\ UNCHANGED <<disk, running, crashes>>

\* details: the registry answers with a version, for an update the latest one.
\* The list of a window may be old: it asks for what another has removed.
Install(w) == \E v \in Versions : Call(w, "install", v, "fetch")
Update(w) == \E v \in Versions : Call(w, "update", v, "fetch")
Rollback(w) == Call(w, "rollback", 0, "choose")
Remove(w) == Call(w, "remove", 0, "undeploy")

\* The call answers or is refused; either way the window may ask again.
Return(w) == job' = [job EXCEPT ![w] = Idle] /\ busy' = [busy EXCEPT ![w] = FALSE]

---------------------------------------------------------------------------
(* install of the client. The manifest is verified before the artifact is  *)
(* fetched and with it: signed, compatible, not revoked.                   *)

Fetch(w) ==
  /\ job[w].next = "fetch"
  /\ \/ Goto(w, "clear") /\ UNCHANGED busy
     \/ Return(w)
  /\ UNCHANGED <<disk, running, overlapped, crashes>>

\* (mutant: the old directory goes before the new one is written)
ClearBoth(w) ==
  /\ job[w].next = "clear" /\ Goto(w, "write")
  /\ partial' = [partial EXCEPT ![job[w].version] = "empty"]
  /\ kept' = [kept EXCEPT ![job[w].version] = "absent"]
  /\ UNCHANGED <<current, running, busy, overlapped, crashes>>

Clear(w) ==
  /\ job[w].next = "clear" /\ Goto(w, "write")
  /\ partial' = [partial EXCEPT ![job[w].version] = "empty"]
  /\ UNCHANGED <<kept, current, running, busy, overlapped, crashes>>

\* A directory that another call has moved or cleared refuses the write.
Write(w) ==
  /\ job[w].next = "write"
  /\ IF partial[job[w].version] = "absent" THEN Return(w) /\ UNCHANGED partial
     ELSE partial' = [partial EXCEPT ![job[w].version] = "whole"] /\ Goto(w, "drop") /\ UNCHANGED busy
  /\ UNCHANGED <<kept, current, running, overlapped, crashes>>

Drop(w) ==
  /\ job[w].next = "drop" /\ Goto(w, "rename")
  /\ kept' = [kept EXCEPT ![job[w].version] = "absent"]
  /\ UNCHANGED <<partial, current, running, busy, overlapped, crashes>>

Rename(w) ==
  /\ job[w].next = "rename"
  /\ LET v == job[w].version
     IN IF partial[v] = "absent" \/ kept[v] # "absent" THEN Return(w) /\ UNCHANGED <<partial, kept>>
        ELSE /\ kept' = [kept EXCEPT ![v] = partial[v]] /\ partial' = [partial EXCEPT ![v] = "absent"]
             /\ Goto(w, "name") /\ UNCHANGED busy
  /\ UNCHANGED <<current, running, overlapped, crashes>>

\* The name is written when the package's directory is there at all.
Name(w) ==
  /\ job[w].next = "name"
  /\ IF Present = {} THEN Return(w) /\ UNCHANGED current
     ELSE current' = job[w].version /\ Goto(w, "deploy") /\ UNCHANGED busy
  /\ UNCHANGED <<partial, kept, running, overlapped, crashes>>

\* install deploys its version, the others what `current' names by then.
Deploy(w) ==
  /\ job[w].next = "deploy" /\ Return(w)
  /\ running' = running \union (IF job[w].op = "install" THEN {job[w].version} ELSE {current} \ {0})
  /\ UNCHANGED <<disk, overlapped, crashes>>

---------------------------------------------------------------------------
(* rollback and remove.                                                    *)

\* The last but one of the kept versions, whichever is current.
BeforeLast(some) == CHOOSE v \in some : Cardinality({x \in some : x > v}) = 1

Choose(w) ==
  /\ job[w].next = "choose"
  /\ IF Cardinality(Present) < 2 THEN Return(w) /\ UNCHANGED current
     ELSE current' = BeforeLast(Present) /\ Goto(w, "deploy") /\ UNCHANGED busy
  /\ UNCHANGED <<partial, kept, running, overlapped, crashes>>

\* Only the version that is current is taken from the plugin host.
Undeploy(w) ==
  /\ job[w].next = "undeploy" /\ Goto(w, "delete")
  /\ running' = running \ {current}
  /\ UNCHANGED <<disk, busy, overlapped, crashes>>

Delete(w) ==
  /\ job[w].next = "delete" /\ Return(w)
  /\ partial' = [v \in Versions |-> "absent"] /\ kept' = [v \in Versions |-> "absent"] /\ current' = 0
  /\ UNCHANGED <<running, overlapped, crashes>>

---------------------------------------------------------------------------

\* The backend dies; at the next start the installed packages are deployed.
Crash ==
  /\ crashes < MaxCrashes /\ crashes' = crashes + 1
  /\ job' = [w \in Windows |-> Idle] /\ busy' = [w \in Windows |-> FALSE]
  /\ running' = {current} \ {0}
  /\ overlapped' = (overlapped \/ \E w \in Windows : job[w].next = "rename")
  /\ UNCHANGED <<disk>>

Next ==
  \/ Crash
  \/ \E w \in Windows :
       \/ Install(w) \/ Update(w) \/ Rollback(w) \/ Remove(w)
       \/ Fetch(w) \/ Clear(w) \/ Write(w) \/ Drop(w) \/ Rename(w) \/ Name(w) \/ Deploy(w)
       \/ Choose(w) \/ Undeploy(w) \/ Delete(w)

Spec == Init /\ [][Next]_vars

---------------------------------------------------------------------------

TypeOK ==
  /\ partial \in [Versions -> {"absent", "empty", "whole"}]
  /\ kept \in [Versions -> {"absent", "empty", "whole"}]
  /\ current \in Versions \union {0} /\ running \subseteq Versions
  /\ \A w \in Windows : busy[w] <=> job[w].op # "none"

\* As long as calls do not overlap, and the backend does not die just before a
\* rename, `current' names a version that is there and whole, but for the moment
\* in which that version is replaced (install, marketplace-client.ts:60).
CurrentIsWhole ==
  current # 0 /\ ~overlapped =>
    \/ kept[current] = "whole"
    \/ \E w \in Windows : job[w].next = "rename" /\ job[w].version = current
=============================================================================
