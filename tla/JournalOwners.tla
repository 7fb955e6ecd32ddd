---------------------------- MODULE JournalOwners ----------------------------
(***************************************************************************)
(* The two owners that tell the read model of operations what is in the    *)
(* journal of the kernel: of the executed checks                           *)
(* (check-operations-owner.ts), and of the evidence and the verdicts       *)
(* (ranex-operations-owner.ts).  An owner keeps no position: whenever it   *)
(* is refreshed it numbers all of its facts again, in the order of the     *)
(* journal, and tells every event once more.  The services refresh it      *)
(* between the kernel's answer and their own.                              *)
(*                                                                         *)
(* The kernel refuses an evidence or a verdict whose identity it has; it   *)
(* does not look at the identity of an execution.                          *)
(***************************************************************************)
EXTENDS Naturals, Sequences, FiniteSets

CONSTANTS
  Ids,          \* identities the callers give their facts
  MaxFacts,     \* bound: the length of the journal
  MaxCrashes    \* bound: the backend dies

Kinds == {"execution", "evidence", "verdict"}
Owners == {"check", "ranex"}

VARIABLES
  journal,      \* the facts, [kind, id]
  up,           \* the owners that are open
  told,         \* what the read model has of each: <<number, place in the journal>>
  call,         \* of each kind the request under way: [at, id, place]
  kept,         \* places that were answered 'succeeded' by a service whose owner is open
  crashes

vars == <<journal, up, told, call, kept, crashes>>

Idle == [at |-> "idle", id |-> "none", place |-> 0]

Init ==
  /\ journal = <<>> /\ up = {} /\ told = [o \in Owners |-> {}]
  /\ call = [k \in Kinds |-> Idle] /\ kept = {} /\ crashes = 0

---------------------------------------------------------------------------
(* What an owner makes of the journal.                                     *)

Places(kinds) == {i \in DOMAIN journal : journal[i].kind \in kinds}
Number(places, i) == Cardinality({j \in places : j <= i})
Numbered(places) == {<<Number(places, i), i>> : i \in places}

\* mapEvents of the check owner throws when an execution's identity recurs.
Ambiguous == \E i, j \in Places({"execution"}) : i # j /\ journal[i].id = journal[j].id
CheckEvents == Numbered(Places({"execution"}))

\* (mutant: evidence is numbered before the verdicts)
RanexEventsByKind ==
  LET evidence == Places({"evidence"})
  IN Numbered(evidence)
       \union {<<Cardinality(evidence) + Number(Places({"verdict"}), i), i>> : i \in Places({"verdict"})}

RanexEvents == Numbered(Places({"evidence", "verdict"}))

TellCheck == told' = [told EXCEPT !["check"] = @ \union CheckEvents]
TellRanex == told' = [told EXCEPT !["ranex"] = @ \union RanexEvents]

\* An owner whose first refresh throws stays closed until the next start.
StartCheck ==
  /\ "check" \notin up /\ ~Ambiguous
  /\ up' = up \union {"check"} /\ TellCheck
  /\ UNCHANGED <<journal, call, kept, crashes>>

StartRanex ==
  /\ "ranex" \notin up
  /\ up' = up \union {"ranex"} /\ TellRanex
  /\ UNCHANGED <<journal, call, kept, crashes>>

---------------------------------------------------------------------------
(* The services.                                                           *)

Ask(kind, id) ==
  /\ call[kind].at = "idle" /\ Len(journal) < MaxFacts
  /\ call' = [call EXCEPT ![kind] = [at |-> "asked", id |-> id, place |-> 0]]
  /\ UNCHANGED <<journal, up, told, kept, crashes>>

\* The check process is attested, and as the execution says.
ExecuteCheck(id) == Ask("execution", id)
\* The mode allows it, the admission resolves, the subject is clean and the task's.
Admit(id) == Ask("evidence", id)
Evaluate(id) == Ask("verdict", id)

Known(kind, id) == \E i \in DOMAIN journal : journal[i] = [kind |-> kind, id |-> id]

\* The adapter: the request is refused, or the fact is in the journal and the
\* answer comes back or is lost.
Answer(kind) ==
  /\ call[kind].at = "asked"
  /\ \/ /\ call' = [call EXCEPT ![kind] = Idle] /\ UNCHANGED journal
     \/ /\ ~(kind \in {"evidence", "verdict"} /\ Known(kind, call[kind].id)) /\ Len(journal) < MaxFacts
        /\ journal' = Append(journal, [kind |-> kind, id |-> call[kind].id])
        /\ \/ call' = [call EXCEPT ![kind].at = "answered", ![kind].place = Len(journal) + 1]
           \/ call' = [call EXCEPT ![kind] = Idle]
  /\ UNCHANGED <<up, told, kept, crashes>>

Succeeds(kind) == kept' = kept \union {call[kind].place}

\* (mutant: the failed refresh is not told to the caller)
CheckExecutedAnyway ==
  /\ call["execution"].at = "answered" /\ call' = [call EXCEPT !["execution"] = Idle]
  /\ IF "check" \notin up THEN UNCHANGED <<told, kept>>
     ELSE Succeeds("execution") /\ IF Ambiguous THEN UNCHANGED told ELSE TellCheck
  /\ UNCHANGED <<journal, up, crashes>>

\* A closed owner tells nothing and throws nothing; one that cannot map the
\* journal makes the outcome unknown.
CheckExecuted ==
  /\ call["execution"].at = "answered" /\ call' = [call EXCEPT !["execution"] = Idle]
  /\ IF "check" \notin up \/ Ambiguous THEN UNCHANGED <<told, kept>>
     ELSE TellCheck /\ Succeeds("execution")
  /\ UNCHANGED <<journal, up, crashes>>

\* The cleanup of the operation may fail after the refresh: the call is refused
\* although the fact is there.
Answered(kind) ==
  /\ call[kind].at = "answered" /\ call' = [call EXCEPT ![kind] = Idle]
  /\ IF "ranex" \notin up THEN UNCHANGED <<told, kept>>
     ELSE TellRanex /\ (Succeeds(kind) \/ UNCHANGED kept)
  /\ UNCHANGED <<journal, up, crashes>>

Admitted == Answered("evidence")
Evaluated == Answered("verdict")

\* The backend dies, or while an owner tells its events: then the read model has
\* some of the first of them.
Crash ==
  /\ crashes < MaxCrashes /\ crashes' = crashes + 1
  /\ up' = {} /\ call' = [k \in Kinds |-> Idle]
  /\ \/ UNCHANGED told
     \/ \E n \in 1..Len(journal), o \in up :
          /\ ~(o = "check" /\ Ambiguous)
          /\ told' = [told EXCEPT ![o] = @ \union {e \in IF o = "check" THEN CheckEvents ELSE RanexEvents : e[1] <= n}]
  /\ UNCHANGED <<journal, kept>>

Next ==
  \/ StartCheck \/ StartRanex \/ Crash
  \/ \E id \in Ids : ExecuteCheck(id) \/ Admit(id) \/ Evaluate(id)
  \/ \E kind \in Kinds : Answer(kind)
  \/ CheckExecuted \/ Admitted \/ Evaluated

Spec == Init /\ [][Next]_vars

---------------------------------------------------------------------------

TypeOK ==
  /\ journal \in Seq([kind : Kinds, id : Ids]) /\ Len(journal) <= MaxFacts
  /\ up \subseteq Owners
  /\ told \in [Owners -> SUBSET (Nat \X Nat)] /\ kept \subseteq DOMAIN journal

\* However often an owner is refreshed and wherever a crash cuts it short, the
\* read model never has two facts under one number nor one fact under two: the
\* chain of mapEvents is the same each time.
NumbersNeverChange ==
  \A o \in Owners : \A e, f \in told[o] : e[1] = f[1] <=> e[2] = f[2]

\* What a service answers with success while its owner is open is in the read
\* model by then.
AnsweredIsTold ==
  \A i \in kept : \E o \in Owners : \E e \in told[o] : e[2] = i
=============================================================================
