--------------------------- MODULE CredentialFile ---------------------------
(***************************************************************************)
(* The file of the credential store (credential-store.ts): every change    *)
(* reads the file, changes one record and writes all of it back.  The      *)
(* browser's store writes a temporary file, whose name all calls of one    *)
(* backend share, and renames it; the desktop's writes the file in place.  *)
(* A file is an inode: a rename moves it, and who has it open goes on      *)
(* writing into it.                                                        *)
(***************************************************************************)
EXTENDS Naturals, FiniteSets

CONSTANTS
  Calls,            \* changes of the store, each of one record
  Keys,             \* KeyOf, Removes: what each of them changes
  KeyOf,
  Removes,
  MaxCrashes

CallsAreGiven ==
  /\ IsFiniteSet(Calls) /\ {"empty", "torn"} \intersect Calls = {}
  /\ KeyOf \in [Calls -> Keys] /\ Removes \subseteq Calls /\ MaxCrashes \in Nat

VARIABLES
  inPlace,          \* the desktop's store
  inode,            \* inode -> what it holds: a set of records, Empty or Torn
  destination, temporary,   \* the inodes the two names refer to, or 0
  at,               \* where each call is
  base,             \* records of each call: what it has read, changed
  opened,           \* the inode each call writes
  overlapped,       \* history: two calls were under way at once
  crashes

vars == <<inPlace, inode, destination, temporary, at, base, opened, overlapped, crashes>>

\* A record is the call that set it; a file that was
\* emptied, and one in which the end of a longer text follows, hold no JSON.
Empty == {"empty"}
Torn == {"torn"}
Readable(records) == records \notin {Empty, Torn}
Inodes == 1..(Cardinality(Calls) + 1)
Busy(c) == at[c] \notin {"idle", "done", "failed"}
NoOther(c) == \A d \in Calls \ {c} : ~Busy(d)

Init ==
  /\ inPlace \in BOOLEAN /\ inode = [i \in Inodes |-> {}] /\ destination = 1 /\ temporary = 0
  /\ at = [c \in Calls |-> "idle"] /\ base = [c \in Calls |-> {}] /\ opened = [c \in Calls |-> 0]
  /\ overlapped = FALSE /\ crashes = 0

\* (mutant: the file is written with this record only)
ChangedAlone(c, records) == IF c \in Removes THEN {} ELSE {c}

\* The records, with the one of this call put in or taken out.
Changed(c, records) ==
  {d \in records : KeyOf[d] # KeyOf[c]} \union (IF c \in Removes THEN {} ELSE {c})

\* read: a file that is not whole is an error of the call.
Read(c) ==
  /\ at[c] = "idle"
  /\ overlapped' = (overlapped \/ ~NoOther(c))
  /\ IF ~Readable(inode[destination]) THEN at' = [at EXCEPT ![c] = "failed"] /\ UNCHANGED base
     ELSE /\ at' = [at EXCEPT ![c] = "read"]
          /\ base' = [base EXCEPT ![c] = Changed(c, inode[destination])]
  /\ UNCHANGED <<inPlace, inode, destination, temporary, opened, crashes>>

Fresh == CHOOSE i \in Inodes : i # destination /\ \A c \in Calls : Busy(c) => opened[c] # i

\* (mutant: the browser's store writes in place too)
TargetInPlace == destination
Target == IF inPlace THEN destination ELSE IF temporary # 0 THEN temporary ELSE Fresh

\* writeFile opens the file, which empties it.
OpenFile(c) ==
  /\ at[c] = "read"
  /\ at' = [at EXCEPT ![c] = "writing"]
  /\ opened' = [opened EXCEPT ![c] = Target]
  /\ inode' = [inode EXCEPT ![Target] = Empty]
  /\ temporary' = IF Target = destination THEN temporary ELSE Target
  /\ UNCHANGED <<inPlace, destination, base, overlapped, crashes>>

Shorter(old, new) == old # Torn /\ Cardinality(old) <= Cardinality(new)

\* What it writes covers what another call wrote there, unless it is shorter.
WriteFile(c) ==
  /\ at[c] = "writing"
  /\ at' = [at EXCEPT ![c] = IF opened[c] = destination /\ inPlace THEN "done" ELSE "written"]
  /\ \E text \in {base[c], Torn} :
       /\ text = Torn => inode[opened[c]] # Empty /\ ~Shorter(inode[opened[c]], base[c])
       /\ text # Torn => inode[opened[c]] \in {Empty, Torn} \/ Shorter(inode[opened[c]], base[c])
       /\ inode' = [inode EXCEPT ![opened[c]] = text]
  /\ UNCHANGED <<inPlace, destination, temporary, base, opened, overlapped, crashes>>

Rename(c) ==
  /\ at[c] = "written"
  /\ IF temporary = 0 THEN at' = [at EXCEPT ![c] = "failed"] /\ UNCHANGED destination
     ELSE at' = [at EXCEPT ![c] = "done"] /\ destination' = temporary
  /\ temporary' = 0
  /\ UNCHANGED <<inPlace, inode, base, opened, overlapped, crashes>>

\* The backend dies; the next one uses another temporary name.
Crash ==
  /\ crashes < MaxCrashes /\ \E c \in Calls : Busy(c)
  /\ crashes' = crashes + 1
  /\ at' = [c \in Calls |-> IF Busy(c) THEN "failed" ELSE at[c]]
  /\ temporary' = 0
  /\ UNCHANGED <<inPlace, inode, destination, base, opened, overlapped>>

Next == Crash \/ \E c \in Calls : Read(c) \/ OpenFile(c) \/ WriteFile(c) \/ Rename(c)

Spec == Init /\ [][Next]_vars

---------------------------------------------------------------------------

TypeOK ==
  /\ \A i \in Inodes : ~Readable(inode[i]) \/ inode[i] \subseteq Calls
  /\ destination \in Inodes /\ temporary \in Inodes \union {0}
  /\ at \in [Calls -> {"idle", "read", "writing", "written", "done", "failed"}]
  /\ base \in [Calls -> SUBSET Calls] /\ opened \in [Calls -> Inodes \union {0}]

\* While calls do not overlap, no crash at any point leaves the browser's file
\* unreadable (write, credential-store.ts:147: a temporary file and a rename).
WholeUnlessOverlapped == ~inPlace /\ ~overlapped => Readable(inode[destination])

\* No call but these two is about the key of the first, and the second is not.
Sole(d, c) == KeyOf[c] # KeyOf[d] /\ \A e \in Calls \ {d} : KeyOf[e] = KeyOf[d] => at[e] = "idle"

\* A call that met no other one and is done has changed its own record and
\* kept the others: what a client stored stays until it is replaced or deleted.
ChangesAreExact ==
  [][\A c \in Calls :
       at[c] # "done" /\ at'[c] = "done" /\ ~overlapped =>
         /\ \A d \in base[c] : KeyOf[d] = KeyOf[c] => d = c
         /\ c \in Removes \/ c \in inode'[destination']
         /\ \A d \in Calls : at[d] = "done" /\ d \notin Removes /\ Sole(d, c) => d \in inode'[destination']]_vars
=============================================================================
