----------------------- MODULE ProjectRegistryProofs -----------------------
(* Theorems about ProjectRegistry that hold for every choice of its        *)
(* constants: any number of windows, projects, repositories and requests.  *)
EXTENDS ProjectRegistry, TLAPS, SequenceTheorems

(* Rows: what every committed change of the database keeps *)

Refs(d) ==
  /\ d.active \in d.projects \cup {None}
  /\ d.pending # None => d.pending.to \in d.projects /\ d.pending.from \in d.projects \cup {None}
  /\ \A r \in Repos : d.home[r] \in d.projects \cup {None}
  /\ \A t \in Tasks : d.bound[t] # None => d.home[d.bound[t]] # None

Told(d) ==
  /\ \A p \in d.projects : ~Available(d, p) => d.told[p] = "unavailable"
  /\ \A p \in d.projects : d.told[p] # None

\* A repository without a root was never inserted.
Rooted(d) == \A r \in Repos : d.root[r] = None => d.home[r] = None

RowsOK(d) == d \in Rows /\ Refs(d) /\ Told(d) /\ Rooted(d)

\* A repository that is there keeps its root, and its project unless it is removed.
Homes(d) ==
  \A r \in Repos : db.root[r] # None => d.root[r] # None /\ d.home[r] \in {db.home[r], None}

\* Every change of the rows is a later revision.
Later(d) == d = db \/ (d.revision > db.revision /\ Homes(d))

\* What a request names was there when it was made: if nothing was committed since,
\* it still is, and what it is to create is still new.
Issued(d, c) ==
  /\ c.request \in Requests /\ c.project \in Projects
  /\ c.kind \in {"create", "add"} => c.repo \in Repos /\ c.path \in Paths
  /\ c.expect =< d.revision
  /\ c.expect = d.revision =>
       /\ c.kind # "create" => c.project \in d.projects
       /\ c.kind = "create" => d.told[c.project] = None
       /\ c.kind \in {"create", "add"} => d.root[c.repo] = None

LEMMA InsertedRows ==
  ASSUME RowsOK(db), NEW c \in Calls, Issued(db, c), c.expect = db.revision,
         c.kind \in {"create", "add"}, Inserted(c) # None
  PROVE  LET d == Inserted(c)
         IN  /\ d \in Rows /\ Homes(d) /\ Rooted(d)
             /\ d = [db EXCEPT !.home = d.home, !.root = d.root, !.avail = d.avail]
             /\ d.home[c.repo] = c.project /\ d.avail[c.repo] = "available"
             /\ \A r \in Repos \ {c.repo} : d.home[r] = db.home[r] /\ d.avail[r] = db.avail[r]
<1> DEFINE d == [db EXCEPT !.home[c.repo] = c.project, !.root[c.repo] = c.path, !.avail[c.repo] = "available"]
<1>1. Inserted(c) = d
      BY DEF Inserted
<1>2. c.repo \in Repos /\ c.path \in Paths /\ c.project \in Projects /\ db.root[c.repo] = None
      BY DEF Issued
<1>3. /\ d.home = [db.home EXCEPT ![c.repo] = c.project]
      /\ d.root = [db.root EXCEPT ![c.repo] = c.path]
      /\ d.avail = [db.avail EXCEPT ![c.repo] = "available"]
      /\ d = [db EXCEPT !.home = d.home, !.root = d.root, !.avail = d.avail]
      BY DEF RowsOK, Rows
<1>4. db.home \in [Repos -> OrNone(Projects)] /\ db.root \in [Repos -> OrNone(Paths)]
      /\ db.avail \in [Repos -> {"available", "missing"}]
      BY DEF RowsOK, Rows
<1> HIDE DEF d
<1>5. /\ d.home \in [Repos -> OrNone(Projects)] /\ d.root \in [Repos -> OrNone(Paths)]
      /\ d.avail \in [Repos -> {"available", "missing"}]
      BY <1>2, <1>3, <1>4 DEF OrNone
<1>6. d \in Rows
      BY <1>3, <1>5 DEF RowsOK, Rows
<1>7. Homes(d) /\ Rooted(d)
      BY <1>2, <1>3, <1>4, ProjectConstants DEF Homes, Rooted, RowsOK
<1> QED
    BY <1>1, <1>2, <1>3, <1>4, <1>6, <1>7

\* An operation of the registry keeps the rows consistent.
Consistent(d) ==
  RowsOK(d) /\ Homes(d) /\ d.revision = db.revision /\ d.results = db.results

LEMMA CreateRows ==
  ASSUME RowsOK(db), NEW c \in Calls, Issued(db, c), c.expect = db.revision,
         c.kind = "create", CreateProject(c) # None
  PROVE  Consistent(CreateProject(c))
<1> DEFINE i == Inserted(c)
           d == [i EXCEPT !.projects = @ \cup {c.project}, !.told[c.project] = "available"]
<1>1. CreateProject(c) = d /\ i # None
      BY DEF CreateProject
<1>2. /\ i \in Rows /\ Homes(i) /\ Rooted(i)
      /\ i = [db EXCEPT !.home = i.home, !.root = i.root, !.avail = i.avail]
      /\ i.home[c.repo] = c.project /\ i.avail[c.repo] = "available"
      /\ \A r \in Repos \ {c.repo} : i.home[r] = db.home[r] /\ i.avail[r] = db.avail[r]
      BY <1>1, InsertedRows
<1>3. c.project \in Projects /\ c.repo \in Repos /\ db.told[c.project] = None /\ c.project # None
      BY ProjectConstants DEF Issued
<1> HIDE DEF i
<1>4. /\ i.projects = db.projects /\ i.active = db.active /\ i.pending = db.pending
      /\ i.bound = db.bound /\ i.told = db.told /\ i.revision = db.revision /\ i.results = db.results
      BY <1>2 DEF RowsOK, Rows
<1>5. /\ d.home = i.home /\ d.root = i.root /\ d.avail = i.avail /\ d.active = i.active
      /\ d.pending = i.pending /\ d.bound = i.bound /\ d.revision = i.revision /\ d.results = i.results
      /\ d.projects = i.projects \cup {c.project}
      /\ d.told = [i.told EXCEPT ![c.project] = "available"]
      BY <1>2 DEF Rows
<1>6. d \in Rows
  <2>1. d.told \in [Projects -> OrNone({"available", "unavailable"})] /\ d.projects \in SUBSET Projects
        BY <1>2, <1>3, <1>5 DEF Rows, OrNone
  <2> QED
      BY <1>2, <2>1 DEF Rows
<1>7. c.project \notin db.projects
      BY <1>3 DEF RowsOK, Told
<1> HIDE DEF d
<1>8. Refs(d)
  <2>1. \A t \in Tasks : db.bound[t] \in Repos \cup {None}
        BY DEF RowsOK, Rows, OrNone
  <2> QED
      BY <1>2, <1>3, <1>4, <1>5, <2>1 DEF RowsOK, Refs
<1>9. Told(d)
  <2> SUFFICES ASSUME NEW p \in d.projects
               PROVE  (~Available(d, p) => d.told[p] = "unavailable") /\ d.told[p] # None
      BY DEF Told
  <2>1. db.told \in [Projects -> OrNone({"available", "unavailable"})] /\ d.projects \subseteq Projects
        BY <1>6 DEF RowsOK, Rows
  <2>2. CASE p = c.project
    <3>1. \A r \in Repos : db.home[r] # p
          BY <1>3, <1>7, <2>2 DEF RowsOK, Refs
    <3>2. Available(d, p)
          BY <1>2, <1>5, <2>2, <3>1 DEF Available
    <3> QED
        BY <1>4, <1>5, <2>1, <2>2, <3>2, ProjectConstants
  <2>3. CASE p # c.project
    <3>1. p \in db.projects /\ d.told[p] = db.told[p]
          BY <1>3, <1>4, <1>5, <2>1, <2>3
    <3>2. ~Available(d, p) => ~Available(db, p)
          BY <1>2, <1>5, <2>3, <3>1 DEF Available
    <3> QED
        BY <3>1, <3>2 DEF RowsOK, Told
  <2> QED
      BY <2>2, <2>3
<1> QED
    BY <1>1, <1>2, <1>4, <1>5, <1>6, <1>8, <1>9 DEF Consistent, RowsOK, Homes, Rooted

LEMMA AddRows ==
  ASSUME RowsOK(db), NEW c \in Calls, Issued(db, c), c.expect = db.revision,
         c.kind = "add", AddRepository(c) # None
  PROVE  Consistent(AddRepository(c))
<1> DEFINE d == Inserted(c)
<1>1. AddRepository(c) = d /\ d # None
      BY DEF AddRepository
<1>2. /\ d \in Rows /\ Homes(d) /\ Rooted(d)
      /\ d = [db EXCEPT !.home = d.home, !.root = d.root, !.avail = d.avail]
      /\ d.home[c.repo] = c.project /\ d.avail[c.repo] = "available"
      /\ \A r \in Repos \ {c.repo} : d.home[r] = db.home[r] /\ d.avail[r] = db.avail[r]
      BY <1>1, InsertedRows
<1>3. c.project \in db.projects /\ c.project # None /\ c.repo \in Repos
      BY ProjectConstants DEF Issued
<1> HIDE DEF d
<1>4. /\ d.projects = db.projects /\ d.active = db.active /\ d.pending = db.pending
      /\ d.bound = db.bound /\ d.told = db.told /\ d.revision = db.revision /\ d.results = db.results
      BY <1>2 DEF RowsOK, Rows
<1>5. Refs(d)
  <2>1. \A t \in Tasks : db.bound[t] \in Repos \cup {None}
        BY DEF RowsOK, Rows, OrNone
  <2> QED
      BY <1>2, <1>3, <1>4, <2>1 DEF RowsOK, Refs
<1>6. Told(d)
  <2>1. ASSUME NEW p \in d.projects PROVE ~Available(d, p) => ~Available(db, p)
        BY <1>2, <1>4, <2>1 DEF Available
  <2> QED
      BY <1>4, <2>1 DEF RowsOK, Told
<1> QED
    BY <1>1, <1>2, <1>4, <1>5, <1>6 DEF Consistent, RowsOK

\* The other operations change rows that are there.
LEMMA OtherRows ==
  ASSUME RowsOK(db), NEW c \in Calls, Issued(db, c), c.expect = db.revision,
         c.kind \in Tracked \ {"create", "add"}, Operation(c) # None
  PROVE  Consistent(Operation(c))
<1> DEFINE d == Operation(c)
<1> USE DEF RowsOK, Rows, OrNone, Consistent
<1>1. c.project \in Projects /\ c.project \in db.projects /\ c.project # None
      BY ProjectConstants DEF Issued, Tracked, RepoKinds, PlainKinds
<1>2. CASE c.kind = "role"
      BY <1>2 DEF Operation, SetRoleAssignment, Homes
<1>3. CASE c.kind = "removeProject"
  <2>1. /\ d = [db EXCEPT !.home = [r \in Repos |-> IF r \in Of(c.project) THEN None ELSE @[r]],
                  !.projects = @ \ {c.project}, !.told[c.project] = "unavailable"]
        /\ ~Switching(c.project) /\ ~InUse(c.project)
        BY <1>3 DEF Operation, RemoveProject
  <2>2. /\ d.home = [r \in Repos |-> IF r \in Of(c.project) THEN None ELSE db.home[r]]
        /\ d.projects = db.projects \ {c.project}
        /\ d.told = [db.told EXCEPT ![c.project] = "unavailable"]
        /\ d.root = db.root /\ d.avail = db.avail /\ d.bound = db.bound /\ d.active = db.active
        /\ d.pending = db.pending /\ d.revision = db.revision /\ d.results = db.results
        BY <2>1
  <2>3. d \in Rows
    <3>1. /\ d.home \in [Repos -> OrNone(Projects)] /\ d.projects \in SUBSET Projects
          /\ d.told \in [Projects -> OrNone({"available", "unavailable"})]
          BY <1>1, <2>2
    <3> QED
        BY <2>1, <3>1
  <2> HIDE DEF d
  <2>4. Refs(d)
        BY <2>1, <2>2, ProjectConstants DEF Refs, Switching, InUse, Of
  <2>5. Told(d)
    <3>1. ASSUME NEW p \in d.projects PROVE p # c.project /\ (~Available(d, p) => ~Available(db, p))
          BY <1>1, <2>2, <3>1, ProjectConstants DEF Available, Of
    <3> QED
        BY <2>2, <3>1 DEF Told
  <2> QED
      BY <2>2, <2>3, <2>4, <2>5 DEF Homes, Rooted, d
<1>4. CASE c.kind = "relocate"
  <2>1. d = [db EXCEPT !.avail[c.repo] = "available"]
        BY <1>4 DEF Operation, RelocateRepository
  <2>2. /\ d.avail = [db.avail EXCEPT ![c.repo] = "available"]
        /\ d.home = db.home /\ d.projects = db.projects /\ d.told = db.told
        /\ d.root = db.root /\ d.bound = db.bound /\ d.active = db.active
        /\ d.pending = db.pending /\ d.revision = db.revision /\ d.results = db.results
        BY <2>1
  <2>3. d \in Rows
    <3>1. d.avail \in [Repos -> {"available", "missing"}]
          BY <2>2
    <3> QED
        BY <2>1, <3>1
  <2> HIDE DEF d
  <2>4. Told(d)
    <3>1. ASSUME NEW p \in d.projects PROVE ~Available(d, p) => ~Available(db, p)
          BY <2>2, <3>1 DEF Available
    <3> QED
        BY <2>2, <3>1 DEF Told
  <2> QED
      BY <2>2, <2>3, <2>4 DEF Homes, Rooted, Refs, d
<1>5. CASE c.kind = "removeRepository"
  <2>1. /\ d = [db EXCEPT !.home[c.repo] = None]
        /\ \A t \in Tasks : db.bound[t] # c.repo
        BY <1>5 DEF Operation, RemoveRepository
  <2>2. /\ d.home = [db.home EXCEPT ![c.repo] = None]
        /\ d.avail = db.avail /\ d.projects = db.projects /\ d.told = db.told
        /\ d.root = db.root /\ d.bound = db.bound /\ d.active = db.active
        /\ d.pending = db.pending /\ d.revision = db.revision /\ d.results = db.results
        BY <2>1
  <2>3. d \in Rows
    <3>1. d.home \in [Repos -> OrNone(Projects)]
          BY <2>2
    <3> QED
        BY <2>1, <3>1
  <2> HIDE DEF d
  <2>4. Told(d)
    <3>1. ASSUME NEW p \in d.projects PROVE ~Available(d, p) => ~Available(db, p)
          BY <2>2, <3>1, ProjectConstants DEF Available
    <3> QED
        BY <2>2, <3>1 DEF Told
  <2>5. Refs(d)
        BY <2>1, <2>2, ProjectConstants DEF Refs
  <2> QED
      BY <2>2, <2>3, <2>4, <2>5 DEF Homes, Rooted, d
<1>6. CASE c.kind \in {"bind", "clear"}
  <2> DEFINE v == IF c.kind = "bind" THEN c.repo ELSE None
  <2>1. /\ d = [db EXCEPT !.bound[c.task] = v]
        /\ c.kind = "bind" => c.repo \in Of(c.project)
        BY <1>6 DEF Operation, BindTaskRepository, ClearTaskRepository
  <2>2. /\ d.bound = [db.bound EXCEPT ![c.task] = v]
        /\ d.home = db.home /\ d.projects = db.projects /\ d.told = db.told
        /\ d.root = db.root /\ d.avail = db.avail /\ d.active = db.active
        /\ d.pending = db.pending /\ d.revision = db.revision /\ d.results = db.results
        BY <2>1
  <2>3. v \in Repos \cup {None} /\ (v # None => db.home[v] # None)
        BY <1>1, <2>1 DEF Of
  <2>4. d \in Rows
    <3>1. d.bound \in [Tasks -> OrNone(Repos)]
          BY <2>2, <2>3
    <3> QED
        BY <2>1, <3>1
  <2> HIDE DEF d, v
  <2>5. Refs(d)
        BY <2>2, <2>3 DEF Refs
  <2>6. Told(d)
        BY <2>2 DEF Told, Available
  <2> QED
      BY <2>2, <2>4, <2>5, <2>6 DEF Homes, Rooted, d
<1>7. CASE c.kind = "switch"
  <2> DEFINE s == [request |-> c.request, from |-> db.active, to |-> c.project]
  <2>1. d = [db EXCEPT !.pending = s]
        BY <1>7 DEF Operation, SwitchRows
  <2>2. s \in Switches /\ s.to \in db.projects /\ s.from \in db.projects \cup {None}
        BY <1>1 DEF Issued, Switches, Refs
  <2> HIDE DEF s
  <2>3. /\ d.pending = s
        /\ d.home = db.home /\ d.projects = db.projects /\ d.told = db.told
        /\ d.root = db.root /\ d.avail = db.avail /\ d.active = db.active
        /\ d.bound = db.bound /\ d.revision = db.revision /\ d.results = db.results
        BY <2>1
  <2>4. d \in Rows
        BY <2>1, <2>2
  <2> HIDE DEF d
  <2>5. Refs(d)
        BY <2>2, <2>3 DEF Refs
  <2>6. Told(d)
        BY <2>3 DEF Told, Available
  <2> QED
      BY <2>3, <2>4, <2>5, <2>6 DEF Homes, Rooted, d
<1> QED
    BY <1>2, <1>3, <1>4, <1>5, <1>6, <1>7 DEF Tracked, RepoKinds, PlainKinds

LEMMA OperationRows ==
  ASSUME RowsOK(db), NEW c \in Calls, Issued(db, c), c.expect = db.revision,
         c.kind \in Tracked, Operation(c) # None
  PROVE  Consistent(Operation(c))
<1>1. CASE c.kind = "create"
      BY <1>1, CreateRows DEF Operation
<1>2. CASE c.kind = "add"
      BY <1>2, AddRows DEF Operation
<1> QED
    BY <1>1, <1>2, OtherRows

\* Storing a result and dropping the oldest leaves a sequence of results.
LEMMA KeptResultsType ==
  ASSUME NEW S, NEW s \in Seq(S), NEW e \in S
  PROVE  LET t == Append(s, e)
         IN  SubSeq(t, IF Len(t) > KeptResults THEN 2 ELSE 1, Len(t)) \in Seq(S)
<1> DEFINE t == Append(s, e)
<1>1. t \in Seq(S) /\ Len(t) \in Nat /\ Len(t) >= 1
      BY AppendProperties, LenProperties
<1>2. \A i \in 1..Len(t) : t[i] \in S
      BY <1>1, ElementOfSeq
<1> QED
    BY <1>1, <1>2, SubSeqProperties, ProjectConstants

\* A committed mutation is the next revision of consistent rows.
LEMMA CommittedRows ==
  ASSUME RowsOK(db), NEW c \in Calls, Issued(db, c), c.kind \in Tracked, Committed(c) # None
  PROVE  /\ RowsOK(Committed(c)) /\ Homes(Committed(c))
         /\ Committed(c).revision = db.revision + 1 /\ c.expect = db.revision
<1> DEFINE o == Operation(c)
           rs == LET s == Append(o.results, <<c.request, Digest(c)>>)
                 IN  SubSeq(s, IF Len(s) > KeptResults THEN 2 ELSE 1, Len(s))
           d == [o EXCEPT !.revision = @ + 1, !.results = rs]
<1>1. Committed(c) = d /\ o # None /\ c.expect = db.revision
      BY DEF Committed
<1>2. Consistent(o)
      BY <1>1, OperationRows
<1> HIDE DEF o
<1>3. <<c.request, Digest(c)>> \in Requests \X Digests
      BY DEF Issued, Digest, Digests, Calls
<1>4. rs \in Seq(Requests \X Digests)
  <2>1. o.results \in Seq(Requests \X Digests)
        BY <1>2 DEF Consistent, RowsOK, Rows
  <2> QED
      BY <1>3, <2>1, KeptResultsType
<1> HIDE DEF rs
<1>5. o \in Rows /\ o.revision + 1 \in Nat
      BY <1>2 DEF Consistent, RowsOK, Rows
<1>6. /\ d.revision = o.revision + 1 /\ d.results = rs
      /\ d.home = o.home /\ d.projects = o.projects /\ d.told = o.told
      /\ d.root = o.root /\ d.avail = o.avail /\ d.active = o.active
      /\ d.bound = o.bound /\ d.pending = o.pending
      BY <1>5 DEF Rows
<1>7. d \in Rows
      BY <1>4, <1>5, <1>6 DEF Rows
<1> HIDE DEF d
<1> QED
    BY <1>1, <1>2, <1>6, <1>7 DEF Consistent, RowsOK, Refs, Told, Available, Rooted, Homes

\* A repository that was listed belongs to the project it was listed under, or to none.
StillOf(d, row) == d.root[row.repo] # None /\ d.home[row.repo] \in {row.project, None}

\* What refreshRepositoryAvailability writes, whenever it looked.
LEMMA RevalidatedRows ==
  ASSUME RowsOK(db), NEW changes \in SUBSET Changes, \A ch \in changes : StillOf(db, ch)
  PROVE  RowsOK(Revalidated(changes)) /\ Later(Revalidated(changes))
<1>1. CASE changes = {}
      BY <1>1 DEF Revalidated, Later
<1>2. CASE changes # {}
  <2> DEFINE after == [r \in Repos |-> IF db.home[r] # None /\ \E c \in changes : c.repo = r
                                THEN (CHOOSE c \in changes : c.repo = r).avail ELSE db.avail[r]]
             lost(p) == \E r \in Of(p) : after[r] # "available"
             told == [p \in Projects |-> IF \E c \in changes : c.project = p
                        THEN IF lost(p) THEN "unavailable" ELSE "available" ELSE db.told[p]]
             d == [db EXCEPT !.revision = @ + 1, !.avail = after, !.told = told]
  <2>1. Revalidated(changes) = d
        BY <1>2 DEF Revalidated, RowsOK, Rows
  <2>2. \A r \in Repos : after[r] \in {"available", "missing"}
    <3> SUFFICES ASSUME NEW r \in Repos PROVE after[r] \in {"available", "missing"}
        OBVIOUS
    <3>1. CASE db.home[r] # None /\ \E c \in changes : c.repo = r
      <4>1. (CHOOSE c \in changes : c.repo = r) \in Changes
            BY <3>1
      <4> QED
          BY <3>1, <4>1 DEF Changes
    <3>2. CASE ~(db.home[r] # None /\ \E c \in changes : c.repo = r)
          BY <3>2 DEF RowsOK, Rows
    <3> QED
        BY <3>1, <3>2
  <2>3. told \in [Projects -> OrNone({"available", "unavailable"})]
        BY DEF RowsOK, Rows, OrNone
  <2>4. \A r \in Repos : db.home[r] # None /\ (\A c \in changes : c.project # db.home[r]) => after[r] = db.avail[r]
        BY DEF StillOf
  <2>5. after \in [Repos -> {"available", "missing"}]
        BY <2>2
  <2>6. \A p \in Projects : (\E c \in changes : c.project = p) =>
          told[p] = IF lost(p) THEN "unavailable" ELSE "available"
        OBVIOUS
  <2>7. \A p \in Projects : ~(\E c \in changes : c.project = p) => told[p] = db.told[p]
        OBVIOUS
  <2> HIDE DEF after, told
  <2>a. db \in Rows /\ db.revision + 1 \in Nat
        BY DEF RowsOK, Rows
  <2>b. /\ d.revision = db.revision + 1 /\ d.avail = after /\ d.told = told
        /\ d.home = db.home /\ d.projects = db.projects /\ d.root = db.root
        /\ d.active = db.active /\ d.bound = db.bound /\ d.pending = db.pending
        BY <2>a DEF Rows
  <2>8. /\ d \in Rows /\ d.revision = db.revision + 1 /\ d.avail = after /\ d.told = told
        /\ d.home = db.home /\ d.projects = db.projects /\ d.root = db.root
        /\ d.active = db.active /\ d.bound = db.bound /\ d.pending = db.pending
        BY <2>3, <2>5, <2>a, <2>b DEF Rows
  <2> HIDE DEF d
  <2>9. Told(d)
    <3> SUFFICES ASSUME NEW p \in db.projects
                 PROVE  (~Available(d, p) => told[p] = "unavailable") /\ told[p] # None
        BY <2>8 DEF Told
    <3>1. p \in Projects /\ p # None
          BY ProjectConstants DEF RowsOK, Rows
    <3>2. CASE \E c \in changes : c.project = p
      <4>1. lost(p) <=> ~Available(d, p)
            BY <2>8 DEF Available, Of
      <4> QED
          BY <2>6, <3>1, <3>2, <4>1, ProjectConstants
    <3>3. CASE ~\E c \in changes : c.project = p
      <4>1. \A r \in Repos : db.home[r] = p => after[r] = db.avail[r]
            BY <2>4, <3>1, <3>3
      <4>2. Available(d, p) <=> Available(db, p)
            BY <2>8, <4>1 DEF Available
      <4> QED
          BY <2>7, <3>1, <3>3, <4>2 DEF RowsOK, Told
    <3> QED
        BY <3>2, <3>3
  <2> QED
      BY <2>1, <2>8, <2>9 DEF RowsOK, Refs, Rooted, Later, Homes, Rows
<1> QED
    BY <1>1, <1>2

\* A pending switch that is given up, and one that is done.
LEMMA ClearedRows ==
  ASSUME RowsOK(db), NEW a \in {db.active} \cup (IF db.pending = None THEN {} ELSE {db.pending.to})
  PROVE  LET d == [Cleared(db) EXCEPT !.active = a] IN RowsOK(d) /\ Later(d) /\ d.revision = db.revision + 1
<1> DEFINE d == [Cleared(db) EXCEPT !.active = a]
<1>1. a \in db.projects \cup {None} /\ a \in OrNone(Projects)
      BY DEF RowsOK, Refs, Rows, OrNone
<1>a. db \in Rows /\ db.revision + 1 \in Nat /\ None \in OrNone(Switches)
      BY DEF RowsOK, Rows, OrNone
<1>b. d = [db EXCEPT !.pending = None, !.revision = db.revision + 1, !.active = a]
      BY <1>a DEF Cleared, Rows
<1>c. /\ d.revision = db.revision + 1 /\ d.avail = db.avail /\ d.told = db.told
      /\ d.home = db.home /\ d.projects = db.projects /\ d.root = db.root
      /\ d.active = a /\ d.bound = db.bound /\ d.pending = None
      BY <1>a, <1>b DEF Rows
<1>2. /\ d \in Rows /\ d.revision = db.revision + 1 /\ d.avail = db.avail /\ d.told = db.told
      /\ d.home = db.home /\ d.projects = db.projects /\ d.root = db.root
      /\ d.active = a /\ d.bound = db.bound /\ d.pending = None
      BY <1>1, <1>a, <1>b, <1>c DEF Rows
<1> HIDE DEF d
<1>3. RowsOK(d)
      BY <1>1, <1>2 DEF RowsOK, Refs, Told, Available, Rooted
<1>4. Later(d)
      BY <1>2 DEF Later, Homes, RowsOK, Rows, OrNone
<1> QED
    BY <1>2, <1>3, <1>4 DEF d

LEMMA UnexpiredRows ==
  ASSUME RowsOK(db), NEW d \in Unexpired
  PROVE  RowsOK(d) /\ Later(d)
<1>1. CASE d = db
      BY <1>1 DEF Later
<1>2. CASE d = Cleared(db)
  <2>1. Cleared(db) = [Cleared(db) EXCEPT !.active = db.active]
        BY DEF Cleared, RowsOK, Rows
  <2> QED
      BY <1>2, <2>1, ClearedRows
<1> QED
    BY <1>1, <1>2 DEF Unexpired

\* At the start every root is looked at, and what is found is written with the rows it is about.
LEMMA StartRows ==
  ASSUME RowsOK(db), Start
  PROVE  RowsOK(db') /\ Later(db')
<1> DEFINE now(d, r) == IF d.root[r] \in disk THEN "available" ELSE "missing"
           moved(d) == {r \in Repos : d.home[r] # None /\ d.avail[r] # now(d, r)}
           lost(d, p) == \E r \in Repos : d.home[r] = p /\ now(d, r) # "available"
           avail(d) == [r \in Repos |-> IF r \in moved(d) THEN now(d, r) ELSE d.avail[r]]
           told(d) == [p \in Projects |-> IF \E r \in moved(d) : d.home[r] = p
                         THEN IF lost(d, p) THEN "unavailable" ELSE "available" ELSE d.told[p]]
           next(d) == [d EXCEPT !.revision = @ + 1, !.avail = avail(d), !.told = told(d)]
<1>1. PICK d \in Unexpired : db' = IF moved(d) = {} THEN d ELSE next(d)
  <2>1. PICK d \in Unexpired : db' = IF moved(d) = {} THEN d
                 ELSE [d EXCEPT !.revision = @ + 1,
                         !.avail = [r \in Repos |-> IF r \in moved(d) THEN now(d, r) ELSE @[r]],
                         !.told = [p \in Projects |-> IF \E r \in moved(d) : d.home[r] = p
                                                      THEN IF lost(d, p) THEN "unavailable" ELSE "available" ELSE @[p]]]
        BY DEF Start
  <2>2. d \in Rows
        BY UnexpiredRows DEF RowsOK
  <2> QED
      BY <2>1, <2>2 DEF Rows
<1>2. RowsOK(d) /\ Later(d) /\ d \in Rows /\ d.revision + 1 \in Nat
      BY UnexpiredRows DEF RowsOK, Rows
<1> DEFINE a == avail(d)
           t == told(d)
           e == next(d)
<1>3. CASE moved(d) = {}
      BY <1>1, <1>2, <1>3
<1>4. CASE moved(d) # {}
  <2>1. a \in [Repos -> {"available", "missing"}]
        BY <1>2 DEF Rows
  <2>2. t \in [Projects -> OrNone({"available", "unavailable"})]
        BY <1>2 DEF Rows, OrNone
  <2>3. /\ e.revision = d.revision + 1 /\ e.avail = a /\ e.told = t
        /\ e.home = d.home /\ e.projects = d.projects /\ e.root = d.root
        /\ e.active = d.active /\ e.bound = d.bound /\ e.pending = d.pending
        BY <1>2 DEF Rows
  <2>4. e \in Rows
        BY <1>2, <2>1, <2>2, <2>3 DEF Rows
  <2>5. \A r \in Repos : d.home[r] # None => a[r] = now(d, r)
        BY <1>2 DEF Rows
  <2> HIDE DEF a, t, e
  <2>6. Told(e)
    <3> SUFFICES ASSUME NEW p \in d.projects
                 PROVE  (~Available(e, p) => t[p] = "unavailable") /\ t[p] # None
        BY <2>3 DEF Told
    <3>1. p \in Projects /\ p # None
          BY <1>2, ProjectConstants DEF Rows
    <3>2. Available(e, p) <=> ~lost(d, p)
          BY <2>3, <2>5, <3>1 DEF Available
    <3> USE DEF t
    <3>3. CASE \E r \in moved(d) : d.home[r] = p
          BY <3>1, <3>2, <3>3, ProjectConstants
    <3>4. CASE ~\E r \in moved(d) : d.home[r] = p
      <4>1. t[p] = d.told[p]
            BY <3>1, <3>4
      <4>2. \A r \in Repos : d.home[r] = p => a[r] = d.avail[r]
            BY <3>4 DEF a
      <4>3. Available(e, p) <=> Available(d, p)
            BY <2>3, <4>2 DEF Available
      <4> QED
          BY <1>2, <4>1, <4>3 DEF RowsOK, Told
    <3> QED
        BY <3>3, <3>4
  <2>7. db' = e
        BY <1>1, <1>4 DEF e
  <2>8. RowsOK(e)
        BY <1>2, <2>3, <2>4, <2>6 DEF RowsOK, Refs, Rooted
  <2>9. Later(e)
    <3>1. e.revision > db.revision
          BY <1>2, <2>3 DEF Later, RowsOK, Rows
    <3>2. Homes(e)
          BY <1>2, <2>3 DEF Later, Homes, RowsOK, Rows, OrNone
    <3> QED
        BY <3>1, <3>2 DEF Later
  <2> QED
      BY <2>7, <2>8, <2>9
<1> QED
    BY <1>3, <1>4

-----------------------------------------------------------------------------
(* The invariant: the rows, and what a call in progress may rely on *)

\* The kinds of call that come to each step.
KindsAt(pc) ==
  CASE pc = "probe" -> {"create", "add", "relocate"}
    [] pc = "write" -> RepoKinds \cup {"create", "switch"}
    [] pc = "unlink" -> {"create", "removeProject"}
    [] pc \in {"list", "look"} -> {"switch", "reconcile", "snapshot", "source"}
    [] pc \in {"target", "ticket"} -> {"switch"}
    [] pc = "cancel" -> {"cancelSwitch"}
    [] pc = "snapshot" -> {"snapshot"}
    [] pc = "reconcile" -> {"reconcile"}
    [] pc \in {"before", "measure", "after", "sourced"} -> {"source"}
    [] OTHER -> Tracked

\* resolveBinding of a repository of the active project, in the rows d.
BoundIn(d, p, r) == d.active = p /\ d.home[r] = p /\ Available(d, p)

\* A binding that was read holds as long as nothing is committed.
SourceHolds(d, c) ==
  /\ c.repo \in Repos
  /\ c.pc = "measure" => c.expect =< d.revision /\ (c.expect = d.revision => BoundIn(d, c.project, c.repo))
  /\ c.held /\ c.roots = {} => c.expect < d.revision

CallInv(d, s, c) ==
  /\ c.kind \in KindsAt(c.pc)
  /\ c.kind \in Tracked => /\ Issued(d, c) /\ s[c.request] # None
                           /\ c.expect = s[c.request].expect
  /\ \A row \in c.rows \cup c.changes : StillOf(d, row)
  /\ c.kind = "source" => SourceHolds(d, c)
  /\ c.pc = "sourced" => c.roots # {}
  /\ c.pc = "before" => ~c.held
  /\ c.pc = "after" => c.held

\* The call a request was first made for can be made again as it was.
SentInv(d, c, q) ==
  c # None => /\ Issued(d, c) /\ c.request = q /\ c.kind \in Tracked /\ c.pc = First(c.kind)
              /\ c.rows = {} /\ c.changes = {} /\ ~c.held

\* A request that was carried out is of a revision that has passed.
AppliedInv(q) ==
  /\ applied[q] \in {0, 1}
  /\ applied[q] = 1 => sent[q] # None /\ db.revision > sent[q].expect

TrackedApart == \A q, p \in Requests : q # p /\ tracked[q] # None => tracked[q] # tracked[p]

IInv ==
  /\ TypeOK /\ RowsOK(db) /\ TrackedApart
  /\ \A w \in Windows : view[w] =< db.revision
  /\ \A w \in Windows : calls[w] # None => CallInv(db, sent, calls[w])
  /\ \A q \in Requests : SentInv(db, sent[q], q) /\ AppliedInv(q)

LEMMA CallOf ==
  ASSUME IInv, NEW w \in Windows, calls[w] # None
  PROVE  calls[w] \in Calls /\ CallInv(db, sent, calls[w])
BY DEF IInv, TypeOK, OrNone

LEMMA ClearedSame ==
  ASSUME RowsOK(db)
  PROVE  RowsOK(Cleared(db)) /\ Later(Cleared(db))
<1>1. Cleared(db) = [Cleared(db) EXCEPT !.active = db.active]
      BY DEF Cleared, RowsOK, Rows
<1> QED
    BY <1>1, ClearedRows

LEMMA MutatedRows ==
  ASSUME IInv, NEW w \in Windows, Mutate(w)
  PROVE  RowsOK(db') /\ Later(db')
<1>1. CASE db' = db
      BY <1>1 DEF Later, IInv
<1>2. CASE Committed(calls[w]) # None /\ db' = Committed(calls[w])
  <2>1. calls[w] \in Calls /\ CallInv(db, sent, calls[w]) /\ calls[w].pc = "mutate"
        BY CallOf DEF Mutate, At
  <2>2. calls[w].kind \in Tracked /\ Issued(db, calls[w])
        BY <2>1 DEF CallInv, KindsAt
  <2>3. RowsOK(db') /\ Homes(db') /\ db'.revision = db.revision + 1
        BY <1>2, <2>1, <2>2, CommittedRows DEF IInv
  <2>4. db'.revision > db.revision
        BY <2>3 DEF IInv, RowsOK, Rows
  <2> QED
      BY <2>3, <2>4 DEF Later
<1> QED
    BY <1>1, <1>2 DEF Mutate

LEMMA RefreshedRows ==
  ASSUME IInv, NEW w \in Windows, Refresh(w)
  PROVE  RowsOK(db') /\ Later(db')
<1>1. calls[w] \in Calls /\ CallInv(db, sent, calls[w]) /\ db' = Revalidated(calls[w].changes)
      BY CallOf DEF Refresh, At
<1>2. calls[w].changes \in SUBSET Changes /\ \A ch \in calls[w].changes : StillOf(db, ch)
      BY <1>1 DEF CallInv, Calls
<1> QED
    BY <1>1, <1>2, RevalidatedRows DEF IInv

LEMMA ReconciledRows ==
  ASSUME IInv, NEW w \in Windows, ReconcilePending(w)
  PROVE  RowsOK(db') /\ Later(db')
<1>1. CASE db' = Cleared(db)
      BY <1>1, ClearedSame DEF IInv
<1>2. CASE db' = [Cleared(db) EXCEPT !.active = db.pending.to] /\ db.pending # None
      BY <1>2, ClearedRows DEF IInv
<1> QED
    BY <1>1, <1>2 DEF ReconcilePending

\* Whatever happens, the rows stay consistent and change only to a later revision.
LEMMA DbStep ==
  ASSUME IInv, [Next]_vars
  PROVE  RowsOK(db') /\ Later(db')
<1> RowsOK(db)
    BY DEF IInv
<1>1. CASE db' = db
      BY <1>1 DEF Later
<1>2. ASSUME NEW w \in Windows, WindowStep(w)
      PROVE  RowsOK(db') /\ Later(db')
  <2>1. CASE Mutate(w)
        BY <2>1, MutatedRows
  <2>2. CASE Refresh(w)
        BY <2>2, RefreshedRows
  <2>3. CASE ReconcilePending(w)
        BY <2>3, ReconciledRows
  <2>4. CASE CancelSwitch(w)
    <3>1. db' = db \/ db' = Cleared(db)
          BY <2>4 DEF CancelSwitch
    <3> QED
        BY <1>1, <3>1, ClearedSame
  <2>5. CASE Ask(w) \/ Resend(w)
        BY <1>1, <2>5 DEF Ask, Resend, Requested
  <2>6. CASE Complete(w) \/ Failed(w) \/ Probe(w) \/ Write(w) \/ Unlink(w) \/ List(w) \/ Look(w) \/ Snapshot(w)
             \/ BindingBefore(w) \/ Measure(w) \/ BindingAfter(w) \/ Sourced(w) \/ Target(w) \/ Ticket(w)
             \/ ReconcileActive(w)
        BY <1>1, <2>6 DEF Complete, Failed, Probe, Write, Unlink, List, Look, Snapshot, BindingBefore, Measure,
             BindingAfter, Sourced, Target, Ticket, ReconcileActive
  <2> QED
      BY <1>2, <2>1, <2>2, <2>3, <2>4, <2>5, <2>6 DEF WindowStep
<1>3. CASE DiskChanges \/ Stop \/ UNCHANGED vars
      BY <1>1, <1>3 DEF DiskChanges, Stop, vars
<1>4. CASE Start
      BY <1>4, StartRows
<1> QED
    BY <1>2, <1>3, <1>4 DEF Next

\* The requests made so far stay, each with the revision it was made at.
SentLater(s) ==
  /\ s \in [Requests -> OrNone(Calls)]
  /\ \A q \in Requests : sent[q] # None => s[q] # None /\ s[q].expect = sent[q].expect

\* What was there when a request was made is judged by the rows of its own revision only.
LEMMA KeptIssued ==
  ASSUME RowsOK(db), NEW d \in Rows, Later(d), NEW c \in Calls, Issued(db, c)
  PROVE  Issued(d, c)
<1>1. c.expect \in Nat /\ d.revision \in Nat /\ db.revision \in Nat
      BY DEF Calls, Rows, RowsOK
<1> QED
    BY <1>1 DEF Issued, Later

\* A call that waits keeps what it relies on, whatever is committed meanwhile.
LEMMA KeptCall ==
  ASSUME RowsOK(db), NEW d \in Rows, Later(d), NEW s, SentLater(s), NEW c \in Calls, CallInv(db, sent, c)
  PROVE  CallInv(d, s, c)
<1>1. /\ c.expect \in Nat /\ d.revision \in Nat /\ db.revision \in Nat
      /\ \A row \in c.rows \cup c.changes : row.repo \in Repos /\ row.project \in Projects
      BY DEF Calls, Rows, RowsOK, Listed, Changes
<1>2. c.kind \in Tracked => Issued(d, c) /\ s[c.request] # None /\ c.expect = s[c.request].expect
      BY KeptIssued DEF CallInv, SentLater, Issued
<1>3. \A row \in c.rows \cup c.changes : StillOf(d, row)
      BY <1>1 DEF CallInv, StillOf, Later, Homes
<1>4. c.kind = "source" => SourceHolds(d, c)
      BY <1>1 DEF CallInv, SourceHolds, Later
<1> QED
    BY <1>2, <1>3, <1>4 DEF CallInv

\* A step of a window that leaves the rows and the requests alone: where its call goes.
Moves(w, c) == calls' = [calls EXCEPT ![w] = c] /\ UNCHANGED <<db, sent>>

\* Going on to a step the kind comes to, with nothing else changed.
LEMMA WentOn ==
  ASSUME NEW d, NEW s, NEW c \in Calls, CallInv(d, s, c), NEW pc \in Steps, c.kind \in KindsAt(pc),
         pc \notin {"before", "measure", "sourced", "after"}
  PROVE  [c EXCEPT !.pc = pc] \in Calls /\ CallInv(d, s, [c EXCEPT !.pc = pc])
<1> DEFINE n == [c EXCEPT !.pc = pc]
<1>1. /\ n.kind = c.kind /\ n.request = c.request /\ n.project = c.project /\ n.repo = c.repo /\ n.path = c.path
      /\ n.task = c.task /\ n.expect = c.expect /\ n.pc = pc /\ n.rows = c.rows /\ n.changes = c.changes
      /\ n.roots = c.roots /\ n.held = c.held
      BY DEF Calls
<1>2. n \in Calls
      BY <1>1 DEF Calls
<1> HIDE DEF n
<1>3. Issued(d, c) => Issued(d, n)
      BY <1>1 DEF Issued
<1>4. c.kind = "source" => SourceHolds(d, n)
      BY <1>1 DEF CallInv, SourceHolds
<1>5. CallInv(d, s, n)
      BY <1>1, <1>3, <1>4 DEF CallInv
<1> QED
    BY <1>2, <1>5 DEF n

\* What a step makes of its call: the fields a call is known by stay.
LEMMA Advanced ==
  ASSUME NEW d, NEW s, NEW c \in Calls, CallInv(d, s, c), NEW n \in Calls,
         n.kind = c.kind, n.request = c.request, n.project = c.project, n.repo = c.repo, n.path = c.path,
         n.expect = c.expect, n.kind \in KindsAt(n.pc),
         \A row \in n.rows \cup n.changes : StillOf(d, row),
         n.kind = "source" => SourceHolds(d, n), n.pc = "sourced" => n.roots # {}, n.pc = "before" => ~n.held, n.pc = "after" => n.held
  PROVE  CallInv(d, s, n)
<1>1. Issued(d, c) => Issued(d, n)
      BY DEF Issued
<1> QED
    BY <1>1 DEF CallInv

\* The step of window w leaves it without a call, or with one that may rely on what it holds.
Leaves(w, v) == calls' = [calls EXCEPT ![w] = v] /\ v \in OrNone(Calls) /\ (v # None => CallInv(db', sent', v))

LEMMA GotoLeaves ==
  ASSUME IInv, db' \in Rows, Later(db'), SentLater(sent'), NEW w \in Windows, calls[w] # None,
         NEW pc \in Steps \ {"before", "measure", "sourced", "after"}, calls[w].kind \in KindsAt(pc), Goto(w, pc)
  PROVE  \E v : Leaves(w, v)
<1> DEFINE c == calls[w]
           n == [c EXCEPT !.pc = pc]
<1>1. c \in Calls /\ CallInv(db, sent, c) /\ RowsOK(db)
      BY CallOf DEF IInv
<1>2. CallInv(db', sent', c)
      BY <1>1, KeptCall
<1>3. n \in Calls /\ CallInv(db', sent', n)
      BY <1>1, <1>2, WentOn
<1>4. calls' = [calls EXCEPT ![w] = n]
      BY DEF Goto, IInv, TypeOK
<1> QED
    BY <1>3, <1>4 DEF Leaves, OrNone

LEMMA ReturnLeaves ==
  ASSUME NEW w, Return(w)
  PROVE  \E v : Leaves(w, v)
BY DEF Return, Leaves, OrNone

\* A step that leaves the rows and the requests as they are and rewrites its call as n.
LEMMA RewroteLeaves ==
  ASSUME IInv, UNCHANGED <<db, sent>>, NEW w \in Windows, NEW n \in Calls, CallInv(db, sent, n),
         calls' = [calls EXCEPT ![w] = n]
  PROVE  \E v : Leaves(w, v)
BY DEF Leaves, OrNone

LEMMA ProbeLeaves ==
  ASSUME IInv, NEW w \in Windows, Probe(w)
  PROVE  \E v : Leaves(w, v)
<1> DEFINE c == calls[w]
           pc == IF c.path \notin disk THEN "failed" ELSE IF c.kind = "create" THEN "write" ELSE "mutate"
           n == [c EXCEPT !.pc = pc, !.roots = {c.path}]
<1>1. c \in Calls /\ CallInv(db, sent, c) /\ c.pc = "probe" /\ c.kind \in {"create", "add", "relocate"}
      BY CallOf DEF Probe, At, CallInv, KindsAt
<1>2. calls' = [calls EXCEPT ![w] = n] /\ UNCHANGED <<db, sent>>
      BY DEF Probe
<1>3. pc \in {"failed", "write", "mutate"} /\ (pc = "write" => c.kind = "create") /\ {c.path} \subseteq OrNone(Paths)
      BY <1>1 DEF Calls
<1> HIDE DEF pc
<1>4. /\ n.kind = c.kind /\ n.request = c.request /\ n.project = c.project /\ n.repo = c.repo /\ n.path = c.path
      /\ n.task = c.task /\ n.expect = c.expect /\ n.pc = pc /\ n.rows = c.rows /\ n.changes = c.changes
      /\ n.roots = {c.path} /\ n.held = c.held
      BY <1>1 DEF Calls
<1>5. n \in Calls
      BY <1>1, <1>3, <1>4 DEF Calls, Steps
<1>6. c.kind \in KindsAt(pc)
      BY <1>1, <1>3 DEF KindsAt, RepoKinds, Tracked
<1> HIDE DEF n
<1>7. CallInv(db, sent, n)
  <2>1. \A row \in n.rows \cup n.changes : StillOf(db, row)
        BY <1>1, <1>4 DEF CallInv
  <2>2. n.kind # "source" /\ n.pc \notin {"before", "sourced", "after"}
        BY <1>1, <1>3, <1>4
  <2> QED
      BY <1>1, <1>4, <1>5, <1>6, <2>1, <2>2, Advanced
<1> QED
    BY <1>2, <1>5, <1>7, RewroteLeaves

LEMMA WriteLeaves ==
  ASSUME IInv, NEW w \in Windows, Write(w) \/ Unlink(w)
  PROVE  \E v : Leaves(w, v)
<1>1. calls[w] \in Calls /\ CallInv(db, sent, calls[w]) /\ calls[w].pc \in {"write", "unlink"} /\ calls[w] # None
      BY CallOf DEF Write, Unlink, At
<1>2. calls[w].kind \in Tracked
      BY <1>1 DEF CallInv, KindsAt, RepoKinds, Tracked
<1>3. UNCHANGED <<db, sent>> /\ db' \in Rows /\ Later(db') /\ SentLater(sent')
      BY DEF Write, Unlink, Later, SentLater, IInv, TypeOK
<1>4. PICK pc \in {"mutate", "complete", "failed"} : Goto(w, pc)
      BY DEF Write, Unlink
<1>5. pc \in Steps \ {"before", "measure", "sourced", "after"} /\ calls[w].kind \in KindsAt(pc)
      BY <1>2, <1>4 DEF Steps, KindsAt
<1> QED
    BY <1>1, <1>3, <1>4, <1>5, GotoLeaves

\* Where mutateChecked sends its call on, with the rows d it has left.
LEMMA ProceedLeaves ==
  ASSUME IInv, NEW w \in Windows, At(w, "mutate"), SentLater(sent'), db' \in Rows, Later(db'),
         NEW executed \in BOOLEAN, Proceed(w, db', executed)
  PROVE  \E v : Leaves(w, v)
<1> DEFINE c == calls[w]
           pc == CASE c.kind \in RepoKinds -> "write"
                   [] c.kind = "create" /\ ~executed -> "unlink"
                   [] c.kind = "removeProject" -> "unlink"
                   [] c.kind = "switch" -> "ticket"
                   [] OTHER -> "complete"
           rs == RootsOf(db', c.project)
           n == [c EXCEPT !.roots = rs, !.pc = pc]
<1>1. c \in Calls /\ CallInv(db, sent, c) /\ c.kind \in Tracked /\ RowsOK(db)
      BY CallOf DEF At, CallInv, KindsAt, IInv
<1>2. calls' = [calls EXCEPT ![w] = n]
      BY DEF Proceed
<1>3. rs \subseteq OrNone(Paths)
      BY DEF RootsOf, Rows
<1> HIDE DEF rs
<1>4. pc \in {"write", "unlink", "ticket", "complete"} /\ c.kind \in KindsAt(pc)
  <2>1. CASE c.kind \in RepoKinds
        BY <2>1 DEF KindsAt
  <2>2. CASE c.kind \notin RepoKinds
        BY <1>1, <2>2 DEF KindsAt, RepoKinds
  <2> QED
      BY <2>1, <2>2
<1> HIDE DEF pc
<1>5. /\ n.kind = c.kind /\ n.request = c.request /\ n.project = c.project /\ n.repo = c.repo /\ n.path = c.path
      /\ n.task = c.task /\ n.expect = c.expect /\ n.pc = pc /\ n.rows = c.rows /\ n.changes = c.changes
      /\ n.roots = rs /\ n.held = c.held
      BY <1>1 DEF Calls
<1>6. n \in Calls
      BY <1>1, <1>3, <1>4, <1>5 DEF Calls, Steps
<1> HIDE DEF n
<1>7. CallInv(db', sent', c)
      BY <1>1, KeptCall
<1>8. CallInv(db', sent', n)
  <2>1. \A row \in n.rows \cup n.changes : StillOf(db', row)
        BY <1>5, <1>7 DEF CallInv
  <2>2. n.kind # "source" /\ n.pc \notin {"before", "sourced", "after"}
        BY <1>1, <1>4, <1>5 DEF Tracked, RepoKinds, PlainKinds
  <2> QED
      BY <1>1, <1>4, <1>5, <1>6, <1>7, <2>1, <2>2, Advanced
<1> QED
    BY <1>2, <1>6, <1>8 DEF Leaves, OrNone

LEMMA MutateLeaves ==
  ASSUME IInv, NEW w \in Windows, Mutate(w)
  PROVE  \E v : Leaves(w, v)
<1>1. At(w, "mutate") /\ calls[w] # None /\ calls[w].kind \in Tracked
      BY CallOf DEF Mutate, At, CallInv, KindsAt
<1>2. db' \in Rows /\ Later(db') /\ SentLater(sent')
      BY MutatedRows DEF Mutate, RowsOK, SentLater, IInv, TypeOK
<1>3. CASE Goto(w, "failed")
  <2>1. "failed" \in Steps \ {"before", "measure", "sourced", "after"} /\ calls[w].kind \in KindsAt("failed")
        BY <1>1 DEF Steps, KindsAt
  <2> QED
      BY <1>1, <1>2, <1>3, <2>1, GotoLeaves
<1>4. CASE Proceed(w, db', FALSE) \/ Proceed(w, db', TRUE)
      BY <1>1, <1>2, <1>4, ProceedLeaves
<1>5. Goto(w, "failed") \/ (db' = db /\ Proceed(w, db, FALSE))
        \/ (db' = Committed(calls[w]) /\ Proceed(w, Committed(calls[w]), TRUE))
      BY DEF Mutate
<1> QED
    BY <1>3, <1>4, <1>5

LEMMA ListLeaves ==
  ASSUME IInv, NEW w \in Windows, List(w)
  PROVE  \E v : Leaves(w, v)
<1> DEFINE c == calls[w]
           rows == {[repo |-> r, project |-> db.home[r], root |-> db.root[r], avail |-> db.avail[r]] :
                      r \in {r \in Repos : db.home[r] # None}}
           n == [c EXCEPT !.pc = "look", !.changes = {}, !.rows = rows]
<1>1. c \in Calls /\ CallInv(db, sent, c) /\ c.pc = "list" /\ c.kind \in KindsAt("list")
      BY CallOf DEF List, At, CallInv
<1>2. calls' = [calls EXCEPT ![w] = n] /\ UNCHANGED <<db, sent>>
      BY <1>1 DEF List, IInv, TypeOK
<1>3. rows \subseteq Listed /\ \A row \in rows : StillOf(db, row)
      BY DEF IInv, RowsOK, Rows, Rooted, Listed, OrNone, StillOf
<1> HIDE DEF rows
<1>4. /\ n.kind = c.kind /\ n.request = c.request /\ n.project = c.project /\ n.repo = c.repo /\ n.path = c.path
      /\ n.task = c.task /\ n.expect = c.expect /\ n.pc = "look" /\ n.rows = rows /\ n.changes = {}
      /\ n.roots = c.roots /\ n.held = c.held
      BY <1>1 DEF Calls
<1>5. n \in Calls
      BY <1>1, <1>3, <1>4 DEF Calls, Steps
<1> HIDE DEF n
<1>6. n.kind = "source" => SourceHolds(db, n)
      BY <1>1, <1>4 DEF CallInv, SourceHolds
<1>7. n.kind \in KindsAt(n.pc)
      BY <1>1, <1>4 DEF KindsAt
<1>8. CallInv(db, sent, n)
  <2>1. \A row \in n.rows \cup n.changes : StillOf(db, row)
        BY <1>3, <1>4
  <2> QED
      BY <1>1, <1>4, <1>5, <1>6, <1>7, <2>1, Advanced
<1> QED
    BY <1>2, <1>5, <1>8, RewroteLeaves

LEMMA LookLeaves ==
  ASSUME IInv, NEW w \in Windows, Look(w)
  PROVE  \E v : Leaves(w, v)
<1> DEFINE c == calls[w]
<1>1. c \in Calls /\ CallInv(db, sent, c) /\ c.pc = "look" /\ c.kind \in KindsAt("look")
      BY CallOf DEF Look, At, CallInv
<1>2. PICK row \in c.rows :
        LET now == IF row.root \in disk THEN "available" ELSE "missing"
        IN  calls' = [calls EXCEPT ![w].rows = @ \ {row},
                     ![w].changes = IF now = row.avail THEN @
                                    ELSE @ \cup {[repo |-> row.repo, project |-> row.project, avail |-> now]}]
      BY DEF Look
<1> DEFINE now == IF row.root \in disk THEN "available" ELSE "missing"
           seen == [repo |-> row.repo, project |-> row.project, avail |-> now]
           cs == IF now = row.avail THEN c.changes ELSE c.changes \cup {seen}
           n == [c EXCEPT !.rows = c.rows \ {row}, !.changes = cs]
<1>3. calls' = [calls EXCEPT ![w] = n] /\ UNCHANGED <<db, sent>>
      BY <1>1, <1>2 DEF Look, IInv, TypeOK, Calls
<1>4. row \in Listed /\ c.rows \ {row} \subseteq Listed /\ c.changes \subseteq Changes
      BY <1>1, <1>2 DEF Calls
<1>5. seen \in Changes /\ StillOf(db, seen)
      BY <1>1, <1>2, <1>4 DEF Listed, Changes, CallInv, StillOf
<1> HIDE DEF seen
<1>6. cs \subseteq Changes /\ \A s \in cs : StillOf(db, s)
      BY <1>1, <1>4, <1>5 DEF CallInv
<1> HIDE DEF cs
<1>7. /\ n.kind = c.kind /\ n.request = c.request /\ n.project = c.project /\ n.repo = c.repo /\ n.path = c.path
      /\ n.task = c.task /\ n.expect = c.expect /\ n.pc = c.pc /\ n.rows = c.rows \ {row} /\ n.changes = cs
      /\ n.roots = c.roots /\ n.held = c.held
      BY <1>1 DEF Calls
<1>8. n \in Calls
      BY <1>1, <1>4, <1>6, <1>7 DEF Calls
<1> HIDE DEF n
<1>9. CallInv(db, sent, n)
  <2>1. n.kind = "source" => SourceHolds(db, n)
        BY <1>1, <1>7 DEF CallInv, SourceHolds
  <2>2. \A s \in n.rows \cup n.changes : StillOf(db, s)
        BY <1>1, <1>6, <1>7 DEF CallInv
  <2> QED
      BY <1>1, <1>7, <1>8, <2>1, <2>2, Advanced
<1> QED
    BY <1>3, <1>8, <1>9, RewroteLeaves

LEMMA RefreshLeaves ==
  ASSUME IInv, NEW w \in Windows, Refresh(w)
  PROVE  \E v : Leaves(w, v)
<1> DEFINE c == calls[w]
<1>1. c \in Calls /\ CallInv(db, sent, c) /\ c.pc = "look" /\ c.kind \in KindsAt("look") /\ c # None
      BY CallOf DEF Refresh, At, CallInv
<1>2. db' \in Rows /\ Later(db') /\ SentLater(sent') /\ RowsOK(db)
      BY RefreshedRows DEF Refresh, RowsOK, SentLater, IInv, TypeOK
<1>3. CASE c.kind = "source"
  <2> DEFINE pc == IF c.held THEN "after" ELSE "before"
             n == [c EXCEPT !.pc = pc]
  <2>1. calls' = [calls EXCEPT ![w] = n]
        BY <1>1, <1>3 DEF Refresh, Goto, IInv, TypeOK
  <2>2. CallInv(db', sent', c)
        BY <1>1, <1>2, KeptCall
  <2>3. /\ n.kind = c.kind /\ n.request = c.request /\ n.project = c.project /\ n.repo = c.repo /\ n.path = c.path
        /\ n.task = c.task /\ n.expect = c.expect /\ n.pc = pc /\ n.rows = c.rows /\ n.changes = c.changes
        /\ n.roots = c.roots /\ n.held = c.held
        BY <1>1 DEF Calls
  <2>4. n \in Calls
        BY <1>1, <2>3 DEF Calls, Steps
  <2> HIDE DEF n
  <2>5. SourceHolds(db', n)
        BY <1>3, <2>2, <2>3 DEF CallInv, SourceHolds
  <2>6. n.kind \in KindsAt(n.pc)
        BY <1>3, <2>3 DEF KindsAt
  <2>7. CallInv(db', sent', n)
    <3>1. \A row \in n.rows \cup n.changes : StillOf(db', row)
          BY <2>2, <2>3 DEF CallInv
    <3> QED
        BY <1>1, <1>3, <2>2, <2>3, <2>4, <2>5, <2>6, <3>1, Advanced
  <2> QED
      BY <2>1, <2>4, <2>7 DEF Leaves, OrNone
<1>4. CASE c.kind # "source"
  <2>1. PICK pc \in {"target", "reconcile", "snapshot"} : Goto(w, pc) /\ c.kind \in KindsAt(pc)
        BY <1>1, <1>4 DEF Refresh, KindsAt
  <2>2. pc \in Steps \ {"before", "measure", "sourced", "after"}
        BY <2>1 DEF Steps
  <2> QED
      BY <1>1, <1>2, <2>1, <2>2, GotoLeaves
<1> QED
    BY <1>3, <1>4

LEMMA BeforeLeaves ==
  ASSUME IInv, NEW w \in Windows, BindingBefore(w)
  PROVE  \E v : Leaves(w, v)
<1> DEFINE c == calls[w]
           n == [c EXCEPT !.pc = "measure", !.path = db.root[c.repo], !.expect = db.revision]
<1>1. c \in Calls /\ CallInv(db, sent, c) /\ c.kind = "source" /\ c.repo \in Repos /\ ~c.held
      BY CallOf DEF BindingBefore, At, CallInv, KindsAt, SourceHolds
<1>2. CASE Return(w)
      BY <1>2, ReturnLeaves
<1>3. CASE Bound(c.project, c.repo) /\ calls' = [calls EXCEPT ![w] = n]
  <2>1. db.revision \in Nat /\ \A r \in Repos : db.root[r] \in OrNone(Paths)
        BY DEF IInv, RowsOK, Rows
  <2>2. /\ n.kind = c.kind /\ n.repo = c.repo /\ n.path = db.root[c.repo] /\ n.project = c.project
        /\ n.request = c.request
        /\ n.task = c.task /\ n.expect = db.revision /\ n.pc = "measure" /\ n.rows = c.rows
        /\ n.changes = c.changes /\ n.roots = c.roots /\ n.held = c.held
        BY <1>1 DEF Calls
  <2>3. n \in Calls
        BY <1>1, <2>1, <2>2 DEF Calls, Steps
  <2> HIDE DEF n
  <2>4. SourceHolds(db, n)
        BY <1>1, <1>3, <2>1, <2>2 DEF SourceHolds, Bound, BoundIn
  <2>5. n.kind \in KindsAt(n.pc) /\ n.kind \notin Tracked
        BY <1>1, <2>2 DEF KindsAt, Tracked, RepoKinds, PlainKinds
  <2>6. CallInv(db, sent, n)
        BY <1>1, <2>2, <2>4, <2>5 DEF CallInv
  <2> QED
      BY <1>3, <2>3, <2>6, RewroteLeaves DEF BindingBefore
<1> QED
    BY <1>2, <1>3 DEF BindingBefore

LEMMA MeasureLeaves ==
  ASSUME IInv, NEW w \in Windows, Measure(w)
  PROVE  \E v : Leaves(w, v)
<1> DEFINE c == calls[w]
           rs == IF Bound(c.project, c.repo) THEN {c.path} ELSE {}
           n == [c EXCEPT !.pc = "list", !.held = TRUE, !.roots = rs]
<1>1. c \in Calls /\ CallInv(db, sent, c) /\ c.kind = "source" /\ c.pc = "measure" /\ SourceHolds(db, c)
      BY CallOf DEF Measure, At, CallInv, KindsAt
<1>2. CASE Return(w)
      BY <1>2, ReturnLeaves
<1>3. CASE calls' = [calls EXCEPT ![w] = n]
  <2>1. rs \subseteq OrNone(Paths) /\ (rs = {} => ~Bound(c.project, c.repo))
        BY <1>1 DEF Calls
  <2> HIDE DEF rs
  <2>2. /\ n.kind = c.kind /\ n.request = c.request /\ n.project = c.project /\ n.repo = c.repo /\ n.path = c.path
        /\ n.task = c.task /\ n.expect = c.expect /\ n.pc = "list" /\ n.rows = c.rows /\ n.changes = c.changes
        /\ n.roots = rs /\ n.held = TRUE
        BY <1>1 DEF Calls
  <2>3. n \in Calls
        BY <1>1, <2>1, <2>2 DEF Calls, Steps
  <2> HIDE DEF n
  <2>4. SourceHolds(db, n)
    <3>1. c.expect \in Nat /\ db.revision \in Nat
          BY <1>1 DEF Calls, IInv, RowsOK, Rows
    <3> QED
        BY <1>1, <2>1, <2>2, <3>1 DEF SourceHolds, Bound, BoundIn
  <2>5. n.kind \in KindsAt(n.pc)
        BY <1>1, <2>2 DEF KindsAt
  <2>6. CallInv(db, sent, n)
    <3>1. \A row \in n.rows \cup n.changes : StillOf(db, row)
          BY <1>1, <2>2 DEF CallInv
    <3> QED
        BY <1>1, <2>2, <2>3, <2>4, <2>5, <3>1, Advanced
  <2> QED
      BY <1>3, <2>3, <2>6, RewroteLeaves DEF Measure
<1> QED
    BY <1>2, <1>3 DEF Measure

\* sameBinding holds only for a measurement that was taken while the binding held.
LEMMA AfterLeaves ==
  ASSUME IInv, NEW w \in Windows, BindingAfter(w)
  PROVE  \E v : Leaves(w, v)
<1> DEFINE c == calls[w]
           n == [c EXCEPT !.pc = "sourced"]
<1>1. c \in Calls /\ CallInv(db, sent, c) /\ c.kind = "source" /\ c.held /\ SourceHolds(db, c)
      BY CallOf DEF BindingAfter, At, CallInv, KindsAt
<1>2. CASE Return(w)
      BY <1>2, ReturnLeaves
<1>3. CASE SameBinding(c) /\ Goto(w, "sourced")
  <2>1. c.roots # {}
        BY <1>1, <1>3 DEF SameBinding, SourceHolds, Calls
  <2>2. /\ n.kind = c.kind /\ n.request = c.request /\ n.project = c.project /\ n.repo = c.repo /\ n.path = c.path
        /\ n.task = c.task /\ n.expect = c.expect /\ n.pc = "sourced" /\ n.rows = c.rows /\ n.changes = c.changes
        /\ n.roots = c.roots /\ n.held = c.held
        BY <1>1 DEF Calls
  <2>3. n \in Calls /\ calls' = [calls EXCEPT ![w] = n]
        BY <1>1, <1>3, <2>2 DEF Calls, Steps, Goto, IInv, TypeOK
  <2> HIDE DEF n
  <2>4. SourceHolds(db, n) /\ n.kind \in KindsAt(n.pc)
        BY <1>1, <2>2 DEF SourceHolds, KindsAt
  <2>5. CallInv(db, sent, n)
    <3>1. \A row \in n.rows \cup n.changes : StillOf(db, row)
          BY <1>1, <2>2 DEF CallInv
    <3> QED
        BY <1>1, <2>1, <2>2, <2>3, <2>4, <3>1, Advanced
  <2> QED
      BY <2>3, <2>5, RewroteLeaves DEF BindingAfter
<1> QED
    BY <1>2, <1>3 DEF BindingAfter

LEMMA TargetLeaves ==
  ASSUME IInv, NEW w \in Windows, Target(w)
  PROVE  \E v : Leaves(w, v)
<1> DEFINE c == calls[w]
           rs == RootsOf(db, c.project)
           n == [c EXCEPT !.pc = "write", !.roots = rs]
<1>1. c \in Calls /\ CallInv(db, sent, c) /\ c.kind = "switch" /\ c # None
      BY CallOf DEF Target, At, CallInv, KindsAt
<1>2. CASE Goto(w, "failed")
  <2>1. "failed" \in Steps \ {"before", "measure", "sourced", "after"} /\ c.kind \in KindsAt("failed")
        BY <1>1 DEF Steps, KindsAt, Tracked
  <2>2. db' \in Rows /\ Later(db') /\ SentLater(sent')
        BY DEF Target, Later, SentLater, IInv, TypeOK
  <2> QED
      BY <1>1, <1>2, <2>1, <2>2, GotoLeaves
<1>3. CASE calls' = [calls EXCEPT ![w] = n]
  <2>1. rs \subseteq OrNone(Paths)
        BY DEF RootsOf, IInv, RowsOK, Rows
  <2> HIDE DEF rs
  <2>2. /\ n.kind = c.kind /\ n.request = c.request /\ n.project = c.project /\ n.repo = c.repo /\ n.path = c.path
        /\ n.task = c.task /\ n.expect = c.expect /\ n.pc = "write" /\ n.rows = c.rows /\ n.changes = c.changes
        /\ n.roots = rs /\ n.held = c.held
        BY <1>1 DEF Calls
  <2>3. n \in Calls
        BY <1>1, <2>1, <2>2 DEF Calls, Steps
  <2> HIDE DEF n
  <2>4. n.kind \in KindsAt(n.pc)
        BY <1>1, <2>2 DEF KindsAt
  <2>5. CallInv(db, sent, n)
    <3>1. \A row \in n.rows \cup n.changes : StillOf(db, row)
          BY <1>1, <2>2 DEF CallInv
    <3> QED
        BY <1>1, <2>2, <2>3, <2>4, <3>1, Advanced
  <2> QED
      BY <1>3, <2>3, <2>5, RewroteLeaves DEF Target
<1> QED
    BY <1>2, <1>3 DEF Target

LEMMA TicketLeaves ==
  ASSUME IInv, NEW w \in Windows, Ticket(w)
  PROVE  \E v : Leaves(w, v)
<1> DEFINE c == calls[w]
           n(k, pc) == [c EXCEPT !.kind = k, !.pc = pc]
<1>1. c \in Calls /\ CallInv(db, sent, c)
      BY CallOf DEF Ticket, At
<1>2. PICK k \in {"reconcile", "cancelSwitch"}, pc \in {"list", "cancel"} :
        calls' = [calls EXCEPT ![w] = n(k, pc)] /\ k \in KindsAt(pc)
      BY <1>1 DEF Ticket, KindsAt, IInv, TypeOK
<1> DEFINE m == n(k, pc)
<1>3. /\ m.kind = k /\ m.request = c.request /\ m.project = c.project /\ m.repo = c.repo /\ m.path = c.path
      /\ m.task = c.task /\ m.expect = c.expect /\ m.pc = pc /\ m.rows = c.rows /\ m.changes = c.changes
      /\ m.roots = c.roots /\ m.held = c.held
      BY <1>1 DEF Calls
<1>4. m \in Calls
      BY <1>1, <1>2, <1>3 DEF Calls, Steps, Kinds
<1>5. calls' = [calls EXCEPT ![w] = m]
      BY <1>2
<1> HIDE DEF m
<1>6. m.kind \notin Tracked /\ m.kind # "source" /\ m.pc \notin {"sourced", "before", "after"}
      BY <1>2, <1>3 DEF Tracked, RepoKinds, PlainKinds
<1>7. CallInv(db, sent, m)
      BY <1>1, <1>2, <1>3, <1>6 DEF CallInv
<1> QED
    BY <1>4, <1>5, <1>7, RewroteLeaves DEF Ticket

\* A call as a caller makes it: new, or one that was made before.
Askable(c) ==
  /\ c \in Calls /\ c.kind \in KindsAt(c.pc) /\ c.pc = First(c.kind)
  /\ c.rows = {} /\ c.changes = {} /\ ~c.held
  /\ c.kind \in Tracked => Issued(db, c) /\ sent[c.request] \in {None, c}
  /\ c.kind = "source" => c.repo \in Repos

LEMMA AskedIsAskable ==
  ASSUME IInv, NEW w \in Windows, Ask(w)
  PROVE  \E c : Askable(c) /\ Requested(w, c)
<1>1. PICK k \in Kinds :
        \E q \in CASE k \in Tracked -> {q \in Requests : sent[q] = None}
                   [] k = "cancelSwitch" -> Requests
                   [] OTHER -> {None} :
        \E p \in ProjectsFor(k) : \E r \in ReposFor(k, p), a \in PathsFor(k), t \in TasksFor(k) :
          Requested(w, [kind |-> k, request |-> q, project |-> p, repo |-> r, path |-> a, task |-> t,
                        expect |-> view[w], pc |-> First(k), rows |-> {}, changes |-> {},
                        roots |-> {}, held |-> FALSE])
      BY DEF Ask
<1>2. PICK q \in CASE k \in Tracked -> {q \in Requests : sent[q] = None}
                   [] k = "cancelSwitch" -> Requests
                   [] OTHER -> {None},
           p \in ProjectsFor(k) : \E r \in ReposFor(k, p), a \in PathsFor(k), t \in TasksFor(k) :
          Requested(w, [kind |-> k, request |-> q, project |-> p, repo |-> r, path |-> a, task |-> t,
                        expect |-> view[w], pc |-> First(k), rows |-> {}, changes |-> {},
                        roots |-> {}, held |-> FALSE])
      BY <1>1
<1>3. PICK r \in ReposFor(k, p), a \in PathsFor(k), t \in TasksFor(k) :
          Requested(w, [kind |-> k, request |-> q, project |-> p, repo |-> r, path |-> a, task |-> t,
                        expect |-> view[w], pc |-> First(k), rows |-> {}, changes |-> {},
                        roots |-> {}, held |-> FALSE])
      BY <1>2
<1> DEFINE c == [kind |-> k, request |-> q, project |-> p, repo |-> r, path |-> a, task |-> t,
                 expect |-> view[w], pc |-> First(k), rows |-> {}, changes |-> {}, roots |-> {}, held |-> FALSE]
<1>4. /\ c.kind = k /\ c.request = q /\ c.project = p /\ c.repo = r /\ c.path = a /\ c.task = t /\ c.expect = view[w]
      /\ c.pc = First(k) /\ c.rows = {} /\ c.changes = {} /\ c.roots = {} /\ c.held = FALSE
      OBVIOUS
<1>5. q \in OrNone(Requests) /\ (k \in Tracked => q \in Requests /\ sent[q] = None)
  <2>1. CASE k \in Tracked
    <3>1. k # "cancelSwitch"
          BY <2>1 DEF Tracked, RepoKinds, PlainKinds
    <3>2. q \in {x \in Requests : sent[x] = None}
          BY <1>2, <2>1, <3>1
    <3> QED
        BY <3>2 DEF OrNone
  <2>2. CASE k \notin Tracked
        BY <1>2, <2>2 DEF OrNone
  <2> QED
      BY <2>1, <2>2
<1>6. /\ p \in OrNone(Projects)
      /\ k = "create" => p \in Projects /\ db.told[p] = None
      /\ k \notin {"create", "snapshot", "reconcile"} => p \in db.projects /\ p \in Projects
  <2>1. CASE k = "create"
        BY <2>1 DEF ProjectsFor, FreshProject, OrNone
  <2>2. CASE k \in {"snapshot", "reconcile"}
        BY <2>2 DEF ProjectsFor, OrNone
  <2>3. CASE k \notin {"create", "snapshot", "reconcile"}
        BY <2>3 DEF ProjectsFor, OrNone, IInv, RowsOK, Rows
  <2> QED
      BY <2>1, <2>2, <2>3
<1>7. /\ r \in OrNone(Repos)
      /\ k \in {"create", "add"} => r \in Repos /\ db.root[r] = None
      /\ k = "source" => r \in Repos
  <2>1. CASE k \in {"create", "add"}
        BY <2>1 DEF ReposFor, FreshRepo, OrNone
  <2>2. CASE k \in {"relocate", "removeRepository", "bind", "source"}
        BY <2>2 DEF ReposFor, Of, OrNone
  <2>3. CASE k \notin {"create", "add"} \cup {"relocate", "removeRepository", "bind", "source"}
        BY <2>3 DEF ReposFor, OrNone
  <2> QED
      BY <2>1, <2>2, <2>3
<1>8. a \in OrNone(Paths) /\ t \in OrNone(Tasks) /\ (k \in {"create", "add"} => a \in Paths)
  <2>1. CASE k \in {"create", "add", "relocate"}
        BY <2>1 DEF PathsFor, TasksFor, OrNone
  <2>2. CASE k \notin {"create", "add", "relocate"}
        BY <2>2 DEF PathsFor, TasksFor, OrNone
  <2> QED
      BY <2>1, <2>2
<1>9. view[w] \in Nat /\ view[w] =< db.revision
      BY DEF IInv, TypeOK
<1>10. First(k) \in Steps /\ k \in KindsAt(First(k))
  <2>1. CASE k \in {"create", "add", "relocate"}
        BY <2>1 DEF First, KindsAt, Steps
  <2>2. CASE k \in {"switch", "snapshot", "reconcile", "source"}
        BY <2>2 DEF First, KindsAt, Steps
  <2>3. CASE k = "cancelSwitch"
        BY <2>3 DEF First, KindsAt, Steps
  <2>4. CASE k \in Tracked \ {"create", "add", "relocate", "switch"}
        BY <2>4 DEF First, KindsAt, Steps, Tracked, RepoKinds, PlainKinds
  <2> QED
      BY <1>1, <2>1, <2>2, <2>3, <2>4 DEF Kinds
<1> HIDE DEF c
<1>11. c \in Calls
      BY <1>1, <1>5, <1>6, <1>7, <1>8, <1>9, <1>10 DEF Calls, c
<1>12. k \in Tracked => Issued(db, c)
      BY <1>4, <1>5, <1>6, <1>7, <1>8, <1>9 DEF Issued, Tracked, RepoKinds, PlainKinds
<1>13. Askable(c)
      BY <1>4, <1>5, <1>7, <1>10, <1>11, <1>12 DEF Askable
<1> QED
    BY <1>3, <1>13 DEF c

LEMMA ResentIsAskable ==
  ASSUME IInv, NEW w \in Windows, Resend(w)
  PROVE  \E c : Askable(c) /\ Requested(w, c)
<1>1. PICK q \in Requests : sent[q] # None /\ Requested(w, sent[q])
      BY DEF Resend
<1> DEFINE c == sent[q]
<1>2. c \in Calls /\ SentInv(db, c, q)
      BY <1>1 DEF IInv, TypeOK, OrNone
<1>3. c.kind \in Tracked /\ c.pc = First(c.kind) /\ c.kind # "source"
      BY <1>1, <1>2 DEF SentInv, Tracked, RepoKinds, PlainKinds
<1>4. c.kind \in KindsAt(c.pc)
  <2>1. CASE c.kind \in {"create", "add", "relocate"}
        BY <1>3, <2>1 DEF First, KindsAt
  <2>2. CASE c.kind = "switch"
        BY <1>3, <2>2 DEF First, KindsAt
  <2>3. CASE c.kind \notin {"create", "add", "relocate", "switch"}
        BY <1>3, <2>3 DEF First, KindsAt, Tracked, RepoKinds, PlainKinds
  <2> QED
      BY <2>1, <2>2, <2>3
<1>5. Askable(c)
      BY <1>1, <1>2, <1>3, <1>4 DEF Askable, SentInv
<1> QED
    BY <1>1, <1>5

\* A request is written down with the call that was made, and an operation of its own is tracked for it.
LEMMA RequestedStep ==
  ASSUME IInv, NEW w \in Windows, NEW c, Askable(c), Requested(w, c)
  PROVE  /\ Leaves(w, c) /\ SentLater(sent') /\ db' = db
         /\ \A q \in Requests : SentInv(db, sent'[q], q)
<1>1. c \in Calls /\ c # None /\ db' = db /\ calls' = [calls EXCEPT ![w] = c]
      BY ProjectConstants DEF Askable, Requested
<1>2. c.kind \in Tracked => c.request \in Requests
      BY DEF Askable, Issued
<1>3. sent' = IF c.kind \in Tracked THEN [sent EXCEPT ![c.request] = c] ELSE sent
      BY DEF Requested
<1>4. sent \in [Requests -> OrNone(Calls)] /\ c \in OrNone(Calls)
      BY <1>1 DEF IInv, TypeOK, OrNone
<1>5. \A q \in Requests : sent'[q] = sent[q] \/ (q = c.request /\ c.kind \in Tracked /\ sent'[q] = c /\ sent[q] \in {None, c})
      BY <1>2, <1>3, <1>4 DEF Askable
<1>6. SentLater(sent')
      BY <1>1, <1>2, <1>3, <1>4, <1>5 DEF SentLater
<1>7. \A q \in Requests : SentInv(db, sent'[q], q)
      BY <1>5 DEF SentInv, Askable, IInv
<1>8. c.kind \in Tracked => sent'[c.request] = c
      BY <1>2, <1>3, <1>4
<1>9. c.pc \notin {"measure", "sourced", "before", "after"}
      BY DEF Askable, First
<1>10. CallInv(db, sent', c)
      BY <1>1, <1>8, <1>9 DEF Askable, CallInv, SourceHolds
<1> QED
    BY <1>1, <1>4, <1>6, <1>7, <1>10 DEF Leaves

\* Every step of a window: what it makes of its own call, and of the requests.
LEMMA CallStep ==
  ASSUME IInv, NEW w \in Windows, WindowStep(w)
  PROVE  /\ \E v : Leaves(w, v)
         /\ SentLater(sent')
         /\ \A q \in Requests : SentInv(db', sent'[q], q)
<1>1. CASE Ask(w) \/ Resend(w)
      BY <1>1, AskedIsAskable, ResentIsAskable, RequestedStep
<1>2. CASE ~(Ask(w) \/ Resend(w))
  <2>1. sent' = sent
        BY <1>2 DEF WindowStep, Complete, Failed, Probe, Write, Unlink, Mutate, List, Look, Refresh, Snapshot,
             BindingBefore, Measure, BindingAfter, Sourced, Target, Ticket, ReconcilePending, ReconcileActive,
             CancelSwitch
  <2>2. SentLater(sent')
        BY <2>1 DEF SentLater, IInv, TypeOK
  <2>3. RowsOK(db') /\ Later(db') /\ db' \in Rows /\ RowsOK(db)
        BY DbStep DEF RowsOK, Next, IInv
  <2>4. ASSUME NEW q \in Requests PROVE SentInv(db', sent'[q], q)
    <3>1. sent[q] # None => sent[q] \in Calls
          BY DEF IInv, TypeOK, OrNone
    <3> QED
        BY <2>1, <2>3, <3>1, KeptIssued DEF SentInv, IInv
  <2>5. ASSUME Complete(w) \/ Failed(w) \/ Snapshot(w) \/ Sourced(w) \/ ReconcilePending(w) \/ ReconcileActive(w)
                 \/ CancelSwitch(w)
        PROVE  \E v : Leaves(w, v)
    <3>1. Return(w)
          BY <2>5 DEF Complete, Failed, Snapshot, Sourced, ReconcilePending, ReconcileActive, CancelSwitch
    <3> QED
        BY <3>1, ReturnLeaves
  <2>6. \E v : Leaves(w, v)
        BY <1>2, <2>5, ProbeLeaves, WriteLeaves, MutateLeaves, ListLeaves, LookLeaves, RefreshLeaves, BeforeLeaves,
           MeasureLeaves, AfterLeaves, TargetLeaves, TicketLeaves DEF WindowStep
  <2> QED
      BY <2>2, <2>4, <2>6
<1> QED
    BY <1>1, <1>2

\* The other windows' calls keep what they rely on.
LEMMA CallsHold ==
  ASSUME IInv, NEW w \in Windows, WindowStep(w)
  PROVE  /\ calls' \in [Windows -> OrNone(Calls)] /\ sent' \in [Requests -> OrNone(Calls)]
         /\ \A x \in Windows : calls'[x] # None => CallInv(db', sent', calls'[x])
<1>1. PICK v : Leaves(w, v)
      BY CallStep
<1>2. SentLater(sent') /\ RowsOK(db') /\ Later(db') /\ db' \in Rows /\ RowsOK(db)
      BY CallStep, DbStep DEF RowsOK, Next, IInv
<1>3. calls \in [Windows -> OrNone(Calls)]
      BY DEF IInv, TypeOK
<1>4. ASSUME NEW x \in Windows, calls'[x] # None
      PROVE  CallInv(db', sent', calls'[x])
  <2>1. CASE x = w
        BY <1>1, <1>3, <1>4, <2>1 DEF Leaves
  <2>2. CASE x # w
    <3>1. calls'[x] = calls[x] /\ calls[x] \in Calls /\ CallInv(db, sent, calls[x])
          BY <1>1, <1>3, <1>4, <2>2, CallOf DEF Leaves
    <3> QED
        BY <1>2, <3>1, KeptCall
  <2> QED
      BY <2>1, <2>2
<1> QED
    BY <1>1, <1>2, <1>3, <1>4 DEF Leaves, SentLater

\* The operations in memory: each tracked by one request at most.
Memory ==
  /\ live \subseteq 1..issued /\ issued \in Nat
  /\ tracked \in [Requests -> live \cup {None}]
  /\ TrackedApart

LEMMA EndedMemory ==
  ASSUME Memory, NEW q \in Requests, EndOperation(q), issued' = issued
  PROVE  Memory'
BY DEF Memory, EndOperation, TrackedApart

LEMMA MemoryStep ==
  ASSUME IInv, NEW w \in Windows, WindowStep(w)
  PROVE  Memory'
<1> Memory
    BY DEF Memory, IInv, TypeOK
<1>1. CASE UNCHANGED <<issued, live, tracked>>
      BY <1>1 DEF Memory, TrackedApart
<1>2. CASE Ask(w) \/ Resend(w)
  <2>1. PICK c : Askable(c) /\ Requested(w, c)
        BY <1>2, AskedIsAskable, ResentIsAskable
  <2>2. CASE c.kind \in Tracked
    <3>1. c.request \in Requests /\ issued' = issued + 1 /\ live' = live \cup {issued + 1}
          /\ tracked' = [tracked EXCEPT ![c.request] = issued + 1]
          BY <2>1, <2>2 DEF Requested, Askable, Issued
    <3>2. None \notin Nat
          BY ProjectConstants
    <3>3. live' \subseteq 1..issued' /\ issued' \in Nat /\ tracked' \in [Requests -> live' \cup {None}]
          BY <3>1 DEF Memory
    <3>4. TrackedApart'
      <4> SUFFICES ASSUME NEW q \in Requests, NEW p \in Requests, q # p, tracked'[q] # None
                   PROVE  tracked'[q] # tracked'[p]
          BY DEF TrackedApart
      <4>1. \A x \in Requests : tracked[x] # issued + 1
            BY <3>2 DEF Memory
      <4> QED
          BY <3>1, <4>1 DEF Memory, TrackedApart
    <3> QED
        BY <3>3, <3>4 DEF Memory
  <2>3. CASE c.kind \notin Tracked
    <3>1. issued' = issued + 1 /\ UNCHANGED <<live, tracked>>
          BY <2>1, <2>3 DEF Requested
    <3> QED
        BY <3>1 DEF Memory, TrackedApart
  <2> QED
      BY <2>2, <2>3
<1>3. CASE Complete(w) \/ Failed(w)
  <2>1. calls[w] # None /\ calls[w].kind \in Tracked
        BY <1>3, CallOf DEF Complete, Failed, At, CallInv, KindsAt
  <2>2. calls[w].request \in Requests
        BY <2>1, CallOf DEF CallInv, Issued
  <2> QED
      BY <1>3, <2>2, EndedMemory DEF Complete, Failed
<1>4. CASE ReconcilePending(w) \/ CancelSwitch(w)
  <2>1. db.pending # None => db.pending.request \in Requests
        BY DEF IInv, RowsOK, Rows, OrNone, Switches
  <2> QED
      BY <1>1, <1>4, <2>1, EndedMemory DEF ReconcilePending, CancelSwitch
<1>5. CASE Probe(w) \/ Write(w) \/ Unlink(w) \/ Mutate(w) \/ List(w) \/ Look(w) \/ Refresh(w) \/ Snapshot(w)
             \/ BindingBefore(w) \/ Measure(w) \/ BindingAfter(w) \/ Sourced(w) \/ Target(w) \/ Ticket(w)
             \/ ReconcileActive(w)
      BY <1>1, <1>5 DEF Probe, Write, Unlink, Mutate, List, Look, Refresh, Snapshot, BindingBefore, Measure,
         BindingAfter, Sourced, Target, Ticket, ReconcileActive
<1> QED
    BY <1>2, <1>3, <1>4, <1>5 DEF WindowStep

\* A request is carried out at a revision it names, and only once it is one.
LEMMA AppliedStep ==
  ASSUME IInv, NEW w \in Windows, WindowStep(w)
  PROVE  /\ applied' \in [Requests -> Nat]
         /\ \A q \in Requests : AppliedInv(q)'
<1>1. SentLater(sent') /\ db' \in Rows /\ Later(db') /\ RowsOK(db) /\ applied \in [Requests -> Nat]
      BY CallStep, DbStep DEF RowsOK, Next, IInv, TypeOK
<1>2. \A q \in Requests : sent[q] # None => sent[q].expect \in Nat
      BY DEF IInv, TypeOK, OrNone, Calls
<1>3. db.revision \in Nat /\ db'.revision \in Nat /\ db.revision =< db'.revision
      BY <1>1 DEF RowsOK, Rows, Later
<1>4. CASE applied' = applied
      BY <1>1, <1>2, <1>3, <1>4 DEF IInv, AppliedInv, SentLater
<1>5. CASE Mutate(w) /\ applied' # applied
  <2> DEFINE c == calls[w]
  <2>1. /\ Committed(c) # None /\ db' = Committed(c) /\ sent' = sent
        /\ applied' = [applied EXCEPT ![c.request] = @ + 1]
        BY <1>5 DEF Mutate
  <2>2. c \in Calls /\ CallInv(db, sent, c) /\ c.kind \in Tracked
        BY <1>5, CallOf DEF Mutate, At, CallInv, KindsAt
  <2>3. Issued(db, c) /\ c.request \in Requests /\ sent[c.request] # None /\ c.expect = sent[c.request].expect
        BY <2>2 DEF CallInv, Issued
  <2>4. db'.revision = db.revision + 1 /\ c.expect = db.revision
        BY <1>1, <2>1, <2>2, <2>3, CommittedRows
  <2>a. \A q \in Requests : AppliedInv(q)
        BY DEF IInv
  <2>5. applied[c.request] = 0
    <3>1. AppliedInv(c.request)
          BY <2>3, <2>a
    <3>2. ~(db.revision > sent[c.request].expect)
          BY <1>3, <2>3, <2>4
    <3> QED
        BY <3>1, <3>2 DEF AppliedInv
  <2>6. applied'[c.request] = 1 /\ \A q \in Requests : q # c.request => applied'[q] = applied[q]
        BY <1>1, <2>1, <2>3, <2>5
  <2>7. ASSUME NEW q \in Requests PROVE AppliedInv(q)'
    <3>1. CASE q = c.request
      <4>1. db'.revision > sent'[q].expect
        <5>1. sent'[q].expect = db.revision
              BY <2>1, <2>3, <2>4, <3>1
        <5> QED
            BY <1>3, <2>4, <5>1
      <4> QED
          BY <2>1, <2>3, <2>6, <3>1, <4>1 DEF AppliedInv
    <3>2. CASE q # c.request
      <4>1. applied'[q] = applied[q] /\ sent'[q] = sent[q] /\ AppliedInv(q)
            BY <2>1, <2>6, <2>a, <3>2
      <4> QED
          BY <1>2, <1>3, <4>1 DEF AppliedInv
    <3> QED
        BY <3>1, <3>2
  <2>8. applied' \in [Requests -> Nat]
    <3>1. applied[c.request] + 1 \in Nat
          BY <2>5
    <3> QED
        BY <1>1, <2>1, <2>3, <3>1
  <2> QED
      BY <2>7, <2>8
<1>6. applied' = applied \/ Mutate(w)
      BY DEF WindowStep, Ask, Resend, Requested, Complete, Failed, Probe, Write, Unlink, List, Look, Refresh, Snapshot,
         BindingBefore, Measure, BindingAfter, Sourced, Target, Ticket, ReconcilePending, ReconcileActive, CancelSwitch
<1> QED
    BY <1>4, <1>5, <1>6

\* What a step of a window does to the directories, the workspace files and the windows.
Places ==
  /\ disk \subseteq Paths /\ files \in [Projects -> OrNone(SUBSET OrNone(Paths))]
  /\ accepting \in BOOLEAN /\ moves \in Nat
  /\ open \in [Windows -> OrNone(Projects)]

LEMMA PlacesStep ==
  ASSUME IInv, NEW w \in Windows, WindowStep(w)
  PROVE  Places'
<1> Places
    BY DEF Places, IInv, TypeOK
<1>1. CASE UNCHANGED <<disk, files, accepting, open, moves>>
      BY <1>1 DEF Places
<1>2. CASE Failed(w) \/ Unlink(w)
      BY <1>2 DEF Failed, Unlink, Places, OrNone
<1>3. CASE Write(w)
  <2>1. calls[w] \in Calls
        BY <1>3, CallOf DEF Write, At
  <2>2. calls[w].roots \in OrNone(SUBSET OrNone(Paths))
        BY <2>1 DEF Calls, OrNone
  <2> QED
      BY <1>3, <2>2 DEF Write, Places
<1>4. CASE Ticket(w)
  <2>1. calls[w] \in Calls
        BY <1>4, CallOf DEF Ticket, At
  <2>2. calls[w].project \in OrNone(Projects)
        BY <2>1 DEF Calls
  <2> QED
      BY <1>4, <2>2 DEF Ticket, Places
<1>5. CASE ReconcilePending(w) \/ ReconcileActive(w)
  <2>1. db.active \in OrNone(Projects) /\ (db.pending # None => db.pending.from \in OrNone(Projects))
        BY DEF IInv, RowsOK, Rows, Switches, OrNone
  <2> QED
      BY <1>5, <2>1 DEF ReconcilePending, ReconcileActive, Places
<1>6. CASE Ask(w) \/ Resend(w) \/ Complete(w) \/ Probe(w) \/ Mutate(w) \/ List(w) \/ Look(w) \/ Refresh(w)
             \/ Snapshot(w) \/ BindingBefore(w) \/ Measure(w) \/ BindingAfter(w) \/ Sourced(w) \/ Target(w)
             \/ CancelSwitch(w)
  <2>1. CASE Ask(w) \/ Resend(w)
        BY <1>1, <2>1 DEF Ask, Resend, Requested
  <2>2. CASE Complete(w) \/ Probe(w) \/ Mutate(w) \/ List(w) \/ Look(w) \/ Refresh(w)
        BY <1>1, <2>2 DEF Complete, Probe, Mutate, List, Look, Refresh
  <2>3. CASE Snapshot(w) \/ BindingBefore(w) \/ Measure(w) \/ BindingAfter(w) \/ Sourced(w) \/ Target(w)
               \/ CancelSwitch(w)
        BY <1>1, <2>3 DEF Snapshot, BindingBefore, Measure, BindingAfter, Sourced, Target, CancelSwitch
  <2> QED
      BY <1>6, <2>1, <2>2, <2>3
<1> QED
    BY <1>2, <1>3, <1>4, <1>5, <1>6 DEF WindowStep

\* A window's snapshot is never of a revision still to come.
Views == view \in [Windows -> Nat] /\ \A w \in Windows : view[w] =< db.revision

LEMMA ViewsStep ==
  ASSUME IInv, [Next]_vars
  PROVE  Views'
<1>1. view' = view \/ \E w \in Windows : view' = [view EXCEPT ![w] = db.revision]
  <2>1. ASSUME NEW w \in Windows, WindowStep(w)
        PROVE  view' = view \/ view' = [view EXCEPT ![w] = db.revision]
    <3>1. CASE Ask(w) \/ Resend(w)
          BY <3>1 DEF Ask, Resend, Requested
    <3>2. CASE Complete(w) \/ Failed(w) \/ Probe(w) \/ Write(w) \/ Unlink(w) \/ Mutate(w) \/ List(w) \/ Look(w)
          BY <3>2 DEF Complete, Failed, Probe, Write, Unlink, Mutate, List, Look
    <3>3. CASE Refresh(w) \/ Snapshot(w) \/ BindingBefore(w) \/ Measure(w) \/ BindingAfter(w) \/ Sourced(w)
          BY <3>3 DEF Refresh, Snapshot, BindingBefore, Measure, BindingAfter, Sourced
    <3>4. CASE Target(w) \/ Ticket(w) \/ ReconcilePending(w) \/ ReconcileActive(w) \/ CancelSwitch(w)
          BY <3>4 DEF Target, Ticket, ReconcilePending, ReconcileActive, CancelSwitch
    <3> QED
        BY <2>1, <3>1, <3>2, <3>3, <3>4 DEF WindowStep
  <2>2. CASE DiskChanges \/ Stop \/ Start \/ UNCHANGED vars
        BY <2>2 DEF DiskChanges, Stop, Start, vars
  <2> QED
      BY <2>1, <2>2 DEF Next
<1>2. db.revision \in Nat /\ db'.revision \in Nat /\ db.revision =< db'.revision
      BY DbStep DEF RowsOK, Rows, Later, IInv
<1>3. Views
      BY DEF IInv, TypeOK, Views
<1> QED
    BY <1>1, <1>2, <1>3 DEF Views

LEMMA WindowKeeps ==
  ASSUME IInv, NEW w \in Windows, WindowStep(w)
  PROVE  IInv'
<1>1. [Next]_vars
      BY DEF Next
<1>2. RowsOK(db') /\ db' \in Rows
      BY <1>1, DbStep DEF RowsOK
<1>3. TypeOK'
      BY <1>1, <1>2, CallsHold, MemoryStep, AppliedStep, PlacesStep, ViewsStep DEF TypeOK, Memory, Places, Views
<1>4. \A q \in Requests : SentInv(db', sent'[q], q) /\ AppliedInv(q)'
      BY CallStep, AppliedStep
<1>5. TrackedApart' /\ Views'
      BY <1>1, MemoryStep, ViewsStep DEF Memory
<1>6. \A x \in Windows : calls'[x] # None => CallInv(db', sent', calls'[x])
      BY CallsHold
<1> QED
    BY <1>2, <1>3, <1>4, <1>5, <1>6 DEF IInv, Views

LEMMA StopKeeps ==
  ASSUME IInv, Stop
  PROVE  IInv'
<1> DEFINE n(w) == [calls[w] EXCEPT !.pc = "failed"]
<1>1. calls' = [w \in Windows |-> IF At(w, "probe") THEN n(w) ELSE calls[w]]
      BY DEF Stop
<1>2. UNCHANGED <<db, disk, files, tracked, live, view, open, issued, moves, sent, applied>> /\ accepting' = FALSE
      BY DEF Stop
<1>3. ASSUME NEW w \in Windows, At(w, "probe")
      PROVE  n(w) \in Calls /\ CallInv(db, sent, n(w))
  <2>1. calls[w] \in Calls /\ CallInv(db, sent, calls[w]) /\ calls[w].kind \in KindsAt("probe")
        BY <1>3, CallOf DEF At, CallInv
  <2>2. calls[w].kind \in KindsAt("failed") /\ "failed" \in Steps
        BY <2>1 DEF KindsAt, Tracked, RepoKinds, Steps
  <2> QED
      BY <2>1, <2>2, WentOn
<1> HIDE DEF n
<1>4. ASSUME NEW w \in Windows
      PROVE  calls'[w] \in OrNone(Calls) /\ (calls'[w] # None => CallInv(db, sent, calls'[w]))
  <2>1. CASE At(w, "probe")
        BY <1>1, <1>3, <2>1 DEF OrNone
  <2>2. CASE ~At(w, "probe")
        BY <1>1, <2>2 DEF IInv, TypeOK
  <2> QED
      BY <2>1, <2>2
<1>5. calls' \in [Windows -> OrNone(Calls)]
  <2>1. calls' = [w \in Windows |-> calls'[w]]
        BY <1>1
  <2> QED
      BY <1>4, <2>1
<1>6. TypeOK'
      BY <1>2, <1>5 DEF IInv, TypeOK
<1>7. TrackedApart' /\ Views' /\ \A q \in Requests : AppliedInv(q)'
      BY <1>2 DEF IInv, TypeOK, TrackedApart, Views, AppliedInv
<1> QED
    BY <1>2, <1>4, <1>6, <1>7 DEF IInv, Views

LEMMA StartKeeps ==
  ASSUME IInv, Start
  PROVE  IInv'
<1>1. [Next]_vars
      BY DEF Next
<1>2. /\ UNCHANGED <<disk, files, view, open, issued, moves, sent, applied>>
      /\ accepting' = TRUE /\ calls' = [w \in Windows |-> None]
      /\ tracked' = [q \in Requests |-> None] /\ live' = {}
      BY DEF Start
<1>3. RowsOK(db') /\ Later(db') /\ db' \in Rows /\ RowsOK(db)
      BY <1>1, DbStep DEF RowsOK, IInv
<1>4. TypeOK'
      BY <1>2, <1>3 DEF IInv, TypeOK, OrNone
<1>5. TrackedApart' /\ Views'
      BY <1>1, <1>2, ViewsStep DEF TrackedApart
<1>6. ASSUME NEW q \in Requests PROVE SentInv(db', sent'[q], q) /\ AppliedInv(q)'
  <2>1. sent[q] # None => sent[q] \in Calls /\ sent[q].expect \in Nat
        BY DEF IInv, TypeOK, OrNone, Calls
  <2>2. SentInv(db', sent'[q], q)
        BY <1>2, <1>3, <2>1, KeptIssued DEF SentInv, IInv
  <2>3. db.revision \in Nat /\ db'.revision \in Nat /\ db.revision =< db'.revision
        BY <1>3 DEF RowsOK, Rows, Later
  <2> QED
      BY <1>2, <2>1, <2>2, <2>3 DEF IInv, AppliedInv
<1> QED
    BY <1>2, <1>3, <1>4, <1>5, <1>6 DEF IInv, Views

LEMMA InitIInv ==
  ASSUME Init
  PROVE  IInv
<1>1. PICK p \in Projects, root \in [Repos -> Paths \cup {None}], on \in BOOLEAN :
        LET mine == {r \in Repos : root[r] # None}
        IN  /\ db = [revision |-> 1, projects |-> {p}, home |-> [r \in Repos |-> IF r \in mine THEN p ELSE None],
                    root |-> root, avail |-> [r \in Repos |-> "available"],
                    bound |-> [t \in Tasks |-> None], active |-> IF on THEN p ELSE None, pending |-> None,
                    results |-> <<>>, told |-> [x \in Projects |-> IF x = p THEN "available" ELSE None]]
            /\ files = [x \in Projects |-> IF x = p THEN {root[r] : r \in mine} ELSE None]
      BY DEF Init
<1>2. p # None /\ <<>> \in Seq(Requests \X Digests)
      BY ProjectConstants
<1>3. /\ db.revision = 1 /\ db.projects = {p} /\ db.root = root /\ db.pending = None /\ db.results = <<>>
      /\ db.home = [r \in Repos |-> IF root[r] # None THEN p ELSE None]
      /\ db.avail = [r \in Repos |-> "available"] /\ db.bound = [t \in Tasks |-> None]
      /\ db.active \in {p, None}
      /\ db.told = [x \in Projects |-> IF x = p THEN "available" ELSE None]
      BY <1>1
<1>4. db \in Rows
      BY <1>1, <1>2, <1>3 DEF Rows, OrNone
<1>5. RowsOK(db)
      BY <1>2, <1>3, <1>4, ProjectConstants DEF RowsOK, Refs, Told, Available, Rooted
<1>6. files \in [Projects -> OrNone(SUBSET OrNone(Paths))]
      BY <1>1 DEF OrNone
<1>7. TypeOK
      BY <1>4, <1>6 DEF Init, TypeOK, OrNone
<1>8. TrackedApart /\ Views
      BY <1>3 DEF Init, TrackedApart, Views
<1>9. \A q \in Requests : SentInv(db, sent[q], q) /\ AppliedInv(q)
      BY DEF Init, SentInv, AppliedInv
<1> QED
    BY <1>5, <1>7, <1>8, <1>9 DEF Init, IInv, Views

LEMMA NextIInv ==
  ASSUME IInv, [Next]_vars
  PROVE  IInv'
<1>1. CASE \E w \in Windows : WindowStep(w)
      BY <1>1, WindowKeeps
<1>2. CASE DiskChanges
  <2>1. disk' \subseteq Paths /\ moves' \in Nat
        BY <1>2 DEF DiskChanges, IInv, TypeOK
  <2>2. UNCHANGED <<db, files, accepting, calls, tracked, live, view, open, issued, sent, applied>>
        BY <1>2 DEF DiskChanges
  <2>3. TypeOK'
        BY <2>1, <2>2 DEF IInv, TypeOK
  <2> QED
      BY <2>2, <2>3 DEF IInv, TrackedApart, AppliedInv
<1>3. CASE Stop
      BY <1>3, StopKeeps
<1>4. CASE Start
      BY <1>4, StartKeeps
<1>5. CASE UNCHANGED vars
      BY <1>5 DEF vars, IInv, TypeOK, TrackedApart, AppliedInv
<1> QED
    BY <1>1, <1>2, <1>3, <1>4, <1>5 DEF Next

LEMMA AlwaysIInv == Spec => []IInv
BY InitIInv, NextIInv, PTL DEF Spec

-----------------------------------------------------------------------------
(* The properties *)

(* Every value the registry keeps, and every call in progress, has its     *)
(* type, and no two requests are tracked by one operation.                 *)
THEOREM TypeCorrect == Spec => []TypeOK
<1>1. IInv => TypeOK
      BY DEF IInv
<1> QED
    BY <1>1, AlwaysIInv, PTL

(* What a row names exists, although requestSwitch never asks again after  *)
(* its awaits whether its target is still there.                           *)
THEOREM References == Spec => []ReferencesHold
<1>1. IInv => ReferencesHold
      BY DEF IInv, RowsOK, Refs, ReferencesHold
<1> QED
    BY <1>1, AlwaysIInv, PTL

(* A request is carried out at most once, although mutateChecked forgets   *)
(* the oldest results and a request may be sent again at any time.         *)
THEOREM RequestsApplyOnce == Spec => []AppliedOnce
<1>1. IInv => AppliedOnce
      BY DEF IInv, AppliedInv, AppliedOnce
<1> QED
    BY <1>1, AlwaysIInv, PTL

(* A project with a missing repository is one the events called            *)
(* unavailable last, whatever was committed while the roots were looked at.*)
THEOREM LossIsTold == Spec => []UnavailableIsTold
<1>1. IInv => UnavailableIsTold
      BY DEF IInv, RowsOK, Told, UnavailableIsTold
<1> QED
    BY <1>1, AlwaysIInv, PTL

(* resolveSourceBinding hands out a measurement only if the binding held   *)
(* when Git was asked: an equal revision says nothing changed between.     *)
THEOREM SourcesMeasured == Spec => []MeasuredWhileBound
<1>1. IInv => MeasuredWhileBound
      BY DEF IInv, CallInv, MeasuredWhileBound, At
<1> QED
    BY <1>1, AlwaysIInv, PTL
=============================================================================
