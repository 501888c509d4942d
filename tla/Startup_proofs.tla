--------------------------- MODULE Startup_proofs ---------------------------
(***************************************************************************)
(* For any account names, folders, dialects, settings and number of        *)
(* crashes: the recorded versions tell the schema, and what was seeded is  *)
(* not seeded again, with two processes migrating one database at once.    *)
(***************************************************************************)
EXTENDS Startup, TLAPS

-----------------------------------------------------------------------------
(* The inductive invariant.                                                *)

(* The tables and columns of the statements of a migration before the i-th *)
(* are among the parts.                                                    *)
Landed(v, i, parts) ==
    \A j \in DOMAIN MIGRATIONS[v] :
        j < i /\ Ddl(MIGRATIONS[v][j]) => MIGRATIONS[v][j].part \in parts

(* A process that migrates sees what its statements so far have done.      *)
InPlace(p) ==
    pc[p] = "migrating" =>
        /\ stmt[p] = 1 \/ stmt[p] - 1 \in DOMAIN MIGRATIONS[at[p]]
        /\ Landed(at[p], stmt[p], View(p).parts)

(* What is recorded has no gap and is there, on Postgres nothing else, and *)
(* no process is further than the next version.                            *)
Recorded(k) ==
    /\ db.versions = 1..k /\ PartsUpTo(k) \subseteq db.parts
    /\ dialect = "postgres" => db.parts \subseteq PartsUpTo(k)
    /\ \A p \in Processes : /\ pc[p] = "migrating" => at[p] <= k + 1
                            /\ pc[p] \in {"migrated", "up"} => k = Last

(* What is not committed yet is one migration's: its parts, and the rows   *)
(* that the second or the third inserts.                                   *)
DraftSound ==
    writer # Nobody =>
        /\ pc[writer] = "migrating"
        /\ draft.versions = db.versions /\ db.parts \subseteq draft.parts
        /\ dialect = "postgres" => draft.parts \subseteq db.parts \cup Parts(at[writer])
        /\ at[writer] # 2 => draft.users = db.users
        /\ at[writer] # 3 => draft.folders = db.folders

IInv ==
    /\ TypeOK
    /\ \E k \in 0..Last : Recorded(k)
    /\ DraftSound
    /\ \A p \in Processes : InPlace(p)

(* A database from before the squash is never migrated, so that nobody     *)
(* writes it in a transaction.                                             *)
Skipped ==
    /\ TypeOK /\ NeverUpgraded /\ writer = Nobody
    /\ \A p \in Processes : pc[p] # "migrating"

-----------------------------------------------------------------------------
(* The migrations.                                                         *)

Kinds == {"create", "add", "count_users", "insert_admin", "insert_folders"}

\* A migration has one to three statements of five kinds. Only the second counts
\* users, and then inserts the admin; only the third inserts folders.
LEMMA Statements ==
  ASSUME NEW v \in 1..Last
  PROVE  /\ \/ DOMAIN MIGRATIONS[v] = 1..1
            \/ DOMAIN MIGRATIONS[v] = 1..2
            \/ DOMAIN MIGRATIONS[v] = 1..3
         /\ \A i \in DOMAIN MIGRATIONS[v] :
               /\ MIGRATIONS[v][i].do \in Kinds
               /\ MIGRATIONS[v][i].do = "insert_admin" => v = 2
               /\ MIGRATIONS[v][i].do = "insert_folders" => v = 3
               /\ MIGRATIONS[v][i].do = "count_users" =>
                     i = 1 /\ 2 \in DOMAIN MIGRATIONS[v] /\ ~Ddl(MIGRATIONS[v][2])
<1> DEFINE Good(m, w) ==
             /\ DOMAIN m = 1..1 \/ DOMAIN m = 1..2 \/ DOMAIN m = 1..3
             /\ \A i \in DOMAIN m :
                   /\ m[i].do \in Kinds
                   /\ m[i].do = "insert_admin" => w = 2
                   /\ m[i].do = "insert_folders" => w = 3
                   /\ m[i].do = "count_users" => i = 1 /\ 2 \in DOMAIN m /\ ~Ddl(m[2])
<1>1. ASSUME NEW s, s.do \in {"create", "add"}, NEW w PROVE Good(<<s>>, w)
  <2>1. PICK m : m = <<s>>
    OBVIOUS
  <2>2. DOMAIN m = 1..1 /\ \A i \in DOMAIN m : m[i] = s
    BY <2>1
  <2>3. Good(m, w)
    BY <1>1, <2>2 DEF Kinds
  <2> QED
    BY <2>1, <2>3
<1>2. Good(<<Do("count_users"), Do("insert_admin")>>, 2)
  <2>1. PICK m : m = <<Do("count_users"), Do("insert_admin")>>
    OBVIOUS
  <2>2. DOMAIN m = 1..2 /\ m[1].do = "count_users" /\ m[2].do = "insert_admin"
    BY <2>1 DEF Do
  <2>3. 2 \in DOMAIN m /\ \A i \in DOMAIN m : i = 1 \/ i = 2
    BY <2>2
  <2>4. ~Ddl(m[2])
    BY <2>2 DEF Ddl
  <2>5. Good(m, 2)
    BY <2>2, <2>3, <2>4 DEF Kinds
  <2> QED
    BY <2>1, <2>5
<1>3. Good(<<Do("insert_folders")>>, 3)
  <2>1. PICK m : m = <<Do("insert_folders")>>
    OBVIOUS
  <2>2. DOMAIN m = 1..1 /\ \A i \in DOMAIN m : m[i].do = "insert_folders"
    BY <2>1 DEF Do
  <2>3. Good(m, 3)
    BY <2>2 DEF Kinds
  <2> QED
    BY <2>1, <2>3
<1>4. Good(<<Add("channels"), Add("sample_rate"), Add("bit_depth")>>, 6)
  <2>1. PICK m : m = <<Add("channels"), Add("sample_rate"), Add("bit_depth")>>
    OBVIOUS
  <2>2. DOMAIN m = 1..3 /\ m[1].do = "add" /\ m[2].do = "add" /\ m[3].do = "add"
    BY <2>1 DEF Add
  <2>3. \A i \in DOMAIN m : i = 1 \/ i = 2 \/ i = 3
    BY <2>2
  <2>4. Good(m, 6)
    BY <2>2, <2>3 DEF Kinds
  <2> QED
    BY <2>1, <2>4
<1>5. ASSUME NEW x
      PROVE  Create(x).do = "create" /\ Add(x).do = "add"
  BY DEF Create, Add
<1> HIDE DEF Good
<1>6. /\ MIGRATIONS[1] = <<Create("schema")>>
      /\ MIGRATIONS[2] = <<Do("count_users"), Do("insert_admin")>>
      /\ MIGRATIONS[3] = <<Do("insert_folders")>>
      /\ MIGRATIONS[4] = <<Add("current_position")>>
  BY DEF MIGRATIONS
<1>7. /\ MIGRATIONS[5] = <<Create("user_external_accounts")>>
      /\ MIGRATIONS[6] = <<Add("channels"), Add("sample_rate"), Add("bit_depth")>>
      /\ MIGRATIONS[7] = <<Create("track_features")>>
      /\ MIGRATIONS[8] = <<Add("lyrics")>>
  BY DEF MIGRATIONS
<1>8. /\ MIGRATIONS[9] = <<Create("bookmarks")>>
      /\ MIGRATIONS[10] = <<Create("internet_radio_stations")>>
      /\ MIGRATIONS[11] = <<Create("ratings")>>
      /\ MIGRATIONS[12] = <<Create("idx_tracks_musicbrainz_id")>>
  BY DEF MIGRATIONS
<1>9. Good(MIGRATIONS[v], v)
  <2>1. v \in 1..12
    BY DEF Last
  <2>2. CASE v \in {1, 2, 3, 4}
    <3>1. Good(MIGRATIONS[1], 1)
      BY <1>1, <1>5, <1>6
    <3>2. Good(MIGRATIONS[4], 4)
      BY <1>1, <1>5, <1>6
    <3>3. Good(MIGRATIONS[2], 2)
      BY <1>2, <1>6
    <3>4. Good(MIGRATIONS[3], 3)
      BY <1>3, <1>6
    <3> QED
      BY <2>2, <3>1, <3>2, <3>3, <3>4
  <2>3. CASE v \in {5, 6, 7, 8}
    <3>1. Good(MIGRATIONS[5], 5) /\ Good(MIGRATIONS[7], 7) /\ Good(MIGRATIONS[8], 8)
      BY <1>1, <1>5, <1>7
    <3>2. Good(MIGRATIONS[6], 6)
      BY <1>4, <1>7
    <3> QED
      BY <2>3, <3>1, <3>2
  <2>4. CASE v \in {9, 10, 11, 12}
    BY <1>1, <1>5, <1>8, <2>4
  <2> QED
    BY <2>1, <2>2, <2>3, <2>4
<1> QED
  BY <1>9 DEF Good

\* The parts of a migration are those of its statements.
LEMMA PartsOf ==
  ASSUME NEW v \in 1..Last
  PROVE  /\ \A i \in DOMAIN MIGRATIONS[v] :
               Ddl(MIGRATIONS[v][i]) => MIGRATIONS[v][i].part \in Parts(v)
         /\ \A part \in Parts(v) : \E i \in DOMAIN MIGRATIONS[v] :
               Ddl(MIGRATIONS[v][i]) /\ MIGRATIONS[v][i].part = part
BY DEF Parts

\* The next version adds the parts of its migration.
LEMMA PartsStep ==
  ASSUME NEW k \in 0..Last
  PROVE  /\ PartsUpTo(k) \subseteq PartsUpTo(Last)
         /\ k < Last => PartsUpTo(k + 1) = PartsUpTo(k) \cup Parts(k + 1)
         /\ \A v \in 1..k : Parts(v) \subseteq PartsUpTo(k)
<1>1. k \in Nat /\ Last \in Nat /\ k <= Last
  BY DEF Last
<1>2. \A v \in 1..k : Parts(v) \subseteq PartsUpTo(k)
  BY DEF PartsUpTo
<1>3. \A v \in 1..k : v \in 1..Last
  BY <1>1
<1>4. PartsUpTo(k) \subseteq PartsUpTo(Last)
  BY <1>3 DEF PartsUpTo
<1>5. \A v : v \in 1..(k + 1) <=> v \in 1..k \/ v = k + 1
  BY <1>1
<1>6. PartsUpTo(k + 1) = PartsUpTo(k) \cup Parts(k + 1)
  BY <1>5 DEF PartsUpTo
<1> QED
  BY <1>2, <1>4, <1>6

\* A migration whose statements have all landed is there.
LEMMA AllLanded ==
  ASSUME NEW v \in 1..Last, NEW i \in 1..4, NEW parts, Landed(v, i, parts),
         i = 1 \/ i - 1 \in DOMAIN MIGRATIONS[v], i \notin DOMAIN MIGRATIONS[v]
  PROVE  Parts(v) \subseteq parts
<1>1. ASSUME NEW j \in DOMAIN MIGRATIONS[v] PROVE j < i
  <2>1. PICK n \in 1..3 : DOMAIN MIGRATIONS[v] = 1..n
    BY 1 \in 1..3, 2 \in 1..3, 3 \in 1..3, Statements
  <2> QED
    BY <2>1
<1>2. ASSUME NEW part \in Parts(v) PROVE part \in parts
  <2>1. PICK j \in DOMAIN MIGRATIONS[v] :
           Ddl(MIGRATIONS[v][j]) /\ MIGRATIONS[v][j].part = part
    BY PartsOf
  <2> QED
    BY <1>1, <2>1 DEF Landed
<1> QED
  BY <1>2

\* One more statement lands with its part.
LEMMA OneMoreLanded ==
  ASSUME NEW v \in 1..Last, NEW i \in 1..4, i \in DOMAIN MIGRATIONS[v], NEW parts, NEW more,
         Landed(v, i, parts), parts \subseteq more,
         Ddl(MIGRATIONS[v][i]) => MIGRATIONS[v][i].part \in more
  PROVE  Landed(v, i + 1, more) /\ i + 1 \in 1..4
<1>1. PICK n \in 1..3 : DOMAIN MIGRATIONS[v] = 1..n
  BY 1 \in 1..3, 2 \in 1..3, 3 \in 1..3, Statements
<1>2. i + 1 \in 1..4 /\ \A j \in 1..n : j < i + 1 => j < i \/ j = i
  BY <1>1
<1> QED
  BY <1>1, <1>2 DEF Landed

-----------------------------------------------------------------------------
(* The database.                                                           *)

\* The fields of a database, and what a change of one leaves alone.
LEMMA DatabaseWith ==
  ASSUME NEW d \in Database
  PROVE  /\ d.versions \subseteq 1..Squashed /\ d.parts \subseteq PartsUpTo(Last)
         /\ d.users \subseteq Names /\ d.folders \subseteq MusicFolders
         /\ \A x \in SUBSET (1..Squashed) :
               LET e == [d EXCEPT !.versions = x] IN
               /\ e \in Database /\ e.versions = x /\ e.parts = d.parts
               /\ e.users = d.users /\ e.folders = d.folders
         /\ \A x \in SUBSET PartsUpTo(Last) :
               LET e == [d EXCEPT !.parts = x] IN
               /\ e \in Database /\ e.parts = x /\ e.versions = d.versions
               /\ e.users = d.users /\ e.folders = d.folders
         /\ \A x \in SUBSET Names :
               LET e == [d EXCEPT !.users = x] IN
               /\ e \in Database /\ e.users = x /\ e.versions = d.versions
               /\ e.parts = d.parts /\ e.folders = d.folders
         /\ \A x \in SUBSET MusicFolders :
               LET e == [d EXCEPT !.folders = x] IN
               /\ e \in Database /\ e.folders = x /\ e.versions = d.versions
               /\ e.parts = d.parts /\ e.users = d.users
BY DEF Database

\* What a process sees is a database with the committed versions; another process
\* than the writer sees what is committed.
LEMMA Views ==
  ASSUME IInv, NEW p \in Processes
  PROVE  /\ View(p) \in Database /\ View(p).versions = db.versions
         /\ db.parts \subseteq View(p).parts
         /\ writer # p => View(p) = db
         /\ dialect = "postgres" /\ pc[p] = "migrating" =>
               View(p).parts \subseteq db.parts \cup Parts(at[p])
         /\ at[p] # 2 => View(p).users = db.users
         /\ at[p] # 3 => View(p).folders = db.folders
<1>1. db \in Database /\ draft \in Database /\ p # Nobody
  BY StartupAssumption DEF IInv, TypeOK, Processes
<1>2. CASE writer = p
  BY <1>1, <1>2 DEF IInv, DraftSound, View
<1>3. CASE writer # p
  BY <1>1, <1>3 DEF View
<1> QED
  BY <1>2, <1>3

\* A process that migrates is at one of the versions, and nothing is recorded with a gap.
LEMMA Migrating ==
  ASSUME IInv, NEW p \in Processes, pc[p] = "migrating"
  PROVE  at[p] \in 1..Last /\ stmt[p] \in 1..4 /\ p # Nobody
BY StartupAssumption DEF IInv, TypeOK, Processes, Last

\* A process keeps its place when what it sees only grows.
LEMMA PlaceKept ==
  ASSUME NEW q \in Processes, InPlace(q), View(q).parts \subseteq View(q)'.parts,
         pc'[q] = pc[q], at'[q] = at[q], stmt'[q] = stmt[q]
  PROVE  InPlace(q)'
BY DEF InPlace, Landed

-----------------------------------------------------------------------------
(* What a statement of a migration does.                                   *)

\* A statement within the transaction.
LEMMA WriteKeeps ==
  ASSUME IInv, NEW p \in Processes, pc[p] = "migrating", Free(p),
         stmt[p] \in DOMAIN MIGRATIONS[at[p]],
         NEW new \in Database, Write(p, new), Advance(p, stmt[p] + 1),
         UNCHANGED <<dialect, config, crashes>>,
         new.versions = View(p).versions, View(p).parts \subseteq new.parts,
         new.parts \subseteq View(p).parts \cup Parts(at[p]),
         at[p] # 2 => new.users = View(p).users,
         at[p] # 3 => new.folders = View(p).folders,
         Ddl(Statement(p)) => Statement(p).part \in new.parts
  PROVE  IInv'
<1>1. /\ at[p] \in 1..Last /\ stmt[p] \in 1..4 /\ p # Nobody
      /\ InPlace(p) /\ Landed(at[p], stmt[p], View(p).parts)
  BY Migrating DEF IInv, InPlace
<1>2. Landed(at[p], stmt[p] + 1, new.parts) /\ stmt[p] + 1 \in 1..4
  BY <1>1, OneMoreLanded DEF Statement
<1>3. TypeOK /\ TypeOK'
  BY <1>1, <1>2 DEF IInv, TypeOK, Write, Advance
<1>4. \E k \in 0..Last : Recorded(k)'
  BY DEF IInv, Recorded, Write, Advance
<1>5. DraftSound'
  BY <1>1, Views DEF DraftSound, Write, Advance
<1>6. ASSUME NEW q \in Processes PROVE InPlace(q)'
  <2>1. CASE q = p
    <3>1. View(p)' = new /\ stmt'[p] = stmt[p] + 1 /\ stmt'[p] - 1 = stmt[p]
      BY <1>1, <1>3 DEF View, Write, Advance, TypeOK
    <3> QED
      BY <1>2, <2>1, <3>1 DEF InPlace, Landed, Write, Advance
  <2>2. CASE q # p
    <3>1. View(q)' = View(q)
      BY <1>1, <2>2, StartupAssumption DEF View, Write, Free, Processes
    <3>2. stmt'[q] = stmt[q] /\ pc'[q] = pc[q] /\ at'[q] = at[q] /\ InPlace(q)
      BY <2>2, <1>3 DEF Advance, IInv, TypeOK
    <3> QED
      BY <3>1, <3>2, PlaceKept
  <2> QED
    BY <2>1, <2>2
<1> QED
  BY <1>3, <1>4, <1>5, <1>6 DEF IInv

\* A table or column that SQLite commits at once.
LEMMA CommitKeeps ==
  ASSUME IInv, NEW p \in Processes, pc[p] = "migrating", Free(p), writer # p,
         stmt[p] \in DOMAIN MIGRATIONS[at[p]], dialect = "sqlite",
         NEW new \in Database, Commit(new), Advance(p, stmt[p] + 1),
         UNCHANGED <<dialect, config, crashes>>,
         new.versions = db.versions, db.parts \subseteq new.parts,
         Statement(p).part \in new.parts
  PROVE  IInv'
<1>1. /\ at[p] \in 1..Last /\ stmt[p] \in 1..4 /\ p # Nobody
      /\ InPlace(p) /\ Landed(at[p], stmt[p], View(p).parts)
  BY Migrating DEF IInv, InPlace
<1>2. View(p) = db /\ writer = Nobody
  BY DEF View, Free
<1>3. Landed(at[p], stmt[p] + 1, new.parts) /\ stmt[p] + 1 \in 1..4
  BY <1>1, <1>2, OneMoreLanded DEF Statement
<1>4. TypeOK /\ TypeOK'
  BY <1>1, <1>3 DEF IInv, TypeOK, Commit, Advance
<1>5. \E k \in 0..Last : Recorded(k)'
  BY DEF IInv, Recorded, Commit, Advance
<1>6. DraftSound'
  BY DEF DraftSound, Commit
<1>7. ASSUME NEW q \in Processes PROVE InPlace(q)'
  <2>0. View(q) = db /\ View(q)' = new
    BY <1>2, StartupAssumption DEF View, Commit, Processes
  <2>1. CASE q = p
    <3>1. stmt'[p] = stmt[p] + 1 /\ stmt'[p] - 1 = stmt[p]
      BY <1>1, <1>4 DEF Advance, TypeOK
    <3> QED
      BY <1>3, <2>0, <2>1, <3>1 DEF InPlace, Landed, Advance
  <2>2. CASE q # p
    <3>1. stmt'[q] = stmt[q] /\ pc'[q] = pc[q] /\ at'[q] = at[q] /\ InPlace(q)
      BY <2>2, <1>4 DEF Advance, IInv, TypeOK
    <3> QED
      BY <2>0, <3>1, PlaceKept
  <2> QED
    BY <2>1, <2>2
<1> QED
  BY <1>4, <1>5, <1>6, <1>7 DEF IInv

\* A statement that changes nothing.
LEMMA PassKeeps ==
  ASSUME IInv, NEW p \in Processes, pc[p] = "migrating", NEW i \in 1..4,
         i - 1 \in DOMAIN MIGRATIONS[at[p]], Landed(at[p], i, View(p).parts),
         Advance(p, i), Untouched, UNCHANGED <<dialect, config, crashes>>
  PROVE  IInv'
<1>1. TypeOK /\ TypeOK'
  BY DEF IInv, TypeOK, Untouched, Advance
<1>2. \E k \in 0..Last : Recorded(k)'
  BY DEF IInv, Recorded, Untouched, Advance
<1>3. DraftSound'
  BY DEF IInv, DraftSound, Untouched, Advance
<1>4. ASSUME NEW q \in Processes PROVE InPlace(q)'
  <2>0. View(q)' = View(q) /\ InPlace(q)
    BY DEF View, Untouched, IInv
  <2>1. CASE q = p
    <3>1. stmt'[p] = i
      BY <1>1 DEF Advance, TypeOK
    <3> QED
      BY <2>0, <2>1, <3>1 DEF InPlace, Landed, Advance
  <2>2. CASE q # p
    BY <1>1, <2>0, <2>2, PlaceKept DEF Advance, TypeOK
  <2> QED
    BY <2>1, <2>2
<1> QED
  BY <1>1, <1>2, <1>3, <1>4 DEF IInv

\* An exception or a crash: what was not committed is gone.
LEMMA FailKeeps ==
  ASSUME IInv, NEW p \in Processes, Fail(p), crashes' \in 0..MaxCrashes,
         UNCHANGED <<dialect, config>>
  PROVE  IInv'
<1>1. p # Nobody /\ \A q \in Processes : q # Nobody
  BY StartupAssumption DEF Processes
<1>2. TypeOK
  BY DEF IInv
<1>3. /\ pc'[p] = "down" /\ at'[p] = 0 /\ stmt'[p] = 1
      /\ \A q \in Processes : q # p => pc'[q] = pc[q] /\ at'[q] = at[q] /\ stmt'[q] = stmt[q]
  BY <1>2 DEF Fail, Exit, TypeOK
<1>4. TypeOK'
  <2>1. /\ pc' \in [Processes -> {"down", "migrating", "migrated", "up"}]
        /\ at' \in [Processes -> 0..Last] /\ stmt' \in [Processes -> 1..4]
    BY <1>2 DEF Fail, Exit, TypeOK, Last
  <2>2. pc'[cli] # "up" /\ \A q \in Processes : at'[q] # 0 <=> pc'[q] = "migrating"
    BY <1>2, <1>3 DEF TypeOK, Processes
  <2>3. db' \in Database /\ draft' \in Database /\ writer' \in Processes \cup {Nobody}
        /\ (writer' = Nobody => draft' = db')
    BY <1>2 DEF TypeOK, Fail
  <2> QED
    BY <1>2, <2>1, <2>2, <2>3 DEF TypeOK
<1>5. \E k \in 0..Last : Recorded(k)'
  <2>1. PICK k \in 0..Last : Recorded(k)
    BY DEF IInv
  <2>2. ASSUME NEW q \in Processes
        PROVE  /\ pc'[q] = "migrating" => at'[q] <= k + 1
               /\ pc'[q] \in {"migrated", "up"} => k = Last
    BY <1>3, <2>1 DEF Recorded
  <2> QED
    BY <2>1, <2>2 DEF Recorded, Fail
<1>6. DraftSound'
  BY <1>1, <1>2, <1>3 DEF IInv, DraftSound, Fail, TypeOK
<1>7. ASSUME NEW q \in Processes PROVE InPlace(q)'
  <2>1. CASE q = p
    BY <1>3, <2>1 DEF InPlace
  <2>2. CASE q # p
    <3>1. View(q)' = View(q)
      BY <1>1, <2>2 DEF View, Fail
    <3> QED
      BY <1>3, <2>2, <3>1, PlaceKept DEF IInv
  <2> QED
    BY <2>1, <2>2
<1> QED
  BY <1>4, <1>5, <1>6, <1>7 DEF IInv

\* A process that is not writing comes to another phase.
LEMMA PhaseKeeps ==
  ASSUME IInv, NEW p \in Processes, pc[p] # "migrating", NEW to, Exit(p, to),
         to = "down" \/ (p = server /\ to = "up" /\ pc[server] = "migrated"),
         Untouched, UNCHANGED <<dialect, config, crashes>>
  PROVE  IInv'
<1>1. TypeOK /\ p # writer /\ server # cli
  BY StartupAssumption DEF IInv, DraftSound, Processes
<1>2. /\ pc'[p] = to /\ at'[p] = 0 /\ stmt'[p] = 1
      /\ \A q \in Processes : q # p => pc'[q] = pc[q] /\ at'[q] = at[q] /\ stmt'[q] = stmt[q]
  BY <1>1 DEF Exit, TypeOK
<1>3. TypeOK'
  <2>1. /\ pc' \in [Processes -> {"down", "migrating", "migrated", "up"}]
        /\ at' \in [Processes -> 0..Last] /\ stmt' \in [Processes -> 1..4]
    BY <1>1 DEF Exit, TypeOK, Last
  <2>2. pc'[cli] # "up" /\ \A q \in Processes : at'[q] # 0 <=> pc'[q] = "migrating"
    BY <1>1, <1>2 DEF TypeOK, Processes
  <2> QED
    BY <1>1, <2>1, <2>2 DEF TypeOK, Untouched
<1>4. \E k \in 0..Last : Recorded(k)'
  <2>1. PICK k \in 0..Last : Recorded(k)
    BY DEF IInv
  <2>2. ASSUME NEW q \in Processes
        PROVE  /\ pc'[q] = "migrating" => at'[q] <= k + 1
               /\ pc'[q] \in {"migrated", "up"} => k = Last
    BY <1>2, <2>1 DEF Recorded
  <2> QED
    BY <2>1, <2>2 DEF Recorded, Untouched
<1>5. DraftSound'
  BY <1>1, <1>2 DEF IInv, DraftSound, Untouched, TypeOK
<1>6. ASSUME NEW q \in Processes PROVE InPlace(q)'
  <2>1. CASE q = p
    BY <1>2, <2>1 DEF InPlace
  <2>2. CASE q # p
    <3>1. View(q)' = View(q)
      BY DEF View, Untouched
    <3> QED
      BY <1>2, <2>2, <3>1, PlaceKept DEF IInv
  <2> QED
    BY <2>1, <2>2
<1> QED
  BY <1>3, <1>4, <1>5, <1>6 DEF IInv

\* The next migration, or the end: where a process goes, nobody else moves.
LEMMA Gone ==
  ASSUME TypeOK, NEW p \in Processes, NEW v \in 1..(Last + 1), GoTo(p, v)
  PROVE  /\ pc' \in [Processes -> {"down", "migrating", "migrated", "up"}]
         /\ at' \in [Processes -> 0..Last] /\ stmt' \in [Processes -> 1..4]
         /\ stmt'[p] = 1
         /\ v <= Last => pc'[p] = "migrating" /\ at'[p] = v
         /\ v = Last + 1 => pc'[p] = "migrated" /\ at'[p] = 0
         /\ pc'[cli] # "up" /\ \A q \in Processes : at'[q] # 0 <=> pc'[q] = "migrating"
         /\ \A q \in Processes : q # p => pc'[q] = pc[q] /\ at'[q] = at[q] /\ stmt'[q] = stmt[q]
<1>1. v > Last <=> v = Last + 1
  BY DEF Last
<1>2. CASE v <= Last
  <2>1. /\ pc' = [pc EXCEPT ![p] = "migrating"]
        /\ at' = [at EXCEPT ![p] = v] /\ v \in 0..Last /\ v # 0
        /\ stmt' = [stmt EXCEPT ![p] = 1]
    BY <1>2 DEF GoTo, Last
  <2> QED
    BY <1>1, <1>2, <2>1 DEF TypeOK, Processes, Last
<1>3. CASE v = Last + 1
  <2>1. /\ pc' = [pc EXCEPT ![p] = "migrated"]
        /\ at' = [at EXCEPT ![p] = 0]
        /\ stmt' = [stmt EXCEPT ![p] = 1]
    BY <1>1, <1>3 DEF GoTo, Exit
  <2> QED
    BY <1>3, <2>1 DEF TypeOK, Processes, Last
<1> QED
  BY <1>2, <1>3 DEF Last

\* Until the versions have a gap there is one number that says them all.
LEMMA CurrentVersion ==
  ASSUME NEW k \in 0..Last, db.versions = 1..k
  PROVE  _current_version = k
<1>1. CASE k = 0
  BY <1>1 DEF _current_version
<1>2. CASE k # 0
  <2>1. k \in 1..k /\ \A w \in 1..k : w <= k
    BY <1>2 DEF Last
  <2>2. db.versions # {}
    BY <2>1
  <2>3. ASSUME NEW v \in db.versions, \A w \in db.versions : w <= v PROVE v = k
    <3>1. k \in Nat /\ v \in 1..k /\ k <= v
      BY <2>1, <2>3 DEF Last
    <3> QED
      BY <3>1
  <2> QED
    BY <2>1, <2>2, <2>3 DEF _current_version
<1> QED
  BY <1>1, <1>2

\* A start goes on where the recorded versions end.
LEMMA BeginKeeps ==
  ASSUME IInv, NEW p \in Processes, Begin(p)
  PROVE  IInv'
<1>1. TypeOK /\ p # writer
  BY StartupAssumption DEF IInv, DraftSound, Processes, Begin
<1>2. PICK k \in 0..Last : Recorded(k)
  BY DEF IInv
<1>3. GoTo(p, k + 1) /\ k + 1 \in 1..(Last + 1)
  <2>1. _current_version = k
    BY <1>2, CurrentVersion DEF Recorded
  <2> QED
    BY <2>1 DEF Begin, Last
<1>4. TypeOK'
  BY <1>1, <1>3, Gone DEF TypeOK, Begin, Untouched
<1>5. Recorded(k)'
  <2>1. ASSUME NEW q \in Processes
        PROVE  /\ pc'[q] = "migrating" => at'[q] <= k + 1
               /\ pc'[q] \in {"migrated", "up"} => k = Last
    <3>1. k <= Last /\ k \in Nat
      BY DEF Last
    <3>2. CASE q = p
      BY <1>1, <1>3, <3>1, <3>2, Gone DEF Last
    <3>3. CASE q # p
      BY <1>1, <1>2, <1>3, <3>3, Gone DEF Recorded
    <3> QED
      BY <3>2, <3>3
  <2> QED
    BY <1>2, <2>1 DEF Recorded, Begin, Untouched
<1>6. DraftSound'
  <2>1. writer # Nobody => writer \in Processes
    BY <1>1 DEF TypeOK
  <2>2. writer # Nobody => pc'[writer] = pc[writer] /\ at'[writer] = at[writer]
    BY <1>1, <1>3, <2>1, Gone
  <2> QED
    BY <2>2 DEF IInv, DraftSound, Begin, Untouched
<1>7. ASSUME NEW q \in Processes PROVE InPlace(q)'
  <2>1. CASE q = p
    <3>1. stmt'[p] = 1 /\ (pc'[p] = "migrating" => at'[p] \in 1..Last)
      BY <1>1, <1>3, <1>4, Gone DEF TypeOK, Last
    <3>2. pc'[p] = "migrating" => Landed(at'[p], 1, View(p)'.parts)
      BY <3>1, Statements, 1 \in 1..3 DEF Landed
    <3> QED
      BY <2>1, <3>1, <3>2 DEF InPlace, Landed
  <2>2. CASE q # p
    <3>1. View(q)' = View(q)
      BY DEF View, Begin, Untouched
    <3> QED
      BY <1>1, <1>3, <2>2, <3>1, Gone, PlaceKept DEF IInv
  <2> QED
    BY <2>1, <2>2
<1> QED
  BY <1>4, <1>5, <1>6, <1>7 DEF IInv

\* A version is recorded when its statements are done, and only the next one.
LEMMA RecordKeeps ==
  ASSUME IInv, NEW p \in Processes, pc[p] = "migrating", Record(p),
         stmt[p] \notin DOMAIN MIGRATIONS[at[p]], UNCHANGED <<dialect, config, crashes>>
  PROVE  IInv'
<1>1. TypeOK /\ at[p] \in 1..Last /\ stmt[p] \in 1..4 /\ p # Nobody /\ InPlace(p)
  BY Migrating DEF IInv
<1>2. CASE at[p] \in View(p).versions
  <2>1. Fail(p) /\ crashes' \in 0..MaxCrashes
    BY <1>1, <1>2 DEF Record, TypeOK
  <2> QED
    BY <2>1, FailKeeps
<1>3. CASE at[p] \notin View(p).versions
  <2>1. PICK k \in 0..Last : Recorded(k)
    BY DEF IInv
  <2>2. k \in Nat /\ k < Last /\ at[p] = k + 1 /\ k + 1 \in 1..Last
    <3>1. View(p).versions = 1..k /\ at[p] <= k + 1
      BY <2>1, Views DEF Recorded
    <3> QED
      BY <1>1, <1>3, <3>1 DEF Last
  <2>3. PICK new : new = [View(p) EXCEPT !.versions = 1..(k + 1)]
    OBVIOUS
  <2>4. /\ new \in Database /\ new.versions = 1..(k + 1) /\ new.parts = View(p).parts
    <3>1. 1..(k + 1) \in SUBSET (1..Squashed)
      BY <2>2 DEF Last, Squashed
    <3>2. View(p) \in Database
      BY Views
    <3> QED
      BY <2>3, <3>1, <3>2, DatabaseWith
  <2>5. 1..k \cup {k + 1} = 1..(k + 1)
    BY <2>2
  <2>6. Commit(new) /\ GoTo(p, k + 2)
    <3>1. View(p).versions \cup {at[p]} = 1..(k + 1)
      BY <2>1, <2>2, <2>5, Views DEF Recorded
    <3>2. at[p] + 1 = k + 2
      BY <2>2
    <3> QED
      BY <1>3, <2>3, <3>1, <3>2 DEF Record
  <2>7. k + 2 \in 1..(Last + 1)
    BY <2>2 DEF Last
  <2>8. PartsUpTo(k + 1) \subseteq new.parts
    <3>1. Parts(k + 1) \subseteq View(p).parts
      BY <1>1, <2>2, AllLanded DEF InPlace
    <3>2. PartsUpTo(k) \subseteq View(p).parts
      BY <2>1, Views DEF Recorded
    <3> QED
      BY <2>2, <2>4, <3>1, <3>2, PartsStep
  <2>9. dialect = "postgres" => new.parts \subseteq PartsUpTo(k + 1)
    BY <2>1, <2>2, <2>4, Views, PartsStep DEF Recorded
  <2>10. TypeOK'
    BY <1>1, <2>4, <2>6, <2>7, Gone DEF TypeOK, Commit
  <2>11. Recorded(k + 1)'
    <3>1. ASSUME NEW q \in Processes
          PROVE  /\ pc'[q] = "migrating" => at'[q] <= (k + 1) + 1
                 /\ pc'[q] \in {"migrated", "up"} => k + 1 = Last
      <4>1. CASE q = p
        <5>1. k + 2 <= Last \/ k + 2 = Last + 1
          BY <2>2 DEF Last
        <5> QED
          BY <1>1, <2>2, <2>6, <2>7, <4>1, <5>1, Gone DEF Last
      <4>2. CASE q # p
        <5>1. pc'[q] = pc[q] /\ at'[q] = at[q] /\ at[q] \in 0..Last
          BY <1>1, <2>6, <2>7, <4>2, Gone DEF TypeOK
        <5> QED
          BY <2>1, <2>2, <5>1 DEF Recorded, Last
      <4> QED
        BY <4>1, <4>2
    <3> QED
      BY <2>4, <2>6, <2>8, <2>9, <3>1 DEF Recorded, Commit
  <2>12. DraftSound'
    BY <2>6 DEF DraftSound, Commit
  <2>13. ASSUME NEW q \in Processes PROVE InPlace(q)'
    <3>0. View(q)' = new /\ View(q).parts \subseteq View(p).parts
      BY <2>6, StartupAssumption, Views, q = p \/ writer # q DEF View, Commit, Processes, Record, Free
    <3>1. CASE q = p
      <4>1. stmt'[p] = 1 /\ (pc'[p] = "migrating" => at'[p] \in 1..Last)
        BY <1>1, <2>6, <2>7, <2>10, Gone DEF TypeOK, Last
      <4>2. pc'[p] = "migrating" => Landed(at'[p], 1, View(p)'.parts)
        BY <4>1, Statements, 1 \in 1..3 DEF Landed
      <4> QED
        BY <3>1, <4>1, <4>2 DEF InPlace, Landed
    <3>2. CASE q # p
      BY <1>1, <2>4, <2>6, <2>7, <3>0, <3>2, Gone, PlaceKept DEF IInv
    <3> QED
      BY <3>1, <3>2
  <2> QED
    BY <2>2, <2>10, <2>11, <2>12, <2>13 DEF IInv, Last
<1> QED
  BY <1>2, <1>3

\* A CREATE or an ALTER of what is not there lands.
LEMMA LandKeeps ==
  ASSUME IInv, NEW p \in Processes, pc[p] = "migrating", Free(p),
         stmt[p] \in DOMAIN MIGRATIONS[at[p]], Ddl(Statement(p)),
         Advance(p, stmt[p] + 1), UNCHANGED <<dialect, config, crashes>>,
         Land(p, [View(p) EXCEPT !.parts = View(p).parts \cup {Statement(p).part}])
  PROVE  IInv'
<1>1. at[p] \in 1..Last /\ View(p) \in Database
  BY Migrating, Views
<1>2. Statement(p).part \in Parts(at[p])
  BY <1>1, PartsOf DEF Statement
<1>3. Statement(p).part \in PartsUpTo(Last)
  BY <1>1, <1>2 DEF PartsUpTo
<1>4. PICK new : new = [View(p) EXCEPT !.parts = View(p).parts \cup {Statement(p).part}]
  OBVIOUS
<1>5. View(p).parts \cup {Statement(p).part} \in SUBSET PartsUpTo(Last)
  BY <1>1, <1>3, DatabaseWith
<1>6. /\ new \in Database /\ new.parts = View(p).parts \cup {Statement(p).part}
      /\ new.versions = View(p).versions /\ new.users = View(p).users
      /\ new.folders = View(p).folders
  BY <1>1, <1>4, <1>5, DatabaseWith
<1>7. Land(p, new)
  BY <1>4
<1>8. CASE dialect = "sqlite" /\ writer # p
  <2>1. Commit(new) /\ View(p) = db
    BY <1>7, <1>8 DEF Land, View
  <2> QED
    BY <1>6, <1>8, <2>1, CommitKeeps
<1>9. CASE ~(dialect = "sqlite" /\ writer # p)
  <2>1. Write(p, new)
    BY <1>7, <1>9 DEF Land
  <2> QED
    BY <1>2, <1>6, <2>1, WriteKeeps
<1> QED
  BY <1>8, <1>9

\* Whatever a statement does keeps the invariant.
LEMMA ExecuteKeeps ==
  ASSUME IInv, NEW p \in Processes, pc[p] = "migrating",
         stmt[p] \in DOMAIN MIGRATIONS[at[p]], Execute(p, Statement(p)),
         UNCHANGED <<dialect, config, crashes>>
  PROVE  IInv'
<1>1. /\ at[p] \in 1..Last /\ stmt[p] \in 1..4 /\ View(p) \in Database
      /\ crashes' \in 0..MaxCrashes
  BY Migrating, Views DEF IInv, TypeOK
<1>2. Landed(at[p], stmt[p], View(p).parts)
  BY DEF IInv, InPlace
<1>3. /\ Statement(p).do \in Kinds
      /\ Statement(p).do = "insert_admin" => at[p] = 2
      /\ Statement(p).do = "insert_folders" => at[p] = 3
      /\ Statement(p).do = "count_users" =>
            /\ stmt[p] = 1 /\ 2 \in DOMAIN MIGRATIONS[at[p]]
            /\ ~Ddl(MIGRATIONS[at[p]][2])
  BY <1>1, Statements DEF Statement
<1>4. ASSUME Advance(p, stmt[p] + 1), Untouched,
             Ddl(Statement(p)) => Statement(p).part \in View(p).parts
      PROVE  IInv'
  <2>1. Landed(at[p], stmt[p] + 1, View(p).parts) /\ stmt[p] + 1 \in 1..4
    BY <1>1, <1>2, <1>4, OneMoreLanded DEF Statement
  <2>2. (stmt[p] + 1) - 1 \in DOMAIN MIGRATIONS[at[p]]
    BY <1>1
  <2> QED
    BY <1>4, <2>1, <2>2, PassKeeps
<1>5. ASSUME NEW new \in Database, Free(p), Advance(p, stmt[p] + 1), Write(p, new),
             new.versions = View(p).versions, new.parts = View(p).parts,
             at[p] # 2 => new.users = View(p).users,
             at[p] # 3 => new.folders = View(p).folders,
             ~Ddl(Statement(p))
      PROVE  IInv'
  BY <1>5, WriteKeeps
<1>6. ASSUME Fail(p) PROVE IInv'
  BY <1>1, <1>6, FailKeeps
<1>7. CASE Statement(p).do = "create"
  <2>1. Ddl(Statement(p))
    BY <1>7 DEF Ddl
  <2>2. /\ Free(p) /\ Advance(p, stmt[p] + 1)
        /\ IF Statement(p).part \in View(p).parts THEN Untouched
           ELSE Land(p, [View(p) EXCEPT !.parts = View(p).parts \cup {Statement(p).part}])
    BY <1>7 DEF Execute
  <2> QED
    BY <1>4, <2>1, <2>2, LandKeeps
<1>8. CASE Statement(p).do = "add"
  <2>1. Ddl(Statement(p))
    BY <1>8 DEF Ddl
  <2>2. /\ Free(p)
        /\ IF Statement(p).part \in View(p).parts THEN Fail(p)
           ELSE /\ Advance(p, stmt[p] + 1)
                /\ Land(p, [View(p) EXCEPT !.parts = View(p).parts \cup {Statement(p).part}])
    BY <1>8 DEF Execute
  <2> QED
    BY <1>6, <2>1, <2>2, LandKeeps
<1>9. CASE Statement(p).do = "count_users"
  <2>1. ~Ddl(Statement(p))
    BY <1>9 DEF Ddl
  <2>2. \/ Advance(p, stmt[p] + 2) /\ Untouched
        \/ Fail(p)
        \/ Advance(p, stmt[p] + 1) /\ Untouched
    BY <1>9 DEF Execute
  <2>3. CASE Advance(p, stmt[p] + 2) /\ Untouched
    <3>1. stmt[p] + 2 = 3 /\ 3 \in 1..4 /\ 3 - 1 = 2 /\ 2 \in DOMAIN MIGRATIONS[at[p]]
      BY <1>3, <1>9
    <3>2. Landed(at[p], 3, View(p).parts)
      <4>1. DOMAIN MIGRATIONS[at[p]] \subseteq 1..3
        BY <1>1, Statements
      <4>2. ASSUME NEW j \in DOMAIN MIGRATIONS[at[p]], j < 3 PROVE ~Ddl(MIGRATIONS[at[p]][j])
        <5>1. j = 1 \/ j = 2
          BY <4>1, <4>2
        <5> QED
          BY <1>3, <1>9, <2>1, <5>1 DEF Statement
      <4> QED
        BY <4>2 DEF Landed
    <3> QED
      BY <2>3, <3>1, <3>2, PassKeeps
  <2> QED
    BY <1>4, <1>6, <2>1, <2>2, <2>3
<1>10. CASE Statement(p).do = "insert_admin"
  <2>1. ~Ddl(Statement(p))
    BY <1>10 DEF Ddl
  <2>2. /\ Free(p)
        /\ \/ Fail(p)
           \/ /\ Advance(p, stmt[p] + 1)
              /\ Write(p, [View(p) EXCEPT !.users = View(p).users \cup {Admin}])
    BY <1>10 DEF Execute
  <2>3. View(p).users \cup {Admin} \in SUBSET Names
    BY <1>1, DatabaseWith, StartupAssumption
  <2>4. PICK new : new = [View(p) EXCEPT !.users = View(p).users \cup {Admin}]
    OBVIOUS
  <2>5. /\ new \in Database /\ new.versions = View(p).versions /\ new.parts = View(p).parts
        /\ new.folders = View(p).folders
    BY <1>1, <2>3, <2>4, DatabaseWith
  <2> QED
    BY <1>3, <1>5, <1>6, <1>10, <2>1, <2>2, <2>4, <2>5
<1>11. CASE Statement(p).do = "insert_folders"
  <2>1. ~Ddl(Statement(p))
    BY <1>11 DEF Ddl
  <2>2. /\ Free(p) /\ Advance(p, stmt[p] + 1)
        /\ \/ Untouched
           \/ Write(p, [View(p) EXCEPT !.folders = View(p).folders \cup MusicFolders])
    BY <1>11 DEF Execute
  <2>3. View(p).folders \cup MusicFolders \in SUBSET MusicFolders
    BY <1>1, DatabaseWith
  <2>4. PICK new : new = [View(p) EXCEPT !.folders = View(p).folders \cup MusicFolders]
    OBVIOUS
  <2>5. /\ new \in Database /\ new.versions = View(p).versions /\ new.parts = View(p).parts
        /\ new.users = View(p).users
    BY <1>1, <2>3, <2>4, DatabaseWith
  <2> QED
    BY <1>3, <1>4, <1>5, <1>11, <2>1, <2>2, <2>4, <2>5
<1> QED
  BY <1>3, <1>7, <1>8, <1>9, <1>10, <1>11 DEF Kinds

\* An account or a folder that changes leaves versions and parts alone.
LEMMA ChangedRows ==
  ASSUME db \in Database, NEW p \in Processes, Administer(p)
  PROVE  \E new \in Database :
            Commit(new) /\ new.versions = db.versions /\ new.parts = db.parts
<1>1. db \in Database
  OBVIOUS
<1>2. ASSUME NEW n \in Names
      PROVE  /\ db.users \cup {n} \in SUBSET Names
             /\ db.users \ {n} \in SUBSET Names
  BY <1>1, DatabaseWith
<1>3. ASSUME NEW f \in MusicFolders PROVE db.folders \ {f} \in SUBSET MusicFolders
  BY <1>1, DatabaseWith
<1>4. \/ \E n \in Names : \/ Commit([db EXCEPT !.users = db.users \cup {n}])
                          \/ Commit([db EXCEPT !.users = db.users \ {n}])
      \/ \E f \in MusicFolders : Commit([db EXCEPT !.folders = db.folders \ {f}])
  BY DEF Administer
<1>5. ASSUME NEW x \in SUBSET Names, NEW new, new = [db EXCEPT !.users = x]
      PROVE  new \in Database /\ new.versions = db.versions /\ new.parts = db.parts
  BY <1>1, <1>5, DatabaseWith
<1>6. ASSUME NEW x \in SUBSET MusicFolders, NEW new, new = [db EXCEPT !.folders = x]
      PROVE  new \in Database /\ new.versions = db.versions /\ new.parts = db.parts
  BY <1>1, <1>6, DatabaseWith
<1> QED
  BY <1>2, <1>3, <1>4, <1>5, <1>6

\* Accounts and folders change only when the schema is complete.
LEMMA AdministerKeeps ==
  ASSUME IInv, NEW p \in Processes, Administer(p)
  PROVE  IInv'
<1>1. TypeOK /\ writer = Nobody /\ \A q \in Processes : q # Nobody
  BY StartupAssumption DEF IInv, Processes, Administer
<1>2. PICK new \in Database :
         Commit(new) /\ new.versions = db.versions /\ new.parts = db.parts
  BY <1>1, ChangedRows DEF TypeOK
<1>3. \/ pc' = pc /\ at' = at /\ stmt' = stmt
      \/ /\ pc[p] = "migrated" /\ pc' = [pc EXCEPT ![p] = "down"]
         /\ at' = [at EXCEPT ![p] = 0] /\ stmt' = [stmt EXCEPT ![p] = 1]
  BY DEF Administer, Exit
<1>4. TypeOK'
  <2>1. /\ pc' \in [Processes -> {"down", "migrating", "migrated", "up"}]
        /\ at' \in [Processes -> 0..Last] /\ stmt' \in [Processes -> 1..4]
    BY <1>1, <1>3 DEF TypeOK, Last
  <2>2. pc'[cli] # "up" /\ \A q \in Processes : at'[q] # 0 <=> pc'[q] = "migrating"
    BY <1>1, <1>3 DEF TypeOK, Processes
  <2> QED
    BY <1>1, <1>2, <2>1, <2>2 DEF TypeOK, Commit, Administer
<1>5. \A q \in Processes :
         \/ pc'[q] = pc[q] /\ at'[q] = at[q] /\ stmt'[q] = stmt[q]
         \/ pc'[q] = "down"
  BY <1>1, <1>3 DEF TypeOK
<1>6. \E k \in 0..Last : Recorded(k)'
  <2>1. PICK k \in 0..Last : Recorded(k)
    BY DEF IInv
  <2>2. ASSUME NEW q \in Processes
        PROVE  /\ pc'[q] = "migrating" => at'[q] <= k + 1
               /\ pc'[q] \in {"migrated", "up"} => k = Last
    BY <1>5, <2>1 DEF Recorded
  <2> QED
    BY <1>2, <2>1, <2>2 DEF Recorded, Commit, Administer
<1>7. DraftSound'
  BY <1>2 DEF DraftSound, Commit
<1>8. ASSUME NEW q \in Processes PROVE InPlace(q)'
  <2>1. View(q) = db /\ View(q)' = new
    BY <1>1, <1>2 DEF View, Commit
  <2>2. CASE pc'[q] = "down"
    BY <2>2 DEF InPlace
  <2>3. CASE pc'[q] # "down"
    BY <1>2, <1>5, <2>1, <2>3, PlaceKept DEF IInv
  <2> QED
    BY <2>2, <2>3
<1> QED
  BY <1>4, <1>6, <1>7, <1>8 DEF IInv

-----------------------------------------------------------------------------
(* The theorems.                                                           *)

\* The invariant, or its counterpart for a database from before the squash.
Holds == IInv \/ Skipped

\* What an earlier release left, or nothing, satisfies the invariant.
LEMMA InitHolds == Init => Holds
<1> SUFFICES ASSUME Init PROVE Holds
  OBVIOUS
<1>1. \A p \in Processes : pc[p] = "down"
  BY DEF Init
<1>2. ASSUME db \in Database PROVE TypeOK
  BY <1>2, StartupAssumption DEF Init, TypeOK, Processes, Last
<1>3. ASSUME NEW k \in 0..Last, db = Left(k) PROVE IInv
  <2>1. /\ k \in Nat /\ k <= Last /\ 1..k \in SUBSET (1..Squashed)
        /\ PartsUpTo(k) \in SUBSET PartsUpTo(Last)
    BY PartsStep DEF Last, Squashed
  <2>2. db.versions = 1..k /\ db.parts = PartsUpTo(k)
    BY <1>3 DEF Left
  <2>3. db \in Database
    BY <1>3, <2>1, StartupAssumption DEF Left, Database
  <2>4. TypeOK
    BY <1>2, <2>3
  <2>5. Recorded(k)
    BY <2>2 DEF Recorded, Init
  <2>6. DraftSound /\ \A p \in Processes : InPlace(p)
    BY DEF Init, DraftSound, InPlace
  <2> QED
    BY <2>4, <2>5, <2>6 DEF IInv
<1>4. ASSUME db = FromBeforeTheSquash PROVE Skipped
  <2>1. Parts(1) \subseteq PartsUpTo(Last)
    <3>1. 1 \in 1..Last
      BY DEF Last
    <3> QED
      BY <3>1 DEF PartsUpTo
  <2>2. db \in Database
    BY <1>4, <2>1, StartupAssumption DEF FromBeforeTheSquash, Database
  <2>3. TypeOK
    BY <1>2, <2>2
  <2>4. NeverUpgraded
    BY <1>4 DEF NeverUpgraded, FromBeforeTheSquash
  <2>5. writer = Nobody
    BY DEF Init
  <2> QED
    BY <1>1, <2>3, <2>4, <2>5 DEF Skipped
<1> QED
  BY <1>3, <1>4 DEF Init, Holds

\* Every step keeps the invariant of a database that is migrated.
LEMMA NextIInv == IInv /\ [Next]_vars => IInv'
<1> SUFFICES ASSUME IInv, [Next]_vars PROVE IInv'
  OBVIOUS
<1>1. ASSUME NEW p \in Processes, Begin(p) PROVE IInv'
  BY <1>1, BeginKeeps
<1>2. ASSUME NEW p \in Processes, Step(p) PROVE IInv'
  <2>1. /\ pc[p] = "migrating" /\ UNCHANGED <<dialect, config, crashes>>
        /\ IF stmt[p] \in DOMAIN MIGRATIONS[at[p]] THEN Execute(p, Statement(p)) ELSE Record(p)
    BY <1>2 DEF Step
  <2> QED
    BY <2>1, ExecuteKeeps, RecordKeeps
<1>3. ASSUME NEW p \in Processes, Administer(p) PROVE IInv'
  BY <1>3, AdministerKeeps
<1>4. ASSUME NEW p \in Processes, Crash(p) PROVE IInv'
  <2>1. crashes' \in 0..MaxCrashes
    BY <1>4, StartupAssumption DEF Crash, IInv, TypeOK
  <2> QED
    BY <1>4, <2>1, FailKeeps DEF Crash
<1>5. CASE Serve
  <2>1. PICK to : Exit(server, to) /\ to \in {"up", "down"}
    BY <1>5 DEF Serve
  <2> QED
    BY <1>5, <2>1, PhaseKeeps DEF Serve, Processes
<1>6. CASE Shutdown
  BY <1>6, PhaseKeeps DEF Shutdown, Processes
<1>7. CASE Reconfigure
  <2>1. /\ config' \in [password : BOOLEAN, secret : BOOLEAN]
        /\ UNCHANGED <<db, writer, draft, dialect, pc, at, stmt, crashes>>
    BY <1>7 DEF Reconfigure, Untouched
  <2> QED
    BY <2>1 DEF IInv, TypeOK, Recorded, DraftSound, InPlace, Landed, View
<1>8. CASE UNCHANGED vars
  BY <1>8 DEF vars, IInv, TypeOK, Recorded, DraftSound, InPlace, Landed, View
<1> QED
  BY <1>1, <1>2, <1>3, <1>4, <1>5, <1>6, <1>7, <1>8 DEF Next

\* A process that ends one phase of a start begins no migration.
LEMMA SkipExits ==
  ASSUME Skipped, NEW p \in Processes, NEW to \in {"down", "migrated", "up"}, Exit(p, to),
         to = "up" => p = server, Untouched, UNCHANGED <<dialect, config>>,
         crashes' \in 0..MaxCrashes
  PROVE  Skipped'
<1>1. TypeOK /\ server # cli
  BY StartupAssumption DEF Skipped
<1>2. /\ pc' \in [Processes -> {"down", "migrating", "migrated", "up"}]
      /\ at' \in [Processes -> 0..Last] /\ stmt' \in [Processes -> 1..4]
  BY <1>1 DEF Exit, TypeOK, Last
<1>3. /\ pc'[cli] # "up"
      /\ \A q \in Processes : at'[q] = 0 /\ pc'[q] # "migrating"
  BY <1>1 DEF Exit, TypeOK, Processes, Skipped
<1>4. TypeOK'
  BY <1>1, <1>2, <1>3 DEF TypeOK, Untouched
<1> QED
  BY <1>3, <1>4 DEF Skipped, NeverUpgraded, Untouched

\* Every step leaves a database from before the squash as it is.
LEMMA NextSkipped == Skipped /\ [Next]_vars => Skipped'
<1> SUFFICES ASSUME Skipped, [Next]_vars PROVE Skipped'
  OBVIOUS
<1>1. TypeOK /\ writer = Nobody /\ \A p \in Processes : pc[p] # "migrating"
  BY DEF Skipped
<1>2. crashes \in 0..MaxCrashes /\ server \in Processes
  BY <1>1 DEF TypeOK, Processes
<1>3. ASSUME NEW p \in Processes, Begin(p) PROVE Skipped'
  <2>1. _current_version = Squashed
    <3>1. db.versions = 1..Squashed
      BY DEF Skipped, NeverUpgraded
    <3>2. Squashed \in 1..Squashed /\ \A w \in 1..Squashed : w <= Squashed
      BY DEF Squashed
    <3>3. ASSUME NEW v \in 1..Squashed, \A w \in 1..Squashed : w <= v PROVE v = Squashed
      BY <3>2, <3>3 DEF Squashed
    <3> QED
      BY <3>1, <3>2, <3>3 DEF _current_version
  <2>2. Exit(p, "migrated")
    BY <1>3, <2>1 DEF Begin, GoTo, Squashed, Last
  <2> QED
    BY <1>2, <1>3, <2>2, SkipExits DEF Begin
<1>4. ASSUME NEW p \in Processes, Step(p) PROVE Skipped'
  BY <1>1, <1>4 DEF Step
<1>5. ASSUME NEW p \in Processes, Crash(p) PROVE Skipped'
  <2>1. Exit(p, "down") /\ crashes' \in 0..MaxCrashes /\ UNCHANGED <<dialect, config>>
    BY <1>2, <1>5, StartupAssumption DEF Crash, Fail
  <2>2. Untouched
    BY <1>1, <1>5, StartupAssumption DEF Crash, Fail, Untouched, Processes
  <2> QED
    BY <2>1, <2>2, SkipExits
<1>6. ASSUME NEW p \in Processes, Administer(p) PROVE Skipped'
  <2>1. db \in Database
    BY <1>1 DEF TypeOK
  <2>2. PICK new \in Database :
           Commit(new) /\ new.versions = db.versions /\ new.parts = db.parts
    BY <1>6, <2>1, ChangedRows DEF Administer
  <2>3. \/ pc' = pc /\ at' = at /\ stmt' = stmt
        \/ /\ pc' = [pc EXCEPT ![p] = "down"]
           /\ at' = [at EXCEPT ![p] = 0] /\ stmt' = [stmt EXCEPT ![p] = 1]
    BY <1>6 DEF Administer, Exit
  <2>4. /\ pc' \in [Processes -> {"down", "migrating", "migrated", "up"}]
        /\ at' \in [Processes -> 0..Last] /\ stmt' \in [Processes -> 1..4]
    BY <1>1, <2>3 DEF TypeOK, Last
  <2>5. pc'[cli] # "up" /\ \A q \in Processes : at'[q] = 0 /\ pc'[q] # "migrating"
    BY <1>1, <2>3 DEF TypeOK, Processes
  <2>6. TypeOK'
    BY <1>1, <1>6, <2>2, <2>4, <2>5 DEF TypeOK, Commit, Administer
  <2> QED
    BY <2>2, <2>5, <2>6 DEF Skipped, NeverUpgraded, Commit
<1>7. CASE Serve
  <2>1. PICK to \in {"up", "down"} : Exit(server, to)
    BY <1>7 DEF Serve
  <2> QED
    BY <1>2, <1>7, <2>1, SkipExits DEF Serve
<1>8. CASE Shutdown
  BY <1>2, <1>8, SkipExits DEF Shutdown
<1>9. CASE Reconfigure
  <2>1. /\ config' \in [password : BOOLEAN, secret : BOOLEAN]
        /\ UNCHANGED <<db, writer, draft, dialect, pc, at, stmt, crashes>>
    BY <1>9 DEF Reconfigure, Untouched
  <2> QED
    BY <2>1 DEF Skipped, NeverUpgraded, TypeOK
<1>10. CASE UNCHANGED vars
  BY <1>10 DEF vars, Skipped, NeverUpgraded, TypeOK
<1> QED
  BY <1>3, <1>4, <1>5, <1>6, <1>7, <1>8, <1>9, <1>10 DEF Next

\* The invariant holds in every state, whichever process migrates, fails or is killed.
THEOREM InductiveInvariant == Spec => []Holds
<1>1. Holds /\ [Next]_vars => Holds'
  BY NextIInv, NextSkipped DEF Holds
<1> QED
  BY <1>1, InitHolds, PTL DEF Spec

\* The variables keep their types.
THEOREM TypeCorrect == Spec => []TypeOK
<1>1. Holds => TypeOK
  BY DEF Holds, IInv, Skipped
<1> QED
  BY <1>1, InductiveInvariant, PTL

\* The recorded versions have no gap, what they stand for is there, on Postgres
\* nothing else, and a server that is up has the full schema, but on a database
\* from before the squash.
THEOREM VersionsAreTheSchema == Spec => []VersionsTellTheSchema
<1>1. Skipped => VersionsTellTheSchema
  BY DEF Skipped, NeverUpgraded, VersionsTellTheSchema, TypeOK
<1>2. IInv => VersionsTellTheSchema
  <2> SUFFICES ASSUME IInv PROVE VersionsTellTheSchema
    OBVIOUS
  <2>1. PICK k \in 0..Last : Recorded(k)
    BY DEF IInv
  <2>2. UNION {Parts(v) : v \in db.versions} = PartsUpTo(k)
    BY <2>1 DEF Recorded, PartsUpTo
  <2>3. pc[server] = "up" => k = Last
    BY <2>1 DEF Recorded, Processes
  <2>4. Last \in 1..Last
    BY DEF Last
  <2> QED
    BY <2>1, <2>2, <2>3, <2>4 DEF VersionsTellTheSchema, IInv, Recorded
<1>3. Holds => VersionsTellTheSchema
  BY <1>1, <1>2 DEF Holds
<1> QED
  BY <1>3, InductiveInvariant, PTL

\* An account or a folder that was removed is not brought back by a later migration,
\* even by a process that began before the seeding was recorded.
THEOREM SeedsStayFinal == Spec => SeedsAreFinal
<1>1. ASSUME IInv, NEW p \in Processes, Step(p)
      PROVE  /\ 2 \in db.versions => db'.users = db.users
             /\ 3 \in db.versions => db'.folders = db.folders
  <2>1. /\ pc[p] = "migrating"
        /\ IF stmt[p] \in DOMAIN MIGRATIONS[at[p]] THEN Execute(p, Statement(p)) ELSE Record(p)
    BY <1>1 DEF Step
  <2>2. at[p] \in 1..Last /\ View(p) \in Database /\ View(p).versions = db.versions
    BY <1>1, <2>1, Migrating, Views
  <2>3. CASE db' = db
    BY <2>3
  <2>4. CASE Execute(p, Statement(p)) /\ stmt[p] \in DOMAIN MIGRATIONS[at[p]]
    <3>1. PICK part : part = Statement(p).part
      OBVIOUS
    <3>2. \/ db' = db
          \/ writer # p /\ db' = [View(p) EXCEPT !.parts = View(p).parts \cup {part}]
      <4>1. Statement(p).do \in Kinds
        BY <2>2, <2>4, Statements DEF Statement
      <4> QED
        BY <2>4, <3>1, <4>1 DEF Execute, Kinds, Land, Commit, Write, Untouched, Fail
    <3>3. CASE writer # p /\ db' = [View(p) EXCEPT !.parts = View(p).parts \cup {part}]
      <4>1. View(p) = db
        BY <3>3 DEF View
      <4>2. db'.users = View(p).users /\ db'.folders = View(p).folders
        BY <2>2, <3>3 DEF Database
      <4> QED
        BY <4>1, <4>2
    <3> QED
      BY <2>3, <3>2, <3>3
  <2>5. CASE Record(p)
    <3>1. CASE at[p] \in View(p).versions
      BY <2>3, <2>5, <3>1 DEF Record, Fail
    <3>2. CASE at[p] \notin View(p).versions
      <4>1. db' = [View(p) EXCEPT !.versions = View(p).versions \cup {at[p]}]
        BY <2>5, <3>2 DEF Record, Commit
      <4>2. db'.users = View(p).users /\ db'.folders = View(p).folders
        BY <2>2, <4>1 DEF Database
      <4>3. 2 \in db.versions => at[p] # 2
        BY <2>2, <3>2
      <4>4. 3 \in db.versions => at[p] # 3
        BY <2>2, <3>2
      <4> QED
        BY <1>1, <4>2, <4>3, <4>4, Views
    <3> QED
      BY <3>1, <3>2
  <2> QED
    BY <2>1, <2>4, <2>5
<1>2. ASSUME Holds
      PROVE  \A p \in Processes : Step(p) =>
                /\ 2 \in db.versions => db'.users = db.users
                /\ 3 \in db.versions => db'.folders = db.folders
  BY <1>1, <1>2 DEF Holds, Skipped, Step
<1> QED
  BY <1>2, InductiveInvariant, PTL DEF SeedsAreFinal
=============================================================================
