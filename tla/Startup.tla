------------------------------ MODULE Startup ------------------------------
(***************************************************************************)
(* Bringing the schema up to date: run_migrations (db/migrations.py), as   *)
(* the server calls it in its lifespan (main.py 122-160) and the command   *)
(* line in _bootstrap (cli.py 28-32), both on one database and possibly at *)
(* once, with crashes between any two statements.                          *)
(*                                                                         *)
(* The two dialects differ in one thing. On Postgres transaction() covers  *)
(* every statement. On SQLite the driver opens a transaction at the first  *)
(* INSERT, so that each CREATE and ALTER before it is committed at once.   *)
(*                                                                         *)
(* The database is four sets. One process at a time has uncommitted        *)
(* changes, in draft: a coarse picture of Postgres' locks and SQLite's.    *)
(***************************************************************************)
EXTENDS Naturals, Sequences, FiniteSets

CONSTANTS server, cli,  \* the two processes
          Dialects,     \* which of "postgres", "sqlite" to start with
          Admin,        \* the configured admin_username
          Names,        \* account names, Admin among them
          MusicFolders, \* the configured music_folders
          Nobody,
          MaxCrashes

ASSUME StartupAssumption ==
    /\ Dialects \subseteq {"postgres", "sqlite"}
    /\ server # cli /\ Nobody \notin {server, cli}
    /\ Admin \in Names
    /\ MaxCrashes \in Nat

VARIABLES dialect, config,
          db,           \* what is committed
          writer,       \* the process in a write transaction, or Nobody
          draft,        \* the database as the writer sees it
          pc, at, stmt, \* each process: phase, version, next statement of it
          crashes

vars == <<dialect, config, db, writer, draft, pc, at, stmt, crashes>>

Processes == {server, cli}
Last == 12

(* A migration's statements: [do, part]. "create" spares what exists       *)
(* (IF NOT EXISTS), "add" (ALTER TABLE ADD COLUMN) fails on it.            *)
Create(part) == [do |-> "create", part |-> part]
Add(column) == [do |-> "add", part |-> column]
Do(what) == [do |-> what, part |-> "rows"]

MIGRATIONS ==
    << <<Create("schema")>>,
       <<Do("count_users"), Do("insert_admin")>>,
       <<Do("insert_folders")>>,
       <<Add("current_position")>>,
       <<Create("user_external_accounts")>>,
       <<Add("channels"), Add("sample_rate"), Add("bit_depth")>>,
       <<Create("track_features")>>,
       <<Add("lyrics")>>,
       <<Create("bookmarks")>>,
       <<Create("internet_radio_stations")>>,
       <<Create("ratings")>>,
       <<Create("idx_tracks_musicbrainz_id")>> >>

Ddl(s) == s.do \in {"create", "add"}
Parts(v) == {s.part : s \in {MIGRATIONS[v][i] : i \in {j \in DOMAIN MIGRATIONS[v] : Ddl(MIGRATIONS[v][j])}}}
PartsUpTo(k) == UNION {Parts(v) : v \in 1..k}

Squashed == 16                      \* versions before they were folded into one

Database ==
    [versions : SUBSET (1..Squashed), parts : SUBSET PartsUpTo(Last),
     users : SUBSET Names, folders : SUBSET MusicFolders]

(* A database an earlier release left behind, or none.                     *)
Left(k) ==
    [versions |-> 1..k, parts |-> PartsUpTo(k),
     users |-> IF k >= 2 THEN {Admin} ELSE {},
     folders |-> IF k >= 3 THEN MusicFolders ELSE {}]

(* One that went through the sixteen migrations which schema.sql replaced. *)
FromBeforeTheSquash ==
    [versions |-> 1..Squashed, parts |-> Parts(1),
     users |-> {Admin}, folders |-> MusicFolders]

Init ==
    /\ dialect \in Dialects
    /\ config \in [password : BOOLEAN, secret : BOOLEAN]
    /\ db \in {Left(k) : k \in 0..Last} \cup {FromBeforeTheSquash}
    /\ writer = Nobody /\ draft = db
    /\ pc = [p \in Processes |-> "down"]
    /\ at = [p \in Processes |-> 0]
    /\ stmt = [p \in Processes |-> 1]
    /\ crashes = 0

-----------------------------------------------------------------------------
Exit(p, to) ==
    /\ pc' = [pc EXCEPT ![p] = to]
    /\ at' = [at EXCEPT ![p] = 0]
    /\ stmt' = [stmt EXCEPT ![p] = 1]

Advance(p, i) == stmt' = [stmt EXCEPT ![p] = i] /\ UNCHANGED <<pc, at>>

Free(p) == writer \in {Nobody, p}
View(p) == IF writer = p THEN draft ELSE db

(* An exception: ROLLBACK, and the process ends.                           *)
Fail(p) ==
    /\ Exit(p, "down")
    /\ writer' = IF writer = p THEN Nobody ELSE writer
    /\ draft' = IF writer = p THEN db ELSE draft
    /\ UNCHANGED db

Write(p, new) == writer' = p /\ draft' = new /\ UNCHANGED db
Commit(new) == db' = new /\ draft' = new /\ writer' = Nobody
Untouched == UNCHANGED <<db, writer, draft>>

(* How a CREATE or ALTER lands.                                            *)
Land(p, new) ==
    IF dialect = "sqlite" /\ writer # p THEN Commit(new) ELSE Write(p, new)

-----------------------------------------------------------------------------
_current_version_First == IF db.versions = {} THEN 0 ELSE 1    \* mutant: not the highest
_current_version ==
    IF db.versions = {} THEN 0
    ELSE CHOOSE v \in db.versions : \A w \in db.versions : w <= v

(* The next migration of a process, or the end of the loop.                *)
GoTo(p, v) ==
    IF v > Last THEN Exit(p, "migrated")
    ELSE /\ pc' = [pc EXCEPT ![p] = "migrating"]
         /\ at' = [at EXCEPT ![p] = v]
         /\ stmt' = [stmt EXCEPT ![p] = 1]

Begin(p) ==
    /\ pc[p] = "down"
    /\ GoTo(p, _current_version + 1)
    /\ Untouched
    /\ UNCHANGED <<dialect, config, crashes>>

Statement(p) == MIGRATIONS[at[p]][stmt[p]]

Execute(p, s) ==
    LET d == View(p) IN
    CASE s.do = "create" ->
            /\ Free(p)
            /\ Advance(p, stmt[p] + 1)
            /\ IF s.part \in d.parts THEN Untouched
               ELSE Land(p, [d EXCEPT !.parts = @ \cup {s.part}])
      [] s.do = "add" ->
            /\ Free(p)
            /\ IF s.part \in d.parts THEN Fail(p)      \* duplicate column
               ELSE /\ Advance(p, stmt[p] + 1)
                    /\ Land(p, [d EXCEPT !.parts = @ \cup {s.part}])
      [] s.do = "count_users" ->
            IF d.users # {} THEN Advance(p, stmt[p] + 2) /\ Untouched
            ELSE IF ~config.password THEN Fail(p)
            ELSE Advance(p, stmt[p] + 1) /\ Untouched
      [] s.do = "insert_admin" ->
            /\ Free(p)
            /\ IF Admin \in d.users THEN Fail(p)       \* username is UNIQUE
               ELSE /\ Advance(p, stmt[p] + 1)
                    /\ Write(p, [d EXCEPT !.users = @ \cup {Admin}])
      [] s.do = "insert_folders" ->
            /\ Free(p)
            /\ Advance(p, stmt[p] + 1)
            /\ IF MusicFolders = {} THEN Untouched
               ELSE Write(p, [d EXCEPT !.folders = @ \cup MusicFolders])

\* mutant: ON CONFLICT DO NOTHING where a second migrator must fail
Record_Lenient(p) ==
    /\ Free(p)
    /\ Commit([View(p) EXCEPT !.versions = @ \cup {at[p]}])
    /\ GoTo(p, at[p] + 1)
(* INSERT INTO schema_version and the COMMIT.                              *)
Record(p) ==
    /\ Free(p)
    /\ IF at[p] \in View(p).versions THEN Fail(p)
       ELSE /\ Commit([View(p) EXCEPT !.versions = @ \cup {at[p]}])
            /\ GoTo(p, at[p] + 1)

\* mutant: the version is bumped before the migration runs
Step_RecordFirst(p) ==
    /\ pc[p] = "migrating"
    /\ IF at[p] \notin View(p).versions
       THEN /\ Free(p)
            /\ Commit([View(p) EXCEPT !.versions = @ \cup {at[p]}])
            /\ UNCHANGED <<pc, at, stmt>>
       ELSE IF stmt[p] \in DOMAIN MIGRATIONS[at[p]] THEN Execute(p, Statement(p))
       ELSE Commit(View(p)) /\ GoTo(p, at[p] + 1)
    /\ UNCHANGED <<dialect, config, crashes>>
Step(p) ==
    /\ pc[p] = "migrating"
    /\ IF stmt[p] \in DOMAIN MIGRATIONS[at[p]] THEN Execute(p, Statement(p)) ELSE Record(p)
    /\ UNCHANGED <<dialect, config, crashes>>

(* The rest of the lifespan: the default jwt_secret is refused where the   *)
(* host is not loopback (config.secret: it may stay, or was replaced).     *)
Serve ==
    /\ pc[server] = "migrated"
    /\ Exit(server, IF config.secret THEN "up" ELSE "down")
    /\ Untouched
    /\ UNCHANGED <<dialect, config, crashes>>

(* Accounts and folders change through a running server, or through the    *)
(* command the command line was called for.                                *)
Administer(p) ==
    /\ \/ p = server /\ pc[server] = "up" /\ UNCHANGED <<pc, at, stmt>>
       \/ p = cli /\ pc[cli] = "migrated" /\ Exit(cli, "down")
    /\ writer = Nobody
    /\ \/ \E n \in Names :
            \/ n \notin db.users /\ Commit([db EXCEPT !.users = @ \cup {n}])
            \/ n \in db.users /\ Commit([db EXCEPT !.users = @ \ {n}])
       \/ /\ p = server
          /\ \E f \in MusicFolders : Commit([db EXCEPT !.folders = @ \ {f}])
    /\ UNCHANGED <<dialect, config, crashes>>

Shutdown ==
    /\ pc[server] = "up"
    /\ Exit(server, "down")
    /\ Untouched
    /\ UNCHANGED <<dialect, config, crashes>>

(* A process is killed between two statements.                             *)
Crash(p) ==
    /\ pc[p] \in {"migrating", "migrated"}
    /\ crashes < MaxCrashes
    /\ crashes' = crashes + 1
    /\ Fail(p)
    /\ UNCHANGED <<dialect, config>>

(* The operator edits the settings while no process is starting.           *)
Reconfigure ==
    /\ \A p \in Processes : pc[p] \in {"down", "up"}
    /\ config' \in [password : BOOLEAN, secret : BOOLEAN]
    /\ Untouched
    /\ UNCHANGED <<dialect, pc, at, stmt, crashes>>

Next ==
    \/ \E p \in Processes : Begin(p) \/ Step(p) \/ Administer(p) \/ Crash(p)
    \/ Serve \/ Shutdown \/ Reconfigure

(* The service manager starts the server again (muse.service 29,           *)
(* docker-compose.yml 44); a started process gets on with it.              *)
Spec ==
    /\ Init /\ [][Next]_vars
    /\ WF_vars(Begin(server)) /\ WF_vars(Serve)
    /\ WF_vars(Step(server)) /\ WF_vars(Step(cli))

-----------------------------------------------------------------------------
TypeOK ==
    /\ dialect \in Dialects
    /\ config \in [password : BOOLEAN, secret : BOOLEAN]
    /\ db \in Database /\ draft \in Database
    /\ writer \in Processes \cup {Nobody}
    /\ writer = Nobody => draft = db
    /\ pc \in [Processes -> {"down", "migrating", "migrated", "up"}]
    /\ pc[cli] # "up"
    /\ at \in [Processes -> 0..Last]
    /\ \A p \in Processes : at[p] # 0 <=> pc[p] = "migrating"
    /\ stmt \in [Processes -> 1..4]
    /\ crashes \in 0..MaxCrashes

(* A database with the versions of the old numbering counts as newer than  *)
(* any migration: it is served without what they add (migrations.py 16-21, *)
(* 313-319).                                                               *)
NeverUpgraded == db.versions = 1..Squashed /\ db.parts = Parts(1)

(* Whatever crashes and whoever else migrates, the recorded versions have  *)
(* no gap, and what they stand for is there: on Postgres nothing more, so  *)
(* that the next start can go on (migrations.py 320-337). Requests meet    *)
(* the full schema (main.py 128-130), but on a database from before the    *)
(* squash, which is left as it was.                                        *)
VersionsTellTheSchema ==
    /\ TypeOK
    /\ \/ NeverUpgraded /\ draft.versions = 1..Squashed
       \/ /\ \E k \in 0..Last : db.versions = 1..k /\ PartsUpTo(k) \subseteq db.parts
          /\ dialect = "postgres" => db.parts = UNION {Parts(v) : v \in db.versions}
          /\ pc[server] = "up" => Last \in db.versions

(* A migration that was interrupted can be run again: no start fails on a  *)
(* column it has to add, where the version is not recorded and no other    *)
(* process is migrating. What the comment at migrations.py 326-328 says of *)
(* either dialect.                                                         *)
InterruptedMigrationsRerun ==
    [][\A p \in Processes :
          /\ Step(p)
          /\ at[p] \notin db.versions /\ \A q \in Processes \ {p} : pc[q] # "migrating"
          /\ stmt[p] \in DOMAIN MIGRATIONS[at[p]] /\ Statement(p).do = "add"
          => pc'[p] = "migrating"]_vars

(* The admin and the folders are seeded once: a later start never brings   *)
(* back an account or a folder that was removed, even one that raced the   *)
(* first start (migrations.py 59-65 and 102-108).                          *)
SeedsAreFinal ==
    [][\A p \in Processes : Step(p) =>
          /\ 2 \in db.versions => db'.users = db.users
          /\ 3 \in db.versions => db'.folders = db.folders]_vars

(* With a usable configuration the server comes up, also when the command  *)
(* line migrates at the same time and makes its start fail. The exception  *)
(* is a SQLite database on which a migration was interrupted.              *)
ComesUp ==
    /\ dialect = "postgres" \/ [](crashes = 0)
    /\ <>[](config.password /\ config.secret)
    => []<>(pc[server] = "up")
=============================================================================
