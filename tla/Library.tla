------------------------------- MODULE Library -------------------------------
(***************************************************************************)
(* The library scan: how the tracks, albums and artists tables follow the  *)
(* audio files on disk (scanner/scanner.py: _run_scan_inner, _scan_folder  *)
(* and its _commit; the queries they call).                                *)
(*                                                                         *)
(* The environment edits, adds and removes files at any moment, also       *)
(* between the scanner's stat of a file and its reading of the tags; it    *)
(* adds and deletes music folders, cancels scans and kills the process.    *)
(* What keeps two scans apart is in ScanJob: here there is one scanner.    *)
(***************************************************************************)
EXTENDS Integers, FiniteSets

CONSTANTS Files, Folders,
          FolderOf,      \* the music folder each path is under
          Tags,          \* [artist, albumArtist, album]; names are dedup keys
          FallbackTag,   \* what extract() returns when it cannot read the file
          BatchSize,     \* settings.scanner_batch_size
          None,          \* no file, no row, no name
          MaxClock,      \* bound: changes to the disk and the folder list
          FaultKinds,    \* which faults the environment may cause
          MaxFaults      \* bound: how many of them

ASSUME ShapeAssumption ==
    /\ IsFiniteSet(Files) /\ IsFiniteSet(Tags)
    /\ FolderOf \in [Files -> Folders]
    /\ FallbackTag \in Tags
    /\ BatchSize \in Nat \ {0}
    /\ MaxClock \in Nat /\ MaxFaults \in Nat
    /\ FaultKinds \subseteq {"miss", "read", "db", "cancel", "crash"}

AlbumArtist(t) == IF t.albumArtist = None THEN t.artist ELSE t.albumArtist
AlbumOf(t) == <<AlbumArtist(t), t.album>>
Artists == {t.artist : t \in Tags} \cup {AlbumArtist(t) : t \in Tags}
Albums == {AlbumOf(t) : t \in Tags}

Stamps == 0..MaxClock                \* an (mtime, size) pair of a file
Content == [stamp : Stamps, tag : Tags]

ASSUME NoneAssumption == None \notin Content /\ None \notin Nat

VARIABLES
    disk,        \* what each path holds
    clock,       \* counts changes: an edited file gets a stamp never used before
    folders,     \* music_folders
    tracks,      \* tracks rows, as the stamp and the tags recorded for a path
    albums,      \* albums rows, as their track_count
    artists,     \* artists rows, as their album_count
    pc,          \* where the scanner thread is
    force,       \* re-parse unchanged files too
    todo,        \* folders the scan has still to visit
    existing,    \* rows of the current folder not met by the walk yet
    unvisited,   \* paths of the current folder the walk has not come to
    passed,      \* history: paths where this walk found no file, or saw none
    toParse,     \* <<path, stamp>> pairs the walk handed to the parser
    pending,     \* parsed records not committed yet
    touched,         \* album rows whose count phase 4 will recompute
    touchedArtists,  \* artist rows likewise
    cancel,      \* _cancel_event
    faults,      \* how many faults there have been
    clean,       \* history: nothing has disturbed the current scan
    aggregated   \* history: the current scan has reached phase 4

diskVars == <<disk, clock, folders>>
dbVars   == <<tracks, albums, artists>>
walkVars == <<existing, unvisited, passed, toParse>>
jobVars  == <<force, todo, cancel>>
vars == <<diskVars, dbVars, walkVars, jobVars, pc, pending, touched,
          touchedArtists, faults, clean, aggregated>>

TypeOK ==
    /\ disk \in [Files -> Content \cup {None}]
    /\ clock \in Stamps
    /\ folders \subseteq Folders
    /\ tracks \in [Files -> Content \cup {None}]
    /\ albums \in [Albums -> Nat \cup {None}]
    /\ artists \in [Artists -> Nat \cup {None}]
    /\ pc \in {"idle", "folders", "walk", "parse", "commit", "drain",
               "aggregate", "post", "gc", "done"}
    /\ force \in BOOLEAN /\ cancel \in BOOLEAN
    /\ clean \in BOOLEAN /\ aggregated \in BOOLEAN
    /\ todo \subseteq Folders
    /\ existing \subseteq Files /\ unvisited \subseteq Files /\ passed \subseteq Files
    /\ toParse \subseteq Files \X Stamps
    /\ pending \subseteq [file : Files, stamp : Stamps, tag : Tags]
    /\ touched \subseteq Albums /\ touchedArtists \subseteq Artists
    /\ faults \in 0..MaxFaults

\* An empty database and whatever is on disk.
Init ==
    /\ disk \in [Files -> [stamp : {0}, tag : Tags] \cup {None}]
    /\ clock = 0
    /\ folders = Folders
    /\ tracks = [f \in Files |-> None]
    /\ albums = [a \in Albums |-> None]
    /\ artists = [a \in Artists |-> None]
    /\ pc = "idle" /\ force = FALSE /\ cancel = FALSE
    /\ todo = {} /\ existing = {} /\ unvisited = {} /\ passed = {}
    /\ toParse = {} /\ pending = {} /\ touched = {} /\ touchedArtists = {}
    /\ faults = 0 /\ clean = FALSE /\ aggregated = FALSE

-----------------------------------------------------------------------------
(* The statements the scanner and the collector issue *)

FilesIn(d) == {f \in Files : FolderOf[f] = d}

RowsOf_AllFolders(d) == {f \in Files : tracks[f] # None}   \* mutant
RowsOf(d) == {f \in FilesIn(d) : tracks[f] # None}

TrackCount(tr, a) ==
    Cardinality({f \in Files : tr[f] # None /\ AlbumOf(tr[f].tag) = a})

AlbumCount(al, x) == Cardinality({a \in Albums : al[a] # None /\ a[1] = x})

\* A row that is there keeps its columns, a new one starts from the default.
Upsert(rows, keys) ==
    [k \in DOMAIN rows |-> IF k \in keys /\ rows[k] = None THEN 0 ELSE rows[k]]

\* cleanup_empty_albums_and_artists: albums without a track, and then artists
\* with neither an album nor a track to their name.
CleanAlbums(tr, al) ==
    [a \in Albums |-> IF TrackCount(tr, a) = 0 THEN None ELSE al[a]]

\* mutant: forgets the artists who are only guests on others' albums
CleanArtists_AlbumsOnly(tr, al, ar) ==
    [x \in Artists |-> IF AlbumCount(al, x) = 0 THEN None ELSE ar[x]]

CleanArtists(tr, al, ar) ==
    [x \in Artists |->
        IF /\ AlbumCount(al, x) = 0
           /\ \A f \in Files : tr[f] # None => tr[f].tag.artist # x
        THEN None ELSE ar[x]]

Cleanup(tr, al, ar) ==
    /\ albums' = CleanAlbums(tr, al)
    /\ artists' = CleanArtists(tr, CleanAlbums(tr, al), ar)

Fault(kind) ==
    /\ kind \in FaultKinds
    /\ faults < MaxFaults
    /\ faults' = faults + 1
    /\ clean' = FALSE

NoFault == UNCHANGED <<faults, clean>>

ForgetFolder ==
    /\ toParse' = {} /\ pending' = {}
    /\ existing' = {} /\ unvisited' = {} /\ passed' = {}
    /\ touched' = {} /\ touchedArtists' = {}

-----------------------------------------------------------------------------
(* The frame of the scan: _run_scan_inner *)

StartScan ==
    /\ pc = "idle"
    /\ pc' = "folders"
    /\ force' \in BOOLEAN
    /\ todo' = folders
    /\ cancel' = FALSE
    /\ clean' = TRUE /\ aggregated' = FALSE
    /\ UNCHANGED <<diskVars, dbVars, walkVars, pending, touched,
                   touchedArtists, faults>>

\* The rows of the folder, and the walk about to begin.
EnterFolder(d) ==
    /\ pc = "folders" /\ ~cancel
    /\ d \in todo
    /\ todo' = todo \ {d}
    /\ existing' = RowsOf(d)
    /\ unvisited' = FilesIn(d)
    /\ passed' = {}
    /\ pc' = "walk"
    /\ NoFault
    /\ UNCHANGED <<diskVars, dbVars, toParse, force, cancel, pending, touched,
                   touchedArtists, aggregated>>

\* The root is not a directory at the moment: an error, and the next folder.
FolderUnavailable(d) ==
    /\ pc = "folders" /\ ~cancel
    /\ d \in todo
    /\ todo' = todo \ {d}
    /\ Fault("miss")
    /\ UNCHANGED <<diskVars, dbVars, walkVars, force, cancel, pc, pending,
                   touched, touchedArtists, aggregated>>

FoldersDone ==
    /\ pc = "folders"
    /\ todo = {} \/ cancel
    /\ todo' = {}
    /\ pc' = "post"
    /\ NoFault
    /\ UNCHANGED <<diskVars, dbVars, walkVars, force, cancel, pending, touched,
                   touchedArtists, aggregated>>

\* A cancelled scan is not followed by the collector.
PostCheck ==
    /\ pc = "post"
    /\ pc' = IF cancel THEN "done" ELSE "gc"
    /\ NoFault
    /\ UNCHANGED <<diskVars, dbVars, walkVars, jobVars, pending, touched,
                   touchedArtists, aggregated>>

\* The part of run_gc that concerns these tables.
Gc ==
    /\ pc = "gc"
    /\ \/ Cleanup(tracks, albums, artists) /\ UNCHANGED tracks /\ NoFault
       \/ UNCHANGED dbVars /\ Fault("db")
    /\ pc' = "done"
    /\ UNCHANGED <<diskVars, walkVars, jobVars, pending, touched,
                   touchedArtists, aggregated>>

Finish ==
    /\ pc = "done"
    /\ pc' = "idle"
    /\ cancel' = FALSE
    /\ NoFault
    /\ UNCHANGED <<diskVars, dbVars, walkVars, force, todo, pending, touched,
                   touchedArtists, aggregated>>

-----------------------------------------------------------------------------
(* Phase 1: the walk, and the removal of rows whose file it did not meet *)

\* The fast path: same (mtime, size) as the row, and no forced re-parse.
Unchanged_IfKnown(f) == f \in existing /\ ~force     \* mutant
Unchanged(f) == /\ f \in existing
                /\ ~force
                /\ tracks[f].stamp = disk[f].stamp

StampOf(f) == disk[f].stamp

Popped(f) == {f}

\* Also a skipped file has its album recounted.
Touches_Nothing(f) == {}                      \* mutant
Touches(f) == {AlbumOf(tracks[f].tag)}

WalkFile(f) ==
    /\ pc = "walk"
    /\ f \in unvisited /\ disk[f] # None
    /\ unvisited' = unvisited \ {f}
    /\ existing' = existing \ Popped(f)
    /\ IF Unchanged(f)
       THEN /\ touched' = touched \cup Touches(f)
            /\ UNCHANGED toParse
       ELSE /\ toParse' = toParse \cup {<<f, StampOf(f)>>}
            /\ UNCHANGED touched
    /\ NoFault
    /\ UNCHANGED <<diskVars, dbVars, jobVars, passed, pc, pending, touchedArtists,
                   aggregated>>

\* Nothing there; or there is, in a directory that cannot be listed or behind
\* a stat that fails, which the walker logs and passes over.
WalkMisses(f) ==
    /\ pc = "walk"
    /\ f \in unvisited
    /\ unvisited' = unvisited \ {f}
    /\ passed' = passed \cup {f}
    /\ IF disk[f] = None THEN NoFault ELSE Fault("miss")
    /\ UNCHANGED <<diskVars, dbVars, existing, toParse, jobVars, pc, pending,
                   touched, touchedArtists, aggregated>>

\* What is left of the existing rows is deleted; without a file to parse that
\* is the end of the folder.
WalkDone ==
    /\ pc = "walk" /\ unvisited = {}
    /\ tracks' = [f \in Files |-> IF f \in existing THEN None ELSE tracks[f]]
    /\ IF toParse = {}
       THEN pc' = "folders" /\ ForgetFolder
       ELSE /\ pc' = "parse"
            /\ existing' = {} /\ passed' = {}
            /\ UNCHANGED <<toParse, unvisited, pending, touched, touchedArtists>>
    /\ NoFault
    /\ UNCHANGED <<diskVars, albums, artists, jobVars, aggregated>>

\* An exception, in a statement or while a directory is being listed, ends the
\* folder and not the scan.
FolderFails ==
    /\ pc \in {"walk", "aggregate"}
    /\ Fault("db")
    /\ pc' = "folders"
    /\ ForgetFolder
    /\ UNCHANGED <<diskVars, dbVars, jobVars, aggregated>>

-----------------------------------------------------------------------------
(* Phases 2 and 3: parse, commit in batches. A file is read after its stat, *)
(* so its tags may be newer than its stamp; one that is gone by then, or    *)
(* cannot be read just now, still yields a record under that stamp.         *)

Collect(f, stamp) ==
    /\ pc = "parse" /\ ~cancel
    /\ <<f, stamp>> \in toParse
    /\ toParse' = toParse \ {<<f, stamp>>}
    /\ \E tag \in Tags :
          /\ \/ disk[f] # None /\ tag = disk[f].tag /\ NoFault
             \/ disk[f] = None /\ tag = FallbackTag /\ NoFault
             \/ disk[f] # None /\ tag = FallbackTag /\ Fault("read")
          /\ pending' = pending \cup {[file |-> f, stamp |-> stamp, tag |-> tag]}
    /\ pc' = IF Cardinality(pending') >= BatchSize THEN "commit" ELSE "parse"
    /\ UNCHANGED <<diskVars, dbVars, existing, unvisited, passed, jobVars, touched,
                   touchedArtists, aggregated>>

AfterParsing_NoDrain == "aggregate"     \* mutant: a partial batch is lost
AfterParsing == "drain"

ParseDone ==
    /\ pc = "parse" /\ ~cancel
    /\ toParse = {}
    /\ pc' = AfterParsing
    /\ NoFault
    /\ UNCHANGED <<diskVars, dbVars, walkVars, jobVars, pending, touched,
                   touchedArtists, aggregated>>

\* The event is seen when a result arrives, or after the last one: pending
\* records are dropped and the folder ends here, without phase 4.
Abandon ==
    /\ pc = "parse" /\ cancel
    /\ pc' = "folders"
    /\ ForgetFolder
    /\ NoFault
    /\ UNCHANGED <<diskVars, dbVars, jobVars, aggregated>>

\* mutant: the file is statted again when its row is written
RowFrom_Restat(p) ==
    [stamp |-> IF disk[p.file] = None THEN p.stamp ELSE disk[p.file].stamp,
     tag |-> p.tag]
RowFrom(p) == [stamp |-> p.stamp, tag |-> p.tag]

\* The artist whose album count a record changes.
Credited(p) == AlbumArtist(p.tag)

\* One transaction for the batch.
CommitBatch ==
    /\ tracks' = [f \in Files |->
                     IF \E p \in pending : p.file = f
                     THEN RowFrom(CHOOSE p \in pending : p.file = f)
                     ELSE tracks[f]]
    /\ albums' = Upsert(albums, {AlbumOf(p.tag) : p \in pending})
    /\ artists' = Upsert(artists, {p.tag.artist : p \in pending}
                                     \cup {AlbumArtist(p.tag) : p \in pending})
    /\ touched' = touched \cup {AlbumOf(p.tag) : p \in pending}
    /\ touchedArtists' = touchedArtists \cup {Credited(p) : p \in pending}

\* A full batch, or the last one; a batch whose transaction fails is dropped.
Commit ==
    /\ pc \in {"commit", "drain"}
    /\ \/ CommitBatch /\ NoFault
       \/ UNCHANGED <<dbVars, touched, touchedArtists>> /\ Fault("db")
    /\ pending' = {}
    /\ pc' = IF pc = "commit" THEN "parse" ELSE "aggregate"
    /\ UNCHANGED <<diskVars, walkVars, jobVars, aggregated>>

\* Phase 4, one transaction: album counts, artist counts, then the cleanup.
Recounted(rows, keys, counts) ==
    [k \in DOMAIN rows |->
        IF k \in keys /\ rows[k] # None THEN counts[k] ELSE rows[k]]

Aggregate ==
    /\ pc = "aggregate"
    /\ LET al == Recounted(albums, touched,
                           [a \in Albums |-> TrackCount(tracks, a)])
           ar == Recounted(artists, touchedArtists,
                           [x \in Artists |-> AlbumCount(al, x)])
       IN  Cleanup(tracks, al, ar)
    /\ pc' = "folders"
    /\ ForgetFolder
    /\ aggregated' = TRUE
    /\ NoFault
    /\ UNCHANGED <<diskVars, tracks, jobVars>>

-----------------------------------------------------------------------------
(* The environment *)

\* A file appears or is rewritten: its (mtime, size) is one it never had.
EditFile(f) ==
    /\ clock < MaxClock
    /\ clock' = clock + 1
    /\ \E t \in Tags : disk' = [disk EXCEPT ![f] = [stamp |-> clock', tag |-> t]]
    /\ clean' = FALSE
    /\ UNCHANGED <<folders, dbVars, walkVars, jobVars, pc, pending, touched,
                   touchedArtists, faults, aggregated>>

RemoveFile(f) ==
    /\ disk[f] # None
    /\ disk' = [disk EXCEPT ![f] = None]
    /\ clean' = FALSE
    /\ UNCHANGED <<clock, folders, dbVars, walkVars, jobVars, pc, pending,
                   touched, touchedArtists, faults, aggregated>>

\* folders_add does not care whether a scan is running.
AddFolder(d) ==
    /\ clock < MaxClock
    /\ clock' = clock + 1
    /\ d \notin folders
    /\ folders' = folders \cup {d}
    /\ clean' = FALSE
    /\ UNCHANGED <<disk, dbVars, walkVars, jobVars, pc, pending, touched,
                   touchedArtists, faults, aggregated>>

\* folders_delete: refused during a scan; tracks go by cascade, then run_gc,
\* whose failure is ignored.
DeleteFolder(d) ==
    /\ pc = "idle"
    /\ clock < MaxClock
    /\ clock' = clock + 1
    /\ d \in folders
    /\ folders' = folders \ {d}
    /\ tracks' = [f \in Files |-> IF FolderOf[f] = d THEN None ELSE tracks[f]]
    /\ \/ Cleanup(tracks', albums, artists) /\ UNCHANGED faults
       \/ UNCHANGED <<albums, artists>> /\ Fault("db")
    /\ clean' = FALSE
    /\ UNCHANGED <<disk, walkVars, jobVars, pc, pending, touched,
                   touchedArtists, aggregated>>

Cancel ==
    /\ pc # "idle" /\ ~cancel
    /\ cancel' = TRUE
    /\ Fault("cancel")
    /\ UNCHANGED <<diskVars, dbVars, walkVars, force, todo, pc, pending,
                   touched, touchedArtists, aggregated>>

\* The process dies and is started again: committed rows are all that is left.
Crash ==
    /\ pc # "idle"
    /\ Fault("crash")
    /\ pc' = "idle" /\ cancel' = FALSE /\ force' = FALSE /\ todo' = {}
    /\ ForgetFolder
    /\ aggregated' = FALSE
    /\ UNCHANGED <<diskVars, dbVars>>

-----------------------------------------------------------------------------

\* StartScan is here because the watcher calls it at every interval.
Scan ==
    \/ StartScan \/ FoldersDone \/ PostCheck \/ Gc \/ Finish
    \/ \E d \in Folders : EnterFolder(d)
    \/ \E f \in Files : WalkFile(f) \/ WalkMisses(f)
    \/ WalkDone \/ ParseDone \/ Abandon \/ Commit \/ Aggregate
    \/ \E f \in Files, s \in Stamps : Collect(f, s)

Environment ==
    \/ \E f \in Files : EditFile(f) \/ RemoveFile(f)
    \/ \E d \in Folders : AddFolder(d) \/ DeleteFolder(d) \/ FolderUnavailable(d)
    \/ FolderFails \/ Cancel \/ Crash

Next == Scan \/ Environment

Spec == Init /\ [][Next]_vars

\* The watcher goes on starting scans and the scanner thread is not starved.
FairSpec == Spec /\ WF_vars(Scan)

-----------------------------------------------------------------------------
(* Properties *)

\* Tags told of a file by a row or a record that bears its present stamp.
ToldOf(f, tag) ==
    \/ tag = disk[f].tag
    \/ "read" \in FaultKinds /\ tag = FallbackTag

\* A row whose recorded (mtime, size) is the file's present one carries the
\* file's present tags, so that skipping the file is sound, even when the file
\* was rewritten between the walk's stat and the parser's read. The exception
\* is a failed read, whose fallback tags stay until the file changes.
StampedRowsAreCurrent ==
    \A f \in Files :
        tracks[f] # None /\ disk[f] # None /\ tracks[f].stamp = disk[f].stamp
            => ToldOf(f, tracks[f].tag)

InLibrary(f) == IF FolderOf[f] \in folders THEN disk[f] ELSE None

TracksMirrorDisk ==
    \A f \in Files :
        IF InLibrary(f) = None
        THEN tracks[f] = None
        ELSE /\ tracks[f] # None /\ tracks[f].stamp = disk[f].stamp
             /\ ToldOf(f, tracks[f].tag)

\* A scan that nothing disturbed leaves exactly one row for each file of the
\* configured folders, with the file's tags, and no other row: no partial
\* batch is lost, nothing stale is kept.
CleanScanMirrorsDisk == pc = "done" /\ clean => TracksMirrorDisk

\* A row always has its album and its artists: neither the cleanup of phase 4
\* nor the collector removes a row that a track still needs.
ReferencesHold ==
    /\ \A f \in Files : tracks[f] # None =>
          albums[AlbumOf(tracks[f].tag)] # None /\ artists[tracks[f].tag.artist] # None
    /\ \A a \in Albums : albums[a] # None => artists[a[1]] # None

NoEmptyRows ==
        /\ \A a \in Albums : albums[a] # None => TrackCount(tracks, a) > 0
        /\ \A x \in Artists : artists[x] # None =>
              \/ AlbumCount(albums, x) > 0
              \/ \E f \in Files : tracks[f] # None /\ tracks[f].tag.artist = x

AlbumCountsExact ==
    \A a \in Albums : albums[a] # None => albums[a] = TrackCount(tracks, a)

\* After an undisturbed scan no album is empty and no artist is without both
\* albums and tracks (the cleanups of phase 4 and of run_gc). With one music
\* folder, one that came to phase 4 also leaves every album with its exact
\* count: also the album a retagged file has left, whose other tracks were
\* skipped (touched_albums).
AggregatedCountsExact ==
    pc = "done" /\ clean => NoEmptyRows /\ (aggregated => AlbumCountsExact)

\* A row, and with it the play counts, bookmarks and places in playlists of its
\* file, goes only when its folder is removed, or when the very walk that just
\* ended came to its path and saw no file there: whatever else is edited, missed,
\* cancelled or killed takes no other row (scanner.py 600-637). That what the walk
\* does not see is gone (629) is the code's own assumption: a directory that
\* cannot be listed, or a stat that fails, costs the rows of what is there.
RowsOfPresentFilesSurvive ==
    [][\A f \in Files :
          tracks[f] # None /\ tracks'[f] = None =>
              FolderOf[f] \notin folders' \/ f \in passed]_vars

\* However scans are cancelled, killed or fail, once these and the changes to
\* the disk are over the tracks table comes to mirror the disk and stays so.
LibraryConverges == <>[]TracksMirrorDisk
=============================================================================
