# Muse in TLA+

Muse is a self-hosted, Subsonic-compatible music server: a Python (FastAPI)
backend over SQLite or PostgreSQL, a TypeScript browser client, ffmpeg for
transcoding. This directory holds TLA+ models of the parts in which something
can go wrong between two steps, the TLC configurations that check them on small
instances, and proofs, checked by TLAPS, for instances of any size.

Contents: [the system](#the-system), [modules](#the-modules),
[runs](#runs), [bounds](#bounds), [fairness](#fairness), [proofs](#proofs),
[where code and comments disagree](#where-code-and-comments-disagree),
[what is left out](#what-is-left-out), [plan](#plan), [how to run](#how-to-run).

Paths below are relative to `src/backend` unless they begin with `frontend`.

## The system

One server process. Handlers run on the threads of FastAPI's pool (the handlers
are plain `def`s), next to at most one scanner thread, one artwork-recovery
thread, one sonic-analysis thread and one watcher thread; streams run on the
event loop. They share module globals (locks, events, progress records, caches),
the database, and the artwork directory. The command line is a second process on
the same database. Clients are the browser player and third-party Subsonic
clients, which share nothing but the server.

| component | state | operations | hard behaviour | what makes it correct | module |
|---|---|---|---|---|---|
| **Scan job** `scanner/scanner.py` (frame), called by `api/web.py`, `api/subsonic/system.py`, `scanner/watcher.py`, `main.py` | `_lock`, `_cancel_event`, `_progress.running` | start, cancel, run, end; 409 for maintenance while it runs | handlers, watcher and thread interleave at every assignment; failures before the `try` | one scan at a time; the flag is up while one runs; a scan obeys the cancels set while it runs and none from before; lock and flag come free again | `ScanJob` |
| **Library scan** `_scan_folder`, `scanner/walker.py`, statements of `db/queries.py` | tables `tracks`, `albums`, `artists`, `music_folders`; the walk's work lists | walk, skip or queue, delete stale rows, parse in parallel, commit in batches, aggregate, clean up | files change between stat and read; batches fail; cancels, crashes; several music folders; denormalised counts | an incremental scan ends up with what a full one would; rows of files that stay keep their ids; references and counts hold | `Library` |
| **Tag reader** `scanner/metadata.py` | none | `extract` (mutagen, ffprobe, file name) | never raises: a failed read is a success with fallback tags | only what the scan sees of it matters here | (`Library`) |
| **Watcher** `scanner/watcher.py` | `_thread`, `_stop_event` | start, stop, tick | - | its ticks are calls of `start_scan_async` | (`ScanJob`) |
| **Artwork cache and garbage collection** `scanner/artwork.py`, `db/maintenance.py`, artwork phases of `scanner/scanner.py` | image files named by hash; `albums.cover_art_id`, `artists.image_id`; `_recover_*` globals | artwork phase, recovery, collector (empty rows, missing files, orphaned files), resized variants | two jobs put files in and stamp rows afterwards; the collector takes files out under no lock that keeps the recovery away; full disks, rollbacks, crashes | a cover has its file; a damaged cache is repaired; nothing leaks | `Artwork` |
| **Playlists** `queries.py` 480-665, `api/subsonic/playlists.py` | `playlist_tracks(playlist, position, track)` | create, replace, add (MAX+1), remove by index and renumber, delete | duplicates; gaps left by cascades; two clients at once | adds and removals keep the other entries and their order; only the entitled write | `Playlists` |
| **Stars, ratings, bookmarks, play counts, radio stations** | one table each | set, clear, list, clean up | a look-up and a write with a deletion between them; batches that fail half-way | nothing refers to what is gone; plays stored are plays answered for | `Marks` |
| **Play queue** `queries.py` 667-815 | `play_queues`, `play_queue_entries` | save, save by index, get | two ways of naming the current entry; deleted tracks; two reads | what is stored is one save | `PlayQueue` |
| **Browser player** `frontend/src/player.ts` | queue, index, `suppressSave`, promises in flight | play, next, refill, save, restore | callbacks in any order; saves lost or reordered; reloads | what is shown is what plays, and it is saved in the end | `Player` |
| **Radio continuation** `core/radio.py` | none | select | - | nothing excluded, nothing twice | (`Player`) |
| **Authentication and accounts** `core/auth.py`, `api/deps.py`, `api/subsonic/users.py`, `cli.py` | password hashes, encrypted passwords, `_last_plaintext`, JWTs | log in three ways; create, delete, disable accounts, change passwords | caches that outlive what they cache; another process; restarts | both forms of a password agree; who changes a password knows it; the disabled stay out | `Sessions` |
| **Log-in throttle** `core/throttle.py` | the table of failures | check, record, clear, evict | check and record are apart; a full table | failures are bounded and forgotten in order, although they are entered out of order | `Throttle` |
| **Streaming and transcoding** `streaming/` | an ffmpeg process per stream | decide, range, start, terminate | a decision and a stream request evaluated apart; files edited while sent; disconnects at any moment | bytes announced are bytes sent; no process is left | `Decision`, `Transcoder`, `Streaming` |
| **Sonic analysis** `core/sonic_analysis.py`, `similarity.py` | as the scan job; `track_features` | start, cancel, flush a batch | tracks deleted during the pass; stale cancels | one pass at a time; a complete pass leaves nothing out | `Analysis` |
| **Migrations and start-up** `db/migrations.py`, `main.py`, `cli.py` | schema, `schema_version`, seeds | migrate, seed, serve, refuse | two processes at once; crashes between statements; two dialects | versions tell the schema; seeds are final; the server comes up | `Startup` |
| **Now playing and scrobbling** | a dict under one lock; background tasks | report, expire, submit | lost submissions | play counts are in `Marks` | (`Marks`) |
| **Browser session and views** `frontend/src/auth.ts`, `api.ts`, `views/` | `localStorage` credentials | call, retry once, sign out | many calls in flight when the server restarts | one failure does not end the session | - |
| **Search and browsing**, **remote metadata**, **configuration** | none of their own | read, fetch, parse | - | - | - |

How they interact, where it matters:

- Handlers, the watcher and startup *call* the scan job; maintenance and
  folder deletion *read its flag* and then act without holding its lock.
- The scan *calls* the library scan per folder, then the artwork phase, then the
  collector. The recovery runs beside all three under a lock of its own.
- `tracks` rows *cascade* into playlists, play queues, bookmarks, play counts and
  features. This is why a scan that loses a row for a moment does lasting
  damage, and why `RowsOfPresentFilesSurvive` is among the properties; `UserData`,
  `Player` and `Analysis` have these deletions as steps of their environment.
- The browser player *calls* the play-queue endpoints without ordering its calls.
- The command line *changes* accounts and *migrates* the database behind the back
  of the server, whose caches do not notice.

`PROJECT.json` lists every component with its status, and every hazard of the code
at its line, with the properties that guard against it or the reason none does.

## The modules

    ExclusiveJob  <-- refined by --  ScanJob    <- MCScanJob, ScanJob_proofs
                  <-- refined by --  Analysis   <- MCAnalysis, Analysis_proofs
                                     Library    <- MCLibrary, Library_proofs
                                     Artwork    <- MCArtwork, Artwork_proofs
    Catalogue <- Playlists, Marks <- UserData   <- MCUserData, UserData_proofs
           Decision, Transcoder   <- Streaming  <- MCStreaming, Streaming_proofs
                      PlayQueue   <- Player     <- MCPlayer, Streaming_proofs
                                     Sessions   <- MCSessions, Sessions_proofs
                                     Throttle   <- MCStartup, Sessions_proofs
                                     Startup    <- MCStartup, Startup_proofs

`Sessions_proofs` extends `Throttle` too, which stands in front of the log-ins, and
`Streaming_proofs` extends `Player`, which listens to the streams; `MCStartup` checks
`Throttle` as a second kind of behaviour. The components share nothing; for the sake
of one module around two, `Throttle` and `Player` call their specifications
`ThrottleSpec` and `PlayerSpec`.

`UserData` composes `Playlists` and `Marks` over one `Catalogue` whose rows are
deleted under them; `Player` composes a browser tab with the server's `PlayQueue`;
`Streaming` composes what is decided with the process that delivers it.

The modules of the scanner are cut along the interfaces of the code. `ScanJob`
establishes that there is one scanner thread; `Library` and `Artwork` take that
for granted and each look at what this thread does to one part of the state.
`Artwork` sees of a library scan only that albums gain or lose their tracks
before the artwork phase; `Library` sees of the collector only its cleanup of
albums and artists.

Names ending in `_Something` next to a definition, with a comment "mutant", are
wrong versions of it: a dropped guard, a forgotten reset, a swapped order. No
action uses them. They record which slip of the code each property would notice,
and `PROJECT.json` pairs each property with one that breaks it.

### ExclusiveJob and ScanJob

`ExclusiveJob` is what a background job promises: at most one worker in its body,
and a published flag that is up for as long as one is. `ScanJob` is the code.

| TLA+ | code (`scanner/scanner.py` unless noted) |
|---|---|
| `lock`, `cancel`, `running` | `_lock`, `_cancel_event`, `_progress.running` |
| `wpc[w]`, `left[w]` | where a scanner thread is in `_run_scan` / `_run_scan_inner`, folders left in its loop |
| `rpc[r]` | where a handler (or the watcher) is in the function it called |
| `asked` | history: the event was set since this scan cleared it |
| `StartAcquire`, `StartClear`, `StartSpawn` | `start_scan_async`: non-blocking acquire, `clear()`, thread start |
| `CancelCheck`, `CancelSet` | `cancel_scan`: the read and the write, which are not atomic together |
| `MaintenanceCheck`, `FolderDelete`, `MaintenanceGc` | `api/web.py`: 409 test, delete transaction, `run_gc` |
| `Connect`, `ConnectFails` | `init_thread_connection`, which stands before the `try` |
| `Begin` ... `Release` | raising the flag, listing folders, the loop, the post check, artwork, collection, and the two `finally` blocks in their order |

Each action is one access to a shared global, so every interleaving of the
Python threads at those accesses is explored. What a folder's scan does is one
step here.

### Library

| TLA+ | code |
|---|---|
| `disk[f]`, `clock`, `folders` | files with `(mtime, size)` as a `stamp` and tags; changes so far; `music_folders` |
| `tracks[f]` | the row of a path: `mtime`/`size` as a stamp, and the tags recorded |
| `albums[a]`, `artists[x]` | the row's `track_count` / `album_count`, `None` if there is no row |
| `existing`, `unvisited`, `toParse`, `pending` | the dict `existing` of `_scan_folder`, what the walk has not come to, `to_parse`, `pending` |
| `touched`, `touchedArtists` | `touched_albums`, `touched_artists` |
| `StartScan`, `EnterFolder`, `FoldersDone`, `PostCheck`, `Gc`, `Finish` | `_run_scan_inner` |
| `WalkFile`, `WalkMisses`, `WalkDone` | phase 1: the fast path, files the walker passes over, deletion of rows left over |
| `Collect`, `Commit`, `ParseDone`, `Abandon` | phases 2 and 3: results of the pool, `_commit` with a full or the last batch, cancellation |
| `Aggregate` | phase 4, one transaction: album counts, artist counts, cleanup |
| `FolderFails`, `FolderUnavailable`, `Crash`, `Cancel` | exceptions counted as errors, a missing root, `kill -9`, the cancel event |
| `EditFile`, `RemoveFile`, `AddFolder`, `DeleteFolder` | the file system; the folder endpoints (`api/web.py`) |

The abstractions: a path is a model value under one folder; a tag is an
`[artist, albumArtist, album]` record, names being dedup keys; ids are the keys
themselves; a worker's result that comes early or late is the order in which
`Collect` takes elements of `toParse`; the tags are read at `Collect`, hence
after the stat and possibly after an edit. Music folders are disjoint. An edit
always gives a file a stamp it never had before (see
[what is left out](#what-is-left-out)).

### Artwork

| TLA+ | code |
|---|---|
| `tracked`, `rows`, `art` | albums with tracks, albums with a row, `cover_art_id` / `image_id` |
| `cache`, `broken` | files in the artwork directory; those not written to the end |
| `pc`, `phase`, `targets`, `pending`, `stored`, `cancel` (per job) | `_run_local_artwork_phase` ("scan") and `_run_recover_inner` ("recover"): targets still out, results of a batch without and with their file |
| `gpc`, `stale`, `unswept` (per collector) | `run_gc`, called by a scan or by an administrator: references without a file, names the sweep will remove |
| `Collect`, `ResultsEnd`, `Store`, `Stamp` | a worker's result, the end of the results, `store_artwork` inside `_commit`, the commit of the transaction |
| `StoreFails`, `StampFails` | a failing write (the scan skips the item, the recovery dies of it), a failing transaction |
| `GcCleanup`, `GcMissing`, `GcClear`, `GcSnapshot`, `GcVisit`, `GcDone` | the steps of `run_gc` and of its two artwork sweeps, split where they read and where they act |
| `raced` | history: a sweep has overlapped a batch between its files and its rows, or someone removed a file |

Under SQLite a writing transaction keeps other writers out; under PostgreSQL they
interleave. The model has the interleavings of both.

### UserData

`Catalogue` has the rows everything refers to: accounts, tracks, and which ids were
handed out (`AUTOINCREMENT`). `Playlists` and `Marks` are the tables on top, and
`UserData` adds the deletions, each of which cascades through both in one step.

| TLA+ | code |
|---|---|
| `lists[p].rows`, a function from positions | `playlist_tracks`, keyed by `(playlist_id, position)` |
| `edit[r]` | what `updatePlaylist` / `createPlaylist` with an id has read before its first write: the owner, MAX(position)+1 |
| `ReplaceCheck`, `ReplaceWrite`, `UpdateRead`, `UpdateWrite`, `HeaderRead`, `HeaderWrite` | the two halves of those endpoints. With a new name or comment the first write is that of the header, which locks out other writers, so that the positions are read behind it |
| `InsertFails`, `RenumberFails` | the primary key, and the renumbering by track id that meets itself when a track is there twice; on Postgres (`dialect`) it fails always |
| `stars`, `ratings`, `bookmarks`, `plays`, `stations` | the tables; `Star`, `SetRatingCheck`/`Write`, `CreateBookmarkCheck`/`Write`, ... are the endpoints, split at the look-up |
| `ScrobbleCheck`, `ScrobbleWrite`, `ScrobbleAnswer`, `ScrobbleFails` | look-ups, commit, answer, and a failure between the two last; `reported` and `unanswered` are histories of what was answered ok and what was stored without |
| `CleanupDanglingStarred` | the starred part of `run_gc` |

### Player and PlayQueue

`PlayQueue` is the header row and the entries of one user, with `whole`, a history of
what the save served last said. `Player` is the tab: one
action per user gesture, per event of the audio element, per timer, and per piece
of an asynchronous function between two `await`s.

| TLA+ | code (`frontend/src/player.ts`) |
|---|---|
| `queue`, `index`, `autoplay` | the fields; `index` is one higher than in the code |
| `src`, `playing`, `ticking`, `loaded`, `partway` | the audio element: its source, not `paused`, the position timer, metadata, a `currentTime` above 0 |
| `pending`, `restore` | `pendingRestorePosition`; `restore()` with the server's two reads |
| `refill`, `ended` | `refillPromise` with the ids it excluded; `ended` handlers that wait for it |
| `saves` | requests of `save()` on their way, served in any order or lost |
| `Reload` | `pagehide`, and a new page |

`Kept(q, S)`, what is left of a queue of which some tracks are gone, is a recursive
function rather than the library's `SelectSeq`, which tlapm cannot expand.

Assigning `audio.src` pauses the element without a `pause` event, so that the timer
of the track before may go on; the model has that.

### Sessions and Throttle

`Sessions` splits the three ways in at their reads: the row, the cache, the lazy
encryption, the comparison; a password change through a JWT at the fetch by id
(`deps.py`), the fetch by name with the check of the current password (`web.py`), the
transaction and the cache. It starts with any accounts that have no encrypted copy:
the seeded administrator and those from before copies were kept. The account
endpoints and the command line change rows in between, a `Restart` empties the cache
and may bring a new secret. `ever`, and of a row `past`, `cli` and `overtaken`, are
histories: the passwords set for a name and for the row, and whether the latest came
from the command line or fell between the two halves of a log-in.

`Throttle` keeps a failure as its age, in the order recorded. Each request reads the
clock and takes the lock in two steps, up to `DELAY` ticks apart, so that failures are
entered out of order; requests overlap between `is_blocked` and `record_failure`; and
what has expired is dropped as `_trim` does it, from the front.

### Decision, Transcoder and Streaming

`Decision` has two independent computations of the code as operators: what
`stream` serves (`presets.py`, `streamer.py`) and what `getTranscodeDecision` announces
(`decision.py`). Bit rates are in kbit/s, but what clients declare is in bit/s, as in
the code, with the conversion. `Transcoder` is one ffmpeg with its two pipes, the generator, the
stderr task and the reaper; ffmpeg may ignore SIGTERM, and the client may hang up
wherever the generator stands. `Streaming` puts them together with the handlers, byte
ranges, and the body of a raw stream that is read while the file is edited.

### Analysis

The frame is that of a scan (`lock`, `cancel`, `progress`, where threads and handlers
are); the body takes its targets, takes results in any order, writes batches of
`_WRITE_BATCH`, and fails on a track that a scan has deleted.

### Startup

`db` is what is committed: versions, schema parts, accounts, folders; `draft` is what
the writing process sees. A statement on SQLite that is no `INSERT` commits at once,
because Python's driver opens a transaction only there; on Postgres `transaction()`
covers all. The initial databases are empty ones, those of every earlier release, and
one from before the first sixteen versions were folded into `schema.sql`.

## Runs

The runs by component; what is said to hold was checked over all reachable states
of the instance. Type invariants and the mutual exclusion of scans are proved and
not run again. Every invariant and action property named here is also proved
([Proofs](#proofs)); what ends, converges or comes up is checked by TLC alone.

- `ScanJob` (38 thousand states): two scanner threads, three handlers, connections and
  queries that may fail. A scan goes without artwork and collection exactly if the
  event was set between its own `clear()` and its last look at it
  (`CancelsAreObeyed`): none left over from before is served to it, none set during it
  is lost. That a `cancel_scan` which *read the flag* during the scan before may set
  the event now is part of the code's behaviour (observation 2), and of the property.
  Scans refine `ExclusiveJob` (`ImplementsExclusiveJob`): one at a time, under the
  flag. The order of the two `finally` blocks (flag before event before lock) and the
  `clear()` after the acquire are what all this rests on. Only the two failures outside
  of the `try` blocks leave the lock or the flag behind, and but for those every scan
  ends and gives both back (`ScansEnd`, of which `LocksAreNotLost` and
  `FlagsAreNotLost` are parts).
- `Library_safety`: one folder, two files, a guest artist on another's album,
  two changes to the disk at any moment, one fault of any kind. The fast path is
  sound (`StampedRowsAreCurrent`), references survive both cleanups
  (`ReferencesHold`), and after phase 4 nothing empty is left and the counts of
  albums are exact (`AggregatedCountsExact`).
- `Library_convergence` (1.4 million states): three files in two folders that come and
  go, batches of two with a partial last one, one fault of any kind (a miss, an
  unreadable file, a failed statement, a cancel, a crash). A row goes only with its
  folder, or by the walk of its own folder that came to its path and saw no file
  (`RowsOfPresentFilesSurvive`), in disturbed scans as in others; an undisturbed scan
  mirrors the disk, with no batch lost (`CleanScanMirrorsDisk`), and the tracks table
  ends up doing so whatever went wrong (`LibraryConverges`).
- `Artwork_repair`: a scan, a recovery and two collectors over one directory with
  one fault of any kind and three changes. `CoversHaveFiles` holds as long as no
  sweep has overlapped a batch. `ArtworkConverges` holds even then: the next scans
  find the reference without its file, clear it, and extract again, and what is left
  in the end beside the covers is artist photos at most. It says nothing of files that
  were written by half, nor of photos whose file went (observations 5 and 6).
- `UserData` (2.3 million states): two requests in flight against one of the tables
  while tracks and accounts are deleted. Nothing dangles where there are foreign
  keys (`NoDanglingRows`); ids are not reused, so nothing meets the wrong row
  (`IdsKeepTheirMeaning`, `OnlyTheEntitledEdit`); the plays stored are those answered
  ok, those of requests about to answer, and those of requests that failed after their
  commit (`PlaysMatchTheAnswers`); edits of playlists keep what they do not name
  (`AddsKeepEntries`, `RemovalsCloseGaps`). Playlists are on either dialect.
- `Player` (1.7 million states): one tab with two gestures or reloads, one lost
  request, one save of another client or deletion, starting from any stored queue.
  What is shown is what the element was given (`PlaysWhatIsShown`); entries, current
  track, place and, after a save by index, the index stored are of one save, less
  deletions (`StoredQueueIsOneSave`); a track that ended at the tail never waits for a
  refill that is not under way (`EndedTracksAwaitAnAnswer`); a tab that keeps playing is
  saved in the end, unless its queue holds a deleted track (`PlayingIsSaved`).
- `Sessions` (0.6 million states): one name given to two accounts in turn, two
  passwords, two requests. Hash and encrypted copy agree but for changes of the command
  line and those that fell between a log-in's read and its storing the copy
  (`EncFollowsHash`), the cache holds no password nobody set (`KnownPasswordsOnly`),
  who is about to change a password through a JWT gave one the row has had
  (`ChangesKnowThePassword`), who was disabled before a request began is not let in
  (`AdmittedWereEnabled`).
- `Sessions_copies`: violated, see [below](#where-code-and-comments-disagree).
- `Streaming` (0.4 million states): four policies, four tracks and three clients. A
  stream with the parameters of a decision has the codec announced, at a rung beside
  the bit rate announced or the server's lower ceiling, or is the file as it is where
  that has both (`DecisionIsHonoured`); no transcoded stream exceeds a ceiling by more
  than the rounding to the next rung, requests for a bit rate of 0 excepted
  (`ServedWithinCeilings`); ranges are parts (`PartialsAreParts`) and raw bodies match
  their headers (`BodiesMatchHeaders`). In the second workload one stream is followed
  to its end: every process has an owner or one reaper (`ProcessesAreOwned`), and
  streams and processes end (`StreamsAndProcessesEnd`).
- `Analysis` (0.3 million states): passes over three tracks, one undecodable, in batches
  of two. A pass that was neither cancelled nor failed leaves nothing out
  (`CompletePassLeavesNothingOut`) and its counts add up; passes refine
  `ExclusiveJob` (`ImplementsExclusiveJob`) and end (`PassesEnd`).
- `Startup` (0.1 million states): server and command line migrate one database of
  any age, on either dialect, with up to two crashes. The recorded versions tell
  what is in the schema, on Postgres nothing is half applied, and only a migrated
  database is served, but for one from before the squash (`VersionsTellTheSchema`); what
  was seeded is not seeded again (`SeedsAreFinal`); and the server comes up unless a
  migration was interrupted on SQLite (`ServerComesUp`). In its second workload two
  log-ins overlap on the throttle: the budget is exceeded by no more than the requests
  in flight (`BudgetHolds`), a full table drops no key while it keeps one whose failures
  are all older by more than the wait for the lock (`ForgetsOldestFirst`), and everyone
  gets another chance (`AnotherChance`).
- `Startup_interrupted`: violated, see [below](#where-code-and-comments-disagree).

## Bounds

Every bound is a constant or is named where it is declared.

| bound | value | why it is enough |
|---|---|---|
| `Workers`, `Requests` | 2, 3 (2 in `Analysis`) | a third thread could only exist after two; three handlers are one starting, one cancelling, one in maintenance. For `ScanJob` the theorems lift the bound. |
| `MaxFolders` (`ScanJob`) | 2 | the loop's body is the same for each folder; two give a cancel between them |
| `Files` | 2 (3 with two folders) | one file that stays and one that goes share or leave an album; a full batch and a partial one |
| `MaxClock` | 2 (1 with two folders) | one edit between stat and read, and one during the next scan |
| `BatchSize`, `_WRITE_BATCH` | 1 or 2 | 1 makes each record a transaction; 2 makes the last batch partial |
| `MaxFaults` | 1 | each run offers faults of every kind |
| `Albums`, `Images` (`Artwork`) | 2, 2 | an album with art and one without, or two discs with one picture |
| `MaxChanges` (`Artwork`) | 3 | a recovery, a collection by hand and an album coming or going |
| `Accounts`, `TrackIds`, `Editors` (`UserData`) | 2, 2, 2 | an administrator and another; a track that stays and one that goes; two requests that overlap |
| `MaxLists`, `MaxPosition` | 2, 2 | a list deleted and one created after it; three entries make a gap in the middle and a duplicate |
| `MaxPlays`, `MaxStations` | 2, 2 | a track twice in one scrobble; a station deleted and one created after it |
| `MaxClicks`, `MaxOthers`, `MaxLost` (`Player`) | 2, 1, 1 | a gesture during the restore or a refill and one after it, or a reload after a gesture; one disturbance from outside |
| `MaxQueue`, `MaxSaves`, `REFILL_WHEN_REMAINING` | 4, 2, 0 | two albums of two; a save that overtakes another; a refill at the last track stands for one two tracks earlier |
| `MaxAccounts`, `Names`, `Passwords` (`Sessions`) | 2, 1, 2 | a name that is deleted and given again; an old and a new password |
| `MAX_FAILURES`, `WINDOW`, `DELAY`, `_MAX_KEYS` | 1, 1, 1, 2 with 3 keys | a budget that overlapping requests can exceed, one tick inside the window and one beyond, failures entered out of order, a table that overflows |
| `Chunks`, `ErrorLines` (`Transcoder`) | 2, 2 | a pipe that is full and one more unit; both pipes block |
| `MCPolicies`, `MCSources`, ... | 3-5 each | each value takes a branch of its own: below, between and above the rungs, below 1 kbit/s, absent, raw, with and without a ceiling |
| `MaxCrashes` (`Startup`) | 2 | one in a migration and one in the start that should repair it |

`FileSymmetry` permutes files of the same folder, `MCSymmetry` requests and
passwords; they are used only in runs without liveness properties. In
`MCUserData`, `MCStreaming` and `MCStartup` a variable `workload` picks one kind of
traffic per behaviour: the tables of `UserData` share nothing but the catalogue, and
migrations share nothing with the throttle.

`CHECK_DEADLOCK` is off in three runs: in `UserData` and `Player` because the
bounds on requests and gestures end a behaviour, in `Analysis` because a pass whose
connection failed really keeps its lock for good.

## Fairness

- `ScanJob`, `Analysis`: weak fairness of each background thread and of a handler
  that has begun (`Handle`). No fairness of calls: nobody has to start or cancel
  anything. The operating system schedules the threads; no step of them waits for
  anything but the database and the pool.
- `Library`: weak fairness of `Scan`, the disjunction of the scanner's own steps
  *and of the start of a scan*. The latter is the watcher's interval
  (`scanner_watch_enabled`, off by default) or users who go on rescanning; the
  convergence property says nothing of a server nobody ever asks to scan again.
  Faults, edits and cancels get none. Which file or result is next is not fair
  either, but each can be taken only once.
- `Artwork`: weak fairness of the scan with its artwork phase and collection (as
  above), of a recovery that has begun and of a collection that has begun.
- `Throttle`: time passes, and who waits for the lock gets it. No client has to answer,
  stop or start.
- `Transcoder`: ffmpeg, the event loop and its tasks get on, and a connected client
  takes what it is sent; a client that hangs up needs to do nothing.
- `Player`: answers to `restore` and to refills come, the timer ticks, and of the saves
  on their way one is served, again and again; any one of them may be late for
  ever. `MaxLost` bounds what is lost.
- `Startup`: a started process gets on, and the service manager restarts the server
  (`deploy/muse.service`, `docker-compose.yml`).

## Proofs

All are for every value of the constants allowed by the modules' assumptions: any
number of threads, handlers and clients, any sets of files, tags, accounts and
tracks, any batch size, table size and budget of faults. The assumptions say that
bounds are numbers, that batches and tables are not empty, that values standing
for "none" are none of the others, that the two processes of `Startup` are two and
that inputs have the shape the routes give them (`StreamingAssumption`). Each
component has an inductive invariant, `IInv` (`LogInv` for `Throttle`, `TabInv` for
`Player`), from which the others follow.

**ScanJob_proofs.** `TypeCorrect`, `ScansExcludeEachOther`, `FlagIsAccurate`,
`CancelsReachTheScan` (`CancelsAreObeyed`), `MaintenanceIsGuarded`,
`RefinesExclusiveJob`. Mutual exclusion is
not inductive: a handler between acquire and spawn already stands for a thread.
`SlotInv` says that the lock is held whenever a *slot* is taken, a slot being
either a live thread or such a handler, and that there is only one. `CancelInv`
says that from `StartClear` to the scan's last look the event is set exactly if it was
set since: the `clear()` of the scan before cannot fall there, since that scan still
holds the lock. The refinement maps the workers in the body and the
flag to `ExclusiveJob`'s variables; each step is a `Start`, a `Leave`, a `Retract`
or a stutter.

**Library_proofs.** `TypeCorrect`; `IncrementalScanIsSound`
(`StampedRowsAreCurrent`); `ReferencesPreserved` (`ReferencesHold`); `RowsAreKept`
(`RowsOfPresentFilesSurvive`). `StampInv` is the argument for the fast path: no
stamp on disk, in a row, in `toParse` or in `pending` is younger than the clock,
so an edit makes all of them outdated at once, and a record that is read after
an edit carries the stamp from before it; such a row is parsed again rather than
trusted. This is why the row must be given the stamp of the walk and not one
taken at commit time. `ReferencesHold` is inductive given that the statements
preserve references between *any* three tables (`CleanupKeepsReferences`,
`CommitKeepsReferences`, `RecountKeepsRows`), which are lemmas on the operators.
`WalkInv` says of any walk that a row still listed for a path already passed is
one whose file the walk did not see.

`CleanScanIsExact` (`CleanScanMirrorsDisk`) rests on `ScanInv`: in a scan nothing
disturbed, each file of a configured folder is recorded with its stamp or is still
on its way (its folder to come, its path not visited, its row to be deleted, in
`toParse`, in `pending`), what is on its way carries the stamp of the disk, and
between phases nothing is on its way (`PhaseInv`), so that a last batch that was
not committed would show. `CleanScanIsTidy` says that such a scan leaves no empty
album or artist, for any number of folders. `CountsAreExact`
(`AggregatedCountsExact`) is for one folder, as the property is: `CountInv` says
that each row is of an album that phase 4 will recount. With two folders it is
false: one may come to phase 4 while the other only loses files and returns before
it (observation 3).

**Artwork_proofs.** `TypeCorrect` and `CoversKeepFiles` (`CoversHaveFiles`).
`RowsInv` says that albums without a row have no cover, `JobInv` where the
batches of a job and the lists of a collector can be non-empty. `CacheInv` holds
until `raced`: covers have their files, so do the stored parts of batches
(`BatchFiles`), and the names a sweep has still to visit are no one's cover
(`SweepsAreSafe`), because only a batch could have stored such a cover since the
sweep read the references, and that would have been an overlap.

**Analysis_proofs.** `TypeCorrect`; `CompletePassIsComplete`
(`CompletePassLeavesNothingOut`); `OnlyAFailedConnectionLosesTheLock`
(`LocksAreNotLost`, a safety part of `PassesEnd`); `RefinesExclusiveJob`
(`ImplementsExclusiveJob`), along the argument of `ScanJob_proofs`. `PassInv` relates
the counters to the targets: what was counted, what is in the batch and what is still
out make up the total, so that a batch dropped at the end would leave a gap.

**UserData_proofs.** `TypeCorrect`; `RowsReferToRows` (`NoDanglingRows`);
`PlaysAreAccountedFor` (`PlaysMatchTheAnswers`); `NoIdChangesHands`
(`IdsKeepTheirMeaning`); `EditsAreTheOwners` (`OnlyTheEntitledEdit`);
`AddingKeepsTheRest` (`AddsKeepEntries`); `RemovingClosesTheGaps`
(`RemovalsCloseGaps`). `ListInv` and `MarkInv` say that rows, and what a request in
flight remembers, refer to ids that were handed out; since ids are not used again, a
look-up before a deletion meets the same row after it or none. The lemmas on
positions (appending behind a maximum read earlier, renumbering by rank) are what the
last two need. `CountInv` counts, for each account and track, the requests between
their commit and their answer: what such a request will report when it answers is what
it has stored.

**Sessions_proofs.** `TypeCorrect`; `CopiesAgree` (`EncFollowsHash`);
`OnlyKnownPasswords` (`KnownPasswordsOnly`); `ChangersKnewThePassword`
(`ChangesKnowThePassword`); `NobodyOffIsAdmitted` (`AdmittedWereEnabled`). `RequestInv`
says what each request may still believe of a row it has read: it may be out of date,
but `Evolves` (accounts keep their name, and a touch of the command line is never
undone) is how far. `CopiesAgree` has rows without a copy among its cases: what a
log-in is about to store there agrees with the hash unless the password was changed
behind its read, and then the row is `overtaken`. About `Throttle`: `BudgetsHold`
(`BudgetHolds`), by the invariant
that failures on record *and* requests let in are no more than the budget plus
the other callers, and `OldestAreForgottenFirst` (`ForgetsOldestFirst`), by bounding
how far the entries of a key can be out of order: none is older by more than `DELAY`
than one entered before it.

**Streaming_proofs.** `TypeCorrect`; `ProcessesStayOwned` (`ProcessesAreOwned`);
`PartialsStayParts` (`PartialsAreParts`); `BodiesKeepTheirPromise`
(`BodiesMatchHeaders`); `CeilingsHold` (`ServedWithinCeilings`); `DecisionsAreHonoured`
(`DecisionIsHonoured`). The last two compare what `Decision` announces with what
`Streaming` serves to a request with the parameters announced: the rung is within one
step of every ceiling because `Snapped` takes the nearest rung on either side of it.
`OnTrack` relates what a body has sent to the
headers of its response. About `Player`: `ShownIsPlayed` (`PlaysWhatIsShown`),
`StoredIsOneSave` (`StoredQueueIsOneSave`), `NoTrackWaitsInVain`
(`EndedTracksAwaitAnAnswer`). `ServerInv` says that entries and header are the last save
with what was deleted since taken out, `ElementInv` that the source is the track shown,
`WireInv` that only whole
queues travel. What `Kept` computes is defined by recursion over a queue; its
facts (`KeptIs` to `KeptTwice`) are proved by a least counterexample among the
naturals, which needs no induction theorem.

**Startup_proofs.** `TypeCorrect`; `VersionsAreTheSchema` (`VersionsTellTheSchema`);
`SeedsStayFinal` (`SeedsAreFinal`). `IInv`, for databases other than those from before
the squash, which are proved to stay as they are: the committed versions are an initial
segment whose schema is there, on SQLite possibly with statements of an interrupted
migration besides; the draft differs from it by what the writer's place says
(`DraftSound`); and each process is where the database lets it be (`InPlace`).

**Model-checked only.** Liveness (`ScansEnd`, `LibraryConverges`, `ArtworkConverges`,
`PassesEnd`, `AnotherChance`, `StreamsAndProcessesEnd`, `ServerComesUp`, `PlayingIsSaved`): it
rests on fairness and `ENABLED`, which are beyond these provers. No invariant or
action property of a passing run is without its theorem. No module declares a
`RECURSIVE` operator, so that all of them stay open to proof.

## Where code and comments disagree

Two have a run with a trace, and `PROJECT.json` quotes the lines.

*On SQLite an interrupted migration does not roll back* (`Startup_interrupted`).
`db/migrations.py` 326-328 says that a partial failure rolls back cleanly. Python's
driver opens no transaction for DDL, so an `ALTER TABLE` stays when the process dies
before the row of its version is inserted. In the trace one start adds a column and is
killed; the next runs the same migration and fails on the duplicate column, as would
every later one. Killing the server once during an upgrade is enough.

*The encrypted copy does go stale* (`Sessions_copies`). `core/auth.py` 233-236 says
that it never does once it is set, since a password change has its own update path. In
the trace a log-in to an account without a copy (the seeded administrator, or one from
before copies were kept) verifies the old password against the row it read; the
password is changed, which writes hash and copy; and the log-in then stores the old
password as the copy. Token log-ins that find memory cold are held against it from
then on, and no later log-in repairs it.

The others were found in the same way; the models have the behaviour, and their
properties are stated so as to except it.

Scanner:

1. *Maintenance and scans do run together.* `api/web.py` 684-698: the folder-delete
   and maintenance handlers test the flag and go on without the lock, so a scan
   can start behind the test. `MaintenanceBeginsOutsideScan` is what remains, and is
   proved (`MaintenanceIsGuarded`).
2. *A cancel can reach the scan after the one it was meant for.* `cancel_scan` and
   `cancel_analyze` read the flag and set the event later (`scanner.py` 365-367); between
   the two the scan may have ended and the next may have begun. Besides, *the flag can
   stay up* (`scanner.py` 419: `list_music_folders` stands between `running=True` and
   the `try` that lowers it), and *the lock can stay taken* (`init_thread_connection`,
   before the `try` of `_run_scan`, of `_run_recover` and of `sonic_analysis._run`,
   whose docstring says "always release the lock").
3. *Counts do not follow deletions.* A scan that only removes files returns
   before phase 4 (`scanner.py` 647); an album that lost one of two tracks goes on
   showing two, until some later scan parses a file of that folder.
4. *A cancelled scan can hide an artist for good.* The batch is committed, phase 4
   is skipped (`scanner.py` 799), later scans skip the files and recount albums
   only: the new artist keeps `album_count = 0`, and the index lists artists
   with a positive count.
5. *Collections delete artist photos*, which `scanner.py` 284-290 caches in order to
   have them at the next scan. The orphan sweep (`maintenance.py` 334) spares
   what albums refer to; photos live in the same directory, and their rows, which
   keep the id, are never looked for again.
6. *A failed write is never repaired.* `artwork.py` 64 writes to the final name, and
   both `store_artwork` and the sweep for missing files only ask whether the file
   exists. `ArtworkConverges` says nothing of such files, nor of photos.
   *Rows of files that are present are deleted*: a walk that cannot list a directory
   (`walker.py` 114) or whose `stat` of a file fails passes over what is there, and
   `scanner.py` 632 takes it that what is left in `existing` "no longer exists on disk".
   Playlist entries, plays and bookmarks go with the rows.
   `RowsOfPresentFilesSurvive` states how far it goes.

User data:

7. *A playlist with a track twice cannot be shortened.* Renumbering
   (`queries.py` 657) goes by track id, and with a duplicate among the entries left it
   fails on the primary key. On Postgres every removal fails: rows are dicts
   there, and the code unpacks them as tuples (`RenumberFails`, with `dialect`).
8. *An index is not always a position.* Deleted tracks leave gaps, and
   `songIndexToRemove` is taken for a position: it then names another entry or
   none, until a removal has closed the gaps.
9. `star` looks nothing up: a star for an id that was never handed out stays until
   the next collection.
10. *`savePlayQueue` keeps the index of the queue before* (`queries.py` 736). The
    fallback of `getPlayQueueByIndex` (`play_queue.py` 150-153), which is there for
    queues saved that way, is only reached when no queue was ever saved by index.
    A deleted track shifts the entries under the stored index as well.
    `StoredQueueIsOneSave` holds the index to the save only where that was by index.
    *A scrobble that failed may have counted*: `annotation.py` 155-163 commits, and what
    follows can still fail the request; a client that retries counts twice.
    `PlaysMatchTheAnswers` has such plays as `unanswered`.

Accounts:

11. *The encrypted copy goes stale in a second way*: `cli.py` 72-80
    changes the hash alone, and token log-ins then go on with the old password.
    `EncFollowsHash` excepts accounts whose latest password came from the command line
    and those overtaken as in `Sessions_copies`.
12. *The memory cache is not told of changes.* A change by another endpoint than the
    web one leaves the old password in `_last_plaintext`, and a token request that
    has read the row before a change may put it back. It is a cache for token
    comparison, hence until the next restart the old token works and the new one
    does not. It also outlives the deletion of a name that is then given again.
13. `jwt_admin` believes the token: a user who was demoted stays an administrator
    until it expires. A new `secret_key` makes `encrypted_password` unreadable for good.

Streaming:

14. *Transcodes are not always clamped.* `streamer.py` 29-30 says they are clamped to
    `max_streaming_bitrate`; `presets.py` 118 then takes the *closest* rung, which may
    lie above: with a maximum of 100, a stream is served at 128. `maxBitRate=0` evades
    the maximum altogether, since `presets.py` takes the default in its place. A
    client's ceiling below 1 kbit/s is announced as 1 kbit/s (`decision.py` 448). A
    default format that is not supported, such as `ogg`, is served as it is, whatever the
    ceilings. `ServedWithinCeilings` is what holds of transcodes.

    *A stream is not always what was decided*, though `decision.py` 456-458 says that
    the parameters request "exactly the target we just chose": opus announced at 96 is
    served at 128, and a client that is told to transcode to mp3, because it accepts
    160 at most, gets the mp3 file of 170 as it is, as re-encoding at the announced 170
    would not shrink it. `DecisionIsHonoured` is what holds.
15. A `timeOffset` past the end of the track is announced with a negative or empty
    range; a file edited between the headers and the body is sent shorter than
    announced.

Analysis and player:

16. One deleted track makes its whole batch of 50, and the pass, fail; the next pass
    starts over with what is left. Features of a file whose audio changed are kept.
17. *The answer of `restore` wins.* A queue the user starts while the saved one is
    fetched plays, is not saved (`suppressSave`), and is then replaced.
    `pendingRestorePosition` is applied to whichever track loads its metadata next.
18. An `ended` handler that waits for a refill goes one track on from where the user
    has gone meanwhile, also in a queue that replaced the one that ended.
19. A queue that holds a deleted track cannot be saved any more: every save fails
    on the foreign key until the user starts another one (`PlayingIsSaved` excepts it).

Start-up and throttle:

20. *A database from before the squash is taken for a newer one.* Versions were
    renumbered when sixteen migrations were folded into `schema.sql` (`migrations.py`
    16-21): one that recorded 16 counts as past all that followed, and is served
    without what they add. `VersionsTellTheSchema` excepts it.
21. *Failures are entered out of order.* `throttle.py` 65 reads the clock before the
    lock of 67, and `_trim` and the eviction look at the ends of the list only.
    `ForgetsOldestFirst` allows for the wait.

## What is left out

- Two edits of a file within one second that keep its size have the same stamp,
  and the second is never seen: stamps are whole seconds. The models give each
  edit a stamp of its own, so their results are for edits a second apart.
- Overlapping music folders, symbolic links, MusicBrainz ids, genres, the
  full-text index: `FolderOf` is a function, tags are three names.
- A folder deletion in the middle of a scan: `Library` deletes folders only while
  no scan runs, and the race is observation 1.
- Wrong tags that a failed read leaves under a valid stamp are allowed for
  explicitly (`ToldOf`): the code keeps them until the file changes.
- Resized images (`resize_cached`); the fields of playlists that are not entries;
  stars and ratings of albums and artists, which take the same code as tracks'.
- Roles, and administrators as accounts that can be deleted (`Sessions`); the outside
  half of scrobbling: submissions to Last.fm and ListenBrainz are fired and
  forgotten. Now playing is one dictionary under one lock.
- Two saves of one user's play queue that overlap on Postgres: the model's saves are
  one transaction each, as SQLite orders them.
- The browser's session (`api.ts`): a request that fails after a restart warms the
  cache and is retried once, while others in flight sign the user out. The views
  render query results.
- Feature vectors and their distances (floating-point), ffmpeg's command line,
  codecs' other limitations, the SQL translation for Postgres, HTTP clients,
  read-only queries, formatting and the installer: nothing in them has a state a
  model could add something to.

## Plan

1. Proofs: the safety parts of the liveness properties, as was done for `LocksAreNotLost`:
   what a scan that ended has given back, which steps bring a repaired reference
   closer, what a process that has ended leaves running.
2. `ScanJob` and `Library` composed for observation 1; resized artwork; the browser's
   session on top of `Sessions`.

## How to run

    tlc -workers 2 -config Library_safety.cfg MCLibrary
    tlapm Library_proofs.tla

The configuration of a run is named after it; `PROJECT.json` gives its module.
