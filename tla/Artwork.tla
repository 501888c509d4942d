------------------------------- MODULE Artwork -------------------------------
(***************************************************************************)
(* The artwork cache: a directory of image files named by their hash, and  *)
(* the columns albums.cover_art_id and artists.image_id that refer to them.*)
(*                                                                         *)
(* Two background jobs put files into the directory and then stamp rows:   *)
(* the artwork phase of a scan (_run_local_artwork_phase) and the recovery *)
(* sweep (_run_recover_inner), each under a lock of its own. The collector *)
(* (run_gc) takes files out: at the end of a scan, or for an administrator *)
(* who found no scan running. No lock keeps it apart from the recovery.    *)
(***************************************************************************)
EXTENDS Integers, FiniteSets

CONSTANTS Albums, Artists,
          Images,       \* file names: hashes of the bytes
          LocalArt,     \* embedded or folder art of an album
          WebArt,       \* what Deezer has for an album or artist
          None,
          BatchSize,    \* max(50, settings.scanner_batch_size)
          FaultKinds,   \* which faults the environment may cause
          MaxFaults,    \* bound: how many of them
          MaxChanges    \* bound: library changes, recoveries, collections asked for

Owners == Albums \cup Artists
Jobs == {"scan", "recover"}
Collectors == {"scan", "admin"}

ASSUME ShapeAssumption ==
    /\ None \notin Images
    /\ Albums \cap Artists = {}
    /\ LocalArt \in [Albums -> Images \cup {None}]
    /\ WebArt \in [Owners -> Images \cup {None}]
    /\ BatchSize \in Nat \ {0}
    /\ MaxFaults \in Nat /\ MaxChanges \in Nat
    /\ FaultKinds \subseteq {"miss", "disk", "db", "rm", "cancel", "crash"}

VARIABLES
    tracked,   \* albums that have a track
    rows,      \* albums that have a row
    art,       \* cover_art_id of an album, image_id of an artist
    cache,     \* files in the directory
    broken,    \* those of them that were not written to the end
    pc,        \* where each job is
    phase,     \* what the job is after: album covers or artist photos
    targets,   \* owners whose art it has still to look for
    pending,   \* <<owner, image>> found, file not stored yet
    stored,    \* <<owner, image>> whose file is there, row not stamped yet
    cancel,    \* the job's cancel event
    gpc,       \* where each collector is
    stale,     \* references it has found without a file
    unswept,   \* names it will remove: those it read no reference to
    faults, changes,
    raced      \* history: a sweep met a batch in the making, or an outsider
               \* removed a file

libVars == <<tracked, rows, art>>
jobVars == <<pc, phase, targets, pending, stored, cancel>>
gcVars  == <<gpc, stale, unswept>>
vars == <<libVars, cache, broken, jobVars, gcVars, faults, changes, raced>>

Found == Owners \X Images

TypeOK ==
    /\ tracked \subseteq Albums /\ rows \subseteq Albums
    /\ art \in [Owners -> Images \cup {None}]
    /\ cache \subseteq Images /\ broken \subseteq cache
    /\ pc \in [Jobs -> {"idle", "extract", "store", "gc"}]
    /\ phase \in [Jobs -> {"albums", "artists"}]
    /\ targets \in [Jobs -> SUBSET Owners]
    /\ pending \in [Jobs -> SUBSET Found]
    /\ stored \in [Jobs -> SUBSET Found]
    /\ cancel \in [Jobs -> BOOLEAN]
    /\ gpc \in [Collectors -> {"idle", "cleanup", "missing", "clear",
                               "snapshot", "sweep"}]
    /\ stale \in [Collectors -> SUBSET Images]
    /\ unswept \in [Collectors -> SUBSET Images]
    /\ faults \in 0..MaxFaults /\ changes \in 0..MaxChanges
    /\ raced \in BOOLEAN

\* A library before its first artwork phase.
Init ==
    /\ tracked = Albums /\ rows = Albums
    /\ art = [o \in Owners |-> None]
    /\ cache = {} /\ broken = {}
    /\ pc = [j \in Jobs |-> "idle"]
    /\ phase = [j \in Jobs |-> "albums"]
    /\ targets = [j \in Jobs |-> {}]
    /\ pending = [j \in Jobs |-> {}]
    /\ stored = [j \in Jobs |-> {}]
    /\ cancel = [j \in Jobs |-> FALSE]
    /\ gpc = [g \in Collectors |-> "idle"]
    /\ stale = [g \in Collectors |-> {}]
    /\ unswept = [g \in Collectors |-> {}]
    /\ faults = 0 /\ changes = 0 /\ raced = FALSE

\* mutant: joined with the tracks, as the jobs' own queries are
Referenced_Tracked == {art[a] : a \in rows \cap tracked} \ {None}

\* _referenced_cover_art_ids: albums only.
Referenced == {art[a] : a \in rows} \ {None}

Unbacked_None == {}       \* mutant: missing files are not looked for
Unbacked == Referenced \ cache

\* A sweep is under way while a batch is between its files and its rows.
Overlap == /\ \E g \in Collectors : gpc[g] = "sweep"
           /\ \E j \in Jobs : pc[j] = "store"
Watch == raced' = (raced \/ Overlap')

Fault(kind) == /\ kind \in FaultKinds
               /\ faults < MaxFaults
               /\ faults' = faults + 1

Change == /\ changes < MaxChanges
          /\ changes' = changes + 1

-----------------------------------------------------------------------------
(* The two jobs *)

MissingCovers == {a \in rows \cap tracked : art[a] = None}
MissingPhotos == {x \in Artists : art[x] = None}

\* The artwork phase of a scan; without targets the scan goes on to collect.
ScanBegins ==
    /\ pc["scan"] = "idle"
    /\ targets' = [targets EXCEPT !["scan"] = MissingCovers]
    /\ IF MissingCovers = {}
       THEN /\ pc' = [pc EXCEPT !["scan"] = "gc"]
            /\ gpc' = [gpc EXCEPT !["scan"] = "cleanup"]
       ELSE /\ pc' = [pc EXCEPT !["scan"] = "extract"]
            /\ UNCHANGED gpc
    /\ UNCHANGED <<libVars, cache, broken, phase, pending, stored, cancel, stale,
                   unswept, faults, changes>>
    /\ Watch

\* The handler, start_recover_artwork_async and the first query. The handler
\* wants no scan at this moment; one may start at the next. Without an album to
\* look for, the sweep ends at once, artist photos or not.
RecoverBegins ==
    /\ pc["recover"] = "idle" /\ pc["scan"] = "idle"
    /\ MissingCovers # {}
    /\ Change
    /\ targets' = [targets EXCEPT !["recover"] = MissingCovers]
    /\ pc' = [pc EXCEPT !["recover"] = "extract"]
    /\ UNCHANGED <<libVars, cache, broken, phase, pending, stored, cancel, gcVars,
                   faults>>
    /\ Watch

\* Local art first; only the recovery asks Deezer.
Source(j, o) ==
    IF o \in Albums /\ (j = "scan" \/ LocalArt[o] # None)
    THEN LocalArt[o]
    ELSE WebArt[o]

HasArt(i) == i # None

\* What a worker returns when it cannot read the local file, or Deezer does not
\* answer: nothing, or in a recovery what Deezer has.
Misread(j, o) == {None} \cup (IF j = "recover" THEN {WebArt[o]} ELSE {})

\* A worker's result arrives.
Collect(j, o) ==
    /\ pc[j] = "extract" /\ ~cancel[j]
    /\ o \in targets[j]
    /\ targets' = [targets EXCEPT ![j] = @ \ {o}]
    /\ \E i \in Images \cup {None} :
          /\ \/ i = Source(j, o) /\ UNCHANGED faults
             \/ i \in Misread(j, o) /\ Fault("miss")
          /\ pending' = [pending EXCEPT ![j] =
                            @ \cup (IF HasArt(i) THEN {<<o, i>>} ELSE {})]
    /\ pc' = IF Cardinality(pending'[j]) >= BatchSize
             THEN [pc EXCEPT ![j] = "store"] ELSE pc
    /\ UNCHANGED <<libVars, cache, broken, phase, stored, cancel, gcVars, changes>>
    /\ Watch

\* How a job ends: a scan goes on to collect.
Leave(j) ==
    /\ targets' = [targets EXCEPT ![j] = {}]
    /\ phase' = [phase EXCEPT ![j] = "albums"]
    /\ cancel' = [cancel EXCEPT ![j] = FALSE]
    /\ IF j = "scan"
       THEN /\ pc' = [pc EXCEPT ![j] = "gc"]
            /\ gpc' = [gpc EXCEPT !["scan"] = "cleanup"]
       ELSE /\ pc' = [pc EXCEPT ![j] = "idle"]
            /\ UNCHANGED gpc

\* All results are in, or the job was cancelled; what is pending is committed
\* all the same. The recovery then turns to the artists, unless cancelled.
ResultsEnd(j) ==
    /\ pc[j] = "extract"
    /\ targets[j] = {} \/ cancel[j]
    /\ IF pending[j] # {}
       THEN /\ pc' = [pc EXCEPT ![j] = "store"]
            /\ UNCHANGED <<targets, phase, cancel, gpc>>
       ELSE IF j = "recover" /\ phase[j] = "albums" /\ ~cancel[j]
       THEN /\ targets' = [targets EXCEPT ![j] = MissingPhotos]
            /\ phase' = [phase EXCEPT ![j] = "artists"]
            /\ UNCHANGED <<pc, cancel, gpc>>
       ELSE Leave(j)
    /\ UNCHANGED <<libVars, cache, broken, pending, stored, stale, unswept,
                   faults, changes>>
    /\ Watch

\* How it ends by an exception: the batch is rolled back.
Abort(j) ==
    /\ pending' = [pending EXCEPT ![j] = {}]
    /\ stored' = [stored EXCEPT ![j] = {}]
    /\ Leave(j)

\* store_artwork: a file of that name is left as it is, whatever is in it.
Store(j, p) ==
    /\ pc[j] = "store"
    /\ p \in pending[j]
    /\ cache' = cache \cup {p[2]}
    /\ pending' = [pending EXCEPT ![j] = @ \ {p}]
    /\ stored' = [stored EXCEPT ![j] = @ \cup {p}]
    /\ UNCHANGED <<libVars, broken, pc, phase, targets, cancel, gcVars, faults, changes>>
    /\ Watch

\* The write fails, with or without a file left behind: a scan passes on to the
\* next item, the recovery dies of the exception and its batch is rolled back.
StoreFails(j, p) ==
    /\ pc[j] = "store"
    /\ p \in pending[j] /\ p[2] \notin cache
    /\ Fault("disk")
    /\ \/ cache' = cache \cup {p[2]} /\ broken' = broken \cup {p[2]}
       \/ UNCHANGED <<cache, broken>>
    /\ IF j = "scan"
       THEN /\ pending' = [pending EXCEPT ![j] = @ \ {p}]
            /\ UNCHANGED <<pc, phase, targets, stored, cancel, gpc>>
       ELSE Abort(j)
    /\ UNCHANGED <<libVars, stale, unswept, changes>>
    /\ Watch

\* The transaction commits. An album whose row is gone is updated in vain.
Stamp(j) ==
    /\ pc[j] = "store" /\ pending[j] = {}
    /\ art' = [o \in Owners |->
                  IF /\ o \in rows \cup Artists
                     /\ \E i \in Images : <<o, i>> \in stored[j]
                  THEN CHOOSE i \in Images : <<o, i>> \in stored[j]
                  ELSE art[o]]
    /\ stored' = [stored EXCEPT ![j] = {}]
    /\ pc' = [pc EXCEPT ![j] = "extract"]
    /\ UNCHANGED <<tracked, rows, cache, broken, phase, targets, pending, cancel,
                   gcVars, faults, changes>>
    /\ Watch

StampFails(j) ==
    /\ pc[j] = "store" /\ pending[j] = {}
    /\ Fault("db")
    /\ Abort(j)
    /\ UNCHANGED <<libVars, cache, broken, stale, unswept, changes>>
    /\ Watch

Cancel(j) ==
    /\ pc[j] \in {"extract", "store"} /\ ~cancel[j]
    /\ Fault("cancel")
    /\ cancel' = [cancel EXCEPT ![j] = TRUE]
    /\ UNCHANGED <<libVars, cache, broken, pc, phase, targets, pending, stored,
                   gcVars, changes>>
    /\ Watch

-----------------------------------------------------------------------------
(* run_gc *)

\* An administrator's collection: only while no scan runs, at this moment.
AdminCollects ==
    /\ gpc["admin"] = "idle" /\ pc["scan"] = "idle"
    /\ Change
    /\ gpc' = [gpc EXCEPT !["admin"] = "cleanup"]
    /\ UNCHANGED <<libVars, cache, broken, jobVars, stale, unswept, faults>>
    /\ Watch

GcNext(g, label) == gpc' = [gpc EXCEPT ![g] = label]

\* Albums without a track go.
GcCleanup(g) ==
    /\ gpc[g] = "cleanup"
    /\ rows' = rows \cap tracked
    /\ art' = [o \in Owners |-> IF o \in Albums \ tracked THEN None ELSE art[o]]
    /\ GcNext(g, "missing")
    /\ UNCHANGED <<tracked, cache, broken, jobVars, stale, unswept, faults, changes>>
    /\ Watch

\* _cleanup_missing_artwork_refs: references are checked outside of the
\* transaction that clears them.
GcMissing(g) ==
    /\ gpc[g] = "missing"
    /\ stale' = [stale EXCEPT ![g] = Unbacked]
    /\ GcNext(g, "clear")
    /\ UNCHANGED <<libVars, cache, broken, jobVars, unswept, faults, changes>>
    /\ Watch

GcClear(g) ==
    /\ gpc[g] = "clear"
    /\ art' = [o \in Owners |->
                  IF o \in rows /\ art[o] \in stale[g] THEN None ELSE art[o]]
    /\ stale' = [stale EXCEPT ![g] = {}]
    /\ GcNext(g, "snapshot")
    /\ UNCHANGED <<tracked, rows, cache, broken, jobVars, unswept,
                   faults, changes>>
    /\ Watch

\* _cleanup_orphan_artwork: the references are read once, before the sweep.
GcSnapshot(g) ==
    /\ gpc[g] = "snapshot"
    /\ unswept' = [unswept EXCEPT ![g] = Images \ Referenced]
    /\ GcNext(g, "sweep")
    /\ UNCHANGED <<libVars, cache, broken, jobVars, stale, faults, changes>>
    /\ Watch

\* The sweep comes to the name of a file nobody refers to, if it is there yet.
GcVisit(g, i) ==
    /\ gpc[g] = "sweep"
    /\ i \in unswept[g]
    /\ unswept' = [unswept EXCEPT ![g] = @ \ {i}]
    /\ \/ /\ cache' = cache \ {i} /\ broken' = broken \ {i}
          /\ UNCHANGED faults
       \/ /\ i \in cache
          /\ Fault("disk")
          /\ UNCHANGED <<cache, broken>>
    /\ UNCHANGED <<libVars, jobVars, gpc, stale, changes>>
    /\ Watch

GcEnds(g) ==
    /\ GcNext(g, "idle")
    /\ pc' = IF g = "scan" THEN [pc EXCEPT !["scan"] = "idle"] ELSE pc

GcDone(g) ==
    /\ gpc[g] = "sweep" /\ unswept[g] = {}
    /\ GcEnds(g)
    /\ UNCHANGED <<libVars, cache, broken, phase, targets, pending, stored, cancel,
                   stale, unswept, faults, changes>>
    /\ Watch

\* An exception in one of its statements ends the collection.
GcFails(g) ==
    /\ gpc[g] \in {"cleanup", "missing", "clear", "snapshot"}
    /\ Fault("db")
    /\ GcEnds(g)
    /\ stale' = [stale EXCEPT ![g] = {}]
    /\ UNCHANGED <<libVars, cache, broken, phase, targets, pending, stored, cancel,
                   unswept, changes>>
    /\ Watch

-----------------------------------------------------------------------------
(* The rest of the library, users and the machine *)

\* Scanning brings and removes tracks before its artwork phase.
AlbumArrives(a) ==
    /\ pc["scan"] = "idle"
    /\ a \notin tracked
    /\ Change
    /\ tracked' = tracked \cup {a} /\ rows' = rows \cup {a}
    /\ UNCHANGED <<art, cache, broken, jobVars, gcVars, faults>>
    /\ Watch

AlbumLosesTracks(a) ==
    /\ pc["scan"] = "idle"
    /\ a \in tracked
    /\ Change
    /\ tracked' = tracked \ {a}
    /\ UNCHANGED <<rows, art, cache, broken, jobVars, gcVars, faults>>
    /\ Watch

\* The directory is emptied, or a file removed, behind the server's back.
FileRemoved(i) ==
    /\ i \in cache
    /\ Fault("rm")
    /\ cache' = cache \ {i} /\ broken' = broken \ {i}
    /\ raced' = TRUE
    /\ UNCHANGED <<libVars, jobVars, gcVars, changes>>

\* The process dies, perhaps in the middle of a write, and starts again.
Crash ==
    /\ Fault("crash")
    /\ \/ UNCHANGED <<cache, broken>>
       \/ \E j \in Jobs : \E p \in pending[j] :
             /\ pc[j] = "store" /\ p[2] \notin cache
             /\ cache' = cache \cup {p[2]} /\ broken' = broken \cup {p[2]}
    /\ pc' = [j \in Jobs |-> "idle"]
    /\ phase' = [j \in Jobs |-> "albums"]
    /\ targets' = [j \in Jobs |-> {}]
    /\ pending' = [j \in Jobs |-> {}]
    /\ stored' = [j \in Jobs |-> {}]
    /\ cancel' = [j \in Jobs |-> FALSE]
    /\ gpc' = [g \in Collectors |-> "idle"]
    /\ stale' = [g \in Collectors |-> {}]
    /\ unswept' = [g \in Collectors |-> {}]
    /\ UNCHANGED <<libVars, changes>>
    /\ Watch

-----------------------------------------------------------------------------

JobStep(j) ==
    \/ ResultsEnd(j) \/ Stamp(j)
    \/ \E o \in Owners : Collect(j, o)
    \/ \E p \in Found : Store(j, p)

GcStep(g) ==
    \/ GcCleanup(g) \/ GcMissing(g) \/ GcClear(g) \/ GcSnapshot(g) \/ GcDone(g)
    \/ \E i \in Images : GcVisit(g, i)

\* Scans keep coming: the watcher starts one at every interval.
ScanStep == ScanBegins \/ JobStep("scan") \/ GcStep("scan")

Users ==
    \/ RecoverBegins \/ AdminCollects
    \/ \E a \in Albums : AlbumArrives(a) \/ AlbumLosesTracks(a)
    \/ \E j \in Jobs : Cancel(j)

Failures ==
    \/ \E j \in Jobs : StampFails(j) \/ \E p \in Found : StoreFails(j, p)
    \/ \E g \in Collectors : GcFails(g)
    \/ \E i \in Images : FileRemoved(i)
    \/ Crash

Next ==
    \/ ScanStep \/ JobStep("recover") \/ GcStep("admin")
    \/ Users \/ Failures

Spec == Init /\ [][Next]_vars

\* Each thread runs on; what users do and what fails is left to chance.
FairSpec == /\ Spec
            /\ WF_vars(ScanStep)
            /\ WF_vars(JobStep("recover"))
            /\ WF_vars(GcStep("admin"))

-----------------------------------------------------------------------------
(* Properties *)

\* An album's cover has its file, unless a sweep met a batch between its files
\* and its rows, or files were removed by hand: jobs, collections, rollbacks
\* and crashes that follow one another lose no cover.
CoversHaveFiles ==
    ~raced => \A a \in rows : art[a] # None => art[a] \in cache

\* Artist photos share the directory with the covers (set_artist_image).
Photos == {art[x] : x \in Artists} \ {None}

\* Whatever covers lost their file, by races, crashes or by hand, scans restore
\* them: in the end every album that has art of its own has a cover, each cover
\* has a file of its name, and what is left beside covers is artist photos at
\* most. Of a file that was not written to the end only the name is looked at
\* (maintenance.py, store_artwork): it stays as it is, and so does a photo whose
\* file is gone.
ArtworkConverges ==
    <>[](/\ \A a \in tracked : a \in rows /\ (LocalArt[a] # None => art[a] # None)
         /\ rows \subseteq tracked
         /\ Referenced \subseteq cache /\ cache \subseteq Referenced \cup Photos)
=============================================================================
