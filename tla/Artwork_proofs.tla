--------------------------- MODULE Artwork_proofs ---------------------------
(***************************************************************************)
(* For every library, every set of images, batch size and faults: types,   *)
(* and that jobs and collections that do not overlap lose no cover.        *)
(***************************************************************************)
EXTENDS Artwork, TLAPS

\* An album with a track has a row, and only an album with a row has a cover.
RowsInv ==
    /\ tracked \subseteq rows
    /\ \A a \in Albums \ rows : art[a] = None

\* Files stored but not stamped belong to a job that is committing a batch; the
\* collection of a scan runs while the scan waits for it.
JobInv ==
    /\ \A j \in Jobs : stored[j] # {} => pc[j] = "store"
    /\ gpc["scan"] # "idle" => pc["scan"] = "gc"

\* What makes CoversHaveFiles inductive: without a race, the files of a batch
\* are there until its rows are stamped, and no name left to a sweep has come
\* to be referred to since the sweep read the references.
CoverFiles == \A a \in rows : art[a] # None => art[a] \in cache
BatchFiles == \A j \in Jobs : \A p \in stored[j] : p[2] \in cache
SweepsAreSafe ==
    \A g \in Collectors :
        gpc[g] = "sweep" =>
            \A i \in unswept[g] : \A a \in rows : art[a] # i
CacheInv == ~raced => ~Overlap /\ CoverFiles /\ BatchFiles /\ SweepsAreSafe

IInv == TypeOK /\ RowsInv /\ JobInv /\ CacheInv

-----------------------------------------------------------------------------

\* The first state.
LEMMA InitEstablishes == Init => IInv
<1> SUFFICES ASSUME Init PROVE IInv
  OBVIOUS
<1>1. TypeOK
  <2>1. faults \in 0..MaxFaults /\ changes \in 0..MaxChanges
    BY ShapeAssumption DEF Init
  <2>2. cancel \in [Jobs -> BOOLEAN] /\ raced \in BOOLEAN
    BY DEF Init
  <2> QED
    BY <2>1, <2>2 DEF Init, TypeOK
<1>2. RowsInv
  BY DEF Init, RowsInv, Owners
<1>3. JobInv
  BY DEF Init, JobInv, Collectors
<1>4. ~Overlap
  BY DEF Init, Overlap
<1>5. CacheInv
  BY <1>4 DEF Init, CacheInv, CoverFiles, BatchFiles, SweepsAreSafe, Owners
<1> QED
  BY <1>1, <1>2, <1>3, <1>5 DEF IInv

\* A job that ends keeps the types.
LEMMA LeaveTypes ==
  ASSUME TypeOK, NEW j \in Jobs, Leave(j)
  PROVE  /\ pc' \in [Jobs -> {"idle", "extract", "store", "gc"}]
         /\ phase' \in [Jobs -> {"albums", "artists"}]
         /\ targets' \in [Jobs -> SUBSET Owners]
         /\ cancel' \in [Jobs -> BOOLEAN]
         /\ gpc' \in [Collectors -> {"idle", "cleanup", "missing", "clear",
                                     "snapshot", "sweep"}]
<1>1. CASE j = "scan"
  BY <1>1 DEF Leave, TypeOK, Collectors
<1>2. CASE j # "scan"
  BY <1>2 DEF Leave, TypeOK
<1> QED
  BY <1>1, <1>2

\* Every action keeps the types.
LEMMA TypeStep == TypeOK /\ [Next]_vars => TypeOK'
<1> SUFFICES ASSUME TypeOK, [Next]_vars PROVE TypeOK'
  OBVIOUS
<1> USE ShapeAssumption
<1> USE DEF TypeOK, libVars, jobVars, gcVars, Owners, Found
<1>1. CASE ScanBegins
  BY <1>1 DEF ScanBegins, MissingCovers, Watch, Overlap, Jobs, Collectors
<1>2. CASE RecoverBegins
  BY <1>2 DEF RecoverBegins, MissingCovers, Change, Watch, Overlap, Jobs
<1>3. ASSUME NEW j \in Jobs, NEW o \in Owners, Collect(j, o)
      PROVE  TypeOK'
  <2>1. PICK i \in Images \cup {None} :
           /\ UNCHANGED faults \/ Fault("miss")
           /\ pending' = [pending EXCEPT ![j] =
                            @ \cup (IF HasArt(i) THEN {<<o, i>>} ELSE {})]
    BY <1>3, Zenon DEF Collect
  <2>3. faults' \in 0..MaxFaults
    BY <2>1 DEF Fault
  <2>2. pending' \in [Jobs -> SUBSET Found]
    BY <2>1 DEF HasArt
  <2> QED
    BY <1>3, <2>2, <2>3 DEF Collect, Watch, Overlap
<1>4. ASSUME NEW j \in Jobs, ResultsEnd(j)
      PROVE  TypeOK'
  <2>1. CASE Leave(j)
    BY <1>4, <2>1, LeaveTypes DEF ResultsEnd, Watch, Overlap
  <2>2. CASE ~Leave(j)
    BY <1>4, <2>2 DEF ResultsEnd, MissingPhotos, Watch, Overlap
  <2> QED
    BY <2>1, <2>2
<1>5. ASSUME NEW j \in Jobs, NEW p \in Found, Store(j, p)
      PROVE  TypeOK'
  BY <1>5 DEF Store, Watch, Overlap
<1>6. ASSUME NEW j \in Jobs, NEW p \in Found, StoreFails(j, p)
      PROVE  TypeOK'
  <2>1. /\ cache' \subseteq Images /\ broken' \subseteq cache'
        /\ faults' \in 0..MaxFaults
    BY <1>6 DEF StoreFails, Fault
  <2>2. CASE j = "scan"
    BY <1>6, <2>1, <2>2 DEF StoreFails, Watch, Overlap
  <2>3. CASE j # "scan"
    BY <1>6, <2>1, <2>3, LeaveTypes DEF StoreFails, Abort, Watch, Overlap
  <2> QED
    BY <2>2, <2>3
<1>7. ASSUME NEW j \in Jobs, Stamp(j)
      PROVE  TypeOK'
  <2>1. art' \in [Owners -> Images \cup {None}]
    BY <1>7 DEF Stamp
  <2> QED
    BY <1>7, <2>1 DEF Stamp, Watch, Overlap
<1>8. ASSUME NEW j \in Jobs, StampFails(j)
      PROVE  TypeOK'
  BY <1>8, LeaveTypes DEF StampFails, Abort, Fault, Watch, Overlap
<1>9. ASSUME NEW j \in Jobs, Cancel(j)
      PROVE  TypeOK'
  BY <1>9 DEF Cancel, Fault, Watch, Overlap
<1>10. CASE AdminCollects
  BY <1>10 DEF AdminCollects, Change, Watch, Overlap, Collectors
<1>11. ASSUME NEW g \in Collectors, GcCleanup(g)
       PROVE  TypeOK'
  BY <1>11 DEF GcCleanup, GcNext, Watch, Overlap
<1>12. ASSUME NEW g \in Collectors, GcMissing(g)
       PROVE  TypeOK'
  BY <1>12 DEF GcMissing, GcNext, Unbacked, Referenced, Watch, Overlap
<1>13. ASSUME NEW g \in Collectors, GcClear(g)
       PROVE  TypeOK'
  BY <1>13 DEF GcClear, GcNext, Watch, Overlap
<1>14. ASSUME NEW g \in Collectors, GcSnapshot(g)
       PROVE  TypeOK'
  BY <1>14 DEF GcSnapshot, GcNext, Watch, Overlap
<1>15. ASSUME NEW g \in Collectors, NEW i \in Images, GcVisit(g, i)
       PROVE  TypeOK'
  BY <1>15 DEF GcVisit, Fault, Watch, Overlap
<1>16. ASSUME NEW g \in Collectors, GcDone(g)
       PROVE  TypeOK'
  BY <1>16 DEF GcDone, GcEnds, GcNext, Watch, Overlap, Jobs
<1>17. ASSUME NEW g \in Collectors, GcFails(g)
       PROVE  TypeOK'
  BY <1>17 DEF GcFails, GcEnds, GcNext, Fault, Watch, Overlap, Jobs
<1>18. ASSUME NEW a \in Albums, AlbumArrives(a)
       PROVE  TypeOK'
  BY <1>18 DEF AlbumArrives, Change, Watch, Overlap
<1>19. ASSUME NEW a \in Albums, AlbumLosesTracks(a)
       PROVE  TypeOK'
  BY <1>19 DEF AlbumLosesTracks, Change, Watch, Overlap
<1>20. ASSUME NEW i \in Images, FileRemoved(i)
       PROVE  TypeOK'
  BY <1>20 DEF FileRemoved, Fault
<1>21. CASE Crash
  <2>1. /\ cache' \subseteq Images /\ broken' \subseteq cache'
        /\ faults' \in 0..MaxFaults
    BY <1>21 DEF Crash, Fault
  <2> QED
    BY <1>21, <2>1 DEF Crash, Watch, Overlap
<1>22. CASE UNCHANGED vars
  BY <1>22 DEF vars
<1> QED
  BY <1>1, <1>2, <1>3, <1>4, <1>5, <1>6, <1>7, <1>8, <1>9, <1>10, <1>11, <1>12,
     <1>13, <1>14, <1>15, <1>16, <1>17, <1>18, <1>19, <1>20, <1>21, <1>22
     DEF Next, ScanStep, JobStep, GcStep, Users, Failures, Jobs, Collectors

-----------------------------------------------------------------------------

\* Rows come with their tracks and go without them.
LEMMA RowsStep == TypeOK /\ RowsInv /\ [Next]_vars => RowsInv'
<1> SUFFICES ASSUME TypeOK, RowsInv, [Next]_vars PROVE RowsInv'
  OBVIOUS
<1> USE DEF RowsInv, libVars
<1>1. ASSUME NEW j \in Jobs, Stamp(j) PROVE RowsInv'
  <2>1. \A a \in Albums : a \notin rows => art'[a] = art[a]
    BY <1>1, ShapeAssumption DEF Stamp, Owners
  <2> QED
    BY <1>1, <2>1 DEF Stamp
<1>2. ASSUME NEW g \in Collectors, GcCleanup(g) PROVE RowsInv'
  BY <1>2 DEF GcCleanup, Owners
<1>3. ASSUME NEW g \in Collectors, GcClear(g) PROVE RowsInv'
  BY <1>3 DEF GcClear, Owners
<1>4. ASSUME NEW a \in Albums, AlbumArrives(a) PROVE RowsInv'
  BY <1>4 DEF AlbumArrives
<1>5. ASSUME NEW a \in Albums, AlbumLosesTracks(a) PROVE RowsInv'
  BY <1>5 DEF AlbumLosesTracks
<1>6. CASE UNCHANGED libVars
  BY <1>6
<1> QED
  BY <1>1, <1>2, <1>3, <1>4, <1>5, <1>6
     DEF Next, ScanStep, JobStep, GcStep, Users, Failures, Jobs, Collectors,
         ScanBegins, RecoverBegins, Collect, ResultsEnd, Store, StoreFails,
         StampFails, Cancel, AdminCollects, GcMissing, GcSnapshot, GcVisit,
         GcDone, GcFails, FileRemoved, Crash, vars

\* Stored files await their rows only while their job commits, and only a scan
\* that collects has a collection of its own.
LEMMA JobsStep == TypeOK /\ JobInv /\ [Next]_vars => JobInv'
<1> SUFFICES ASSUME TypeOK, JobInv, [Next]_vars PROVE JobInv'
  OBVIOUS
<1> USE DEF TypeOK, JobInv, jobVars, gcVars, Jobs, Collectors
<1>1. CASE ScanBegins
  BY <1>1 DEF ScanBegins
<1>2. CASE RecoverBegins
  BY <1>2 DEF RecoverBegins
<1>3. ASSUME NEW j \in Jobs, NEW o \in Owners, Collect(j, o) PROVE JobInv'
  BY <1>3 DEF Collect
<1>4. ASSUME NEW j \in Jobs, ResultsEnd(j) PROVE JobInv'
  BY <1>4 DEF ResultsEnd, Leave
<1>5. ASSUME NEW j \in Jobs, NEW p \in Found, Store(j, p) PROVE JobInv'
  BY <1>5 DEF Store
<1>6. ASSUME NEW j \in Jobs, NEW p \in Found, StoreFails(j, p) PROVE JobInv'
  BY <1>6 DEF StoreFails, Abort, Leave
<1>7. ASSUME NEW j \in Jobs, Stamp(j) PROVE JobInv'
  BY <1>7 DEF Stamp
<1>8. ASSUME NEW j \in Jobs, StampFails(j) PROVE JobInv'
  BY <1>8 DEF StampFails, Abort, Leave
<1>9. ASSUME NEW g \in Collectors, \/ GcCleanup(g) \/ GcMissing(g)
                                   \/ GcClear(g) \/ GcSnapshot(g)
      PROVE  JobInv'
  BY <1>9 DEF GcCleanup, GcMissing, GcClear, GcSnapshot, GcNext
<1>10. ASSUME NEW g \in Collectors, GcDone(g) PROVE JobInv'
  BY <1>10 DEF GcDone, GcEnds, GcNext
<1>11. ASSUME NEW g \in Collectors, GcFails(g) PROVE JobInv'
  BY <1>11 DEF GcFails, GcEnds, GcNext
<1>12. CASE AdminCollects
  BY <1>12 DEF AdminCollects
<1>13. CASE Crash
  BY <1>13 DEF Crash
<1>14. CASE UNCHANGED <<pc, stored, gpc>>
  BY <1>14
<1> QED
  BY <1>1, <1>2, <1>3, <1>4, <1>5, <1>6, <1>7, <1>8, <1>9, <1>10, <1>11,
     <1>12, <1>13, <1>14
     DEF Next, ScanStep, JobStep, GcStep, Users, Failures, Cancel, GcVisit,
         AlbumArrives, AlbumLosesTracks, FileRemoved, vars

-----------------------------------------------------------------------------

\* A step that leaves no race behind began without one, and makes no overlap.
LEMMA NoRaceBefore ==
  ASSUME TypeOK, CacheInv, [Next]_vars, ~raced'
  PROVE  ~raced /\ ~Overlap'
<1>1. CASE Watch
  BY <1>1 DEF Watch
<1>2. CASE UNCHANGED vars
  BY <1>2 DEF vars, jobVars, gcVars, Overlap, CacheInv
<1>3. ASSUME NEW i \in Images, FileRemoved(i) PROVE FALSE
  BY <1>3 DEF FileRemoved
<1> QED
  BY <1>1, <1>2, <1>3
     DEF Next, ScanStep, JobStep, GcStep, Users, Failures,
         ScanBegins, RecoverBegins, Collect, ResultsEnd, Store, StoreFails, Stamp,
         StampFails, Cancel, AdminCollects, GcCleanup, GcMissing, GcClear,
         GcSnapshot, GcVisit, GcDone, GcFails, AlbumArrives, AlbumLosesTracks,
         Crash

\* A job that ends starts no sweep.
LEMMA LeaveSweepsNothing ==
  ASSUME TypeOK, NEW j \in Jobs, Leave(j)
  PROVE  \A g \in Collectors : gpc'[g] = "sweep" => gpc[g] = "sweep"
  BY DEF Leave, TypeOK

\* Every action keeps the files of covers and of batches from the sweeps.
LEMMA CacheStep == IInv /\ [Next]_vars => CacheInv'
<1> SUFFICES ASSUME IInv, [Next]_vars, ~raced'
             PROVE  ~Overlap' /\ CoverFiles' /\ BatchFiles' /\ SweepsAreSafe'
  BY DEF CacheInv
<1> DEFINE Goal == CoverFiles' /\ BatchFiles' /\ SweepsAreSafe'
<1>1. /\ ~raced /\ ~Overlap /\ ~Overlap'
      /\ TypeOK /\ RowsInv /\ JobInv
      /\ CoverFiles /\ BatchFiles /\ SweepsAreSafe
  BY NoRaceBefore DEF IInv, CacheInv
<1> USE DEF libVars, jobVars, gcVars
<1>2. ASSUME ScanBegins PROVE Goal
  BY <1>1, <1>2 DEF ScanBegins, TypeOK, CoverFiles, BatchFiles, SweepsAreSafe
<1>3. ASSUME NEW j \in Jobs, ResultsEnd(j) PROVE Goal
  <2>1. \A g \in Collectors : gpc'[g] = "sweep" => gpc[g] = "sweep"
    BY <1>1, <1>3, LeaveSweepsNothing DEF ResultsEnd
  <2> QED
    BY <1>1, <1>3, <2>1 DEF ResultsEnd, CoverFiles, BatchFiles, SweepsAreSafe
<1>4. ASSUME NEW j \in Jobs, NEW p \in Found, Store(j, p) PROVE Goal
  <2>1. BatchFiles'
    BY <1>1, <1>4 DEF Store, TypeOK, BatchFiles
  <2> QED
    BY <1>1, <1>4, <2>1 DEF Store, CoverFiles, SweepsAreSafe
<1>5. ASSUME NEW j \in Jobs, NEW p \in Found, StoreFails(j, p) PROVE Goal
  <2>1. cache \subseteq cache' /\ UNCHANGED <<rows, art, unswept>>
    BY <1>5 DEF StoreFails
  <2>2. \A k \in Jobs : stored'[k] \subseteq stored[k]
    BY <1>1, <1>5 DEF StoreFails, Abort, TypeOK
  <2>3. \A g \in Collectors : gpc'[g] = "sweep" => gpc[g] = "sweep"
    BY <1>1, <1>5, LeaveSweepsNothing DEF StoreFails, Abort
  <2> QED
    BY <1>1, <2>1, <2>2, <2>3 DEF CoverFiles, BatchFiles, SweepsAreSafe
<1>6. ASSUME NEW j \in Jobs, Stamp(j) PROVE Goal
  <2>1. \A g \in Collectors : gpc[g] # "sweep"
    BY <1>1, <1>6 DEF Stamp, Overlap
  <2>2. SweepsAreSafe'
    BY <1>6, <2>1 DEF Stamp, SweepsAreSafe
  <2>3. BatchFiles'
    BY <1>1, <1>6 DEF Stamp, TypeOK, BatchFiles
  <2>4. ASSUME NEW a \in rows, art'[a] # None PROVE art'[a] \in cache
    <3>1. a \in Owners
      BY <1>1 DEF TypeOK, Owners
    <3>2. CASE \E i \in Images : <<a, i>> \in stored[j]
      <4>1. art'[a] = CHOOSE i \in Images : <<a, i>> \in stored[j]
        BY <1>6, <3>1, <3>2 DEF Stamp
      <4>2. <<a, art'[a]>> \in stored[j]
        BY <3>2, <4>1
      <4> QED
        BY <1>1, <4>2 DEF BatchFiles
    <3>3. CASE ~\E i \in Images : <<a, i>> \in stored[j]
      <4>1. art'[a] = art[a]
        BY <1>6, <3>1, <3>3 DEF Stamp
      <4> QED
        BY <1>1, <2>4, <4>1 DEF CoverFiles
    <3> QED
      BY <3>2, <3>3
  <2>5. CoverFiles'
    BY <1>6, <2>4 DEF Stamp, CoverFiles
  <2> QED
    BY <2>2, <2>3, <2>5
<1>7. ASSUME NEW j \in Jobs, StampFails(j) PROVE Goal
  <2>1. \A k \in Jobs : stored'[k] \subseteq stored[k]
    BY <1>1, <1>7 DEF StampFails, Abort, TypeOK
  <2>2. \A g \in Collectors : gpc'[g] = "sweep" => gpc[g] = "sweep"
    BY <1>1, <1>7, LeaveSweepsNothing DEF StampFails, Abort
  <2> QED
    BY <1>1, <1>7, <2>1, <2>2 DEF StampFails, CoverFiles, BatchFiles, SweepsAreSafe
<1>8. ASSUME AdminCollects PROVE Goal
  BY <1>1, <1>8 DEF AdminCollects, TypeOK, CoverFiles, BatchFiles, SweepsAreSafe
<1>9. ASSUME NEW g \in Collectors, GcCleanup(g) \/ GcClear(g) PROVE Goal
  <2>1. /\ rows' \subseteq rows
        /\ \A a \in rows : art'[a] = art[a] \/ art'[a] = None
    BY <1>1, <1>9 DEF GcCleanup, GcClear, TypeOK, Owners
  <2>2. \A h \in Collectors : gpc'[h] = "sweep" => gpc[h] = "sweep"
    BY <1>1, <1>9 DEF GcCleanup, GcClear, GcNext, TypeOK
  <2>3. UNCHANGED <<cache, stored, unswept>>
    BY <1>9 DEF GcCleanup, GcClear
  <2>4. \A h \in Collectors : \A i \in unswept[h] : i # None
    BY <1>1, ShapeAssumption DEF TypeOK
  <2> QED
    BY <1>1, <2>1, <2>2, <2>3, <2>4 DEF CoverFiles, BatchFiles, SweepsAreSafe
<1>10. ASSUME NEW g \in Collectors, GcMissing(g) PROVE Goal
  BY <1>1, <1>10 DEF GcMissing, GcNext, TypeOK, CoverFiles, BatchFiles, SweepsAreSafe
<1>11. ASSUME NEW g \in Collectors, GcSnapshot(g) PROVE Goal
  <2>1. \A i \in Images \ Referenced : \A a \in rows : art[a] # i
    BY ShapeAssumption DEF Referenced
  <2> QED
    BY <1>1, <1>11, <2>1
       DEF GcSnapshot, GcNext, TypeOK, CoverFiles, BatchFiles, SweepsAreSafe
<1>12. ASSUME NEW g \in Collectors, NEW i \in Images, GcVisit(g, i) PROVE Goal
  <2>1. \A j \in Jobs : stored[j] = {}
    BY <1>1, <1>12 DEF GcVisit, Overlap, JobInv
  <2>2. cache \ {i} \subseteq cache' /\ UNCHANGED <<rows, art, stored, gpc>>
    BY <1>12 DEF GcVisit
  <2>3. \A a \in rows : art[a] # i
    BY <1>1, <1>12 DEF GcVisit, SweepsAreSafe
  <2>4. \A h \in Collectors : unswept'[h] \subseteq unswept[h]
    BY <1>1, <1>12 DEF GcVisit, TypeOK
  <2> QED
    BY <1>1, <2>1, <2>2, <2>3, <2>4 DEF CoverFiles, BatchFiles, SweepsAreSafe
<1>13. ASSUME NEW g \in Collectors, GcDone(g) \/ GcFails(g) PROVE Goal
  BY <1>1, <1>13 DEF GcDone, GcFails, GcEnds, GcNext, TypeOK, CoverFiles,
     BatchFiles, SweepsAreSafe
<1>14. ASSUME NEW a \in Albums, AlbumArrives(a) PROVE Goal
  <2>1. a \notin rows => art[a] = None
    BY <1>1 DEF RowsInv
  <2>2. \A g \in Collectors : \A i \in unswept[g] : i # None
    BY <1>1, ShapeAssumption DEF TypeOK
  <2> QED
    BY <1>1, <1>14, <2>1, <2>2
       DEF AlbumArrives, CoverFiles, BatchFiles, SweepsAreSafe
<1>15. ASSUME Crash PROVE Goal
  BY <1>1, <1>15 DEF Crash, CoverFiles, BatchFiles, SweepsAreSafe
<1>16. ASSUME UNCHANGED <<rows, art, cache, stored, gpc, unswept>> PROVE Goal
  BY <1>1, <1>16 DEF CoverFiles, BatchFiles, SweepsAreSafe
<1>17. ASSUME NEW i \in Images, FileRemoved(i) PROVE FALSE
  BY <1>17 DEF FileRemoved
<1> HIDE DEF Goal
<1>18. Goal
  BY <1>2, <1>3, <1>4, <1>5, <1>6, <1>7, <1>8, <1>9, <1>10, <1>11, <1>12,
     <1>13, <1>14, <1>15, <1>16, <1>17
     DEF Next, ScanStep, JobStep, GcStep, Users, Failures, RecoverBegins,
         Collect, Cancel, AlbumLosesTracks, vars, Jobs, Collectors
<1> QED
  BY <1>1, <1>18 DEF Goal

-----------------------------------------------------------------------------
(* Theorems *)

\* The invariant holds in every state of the artwork cache.
THEOREM InductiveInvariant == Spec => []IInv
<1>1. Init => IInv
  BY InitEstablishes
<1>2. IInv /\ [Next]_vars => IInv'
  BY TypeStep, RowsStep, JobsStep, CacheStep DEF IInv
<1> QED
  BY <1>1, <1>2, PTL DEF Spec

\* The columns, the directory and the threads keep their types.
THEOREM TypeCorrect == Spec => []TypeOK
<1>1. IInv => TypeOK
  BY DEF IInv
<1> QED
  BY <1>1, InductiveInvariant, PTL

\* A cover has its file as long as no sweep meets a batch between its files and
\* its rows and nobody else removes files: a recovery that runs beside a scan, a
\* rollback, a cancel or a crash does not by itself lose a cover.
THEOREM CoversKeepFiles == Spec => []CoversHaveFiles
<1>1. IInv => CoversHaveFiles
  BY DEF IInv, CacheInv, CoverFiles, CoversHaveFiles
<1> QED
  BY <1>1, InductiveInvariant, PTL
=============================================================================
