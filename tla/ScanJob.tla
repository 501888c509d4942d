------------------------------- MODULE ScanJob -------------------------------
(***************************************************************************)
(* The life of a library scan as a background job of the server process    *)
(* (scanner/scanner.py: start_scan_async, cancel_scan, _run_scan and the   *)
(* frame of _run_scan_inner), together with the handlers that consult its  *)
(* progress flag before they touch the library (api/web.py: the            *)
(* maintenance and the folder-delete endpoints).                           *)
(*                                                                         *)
(* What a scan does to the database is in Library; here a folder is one    *)
(* step, and what matters is the order in which the module globals         *)
(* _lock, _cancel_event and _progress.running change.                      *)
(***************************************************************************)
EXTENDS Naturals, FiniteSets

CONSTANTS Workers,          \* identities of scanner threads
          Requests,         \* handler threads and the watcher
          MaxFolders,       \* bound: music folders a scan finds
          ConnectMayFail,   \* init_thread_connection may raise
          ListMayFail       \* list_music_folders may raise

ASSUME BoundsAssumption == MaxFolders \in Nat
ASSUME FailureAssumption == ConnectMayFail \in BOOLEAN /\ ListMayFail \in BOOLEAN

VARIABLES lock,      \* _lock is held
          cancel,    \* _cancel_event is set
          running,   \* _progress.running
          wpc,       \* where each scanner thread is
          left,      \* folders the thread's loop has still to scan
          rpc,       \* where each handler is
          asked      \* history: the event was set since a start last cleared it

vars == <<lock, cancel, running, wpc, left, rpc, asked>>

\* The worker is between the assignment that raises the flag and the finally
\* block that lowers it.
Body == {"list", "folders", "infolder", "post", "artwork", "gc"}
\* The worker's thread exists.
Alive == {"connect", "begin"} \cup Body \cup {"finally", "unwind", "release"}
\* A handler holds the lock on behalf of the thread it is about to start.
Starting == {"clear", "spawn"}
\* A handler runs garbage collection, or the folder deletion that precedes it.
Maintaining == {"delete", "gc"}

TypeOK ==
    /\ lock \in BOOLEAN /\ cancel \in BOOLEAN /\ running \in BOOLEAN
    /\ wpc \in [Workers -> {"idle"} \cup Alive]
    /\ left \in [Workers -> 0..MaxFolders]
    /\ rpc \in [Requests -> {"idle", "cancel"} \cup Starting \cup Maintaining]
    /\ asked \in BOOLEAN

Init ==
    /\ lock = FALSE /\ cancel = FALSE /\ running = FALSE
    /\ wpc = [w \in Workers |-> "idle"]
    /\ left = [w \in Workers |-> 0]
    /\ rpc = [r \in Requests |-> "idle"]
    /\ asked = FALSE

-----------------------------------------------------------------------------
(* start_scan_async, called by the scan endpoints, the watcher's tick and  *)
(* startup. A call that finds the lock taken returns False.                *)

LockFree_ByFlag == ~running     \* mutant: trusts the flag, not the lock
LockFree == ~lock

StartAcquire(r) ==
    /\ rpc[r] = "idle"
    /\ LockFree
    /\ lock' = TRUE
    /\ rpc' = [rpc EXCEPT ![r] = "clear"]
    /\ UNCHANGED <<cancel, running, wpc, left, asked>>

\* mutant: a set event is inherited by the new scan
StartClear_Keeps(r) ==
    /\ rpc[r] = "clear"
    /\ asked' = FALSE
    /\ rpc' = [rpc EXCEPT ![r] = "spawn"]
    /\ UNCHANGED <<lock, cancel, running, wpc, left>>

StartClear(r) ==
    /\ rpc[r] = "clear"
    /\ cancel' = FALSE
    /\ asked' = FALSE
    /\ rpc' = [rpc EXCEPT ![r] = "spawn"]
    /\ UNCHANGED <<lock, running, wpc, left>>

StartSpawn(r, w) ==
    /\ rpc[r] = "spawn"
    /\ wpc[w] = "idle"
    /\ wpc' = [wpc EXCEPT ![w] = "connect"]
    /\ rpc' = [rpc EXCEPT ![r] = "idle"]
    /\ UNCHANGED <<lock, cancel, running, left, asked>>

(* cancel_scan: reads the flag, then sets the event; nothing orders the    *)
(* two against a scan that ends, or another that starts, in between.       *)

CancelCheck(r) ==
    /\ rpc[r] = "idle"
    /\ running
    /\ rpc' = [rpc EXCEPT ![r] = "cancel"]
    /\ UNCHANGED <<lock, cancel, running, wpc, left, asked>>

CancelSet(r) ==
    /\ rpc[r] = "cancel"
    /\ cancel' = TRUE
    /\ asked' = TRUE
    /\ rpc' = [rpc EXCEPT ![r] = "idle"]
    /\ UNCHANGED <<lock, running, wpc, left>>

(* The maintenance endpoints and folders_delete: 409 while the flag is up, *)
(* else they go on without looking again.                                  *)

NoScan == ~running

MaintenanceCheck(r) ==
    /\ rpc[r] = "idle"
    /\ NoScan
    /\ \E op \in Maintaining : rpc' = [rpc EXCEPT ![r] = op]
    /\ UNCHANGED <<lock, cancel, running, wpc, left, asked>>

\* The delete transaction; a folder that was already gone needs no collection.
FolderDelete(r) ==
    /\ rpc[r] = "delete"
    /\ \E next \in {"gc", "idle"} : rpc' = [rpc EXCEPT ![r] = next]
    /\ UNCHANGED <<lock, cancel, running, wpc, left, asked>>

MaintenanceGc(r) ==
    /\ rpc[r] = "gc"
    /\ rpc' = [rpc EXCEPT ![r] = "idle"]
    /\ UNCHANGED <<lock, cancel, running, wpc, left, asked>>

-----------------------------------------------------------------------------
(* The scanner thread. *)

Goto(w, label) == wpc' = [wpc EXCEPT ![w] = label]

Connect(w) ==
    /\ wpc[w] = "connect"
    /\ Goto(w, "begin")
    /\ UNCHANGED <<lock, cancel, running, left, rpc, asked>>

\* The connection is opened before the try: the thread dies as it is.
ConnectFails(w) ==
    /\ ConnectMayFail
    /\ wpc[w] = "connect"
    /\ Goto(w, "idle")
    /\ UNCHANGED <<lock, cancel, running, left, rpc, asked>>

Begin(w) ==
    /\ wpc[w] = "begin"
    /\ running' = TRUE
    /\ Goto(w, "list")
    /\ UNCHANGED <<lock, cancel, left, rpc, asked>>

ListFolders(w) ==
    /\ wpc[w] = "list"
    /\ \E n \in 0..MaxFolders : left' = [left EXCEPT ![w] = n]
    /\ Goto(w, "folders")
    /\ UNCHANGED <<lock, cancel, running, rpc, asked>>

\* The query stands before the try whose finally lowers the flag; only
\* _run_scan's own finally still runs.
ListFails(w) ==
    /\ ListMayFail
    /\ wpc[w] = "list"
    /\ Goto(w, "unwind")
    /\ UNCHANGED <<lock, cancel, running, left, rpc, asked>>

MoreFolders(w) == left[w] > 0

\* Head of the loop over folders.
NextFolder(w) ==
    /\ wpc[w] = "folders"
    /\ MoreFolders(w)
    /\ IF cancel
       THEN /\ Goto(w, "post")
            /\ UNCHANGED left
       ELSE /\ Goto(w, "infolder")
            /\ left' = [left EXCEPT ![w] = @ - 1]
    /\ UNCHANGED <<lock, cancel, running, rpc, asked>>

\* mutant: a folder that failed is taken again
FolderDone_Retries(w) ==
    /\ wpc[w] = "infolder"
    /\ Goto(w, "folders")
    /\ \E again \in {0, 1} : left' = [left EXCEPT ![w] = @ + again]
    /\ UNCHANGED <<lock, cancel, running, rpc, asked>>

\* _scan_folder returns, early or not, or raises and is counted as an error.
FolderDone(w) ==
    /\ wpc[w] = "infolder"
    /\ Goto(w, "folders")
    /\ UNCHANGED <<lock, cancel, running, left, rpc, asked>>

FoldersDone(w) ==
    /\ wpc[w] = "folders"
    /\ left[w] = 0
    /\ Goto(w, "post")
    /\ UNCHANGED <<lock, cancel, running, left, rpc, asked>>

\* Neither artwork nor collection follows a scan that was cancelled.
PostCheck(w) ==
    /\ wpc[w] = "post"
    /\ Goto(w, IF cancel THEN "finally" ELSE "artwork")
    /\ UNCHANGED <<lock, cancel, running, left, rpc, asked>>

\* An exception in either phase is logged and the scan goes on.
ArtworkPhase(w) ==
    /\ wpc[w] = "artwork"
    /\ Goto(w, "gc")
    /\ UNCHANGED <<lock, cancel, running, left, rpc, asked>>

GcPhase(w) ==
    /\ wpc[w] = "gc"
    /\ Goto(w, "finally")
    /\ UNCHANGED <<lock, cancel, running, left, rpc, asked>>

Finish(w) ==
    /\ wpc[w] = "finally"
    /\ running' = FALSE
    /\ Goto(w, "unwind")
    /\ UNCHANGED <<lock, cancel, left, rpc, asked>>

Unwind(w) ==
    /\ wpc[w] = "unwind"
    /\ cancel' = FALSE
    /\ Goto(w, "release")
    /\ UNCHANGED <<lock, running, left, rpc, asked>>

Release(w) ==
    /\ wpc[w] = "release"
    /\ lock' = FALSE
    /\ Goto(w, "idle")
    /\ UNCHANGED <<cancel, running, left, rpc, asked>>

-----------------------------------------------------------------------------

Work(w) ==
    \/ Connect(w) \/ ConnectFails(w) \/ Begin(w)
    \/ ListFolders(w) \/ ListFails(w)
    \/ NextFolder(w) \/ FolderDone(w) \/ FoldersDone(w)
    \/ PostCheck(w) \/ ArtworkPhase(w) \/ GcPhase(w)
    \/ Finish(w) \/ Unwind(w) \/ Release(w)

\* What a handler does once it has begun; that a call is made is up to users.
Handle(r) ==
    \/ StartClear(r)
    \/ \E w \in Workers : StartSpawn(r, w)
    \/ CancelSet(r) \/ FolderDelete(r) \/ MaintenanceGc(r)

Call(r) == StartAcquire(r) \/ CancelCheck(r) \/ MaintenanceCheck(r)

Next == \/ \E w \in Workers : Work(w)
        \/ \E r \in Requests : Call(r) \/ Handle(r)

Spec == Init /\ [][Next]_vars

\* A thread that can run eventually does, and a handler that has begun ends.
FairSpec == /\ Spec
            /\ \A w \in Workers : WF_vars(Work(w))
            /\ \A r \in Requests : WF_vars(Handle(r))

-----------------------------------------------------------------------------
(* Properties *)

\* Two scans never run at once, however starts, cancels and endings
\* interleave (_lock, start_scan_async and _run_scan).
MutualExclusion ==
    \A v, w \in Workers : wpc[v] # "idle" /\ wpc[w] # "idle" => v = w

\* The flag the folder-delete and maintenance handlers rely on is up whenever
\* a thread is in the body of a scan: an earlier scan that is still ending
\* never lowers the flag of a later one (_run_scan_inner's finally comes
\* before _run_scan's release).
FlagCoversScan == (\E w \in Workers : wpc[w] \in Body) => running

\* A scan goes without artwork and collection exactly if the event was set
\* between its own clear() and its last look at it: one that is still set from
\* before is not served to it, and the clear() of a scan that is still ending
\* loses none (start_scan_async, _run_scan's finally). A cancel_scan that saw an
\* earlier scan run and sets the event only now does reach it (scanner.py
\* 365-367).
CancelsAreObeyed ==
    [][\A w \in Workers :
          PostCheck(w) => (wpc'[w] = "finally" <=> asked)]_vars

\* Garbage collection and folder deletion never begin while a scan is in its
\* body (the 409 of the handlers).
MaintenanceBeginsOutsideScan ==
    [][\A r \in Requests :
          rpc[r] = "idle" /\ rpc'[r] \in Maintaining =>
              \A w \in Workers : wpc[w] \notin Body]_vars

HeldByNone ==
    /\ lock
    /\ \A w \in Workers : wpc[w] = "idle"
    /\ \A r \in Requests : rpc[r] \notin Starting
LocksAreNotLost ==
    [][HeldByNone' => HeldByNone \/ \E w \in Workers : ConnectFails(w)]_vars

UpForNone == running /\ \A w \in Workers : wpc[w] \notin Body \cup {"finally"}
FlagsAreNotLost ==
    [][UpForNone' => UpForNone \/ \E w \in Workers : ListFails(w)]_vars

\* A scan ends and another can start, whatever fails and whoever cancels: it
\* releases the lock ("drive the scan and release the lock when done") and lowers
\* the flag ("Always clear `running`"). The exceptions are failures before the
\* try whose finally does so: of the connection, which keeps the lock for good,
\* and of the list of folders, which keeps the flag up until another scan ends.
ScansEnd ==
    /\ lock ~> ~lock \/ HeldByNone
    /\ LocksAreNotLost /\ FlagsAreNotLost

\* The scan seen as a job: at most one, announced for as long as it lasts.
Active == {w \in Workers : wpc[w] \in Body}
Job == INSTANCE ExclusiveJob WITH active <- Active, status <- running
ImplementsExclusiveJob == Job!Spec
=============================================================================
