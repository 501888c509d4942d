------------------------------ MODULE Analysis ------------------------------
(***************************************************************************)
(* The sonic-analysis pass (core/sonic_analysis.py): a thread that takes   *)
(* the tracks without a current feature vector, has a pool extract the     *)
(* vectors, and writes them in batches, while scans add and delete tracks  *)
(* and handlers start and cancel passes. A server that died and came back  *)
(* is in an initial state: any features may be there already.              *)
(*                                                                         *)
(* A vector is abstracted to its feature_version, old or current.          *)
(***************************************************************************)
EXTENDS Naturals, Sequences, SequencesExt, FiniteSets

CONSTANTS Tracks, Workers, Requests,
          Undecodable,      \* tracks extract_features returns None for
          _WRITE_BATCH,
          ConnectMayFail

ASSUME AnalysisAssumption ==
    /\ IsFiniteSet(Tracks) /\ Undecodable \subseteq Tracks
    /\ _WRITE_BATCH \in Nat \ {0}
    /\ ConnectMayFail \in BOOLEAN

VARIABLES lock, cancel,
          progress,     \* _progress: running, total, analyzed, failed
          wpc, rpc,     \* where threads and handlers are
          force,        \* the argument of the pass
          futures,      \* tracks whose result has not been taken yet
          batch,        \* results not yet written
          status,       \* each track: not yet there, present, or deleted
          features,     \* feature_version per track, "none" without a row
          asked,        \* history: the event was set since the lock was taken
          targets,      \* history: what the pass took on
          ending        \* history: why the loop ended: "all", "cancel", "error"

vars == <<lock, cancel, progress, wpc, rpc, force, futures, batch, status,
          features, asked, targets, ending>>

data == <<status, features>>
pass == <<futures, batch, targets, ending>>

NoProgress == [running |-> FALSE, total |-> 0, analyzed |-> 0, failed |-> 0]
Present == {t \in Tracks : status[t] = "present"}

Init ==
    /\ lock = FALSE /\ cancel = FALSE /\ progress = NoProgress
    /\ wpc = [w \in Workers |-> "idle"] /\ rpc = [r \in Requests |-> "idle"]
    /\ force = FALSE /\ futures = {} /\ batch = << >>
    /\ asked = FALSE /\ targets = {} /\ ending = "all"
    /\ status \in [Tracks -> {"unborn", "present"}]
    /\ \E V \in [Tracks -> {"none", "old", "current"}] :
          features = [t \in Tracks |-> IF status[t] = "present" THEN V[t] ELSE "none"]

-----------------------------------------------------------------------------
(* start_analyze_async and cancel_analyze, called by handlers.             *)

StartAcquire(r, f) ==
    /\ rpc[r] = "idle" /\ ~lock
    /\ lock' = TRUE /\ force' = f /\ asked' = FALSE
    /\ rpc' = [rpc EXCEPT ![r] = "clear"]
    /\ UNCHANGED <<cancel, progress, wpc, pass, data>>

StartClear(r) ==
    /\ rpc[r] = "clear"
    /\ cancel' = FALSE
    /\ rpc' = [rpc EXCEPT ![r] = "spawn"]
    /\ UNCHANGED <<lock, progress, wpc, force, asked, pass, data>>

StartSpawn(r, w) ==
    /\ rpc[r] = "spawn" /\ wpc[w] = "idle"
    /\ wpc' = [wpc EXCEPT ![w] = "connect"]
    /\ rpc' = [rpc EXCEPT ![r] = "idle"]
    /\ UNCHANGED <<lock, cancel, progress, force, asked, pass, data>>

CancelCheck(r) ==
    /\ rpc[r] = "idle" /\ progress.running
    /\ rpc' = [rpc EXCEPT ![r] = "cancel"]
    /\ UNCHANGED <<lock, cancel, progress, wpc, force, asked, pass, data>>

CancelSet(r) ==
    /\ rpc[r] = "cancel"
    /\ cancel' = TRUE /\ asked' = TRUE
    /\ rpc' = [rpc EXCEPT ![r] = "idle"]
    /\ UNCHANGED <<lock, progress, wpc, force, pass, data>>

-----------------------------------------------------------------------------
(* The thread: _run around _run_inner.                                     *)

Goto(w, label) == wpc' = [wpc EXCEPT ![w] = label]

Connect(w) ==
    /\ wpc[w] = "connect"
    /\ Goto(w, "begin")
    /\ UNCHANGED <<lock, cancel, progress, rpc, force, asked, pass, data>>

\* Before the try: the thread dies with the lock taken.
ConnectFails(w) ==
    /\ ConnectMayFail
    /\ wpc[w] = "connect"
    /\ Goto(w, "idle")
    /\ UNCHANGED <<lock, cancel, progress, rpc, force, asked, pass, data>>

Begin(w) ==
    /\ wpc[w] = "begin"
    /\ progress' = [NoProgress EXCEPT !.running = TRUE]
    /\ ending' = "all" /\ targets' = {}
    /\ Goto(w, "targets")
    /\ UNCHANGED <<lock, cancel, rpc, force, asked, futures, batch, data>>

Needing == {t \in Present : features[t] # "current"}

TakeTargets(w) ==
    /\ wpc[w] = "targets"
    /\ targets' = IF force THEN Present ELSE Needing
    /\ futures' = targets' /\ batch' = << >>
    /\ progress' = [progress EXCEPT !.total = Cardinality(targets')]
    /\ Goto(w, IF targets' = {} THEN "finally" ELSE "results")
    /\ UNCHANGED <<lock, cancel, rpc, force, asked, ending, data>>

(* Any query or the flush may raise; the except clause logs it.            *)
Error(w) == ending' = "error" /\ Goto(w, "finally")

QueryFails(w) ==
    /\ wpc[w] = "targets"
    /\ Error(w)
    /\ UNCHANGED <<lock, cancel, progress, rpc, force, asked, futures, batch, targets, data>>

CancelSeen(w) ==
    /\ wpc[w] = "results" /\ futures # {}
    /\ cancel
    /\ ending' = "cancel" /\ futures' = {}
    /\ Goto(w, "last")
    /\ UNCHANGED <<lock, cancel, progress, rpc, force, asked, batch, targets, data>>

(* One transaction; a track deleted meanwhile fails its foreign key.       *)
_flush(w, rows, next) ==
    /\ batch' = << >>
    /\ IF Range(rows) \subseteq Present
       THEN /\ features' = [t \in Tracks |-> IF t \in Range(rows) THEN "current" ELSE features[t]]
            /\ progress' = [progress EXCEPT !.analyzed = @ + Len(rows)]
            /\ Goto(w, next) /\ UNCHANGED ending
       ELSE Error(w) /\ UNCHANGED <<features, progress>>

\* The file of a deleted track may be gone, or only out of the library.
Extracted(t, vec) ==
    IF t \in Undecodable THEN ~vec ELSE vec \/ t \notin Present

TakeResult_Retries(w, t, vec) ==    \* mutant: a track that failed is taken again
    /\ wpc[w] = "results" /\ t \in futures /\ ~cancel
    /\ Extracted(t, vec)
    /\ IF ~vec THEN UNCHANGED <<futures, progress, batch, features, ending, wpc>>
       ELSE /\ futures' = futures \ {t}
            /\ _flush(w, Append(batch, t), "results")
    /\ UNCHANGED <<lock, cancel, rpc, force, asked, targets, status>>
TakeResult(w, t, vec) ==
    /\ wpc[w] = "results" /\ t \in futures /\ ~cancel
    /\ Extracted(t, vec)
    /\ futures' = futures \ {t}
    /\ IF ~vec
       THEN /\ progress' = [progress EXCEPT !.failed = @ + 1]
            /\ UNCHANGED <<batch, features, ending, wpc>>
       ELSE IF Len(batch) + 1 >= _WRITE_BATCH
       THEN _flush(w, Append(batch, t), "results")
       ELSE /\ batch' = Append(batch, t)
            /\ UNCHANGED <<features, progress, ending, wpc>>
    /\ UNCHANGED <<lock, cancel, rpc, force, asked, targets, status>>

ResultsDone_FlagDown(w) ==          \* mutant: over before the last batch is written
    /\ wpc[w] = "results" /\ futures = {}
    /\ progress' = [progress EXCEPT !.running = FALSE]
    /\ Goto(w, "last")
    /\ UNCHANGED <<lock, cancel, rpc, force, asked, pass, data>>
ResultsDone(w) ==
    /\ wpc[w] = "results" /\ futures = {}
    /\ Goto(w, "last")
    /\ UNCHANGED <<lock, cancel, progress, rpc, force, asked, pass, data>>

LastBatch_Dropped(w) ==             \* mutant: only full batches are written
    /\ wpc[w] = "last"
    /\ batch' = << >> /\ Goto(w, "finally")
    /\ ending' = IF batch # << >> /\ cancel THEN "cancel" ELSE ending
    /\ UNCHANGED <<lock, cancel, progress, rpc, force, asked, futures, targets, data>>
LastBatch(w) ==
    /\ wpc[w] = "last"
    /\ IF batch # << >> /\ ~cancel
       THEN _flush(w, batch, "finally")
       ELSE /\ batch' = << >> /\ Goto(w, "finally")
            /\ ending' = IF batch # << >> THEN "cancel" ELSE ending
            /\ UNCHANGED <<features, progress>>
    /\ UNCHANGED <<lock, cancel, rpc, force, asked, futures, targets, status>>

Finally(w) ==
    /\ wpc[w] = "finally"
    /\ progress' = [progress EXCEPT !.running = FALSE]
    /\ futures' = {}
    /\ Goto(w, "unwind")
    /\ UNCHANGED <<lock, cancel, rpc, force, asked, batch, targets, ending, data>>

Unwind(w) ==
    /\ wpc[w] = "unwind"
    /\ cancel' = FALSE
    /\ Goto(w, "release")
    /\ UNCHANGED <<lock, progress, rpc, force, asked, pass, data>>

Release(w) ==
    /\ wpc[w] = "release"
    /\ lock' = FALSE
    /\ Goto(w, "idle")
    /\ UNCHANGED <<cancel, progress, rpc, force, asked, pass, data>>

-----------------------------------------------------------------------------
(* Around the pass.                                                        *)

\* A scan inserts a track (ids are never used twice), or deletes one, and
\* with it its features (ON DELETE CASCADE).
ScanAdds(t) ==
    /\ status[t] = "unborn"
    /\ status' = [status EXCEPT ![t] = "present"]
    /\ UNCHANGED <<lock, cancel, progress, wpc, rpc, force, asked, pass, features>>

ScanDeletes(t) ==
    /\ status[t] = "present"
    /\ status' = [status EXCEPT ![t] = "deleted"]
    /\ features' = [features EXCEPT ![t] = "none"]
    /\ UNCHANGED <<lock, cancel, progress, wpc, rpc, force, asked, pass>>

Call(r) == (\E f \in BOOLEAN : StartAcquire(r, f)) \/ CancelCheck(r)
Handle(r) == StartClear(r) \/ (\E w \in Workers : StartSpawn(r, w)) \/ CancelSet(r)

Work(w) ==
    \/ Connect(w) \/ ConnectFails(w) \/ Begin(w) \/ TakeTargets(w) \/ QueryFails(w)
    \/ CancelSeen(w) \/ \E t \in Tracks, vec \in BOOLEAN : TakeResult(w, t, vec)
    \/ ResultsDone(w) \/ LastBatch(w) \/ Finally(w) \/ Unwind(w) \/ Release(w)

Next ==
    \/ \E r \in Requests : Call(r) \/ Handle(r)
    \/ \E w \in Workers : Work(w)
    \/ \E t \in Tracks : ScanAdds(t) \/ ScanDeletes(t)

(* Threads run, the pool's futures complete, and a handler ends.           *)
Spec == /\ Init /\ [][Next]_vars
        /\ \A w \in Workers : WF_vars(Work(w))
        /\ \A r \in Requests : WF_vars(Handle(r))

-----------------------------------------------------------------------------
Body == {"targets", "results", "last"}

TypeOK ==
    /\ lock \in BOOLEAN /\ cancel \in BOOLEAN /\ force \in BOOLEAN /\ asked \in BOOLEAN
    /\ progress \in [running : BOOLEAN, total : 0..Cardinality(Tracks),
                     analyzed : 0..Cardinality(Tracks), failed : 0..Cardinality(Tracks)]
    /\ wpc \in [Workers -> {"idle", "connect", "begin", "finally", "unwind", "release"} \cup Body]
    /\ rpc \in [Requests -> {"idle", "clear", "spawn", "cancel"}]
    /\ futures \subseteq targets /\ targets \subseteq Tracks
    /\ batch \in Seq(Tracks) /\ Len(batch) < _WRITE_BATCH
    /\ status \in [Tracks -> {"unborn", "present", "deleted"}]
    /\ features \in [Tracks -> {"none", "old", "current"}]
    /\ ending \in {"all", "cancel", "error"}

(* Passes exclude each other, and the running flag that the interface      *)
(* polls is up throughout one (_lock and _run_inner's try).                *)
Job == INSTANCE ExclusiveJob
          WITH active <- {w \in Workers : wpc[w] \in Body}, status <- progress.running
ImplementsExclusiveJob == Job!Spec

(* A pass that ran to its end has given every track it took on, and that   *)
(* is still there, a current vector, except those that cannot be decoded,  *)
(* whatever scans did meanwhile and whatever batch a track fell in, and    *)
(* has counted each once (117-162). A pass broke off for a cancel only if  *)
(* the event was set after the lock was taken: one left up by the pass     *)
(* before does not count (84-90), one set late does (observation 2).       *)
CompletePassLeavesNothingOut ==
    /\ TypeOK
    /\ \A w \in Workers : wpc[w] = "unwind" =>
          /\ ending = "all" =>
                /\ \A t \in targets \cap Present :
                      features[t] = "current" \/ t \in Undecodable
                /\ progress.analyzed + progress.failed = progress.total
          /\ ending = "cancel" => asked

HeldByNone ==
    /\ lock
    /\ \A w \in Workers : wpc[w] = "idle"
    /\ \A r \in Requests : rpc[r] \notin {"clear", "spawn"}
LocksAreNotLost ==
    [][HeldByNone' => HeldByNone \/ \E w \in Workers : ConnectFails(w)]_vars

(* Every pass ends and another can start, however scans and cancels        *)
(* interfere: a thread releases the lock at its end ("always release the   *)
(* lock", sonic_analysis.py 105-113), with one exception, that the         *)
(* connection opened before the try fails.                                 *)
PassesEnd == (lock ~> ~lock \/ HeldByNone) /\ LocksAreNotLost
=============================================================================
