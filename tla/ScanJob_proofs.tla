--------------------------- MODULE ScanJob_proofs ---------------------------
(***************************************************************************)
(* For every set of threads and handlers, every number of folders, and     *)
(* whether or not connections and queries fail: the types, the safety      *)
(* properties of ScanJob, and its refinement of ExclusiveJob.              *)
(***************************************************************************)
EXTENDS ScanJob, TLAPS

\* The lock is a slot with at most one occupant: a scanner thread, or the
\* handler that is about to start one.
SlotInv ==
    /\ MutualExclusion
    /\ \A r, s \in Requests :
          rpc[r] \in Starting /\ rpc[s] \in Starting => r = s
    /\ \A w \in Workers, r \in Requests :
          ~(wpc[w] # "idle" /\ rpc[r] \in Starting)
    /\ \A w \in Workers : wpc[w] # "idle" => lock
    /\ \A r \in Requests : rpc[r] \in Starting => lock

\* A scan that has still to look at the event.
Obeying == {"connect", "begin", "list", "folders", "infolder", "post"}

\* From the handler's clear() until the scan last looks, the event is set exactly
\* if somebody set it in that time.
CancelInv ==
    /\ \A w \in Workers : wpc[w] \in Obeying => (cancel <=> asked)
    /\ \A r \in Requests : rpc[r] = "spawn" => (cancel <=> asked)

IInv == TypeOK /\ SlotInv /\ FlagCoversScan /\ CancelInv

-----------------------------------------------------------------------------

\* The state in which the server starts satisfies the invariant.
LEMMA InitIInv == Init => IInv
<1> SUFFICES ASSUME Init PROVE IInv
  OBVIOUS
<1>1. TypeOK
  <2>1. 0 \in 0..MaxFolders
    BY BoundsAssumption
  <2> QED
    BY <2>1 DEF Init, TypeOK
<1>2. SlotInv
  BY DEF Init, SlotInv, MutualExclusion, Starting
<1>3. FlagCoversScan
  BY DEF Init, FlagCoversScan, Body
<1>4. CancelInv
  BY DEF Init, CancelInv
<1> QED
  BY <1>1, <1>2, <1>3, <1>4 DEF IInv

\* No step of a handler or of a scanner thread leaves the types.
LEMMA TypeStep == TypeOK /\ [Next]_vars => TypeOK'
<1> SUFFICES ASSUME TypeOK, [Next]_vars PROVE TypeOK'
  OBVIOUS
<1> USE DEF TypeOK, Alive, Body, Starting, Maintaining
<1>1. ASSUME NEW r \in Requests, Call(r) PROVE TypeOK'
  BY <1>1 DEF Call, StartAcquire, CancelCheck, MaintenanceCheck
<1>2. ASSUME NEW r \in Requests, Handle(r) PROVE TypeOK'
  BY <1>2 DEF Handle, StartClear, StartSpawn, CancelSet, FolderDelete, MaintenanceGc
<1>3. ASSUME NEW w \in Workers, Work(w) PROVE TypeOK'
  <2>1. CASE NextFolder(w)
    BY <2>1, BoundsAssumption DEF NextFolder, MoreFolders, Goto
  <2>2. CASE ListFolders(w)
    BY <2>2 DEF ListFolders, Goto
  <2>3. CASE Connect(w) \/ ConnectFails(w) \/ Begin(w) \/ ListFails(w)
    BY <2>3 DEF Connect, ConnectFails, Begin, ListFails, Goto
  <2>4. CASE FolderDone(w) \/ FoldersDone(w) \/ PostCheck(w)
    BY <2>4 DEF FolderDone, FoldersDone, PostCheck, Goto
  <2>5. CASE ArtworkPhase(w) \/ GcPhase(w) \/ Finish(w) \/ Unwind(w) \/ Release(w)
    BY <2>5 DEF ArtworkPhase, GcPhase, Finish, Unwind, Release, Goto
  <2> QED
    BY <1>3, <2>1, <2>2, <2>3, <2>4, <2>5 DEF Work
<1>4. CASE UNCHANGED vars
  BY <1>4 DEF vars
<1> QED
  BY <1>1, <1>2, <1>3, <1>4 DEF Next

\* The slot, the flag and the event survive every step of a handler.
LEMMA HandlerStep ==
  ASSUME IInv, NEW r \in Requests, Call(r) \/ Handle(r)
  PROVE  SlotInv' /\ FlagCoversScan' /\ CancelInv'
<1> USE DEF IInv, TypeOK, SlotInv, MutualExclusion, FlagCoversScan,
            CancelInv, Obeying, Starting, Body
<1>1. CASE StartAcquire(r)
  BY <1>1 DEF StartAcquire, LockFree
<1>2. CASE StartClear(r)
  BY <1>2 DEF StartClear
<1>3. ASSUME NEW w \in Workers, StartSpawn(r, w)
      PROVE  SlotInv' /\ FlagCoversScan' /\ CancelInv'
  BY <1>3 DEF StartSpawn
<1>4. CASE CancelCheck(r)
  BY <1>4 DEF CancelCheck
<1>5. CASE CancelSet(r)
  BY <1>5 DEF CancelSet
<1>6. CASE MaintenanceCheck(r)
  BY <1>6 DEF MaintenanceCheck, NoScan, Maintaining
<1>7. CASE FolderDelete(r)
  BY <1>7 DEF FolderDelete
<1>8. CASE MaintenanceGc(r)
  BY <1>8 DEF MaintenanceGc
<1> QED
  BY <1>1, <1>2, <1>3, <1>4, <1>5, <1>6, <1>7, <1>8 DEF Call, Handle

\* They survive every step of a scanner thread: it is alone in the slot.
LEMMA WorkerStep ==
  ASSUME IInv, NEW w \in Workers, Work(w)
  PROVE  SlotInv' /\ FlagCoversScan' /\ CancelInv'
<1> USE DEF IInv, TypeOK, SlotInv, MutualExclusion, FlagCoversScan,
            CancelInv, Obeying, Starting, Body, Goto
<1>1. CASE Connect(w) \/ ConnectFails(w)
  BY <1>1 DEF Connect, ConnectFails
<1>2. CASE Begin(w)
  BY <1>2 DEF Begin
<1>3. CASE ListFolders(w) \/ ListFails(w)
  BY <1>3 DEF ListFolders, ListFails
<1>4. CASE NextFolder(w)
  BY <1>4 DEF NextFolder, MoreFolders
<1>5. CASE FolderDone(w) \/ FoldersDone(w)
  BY <1>5 DEF FolderDone, FoldersDone
<1>6. CASE PostCheck(w)
  BY <1>6 DEF PostCheck
<1>7. CASE ArtworkPhase(w) \/ GcPhase(w)
  BY <1>7 DEF ArtworkPhase, GcPhase
<1>8. CASE Finish(w)
  BY <1>8 DEF Finish
<1>9. CASE Unwind(w)
  BY <1>9 DEF Unwind
<1>10. CASE Release(w)
  BY <1>10 DEF Release
<1> QED
  BY <1>1, <1>2, <1>3, <1>4, <1>5, <1>6, <1>7, <1>8, <1>9, <1>10 DEF Work

\* The invariant is inductive.
LEMMA StepIInv == IInv /\ [Next]_vars => IInv'
<1> SUFFICES ASSUME IInv, [Next]_vars PROVE IInv'
  OBVIOUS
<1>1. TypeOK'
  BY TypeStep DEF IInv
<1>2. SlotInv' /\ FlagCoversScan' /\ CancelInv'
  <2>1. CASE UNCHANGED vars
    BY <2>1 DEF vars, IInv, SlotInv, MutualExclusion, FlagCoversScan,
                CancelInv
  <2> QED
    BY <2>1, HandlerStep, WorkerStep DEF Next
<1> QED
  BY <1>1, <1>2 DEF IInv

\* The invariant holds throughout every behaviour of the server.
THEOREM InductiveInvariant == Spec => []IInv
  BY InitIInv, StepIInv, PTL DEF Spec

\* Every variable keeps its type.
THEOREM TypeCorrect == Spec => []TypeOK
<1>1. IInv => TypeOK
  BY DEF IInv
<1> QED
  BY <1>1, InductiveInvariant, PTL

\* Two scanner threads are never alive together: the guarantee of _lock, from
\* start_scan_async's acquire to the release in _run_scan's finally.
THEOREM ScansExcludeEachOther == Spec => []MutualExclusion
<1>1. IInv => MutualExclusion
  BY DEF IInv, SlotInv
<1> QED
  BY <1>1, InductiveInvariant, PTL

\* _progress.running is up throughout the body of every scan.
THEOREM FlagIsAccurate == Spec => []FlagCoversScan
<1>1. IInv => FlagCoversScan
  BY DEF IInv
<1> QED
  BY <1>1, InductiveInvariant, PTL

\* A scan is cut short exactly if the event was set since its own clear(): none
\* left from before is served to it, and none that is for it is lost.
THEOREM CancelsReachTheScan == Spec => CancelsAreObeyed
<1>1. IInv => \A w \in Workers : PostCheck(w) => (wpc'[w] = "finally" <=> asked)
  <2> SUFFICES ASSUME IInv, NEW w \in Workers, PostCheck(w)
               PROVE  wpc'[w] = "finally" <=> asked
    OBVIOUS
  <2>1. wpc[w] = "post" /\ wpc'[w] = IF cancel THEN "finally" ELSE "artwork"
    BY DEF PostCheck, Goto, IInv, TypeOK
  <2>2. cancel <=> asked
    BY <2>1 DEF IInv, CancelInv, Obeying
  <2> QED
    BY <2>1, <2>2
<1> QED
  BY <1>1, InductiveInvariant, PTL DEF Spec, CancelsAreObeyed

\* The 409 of the maintenance and folder-delete handlers is never late: when
\* they go ahead, no scan is in its body at that instant.
THEOREM MaintenanceIsGuarded == Spec => MaintenanceBeginsOutsideScan
<1> DEFINE Guarded(r) == rpc[r] = "idle" /\ rpc'[r] \in Maintaining =>
                            \A w \in Workers : wpc[w] \notin Body
<1>1. IInv /\ [Next]_vars => [\A r \in Requests : Guarded(r)]_vars
  <2> SUFFICES ASSUME IInv, Next, NEW r \in Requests PROVE Guarded(r)
    OBVIOUS
  <2>1. ASSUME NEW w \in Workers, Work(w) PROVE rpc' = rpc
    BY <2>1 DEF Work, Connect, ConnectFails, Begin, ListFolders, ListFails,
                NextFolder, FolderDone, FoldersDone, PostCheck, ArtworkPhase,
                GcPhase, Finish, Unwind, Release
  <2>2. ASSUME NEW s \in Requests, Handle(s) PROVE Guarded(r)
    BY <2>2 DEF Handle, StartClear, StartSpawn, CancelSet, FolderDelete,
                MaintenanceGc, Maintaining, IInv, TypeOK
  <2>3. ASSUME NEW s \in Requests, Call(s) PROVE Guarded(r)
    BY <2>3 DEF Call, StartAcquire, CancelCheck, MaintenanceCheck, NoScan,
                Maintaining, IInv, TypeOK, FlagCoversScan
  <2> QED
    BY <2>1, <2>2, <2>3 DEF Next, Maintaining
<1> QED
  BY <1>1, InductiveInvariant, PTL DEF Spec, MaintenanceBeginsOutsideScan

-----------------------------------------------------------------------------
(* Refinement *)

\* Every step of the server is a step of the abstract job, or none.
LEMMA JobStep == IInv /\ [Next]_vars => [Job!Next]_<<Active, running>>
<1> SUFFICES ASSUME IInv, [Next]_vars PROVE [Job!Next]_<<Active, running>>
  OBVIOUS
<1> USE DEF Active, Body
<1>1. ASSUME NEW w \in Workers, Begin(w) PROVE Job!Start(w)
  BY <1>1 DEF Begin, Goto, Job!Start, IInv, TypeOK, SlotInv, MutualExclusion
<1>2. ASSUME NEW w \in Workers, GcPhase(w) \/ ListFails(w) PROVE Job!Leave(w)
  BY <1>2 DEF GcPhase, ListFails, Goto, Job!Leave, IInv, TypeOK, SlotInv,
              MutualExclusion
<1>3. ASSUME NEW w \in Workers, PostCheck(w)
      PROVE  Job!Leave(w) \/ UNCHANGED <<Active, running>>
  BY <1>3 DEF PostCheck, Goto, Job!Leave, IInv, TypeOK, SlotInv, MutualExclusion
<1>4. ASSUME NEW w \in Workers, Finish(w) PROVE Job!Retract
  BY <1>4 DEF Finish, Goto, Job!Retract, IInv, TypeOK, SlotInv, MutualExclusion
<1>5. ASSUME NEW w \in Workers,
             \/ Connect(w) \/ ConnectFails(w) \/ ListFolders(w) \/ NextFolder(w)
             \/ FolderDone(w) \/ FoldersDone(w) \/ ArtworkPhase(w)
             \/ Unwind(w) \/ Release(w)
      PROVE  UNCHANGED <<Active, running>>
  BY <1>5 DEF Connect, ConnectFails, ListFolders, NextFolder, FolderDone,
              FoldersDone, ArtworkPhase, Unwind, Release, Goto, IInv, TypeOK
<1>6. ASSUME NEW r \in Requests, Call(r) \/ Handle(r)
      PROVE  UNCHANGED <<Active, running>>
  BY <1>6 DEF Call, StartAcquire, CancelCheck, MaintenanceCheck, Handle,
              StartClear, StartSpawn, CancelSet, FolderDelete, MaintenanceGc,
              IInv, TypeOK
<1>7. CASE UNCHANGED vars
  BY <1>7 DEF vars
<1>8. ASSUME NEW w \in Workers, Work(w)
      PROVE  Job!Next \/ UNCHANGED <<Active, running>>
  BY <1>8, <1>1, <1>2, <1>3, <1>4, <1>5 DEF Work, Job!Next
<1> QED
  BY <1>6, <1>7, <1>8 DEF Next

\* A scan implements the exclusive, announced job that the rest of the server
\* takes it to be.
THEOREM RefinesExclusiveJob == Spec => ImplementsExclusiveJob
<1>1. Init => Job!Init
  BY DEF Init, Job!Init, Active, Body
<1> QED
  BY <1>1, JobStep, InductiveInvariant, PTL
     DEF Spec, ImplementsExclusiveJob, Job!Spec
=============================================================================
