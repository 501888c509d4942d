-------------------------- MODULE Analysis_proofs --------------------------
(***************************************************************************)
(* For every finite library, any threads, handlers and batch size, and     *)
(* whether or not connections fail: the types, what a complete pass leaves *)
(* behind, its refinement of ExclusiveJob, and that only a failed          *)
(* connection loses the lock.                                              *)
(***************************************************************************)
EXTENDS Analysis, TLAPS, FiniteSetTheorems, SequenceTheorems

Starting == {"clear", "spawn"}
Counting == {"results", "last", "finally", "unwind"}

\* The lock is a slot with at most one occupant: an analysis thread, or the
\* handler that is about to start one.
SlotInv ==
    /\ \A w, v \in Workers : wpc[w] # "idle" /\ wpc[v] # "idle" => w = v
    /\ \A r, s \in Requests : rpc[r] \in Starting /\ rpc[s] \in Starting => r = s
    /\ \A w \in Workers, r \in Requests : ~(wpc[w] # "idle" /\ rpc[r] \in Starting)
    /\ \A w \in Workers : wpc[w] # "idle" => lock
    /\ \A r \in Requests : rpc[r] \in Starting => lock

FlagInv == \A w \in Workers : wpc[w] \in Body => progress.running

\* Past the handler's clear(), an event that is set was set for this occupant.
CancelInv ==
    /\ \A w \in Workers : wpc[w] # "idle" /\ cancel => asked
    /\ \A r \in Requests : rpc[r] = "spawn" /\ cancel => asked
    /\ \A w \in Workers : wpc[w] \in Counting /\ ending = "cancel" => asked

\* What the pass has yet to write or to count.
Pending == futures \cup Range(batch)
Counted == progress.analyzed + progress.failed + Len(batch) + Cardinality(futures)

Settled(t) == features[t] = "current" \/ t \in Undecodable
AllSettled == \A t \in (targets \cap Present) \ Pending : Settled(t)

\* A track the pass took on is counted in one place at a time, and is there
\* with a current vector, gone, undecodable or pending.
PassInv ==
    /\ \A t \in targets : status[t] # "unborn"
    /\ futures # {} => \E w \in Workers : wpc[w] \in {"results", "finally"}
    /\ \A w \in Workers :
          /\ wpc[w] = "targets" =>
                /\ ending = "all" /\ targets = {} /\ futures = {}
                /\ progress.total = 0 /\ progress.analyzed = 0 /\ progress.failed = 0
          /\ wpc[w] = "results" => ending = "all"
          /\ wpc[w] = "last" => ending \in {"all", "cancel"} /\ futures = {}
          /\ wpc[w] \in {"results", "last"} =>
                Counted <= progress.total /\ progress.total = Cardinality(targets)
          /\ wpc[w] \in {"finally", "unwind"} /\ ending = "all" =>
                futures = {} /\ batch = << >>
          /\ wpc[w] \in Counting /\ ending = "all" =>
                Counted = progress.total /\ AllSettled

IInv == TypeOK /\ SlotInv /\ FlagInv /\ CancelInv /\ PassInv
-----------------------------------------------------------------------------
(* Sequences and counts *)

\* What a batch holds after one more result, and when it is empty.
LEMMA RangeAppend ==
  ASSUME NEW s \in Seq(Tracks), NEW t \in Tracks
  PROVE  Range(Append(s, t)) = Range(s) \cup {t}
<1>1. /\ DOMAIN Append(s, t) = DOMAIN s \cup {Len(s) + 1}
      /\ \A i \in DOMAIN s : Append(s, t)[i] = s[i]
      /\ Append(s, t)[Len(s) + 1] = t
  BY AppendProperties
<1> QED
  BY <1>1 DEF Range

\* An empty sequence has no elements.
LEMMA RangeEmpty == Range(<< >>) = {}
  BY DEF Range

\* Sets of tracks are counted by numbers up to the size of the library.
LEMMA TracksCount ==
  ASSUME NEW T \in SUBSET Tracks
  PROVE  /\ IsFiniteSet(T) /\ Cardinality(T) \in 0..Cardinality(Tracks)
         /\ Cardinality(Tracks) \in Nat
         /\ Cardinality(T) = 0 <=> T = {}
  BY AnalysisAssumption, FS_Subset, FS_CardinalityType, FS_EmptySet

\* One track fewer is pending once its result was taken.
LEMMA OneTaken ==
  ASSUME NEW T \in SUBSET Tracks, NEW t \in T
  PROVE  Cardinality(T) = Cardinality(T \ {t}) + 1
  BY TracksCount, FS_RemoveElement

\* The numbers of a pass are natural numbers.
LEMMA Numbers ==
  ASSUME TypeOK
  PROVE  /\ progress.total \in Nat /\ progress.analyzed \in Nat /\ progress.failed \in Nat
         /\ Len(batch) \in Nat /\ Cardinality(futures) \in Nat
         /\ Cardinality(Tracks) \in Nat
<1>1. futures \in SUBSET Tracks
  BY DEF TypeOK
<1> QED
  BY <1>1, TracksCount DEF TypeOK

-----------------------------------------------------------------------------
(* The slot, the flag and the event *)

\* They survive every step of a handler.
LEMMA HandlerSlot ==
  ASSUME IInv, NEW r \in Requests, Call(r) \/ Handle(r)
  PROVE  SlotInv' /\ FlagInv' /\ CancelInv'
<1> USE DEF IInv, TypeOK, SlotInv, FlagInv, CancelInv, Starting, Body, Counting, pass, data
<1>1. ASSUME NEW f \in BOOLEAN, StartAcquire(r, f) PROVE SlotInv' /\ FlagInv' /\ CancelInv'
  BY <1>1 DEF StartAcquire
<1>2. CASE StartClear(r)
  BY <1>2 DEF StartClear
<1>3. ASSUME NEW w \in Workers, StartSpawn(r, w) PROVE SlotInv' /\ FlagInv' /\ CancelInv'
  BY <1>3 DEF StartSpawn
<1>4. CASE CancelCheck(r)
  BY <1>4 DEF CancelCheck
<1>5. CASE CancelSet(r)
  BY <1>5 DEF CancelSet
<1> QED
  BY <1>1, <1>2, <1>3, <1>4, <1>5 DEF Call, Handle

\* Counting the targets leaves the flag up.
LEMMA TargetsFlag ==
  ASSUME TypeOK, NEW w \in Workers, TakeTargets(w)
  PROVE  progress'.running = progress.running
<1>1. PICK n : n = Cardinality(targets')
  OBVIOUS
<1>2. progress' = [progress EXCEPT !.total = n]
  BY <1>1 DEF TakeTargets
<1>3. progress \in [running : BOOLEAN, total : 0..Cardinality(Tracks),
                   analyzed : 0..Cardinality(Tracks), failed : 0..Cardinality(Tracks)]
  BY DEF TypeOK
<1> QED
  BY <1>2, <1>3

\* They survive every step of an analysis thread: it is alone in the slot.
LEMMA WorkerSlot ==
  ASSUME IInv, NEW w \in Workers, Work(w)
  PROVE  SlotInv' /\ FlagInv' /\ CancelInv'
<1> USE DEF IInv, TypeOK, SlotInv, FlagInv, CancelInv, Starting, Body, Counting, pass, data,
            Goto, Error
<1>1. CASE Connect(w) \/ ConnectFails(w)
  BY <1>1, SMTT(30) DEF Connect, ConnectFails
<1>2. CASE Begin(w)
  BY <1>2 DEF Begin
<1>3. CASE TakeTargets(w)
  <2>1. /\ wpc[w] = "targets" /\ UNCHANGED <<lock, cancel, rpc, asked, ending>>
        /\ wpc' \in {[wpc EXCEPT ![w] = "results"], [wpc EXCEPT ![w] = "finally"]}
    BY <1>3 DEF TakeTargets
  <2>2. progress'.running = progress.running
    BY <1>3, TargetsFlag
  <2>3. ending = "all"
    BY <2>1 DEF PassInv
  <2> QED
    BY <2>1, <2>2, <2>3
<1>4. CASE QueryFails(w)
  BY <1>4 DEF QueryFails
<1>5. CASE CancelSeen(w) \/ ResultsDone(w)
  BY <1>5 DEF CancelSeen, ResultsDone
<1>6. ASSUME NEW t \in Tracks, NEW vec \in BOOLEAN, TakeResult(w, t, vec)
      PROVE  SlotInv' /\ FlagInv' /\ CancelInv'
  <2>1. /\ wpc[w] = "results" /\ UNCHANGED <<lock, cancel, rpc, asked>>
        /\ wpc' \in {wpc, [wpc EXCEPT ![w] = "results"], [wpc EXCEPT ![w] = "finally"]}
        /\ ending' \in {ending, "error"}
    BY <1>6 DEF TakeResult, _flush
  <2>2. progress'.running = progress.running
    BY <1>6 DEF TakeResult, _flush
  <2> QED
    BY <2>1, <2>2
<1>7. CASE LastBatch(w)
  BY <1>7 DEF LastBatch, _flush
<1>8. CASE Finally(w)
  BY <1>8 DEF Finally
<1>9. CASE Unwind(w)
  BY <1>9 DEF Unwind
<1>10. CASE Release(w)
  BY <1>10 DEF Release
<1> QED
  BY <1>1, <1>2, <1>3, <1>4, <1>5, <1>6, <1>7, <1>8, <1>9, <1>10 DEF Work
-----------------------------------------------------------------------------
(* What the pass has counted *)

\* Handlers and scans leave the account of the pass alone; a track that a scan
\* deletes is none of those the pass has to settle, and a new one was not
\* taken on.
LEMMA OthersPass ==
  ASSUME IInv, \/ \E r \in Requests : Call(r) \/ Handle(r)
               \/ \E t \in Tracks : ScanAdds(t) \/ ScanDeletes(t)
  PROVE  TypeOK' /\ PassInv'
<1> USE DEF IInv, TypeOK, PassInv, Body, Counting, pass, data, Pending, Counted,
            AllSettled, Settled, Present
<1>1. ASSUME NEW r \in Requests, NEW f \in BOOLEAN, StartAcquire(r, f) PROVE TypeOK' /\ PassInv'
  BY <1>1 DEF StartAcquire
<1>2. ASSUME NEW r \in Requests, StartClear(r) \/ CancelCheck(r) \/ CancelSet(r)
      PROVE  TypeOK' /\ PassInv'
  BY <1>2 DEF StartClear, CancelCheck, CancelSet
<1>3. ASSUME NEW r \in Requests, NEW w \in Workers, StartSpawn(r, w) PROVE TypeOK' /\ PassInv'
  BY <1>3 DEF StartSpawn
<1>4. ASSUME NEW t \in Tracks, ScanAdds(t) PROVE TypeOK' /\ PassInv'
  BY <1>4 DEF ScanAdds
<1>5. ASSUME NEW t \in Tracks, ScanDeletes(t) PROVE TypeOK' /\ PassInv'
  BY <1>5 DEF ScanDeletes
<1> QED
  BY <1>1, <1>2, <1>3, <1>4, <1>5, SMTT(30) DEF Call, Handle
\* Up to its targets and past its end, a thread counts nothing.
LEMMA EdgesPass ==
  ASSUME IInv, NEW w \in Workers,
         \/ Connect(w) \/ ConnectFails(w) \/ Begin(w) \/ QueryFails(w)
         \/ Finally(w) \/ Unwind(w) \/ Release(w)
  PROVE  TypeOK' /\ PassInv'
<1> USE DEF IInv, TypeOK, SlotInv, PassInv, Body, Counting, pass, data, Pending, Counted,
            AllSettled, Settled, Present, Goto, Error
<1>1. CASE Connect(w) \/ ConnectFails(w)
  BY <1>1 DEF Connect, ConnectFails
<1>2. CASE Begin(w)
  <2>1. /\ progress' = [running |-> TRUE, total |-> 0, analyzed |-> 0, failed |-> 0]
        /\ ending' = "all" /\ targets' = {} /\ wpc' = [wpc EXCEPT ![w] = "targets"]
        /\ wpc[w] = "begin"
        /\ UNCHANGED <<lock, cancel, rpc, force, asked, futures, batch, status, features>>
    BY <1>2 DEF Begin, NoProgress
  <2>2. futures = {}
    BY <2>1
  <2> QED
    BY <2>1, <2>2, Numbers
<1>3. CASE QueryFails(w)
  BY <1>3 DEF QueryFails
<1>4. CASE Finally(w)
  <2>1. /\ wpc[w] = "finally" /\ wpc' = [wpc EXCEPT ![w] = "unwind"] /\ futures' = {}
        /\ UNCHANGED <<lock, cancel, rpc, force, asked, batch, targets, ending, status, features>>
    BY <1>4 DEF Finally
  <2>2. /\ progress' \in [running : BOOLEAN, total : 0..Cardinality(Tracks),
                         analyzed : 0..Cardinality(Tracks), failed : 0..Cardinality(Tracks)]
        /\ progress'.total = progress.total /\ progress'.analyzed = progress.analyzed
        /\ progress'.failed = progress.failed
    BY <1>4 DEF Finally
  <2>3. TypeOK'
    BY <2>1, <2>2
  <2>4. ending = "all" => futures' = futures
    BY <2>1
  <2>5. \A v \in Workers : v # w => wpc'[v] = "idle"
    BY <2>1
  <2>6. wpc'[w] = "unwind" /\ Present' = Present
    BY <2>1
  <2>7. ending = "all" => Counted' = progress'.total /\ AllSettled'
    BY <2>1, <2>2, <2>4, <2>6
  <2> HIDE DEF AllSettled, Counted
  <2> QED
    BY <2>1, <2>3, <2>5, <2>6, <2>7
<1>5. CASE Unwind(w) \/ Release(w)
  <2>1. /\ wpc[w] \in {"unwind", "release"} /\ wpc' \in {[wpc EXCEPT ![w] = "release"], [wpc EXCEPT ![w] = "idle"]}
        /\ UNCHANGED <<progress, rpc, force, asked, pass, data>>
    BY <1>5 DEF Unwind, Release
  <2>2. TypeOK'
    BY <1>5, <2>1 DEF Unwind, Release
  <2>3. \A v \in Workers : wpc'[v] \in {"idle", "release"}
    BY <2>1
  <2>4. futures = {}
    BY <2>1
  <2> QED
    BY <2>1, <2>2, <2>3, <2>4
<1> QED
  BY <1>1, <1>2, <1>3, <1>4, <1>5
\* A pass takes on all that is there, or what has no current vector.
LEMMA TargetsPass ==
  ASSUME IInv, NEW w \in Workers, TakeTargets(w)
  PROVE  TypeOK' /\ PassInv'
<1> DEFINE T == IF force THEN Present ELSE Needing
<1>1. /\ wpc[w] = "targets" /\ targets' = T /\ futures' = T /\ batch' = << >>
      /\ wpc' = [wpc EXCEPT ![w] = IF T = {} THEN "finally" ELSE "results"]
      /\ UNCHANGED <<lock, cancel, rpc, force, asked, ending, status, features>>
  BY DEF TakeTargets, Goto, data
<1>2. progress' = [progress EXCEPT !.total = Cardinality(T)]
  BY <1>1 DEF TakeTargets
<1>3. T \in SUBSET Present /\ \A t \in Present \ T : features[t] = "current"
  BY DEF Needing
<1>4. T \in SUBSET Tracks
  BY <1>3 DEF Present
<1>5. Cardinality(T) \in 0..Cardinality(Tracks) /\ (Cardinality(T) = 0 <=> T = {})
  BY <1>4, TracksCount
<1> HIDE DEF T
<1>6. /\ progress'.total = Cardinality(T) /\ progress'.analyzed = 0 /\ progress'.failed = 0
      /\ ending = "all"
  BY <1>1, <1>2 DEF IInv, TypeOK, PassInv
<1>7. TypeOK'
  <2>1. progress' \in [running : BOOLEAN, total : 0..Cardinality(Tracks),
                       analyzed : 0..Cardinality(Tracks), failed : 0..Cardinality(Tracks)]
    BY <1>2, <1>5 DEF IInv, TypeOK
  <2>2. wpc' \in [Workers -> {"idle", "connect", "begin", "finally", "unwind", "release"} \cup Body]
    BY <1>1 DEF IInv, TypeOK, Body
  <2>3. batch' \in Seq(Tracks) /\ Len(batch') < _WRITE_BATCH
    BY <1>1, AnalysisAssumption
  <2> QED
    BY <1>1, <1>4, <2>1, <2>2, <2>3 DEF IInv, TypeOK
<1>8. Counted' = progress'.total /\ Pending' = T
  BY <1>1, <1>5, <1>6, RangeEmpty DEF Counted, Pending
<1>9. \A v \in Workers : v # w => wpc'[v] = "idle"
  BY <1>1 DEF IInv, TypeOK, SlotInv
<1>10. wpc'[w] = IF T = {} THEN "finally" ELSE "results"
  BY <1>1 DEF IInv, TypeOK
<1>11. \A t \in targets' : status'[t] # "unborn"
  BY <1>1, <1>3 DEF Present
<1>12. AllSettled'
  BY <1>1, <1>8 DEF AllSettled
<1> QED
  BY <1>1, <1>5, <1>6, <1>7, <1>8, <1>9, <1>10, <1>11, <1>12 DEF PassInv, Counting
\* A batch is written whole, and its tracks are settled, or the pass ends with
\* an error and nothing is.
LEMMA FlushOutcome ==
  ASSUME TypeOK, NEW w \in Workers, NEW rows \in Seq(Tracks), NEW next, _flush(w, rows, next),
         progress.analyzed + Len(rows) <= Cardinality(Tracks)
  PROVE  /\ batch' = << >>
         /\ progress' \in [running : BOOLEAN, total : 0..Cardinality(Tracks),
                           analyzed : 0..Cardinality(Tracks), failed : 0..Cardinality(Tracks)]
         /\ progress'.total = progress.total /\ progress'.failed = progress.failed
         /\ features' \in [Tracks -> {"none", "old", "current"}]
         /\ \/ /\ \A t \in Range(rows) : t \in Present /\ features'[t] = "current"
               /\ \A t \in Tracks : features[t] = "current" => features'[t] = "current"
               /\ progress'.analyzed = progress.analyzed + Len(rows)
               /\ wpc' = [wpc EXCEPT ![w] = next] /\ ending' = ending
            \/ /\ wpc' = [wpc EXCEPT ![w] = "finally"] /\ ending' = "error"
               /\ progress' = progress
<1>1. Range(rows) \subseteq Tracks
  BY DEF Range
<1>2. CASE Range(rows) \subseteq Present
  <2>1. /\ features' = [t \in Tracks |-> IF t \in Range(rows) THEN "current" ELSE features[t]]
        /\ progress' = [progress EXCEPT !.analyzed = @ + Len(rows)]
        /\ wpc' = [wpc EXCEPT ![w] = next] /\ ending' = ending /\ batch' = << >>
    BY <1>2 DEF _flush, Goto
  <2>2. progress.analyzed + Len(rows) \in 0..Cardinality(Tracks)
    BY Numbers
  <2>3. /\ progress' \in [running : BOOLEAN, total : 0..Cardinality(Tracks),
                          analyzed : 0..Cardinality(Tracks), failed : 0..Cardinality(Tracks)]
        /\ progress'.total = progress.total /\ progress'.failed = progress.failed
        /\ progress'.analyzed = progress.analyzed + Len(rows)
    BY <2>1, <2>2 DEF TypeOK
  <2> QED
    BY <1>1, <1>2, <2>1, <2>3 DEF TypeOK
<1>3. CASE ~(Range(rows) \subseteq Present)
  BY <1>3 DEF _flush, Error, Goto, TypeOK
<1> QED
  BY <1>2, <1>3
\* A result is counted as failed, kept for the batch, or written with it.
LEMMA ResultPass ==
  ASSUME IInv, NEW w \in Workers, NEW t \in Tracks, NEW vec \in BOOLEAN, TakeResult(w, t, vec)
  PROVE  TypeOK' /\ PassInv'
<1>1. /\ wpc[w] = "results" /\ t \in futures /\ futures' = futures \ {t}
      /\ UNCHANGED <<lock, cancel, rpc, force, asked, targets, status>>
      /\ vec \/ t \in Undecodable \/ t \notin Present
  BY DEF TakeResult, Extracted
<1>2. /\ ending = "all" /\ Counted = progress.total /\ progress.total = Cardinality(targets)
      /\ \A x \in targets : status[x] # "unborn"
      /\ AllSettled
  BY <1>1 DEF IInv, PassInv, Counting
<1>3. /\ Cardinality(futures) = Cardinality(futures') + 1 /\ Cardinality(futures') \in Nat
      /\ progress.total <= Cardinality(Tracks)
  <2>1. futures \in SUBSET Tracks /\ targets \in SUBSET Tracks
    BY DEF IInv, TypeOK
  <2> QED
    BY <1>1, <1>2, <2>1, OneTaken, TracksCount
<1>4. /\ Append(batch, t) \in Seq(Tracks) /\ Len(Append(batch, t)) = Len(batch) + 1
      /\ Range(Append(batch, t)) = Range(batch) \cup {t}
  BY AppendProperties, RangeAppend DEF IInv, TypeOK
<1>5. \A v \in Workers : v # w => wpc[v] = "idle"
  BY <1>1 DEF IInv, SlotInv
<1>6. Present' = Present
  BY <1>1 DEF Present
<1>7. futures' \subseteq targets' /\ targets' \subseteq Tracks
  BY <1>1 DEF IInv, TypeOK
<1>8. CASE ~vec
  <2>1. /\ progress' = [progress EXCEPT !.failed = @ + 1]
        /\ UNCHANGED <<batch, features, ending, wpc>>
    BY <1>8 DEF TakeResult
  <2>2. progress.failed + 1 \in 0..Cardinality(Tracks)
    BY <1>2, <1>3, Numbers DEF Counted, IInv
  <2>3. /\ progress' \in [running : BOOLEAN, total : 0..Cardinality(Tracks),
                          analyzed : 0..Cardinality(Tracks), failed : 0..Cardinality(Tracks)]
        /\ progress'.total = progress.total /\ progress'.analyzed = progress.analyzed
        /\ progress'.failed = progress.failed + 1
    BY <2>1, <2>2 DEF IInv, TypeOK
  <2>4. TypeOK'
    BY <1>1, <1>7, <2>1, <2>3 DEF IInv, TypeOK
  <2>5. Counted' = progress'.total
    BY <1>2, <1>3, <2>1, <2>3, Numbers DEF Counted, IInv
  <2>6. AllSettled'
    BY <1>1, <1>2, <1>6, <1>8, <2>1 DEF AllSettled, Settled, Pending
  <2> QED
    BY <1>1, <1>2, <1>5, <2>1, <2>3, <2>4, <2>5, <2>6, Numbers
       DEF PassInv, Counting
<1>9. CASE vec /\ Len(batch) + 1 < _WRITE_BATCH
  <2>1. batch' = Append(batch, t) /\ UNCHANGED <<features, progress, ending, wpc>>
    BY <1>9, AnalysisAssumption, Numbers DEF TakeResult, IInv
  <2>2. TypeOK'
    BY <1>1, <1>4, <1>7, <1>9, <2>1 DEF IInv, TypeOK
  <2>3. Len(batch') = Len(batch) + 1 /\ Range(batch') = Range(batch) \cup {t}
    BY <1>4, <2>1
  <2>4. UNCHANGED <<features, progress, ending, wpc>>
    BY <2>1
  <2>5. Counted' = progress'.total
    BY <1>2, <1>3, <2>3, <2>4, Numbers, SMTT(30) DEF Counted, IInv
  <2>6. AllSettled'
    BY <1>1, <1>2, <1>6, <2>3, <2>4 DEF AllSettled, Settled, Pending
  <2> QED
    BY <1>1, <1>2, <1>5, <2>2, <2>4, <2>5, <2>6, Numbers DEF IInv, PassInv, Counting
<1>10. CASE vec /\ Len(batch) + 1 >= _WRITE_BATCH
  <2>1. _flush(w, Append(batch, t), "results")
    BY <1>10 DEF TakeResult
  <2>2. progress.analyzed + Len(Append(batch, t)) <= Cardinality(Tracks)
    BY <1>2, <1>3, <1>4, Numbers DEF Counted, IInv
  <2> DEFINE
        written ==
        /\ \A x \in Range(batch) \cup {t} : x \in Present /\ features'[x] = "current"
        /\ \A x \in Tracks : features[x] = "current" => features'[x] = "current"
        /\ progress'.analyzed = progress.analyzed + Len(batch) + 1
        /\ wpc' = [wpc EXCEPT ![w] = "results"] /\ ending' = ending
        failed ==
        /\ wpc' = [wpc EXCEPT ![w] = "finally"] /\ ending' = "error"
        /\ progress' = progress
  <2>3. /\ batch' = << >>
        /\ progress' \in [running : BOOLEAN, total : 0..Cardinality(Tracks),
                          analyzed : 0..Cardinality(Tracks), failed : 0..Cardinality(Tracks)]
        /\ progress'.total = progress.total /\ progress'.failed = progress.failed
        /\ features' \in [Tracks -> {"none", "old", "current"}]
        /\ written \/ failed
    <3>1. TypeOK
      BY DEF IInv
    <3>2. progress.analyzed + (Len(batch) + 1) = progress.analyzed + Len(batch) + 1
      BY <3>1, Numbers
    <3> QED
      BY <1>4, <2>1, <2>2, <3>1, <3>2, FlushOutcome
  <2>4. TypeOK'
    <3>1. batch' \in Seq(Tracks) /\ Len(batch') < _WRITE_BATCH
      BY <2>3, AnalysisAssumption
    <3>2. /\ wpc' \in [Workers -> {"idle", "connect", "begin", "finally", "unwind", "release"} \cup Body]
          /\ ending' \in {"all", "cancel", "error"}
      BY <2>3 DEF IInv, TypeOK, Body
    <3> QED
      BY <1>1, <1>7, <2>3, <3>1, <3>2 DEF IInv, TypeOK
  <2>5. CASE written
    <3>1. Counted' = progress'.total
      <4>1. Len(batch') = 0
        BY <2>3
      <4>2. progress'.analyzed = progress.analyzed + Len(batch) + 1
        BY <2>5
      <4>3. progress'.total = progress.total /\ progress'.failed = progress.failed
        BY <2>3
      <4>4. /\ progress.analyzed \in Nat /\ progress.failed \in Nat /\ Len(batch) \in Nat
            /\ Cardinality(futures') \in Nat
        BY <1>3, Numbers DEF IInv
      <4> HIDE DEF written, failed
      <4> QED
        BY <1>2, <1>3, <4>1, <4>2, <4>3, <4>4 DEF Counted
    <3>2. AllSettled'
      <4> SUFFICES ASSUME NEW x \in targets \cap Present, x \notin futures' PROVE Settled(x)'
        BY <1>1, <1>6, <2>3 DEF AllSettled, Pending
      <4>1. CASE x \in Range(batch) \cup {t}
        BY <2>5, <4>1 DEF Settled
      <4>2. CASE x \notin Range(batch) \cup {t}
        BY <1>1, <1>2, <1>7, <2>5, <4>2 DEF AllSettled, Settled, Pending
      <4> QED
        BY <4>1, <4>2
    <3>3. \A v \in Workers : wpc'[v] = IF v = w THEN "results" ELSE "idle"
      BY <1>5, <2>5 DEF IInv, TypeOK
    <3> QED
      BY <1>1, <1>2, <2>3, <2>4, <2>5, <3>1, <3>2, <3>3, Numbers
         DEF PassInv, Counting
  <2>6. CASE failed
    <3>1. \A v \in Workers : wpc'[v] = IF v = w THEN "finally" ELSE "idle"
      BY <1>5, <2>6 DEF IInv, TypeOK
    <3> QED
      BY <1>1, <1>2, <2>4, <2>6, <3>1 DEF PassInv, Counting
  <2> QED
    BY <2>3, <2>5, <2>6
<1> QED
  BY <1>8, <1>9, <1>10, AnalysisAssumption, Numbers DEF IInv
\* So is the batch that is left when the results are over or a cancel was seen.
LEMMA LastPass ==
  ASSUME IInv, NEW w \in Workers, CancelSeen(w) \/ ResultsDone(w) \/ LastBatch(w)
  PROVE  TypeOK' /\ PassInv'
<1>1. \A v \in Workers : v # w => wpc[v] = "idle"
  BY DEF IInv, SlotInv, CancelSeen, ResultsDone, LastBatch
<1>2. CASE CancelSeen(w)
  <2>1. /\ wpc[w] = "results" /\ ending' = "cancel" /\ futures' = {}
        /\ wpc' = [wpc EXCEPT ![w] = "last"]
        /\ UNCHANGED <<lock, cancel, progress, rpc, force, asked, batch, targets, status, features>>
    BY <1>2 DEF CancelSeen, Goto, data
  <2>2. TypeOK'
    BY <2>1 DEF IInv, TypeOK, Body
  <2>3. Counted' <= progress'.total
    <3>1. Cardinality(futures') = 0
      BY <2>1, FS_EmptySet
    <3>2. Counted <= progress.total
      BY <2>1 DEF IInv, PassInv
    <3> QED
      BY <2>1, <3>1, <3>2, Numbers DEF Counted, IInv
  <2> QED
    BY <1>1, <2>1, <2>2, <2>3 DEF IInv, TypeOK, PassInv, Counting
<1>3. CASE ResultsDone(w)
  <2>1. /\ wpc[w] = "results" /\ wpc' = [wpc EXCEPT ![w] = "last"] /\ futures = {}
        /\ UNCHANGED <<lock, cancel, progress, rpc, force, asked, futures, batch, targets,
                       ending, status, features>>
    BY <1>3 DEF ResultsDone, Goto, data, pass
  <2>2. TypeOK'
    BY <2>1 DEF IInv, TypeOK, Body
  <2>3. Counted' = Counted /\ AllSettled' = AllSettled
    BY <2>1 DEF Counted, AllSettled, Settled, Pending, Present
  <2> QED
    BY <1>1, <2>1, <2>2, <2>3 DEF IInv, TypeOK, PassInv, Counting
<1>4. CASE LastBatch(w) /\ batch # << >> /\ ~cancel
  <2>1. /\ wpc[w] = "last" /\ _flush(w, batch, "finally")
        /\ UNCHANGED <<lock, cancel, rpc, force, asked, futures, targets, status>>
    BY <1>4 DEF LastBatch
  <2>2. /\ futures = {} /\ Counted <= progress.total /\ progress.total <= Cardinality(Tracks)
        /\ ending = "all" => Counted = progress.total /\ AllSettled
        /\ \A x \in targets : status[x] # "unborn"
    <3>1. targets \in SUBSET Tracks
      BY DEF IInv, TypeOK
    <3> QED
      BY <2>1, <3>1, TracksCount DEF IInv, PassInv, Counting
  <2>3. Cardinality(futures) = 0 /\ futures' = {}
    BY <2>1, <2>2, FS_EmptySet
  <2>4. progress.analyzed + Len(batch) <= Cardinality(Tracks)
    BY <2>2, Numbers DEF Counted, IInv
  <2> DEFINE
        written ==
        /\ \A x \in Range(batch) : x \in Present /\ features'[x] = "current"
        /\ \A x \in Tracks : features[x] = "current" => features'[x] = "current"
        /\ progress'.analyzed = progress.analyzed + Len(batch)
        /\ ending' = ending
        failed == ending' = "error"
  <2>5. /\ batch' = << >> /\ wpc' = [wpc EXCEPT ![w] = "finally"]
        /\ progress' \in [running : BOOLEAN, total : 0..Cardinality(Tracks),
                          analyzed : 0..Cardinality(Tracks), failed : 0..Cardinality(Tracks)]
        /\ progress'.total = progress.total /\ progress'.failed = progress.failed
        /\ features' \in [Tracks -> {"none", "old", "current"}]
        /\ written \/ failed
    BY <2>1, <2>4, FlushOutcome DEF IInv, TypeOK
  <2>6. TypeOK'
    <3>1. batch' \in Seq(Tracks) /\ Len(batch') < _WRITE_BATCH
      BY <2>5, AnalysisAssumption
    <3>2. /\ wpc' \in [Workers -> {"idle", "connect", "begin", "finally", "unwind", "release"} \cup Body]
          /\ ending' \in {"all", "cancel", "error"}
      BY <2>5 DEF IInv, TypeOK, Body
    <3> QED
      BY <2>1, <2>5, <3>1, <3>2 DEF IInv, TypeOK
  <2>7. ending' = "all" => Counted' = progress'.total /\ AllSettled'
    <3> SUFFICES ASSUME ending' = "all" PROVE Counted' = progress'.total /\ AllSettled'
      OBVIOUS
    <3>1. written /\ Counted = progress.total /\ AllSettled
      BY <2>2, <2>5
    <3>2. Len(batch') = 0
      BY <2>5
    <3>3. progress'.analyzed = progress.analyzed + Len(batch)
      BY <3>1
    <3>4. Counted' = progress'.total
      <4>1. progress'.total = progress.total /\ progress'.failed = progress.failed
        BY <2>5
      <4>2. /\ progress.analyzed \in Nat /\ progress.failed \in Nat /\ Len(batch) \in Nat
        BY Numbers DEF IInv
      <4> HIDE DEF written, failed
      <4>3. Cardinality(futures') = 0
        BY <2>1, <2>3
      <4> QED
        BY <2>3, <3>1, <3>2, <3>3, <4>1, <4>2, <4>3 DEF Counted
    <3>5. AllSettled'
      <4> SUFFICES ASSUME NEW x \in targets \cap Present PROVE Settled(x)'
        BY <2>1 DEF AllSettled, Present
      <4>1. x \in Tracks
        BY DEF Present
      <4>2. CASE x \in Range(batch)
        BY <3>1, <4>2 DEF Settled
      <4>3. CASE x \notin Range(batch)
        BY <2>2, <3>1, <4>1, <4>3 DEF AllSettled, Settled, Pending
      <4> QED
        BY <4>2, <4>3
    <3> QED
      BY <3>4, <3>5
  <2>8. \A v \in Workers : wpc'[v] = IF v = w THEN "finally" ELSE "idle"
    BY <1>1, <2>5 DEF IInv, TypeOK
  <2> HIDE DEF written, failed
  <2> QED
    BY <2>1, <2>2, <2>3, <2>5, <2>6, <2>7, <2>8 DEF PassInv, Counting
<1>5. CASE LastBatch(w) /\ ~(batch # << >> /\ ~cancel)
  <2>1. /\ wpc[w] = "last" /\ batch' = << >> /\ wpc' = [wpc EXCEPT ![w] = "finally"]
        /\ ending' = IF batch # << >> THEN "cancel" ELSE ending
        /\ UNCHANGED <<lock, cancel, progress, rpc, force, asked, futures, targets, status, features>>
    BY <1>5 DEF LastBatch, Goto
  <2>2. TypeOK'
    BY <2>1, AnalysisAssumption DEF IInv, TypeOK, Body
  <2>3. ending' = "all" => batch' = batch
    BY <2>1
  <2>4. ending' = "all" => Counted' = progress'.total /\ AllSettled'
    BY <2>1, <2>3 DEF IInv, PassInv, Counting, Counted, AllSettled, Settled, Pending, Present
  <2>5. futures' = {}
    BY <2>1 DEF IInv, PassInv
  <2>6. \A v \in Workers : wpc'[v] = IF v = w THEN "finally" ELSE "idle"
    BY <1>1, <2>1 DEF IInv, TypeOK
  <2> QED
    BY <2>1, <2>2, <2>4, <2>5, <2>6 DEF IInv, PassInv, Counting
<1> QED
  BY <1>2, <1>3, <1>4, <1>5
-----------------------------------------------------------------------------
(* The theorems *)

\* What the server finds when it starts satisfies the invariant.
LEMMA InitIInv == Init => IInv
<1> SUFFICES ASSUME Init PROVE IInv
  OBVIOUS
<1>1. TypeOK
  <2>1. Cardinality(Tracks) \in Nat
    BY TracksCount
  <2>2. progress \in [running : BOOLEAN, total : 0..Cardinality(Tracks),
                      analyzed : 0..Cardinality(Tracks), failed : 0..Cardinality(Tracks)]
    BY <2>1 DEF Init, NoProgress
  <2>3. features \in [Tracks -> {"none", "old", "current"}]
    BY DEF Init
  <2>4. batch \in Seq(Tracks) /\ Len(batch) < _WRITE_BATCH
    BY AnalysisAssumption DEF Init
  <2> QED
    BY <2>2, <2>3, <2>4 DEF Init, TypeOK
<1>2. SlotInv /\ FlagInv /\ CancelInv
  BY DEF Init, SlotInv, FlagInv, CancelInv, Starting, Body, Counting
<1>3. PassInv
  BY DEF Init, PassInv, Counting
<1> QED
  BY <1>1, <1>2, <1>3 DEF IInv

\* The invariant is inductive.
LEMMA StepIInv == IInv /\ [Next]_vars => IInv'
<1> SUFFICES ASSUME IInv, [Next]_vars PROVE IInv'
  OBVIOUS
<1>1. ASSUME NEW r \in Requests, Call(r) \/ Handle(r) PROVE IInv'
  BY <1>1, HandlerSlot, OthersPass DEF IInv
<1>2. ASSUME NEW w \in Workers, Work(w) PROVE IInv'
  <2>1. SlotInv' /\ FlagInv' /\ CancelInv'
    BY <1>2, WorkerSlot
  <2>2. TypeOK' /\ PassInv'
    BY <1>2, EdgesPass, TargetsPass, ResultPass, LastPass DEF Work
  <2> QED
    BY <2>1, <2>2 DEF IInv
<1>3. ASSUME NEW t \in Tracks, ScanAdds(t) \/ ScanDeletes(t) PROVE IInv'
  <2>1. UNCHANGED <<lock, cancel, progress, wpc, rpc, asked, ending>>
    BY <1>3 DEF ScanAdds, ScanDeletes, pass
  <2>2. SlotInv' /\ FlagInv' /\ CancelInv'
    BY <2>1 DEF IInv, SlotInv, FlagInv, CancelInv
  <2> QED
    BY <1>3, <2>2, OthersPass DEF IInv
<1>4. CASE UNCHANGED vars
  BY <1>4 DEF vars, IInv, TypeOK, SlotInv, FlagInv, CancelInv, PassInv, Counted, Pending,
              AllSettled, Settled, Present
<1> QED
  BY <1>1, <1>2, <1>3, <1>4 DEF Next

\* The invariant holds throughout every behaviour of the server.
THEOREM InductiveInvariant == Spec => []IInv
  BY InitIInv, StepIInv, PTL DEF Spec

\* Every variable keeps its type; the numbers shown never exceed the library.
THEOREM TypeCorrect == Spec => []TypeOK
<1>1. IInv => TypeOK
  BY DEF IInv
<1> QED
  BY <1>1, InductiveInvariant, PTL

\* A pass that was not broken off has given every track it took on and that is
\* still there a current vector, if it can be decoded, and counted each once;
\* one that was broken off for a cancel was asked to, during that pass.
THEOREM CompletePassIsComplete == Spec => []CompletePassLeavesNothingOut
<1>1. IInv => CompletePassLeavesNothingOut
  <2> SUFFICES ASSUME IInv PROVE CompletePassLeavesNothingOut
    OBVIOUS
  <2>1. ASSUME NEW w \in Workers, wpc[w] = "unwind", ending = "all"
        PROVE  /\ \A t \in targets \cap Present : features[t] = "current" \/ t \in Undecodable
               /\ progress.analyzed + progress.failed = progress.total
    <3>1. futures = {} /\ batch = << >> /\ Counted = progress.total /\ AllSettled
      BY <2>1 DEF IInv, PassInv, Counting
    <3>2. Pending = {}
      BY <3>1, RangeEmpty DEF Pending
    <3>3. Len(batch) = 0 /\ Cardinality(futures) = 0
      BY <3>1, FS_EmptySet
    <3> QED
      BY <3>1, <3>2, <3>3, Numbers DEF AllSettled, Settled, Counted, IInv
  <2>2. ASSUME NEW w \in Workers, wpc[w] = "unwind", ending = "cancel" PROVE asked
    BY <2>2 DEF IInv, CancelInv, Counting
  <2> QED
    BY <2>1, <2>2 DEF CompletePassLeavesNothingOut, IInv
<1> QED
  BY <1>1, InductiveInvariant, PTL

\* Nobody but a thread whose connection failed leaves the lock taken with no
\* thread or handler left to release it.
THEOREM OnlyAFailedConnectionLosesTheLock == Spec => LocksAreNotLost
<1> DEFINE Lost == HeldByNone' => HeldByNone \/ \E w \in Workers : ConnectFails(w)
<1>1. IInv /\ [Next]_vars => [Lost]_vars
  <2> SUFFICES ASSUME IInv, Next PROVE Lost
    OBVIOUS
  <2> USE DEF HeldByNone, IInv, TypeOK, Body, Goto, Error
  <2>1. ASSUME NEW r \in Requests, Call(r) \/ Handle(r) PROVE Lost
    BY <2>1 DEF Call, StartAcquire, CancelCheck, Handle, StartClear, StartSpawn, CancelSet
  <2>2. ASSUME NEW w \in Workers, Work(w), ~ConnectFails(w), ~Release(w)
        PROVE  wpc'[w] # "idle"
    BY <2>2 DEF Work, Connect, Begin, TakeTargets, QueryFails, CancelSeen, TakeResult, _flush,
                ResultsDone, LastBatch, Finally, Unwind
  <2>3. ASSUME NEW w \in Workers, Release(w) PROVE ~lock'
    BY <2>3 DEF Release
  <2>4. ASSUME NEW t \in Tracks, ScanAdds(t) \/ ScanDeletes(t) PROVE Lost
    BY <2>4 DEF ScanAdds, ScanDeletes
  <2> QED
    BY <2>1, <2>2, <2>3, <2>4 DEF Next
<1> QED
  BY <1>1, InductiveInvariant, PTL DEF Spec, LocksAreNotLost

-----------------------------------------------------------------------------
(* Refinement *)

Active == {w \in Workers : wpc[w] \in Body}
running == progress.running

\* Every step of the server is a step of the abstract job, or none.
LEMMA JobStep == IInv /\ [Next]_vars => [Job!Next]_<<Active, running>>
<1> SUFFICES ASSUME IInv, [Next]_vars PROVE [Job!Next]_<<Active, running>>
  OBVIOUS
<1> USE DEF Active, running, Body, Goto, Error
<1>1. ASSUME NEW w \in Workers, Begin(w) PROVE Job!Start(w)
  BY <1>1 DEF Begin, NoProgress, Job!Start, IInv, TypeOK, SlotInv
<1>2. ASSUME NEW w \in Workers, wpc[w] \in Body, progress'.running = progress.running,
             wpc' \in {wpc} \cup {[wpc EXCEPT ![w] = l] : l \in {"results", "last", "finally"}}
      PROVE  Job!Leave(w) \/ UNCHANGED <<Active, running>>
  BY <1>2 DEF Job!Leave, IInv, TypeOK, SlotInv
<1>3. ASSUME NEW w \in Workers,
             \/ TakeTargets(w) \/ QueryFails(w) \/ CancelSeen(w) \/ ResultsDone(w) \/ LastBatch(w)
             \/ \E t \in Tracks, vec \in BOOLEAN : TakeResult(w, t, vec)
      PROVE  Job!Leave(w) \/ UNCHANGED <<Active, running>>
  <2>1. CASE TakeTargets(w)
    <3>1. progress'.running = progress.running
      BY <2>1, TargetsFlag DEF IInv
    <3> QED
      BY <1>2, <2>1, <3>1 DEF TakeTargets
  <2>2. CASE QueryFails(w) \/ CancelSeen(w) \/ ResultsDone(w)
    BY <1>2, <2>2 DEF QueryFails, CancelSeen, ResultsDone
  <2>3. CASE LastBatch(w)
    <3>1. progress'.running = progress.running
      BY <2>3 DEF LastBatch, _flush, IInv, TypeOK
    <3>2. wpc[w] = "last" /\ wpc' = [wpc EXCEPT ![w] = "finally"]
      BY <2>3 DEF LastBatch, _flush
    <3> QED
      BY <1>2, <3>1, <3>2
  <2>4. ASSUME NEW t \in Tracks, NEW vec \in BOOLEAN, TakeResult(w, t, vec)
        PROVE  Job!Leave(w) \/ UNCHANGED <<Active, running>>
    <3>1. progress'.running = progress.running
      BY <2>4 DEF TakeResult, _flush, IInv, TypeOK
    <3>2. /\ wpc[w] = "results"
          /\ wpc' \in {wpc, [wpc EXCEPT ![w] = "results"], [wpc EXCEPT ![w] = "finally"]}
      BY <2>4 DEF TakeResult, _flush
    <3> QED
      BY <1>2, <3>1, <3>2
  <2> QED
    BY <1>3, <2>1, <2>2, <2>3, <2>4
<1>4. ASSUME NEW w \in Workers, Finally(w) PROVE Job!Retract
  BY <1>4 DEF Finally, Job!Retract, IInv, TypeOK, SlotInv
<1>5. ASSUME NEW w \in Workers, Connect(w) \/ ConnectFails(w) \/ Unwind(w) \/ Release(w)
      PROVE  UNCHANGED <<Active, running>>
  BY <1>5 DEF Connect, ConnectFails, Unwind, Release, IInv, TypeOK
<1>6. ASSUME NEW r \in Requests, Call(r) \/ Handle(r) PROVE UNCHANGED <<Active, running>>
  BY <1>6 DEF Call, StartAcquire, CancelCheck, Handle, StartClear, StartSpawn, CancelSet,
              IInv, TypeOK
<1>7. ASSUME NEW t \in Tracks, ScanAdds(t) \/ ScanDeletes(t) PROVE UNCHANGED <<Active, running>>
  BY <1>7 DEF ScanAdds, ScanDeletes
<1>8. CASE UNCHANGED vars
  BY <1>8 DEF vars
<1>9. ASSUME NEW w \in Workers, Work(w) PROVE Job!Next \/ UNCHANGED <<Active, running>>
  BY <1>9, <1>1, <1>3, <1>4, <1>5 DEF Work, Job!Next
<1> QED
  BY <1>6, <1>7, <1>8, <1>9 DEF Next

\* An analysis pass is the exclusive, announced job that the interface polls.
THEOREM RefinesExclusiveJob == Spec => ImplementsExclusiveJob
<1>1. Init => Job!Init
  BY DEF Init, NoProgress, Job!Init, Active, running, Body
<1> QED
  BY <1>1, JobStep, InductiveInvariant, PTL
     DEF Spec, ImplementsExclusiveJob, Job!Spec, Active, running
=============================================================================
