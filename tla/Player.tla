------------------------------- MODULE Player -------------------------------
(***************************************************************************)
(* The browser's player (frontend/src/player.ts) in one tab, with the      *)
(* queue the server keeps: the restore at page load, saves that may be     *)
(* lost or overtake each other, the refill of endless mode, and the        *)
(* callbacks of the audio element, in any order. Another client saves      *)
(* queues, and scans delete tracks.                                        *)
(*                                                                         *)
(* Inside a handler nothing else runs; what follows an await is an action  *)
(* of its own. index counts from 1, and 0 is the code's -1. Of the play    *)
(* position only "not at the start" is kept.                               *)
(***************************************************************************)
EXTENDS PlayQueue, FiniteSets

CONSTANTS Lists,        \* lists of tracks a user plays or enqueues
          Fresh,        \* tracks that continue_from can find (Radio)
          REFILL_WHEN_REMAINING,
          MaxQueue, MaxClicks, MaxOthers, MaxLost, MaxSaves

\* The lists fit into the bound, and the radio finds tracks.
ASSUME PlayerAssumption ==
    /\ NoTrack \notin Tracks
    /\ Lists \subseteq {q \in Seq(Tracks) : Len(q) <= MaxQueue} /\ Fresh \subseteq Tracks
    /\ REFILL_WHEN_REMAINING \in Nat
    /\ {MaxQueue, MaxClicks, MaxOthers, MaxLost, MaxSaves} \subseteq Nat

VARIABLES queue, index,
          src,          \* the track the audio element was pointed at
          playing,      \* not paused
          ticking,      \* the position timer runs
          loaded,       \* its metadata has been loaded
          partway,      \* currentTime > 0
          pending,      \* pendingRestorePosition > 0
          restore,      \* step of restore(), and what the server answered
          autoplay,
          refill,       \* the ids excluded by the request in flight, or NoRefill
          ended,        \* ended handlers that wait for the refill
          saves,        \* save requests in flight
          clicks, others, lost  \* bounded counts

tabVars == <<queue, index, src, playing, ticking, loaded, partway, pending, autoplay,
             refill, ended>>
bounds == <<clicks, others, lost>>
playerVars == <<queueVars, tabVars, restore, saves, bounds>>

NoRefill == {"none"}
Asked == [step |-> "header", row |-> NoHeader, list |-> << >>]
Restored == [Asked EXCEPT !.step = "done"]

PlayerInit ==
    /\ tracks = Tracks /\ QueueInit(Lists)
    /\ queue = << >> /\ index = 0 /\ src = NoTrack
    /\ playing = FALSE /\ ticking = FALSE
    /\ loaded = FALSE /\ partway = FALSE /\ pending = FALSE
    /\ restore = Asked
    /\ autoplay \in BOOLEAN
    /\ refill = NoRefill /\ ended = 0
    /\ saves = << >>
    /\ clicks = 0 /\ others = 0 /\ lost = 0

-----------------------------------------------------------------------------
Restoring == restore.step # "done"      \* suppressSave
Room(n) == Len(saves) + n <= MaxSaves

Snapshot(q, i, p) == [ids |-> q, index |-> IF i \in DOMAIN q THEN i ELSE 1, partway |-> p]

(* save(): the requests in flight afterwards.                              *)
WithSave(list, q, i, p) ==
    IF Restoring \/ q = << >> THEN list ELSE Append(list, Snapshot(q, i, p))

Remaining(q, i) == Len(q) - i

maybeRefill(q, i) ==
    IF autoplay /\ refill = NoRefill /\ i > 0 /\ Remaining(q, i) <= REFILL_WHEN_REMAINING
    THEN refill' = Range(q) ELSE UNCHANGED refill

(* audio.src = ...: the element pauses without an event, so that the timer *)
(* of the track before may go on; play() may be rejected.                  *)
PointAt(t) == src' = t /\ loaded' = FALSE /\ partway' = FALSE
Play_NoTimer == playing' \in BOOLEAN /\ UNCHANGED ticking    \* mutant: started once
Play == playing' \in BOOLEAN /\ ticking' = (ticking \/ playing')

playAt_KeepsSrc(q, i, list) ==          \* mutant: the element goes on with its track
    /\ queue' = q /\ index' = i
    /\ UNCHANGED <<src, loaded, partway>> /\ Play
    /\ saves' = WithSave(list, q, i, partway)
    /\ maybeRefill(q, i)
    /\ UNCHANGED <<pending, autoplay>>
playAt(q, i, list) ==
    /\ queue' = q /\ index' = i
    /\ PointAt(q[i]) /\ Play
    /\ saves' = WithSave(list, q, i, FALSE)
    /\ maybeRefill(q, i)
    /\ UNCHANGED <<pending, autoplay>>

-----------------------------------------------------------------------------
(* What the user does.                                                     *)

Click == clicks < MaxClicks /\ clicks' = clicks + 1 /\ UNCHANGED <<others, lost>>

PlayList_DropsRefill(q, i) ==           \* mutant: forgets the request in flight
    /\ Click /\ Room(1) /\ i \in DOMAIN q
    /\ queue' = q /\ index' = i /\ PointAt(q[i]) /\ Play
    /\ saves' = WithSave(saves, q, i, FALSE)
    /\ refill' = NoRefill
    /\ UNCHANGED <<pending, autoplay, ended, restore, queueVars>>
PlayList(q, i) ==
    /\ Click /\ Room(1) /\ i \in DOMAIN q
    /\ playAt(q, i, saves)
    /\ UNCHANGED <<ended, restore, queueVars>>

Enqueue(q) ==
    /\ Click /\ Room(1) /\ Len(queue) + Len(q) <= MaxQueue
    /\ queue' = queue \o q
    /\ saves' = WithSave(saves, queue', index, partway)
    /\ UNCHANGED <<index, src, playing, ticking, loaded, partway, pending, autoplay, refill, ended,
                   restore, queueVars>>

(* jumpTo, next, and prev near the start of a track.                       *)
Jump(i) ==
    /\ Click /\ Room(1) /\ i \in DOMAIN queue
    /\ playAt(queue, i, saves)
    /\ UNCHANGED <<ended, restore, queueVars>>

Seek(p) ==
    /\ Click /\ index > 0 /\ loaded
    /\ partway' = p
    /\ UNCHANGED <<queue, index, src, playing, ticking, loaded, pending, autoplay, refill,
                   ended, restore, saves, queueVars>>

Toggle ==
    /\ Click /\ Room(1) /\ index > 0
    /\ IF playing THEN /\ playing' = FALSE /\ ticking' = FALSE
                       /\ saves' = WithSave(saves, queue, index, partway)
       ELSE Play /\ UNCHANGED saves
    /\ UNCHANGED <<queue, index, src, loaded, partway, pending, autoplay, refill, ended,
                   restore, queueVars>>

setAutoplay ==
    /\ Click
    /\ autoplay' = ~autoplay
    /\ IF autoplay' /\ refill = NoRefill /\ index > 0
          /\ Remaining(queue, index) <= REFILL_WHEN_REMAINING
       THEN refill' = Range(queue) ELSE UNCHANGED refill
    /\ UNCHANGED <<queue, index, src, playing, ticking, loaded, partway, pending, ended,
                   restore, saves, queueVars>>

(* pagehide saves; the page loaded next restores, maybe before that save   *)
(* arrives.                                                                *)
Reload ==
    /\ Click /\ Room(1)
    /\ saves' = WithSave(saves, queue, index, partway)
    /\ queue' = << >> /\ index' = 0 /\ PointAt(NoTrack)
    /\ playing' = FALSE /\ ticking' = FALSE /\ pending' = FALSE
    /\ refill' = NoRefill /\ ended' = 0
    /\ restore' = Asked
    /\ UNCHANGED <<autoplay, queueVars>>

-----------------------------------------------------------------------------
(* The audio element and the timers.                                       *)

loadedmetadata ==
    /\ src # NoTrack /\ ~loaded
    /\ loaded' = TRUE /\ pending' = FALSE
    /\ partway' = (partway \/ pending)
    /\ UNCHANGED <<queue, index, src, playing, ticking, autoplay, refill, ended, restore,
                   saves, queueVars, bounds>>

timeupdate ==
    /\ playing /\ loaded /\ ~partway
    /\ partway' = TRUE
    /\ UNCHANGED <<queue, index, src, playing, ticking, loaded, pending, autoplay, refill,
                   ended, restore, saves, queueVars, bounds>>

(* The element pauses itself, which saves, and fires ended. At the tail,   *)
(* endless mode waits for the refill in flight or starts one. MaxSaves     *)
(* bounds the handlers that wait, too.                                     *)
Ended ==
    /\ playing /\ loaded /\ partway /\ Room(2)
    /\ LET list == WithSave(saves, queue, index, TRUE) IN
       IF index < Len(queue)
       THEN playAt(queue, index + 1, list) /\ UNCHANGED ended
       ELSE /\ ended + 1 < MaxSaves
            /\ playing' = FALSE /\ ticking' = FALSE
            /\ saves' = list
            /\ maybeRefill(queue, index)
            /\ ended' = IF autoplay THEN ended + 1 ELSE ended
            /\ UNCHANGED <<queue, index, src, loaded, partway, pending, autoplay>>
    /\ UNCHANGED <<restore, queueVars, bounds>>

(* startPositionTimer: every ten seconds of playback.                      *)
positionTimer ==
    /\ ticking /\ Room(1)
    /\ saves' = WithSave(saves, queue, index, partway)
    /\ UNCHANGED <<tabVars, restore, queueVars, bounds>>

-----------------------------------------------------------------------------
(* Endless mode: the answer of /api/radio/continue.                        *)

Continuations(excluded) ==
    {s \in UNION {[1..n -> Fresh] : n \in 0..2} :
        /\ Range(s) \cap excluded = {}
        /\ \A i, j \in DOMAIN s : s[i] = s[j] => i = j
        /\ Range(s) \subseteq tracks}

ToAdd(fresh) == Kept(fresh, Tracks \ Range(queue))

(* Each ended handler then goes one track on, or pauses at the tail.       *)
Refilled(toAdd) ==
    LET q == queue \o toAdd
        k == IF ended < Len(q) - index THEN ended ELSE Len(q) - index
        list == IF toAdd = << >> THEN saves ELSE WithSave(saves, q, index, partway)
    IN  /\ queue' = q /\ index' = index + k
        /\ IF k > 0
           THEN /\ PointAt(q[index + k])
                /\ saves' = IF Restoring THEN list
                            ELSE list \o [j \in 1..k |-> Snapshot(q, index + j, FALSE)]
                /\ refill' = IF autoplay /\ Remaining(q, index + k) <= REFILL_WHEN_REMAINING
                             THEN Range(q) ELSE NoRefill
           ELSE saves' = list /\ refill' = NoRefill /\ UNCHANGED <<src, loaded, partway>>
        /\ IF ended > k THEN playing' = FALSE /\ ticking' \in {FALSE, ticking}
           ELSE IF k > 0 THEN Play ELSE UNCHANGED <<playing, ticking>>
        /\ UNCHANGED <<pending, autoplay>>

RefillArrives ==
    /\ refill # NoRefill /\ Room(1 + ended)
    /\ \E fresh \in Continuations(refill) :
          /\ Len(queue) + Len(fresh) <= MaxQueue
          /\ Refilled(ToAdd(fresh))
    /\ ended' = 0
    /\ UNCHANGED <<restore, queueVars, bounds>>

-----------------------------------------------------------------------------
(* restore(): the server reads the header and the entries one after the    *)
(* other; an answer without entries changes nothing.                       *)

RestoreHeader ==
    /\ restore.step = "header"
    /\ restore' = [restore EXCEPT !.step = "entries", !.row = header]
    /\ UNCHANGED <<tabVars, saves, queueVars, bounds>>

RestoreEntries ==
    /\ restore.step = "entries"
    /\ restore' = [restore EXCEPT !.step = "answer", !.list = entries]
    /\ UNCHANGED <<tabVars, saves, queueVars, bounds>>

RestoredIndex(row, list) ==
    IF CurrentIndex(row, list) \in DOMAIN list THEN CurrentIndex(row, list) ELSE 1

RestoreArrives ==
    /\ restore.step = "answer"
    /\ IF ~restore.row.saved \/ restore.list = << >> THEN UNCHANGED tabVars
       ELSE /\ queue' = restore.list
            /\ index' = RestoredIndex(restore.row, restore.list)
            /\ PointAt(restore.list[index'])
            /\ playing' = FALSE
            /\ pending' = restore.row.partway
            /\ UNCHANGED <<ticking, autoplay, refill, ended>>
    /\ restore' = Restored
    /\ UNCHANGED <<saves, queueVars, bounds>>

RestoreFails ==
    /\ Restoring /\ lost < MaxLost
    /\ lost' = lost + 1
    /\ restore' = Restored
    /\ UNCHANGED <<tabVars, saves, queueVars, clicks, others>>

-----------------------------------------------------------------------------
(* Requests in flight are served in any order, or lost.                    *)

SaveArrives(k) ==
    /\ k \in DOMAIN saves
    /\ save_play_queue_by_index(saves[k].ids, saves[k].index, saves[k].partway)
    /\ saves' = RemoveAt(saves, k)
    /\ UNCHANGED <<tabVars, restore, bounds>>

SaveLost(k) ==
    /\ k \in DOMAIN saves /\ lost < MaxLost
    /\ lost' = lost + 1
    /\ saves' = RemoveAt(saves, k)
    /\ UNCHANGED <<tabVars, restore, queueVars, clicks, others>>

(* The same user's other client, by index or by id.                        *)
OtherSaves(q) ==
    /\ others < MaxOthers /\ others' = others + 1
    /\ \E i \in DOMAIN q, p \in BOOLEAN :
          save_play_queue_by_index(q, i, p) \/ save_play_queue(q, q[i], p)
    /\ UNCHANGED <<tabVars, restore, saves, clicks, lost>>

ScanDeletes(t) ==
    /\ others < MaxOthers /\ others' = others + 1
    /\ DeleteTrack(t)
    /\ UNCHANGED <<tabVars, restore, saves, clicks, lost>>

User ==
    \/ \E q \in Lists : Enqueue(q) \/ \E i \in DOMAIN q : PlayList(q, i)
    \/ \E i \in DOMAIN queue : Jump(i)
    \/ \E p \in BOOLEAN : Seek(p)
    \/ Toggle \/ setAutoplay \/ Reload

RestoreStep == RestoreHeader \/ RestoreEntries \/ RestoreArrives

PlayerNext ==
    \/ User
    \/ loadedmetadata \/ timeupdate \/ Ended \/ positionTimer
    \/ RefillArrives \/ RestoreStep \/ RestoreFails
    \/ \E k \in DOMAIN saves : SaveArrives(k) \/ SaveLost(k)
    \/ \E q \in Lists : OtherSaves(q)
    \/ \E t \in Tracks : ScanDeletes(t)

(* Answers come, the timer ticks, and each request sent is served at some  *)
(* time: no more than MaxLost are lost.                                    *)
PlayerSpec ==
    /\ PlayerInit /\ [][PlayerNext]_playerVars
    /\ WF_playerVars(RestoreStep) /\ WF_playerVars(positionTimer) /\ WF_playerVars(RefillArrives)
    /\ WF_playerVars(\E k \in DOMAIN saves : SaveArrives(k))

-----------------------------------------------------------------------------
Save == [ids : Seq(Tracks), index : Nat \ {0}, partway : BOOLEAN]

PlayerTypeOK ==
    /\ queue \in Seq(Tracks) /\ Len(queue) <= MaxQueue
    /\ src \in Tracks \cup {NoTrack}
    /\ \A k \in DOMAIN saves : saves[k] \in Save /\ saves[k].index \in DOMAIN saves[k].ids
    /\ refill = NoRefill \/ refill \subseteq Tracks

(* What is shown as current is what the audio element was given, and the   *)
(* index is in the queue, however a restore, with its two reads, races     *)
(* saves, deletions and the user's first clicks (player.ts 223-240,        *)
(* 318-345).                                                               *)
PlaysWhatIsShown ==
    /\ PlayerTypeOK
    /\ index \in 0..Len(queue)
    /\ index # 0 => src = queue[index]

(* A track that ended at the tail in endless mode waits for a request that *)
(* is in flight, and so for an answer: none is left waiting although the   *)
(* request it shares was started for another queue, and the user plays,    *)
(* enqueues or turns endless mode off meanwhile (player.ts 118-132,        *)
(* 254-267).                                                               *)
EndedTracksAwaitAnAnswer ==
    ended > 0 => refill # NoRefill

(* A tab that keeps playing has its queue and place saved in the end, also *)
(* when saves were lost or came in the wrong order: the timer repeats it   *)
(* (player.ts 346-365). A deleted track in the queue makes every save fail. *)
SavedAsPlayed ==
    header.saved /\ entries = queue /\ header.index = index
PlayingIsSaved ==
    <>[](playing /\ ~Restoring => SavedAsPlayed \/ ~Stored(queue))
=============================================================================
