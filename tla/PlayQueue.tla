----------------------------- MODULE PlayQueue -----------------------------
(***************************************************************************)
(* The play queue the server keeps for one user (api/subsonic/             *)
(* play_queue.py, db/queries.py 672-814): a header row and the entries.    *)
(* Browsers save and read it by index; older clients save it by the        *)
(* current track's id and leave the stored index as it was.                *)
(*                                                                         *)
(* Indices count from 1, 0 stands for NULL. The play position is left out  *)
(* but for the fact that there is one.                                     *)
(***************************************************************************)
EXTENDS Naturals, Sequences, SequencesExt

CONSTANTS Tracks

VARIABLES tracks,   \* the tracks of the library
          header,   \* the row of play_queues, or NoHeader
          entries,  \* play_queue_entries: <<position, track>> in order
          whole     \* history: the last save that succeeded

queueVars == <<tracks, header, entries, whole>>

NoTrack == "none"
NoHeader == [saved |-> FALSE, current |-> NoTrack, index |-> 0, partway |-> FALSE]

Row(current, index, partway) ==
    [saved |-> TRUE, current |-> current, index |-> index, partway |-> partway]

(* What a save says; index 0 is one that does not say.                     *)
Said(ids, current, index, partway) ==
    [ids |-> ids, current |-> current, index |-> index, partway |-> partway]

(* No queue yet, or one of the lists, saved by index.                      *)
QueueInit(lists) ==
    \/ header = NoHeader /\ entries = << >> /\ whole = Said(<< >>, NoTrack, 0, FALSE)
    \/ \E q \in lists : \E i \in DOMAIN q :
          /\ header = Row(q[i], i, TRUE)
          /\ entries = q /\ whole = Said(q, q[i], i, TRUE)

(* The elements of q that are in S, in their order.                        *)
Kept(q, S) ==
    LET kept[n \in 0..Len(q)] ==
            IF n = 0 THEN << >>
            ELSE IF q[n] \in S THEN Append(kept[n - 1], q[n]) ELSE kept[n - 1]
    IN  kept[Len(q)]

(* INSERT INTO play_queue_entries fails on a track that is gone, and the   *)
(* transaction with it.                                                    *)
Stored(ids) == Range(ids) \subseteq tracks

save_play_queue_by_index_Apart(ids, index, partway) ==  \* mutant: header and entries apart
    /\ header' = Row(ids[index], index, partway)
    /\ entries' = IF Stored(ids) THEN ids ELSE << >>
    /\ whole' = IF Stored(ids) THEN Said(ids, ids[index], index, partway) ELSE whole
    /\ UNCHANGED tracks
save_play_queue_by_index(ids, index, partway) ==
    /\ IF Stored(ids)
       THEN /\ header' = Row(ids[index], index, partway)
            /\ entries' = ids /\ whole' = Said(ids, ids[index], index, partway)
       ELSE UNCHANGED <<header, entries, whole>>
    /\ UNCHANGED tracks

(* The upsert of the older call does not name current_position.            *)
save_play_queue(ids, current, partway) ==
    /\ IF Stored(ids) /\ current \in tracks \cup {NoTrack}
       THEN /\ header' = Row(current, header.index, partway)
            /\ entries' = ids /\ whole' = Said(ids, current, 0, partway)
       ELSE UNCHANGED <<header, entries, whole>>
    /\ UNCHANGED tracks

(* Deleting a track deletes its entries and clears the current track; the  *)
(* stored index stays.                                                     *)
DeleteTrack(t) ==
    /\ t \in tracks
    /\ tracks' = tracks \ {t}
    /\ entries' = Kept(entries, Tracks \ {t})
    /\ header' = IF header.current = t THEN [header EXCEPT !.current = NoTrack] ELSE header
    /\ UNCHANGED whole

(* getPlayQueueByIndex, from a header and entries read one after the other. *)
CurrentIndex(row, list) ==
    LET index == IF row.index # 0 THEN row.index
                 ELSE SelectInSeq(list, LAMBDA t : t = row.current)
    IN  IF index # 0 THEN index ELSE 1

-----------------------------------------------------------------------------
(* The entries, the current track, the place in it and, if it was by       *)
(* index, the index are those of the save served last, less the tracks     *)
(* deleted since; an older save served later counts as the last one. A     *)
(* save by id says no index, and the one stored may then be of another     *)
(* queue (queries.py 713-814, play_queue.py 75-83 and 127-135).            *)
StoredQueueIsOneSave ==
    /\ entries = Kept(whole.ids, tracks)
    /\ header.current = IF whole.current \in tracks THEN whole.current ELSE NoTrack
    /\ header.partway = whole.partway
    /\ whole.index # 0 => header.index = whole.index
=============================================================================
