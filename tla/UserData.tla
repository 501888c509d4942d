------------------------------ MODULE UserData ------------------------------
(***************************************************************************)
(* Everything users add to the library, Playlists and Marks, on top of one *)
(* Catalogue whose rows come and go underneath: a deletion of a track or   *)
(* of an account cascades through all of it in one step.                   *)
(***************************************************************************)
EXTENDS Playlists, Marks

vars == <<catalogueVars, listVars, markVars>>

TypeOK == CatalogueTypeOK /\ PlaylistsTypeOK /\ MarksTypeOK

Init == CatalogueInit /\ PlaylistsInit /\ MarksInit

(* The scan found the file gone, or its folder was deleted.                *)
DeleteTrack(t) ==
    /\ t \in tracks
    /\ tracks' = tracks \ {t}
    /\ lists' = ListsWithoutTrack(t)
    /\ bookmarks' = {c \in bookmarks : c[2] # t}
    /\ plays' = [c \in Cells |-> IF c[2] = t THEN 0 ELSE plays[c]]
    /\ UNCHANGED <<accounts, handedOut, lastList, edit, dialect, stars, ratings,
                   answers, stations, created, call>>

(* deleteUser; the ratings and stars of the account go with it.            *)
DeleteAccount(u) ==
    /\ u \in accounts \ Admins
    /\ accounts' = accounts \ {u}
    /\ lists' = ListsWithoutOwner(u)
    /\ stars' = {c \in stars : c[1] # u}
    /\ ratings' = {c \in ratings : c[1] # u}
    /\ bookmarks' = {c \in bookmarks : c[1] # u}
    /\ plays' = [c \in Cells |-> IF c[1] = u THEN 0 ELSE plays[c]]
    /\ UNCHANGED <<tracks, handedOut, lastList, edit, dialect, answers,
                   stations, created, call>>

CatalogueNext ==
    \/ \E t \in TrackIds :
          \/ InsertTrack(t) /\ UNCHANGED <<listVars, markVars>>
          \/ DeleteTrack(t)
    \/ \E u \in Accounts : DeleteAccount(u)

Next ==
    \/ CatalogueNext
    \/ PlaylistsNext /\ UNCHANGED markVars
    \/ MarksNext /\ UNCHANGED listVars

Spec == Init /\ [][Next]_vars

-----------------------------------------------------------------------------
(* No row of a table with foreign keys outlives what it refers to, however *)
(* a deletion falls between the look-up of an endpoint and its insert      *)
(* (schema.sql 100-247, migrations 189-199).                               *)
NoDanglingRows ==
    /\ TypeOK
    /\ \A p \in DOMAIN lists :
          lists[p].owner \in accounts /\ Range(lists[p].rows) \subseteq tracks
    /\ \A c \in bookmarks \cup {d \in Cells : plays[d] > 0} :
          c[1] \in accounts /\ c[2] \in tracks
    /\ \A c \in stars \cup ratings : c[1] \in accounts

NewTracksAreUnrated ==
    [][\A t \in tracks' \ tracks : \A u \in Accounts : <<u, t>> \notin ratings']_vars

(* Plays of c in requests that have committed and are yet to answer.       *)
Awaiting(c) ==
    {p \in Callers \X (1..MaxPlays) :
        /\ call[p[1]].op = "answer" /\ call[p[1]].user = c[1]
        /\ p[2] \in DOMAIN call[p[1]].songs /\ call[p[1]].songs[p[2]] = c[2]}

(* While its track and its account last, every play that was answered ok   *)
(* stays stored, and every play stored beyond those is one of a request    *)
(* that is yet to answer or failed after its commit: a batch whose         *)
(* transaction fails, because a scan deleted one of its tracks after the   *)
(* look-up, leaves nothing behind that a second attempt would count twice  *)
(* (annotation.py 132-157 and 163-223).                                    *)
PlaysMatchTheAnswers ==
    \A c \in accounts \X tracks :
        plays[c] = reported[c] + unanswered[c] + Cardinality(Awaiting(c))

StationEditsHitWhatWasListed ==
    \A r \in Callers :
        call[r].op = "station" /\ call[r].id \in DOMAIN stations
            => stations[call[r].id] = call[r].shown

(* An id means one row for ever, to those who kept it while the row went:  *)
(* no track a scan inserts is born with a rating nobody gave it, although  *)
(* ratings outlive their tracks and the look-up comes before the write     *)
(* (annotation.py 313-351, migrations.py 231-239), and the edit of a radio *)
(* station meets the one the client listed or none (queries.py 2262-2300). *)
IdsKeepTheirMeaning == NewTracksAreUnrated /\ []StationEditsHitWhatWasListed

-----------------------------------------------------------------------------
(* The request whose write this step is.                                   *)
Writes(r) == edit[r] # NoEdit /\ edit'[r] = NoEdit
Updates(r) == Writes(r) /\ edit[r].op \in {"update", "header"} /\ lists' # lists

WithSongsAt(seq, k, songs) ==
    SubSeq(seq, 1, k) \o songs \o SubSeq(seq, k + 1, Len(seq))

(* Between the check of the owner and the write, the playlist may be       *)
(* deleted and another one created; a request still never changes a list   *)
(* its user may not change (playlists.py 115-144 and 165-193).             *)
OnlyTheEntitledEdit ==
    [][\A r \in Editors : \A p \in DOMAIN lists \cap DOMAIN lists' :
          Writes(r) /\ lists'[p] # lists[p] =>
              \/ lists[p].owner = edit[r].user
              \/ edit[r].op = "replace" /\ edit[r].user \in Admins]_vars

(* Adding to a playlist loses, moves and duplicates no entry, whatever     *)
(* happened since the highest position was read: the new entries stand     *)
(* together among the old ones, which keep their order (queries.py 586-    *)
(* 607). They need not stand last.                                         *)
AddsKeepEntries ==
    [][\A r \in Editors :
          Updates(r) /\ edit[r].remove = {}
          => LET old == Visible(lists[edit[r].list].rows)
                 new == Visible(lists'[edit[r].list].rows)
             IN  \E k \in 0..Len(old) :
                    new = WithSongsAt(old, k, edit[r].songs)]_vars

(* Removing closes the gaps and keeps the order of the rest (queries.py    *)
(* 635-664): afterwards an index is a position, whatever deleted tracks    *)
(* and late inserts had done to the positions before.                      *)
RemovalsCloseGaps ==
    [][\A r \in Editors :
          Updates(r) /\ edit[r].remove # {}
          => LET p == edit[r].list
                 old == Visible(lists[p].rows)
                 new == Visible(lists'[p].rows)
             IN  /\ DOMAIN lists'[p].rows = 0..Len(new) - 1
                 /\ \E k \in 0..Len(old) :
                       LET all == WithSongsAt(old, k, edit[r].songs) IN
                       \E I \in SUBSET DOMAIN all :
                          /\ Cardinality(DOMAIN all \ I) <= Cardinality(edit[r].remove)
                          /\ new = [i \in 1..Cardinality(I) |->
                                       all[Nth(I, i)]]]_vars
=============================================================================
