------------------------------ MODULE Playlists ------------------------------
(***************************************************************************)
(* Playlists: the tables playlists and playlist_tracks, the statements of  *)
(* db/queries.py on them and the endpoints of api/subsonic/playlists.py.   *)
(*                                                                         *)
(* playlist_tracks has one row per entry, keyed by (playlist, position).   *)
(* What a client sees is the rows in the order of their positions; what it *)
(* sends back, to remove an entry, is an index into that list, which the   *)
(* server takes for a position.                                            *)
(*                                                                         *)
(* SQLite begins a transaction at the first write, so what an endpoint     *)
(* reads before it (the owner, the highest position) may be out of date    *)
(* when it writes. From the first write on the database is locked, and the *)
(* rest of the endpoint is one step. PostgreSQL locks rows and runs the    *)
(* statements of two endpoints side by side, but a removal fails there     *)
(* unless it empties the list, and two additions conflict on their         *)
(* positions as they do here.                                              *)
(***************************************************************************)
EXTENDS Catalogue, SequencesExt

CONSTANTS Editors,       \* requests in flight
          MaxLists,      \* bound: playlists ever created
          MaxPosition,   \* bound: positions of a playlist
          Selections,    \* bound: the track lists a request may carry
          Removals       \* bound: the sets of indexes a request may carry

ASSUME PlaylistsAssumption ==
    /\ MaxLists \in Nat /\ MaxPosition \in Nat
    /\ \A s \in Selections : s \in Seq(TrackIds) /\ Len(s) <= MaxPosition + 1
    /\ \A R \in Removals : IsFiniteSet(R)

VARIABLES lists,     \* the rows of playlists, with their playlist_tracks
          lastList,  \* the highest playlist id ever handed out
          dialect,   \* the database behind db/connection.py
          edit       \* what each request has read before its first write

listVars == <<lists, lastList, dialect, edit>>

Positions == 0..MaxPosition
ListIds == 1..MaxLists
NoEdit == [op |-> "none"]

Edits ==
    [op : {"replace"}, user : Accounts, list : ListIds, songs : Selections]
    \cup [op : {"update"}, user : Accounts, list : ListIds, songs : Selections,
          remove : Removals, next : 0..MaxPosition + 1]
    \cup [op : {"header"}, user : Accounts, list : ListIds, songs : Selections,
          remove : Removals]

Playlist == [owner : Accounts, rows : UNION {[P -> TrackIds] : P \in SUBSET Positions}]

PlaylistsTypeOK ==
    /\ DOMAIN lists \subseteq ListIds /\ lists \in [DOMAIN lists -> Playlist]
    /\ lastList \in 0..MaxLists
    /\ dialect \in {"sqlite", "postgres"}
    /\ edit \in [Editors -> Edits \cup {NoEdit}]

PlaylistsInit ==
    /\ lists = << >>
    /\ lastList = 0
    /\ dialect \in {"sqlite", "postgres"}
    /\ edit = [r \in Editors |-> NoEdit]

-----------------------------------------------------------------------------
(* Rows.                                                                   *)

(* The i-th of a set of positions, and the entries in the order in which   *)
(* clients see them (ORDER BY position).                                   *)
Nth(D, i) == CHOOSE p \in D : Cardinality({q \in D : q < p}) = i - 1
Visible(rows) == [i \in 1..Cardinality(DOMAIN rows) |-> rows[Nth(DOMAIN rows, i)]]

(* enumerate(track_ids): the rows of a list that is written from scratch.  *)
Enumerated(songs) == [i \in 0..Len(songs) - 1 |-> songs[i + 1]]

(* COALESCE(MAX(position), -1) + 1                                         *)
NextPosition(rows) ==
    IF rows = << >> THEN 0 ELSE Max(DOMAIN rows) + 1

(* The rows that adding songs from position n inserts.                     *)
Appended(n, songs) == [i \in n..n + Len(songs) - 1 |-> songs[i - n + 1]]
Inserted(rows, new) ==
    [i \in DOMAIN rows \cup DOMAIN new |-> IF i \in DOMAIN new THEN new[i] ELSE rows[i]]

InsertFails_Upserts(rows, new) ==         \* mutant: INSERT OR REPLACE
    ~(Range(new) \subseteq tracks)
(* The insert fails on the primary key or on the reference to tracks.      *)
InsertFails(rows, new) ==
    \/ DOMAIN rows \cap DOMAIN new # {}
    \/ ~(Range(new) \subseteq tracks)

(* remove_tracks_from_playlist deletes by position, then renumbers with    *)
(* one UPDATE per remaining entry that selects its rows by track. If a     *)
(* track is left twice, that UPDATE gives two rows one position, which the *)
(* primary key refuses. On PostgreSQL rows are dictionaries: unpacking one *)
(* yields the column's name, which is no track id, so any UPDATE fails.    *)
Kept(rows, remove) == Restrict(rows, DOMAIN rows \ remove)

RenumberFails(rows, remove) ==
    IF dialect = "postgres" THEN Kept(rows, remove) # << >>
    ELSE ~IsInjective(Visible(Kept(rows, remove)))

Renumbered_ByPosition(rows, remove) ==   \* mutant: closes gaps from the end
    Enumerated(Reverse(Visible(Kept(rows, remove))))
Renumbered(rows, remove) == Enumerated(Visible(Kept(rows, remove)))

(* The rows after the statements of updatePlaylist, if none of them fails. *)
Updated(rows, n, songs, remove) ==
    LET added == Inserted(rows, Appended(n, songs))
    IN  IF remove = {} THEN added ELSE Renumbered(added, remove)

UpdateFails(rows, n, songs, remove) ==
    \/ songs # << >> /\ InsertFails(rows, Appended(n, songs))
    \/ remove # {} /\ RenumberFails(Inserted(rows, Appended(n, songs)), remove)

-----------------------------------------------------------------------------
(* Endpoints.                                                              *)

NewId_Reused ==                     \* mutant: PRIMARY KEY without AUTOINCREMENT
    IF lists = << >> THEN 1 ELSE Max(DOMAIN lists) + 1
NewId == lastList + 1

(* createPlaylist without an id.                                           *)
CreatePlaylist(u, songs) ==
    /\ u \in accounts
    /\ NewId \in ListIds
    /\ Range(songs) \subseteq tracks
    /\ lists' = [p \in DOMAIN lists \cup {NewId} |->
                    IF p = NewId THEN [owner |-> u, rows |-> Enumerated(songs)] ELSE lists[p]]
    /\ lastList' = NewId
    /\ UNCHANGED <<catalogueVars, dialect, edit>>

MayReplace(u, p) == lists[p].owner = u \/ u \in Admins

(* createPlaylist with an id: the owner is read first ...                  *)
ReplaceCheck(r, u, p, songs) ==
    /\ edit[r] = NoEdit
    /\ u \in accounts /\ p \in DOMAIN lists
    /\ MayReplace(u, p)
    /\ edit' = [edit EXCEPT ![r] =
                  [op |-> "replace", user |-> u, list |-> p, songs |-> songs]]
    /\ UNCHANGED <<catalogueVars, lists, lastList, dialect>>

(* ... then the entries are replaced. The list may be gone by then: with   *)
(* no songs nothing happens, with some the insert fails.                   *)
ReplaceWrite(r) ==
    LET e == edit[r] IN
    /\ e.op = "replace"
    /\ edit' = [edit EXCEPT ![r] = NoEdit]
    /\ lists' = IF e.list \in DOMAIN lists /\ Range(e.songs) \subseteq tracks
                THEN [lists EXCEPT ![e.list].rows = Enumerated(e.songs)]
                ELSE lists
    /\ UNCHANGED <<catalogueVars, lastList, dialect>>

MayUpdate(u, p) == lists[p].owner = u

(* updatePlaylist without header fields: the owner and the next position   *)
(* are read before the first write.                                        *)
UpdateRead(r, u, p, songs, remove) ==
    /\ edit[r] = NoEdit
    /\ u \in accounts /\ p \in DOMAIN lists
    /\ MayUpdate(u, p)
    /\ songs # << >> \/ remove # {}
    /\ NextPosition(lists[p].rows) + Len(songs) <= MaxPosition + 1
    /\ edit' = [edit EXCEPT ![r] =
                  [op |-> "update", user |-> u, list |-> p, songs |-> songs,
                   remove |-> remove,
                   next |-> IF songs = << >> THEN 0 ELSE NextPosition(lists[p].rows)]]
    /\ UNCHANGED <<catalogueVars, lists, lastList, dialect>>

(* An exception of any statement rolls all of them back.                   *)
UpdateWrite(r) ==
    LET e == edit[r] IN
    /\ e.op = "update"
    /\ edit' = [edit EXCEPT ![r] = NoEdit]
    /\ lists' = IF /\ e.list \in DOMAIN lists
                   /\ ~UpdateFails(lists[e.list].rows, e.next, e.songs, e.remove)
                THEN [lists EXCEPT ![e.list].rows =
                        Updated(@, e.next, e.songs, e.remove)]
                ELSE lists
    /\ UNCHANGED <<catalogueVars, lastList, dialect>>

(* updatePlaylist with a name, a comment or a visibility: only the owner   *)
(* is read before the UPDATE of the header ...                             *)
HeaderRead(r, u, p, songs, remove) ==
    /\ edit[r] = NoEdit
    /\ u \in accounts /\ p \in DOMAIN lists
    /\ MayUpdate(u, p)
    /\ edit' = [edit EXCEPT ![r] = [op |-> "header", user |-> u, list |-> p,
                                    songs |-> songs, remove |-> remove]]
    /\ UNCHANGED <<catalogueVars, lists, lastList, dialect>>

(* ... which locks the database before the positions are read. It may meet *)
(* no row: then there is nothing to add to either.                         *)
HeaderWrite(r) ==
    LET e == edit[r]
        next == NextPosition(lists[e.list].rows)
    IN  /\ e.op = "header"
        /\ edit' = [edit EXCEPT ![r] = NoEdit]
        /\ e.list \in DOMAIN lists => next + Len(e.songs) <= MaxPosition + 1
        /\ lists' = IF /\ e.list \in DOMAIN lists
                       /\ ~UpdateFails(lists[e.list].rows, next, e.songs, e.remove)
                    THEN [lists EXCEPT ![e.list].rows =
                            Updated(@, next, e.songs, e.remove)]
                    ELSE lists
        /\ UNCHANGED <<catalogueVars, lastList, dialect>>

(* DELETE ... WHERE id = :playlist_id AND owner_id = :owner_id             *)
delete_playlist(u, p) ==
    Restrict(lists, {i \in DOMAIN lists : i # p \/ lists[i].owner # u})

DeletePlaylist(u, p) ==
    /\ u \in accounts
    /\ lists' = delete_playlist(u, p)
    /\ UNCHANGED <<catalogueVars, lastList, dialect, edit>>

(* What the foreign keys do to playlists when tracks or accounts go.       *)
ListsWithoutTrack(t) ==
    [p \in DOMAIN lists |->
        [lists[p] EXCEPT !.rows =
            Restrict(@, {i \in DOMAIN @ : @[i] # t})]]
ListsWithoutOwner(u) ==
    Restrict(lists, {p \in DOMAIN lists : lists[p].owner # u})

PlaylistsNext ==
    \/ \E u \in Accounts, songs \in Selections : CreatePlaylist(u, songs)
    \/ \E u \in Accounts, p \in ListIds :
          \/ \E songs \in Selections, r \in Editors : ReplaceCheck(r, u, p, songs)
          \/ \E songs \in Selections, remove \in Removals :
                \/ \E r \in Editors : UpdateRead(r, u, p, songs, remove)
                \/ \E r \in Editors : HeaderRead(r, u, p, songs, remove)
          \/ DeletePlaylist(u, p)
    \/ \E r \in Editors : ReplaceWrite(r) \/ UpdateWrite(r) \/ HeaderWrite(r)
=============================================================================
