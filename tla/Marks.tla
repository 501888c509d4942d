-------------------------------- MODULE Marks --------------------------------
(***************************************************************************)
(* What users attach to tracks: stars, ratings, bookmarks and play counts, *)
(* and the radio stations all users share (db/queries.py, the endpoints of *)
(* annotation.py, bookmarks.py and internet_radio.py under api/subsonic,   *)
(* and the starred part of db/maintenance.py).                             *)
(*                                                                         *)
(* play_counts and bookmarks refer to tracks by foreign key. starred and   *)
(* ratings address artists, albums and tracks by (type, id) and cannot;    *)
(* one type stands for the three here. Times and texts are left out.       *)
(***************************************************************************)
EXTENDS Catalogue, Sequences, Functions

CONSTANTS Callers,      \* requests in flight
          MaxPlays,     \* bound: plays of one track by one user, or of one request
          MaxStations,  \* bound: stations ever created
          Batches       \* bound: the track lists one scrobble may carry

ASSUME MarksAssumption ==
    /\ MaxPlays \in Nat /\ MaxStations \in Nat
    /\ IsFiniteSet(Callers)
    /\ \A s \in Batches : s \in Seq(TrackIds) /\ Len(s) <= MaxPlays

VARIABLES stars,        \* the rows of starred
          ratings,      \* the rows of ratings
          bookmarks,    \* the rows of bookmarks
          plays,        \* play_counts: the count of each row, 0 for no row
          reported,     \* history: plays the server has answered ok to
          unanswered,   \* history: plays stored by requests that failed later
          stations,     \* internet_radio_stations: id -> serial number
          created,      \* how many stations have been created
          call          \* what each request has checked before it writes

answers == <<reported, unanswered>>
markVars == <<stars, ratings, bookmarks, plays, answers, stations, created, call>>

Cells == Accounts \X TrackIds
NoCall == [op |-> "none"]
StationIds == 1..MaxStations

Calls ==
    [op : {"rate", "bookmark"}, cell : Cells]
    \cup [op : {"scrobble", "answer"}, user : Accounts, songs : Batches]
    \cup [op : {"station"}, id : StationIds, shown : StationIds]

MarksTypeOK ==
    /\ stars \subseteq Cells /\ ratings \subseteq Cells /\ bookmarks \subseteq Cells
    /\ plays \in [Cells -> 0..MaxPlays]
    /\ reported \in [Cells -> Nat] /\ unanswered \in [Cells -> Nat]
    /\ DOMAIN stations \subseteq StationIds /\ stations \in [DOMAIN stations -> StationIds]
    /\ created \in 0..MaxStations
    /\ call \in [Callers -> Calls \cup {NoCall}]

MarksInit ==
    /\ stars = {} /\ ratings = {} /\ bookmarks = {}
    /\ plays = [c \in Cells |-> 0]
    /\ reported = [c \in Cells |-> 0] /\ unanswered = [c \in Cells |-> 0]
    /\ stations = << >> /\ created = 0
    /\ call = [r \in Callers |-> NoCall]

-----------------------------------------------------------------------------
(* Stars. Nothing checks that the target exists; garbage collection drops  *)
(* the rows whose target does not.                                         *)

star_item(c) == stars \cup {c}     \* ON CONFLICT DO NOTHING
unstar_item(c) == stars \ {c}

Star(c) ==
    /\ c[1] \in accounts
    /\ stars' = star_item(c)
    /\ UNCHANGED <<catalogueVars, ratings, bookmarks, plays, answers,
                   stations, created, call>>

Unstar(c) ==
    /\ c[1] \in accounts
    /\ stars' = unstar_item(c)
    /\ UNCHANGED <<catalogueVars, ratings, bookmarks, plays, answers,
                   stations, created, call>>

Dangling == {c \in stars : c[2] \notin tracks}

CleanupDanglingStarred ==
    /\ stars' = stars \ Dangling
    /\ UNCHANGED <<catalogueVars, ratings, bookmarks, plays, answers,
                   stations, created, call>>

-----------------------------------------------------------------------------
(* Ratings and bookmarks: the target is looked up first, the row is        *)
(* written in a transaction of its own.                                    *)

Exists_Unchecked(t) == TRUE         \* mutant: setRating without the look-up
Exists(t) == t \in tracks

set_rating(c) == ratings \cup {c}
delete_rating(c) == ratings \ {c}

SetRatingCheck(r, c) ==
    /\ call[r] = NoCall
    /\ c[1] \in accounts /\ Exists(c[2])
    /\ call' = [call EXCEPT ![r] = [op |-> "rate", cell |-> c]]
    /\ UNCHANGED <<catalogueVars, stars, ratings, bookmarks, plays, answers,
                   stations, created>>

(* A rating from 1 to 5 upserts the row, 0 deletes it. Only the account is *)
(* protected by a foreign key.                                             *)
SetRatingWrite(r) ==
    /\ call[r].op = "rate"
    /\ LET c == call[r].cell IN
          \/ c[1] \in accounts /\ ratings' = set_rating(c)
          \/ ratings' = delete_rating(c)
          \/ c[1] \notin accounts /\ UNCHANGED ratings
    /\ call' = [call EXCEPT ![r] = NoCall]
    /\ UNCHANGED <<catalogueVars, stars, bookmarks, plays, answers,
                   stations, created>>

CreateBookmarkCheck(r, c) ==
    /\ call[r] = NoCall
    /\ c[1] \in accounts /\ c[2] \in tracks
    /\ call' = [call EXCEPT ![r] = [op |-> "bookmark", cell |-> c]]
    /\ UNCHANGED <<catalogueVars, stars, ratings, bookmarks, plays, answers,
                   stations, created>>

Referable_NoForeignKey(c) == TRUE   \* mutant: foreign keys not enforced
(* The insert's foreign keys hold.                                         *)
Referable(c) == c[1] \in accounts /\ c[2] \in tracks

upsert_bookmark(c) == IF Referable(c) THEN bookmarks \cup {c} ELSE bookmarks
delete_bookmark(c) == bookmarks \ {c}

CreateBookmarkWrite(r) ==
    /\ call[r].op = "bookmark"
    /\ bookmarks' = upsert_bookmark(call[r].cell)
    /\ call' = [call EXCEPT ![r] = NoCall]
    /\ UNCHANGED <<catalogueVars, stars, ratings, plays, answers,
                   stations, created>>

DeleteBookmark(c) ==
    /\ c[1] \in accounts
    /\ bookmarks' = delete_bookmark(c)
    /\ UNCHANGED <<catalogueVars, stars, ratings, plays, answers,
                   stations, created, call>>

-----------------------------------------------------------------------------
(* scrobble: every id is looked up, all of them are counted in one         *)
(* transaction, and only then are the linked services looked up and the    *)
(* request answered. The server keeps nothing to know a play by: a client  *)
(* that sends a batch again is like one that reports new plays.            *)

ScrobbleCheck(r, u, songs) ==
    /\ call[r] = NoCall
    /\ u \in accounts
    /\ Range(songs) \subseteq tracks
    /\ call' = [call EXCEPT ![r] = [op |-> "scrobble", user |-> u, songs |-> songs]]
    /\ UNCHANGED <<catalogueVars, stars, ratings, bookmarks, plays, answers,
                   stations, created>>

Times(t, songs) == Cardinality({i \in DOMAIN songs : songs[i] = t})
Add(counts, u, songs) ==
    [c \in Cells |-> IF c[1] = u THEN counts[c] + Times(c[2], songs) ELSE counts[c]]

(* Every statement of the transaction passes its foreign keys.             *)
Storable(u, songs) == \A i \in DOMAIN songs : Referable(<<u, songs[i]>>)

\* mutant: each play commits on its own, and the batch ends at the first
\* track that is gone
PlaysAfter_PerTrack(u, songs) ==
    LET ok == {i \in DOMAIN songs : \A j \in 1..i : Referable(<<u, songs[j]>>)}
    IN  Add(plays, u, [i \in ok |-> songs[i]])
(* The transaction commits all plays or, when a foreign key fails, none.   *)
PlaysAfter(u, songs) == IF Storable(u, songs) THEN Add(plays, u, songs) ELSE plays

ScrobbleWrite(r) ==
    LET u == call[r].user
        songs == call[r].songs
    IN  /\ call[r].op = "scrobble"
        /\ plays' = PlaysAfter(u, songs)
        /\ \A c \in Cells : plays'[c] <= MaxPlays
        /\ call' = [call EXCEPT ![r] =
                      IF Storable(u, songs)
                      THEN [op |-> "answer", user |-> u, songs |-> songs] ELSE NoCall]
        /\ UNCHANGED <<catalogueVars, stars, ratings, bookmarks, answers,
                       stations, created>>

ScrobbleAnswer(r) ==
    /\ call[r].op = "answer"
    /\ reported' = Add(reported, call[r].user, call[r].songs)
    /\ call' = [call EXCEPT ![r] = NoCall]
    /\ UNCHANGED <<catalogueVars, stars, ratings, bookmarks, plays, unanswered,
                   stations, created>>

(* A look-up after the commit fails, or the connection to the client does. *)
ScrobbleFails(r) ==
    /\ call[r].op = "answer"
    /\ unanswered' = Add(unanswered, call[r].user, call[r].songs)
    /\ call' = [call EXCEPT ![r] = NoCall]
    /\ UNCHANGED <<catalogueVars, stars, ratings, bookmarks, plays, reported,
                   stations, created>>

-----------------------------------------------------------------------------
(* Radio stations. A client edits a station it has listed, by its id.      *)

StationId == created + 1

CreateStation ==
    /\ created < MaxStations
    /\ created' = created + 1
    /\ stations' = [i \in DOMAIN stations \cup {StationId} |->
                      IF i \in DOMAIN stations THEN stations[i] ELSE created']
    /\ UNCHANGED <<catalogueVars, stars, ratings, bookmarks, plays, answers, call>>

ListStations(r) ==
    /\ call[r] = NoCall
    /\ \E i \in DOMAIN stations :
          call' = [call EXCEPT ![r] = [op |-> "station", id |-> i, shown |-> stations[i]]]
    /\ UNCHANGED <<catalogueVars, stars, ratings, bookmarks, plays, answers,
                   stations, created>>

(* updateInternetRadioStation: not found when no row matched. The texts    *)
(* that a match replaces are left out.                                     *)
UpdateStation(r) ==
    /\ call[r].op = "station"
    /\ call' = [call EXCEPT ![r] = NoCall]
    /\ UNCHANGED <<catalogueVars, stars, ratings, bookmarks, plays, answers,
                   stations, created>>

delete_internet_radio(i) == Restrict(stations, DOMAIN stations \ {i})

DeleteStation(r) ==
    /\ call[r].op = "station"
    /\ stations' = delete_internet_radio(call[r].id)
    /\ call' = [call EXCEPT ![r] = NoCall]
    /\ UNCHANGED <<catalogueVars, stars, ratings, bookmarks, plays, answers, created>>

StarsNext == CleanupDanglingStarred \/ \E c \in Cells : Star(c) \/ Unstar(c)

RatingsNext ==
    \E r \in Callers : SetRatingWrite(r) \/ \E c \in Cells : SetRatingCheck(r, c)

BookmarksNext ==
    \/ \E c \in Cells : DeleteBookmark(c)
    \/ \E r \in Callers :
          CreateBookmarkWrite(r) \/ \E c \in Cells : CreateBookmarkCheck(r, c)

PlaysNext ==
    \E r \in Callers :
        \/ ScrobbleWrite(r) \/ ScrobbleAnswer(r) \/ ScrobbleFails(r)
        \/ \E u \in Accounts, songs \in Batches : ScrobbleCheck(r, u, songs)

StationsNext ==
    \/ CreateStation
    \/ \E r \in Callers : ListStations(r) \/ UpdateStation(r) \/ DeleteStation(r)

MarksNext == StarsNext \/ RatingsNext \/ BookmarksNext \/ PlaysNext \/ StationsNext
=============================================================================
