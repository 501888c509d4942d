------------------------------ MODULE Catalogue ------------------------------
(***************************************************************************)
(* The rows that user data refers to: accounts and tracks. A scan inserts  *)
(* tracks and deletes them when their files are gone; an administrator     *)
(* deletes accounts. Ids are handed out once: every table of the schema    *)
(* that is referred to by id is AUTOINCREMENT.                             *)
(*                                                                         *)
(* Deleting a row is an action of UserData, which composes it with what    *)
(* the schema's foreign keys do to the tables that refer to it.            *)
(***************************************************************************)
EXTENDS Naturals, FiniteSets

CONSTANTS Accounts,   \* user ids
          Admins,     \* the administrators among them
          TrackIds    \* track ids the database may hand out

ASSUME AdminsAssumption == Admins \subseteq Accounts

VARIABLES accounts,   \* the rows of users
          tracks,     \* the rows of tracks
          handedOut   \* history: track ids that have had a row

catalogueVars == <<accounts, tracks, handedOut>>

CatalogueTypeOK ==
    /\ accounts \subseteq Accounts
    /\ tracks \subseteq handedOut /\ handedOut \subseteq TrackIds

CatalogueInit ==
    /\ accounts = Accounts
    /\ \E T \in SUBSET TrackIds : tracks = T /\ handedOut = T

FreshTracks == TrackIds \ handedOut

(* A scan inserts a track.                                                 *)
InsertTrack(t) ==
    /\ t \in FreshTracks
    /\ tracks' = tracks \cup {t}
    /\ handedOut' = handedOut \cup {t}
    /\ UNCHANGED accounts
=============================================================================
