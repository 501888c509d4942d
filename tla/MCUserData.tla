----------------------------- MODULE MCUserData -----------------------------
(* Two accounts, one of them an administrator. In one behaviour clients    *)
(* use one of the tables: they share nothing but the catalogue, so the sum *)
(* of their state spaces stands for the product. On PostgreSQL, where only *)
(* removals differ, no rows of the catalogue go.                           *)
EXTENDS UserData

CONSTANTS admin, user, t1, t2, e1, e2

VARIABLE workload

MCAccounts == {admin, user}
MCAdmins == {admin}
MCTracks == {t1, t2}
MCEditors == {e1, e2}
MCSelections == {<< >>, <<t1>>, <<t1, t2>>}
MCSymmetry == Permutations(MCEditors)
MCRemovals == {{}, {0}}
MCBatches == {<<t1>>, <<t1, t2>>, <<t1, t1>>}

Workloads == {"playlists", "stars", "ratings", "bookmarks", "plays", "stations"}

MCInit ==
    /\ Init /\ workload \in Workloads
    /\ IF workload = "playlists" THEN tracks = MCTracks ELSE dialect = "sqlite"

MCNext ==
    /\ \/ CatalogueNext /\ dialect = "sqlite"
       \/ workload = "playlists" /\ PlaylistsNext /\ UNCHANGED markVars
       \/ workload = "stars" /\ StarsNext /\ UNCHANGED listVars
       \/ workload = "ratings" /\ RatingsNext /\ UNCHANGED listVars
       \/ workload = "bookmarks" /\ BookmarksNext /\ UNCHANGED listVars
       \/ workload = "plays" /\ PlaysNext /\ UNCHANGED listVars
       \/ workload = "stations" /\ StationsNext /\ UNCHANGED listVars
    /\ UNCHANGED workload

MCSpec == MCInit /\ [][MCNext]_<<vars, workload>>
=============================================================================
