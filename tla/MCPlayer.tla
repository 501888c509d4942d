------------------------------ MODULE MCPlayer ------------------------------
(* An album of two tracks and one of one; the radio may find two of them.  *)
EXTENDS Player

CONSTANTS t1, t2, t3

MCTracks == {t1, t2, t3}
MCLists == {<<t1, t2>>, <<t3>>}
MCFresh == {t2, t3}
=============================================================================
