------------------------------ MODULE MCScanJob ------------------------------
(* Two scanner threads and three handlers.                                   *)
EXTENDS ScanJob

CONSTANTS w1, w2, r1, r2, r3

MCWorkers == {w1, w2}
MCRequests == {r1, r2, r3}
=============================================================================
