----------------------------- MODULE MCAnalysis -----------------------------
(* Three tracks, one of them undecodable, and batches of two: a full batch  *)
(* or a last one, with or without a failure.                                *)
EXTENDS Analysis

CONSTANTS t1, t2, t3, w1, w2, r1, r2

MCTracks == {t1, t2, t3}
MCWorkers == {w1, w2}
MCRequests == {r1, r2}
MCUndecodable == {t3}
=============================================================================
