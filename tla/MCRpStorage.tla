---------------------------- MODULE MCRpStorage -----------------------------
(* The consumer and the browser thread, two posts, three connections. *)
EXTENDS RpStorage, TLC

MCSymmetry == Permutations(Threads) \cup Permutations(Uuids) \cup Permutations(Handles)
=============================================================================
