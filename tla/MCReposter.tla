----------------------------- MODULE MCReposter -----------------------------
(* Safety with two posts, so that posts queue behind each other. *)
EXTENDS Reposter, TLC

MCSymmetry == Permutations(Uuids)
=============================================================================
