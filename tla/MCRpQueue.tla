----------------------------- MODULE MCRpQueue ------------------------------
(* Three threads that may each add and get, two slots, two posts.  No         *)
(* symmetry: the run checks liveness, which it would make unsound.            *)
EXTENDS RpQueue
=============================================================================
