---------------------------- MODULE MCThreadPool ----------------------------
(* Small instances of ThreadPool for TLC.  Symmetry is not used: it is not *)
(* sound for the liveness properties that are checked with the invariants. *)
EXTENDS ThreadPool, TLC

=============================================================================
