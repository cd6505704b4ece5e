------------------------------ MODULE MCDriver ------------------------------
(* Small instances of Driver for TLC.                                      *)
EXTENDS Driver

CONSTANTS f1, f2, f3

TwoFiles == <<f1, f2>>

ThreeFiles == <<f1, f2, f3>>

=============================================================================
