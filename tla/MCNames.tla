------------------------------- MODULE MCNames -------------------------------
(* Small instances of Names for TLC.                                       *)
EXTENDS Names, TLC

IdentSymmetry == Permutations(Idents)
=============================================================================
