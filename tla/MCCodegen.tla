------------------------------ MODULE MCCodegen -------------------------------
(* Small instances of BothCodegens for TLC.                                *)
EXTENDS BothCodegens
=============================================================================
