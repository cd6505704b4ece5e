----------------------------- MODULE MCBackend -----------------------------
(* Small instances of Backend for TLC.                                     *)
EXTENDS Backend

CONSTANTS RSI, RDI, R8, v1, v2, v3, v4, v5, v6

MCPhysical    == {RAX, RCX, RDX, RSI, RDI, R8}
MCPool        == <<RAX, RCX, RDX, RSI, RDX>>
MCPoolLarge   == <<RAX, RCX, RDX, RSI, RDX, R8>>
MCCallerSaved == MCPhysical
MCArgRegs     == <<RDI, RSI>>

MCValues  == <<v1, v2, v3, v4, v5, v6>>
MCVirtual == {v1, v2, v3, v4, v5, v6}

Arithmetic == {"load", "deref", "iadd", "isub", "imul", "ineg", "shift",
               "sdiv", "smod", "udiv", "umod", "less", "pwalk"}
Calls      == {"load", "isub", "call0", "call1", "call2"}
MCSelected == Arithmetic \union Calls

(* A function is of six values without a call, && or ||, or of five with   *)
(* loads, subtractions and those.                                          *)
HasOnly(kinds) ==
  \A p \in DOMAIN code : code[p].eval.kind \notin MCSelected \ kinds

MCNext ==
  /\ Next
  /\ \/ stage # "select"
     \/ HasOnly(Arithmetic)' /\ blocks' = 1
     \/ HasOnly(Calls)' /\ used' <= 5

MCSpec == Init /\ [][MCNext]_vars
=============================================================================
