------------------------------- MODULE MCGraph -------------------------------
(* Two blocks, the second with an argument, and three instructions: one    *)
(* uses a constant, one uses the first and the argument, and one uses the  *)
(* second twice.                                                           *)
EXTENDS LIRGraph

CONSTANTS b1, b2, i1, i2, i3, blockArg, param, const, global

MCBlockParams == (b1 :> {}) @@ (b2 :> {blockArg})

MCShapes ==
  (i1 :> {<<const, global>>}) @@ (i2 :> {<<blockArg, None, i1>>}) @@ (i3 :> {<<i2, i2, param>>})

(* A function whose operands were changed has no broken list, nor the other*)
(* way round: the operands matter to the destructors, which are not asked  *)
(* anything of broken lists.                                               *)
MCNext ==
  /\ IF broken = {} THEN TRUE ELSE UNCHANGED rewired
  /\ IF rewired = 0 THEN TRUE ELSE UNCHANGED broken
  /\ Next

MCSpec == Init /\ [][MCNext]_vars
=============================================================================
