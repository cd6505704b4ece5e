----------------------------- MODULE LIRBuilder -----------------------------
(***************************************************************************)
(* The types, the constants and the builder of the graph: what each call   *)
(* asserts of its operands, and the value that it returns.                 *)
(***************************************************************************)
EXTENDS Layout

-----------------------------------------------------------------------------
(* Types.                                                                  *)

(* Whether ArrayType::get files an array type: it does so under the new    *)
(* type itself, and only if its element is not a type filed already.       *)
RECURSIVE FiledArray(_)
FiledArray(t) == t[1] = "array" /\ ~FiledArray(t[2])

(* ArrayType::get.  The pool, asked for element and size, knows the array  *)
(* types by themselves: if the element is one of the same size, that is    *)
(* what it returns.                                                        *)
ArrayTypeGet(element, size, tag) ==
  IF FiledArray(element) /\ element[3] = size THEN element
  ELSE ArrayTy(element, size, tag)

-----------------------------------------------------------------------------
(* Constants.                                                              *)

(* Integer::get: the pool of a width is keyed by the value in that width,  *)
(* but what it holds keeps the value that it was first asked for.          *)
IntegerGet(st, ty, n) ==
  LET key == <<ty[2], Wrapped(ty[2], n)>>
      held == {i \in DOMAIN st.pool : st.pool[i][1] = key}
  IN  CASE ty[2] = 1 -> Got(st, Value("Integer", ty, IF n = 0 THEN 0 ELSE 1))
        [] held # {} -> Got(st, Value("Integer", ty, st.pool[CHOOSE i \in held : TRUE][2]))
        [] OTHER     -> Got([st EXCEPT !.pool = Append(@, <<key, n>>)],
                            Value("Integer", ty, n))

FloatGet(st, ty, n) == Got(st, Value("Float", ty, n))

Null(ty) == Value("Null", ty, 0)

False == Value("Integer", IntTy(1), 0)

True == Value("Integer", IntTy(1), 1)

(* A value of which a global can be made.                                  *)
IsConstantValue(v) == v.k \in {"Integer", "Float", "Null", "Global"}

-----------------------------------------------------------------------------
(* The builder.                                                            *)

If(condition, st, built) == IF condition THEN built ELSE Abort(st)

BuildString(st, s) == Emit(st, "STRING", PtrTy(IntTy(8)), << >>, <<s>>)

BuildLoad(st, ty, source) ==
  If(ty[1] # "none" /\ Is(source, "ptr"), st, Emit(st, "LOAD", ty, <<source>>, << >>))

BuildStore(st, value, dest) ==
  If(value.k # "None" /\ Is(dest, "ptr"), st,
     Emit(st, "STORE", VoidTy, <<value, dest>>, << >>))

BuildPwalk(st, ty, source, indices) ==
  If(ty[1] = "ptr" /\ Is(source, "ptr"), st,
     Emit(st, "PWALK", ty, <<source>> \o indices, <<source.ty[2]>>))

BuildCall(st, callee, args) ==
  If(Is(callee, "function"), st,
     Emit(st, "CALL", callee.ty[2], <<callee>> \o args, << >>))

(* A comparison, cmp, is a class of operands and an operator.              *)
BuildEquality(st, cmp, lhs, rhs) ==
  If(lhs.ty = rhs.ty, st, Emit(st, "CMP", IntTy(1), <<lhs, rhs>>, <<cmp>>))

BuildOrder(st, cmp, lhs, rhs) ==
  If(lhs.ty = rhs.ty, st, Emit(st, "CMP", IntTy(1), <<lhs, rhs>>, <<cmp>>))

BuildIntegerArithmetic(st, op, lhs, rhs) ==
  If(Is(lhs, "i") /\ lhs.ty = rhs.ty, st, Emit(st, op, lhs.ty, <<lhs, rhs>>, << >>))

BuildFloatArithmetic(st, op, lhs, rhs) ==
  If(Is(lhs, "f") /\ lhs.ty = rhs.ty, st, Emit(st, op, lhs.ty, <<lhs, rhs>>, << >>))

(* AND, OR, XOR and the shifts.                                            *)
BuildBitwise(st, op, lhs, rhs) ==
  If(Is(lhs, "i") /\ lhs.ty = rhs.ty, st, Emit(st, op, lhs.ty, <<lhs, rhs>>, << >>))

BuildUnary(st, op, cls, value) ==
  If(Is(value, cls), st, Emit(st, op, value.ty, <<value>>, << >>))

(* A conversion from a class of values to a type of another.               *)
BuildCast(st, op, ty, value, from, to) ==
  If(Is(value, from) /\ ty[1] = to, st, Emit(st, op, ty, <<value>>, << >>))

BuildReint(st, ty, value) ==
  If(ty[1] = "ptr", st, Emit(st, "REINT", ty, <<value>>, << >>))

BuildJif(st, cond, a, av, b, bv) ==
  IF cond.ty = IntTy(1) THEN EmitBranch(st, cond, a, av, b, bv) ELSE Abort(st).st

BuildJmp(st, a, av) == EmitJump(st, a, av)
=============================================================================
