------------------------------- MODULE IRCode -------------------------------
(***************************************************************************)
(* What the two code generators of expressions build: typed values, and a  *)
(* sequence of instructions with the labels of blocks between them.        *)
(*                                                                         *)
(* A generator is an operator from the state of the generation, st, to a   *)
(* value v and the next state.  An assert that fails, or the use of a null *)
(* pointer, sets st.aborted: nothing that is built after it counts.        *)
(***************************************************************************)
EXTENDS Integers, Sequences

(* The bits that an integer of a width has in the model.                   *)
Bits(width) ==
  CASE width = 1 -> 1 [] width = 8 -> 8 [] width = 16 -> 9
    [] width = 32 -> 10 [] width = 64 -> 12

Unsigned(width, n) == n % 2 ^ Bits(width)

(* n as a value of a width: 0 or 1 for a bit, else in two's complement.    *)
Wrapped(width, n) ==
  LET u == Unsigned(width, n)
  IN  IF width > 1 /\ u >= 2 ^ (Bits(width) - 1) THEN u - 2 ^ Bits(width) ELSE u

(* A floating point number is kept as its quarters.                        *)
Quarters == 4

(* Integer division and remainder as in C++: towards zero.                 *)
Magnitude(n) == IF n < 0 THEN -n ELSE n

Sign(n) == IF n < 0 THEN -1 ELSE 1

Quotient(a, b) == Sign(a) * Sign(b) * (Magnitude(a) \div Magnitude(b))

Remainder(a, b) == a - b * Quotient(a, b)

(* a bit by bit with b.                                                    *)
Bitwise2(Op(_, _), a, b) ==
  LET n == Bits(64)
      bit(x, i) == (Unsigned(64, x) \div 2 ^ i) % 2
      f[i \in 0 .. n] ==
        IF i = 0 THEN 0 ELSE f[i - 1] + Op(bit(a, i - 1), bit(b, i - 1)) * 2 ^ (i - 1)
  IN  Wrapped(64, f[n])

BitAnd(a, b) == LET op(x, y) == x * y IN Bitwise2(op, a, b)

BitOr(a, b) == LET op(x, y) == IF x + y > 0 THEN 1 ELSE 0 IN Bitwise2(op, a, b)

BitXor(a, b) == LET op(x, y) == (x + y) % 2 IN Bitwise2(op, a, b)

-----------------------------------------------------------------------------
(* Types.  Two array types are one object only if they have one tag.       *)

IntTy(width) == <<"i", width>>

FloatTy(width) == <<"f", width>>

PtrTy(t) == <<"ptr", t>>

ArrayTy(t, n, tag) == <<"array", t, n, tag>>

StructTy(name) == <<"struct", name>>

FunctionTy(ret) == <<"function", ret>>

VoidTy == <<"void">>

Is(v, cls) == v.ty[1] = cls

-----------------------------------------------------------------------------
(* Values: a constant, the result of an instruction, the argument of a     *)
(* block, or the address of a symbol.                                      *)

Value(k, ty, v) == [k |-> k, ty |-> ty, v |-> v]

Nothing == Value("None", <<"none">>, 0)

(* A state of the generation: in a function or for a global, the code, the *)
(* next number of an instruction, block or type, and the pool of integers. *)
Start(inFunction) ==
  [func |-> inFunction, code |-> << >>, next |-> 1, pool |-> << >>, aborted |-> FALSE]

Got(st, v) == [v |-> v, st |-> st]

Abort(st) == Got([st EXCEPT !.aborted = TRUE], Nothing)

(* A new instruction, put where the builder inserts if that is anywhere.   *)
Emit(st, op, ty, ops, aux) ==
  LET inst == [op |-> op, def |-> st.next, ty |-> ty, ops |-> ops, aux |-> aux]
  IN  Got([st EXCEPT !.code = IF st.func THEN Append(@, inst) ELSE @, !.next = @ + 1],
          Value("Inst", ty, st.next))

(* The numbers of new blocks.                                              *)
Blocks(st, n) == [st EXCEPT !.next = @ + n]

(* A jump to block a if a condition holds, and to block b else: the value  *)
(* that each gets for its argument is Nothing where it has none.           *)
EmitBranch(st, cond, a, av, b, bv) ==
  Emit(st, "JIF", VoidTy, <<cond, av, bv>>, <<a, b>>).st

EmitJump(st, a, av) == Emit(st, "JMP", VoidTy, <<av>>, <<a>>).st

EmitLabel(st, a) == Emit(st, "LABEL", VoidTy, << >>, <<a>>).st

BlockArg(ty, a) == Value("Arg", ty, a)
=============================================================================
