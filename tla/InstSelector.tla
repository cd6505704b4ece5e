--------------------------- MODULE InstSelector ---------------------------
(***************************************************************************)
(* The machine instructions InstSelector emits for one operation of the    *)
(* graph on integers (lir/source/machine/InstSelector.cpp), with the       *)
(* operands in the order of the code (AT&T: the destination is last) and   *)
(* the kill and dead flags.  Values are in virtual registers: v is the     *)
(* one the operation defines, a the sequence of those it uses.             *)
(* Sizes, subregisters, immediates and stack slots are abstracted.         *)
(***************************************************************************)
EXTENDS Sequences, SequencesExt, Naturals

CONSTANTS
  RAX, RCX, RDX,
  ArgRegs      \* as_argument(): the registers of the first arguments.

(* The mnemonics, those of one effect under one name; push and pop are     *)
(* CallsiteAnalysis's.                                                     *)
Mnemonics == {"load", "deref", "store", "mov", "const", "add", "sub", "imul",
              "neg", "shl", "scale", "cqo", "zero", "div", "cmp", "setg", "test",
              "call", "ret", "jmp", "jne", "push", "pop"}

Use(reg)  == [reg |-> reg, kill |-> FALSE]
Kill(reg) == [reg |-> reg, kill |-> TRUE]

Inst(op, regs) == [op |-> op, regs |-> regs]

Mov(from, to) == Inst("mov", <<Use(from), Use(to)>>)

Kinds == {"load", "deref", "iadd", "isub", "imul", "ineg", "shift", "sdiv",
          "smod", "udiv", "umod", "less", "pwalk", "call0", "call1", "call2"}

Arity(kind) ==
  CASE kind \in {"load", "call0"} -> 0
    [] kind \in {"deref", "ineg", "call1"} -> 1
    [] OTHER -> 2

-----------------------------------------------------------------------------
SelectLoad(v) == <<Inst("load", <<Use(v)>>)>>

SelectDeref(v, a) == <<Inst("deref", <<Use(a[1]), Use(v)>>)>>

SelectIAdd(v, a) == <<Inst("add", <<Use(a[1]), Use(a[2])>>), Mov(a[2], v)>>

SelectISub(v, a) == <<Inst("sub", <<Use(a[2]), Use(a[1])>>), Mov(a[1], v)>>

SelectIMul(v, a) == <<Mov(a[1], v), Inst("imul", <<Use(a[2]), Use(v)>>)>>

SelectNegate(v, a) == <<Inst("neg", <<Use(a[1])>>), Mov(a[1], v)>>

(* The count goes through CL, which nothing kills.                         *)
SelectShift(v, a) ==
  <<Mov(a[1], v), Mov(a[2], RCX), Inst("shl", <<Use(RCX), Use(v)>>)>>

(* RDX:RAX is divided by the destination, which holds the divisor until    *)
(* the quotient or the remainder replaces it.  The result that is not      *)
(* wanted is dead; so is, for unsigned operands, the zero in RDX.          *)
SelectDivision(kind, v, a) ==
  LET result == IF kind \in {"smod", "umod"} THEN RDX ELSE RAX
      Result(reg) == IF reg = result THEN Use(reg) ELSE Kill(reg)
  IN  << Mov(a[1], RAX),
         Mov(a[2], v),
         IF kind \in {"sdiv", "smod"} THEN Inst("cqo", <<Use(RAX), Use(RDX)>>)
                                      ELSE Inst("zero", <<Kill(RDX)>>),
         Inst("div", <<Use(v), Kill(RAX), Kill(RDX), Result(RAX), Result(RDX)>>),
         Inst("mov", <<Kill(result), Use(v)>>) >>

(* flip_setcc: CMP a1, a2 compares a2 to a1.                               *)
SelectComparison(v, a) ==
  <<Inst("cmp", <<Use(a[1]), Use(a[2])>>), Inst("setg", <<Use(v)>>)>>

(* One index, of elements larger than a byte.                              *)
SelectPwalk(v, a) ==
  << Mov(a[1], v),
     Inst("scale", <<Use(a[2])>>),
     Inst("add", <<Use(a[2]), Use(v)>>) >>

(* The arguments are moved last to first, and killed by the call.          *)
SelectCall(v, a) ==
  Reverse([i \in DOMAIN a |-> Mov(a[i], ArgRegs[i])])
  \o << Inst("call", Reverse([i \in DOMAIN a |-> Kill(ArgRegs[i])]) \o <<Use(RAX)>>),
        Inst("mov", <<Kill(RAX), Use(v)>>) >>

Select(kind, v, a) ==
  CASE kind = "load"  -> SelectLoad(v)
    [] kind = "deref" -> SelectDeref(v, a)
    [] kind = "iadd"  -> SelectIAdd(v, a)
    [] kind = "isub"  -> SelectISub(v, a)
    [] kind = "imul"  -> SelectIMul(v, a)
    [] kind = "ineg"  -> SelectNegate(v, a)
    [] kind = "shift" -> SelectShift(v, a)
    [] kind \in {"sdiv", "smod", "udiv", "umod"} -> SelectDivision(kind, v, a)
    [] kind = "less"  -> SelectComparison(v, a)
    [] kind = "pwalk" -> SelectPwalk(v, a)
    [] OTHER          -> SelectCall(v, a)

(* *p = x: operand 1 of the store is the source.                           *)
SelectStore(p, x) == <<Inst("store", <<Use(x), Use(p)>>)>>

SelectReturn(x) == <<Mov(x, RAX), Inst("ret", <<Use(RAX)>>)>>

-----------------------------------------------------------------------------
(* What the operation computes, as a term over the terms x of its operands.*)
Term(kind, v, x) ==
  CASE kind = "load"  -> <<"load", v>>
    [] kind = "deref" -> <<"deref", x[1]>>
    [] kind = "iadd"  -> <<"add", x[1], x[2]>>
    [] kind = "isub"  -> <<"sub", x[1], x[2]>>
    [] kind = "imul"  -> <<"mul", x[1], x[2]>>
    [] kind = "ineg"  -> <<"neg", x[1]>>
    [] kind = "shift" -> <<"shl", x[1], x[2]>>
    [] kind = "sdiv"  -> <<"quot", <<"sign", x[1]>>, x[1], x[2]>>
    [] kind = "smod"  -> <<"rem",  <<"sign", x[1]>>, x[1], x[2]>>
    [] kind = "udiv"  -> <<"quot", <<"zero">>, x[1], x[2]>>
    [] kind = "umod"  -> <<"rem",  <<"zero">>, x[1], x[2]>>
    [] kind = "less"  -> <<"less", x[1], x[2]>>
    [] kind = "pwalk" -> <<"add", <<"scale", x[2]>>, x[1]>>
    [] kind = "store" -> <<"store", x[1], x[2]>>
    [] kind \in {"call0", "call1", "call2"} -> <<"call">> \o x
    [] kind \in {"true", "false"} -> <<kind>>
    [] OTHER          -> x[1]
=============================================================================
