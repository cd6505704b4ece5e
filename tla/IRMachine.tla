------------------------------- MODULE IRMachine -------------------------------
(***************************************************************************)
(* What the code of a generator does when it runs, and what the operations *)
(* of the language do: the arithmetic both share, a memory of cells, and   *)
(* an interpreter of instructions.  Nothing here models the compiler.      *)
(*                                                                         *)
(* A state has the memory, the calls made so far, the values of the        *)
(* instructions that ran, and ok: nothing undefined has happened yet.      *)
(***************************************************************************)
EXTENDS Layout, TLC

CONSTANTS
  Addresses,   \* the address of every symbol, and of every string
  Memory,      \* the cells at first: [size |-> bytes, v |-> value] by address
  Counter      \* the cell that a call adds one to

Begin == [mem |-> Memory, trace |-> << >>, env |-> << >>, ok |-> TRUE]

Undefined(S) == [S EXCEPT !.ok = FALSE]

Of(S, v) == [v |-> v, S |-> S]

ReadCell(S, size, address) ==
  IF address \in DOMAIN S.mem /\ S.mem[address].size = size
  THEN Of(S, S.mem[address].v) ELSE Of(Undefined(S), 0)

WriteCell(S, size, address, v) ==
  IF address \in DOMAIN S.mem /\ S.mem[address].size = size
  THEN [S EXCEPT !.mem[address].v = v] ELSE Undefined(S)

(* A call returns one more than the sum of what it is given.               *)
RECURSIVE Total(_)
Total(vs) == IF vs = << >> THEN 1 ELSE Head(vs) + Total(Tail(vs))

Called(S, name, sizes, vs, result(_)) ==
  Of([S EXCEPT !.trace = Append(@, <<name, sizes, vs>>),
               !.mem[Counter].v = @ + 1], result(Total(vs)))

-----------------------------------------------------------------------------

(* An operation on two numbers of a width, where it is defined.            *)
Binary(op, w, a, b) ==
  LET ua == Unsigned(w, a)
      ub == Unsigned(w, b)
  IN  CASE op = "IADD" -> Wrapped(w, a + b)
        [] op = "ISUB" -> Wrapped(w, a - b)
        [] op = "IMUL" -> Wrapped(w, a * b)
        [] op = "SDIV" -> Wrapped(w, Quotient(a, b))
        [] op = "SMOD" -> Wrapped(w, Remainder(a, b))
        [] op = "UDIV" -> Wrapped(w, ua \div ub)
        [] op = "UMOD" -> Wrapped(w, ua % ub)
        [] op = "AND"  -> Wrapped(w, BitAnd(a, b))
        [] op = "OR"   -> Wrapped(w, BitOr(a, b))
        [] op = "XOR"  -> Wrapped(w, BitXor(a, b))
        [] op = "SHL"  -> Wrapped(w, a * 2 ^ b)
        [] op = "SHR"  -> Wrapped(w, ua \div 2 ^ b)
        [] op = "SAR"  -> a \div 2 ^ b
        [] op = "FADD" -> a + b
        [] op = "FSUB" -> a - b
        [] op = "FMUL" -> Quotient(a * b, Quarters)
        [] op = "FDIV" -> Quotient(a * Quarters, b)
        [] op = "FMOD" -> Remainder(a, b)

Defined(op, w, a, b) ==
  CASE op \in {"SDIV", "SMOD", "UDIV", "UMOD", "FDIV", "FMOD"} -> b # 0
    [] op \in {"SHL", "SHR", "SAR"} -> b \in 0 .. Bits(w) - 1
    [] OTHER -> TRUE

BinaryOps ==
  {"IADD", "ISUB", "IMUL", "SDIV", "SMOD", "UDIV", "UMOD", "AND", "OR", "XOR",
   "SHL", "SHR", "SAR", "FADD", "FSUB", "FMUL", "FDIV", "FMOD"}

Computed(S, op, w, a, b) ==
  IF Defined(op, w, a, b) THEN Of(S, Binary(op, w, a, b)) ELSE Of(Undefined(S), 0)

(* A comparison of two numbers of a width.                                 *)
Compared(cmp, w, a, b) ==
  LET x == IF cmp[1] = "u" THEN Unsigned(w, a) ELSE a
      y == IF cmp[1] = "u" THEN Unsigned(w, b) ELSE b
      holds == CASE cmp[2] = "Eq" -> x = y  [] cmp[2] = "NEq"  -> x # y
                 [] cmp[2] = "Lt" -> x < y  [] cmp[2] = "LtEq" -> x <= y
                 [] cmp[2] = "Gt" -> x > y  [] cmp[2] = "GtEq" -> x >= y
  IN  IF holds THEN 1 ELSE 0

(* A floating point number can be an integer of a width if it fits.        *)
Fits(w, signed, n) ==
  IF signed THEN Wrapped(w, n) = n ELSE n \in 0 .. 2 ^ Bits(w) - 1

-----------------------------------------------------------------------------
(* The interpreter: fields are the types of the fields of structs, and     *)
(* signBit tells what the extension of a set bit with its sign is.         *)

WidthOf(ty) == IF ty[1] \in {"i", "f"} THEN ty[2] ELSE 64

Operand(S, v) ==
  CASE v.k = "Integer" -> Wrapped(v.ty[2], v.v)
    [] v.k \in {"Float", "Null"} -> v.v
    [] v.k \in {"Global", "Local", "Function", "String"} -> Addresses[v.v]
    [] OTHER -> S.env[v.v]

Scalar(ty) == ty[1] \in {"i", "f", "ptr"}

(* The offset that the indices walk from a type, and whether it is known:  *)
(* a selector takes the register of an index to have 64 bits.              *)
RECURSIVE Walk(_, _, _, _, _)
Walk(S, ty, indices, fields, anyWidth) ==
  LET index == Head(indices)
      n     == IF index.k = "Integer" THEN index.v ELSE Operand(S, index)
      known == anyWidth \/ index.k = "Integer" \/ index.ty = IntTy(64)
      rest(t) == Walk(S, t, Tail(indices), fields, anyWidth)
      plus(by, t) == [ok |-> known /\ rest(t).ok, by |-> by + rest(t).by]
  IN  CASE indices = << >> -> [ok |-> TRUE, by |-> 0]
        [] ty[1] = "struct" -> plus(FieldOffset(fields[ty[2]], n + 1, fields),
                                    fields[ty[2]][n + 1])
        [] ty[1] \in {"array", "ptr"} -> plus(n * SizeOf(ty[2], fields), ty[2])
        [] OTHER -> [ok |-> FALSE, by |-> 0]

RECURSIVE Run(_, _, _, _, _)

Step(S, inst, fields, llvm) ==
  LET op == inst.op
      v  == [i \in DOMAIN inst.ops |->
               IF inst.ops[i].k = "None" THEN 0 ELSE Operand(S, inst.ops[i])]
      w  == WidthOf(inst.ty)
      from == WidthOf(inst.ops[1].ty)
      size == SizeOf(inst.ty, fields)
      walk == Walk(S, PtrTy(inst.aux[1]), Tail(inst.ops), fields, llvm)
      wrap(n) == IF inst.ty[1] = "i" THEN Wrapped(w, n) ELSE n
      signExtended == IF from = 1 /\ llvm THEN -v[1] ELSE v[1]
  IN  CASE op = "LOAD" -> IF Scalar(inst.ty) THEN ReadCell(S, size, v[1])
                          ELSE Of(Undefined(S), 0)
        [] op = "STORE" ->
             Of(IF Scalar(inst.ops[1].ty)
                THEN WriteCell(S, SizeOf(inst.ops[1].ty, fields), v[2], v[1])
                ELSE Undefined(S), 0)
        [] op = "CALL" ->
             Called(S, inst.ops[1].v,
                    [i \in DOMAIN Tail(inst.ops) |-> SizeOf(inst.ops[i + 1].ty, fields)],
                    Tail(v), wrap)
        [] op = "PWALK" -> IF walk.ok THEN Of(S, v[1] + walk.by) ELSE Of(Undefined(S), 0)
        [] op = "STRING" -> Of(S, Addresses[inst.aux[1]])
        [] op = "CMP"  -> Of(S, Compared(inst.aux[1], from, v[1], v[2]))
        [] op \in BinaryOps -> Computed(S, op, w, v[1], v[2])
        [] op = "INEG" -> Of(S, Wrapped(w, -v[1]))
        [] op = "FNEG" -> Of(S, -v[1])
        [] op = "NOT"  -> Of(S, Wrapped(w, -v[1] - 1))
        [] op \in {"ITRUNC", "P2I"} -> Of(S, Wrapped(w, v[1]))
        [] op = "SEXT" -> Of(S, signExtended)
        [] op = "S2F"  -> Of(S, signExtended * Quarters)
        [] op \in {"ZEXT", "I2P"} -> Of(S, Unsigned(from, v[1]))
        [] op = "U2F"  -> Of(S, Unsigned(from, v[1]) * Quarters)
        [] op \in {"F2S", "F2U"} ->
             LET n == Quotient(v[1], Quarters)
             IN  IF Fits(w, op = "F2S", n) THEN Of(S, Wrapped(w, n)) ELSE Of(Undefined(S), 0)
        [] op \in {"FTRUNC", "FEXT", "REINT"} -> Of(S, v[1])

(* The instruction has computed x.v.                                       *)
Defining(inst, x) == [x.S EXCEPT !.env = (inst.def :> x.v) @@ @]

(* From the pc-th instruction on, until the code ends.                     *)
Run(S, code, pc, fields, llvm) ==
  LET inst == code[pc]
      taken == IF inst.op = "JMP" \/ Operand(S, inst.ops[1]) = 1 THEN 1 ELSE 2
      dest == inst.aux[taken]
      arg  == inst.ops[Len(inst.ops) - Len(inst.aux) + taken]
      at   == CHOOSE i \in DOMAIN code : code[i].op = "LABEL" /\ code[i].aux = <<dest>>
      passed == IF arg.k = "None" THEN S
                ELSE [S EXCEPT !.env = (dest :> Operand(S, arg)) @@ @]
  IN  CASE pc > Len(code) \/ ~S.ok -> S
        [] inst.op = "LABEL" -> Run(S, code, pc + 1, fields, llvm)
        [] inst.op \in {"JIF", "JMP"} -> Run(passed, code, at, fields, llvm)
        [] OTHER -> Run(Defining(inst, Step(S, inst, fields, llvm)),
                        code, pc + 1, fields, llvm)
=============================================================================
