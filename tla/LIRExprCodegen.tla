---------------------------- MODULE LIRExprCodegen ----------------------------
(***************************************************************************)
(* The generator of LIR for expressions.  Valued gives the value of an     *)
(* expression and Addressed the address of an lvalue; each is an operator  *)
(* from the state of the generation to a value and the next state.         *)
(***************************************************************************)
EXTENDS LIRBuilder, SyntaxTree, TLC

CONSTANTS
  Values,   \* Values[name]: the defn and type of what a name refers to
  Fields    \* Fields[struct]: the fields of a struct, <<name, type>>

(* The local variable that an expression initializes.                      *)
NewLocal == "new"

Widths ==
  [Bool |-> 8, Char |-> 8, Int8 |-> 8, UInt8 |-> 8, Int16 |-> 16, UInt16 |-> 16,
   Int32 |-> 32, UInt32 |-> 32, Int64 |-> 64, UInt64 |-> 64,
   Float32 |-> 32, Float64 |-> 64]

(* to_lir_type; tag names the array types that this call creates.          *)
RECURSIVE ToLIRType(_, _)
ToLIRType(t, tag) ==
  CASE t.cls \in {"Alias", "Enum"} -> ToLIRType(t.under, tag)
    [] t.cls = "Array"    -> ArrayTypeGet(ToLIRType(t.element, tag), t.size, tag)
    [] IsVoid(t)          -> VoidTy
    [] IsFloat(t)         -> FloatTy(Widths[t.kind])
    [] t.cls = "Builtin"  -> IntTy(Widths[t.kind])
    [] t.cls = "Function" -> FunctionTy(ToLIRType(t.ret, tag))
    [] t.cls = "Pointer"  -> PtrTy(ToLIRType(t.pointee, tag))
    [] t.cls = "Struct"   -> StructTy(t.name)
    [] OTHER              -> <<"none">>

(* The type of an expression, in a call of to_lir_type of its own.         *)
TypeHere(st, t) == ToLIRType(t, <<"at", ToString(st.next)>>)

LIRFields ==
  [s \in DOMAIN Fields |->
     [i \in DOMAIN Fields[s] |-> ToLIRType(Fields[s][i][2], <<"field", s>>)]]

InjectComparison(st, value) ==
  CASE value.ty = IntTy(1) -> Got(st, value)
    [] Is(value, "i")   -> LET zero == IntegerGet(st, value.ty, 0)
                           IN  BuildEquality(zero.st, <<"i", "NEq">>, value, zero.v)
    [] Is(value, "f")   -> BuildEquality(st, <<"o", "NEq">>, value, FloatGet(st, value.ty, 0).v)
    [] Is(value, "ptr") -> BuildEquality(st, <<"i", "NEq">>, value, Null(value.ty))
    [] OTHER            -> Abort(st)

(* What an expression generates: its value, or the address of what it names.*)
RECURSIVE Generated(_, _, _)

Valued(st, e) == Generated("value", st, e)

Addressed(st, e) == Generated("address", st, e)

(* The operands of a binary operator, left to right.                       *)
Both(st, e) ==
  LET l == Valued(st, e.lhs)
      r == Valued(l.st, e.rhs)
  IN  [l |-> l.v, r |-> r.v, st |-> r.st]

AllOf(x, cls) == Is(x.l, cls) /\ Is(x.r, cls)

AllConstant(x, k) == x.l.k = k /\ x.r.k = k

-----------------------------------------------------------------------------
(* Operators.                                                              *)

Assignment(st, e) ==
  LET lval == Addressed(st, e.lhs)
      rval == Valued(lval.st, e.rhs)
  IN  Got(BuildStore(rval.st, rval.v, lval.v).st, rval.v)

(* Constants are folded in 64 bits, whatever their type.                   *)
Folded(st, ty, n) == IntegerGet(st, ty, Wrapped(64, n))

FoldInteger(op, a, b) ==
  CASE op = "Add" -> a + b
    [] op = "Sub" -> a - b
    [] op = "Mul" -> a * b
    [] op = "Div" -> Quotient(a, b)
    [] op = "Mod" -> Remainder(a, b)

FoldFloat(op, a, b) ==
  CASE op = "Add" -> a + b
    [] op = "Sub" -> a - b
    [] op = "Mul" -> Quotient(a * b, Quarters)
    [] op = "Div" -> Quotient(a * Quarters, b)

(* Arithmetic on two integers or on two floats, folded or built.           *)
Arithmetic(x, op, integer, float) ==
  CASE AllOf(x, "i") /\ AllConstant(x, "Integer") ->
         IF op \in {"Div", "Mod"} /\ x.r.v = 0 THEN Abort(x.st)
         ELSE Folded(x.st, x.l.ty, FoldInteger(op, x.l.v, x.r.v))
    [] AllOf(x, "i") -> BuildIntegerArithmetic(x.st, integer, x.l, x.r)
    [] AllOf(x, "f") /\ op # "Mod" ->
         IF AllConstant(x, "Float")
         THEN IF op = "Div" /\ x.r.v = 0 THEN Abort(x.st)
              ELSE FloatGet(x.st, x.l.ty, FoldFloat(op, x.l.v, x.r.v))
         ELSE BuildFloatArithmetic(x.st, float, x.l, x.r)
    [] OTHER -> Abort(x.st)

Addition(st, e) ==
  LET x == Both(st, e)
      index == CASE e.op = "Add"        -> Got(x.st, x.r)
                 [] x.r.k = "Integer"   -> Folded(x.st, x.r.ty, -x.r.v)
                 [] OTHER               -> BuildUnary(x.st, "INEG", "i", x.r)
  IN  CASE Is(x.l, "ptr") /\ Is(x.r, "i") ->
             BuildPwalk(index.st, x.l.ty, x.l, <<index.v>>)
        [] e.op = "Add" -> Arithmetic(x, "Add", "IADD", "FADD")
        [] OTHER        -> Arithmetic(x, "Sub", "ISUB", "FSUB")

Multiply(st, e) == Arithmetic(Both(st, e), "Mul", "IMUL", "FMUL")

Division(st, e) ==
  LET x == Both(st, e)
      signed == IsKind(e.lhs.ty, SignedKinds)
  IN  IF e.op = "Div"
      THEN Arithmetic(x, "Div", IF signed THEN "SDIV" ELSE "UDIV", "FDIV")
      ELSE Arithmetic(x, "Mod", IF signed THEN "SMOD" ELSE "UMOD", "none")

(* The three tests of the operator are all tests for And.                  *)
BitwiseArithmetic(st, e) ==
  LET x == Both(st, e)
  IN  CASE ~AllOf(x, "i") \/ e.op # "And" -> Abort(x.st)
        [] AllConstant(x, "Integer") -> Folded(x.st, x.l.ty, BitAnd(x.l.v, x.r.v))
        [] OTHER -> BuildBitwise(x.st, "AND", x.l, x.r)

(* A right shift of constants is folded to their bitwise or.  To shift by a*)
(* count that is no bit of an int64 is undefined: here the result is zero. *)
FoldShift(op, a, b) ==
  CASE op = "RShift"              -> BitOr(a, b)
    [] b \in 0 .. Bits(64) - 1    -> a * 2 ^ b
    [] OTHER                      -> 0

BitShift(st, e) ==
  LET x == Both(st, e)
  IN  CASE ~AllOf(x, "i") -> Abort(x.st)
        [] AllConstant(x, "Integer") ->
             Folded(x.st, x.l.ty, FoldShift(e.op, x.l.v, x.r.v))
        [] e.op = "LShift" -> BuildBitwise(x.st, "SHL", x.l, x.r)
        [] IsKind(e.lhs.ty, SignedKinds) -> BuildBitwise(x.st, "SAR", x.l, x.r)
        [] OTHER -> BuildBitwise(x.st, "SHR", x.l, x.r)

(* Mutant: unsigned operands are compared as signed ones.                  *)
ComparingSigned(op, t) ==
  CASE IsFloat(t)           -> "o"
    [] op \in {"Eq", "NEq"} -> "i"
    [] OTHER                -> "s"

(* The class of comparison: ordered floats, signed, unsigned, or neither.  *)
Comparing(op, t) ==
  CASE IsFloat(t)           -> "o"
    [] op \in {"Eq", "NEq"} -> "i"
    [] IsUnsigned(t)        -> "u"
    [] OTHER                -> "s"

NumericalComparison(st, e) ==
  LET x == Both(st, e)
      t == e.lhs.ty
  IN  IF IsInteger(t) \/ IsFloat(t) \/ t.cls = "Pointer"
      THEN IF e.op \in {"Eq", "NEq"}
           THEN BuildEquality(x.st, <<Comparing(e.op, t), e.op>>, x.l, x.r)
           ELSE BuildOrder(x.st, <<Comparing(e.op, t), e.op>>, x.l, x.r)
      ELSE Abort(x.st)

(* && and ||: the block of the right operand and the block where both meet,*)
(* whose argument is the constant that the left operand decides, or what   *)
(* the right one is.                                                       *)
Condition(x) == InjectComparison(x.st, x.v)

Split(op, test, right, merge) ==
  IF op = "LogicAnd" THEN BuildJif(test.st, test.v, right, Nothing, merge, False)
                     ELSE BuildJif(test.st, test.v, merge, True, right, Nothing)

Met(value, merge) ==
  Got(EmitLabel(BuildJmp(value.st, merge, value.v), merge), BlockArg(IntTy(1), merge))

Logical(st, e) ==
  LET right == st.next
      merge == st.next + 1
      test  == Condition(Valued(Blocks(st, 2), e.lhs))
      split == Split(e.op, test, right, merge)
      value == Condition(Valued(EmitLabel(split, right), e.rhs))
  IN  IF st.func THEN Met(value, merge) ELSE Abort(st)

Negation(st, e) ==
  LET x == Valued(st, e.expr)
      v == x.v
  IN  CASE v.k = "Integer" -> Folded(x.st, v.ty, -v.v)
        [] v.k = "Float"   -> FloatGet(x.st, v.ty, -v.v)
        [] Is(v, "i")      -> BuildUnary(x.st, "INEG", "i", v)
        [] Is(v, "f")      -> BuildUnary(x.st, "FNEG", "f", v)
        [] OTHER           -> Abort(x.st)

BitwiseNot(st, e) ==
  LET x == Valued(st, e.expr)
  IN  CASE x.v.k = "Integer" -> Folded(x.st, x.v.ty, -x.v.v - 1)
        [] OTHER             -> BuildUnary(x.st, "NOT", "i", x.v)

(* A constant becomes a bit, any other operand is compared with its zero.  *)
LogicalNot(st, e) ==
  LET x == Valued(st, e.expr)
      v == x.v
  IN  CASE v.k \in {"Integer", "Float"} -> Got(x.st, IF v.v = 0 THEN True ELSE False)
        [] v.k = "Null"   -> Got(x.st, True)
        [] Is(v, "i")     -> LET zero == IntegerGet(x.st, v.ty, 0)
                             IN  BuildEquality(zero.st, <<"i", "Eq">>, v, zero.v)
        [] Is(v, "f")     -> BuildEquality(x.st, <<"o", "Eq">>, v, FloatGet(x.st, v.ty, 0).v)
        [] Is(v, "ptr")   -> BuildEquality(x.st, <<"i", "Eq">>, v, Null(v.ty))
        [] OTHER          -> Abort(x.st)

-----------------------------------------------------------------------------
(* Addresses.                                                              *)

AddressedAccess(st, e) ==
  LET base == CASE e.base.ty.cls = "Pointer" -> Valued(st, e.base)
                [] e.base.ty.cls = "Struct"  -> Addressed(st, e.base)
                [] OTHER                     -> Abort(st)
      ty    == PtrTy(TypeHere(base.st, e.ty))
      index == IntegerGet(base.st, IntTy(32), e.field - 1)
      zero  == IntegerGet(index.st, IntTy(32), 0)
  IN  BuildPwalk(zero.st, ty, base.v, <<zero.v, index.v>>)

AddressedReference(st, e) ==
  LET defn == Values[e.name].defn
      type == ToLIRType(Values[e.name].ty, <<"symbol", e.name>>)
  IN  CASE defn = "Function" -> Got(st, Value("Function", type, e.name))
        [] defn = "Global"   -> Got(st, Value("Global", PtrTy(type), e.name))
        [] defn \in {"Parameter", "Variable"} /\ st.func ->
             Got(st, Value("Local", PtrTy(type), e.name))
        [] OTHER -> Abort(st)

AddressedSubscript(st, e) ==
  LET type  == PtrTy(TypeHere(st, e.ty))
      base  == CASE e.base.ty.cls = "Array"   -> Addressed(st, e.base)
                 [] e.base.ty.cls = "Pointer" -> Valued(st, e.base)
                 [] OTHER                     -> Abort(st)
      index == Valued(base.st, e.index)
      zero  == IntegerGet(index.st, IntTy(32), 0)
  IN  IF e.base.ty.cls = "Array"
      THEN BuildPwalk(zero.st, type, base.v, <<zero.v, index.v>>)
      ELSE BuildPwalk(index.st, type, base.v, <<index.v>>)

AddressOf(st, e) ==
  CASE e.k = "Unary" /\ e.op = "Dereference" -> Valued(st, e.expr)
    [] e.k = "Access"    -> AddressedAccess(st, e)
    [] e.k = "Ref"       -> AddressedReference(st, e)
    [] e.k = "Subscript" -> AddressedSubscript(st, e)
    [] OTHER             -> Abort(st)

-----------------------------------------------------------------------------
(* Values.                                                                 *)

(* What is at an address.                                                  *)
Loaded(st, e) ==
  LET ptr == Addressed(st, e)
  IN  BuildLoad(ptr.st, TypeHere(ptr.st, e.ty), ptr.v)

ValuedReference(st, e) ==
  CASE e.defn \in {"Parameter", "Variable", "Global"} -> Loaded(st, e)
    [] e.defn = "Variant" -> IntegerGet(st, TypeHere(st, e.ty), Values[e.name].value)
    [] OTHER -> Abort(st)

Literal(st, e) ==
  CASE e.k \in {"Bool", "Char"} -> IntegerGet(st, IntTy(8), e.value)
    [] e.k = "Integer" -> IntegerGet(st, TypeHere(st, e.ty), e.value)
    [] e.k = "Float"   -> FloatGet(st, TypeHere(st, e.ty), e.value)
    [] e.k = "Null"    -> Got(st, Null(TypeHere(st, e.ty)))
    [] e.k = "String"  -> BuildString(st, e.value)
    [] e.k = "Sizeof"  -> IntegerGet(st, IntTy(64),
                                     SizeOf(TypeHere(st, e.target), LIRFields))

(* The signedness of an integer is that of the type of the expression.     *)
CastInteger(st, v, dest, signed) ==
  LET source == SizeOf(v.ty, LIRFields)
      size   == SizeOf(dest, LIRFields)
  IN  CASE dest[1] = "i" /\ v.k = "Integer" -> IntegerGet(st, dest, v.v)
        [] dest[1] = "i" /\ source = size   -> Got(st, v)
        [] dest[1] = "i" /\ source > size   -> BuildCast(st, "ITRUNC", dest, v, "i", "i")
        [] dest[1] = "i" -> BuildCast(st, IF signed THEN "SEXT" ELSE "ZEXT", dest, v, "i", "i")
        [] dest[1] = "f" /\ v.k = "Integer" -> FloatGet(st, dest, v.v * Quarters)
        [] dest[1] = "f" -> BuildCast(st, IF signed THEN "S2F" ELSE "U2F", dest, v, "i", "f")
        [] dest[1] = "ptr" /\ v.k = "Integer" /\ v.v = 0 -> Got(st, Null(dest))
        [] dest[1] = "ptr" -> BuildCast(st, "I2P", dest, v, "i", "ptr")
        [] OTHER -> Abort(st)

CastFloat(st, v, dest, signed) ==
  CASE dest[1] = "i" /\ v.k = "Float" -> IntegerGet(st, dest, Quotient(v.v, Quarters))
    [] dest[1] = "i" -> BuildCast(st, IF signed THEN "F2S" ELSE "F2U", dest, v, "f", "i")
    [] dest[1] = "f" /\ v.k = "Float"  -> FloatGet(st, dest, v.v)
    [] dest[1] = "f" /\ v.ty = dest    -> Got(st, v)
    [] dest[1] = "f" -> BuildCast(st, IF v.ty[2] > dest[2] THEN "FTRUNC" ELSE "FEXT",
                                  dest, v, "f", "f")
    [] OTHER -> Abort(st)

CastPointer(st, v, dest) ==
  CASE dest[1] = "i" /\ v.k = "Null"   -> IntegerGet(st, dest, 0)
    [] dest[1] = "i"                   -> BuildCast(st, "P2I", dest, v, "ptr", "i")
    [] dest[1] = "ptr" /\ v.k = "Null" -> Got(st, Null(dest))
    [] dest[1] = "ptr"                 -> BuildReint(st, dest, v)
    [] OTHER                           -> Abort(st)

TypeCast(st, e) ==
  LET x    == Valued(st, e.expr)
      dest == TypeHere(x.st, e.ty)
  IN  CASE Is(x.v, "i") -> CastInteger(x.st, x.v, dest, IsKind(e.expr.ty, SignedKinds))
        [] Is(x.v, "f") -> CastFloat(x.st, x.v, dest, IsKind(e.ty, SignedKinds))
        [] Is(x.v, "ptr") -> CastPointer(x.st, x.v, dest)
        [] Is(x.v, "array") /\ dest[1] = "ptr" -> BuildReint(x.st, dest, x.v)
        [] OTHER -> Abort(x.st)

RECURSIVE ValuedArgs(_, _)
ValuedArgs(st, args) ==
  IF args = << >> THEN [vs |-> << >>, st |-> st]
  ELSE LET first == Valued(st, Head(args))
           rest  == ValuedArgs(first.st, Tail(args))
       IN  [vs |-> <<first.v>> \o rest.vs, st |-> rest.st]

FunctionCall(st, e) ==
  LET callee == Addressed(st, e.callee)
      args   == ValuedArgs(callee.st, e.args)
  IN  BuildCall(args.st, callee.v, args.vs)

ValuedBinary(st, e) ==
  CASE e.op = "Assign"               -> Assignment(st, e)
    [] e.op \in {"Add", "Sub"}       -> Addition(st, e)
    [] e.op = "Mul"                  -> Multiply(st, e)
    [] e.op \in {"Div", "Mod"}       -> Division(st, e)
    [] e.op \in {"And", "Or", "Xor"} -> BitwiseArithmetic(st, e)
    [] e.op \in {"LShift", "RShift"} -> BitShift(st, e)
    [] e.op \in LogicalComparisons   -> Logical(st, e)
    [] OTHER                         -> NumericalComparison(st, e)

ValuedUnary(st, e) ==
  CASE e.op = "Negate"    -> Negation(st, e)
    [] e.op = "Not"       -> BitwiseNot(st, e)
    [] e.op = "LogicNot"  -> LogicalNot(st, e)
    [] e.op = "AddressOf" -> Addressed(st, e.expr)
    [] OTHER              -> Loaded(st, e)

ValueOf(st, e) ==
  CASE st.aborted      -> Got(st, Nothing)
    [] e.k \in Literals -> Literal(st, e)
    [] e.k = "Binary"  -> ValuedBinary(st, e)
    [] e.k = "Unary"   -> ValuedUnary(st, e)
    [] e.k \in {"Access", "Subscript"} -> Loaded(st, e)
    [] e.k = "Ref"     -> ValuedReference(st, e)
    [] e.k = "Call"    -> FunctionCall(st, e)
    [] e.k = "Cast"    -> TypeCast(st, e)
    [] e.k = "Paren"   -> Valued(st, e.expr)

Generated(what, st, e) == IF what = "value" THEN ValueOf(st, e) ELSE AddressOf(st, e)

-----------------------------------------------------------------------------

(* What is generated for a definition or a statement of a kind around an   *)
(* expression, where a value of type ty is declared.                       *)
Lowered(kind, ty, e) ==
  LET x == Valued(Start(kind # "Global"), e)
      local == Value("Local", PtrTy(ToLIRType(ty, <<"symbol", NewLocal>>)), NewLocal)
  IN  CASE x.st.aborted  -> x
        [] kind = "Global" /\ ~IsConstantValue(x.v) -> Abort(x.st)
        [] kind = "Local" -> Got(BuildStore(x.st, x.v, local).st, x.v)
        [] kind \in {"If", "Until"} -> InjectComparison(x.st, x.v)
        [] OTHER -> x
=============================================================================
