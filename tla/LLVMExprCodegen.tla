--------------------------- MODULE LLVMExprCodegen ---------------------------
(***************************************************************************)
(* The generator of LLVM IR for expressions.  The builder of LLVM itself is*)
(* external: it folds an operation on constants, and operands whose types  *)
(* do not fit stop the program in an assert of its own or in the verifier, *)
(* which the generator treats as fatal.                                    *)
(***************************************************************************)
EXTENDS Layout, SyntaxTree

CONSTANTS
  Values,   \* Values[name]: the defn and type of what a name refers to
  Fields    \* Fields[struct]: the fields of a struct, <<name, type>>

Widths ==
  [Bool |-> 8, Char |-> 8, Int8 |-> 8, UInt8 |-> 8, Int16 |-> 16, UInt16 |-> 16,
   Int32 |-> 32, UInt32 |-> 32, Int64 |-> 64, UInt64 |-> 64,
   Float32 |-> 32, Float64 |-> 64]

Pointer == PtrTy(VoidTy)

(* to_llvm_type: pointers are opaque, and array types structural.          *)
RECURSIVE ToLLVMType(_)
ToLLVMType(t) ==
  CASE t.cls \in {"Alias", "Enum"} -> ToLLVMType(t.under)
    [] t.cls = "Array"    -> ArrayTy(ToLLVMType(t.element), t.size, "")
    [] IsVoid(t)          -> VoidTy
    [] IsFloat(t)         -> FloatTy(Widths[t.kind])
    [] t.cls = "Builtin"  -> IntTy(Widths[t.kind])
    [] t.cls = "Function" -> FunctionTy(ToLLVMType(t.ret))
    [] t.cls = "Pointer"  -> Pointer
    [] t.cls = "Struct"   -> StructTy(t.name)
    [] OTHER              -> <<"none">>

LLVMFields ==
  [s \in DOMAIN Fields |-> [i \in DOMAIN Fields[s] |-> ToLLVMType(Fields[s][i][2])]]

(* Code is generated before the module has the data layout of the machine: *)
(* by the default one, 64 bits of an integer are aligned as two 32 are.    *)
RECURSIVE ByDefault(_)
ByDefault(t) ==
  CASE t = IntTy(64)    -> ArrayTy(IntTy(32), 2, "")
    [] t[1] = "array"   -> ArrayTy(ByDefault(t[2]), t[3], "")
    [] OTHER            -> t

DefaultFields ==
  [s \in DOMAIN Fields |-> [i \in DOMAIN Fields[s] |-> ByDefault(LLVMFields[s][i])]]

-----------------------------------------------------------------------------
(* The builder of LLVM.                                                    *)

IsLLVMConstant(v) ==
  v.k \in {"Integer", "Float", "Null", "String", "Global", "Function", "Folded"}

(* An instruction, which only a function has a place for.                  *)
Create(st, op, ty, ops, aux) == IF st.func THEN Emit(st, op, ty, ops, aux) ELSE Abort(st)

(* An instruction without effects, whose result is a constant if all the   *)
(* operands are: then it is evaluated where it stands.                     *)
CreateOrFold(st, op, ty, ops, aux) ==
  IF \A i \in DOMAIN ops : IsLLVMConstant(ops[i])
  THEN LET made == Emit([st EXCEPT !.func = TRUE], op, ty, ops, aux)
       IN  Got([made.st EXCEPT !.func = st.func], [made.v EXCEPT !.k = "Folded"])
  ELSE Create(st, op, ty, ops, aux)

CreateBinary(st, op, cls, l, r) ==
  IF Is(l, cls) /\ l.ty = r.ty THEN CreateOrFold(st, op, l.ty, <<l, r>>, << >>)
  ELSE Abort(st)

CreateCmp(st, cmp, l, r) ==
  IF l.ty = r.ty THEN CreateOrFold(st, "CMP", IntTy(1), <<l, r>>, <<cmp>>)
  ELSE Abort(st)

CreateCast(st, op, ty, v) == CreateOrFold(st, op, ty, <<v>>, << >>)

CreateGEP(st, ty, base, indices) ==
  IF Is(base, "ptr") /\ \A i \in DOMAIN indices : Is(indices[i], "i")
  THEN CreateOrFold(st, "PWALK", Pointer, <<base>> \o indices, <<ty>>)
  ELSE Abort(st)

CreateLoad(st, ty, ptr) ==
  IF Is(ptr, "ptr") THEN Create(st, "LOAD", ty, <<ptr>>, << >>) ELSE Abort(st)

CreateStore(st, v, ptr) ==
  IF Is(ptr, "ptr") THEN Create(st, "STORE", VoidTy, <<v, ptr>>, << >>) ELSE Abort(st)

Constant(ty, n) == Value(IF ty[1] = "f" THEN "Float" ELSE "Integer", ty, n)

NullPointer == Value("Null", Pointer, 0)

-----------------------------------------------------------------------------

(* The comparison of a value with the zero of its type.                    *)
WithZero(st, op, value) ==
  CASE Is(value, "i")   -> CreateCmp(st, <<"i", op>>, value, Constant(value.ty, 0))
    [] Is(value, "f")   -> CreateCmp(st, <<"o", op>>, value, Constant(value.ty, 0))
    [] Is(value, "ptr") -> CreateCmp(st, <<"i", op>>, value, NullPointer)
    [] OTHER            -> Abort(st)

InjectComparison(st, value) ==
  IF value.ty = IntTy(1) THEN Got(st, value) ELSE WithZero(st, "NEq", value)

(* What an expression generates: its value, or the address of what it names.*)
RECURSIVE Generated(_, _, _)

Valued(st, e) == Generated("value", st, e)

Addressed(st, e) == Generated("address", st, e)

(* Mutant: the right operand is generated first.                           *)
BothRightFirst(st, e) ==
  LET r == Valued(st, e.rhs)
      l == Valued(r.st, e.lhs)
  IN  [l |-> l.v, r |-> r.v, st |-> l.st]

Both(st, e) ==
  LET l == Valued(st, e.lhs)
      r == Valued(l.st, e.rhs)
  IN  [l |-> l.v, r |-> r.v, st |-> r.st]

Assignment(st, e) ==
  LET lhs == Addressed(st, e.lhs)
      rhs == Valued(lhs.st, e.rhs)
  IN  Got(CreateStore(rhs.st, rhs.v, lhs.v).st, rhs.v)

(* Arithmetic of the class of the left operand.                            *)
OfClass(x, integer, float) ==
  CASE Is(x.l, "i") -> CreateBinary(x.st, integer, "i", x.l, x.r)
    [] Is(x.l, "f") -> CreateBinary(x.st, float, "f", x.l, x.r)
    [] OTHER        -> Abort(x.st)

(* The type that pointer arithmetic counts in: the pointer's own.          *)
Additive(st, e) ==
  LET x == Both(st, e)
      index == IF e.op = "Sub" THEN CreateOrFold(x.st, "INEG", x.r.ty, <<x.r>>, << >>)
               ELSE Got(x.st, x.r)
  IN  CASE Is(x.l, "ptr") /\ Is(x.r, "i") ->
             CreateGEP(index.st, x.l.ty, x.l, <<index.v>>)
        [] e.op = "Add" -> OfClass(x, "IADD", "FADD")
        [] OTHER        -> OfClass(x, "ISUB", "FSUB")

Multiplicative(st, e) ==
  LET x == Both(st, e)
      signed == IsKind(e.ty, SignedKinds)
  IN  CASE e.op = "Mul" -> OfClass(x, "IMUL", "FMUL")
        [] e.op = "Div" -> OfClass(x, IF signed THEN "SDIV" ELSE "UDIV", "FDIV")
        [] e.op = "Mod" -> OfClass(x, IF signed THEN "SMOD" ELSE "UMOD", "FMOD")

Bitwise(st, e) ==
  LET x  == Both(st, e)
      op == CASE e.op = "And" -> "AND" [] e.op = "Or" -> "OR" [] OTHER -> "XOR"
  IN  CreateBinary(x.st, op, "i", x.l, x.r)

BitShift(st, e) ==
  LET x  == Both(st, e)
      op == CASE e.op = "LShift"               -> "SHL"
              [] IsKind(e.ty, SignedKinds)     -> "SAR"
              [] OTHER                         -> "SHR"
  IN  CreateBinary(x.st, op, "i", x.l, x.r)

Comparing(op, t) ==
  CASE IsFloat(t)           -> "o"
    [] op \in {"Eq", "NEq"} -> "i"
    [] IsUnsigned(t)        -> "u"
    [] OTHER                -> "s"

Comparison(st, e) ==
  LET x == Both(st, e)
      t == e.lhs.ty
  IN  IF IsInteger(t) \/ IsFloat(t) \/ t.cls = "Pointer"
      THEN CreateCmp(x.st, <<Comparing(e.op, t), e.op>>, x.l, x.r)
      ELSE Abort(x.st)

(* && and ||, with a phi in the block where both operands meet.            *)
Condition(x) == InjectComparison(x.st, x.v)

Split(op, test, right, merge) ==
  IF op = "LogicAnd"
  THEN EmitBranch(test.st, test.v, right, Nothing, merge, Constant(IntTy(1), 0))
  ELSE EmitBranch(test.st, test.v, merge, Constant(IntTy(1), 1), right, Nothing)

Met(value, merge) ==
  Got(EmitLabel(EmitJump(value.st, merge, value.v), merge), BlockArg(IntTy(1), merge))

Logical(st, e) ==
  LET right == st.next
      merge == st.next + 1
      test  == Condition(Valued(Blocks(st, 2), e.lhs))
      split == Split(e.op, test, right, merge)
      value == Condition(Valued(EmitLabel(split, right), e.rhs))
  IN  IF st.func THEN Met(value, merge) ELSE Abort(st)

Negation(st, e) ==
  LET x == Valued(st, e.expr)
  IN  CASE Is(x.v, "i") -> CreateOrFold(x.st, "INEG", x.v.ty, <<x.v>>, << >>)
        [] Is(x.v, "f") -> CreateOrFold(x.st, "FNEG", x.v.ty, <<x.v>>, << >>)
        [] OTHER        -> Abort(x.st)

BitwiseNot(st, e) ==
  LET x == Valued(st, e.expr)
  IN  IF Is(x.v, "i") THEN CreateOrFold(x.st, "NOT", x.v.ty, <<x.v>>, << >>)
      ELSE Abort(x.st)

(* The comparison is with "not equal": true where the operand is.          *)
NotComparison == "NEq"

LogicalNot(st, e) ==
  LET x == Valued(st, e.expr) IN WithZero(x.st, NotComparison, x.v)

-----------------------------------------------------------------------------
(* Addresses.                                                              *)

AddressedAccess(st, e) ==
  LET t      == e.base.ty
      base   == IF t.cls = "Pointer" THEN Valued(st, e.base) ELSE Addressed(st, e.base)
      struct == IF t.cls = "Pointer" THEN t.pointee ELSE t
  IN  IF struct.cls = "Struct"
      THEN CreateGEP(base.st, ToLLVMType(struct), base.v,
                     <<Constant(IntTy(32), 0), Constant(IntTy(32), e.field - 1)>>)
      ELSE Abort(base.st)

AddressedRef(st, e) ==
  LET defn == Values[e.name].defn
  IN  CASE defn = "Function" ->
             Got(st, Value("Function", ToLLVMType(Values[e.name].ty), e.name))
        [] defn = "Global" -> Got(st, Value("Global", Pointer, e.name))
        [] defn \in {"Parameter", "Variable"} -> Got(st, Value("Local", Pointer, e.name))
        [] OTHER -> Abort(st)

(* Of an array and through a pointer, the index counts elements.           *)
AddressedSubscript(st, e) ==
  LET base  == IF e.base.ty.cls = "Pointer" THEN Valued(st, e.base)
               ELSE Addressed(st, e.base)
      index == Valued(base.st, e.index)
  IN  CreateGEP(index.st, ToLLVMType(e.ty), base.v, <<index.v>>)

AddressOf(st, e) ==
  CASE e.k = "Unary" /\ e.op = "Dereference" -> Valued(st, e.expr)
    [] e.k = "Access"    -> AddressedAccess(st, e)
    [] e.k = "Ref"       -> AddressedRef(st, e)
    [] e.k = "Subscript" -> AddressedSubscript(st, e)
    [] OTHER             -> Abort(st)

-----------------------------------------------------------------------------
(* Values.                                                                 *)

Loaded(st, e) ==
  LET ptr == Addressed(st, e) IN CreateLoad(ptr.st, ToLLVMType(e.ty), ptr.v)

ValuedRef(st, e) ==
  CASE e.defn \in {"Parameter", "Variable", "Global"} -> Loaded(st, e)
    [] e.defn = "Variant" -> Got(st, Constant(ToLLVMType(e.ty), Values[e.name].value))
    [] OTHER -> Abort(st)

Literal(e) ==
  CASE e.k \in {"Bool", "Char", "Integer", "Float"} -> Constant(ToLLVMType(e.ty), e.value)
    [] e.k = "Null"   -> NullPointer
    [] e.k = "String" -> Value("String", Pointer, e.value)
    [] e.k = "Sizeof" -> Constant(IntTy(64), SizeOf(ToLLVMType(e.target), DefaultFields))

(* The signedness of an integer is that of the type it is cast to.         *)
CastIntegers(st, v, dest, signed) ==
  CASE dest = v.ty -> Got(st, v)
    [] dest[1] = "i" /\ v.ty[2] > dest[2] -> CreateCast(st, "ITRUNC", dest, v)
    [] dest[1] = "i"   -> CreateCast(st, IF signed THEN "SEXT" ELSE "ZEXT", dest, v)
    [] dest[1] = "f"   -> CreateCast(st, IF signed THEN "S2F" ELSE "U2F", dest, v)
    [] dest[1] = "ptr" -> CreateCast(st, "I2P", dest, v)
    [] OTHER           -> Abort(st)

CastFloats(st, v, dest) ==
  CASE dest = v.ty   -> Got(st, v)
    [] dest[1] = "i" -> CreateCast(st, "F2S", dest, v)
    [] dest[1] = "f" -> CreateCast(st, IF v.ty[2] > dest[2] THEN "FTRUNC" ELSE "FEXT", dest, v)
    [] OTHER         -> Abort(st)

CastPointers(st, v, dest) ==
  CASE dest[1] = "i"   -> CreateCast(st, "P2I", dest, v)
    [] dest[1] = "ptr" -> Got(st, v)
    [] OTHER           -> Abort(st)

(* An array cannot be cast bit by bit to a pointer.                        *)
CastExpression(st, e) ==
  LET x    == Valued(st, e.expr)
      dest == ToLLVMType(e.ty)
  IN  CASE Is(x.v, "i")   -> CastIntegers(x.st, x.v, dest, IsKind(e.ty, SignedKinds))
        [] Is(x.v, "f")   -> CastFloats(x.st, x.v, dest)
        [] Is(x.v, "ptr") -> CastPointers(x.st, x.v, dest)
        [] OTHER          -> Abort(x.st)

RECURSIVE ValuedArgs(_, _)
ValuedArgs(st, args) ==
  IF args = << >> THEN [vs |-> << >>, st |-> st]
  ELSE LET first == Valued(st, Head(args))
           rest  == ValuedArgs(first.st, Tail(args))
       IN  [vs |-> <<first.v>> \o rest.vs, st |-> rest.st]

(* A call whose arguments are not of the types of the parameters is not    *)
(* verified.                                                               *)
CallExpression(st, e) ==
  LET F      == e.callee.ty
      callee == Addressed(st, e.callee)
      args   == ValuedArgs(callee.st, e.args)
  IN  IF /\ Is(callee.v, "function")
         /\ \A i \in DOMAIN args.vs : args.vs[i].ty = ToLLVMType(F.params[i])
      THEN Create(args.st, "CALL", ToLLVMType(F.ret), <<callee.v>> \o args.vs, << >>)
      ELSE Abort(args.st)

ValuedBinary(st, e) ==
  CASE e.op = "Assign"               -> Assignment(st, e)
    [] e.op \in {"Add", "Sub"}       -> Additive(st, e)
    [] e.op \in {"Mul", "Div", "Mod"} -> Multiplicative(st, e)
    [] e.op \in {"And", "Or", "Xor"} -> Bitwise(st, e)
    [] e.op \in {"LShift", "RShift"} -> BitShift(st, e)
    [] e.op \in LogicalComparisons   -> Logical(st, e)
    [] OTHER                         -> Comparison(st, e)

ValuedUnary(st, e) ==
  CASE e.op = "Negate"    -> Negation(st, e)
    [] e.op = "Not"       -> BitwiseNot(st, e)
    [] e.op = "LogicNot"  -> LogicalNot(st, e)
    [] e.op = "AddressOf" -> Addressed(st, e.expr)
    [] OTHER              -> Loaded(st, e)

ValueOf(st, e) ==
  CASE st.aborted      -> Got(st, Nothing)
    [] e.k \in Literals -> Got(st, Literal(e))
    [] e.k = "Binary"  -> ValuedBinary(st, e)
    [] e.k = "Unary"   -> ValuedUnary(st, e)
    [] e.k \in {"Access", "Subscript"} -> Loaded(st, e)
    [] e.k = "Ref"     -> ValuedRef(st, e)
    [] e.k = "Call"    -> CallExpression(st, e)
    [] e.k = "Cast"    -> CastExpression(st, e)
    [] e.k = "Paren"   -> Valued(st, e.expr)

Generated(what, st, e) == IF what = "value" THEN ValueOf(st, e) ELSE AddressOf(st, e)

-----------------------------------------------------------------------------

(* What is generated for a definition or a statement of a kind around an   *)
(* expression, where a value of type ty is declared.  A local variable is  *)
(* only allocated.  The verifier compares the type of what is returned.    *)
Lowered(kind, ty, e) ==
  LET x == Valued(Start(kind # "Global"), e)
  IN  CASE kind = "Local" -> Got(Start(TRUE), Nothing)
        [] x.st.aborted   -> x
        [] kind \in {"Global", "Ret"} /\ x.v.ty # ToLLVMType(ty) -> Abort(x.st)
        [] kind = "Global" /\ ~IsLLVMConstant(x.v) -> Abort(x.st)
        [] kind \in {"If", "Until"} -> InjectComparison(x.st, x.v)
        [] OTHER -> x
=============================================================================
