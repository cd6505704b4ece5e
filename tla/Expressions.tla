------------------------------- MODULE Expressions -------------------------------
(***************************************************************************)
(* An expression on its way through the compiler: its tokens are parsed,   *)
(* the tree is analysed, and one of the two backends generates code.       *)
(***************************************************************************)
EXTENDS ExprParser, TLC

CONSTANTS
  Values,      \* what the names of values refer to
  TypeDefns,   \* what the names of types refer to
  Fields,      \* the fields of structs
  Addresses, Memory, Counter,   \* where the code runs: see IRMachine
  Units        \* the definitions and statements: [kind, ty, tokens]

VARIABLES
  unit,    \* the definition or the statement that is compiled
  stage,   \* "tokens", "parsed", "analysed" or "lowered"
  tree,    \* the expression, or the failure that stopped the compiler
  backend, \* "LIR" or "LLVM"
  code     \* what the backend generated: a value v and the state st

SX == INSTANCE SequencesExt

vars == <<unit, stage, tree, backend, code>>

Analysis == INSTANCE ExprAnalysis
LIR == INSTANCE LIRExprCodegen
LLVM == INSTANCE LLVMExprCodegen
Meaning == INSTANCE ExprMeaning

NoCode == LIR!Got(LIR!Start(FALSE), LIR!Nothing)

Init ==
  /\ unit \in Units
  /\ stage = "tokens"
  /\ tree = Fatal("none")
  /\ backend = "None"
  /\ code = NoCode

Parse ==
  /\ stage = "tokens"
  /\ stage' = "parsed"
  /\ tree' = Parsed(unit.tokens)
  /\ UNCHANGED <<unit, backend, code>>

Analyse ==
  /\ stage = "parsed" /\ ~Failed(tree)
  /\ stage' = "analysed"
  /\ tree' = Analysis!Analysed(unit.kind, unit.ty, tree)
  /\ UNCHANGED <<unit, backend, code>>

LowerLIR ==
  /\ stage = "analysed" /\ ~Failed(tree)
  /\ stage' = "lowered"
  /\ backend' = "LIR"
  /\ code' = LIR!Lowered(unit.kind, unit.ty, tree)
  /\ UNCHANGED <<unit, tree>>

LowerLLVM ==
  /\ stage = "analysed" /\ ~Failed(tree)
  /\ stage' = "lowered"
  /\ backend' = "LLVM"
  /\ code' = LLVM!Lowered(unit.kind, unit.ty, tree)
  /\ UNCHANGED <<unit, tree>>

Next == Parse \/ Analyse \/ LowerLIR \/ LowerLLVM

Spec == Init /\ [][Next]_vars

-----------------------------------------------------------------------------
(* What the code of a unit does, and what it should do.                    *)

New == Addresses[LIR!NewLocal]

Before(u) ==
  [Meaning!Begin EXCEPT !.mem =
     (New :> [size |-> Meaning!Bytes(u.ty), v |-> 0]) @@ @]

Observed(kind, S, v) ==
  [mem |-> S.mem, trace |-> S.trace,
   v |-> CASE kind \in {"Global", "Ret"} -> v
           [] kind \in {"If", "Until"}   -> IF v = 0 THEN 0 ELSE 1
           [] OTHER                      -> 0]

(* What a unit does whose expression has the value and the effects x.      *)
Outcome(u, x) ==
  LET S == IF u.kind = "Local"
           THEN Meaning!WriteCell(x.S, Meaning!Bytes(u.ty), New, x.v) ELSE x.S
  IN  [ok |-> S.ok, seen |-> Observed(u.kind, S, x.v)]

(* The meaning of a unit: whether it has one, and what is observed.        *)
Means(u, e) == Outcome(u, Meaning!Eval(Before(u), e))

(* What generated code does that leaves S: to return a value takes one of  *)
(* the right size.                                                         *)
Leaves(u, gen, fields, S) ==
  LET v == IF gen.v.k = "None" \/ ~S.ok THEN 0 ELSE Meaning!Operand(S, gen.v)
      fits == u.kind \in {"Global", "Ret"} =>
                LIR!SizeOf(gen.v.ty, fields) = Meaning!Bytes(u.ty)
  IN  [ok |-> S.ok /\ fits, seen |-> Observed(u.kind, S, v)]

Does(u, gen, fields, llvm) ==
  Leaves(u, gen, fields, Meaning!Run(Before(u), gen.st.code, 1, fields, llvm))

-----------------------------------------------------------------------------
(* Parts of trees.                                                         *)

Children(e) ==
  CASE e.k = "Binary"                    -> <<e.lhs, e.rhs>>
    [] e.k \in {"Unary", "Paren", "Cast"} -> <<e.expr>>
    [] e.k = "Access"                    -> <<e.base>>
    [] e.k = "Subscript"                 -> <<e.base, e.index>>
    [] e.k = "Call"                      -> <<e.callee>> \o e.args
    [] OTHER                             -> << >>

RECURSIVE Nodes(_)
Nodes(e) ==
  <<e>> \o SX!FlattenSeq([i \in DOMAIN Children(e) |-> Nodes(Children(e)[i])])

Some(e, P(_)) == LET ns == Nodes(e) IN \E i \in DOMAIN ns : P(ns[i])

SomeChild(e, P(_)) == \E i \in DOMAIN Children(e) : P(Children(e)[i])

IsOp(e, ops) == e.k \in {"Binary", "Unary"} /\ e.op \in ops

(* Whether an expression is generated as a bit: the result of a comparison.*)
RECURSIVE IsBit(_)
IsBit(e) ==
  \/ IsOp(e, NumericalComparisons \union LogicalComparisons \union {"LogicNot"})
  \/ e.k = "Paren" /\ IsBit(e.expr)
  \/ e.k = "Cast" /\ IsBit(e.expr) /\ Meaning!Integral(e.ty) /\ Meaning!Width(e.ty) = 8
  \/ IsOp(e, {"Assign"}) /\ IsBit(e.rhs)
  \/ IsOp(e, {"And", "Or", "Xor"}) /\ IsBit(e.lhs)

Named(t) == t.cls \in {"Alias", "Enum"}

NamedSigned(t) == Named(t) /\ Meaning!Signed(t)

(* The value of a constant, and what it is without wrapping.               *)
Val(e) == Meaning!Eval(Meaning!Begin, e).v

Num(e) == Meaning!Number(e.ty, Val(e))

RECURSIVE Folds(_)
Folds(e) ==
  \/ e.k \in Literals \ {"String", "Null"}
  \/ e.k = "Ref" /\ e.defn = "Variant"
  \/ IsOp(e, {"Add", "Sub", "Mul", "Div", "Mod", "And", "LShift", "RShift",
              "Negate", "Not", "LogicNot"}) /\ ~SomeChild(e, LAMBDA c : ~Folds(c))
  \/ e.k \in {"Cast", "Paren"} /\ Folds(e.expr)

Unwrapped(e, n, x, l, r) ==
  CASE e.k \in {"Bool", "Char", "Integer"} -> e.value
    [] e.k = "Cast" /\ Meaning!Integral(e.expr.ty) -> x
    [] IsOp(e, {"Negate"}) -> -x
    [] IsOp(e, {"Not"})    -> -x - 1
    [] e.k = "Binary" /\ e.op = "Add" -> l + r
    [] e.k = "Binary" /\ e.op = "Sub" -> l - r
    [] e.k = "Binary" /\ e.op = "Mul" -> l * r
    [] e.k = "Binary" /\ e.op = "LShift" /\ r \in 0 .. 11 -> l * 2 ^ r
    [] OTHER -> n

Exact(e) == Unwrapped(e, Num(e), Num(e.expr), Num(e.lhs), Num(e.rhs))

-----------------------------------------------------------------------------
(* What the LIR backend is known not to do as the language does.           *)

(* A cast of an integer to what has more bits, or to a number with quarters.*)
Extends(e) ==
  /\ e.k = "Cast" /\ Meaning!Integral(e.expr.ty)
  /\ Meaning!Integral(e.ty) => Meaning!Width(e.ty) > Meaning!Width(e.expr.ty)

(* An alias or an enum of a signed type counts as unsigned.                *)
LosesSign(e) ==
  \/ Extends(e) /\ NamedSigned(e.expr.ty)
  \/ IsOp(e, {"Div", "Mod", "RShift"}) /\ NamedSigned(e.lhs.ty)

(* A constant is folded in 64 bits, and a right shift to an or.            *)
FoldsWide(e) ==
  /\ Folds(e) /\ Meaning!Integral(e.ty)
  /\ \/ IsOp(e, {"RShift"})
     \/ ~Meaning!Fits(Meaning!Width(e.ty), Meaning!Signed(e.ty), Exact(e))

(* Two constants share the pool of a width: the second is the first.       *)
SharesConstant(e) ==
  LET ns == SelectSeq(Nodes(e), LAMBDA n : Folds(n) /\ Meaning!Integral(n.ty))
  IN  \E i, j \in DOMAIN ns :
        /\ Meaning!Width(ns[i].ty) = Meaning!Width(ns[j].ty)
        /\ Val(ns[i]) = Val(ns[j]) /\ Num(ns[i]) # Num(ns[j])

(* A bit is a value of a type of more than a byte.                         *)
WideBit(e) == IsBit(e) /\ Meaning!Bytes(e.ty) > 1

UsesWideBit(u, e) ==
  \/ u.kind \in {"Ret", "Local", "Global"} /\ WideBit(e)
  \/ Some(e, LAMBDA n : /\ n.k # "Paren" /\ ~IsOp(n, LogicalComparisons \union {"LogicNot"})
                        /\ SomeChild(n, WideBit))

Decays(e) == e.k = "Cast" /\ e.expr.ty.cls = "Array"

(* An array of arrays of one size is one array.                            *)
Square(t) == t.cls = "Array" /\ t.element.cls = "Array" /\ t.size = t.element.size

TakesSquare(e) == Square(e.ty) \/ (e.k = "Sizeof" /\ Square(e.target))

Index(e) ==
  IF e.k = "Subscript" THEN e.index
  ELSE IF IsOp(e, {"Add", "Sub"}) /\ e.lhs.ty.cls = "Pointer" THEN e.rhs ELSE NullLiteral

NarrowIndex(e) ==
  /\ Index(e).k # "Null" /\ ~Folds(Index(e)) /\ Meaning!Bytes(Index(e).ty) < 8

(* A bool is a bit or a byte: operands are one of each, or both are bits   *)
(* that more is done with than a bit can hold.                             *)
MixesBits(e) ==
  \/ e.k = "Binary" /\ e.op \notin LogicalComparisons \union {"Assign"}
     /\ IF e.op \in {"And", "Or", "Xor", "Eq", "NEq"}
        THEN IsBit(e.lhs) # IsBit(e.rhs) ELSE IsBit(e.lhs) \/ IsBit(e.rhs)
  \/ IsOp(e, {"Not", "Negate"}) /\ IsBit(e.expr)

(* What either generator gives up: comparing values of a named type.       *)
ComparesNamed(e) == IsOp(e, NumericalComparisons) /\ Named(e.lhs.ty)

(* A pointer to void is implicitly cast to anything, a number for one.     *)
CastsPointerAway(e) ==
  /\ e.k = "Cast" /\ Meaning!Pointing(e.expr.ty)
  /\ ~Meaning!Integral(e.ty) /\ ~Meaning!Pointing(e.ty)

TakesFloatRemainder(e) == IsOp(e, {"Mod"}) /\ Meaning!Floating(e.ty)

LIRDiffers(u, e) ==
  \/ Some(e, LAMBDA n : \/ CastsPointerAway(n)
                         \/ MixesBits(n)
                         \/ LosesSign(n)
                         \/ FoldsWide(n)
                         \/ Decays(n)
                         \/ TakesSquare(n)
                         \/ NarrowIndex(n)
                         \/ ComparesNamed(n)
                         \/ IsOp(n, {"Or", "Xor"})
                         \/ TakesFloatRemainder(n))
  \/ SharesConstant(e) \/ UsesWideBit(u, e)

-----------------------------------------------------------------------------
(* What the LLVM backend is known not to do as the language does.          *)

(* Whether an integer is negative is up to the type that it is cast to.    *)
TakesSignOfDest(e) ==
  \/ Extends(e) /\ Meaning!Signed(e.expr.ty) # IsKind(e.ty, SignedKinds)
  \/ e.k = "Cast" /\ IsBit(e.expr) /\ IsKind(e.ty, SignedKinds)

StepsByPointer(e) ==
  /\ IsOp(e, {"Add", "Sub"}) /\ e.lhs.ty.cls = "Pointer"
  /\ Meaning!Bytes(e.lhs.ty.pointee) # 8

SignedIndex(e) ==
  /\ Index(e).k # "Null" /\ Meaning!Bytes(Index(e).ty) < 8
  /\ ~Meaning!Signed(Index(e).ty)

ShiftsAsUnsigned(e) == IsOp(e, {"Div", "Mod", "RShift"}) /\ NamedSigned(e.lhs.ty)

(* A float becomes a signed integer whatever it is cast to: the values of  *)
(* an unsigned type that no signed one of its width holds are lost.        *)
TruncatesAsSigned(e) ==
  /\ e.k = "Cast" /\ Meaning!Floating(e.expr.ty) /\ Meaning!Integral(e.ty)
  /\ ~Meaning!Fits(Meaning!Width(e.ty), TRUE, Num(e))

(* A struct that keeps a 64-bit integer has no more than its alignment to  *)
(* lose before the data layout of the machine is known.                    *)
SizesLoosely(e) ==
  /\ e.k = "Sizeof" /\ e.target.cls = "Struct"
  /\ LLVM!SizeOf(LLVM!ToLLVMType(e.target), LLVM!DefaultFields)
       # LLVM!SizeOf(LLVM!ToLLVMType(e.target), LLVM!LLVMFields)

(* A bit where a byte is declared: the verifier rejects the module.        *)
PassesBit(u, e) ==
  \/ u.kind = "Ret" /\ IsBit(e)
  \/ Some(e, LAMBDA n : n.k = "Call" /\ \E i \in DOMAIN n.args : IsBit(n.args[i]))

LLVMDiffers(u, e) ==
  \/ u.kind = "Local"
  \/ PassesBit(u, e)
  \/ Some(e, LAMBDA n : \/ IsOp(n, {"LogicNot"})
                         \/ TakesSignOfDest(n)
                         \/ StepsByPointer(n)
                         \/ SignedIndex(n)
                         \/ ShiftsAsUnsigned(n)
                         \/ TruncatesAsSigned(n)
                         \/ Decays(n)
                         \/ SizesLoosely(n)
                         \/ CastsPointerAway(n)
                         \/ MixesBits(n)
                         \/ ComparesNamed(n))

-----------------------------------------------------------------------------
(* The tokens of a tree, and the operators of a chain of operands.         *)

TokenOf(op, of(_), kinds) == << <<CHOOSE k \in kinds : of(k) = op, "">> >>

BinaryKinds ==
  {"EqEq", "BangEq", "Eq", "Plus", "Minus", "Star", "Slash", "Percent", "Left",
   "LeftEq", "Right", "RightEq", "LeftLeft", "RightRight", "AndAnd", "OrOr",
   "And", "Or", "Xor"}

UnaryKinds == {"Bang", "Minus", "Star", "And", "Tilde"}

Ident(name) == << <<"Identifier", name>> >>

Between(open, ts, close) == << <<open, "">> >> \o ts \o << <<close, "">> >>

RECURSIVE TypeTokens(_)
TypeTokens(t) ==
  CASE t.cls = "Pointer" -> << <<"Star", "">> >> \o TypeTokens(t.pointee)
    [] t.cls = "Array"   ->
         Between("OpenBrack", << <<"Integer", t.size>> >>, "CloseBrack") \o TypeTokens(t.element)
    [] t.cls = "Builtin" ->
         Ident(CHOOSE n \in DOMAIN BuiltinNames : BuiltinNames[n] = t.kind)
    [] OTHER             -> Ident(t.name)

Suffix(kind, default, suffixes) ==
  IF kind = default THEN << >> ELSE Ident(CHOOSE s \in DOMAIN suffixes : suffixes[s] = kind)

RECURSIVE Tokens(_), ArgTokens(_)
ArgTokens(args) ==
  IF Len(args) < 2 THEN SX!FlattenSeq([i \in DOMAIN args |-> Tokens(args[i])])
  ELSE Tokens(Head(args)) \o << <<"Comma", "">> >> \o ArgTokens(Tail(args))

Tokens(e) ==
  CASE e.k = "Binary" ->
         Tokens(e.lhs) \o TokenOf(e.op, GetBinaryOp, BinaryKinds) \o Tokens(e.rhs)
    [] e.k = "Unary"  -> TokenOf(e.op, GetUnaryOp, UnaryKinds) \o Tokens(e.expr)
    [] e.k = "Paren"  -> Between("OpenParen", Tokens(e.expr), "CloseParen")
    [] e.k = "Cast"   ->
         Ident("cast") \o Between("Left", TypeTokens(e.ty), "Right")
           \o Between("OpenParen", Tokens(e.expr), "CloseParen")
    [] e.k = "Sizeof" ->
         Ident("sizeof") \o Between("OpenParen", TypeTokens(e.target), "CloseParen")
    [] e.k = "Subscript" ->
         Tokens(e.base) \o Between("OpenBrack", Tokens(e.index), "CloseBrack")
    [] e.k = "Call"   ->
         Tokens(e.callee) \o Between("OpenParen", ArgTokens(e.args), "CloseParen")
    [] e.k = "Access" -> Tokens(e.base) \o << <<"Dot", "">> >> \o Ident(e.name)
    [] e.k = "Ref"    -> Ident(e.name)
    [] e.k = "Null"   -> Ident("null")
    [] e.k = "Bool"   -> Ident(IF e.value = 1 THEN "true" ELSE "false")
    [] e.k = "Char"   -> << <<"Character", e.value>> >>
    [] e.k = "Integer" ->
         << <<"Integer", e.value>> >> \o Suffix(e.ty.kind, "Int64", IntegerSuffixes)
    [] e.k = "Float"  ->
         << <<"Float", e.value>> >> \o Suffix(e.ty.kind, "Float64", FloatSuffixes)
    [] OTHER          -> << <<"String", e.value>> >>

(* Operands of one token with operators between them: the precedences.     *)
IsChain(ts) ==
  \A i \in 1 .. Len(ts) - 1 : (i % 2 = 0) <=> GetBinaryOp(ts[i][1]) # "Unknown"

Precedences(ts) ==
  [i \in 1 .. (Len(ts) - 2) \div 2 |-> GetOpPrecedence(GetBinaryOp(ts[2 * i][1]))]

(* An operator binds its operands if none of them is a looser one, nor the *)
(* right one an equal one.                                                 *)
Precedence(e) == IF e.k = "Binary" THEN GetOpPrecedence(e.op) ELSE 12

Grouped(e) ==
  ~Some(e, LAMBDA n : n.k = "Binary" /\ \/ Precedence(n.lhs) < Precedence(n)
                                         \/ Precedence(n.rhs) <= Precedence(n))

-----------------------------------------------------------------------------
(* Properties.                                                             *)

(* The tokens without a comma after the last argument of a call.           *)
Significant(ts) ==
  LET dropped(i) == ts[i][1] = "Comma" /\ ts[i + 1][1] = "CloseParen"
  IN  SX!FlattenSeq([i \in DOMAIN ts |-> IF dropped(i) THEN << >> ELSE <<ts[i]>>])

(* The tree of an accepted expression has all its tokens, in their order:  *)
(* the parser doubles and swaps none, and all that it drops is a comma     *)
(* after the last argument of a call (ParseExpr.cpp).                      *)
ReadsBack ==
  stage = "parsed" /\ ~Failed(tree)
    => Tokens(tree) = SX!Front(Significant(unit.tokens))

(* Operators bind as their precedences tell unless a tighter one follows a *)
(* looser one and one at most as tight as that comes after both: the right *)
(* operand of the first takes it (Parser::parse_binary_operator).          *)
GroupedUnlessRising ==
  LET ps == Precedences(unit.tokens)
      rising == \E i, j \in DOMAIN ps : i + 1 < j /\ ps[i] < ps[i + 1] /\ ps[j] <= ps[i]
  IN  stage = "parsed" /\ ~Failed(tree) /\ IsChain(unit.tokens)
        => (Grouped(tree) <=> ~rising)

(* The symbol analysis reads the type of the base of an access before the  *)
(* semantic analysis sets it: it crashes only at a base that has none yet, *)
(* and no such expression is accepted (SymbolAnalysis::visit(AccessExpr)). *)
UntypedBase(e) ==
  e.k = "Access" /\ e.base.k \in {"Binary", "Unary", "Paren", "Subscript", "Call"}

CrashesAtUntypedBase ==
  [][stage' = "analysed" =>
       /\ tree'.k = "Crash" => Some(tree, UntypedBase)
       /\ Failed(tree') \/ ~Some(tree, UntypedBase)]_<<stage, tree>>

Lowered(b) == stage = "lowered" /\ backend = b

Same(means, does) ==
  means.ok => ~code.st.aborted /\ does.ok /\ does.seen = means.seen

(* The LIR backend generates code for an expression that has a value, and  *)
(* the code computes that value and has the effects of the expression, in  *)
(* their order, outside the known differences (LIRCodegenOp.cpp,           *)
(* LIRCodegenValued.cpp).                                                  *)
LIRComputes ==
  Lowered("LIR") /\ ~LIRDiffers(unit, tree)
    => Same(Means(unit, tree), Does(unit, code, LIR!LIRFields, FALSE))

(* So does the LLVM backend (LLVMCodegenOp.cpp, LLVMCodegenValued.cpp).    *)
LLVMComputes ==
  Lowered("LLVM") /\ ~LLVMDiffers(unit, tree)
    => Same(Means(unit, tree), Does(unit, code, LLVM!LLVMFields, TRUE))
=============================================================================
