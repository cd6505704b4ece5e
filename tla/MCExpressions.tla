----------------------------- MODULE MCExpressions -----------------------------
EXTENDS Expressions

S8 == Builtin("Int8")       U8 == Builtin("UInt8")      S16 == Builtin("Int16")
S32 == Builtin("Int32")     S64 == Builtin("Int64")     U64 == Builtin("UInt64")
F32 == Builtin("Float32")   F64 == Builtin("Float64")
Bool == Builtin("Bool")     Void == Builtin("Void")
Pair == StructNamed("Pair")
Wide == StructNamed("Wide")
Color == EnumOf("Color", S8)
Meters == AliasOf("Meters", S32)

Symbol(defn, ty) == [defn |-> defn, ty |-> ty, value |-> 0]
Mut(t) == Symbol("Variable", WithMut(t))

MCValues ==
  [i |-> Mut(S64), n |-> Symbol("Parameter", WithMut(S8)), u |-> Mut(U8),
   t |-> Mut(Bool), d |-> Mut(F64), e |-> Mut(F32), p |-> Mut(PointerTo(WithMut(S16))),
   row |-> Mut(ArrayOf(WithMut(S8), 3)), grid |-> Mut(ArrayOf(ArrayOf(WithMut(S16), 2), 2)),
   s |-> Mut(Pair), q |-> Symbol("Parameter", PointerTo(Pair)),
   g |-> Symbol("Global", WithMut(S64)), c |-> Mut(Color), m |-> Mut(Meters),
   red |-> [Symbol("Variant", Color) EXCEPT !.value = 2],
   f |-> Symbol("Function", FunctionOf(S64, <<S64>>)),
   b |-> Symbol("Function", FunctionOf(Bool, << >>)),
   v |-> Symbol("Function", FunctionOf(Void, <<S8, Bool>>))]
MCTypeDefns == [Color |-> Color, Meters |-> Meters, Pair |-> Pair, Wide |-> Wide]
MCFields == [Pair |-> << <<"a", WithMut(S8)>>, <<"x", WithMut(S32)>> >>,
             Wide |-> << <<"a", S8>>, <<"y", S64>>, <<"z", S8>> >>]

MCAddresses ==
  [i |-> 8, n |-> 16, u |-> 17, t |-> 20, c |-> 21, d |-> 24, p |-> 32, row |-> 40,
   grid |-> 48, s |-> 56, q |-> 64, g |-> 72, m |-> 80, e |-> 84, new |-> 96,
   text |-> 112, f |-> 200, b |-> 204, v |-> 208]
Cell(size, value) == [size |-> size, v |-> value]
MCMemory ==
  8 :> Cell(8, 5) @@ 16 :> Cell(1, -3) @@ 17 :> Cell(1, -6) @@ 20 :> Cell(1, 1)
  @@ 21 :> Cell(1, -2) @@ 24 :> Cell(8, 10) @@ 32 :> Cell(8, 50)
  @@ 40 :> Cell(1, 7) @@ 41 :> Cell(1, -7) @@ 42 :> Cell(1, 9)
  @@ 48 :> Cell(2, 11) @@ 50 :> Cell(2, -12) @@ 52 :> Cell(2, 13) @@ 54 :> Cell(2, -14)
  @@ 56 :> Cell(1, 3) @@ 60 :> Cell(4, 33) @@ 64 :> Cell(8, 56) @@ 72 :> Cell(8, 4)
  @@ 80 :> Cell(4, -20) @@ 84 :> Cell(4, 800) @@ 112 :> Cell(1, 120)
MCCounter == 72

-----------------------------------------------------------------------------
(* Tokens.                                                                 *)

Id(name) == <<"Identifier", name>>
Number(n) == <<"Integer", n>>
Suffixed(n, suffix) == << <<"Integer", n>>, Id(suffix)>>
Op(kind) == <<kind, "">>
OpenParen == Op("OpenParen")  CloseParen == Op("CloseParen")
Parens(ts) == <<OpenParen>> \o ts \o <<CloseParen>>
Subscripted(ts, index) == ts \o <<Op("OpenBrack")>> \o index \o <<Op("CloseBrack")>>
Member(ts, name) == ts \o <<Op("Dot"), Id(name)>>
CallOf(name, args) == <<Id(name)>> \o Parens(args)
CastTo(type, ts) == <<Id("cast"), Op("Left")>> \o type \o <<Op("Right")>> \o Parens(ts)
SizeofType(type) == <<Id("sizeof")>> \o Parens(type)
StarTo(type) == <<Op("Star")>> \o type
TwoOf(type) == <<Op("OpenBrack"), Number(2), Op("CloseBrack")>> \o type

Unit(kind, ty, ts) == [kind |-> kind, ty |-> ty, tokens |-> ts \o <<Op("Semi")>>]

BinaryTokens ==
  {"Plus", "Minus", "Star", "Slash", "Percent", "And", "Or", "Xor", "LeftLeft",
   "RightRight", "AndAnd", "OrOr", "EqEq", "BangEq", "Left", "LeftEq", "Right", "RightEq"}
ComparisonTokens ==
  {"AndAnd", "OrOr", "EqEq", "BangEq", "Left", "LeftEq", "Right", "RightEq"}
UnaryTokens == {"Bang", "Minus", "Star", "And", "Tilde"}

Operand(ts, ty) == [ts |-> ts, ty |-> ty]
Operands ==
  {Operand(<<Id("i")>>, S64), Operand(<<Id("n")>>, S8), Operand(<<Id("u")>>, U8),
   Operand(<<Id("t")>>, Bool), Operand(<<Id("d")>>, F64), Operand(<<Id("e")>>, F32),
   Operand(<<Id("p")>>, PointerTo(S16)), Operand(<<Id("c")>>, Color),
   Operand(<<Id("m")>>, Meters), Operand(<<Id("red")>>, Color),
   Operand(<<Number(2)>>, S64), Operand(Suffixed(200, "ub"), U8),
   Operand(<< <<"Float", 6>> >>, F64), Operand(<<Id("true")>>, Bool),
   Operand(<< <<"Character", 65>> >>, Builtin("Char")),
   Operand(<<Id("null")>>, PointerTo(Void)), Operand(<<Id("row")>>, ArrayOf(S8, 3)),
   Operand(<< <<"String", "text">> >>, PointerTo(Builtin("Char")))}

BinaryUnits ==
  {Unit(IF op \in ComparisonTokens THEN "If" ELSE "Ret",
        IF op \in ComparisonTokens THEN Bool ELSE l.ty, l.ts \o <<Op(op)>> \o r.ts) :
     l \in Operands, r \in Operands, op \in BinaryTokens}

UnaryUnits ==
  UNION {{Unit("Ret", o.ty, <<Op(op)>> \o o.ts), Unit("If", Bool, <<Op(op)>> \o o.ts),
          Unit("Local", S64, <<Op(op)>> \o o.ts)} :
           op \in UnaryTokens, o \in Operands}

CastTypes ==
  {<< <<Id("s8")>>, S8>>, << <<Id("u8")>>, U8>>, << <<Id("s16")>>, S16>>,
   << <<Id("s32")>>, S32>>, << <<Id("s64")>>, S64>>, << <<Id("u64")>>, U64>>,
   << <<Id("f32")>>, F32>>, << <<Id("f64")>>, F64>>, << <<Id("bool")>>, Bool>>,
   <<StarTo(<<Id("s16")>>), PointerTo(S16)>>, << <<Id("Meters")>>, Meters>>,
   << <<Id("Color")>>, Color>>, << <<Id("Nothing")>>, S64>>}
Comparison == <<Id("n"), Op("Left"), Number(2)>>
CastUnits ==
  {Unit("Ret", c[2], CastTo(c[1], o)) :
     c \in CastTypes, o \in {x.ts : x \in Operands} \union {Comparison}}

Lvalues ==
  {<<Id("i")>>, <<Id("n")>>, <<Id("u")>>, <<Id("t")>>, <<Id("d")>>, <<Id("p")>>, <<Id("c")>>,
   <<Id("g")>>, <<Op("Star"), Id("p")>>, Member(<<Id("s")>>, "x"), Member(<<Id("q")>>, "a"),
   Subscripted(<<Id("row")>>, <<Number(2)>>), Subscripted(<<Id("row")>>, <<Id("n")>>),
   Subscripted(<<Id("p")>>, <<Number(1)>>), Subscripted(<<Id("row")>>, <<Id("t")>>),
   Subscripted(Subscripted(<<Id("grid")>>, <<Number(1)>>), <<Number(0)>>),
   Subscripted(<<Id("row")>>, <<Id("i"), Op("Percent"), Number(3)>>),
   <<Id("red")>>, <<Id("unknown")>>, Member(<<Id("s")>>, "y"), Member(<<Id("i")>>, "x"),
   Parens(<<Id("i")>>), <<Id("s")>>, <<Id("q")>>}
Rvalues ==
  {<<Number(2)>>, <<Id("n")>>, <<Id("u")>>, Comparison, CallOf("f", <<Id("n")>>),
   CallOf("f", <<Op("Bang"), Id("i")>>), CallOf("b", << >>), <<Op("And"), Id("i")>>,
   Subscripted(<<Id("row")>>, <<Number(1)>>), Member(<<Id("q")>>, "x"),
   SizeofType(TwoOf(<<Id("Pair")>>)), SizeofType(<<Id("Pair")>>),
   SizeofType(<<Id("Wide")>>),
   <<Op("Bang"), Id("i")>>, <<Op("Minus")>> \o Suffixed(56, "b"), Suffixed(2, "s")}
AssignUnits == {Unit("Expr", Void, l \o <<Op("Eq")>> \o r) : l \in Lvalues, r \in Rvalues}
ValueUnits ==
  UNION {{Unit("Ret", S64, ts), Unit("If", Bool, ts), Unit("Local", S8, ts),
          Unit("Global", S64, ts), Unit("Ret", F64, ts)} : ts \in Lvalues \union Rvalues}

(* Chains of three operators of every precedence.                          *)
ChainTokens ==
  {"Star", "Slash", "Plus", "Minus", "LeftLeft", "Left", "EqEq", "And", "Or", "Xor",
   "AndAnd", "OrOr", "Eq"}
ChainUnits ==
  {Unit("Expr", Void, <<Id("i"), Op(a), Id("g"), Op(b), Number(2), Op(c), Id("i")>>) :
     a \in ChainTokens, b \in ChainTokens, c \in ChainTokens}

(* Accesses, casts and constants that the other units do not have.         *)
Point == Parens(<<Op("Star"), Id("q")>>)
MoreValues ==
  {Member(Subscripted(<<Id("q")>>, <<Number(0)>>), "x"), Member(Point, "x"),
   Member(CallOf("f", <<Number(2)>>), "x"), Member(Parens(<<Id("s")>>), "x"),
   Member(CastTo(StarTo(<<Id("Pair")>>), <<Id("q"), Op("Plus"), Id("i")>>), "x"),
   SizeofType(TwoOf(TwoOf(<<Id("s16")>>))),
   CastTo(<<Id("s16")>>, Suffixed(200, "ub")) \o <<Op("Plus")>>
     \o CastTo(<<Id("s16")>>, <<Op("Minus")>> \o Suffixed(56, "b")),
   CallOf("f", <<Id("i"), Op("Plus")>> \o CallOf("f", <<Id("g")>>)) \o <<Op("Minus"), Id("g")>>,
   CallOf("v", <<Id("n"), Op("Comma"), Id("t")>>), CallOf("v", <<Id("n"), Op("Comma")>>),
   CallOf("v", <<Id("n")>>), CallOf("i", << >>), <<Op("OpenParen"), Id("i")>>}
MoreUnits == UNION {{Unit("Expr", Void, ts), Unit("Ret", S64, ts), Unit("Ret", S16, ts)} :
                      ts \in MoreValues}

MCUnits == MoreUnits \union ChainUnits \union BinaryUnits \union UnaryUnits \union CastUnits \union AssignUnits \union ValueUnits
=============================================================================
