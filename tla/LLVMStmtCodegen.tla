--------------------------- MODULE LLVMStmtCodegen ---------------------------
(***************************************************************************)
(* The control flow LLVMCodegen gives to a function body                   *)
(* (lace/source/codegen/LLVMCodegenStmt.cpp).  The body is a sequence ts   *)
(* of tokens, as in LIRCodegen.  Each emit_ function is an operator from   *)
(* the position i of its token and the state g of the generation to the    *)
(* next state g, the position p after what it emitted and its value v.  An *)
(* assert that fails and a fatal error set g.failed: what is emitted after *)
(* it counts for nothing.                                                  *)
(***************************************************************************)
EXTENDS Integers, Sequences, FiniteSets

NoValue == [from |-> "none", id |-> 0]

Inst(op, value, to) == [op |-> op, value |-> value, to |-> to]

IsTerminator(inst) == inst.op \in {"jmp", "jif", "ret"}

HasEnded(code) == \E i \in DOMAIN code : IsTerminator(code[i])

(* BasicBlock::getTerminator asks the last instruction of a block only.    *)
Terminated(code) == code # << >> /\ IsTerminator(code[Len(code)])

Inserting(g) == g.blocks[g.insert]

Emitted(g, inst) == [g EXCEPT !.blocks[g.insert] = Append(@, inst)]

CreateBr(g, dest) == Emitted(g, Inst("jmp", NoValue, <<dest>>))

CreateCondBr(g, cond, yes, no) == Emitted(g, Inst("jif", cond, <<yes, no>>))

CreateRet(g, value) == Emitted(g, Inst("ret", value, << >>))

BrUnlessTerminated(g, dest) ==
  IF Terminated(Inserting(g)) THEN g ELSE CreateBr(g, dest)

(* n more blocks, which are in no function yet.                            *)
Create(g, n) == [g EXCEPT !.blocks = @ \o [k \in 1 .. n |-> << >>]]

Fresh(g) == Len(g.blocks) + 1

(* The block joins the function, and code goes there from now on.          *)
Continued(g, b) == [g EXCEPT !.layout = Append(@, b), !.insert = b]

(* The blocks that end with a jump to b.                                   *)
Predecessors(g, b) ==
  {s \in DOMAIN g.blocks :
     \E i \in DOMAIN g.blocks[s] : \E d \in DOMAIN g.blocks[s][i].to : g.blocks[s][i].to[d] = b}

(* What follows goes to the merge block, if something jumps to it.         *)
Joined(g, mrg) == IF Predecessors(g, mrg) = {} THEN g ELSE Continued(g, mrg)

-----------------------------------------------------------------------------
(* Expressions.                                                            *)

(* A leaf stands for the code of an expression without logical operators.  *)
(* A constant has none: this is told apart in a block that has ended only, *)
(* where any code is one instruction too many.                             *)
EmitLeaf(i, g) ==
  IF g.constant /\ HasEnded(Inserting(g)) THEN g
  ELSE Emitted(g, Inst("leaf", [from |-> "leaf", id |-> i], << >>))

(* Where the operands of a logical operator meet: the value is a phi, with *)
(* the constant from the block of the jump on the left operand.            *)
Phi(g, op, left, mrg, value) ==
  LET known == [from |-> IF op = "and" THEN "false" ELSE "true", id |-> 0]
  IN  Continued([CreateBr(g, mrg) EXCEPT
                   !.phis = @ \union {[at |-> mrg, value |-> known, block |-> left],
                                      [at |-> mrg, value |-> value, block |-> g.insert]}], mrg)

(* emit_logical_and and emit_logical_or after the left operand x, and after*)
(* the right operand y.                                                    *)
RightOf(op, x, rgt, mrg) ==
  Continued(IF op = "and" THEN CreateCondBr(x.g, x.v, rgt, mrg)
                          ELSE CreateCondBr(x.g, x.v, mrg, rgt), rgt)

Met(op, x, y, mrg) ==
  [g |-> Phi(y.g, op, x.g.insert, mrg, y.v), v |-> [from |-> "arg", id |-> mrg], p |-> y.p]

(* emit_valued_expression.                                                 *)
RECURSIVE Expression(_, _, _)
Expression(ts, i, g) ==
  IF ts[i] = "leaf"
  THEN [g |-> EmitLeaf(i, g), v |-> [from |-> "leaf", id |-> i], p |-> i + 1]
  ELSE LET rgt == Fresh(g)
           mrg == Fresh(g) + 1
           x   == Expression(ts, i + 1, Create(g, 2))
           y   == Expression(ts, x.p, RightOf(ts[i], x, rgt, mrg))
       IN  Met(ts[i], x, y, mrg)

-----------------------------------------------------------------------------
(* Statements.                                                             *)

At(g, p) == [g |-> g, p |-> p]

(* emit_stop and emit_restart.                                             *)
EmitJump(g, i, dest) ==
  At(CreateBr([g EXCEPT !.failed = @ \/ Terminated(Inserting(g))], dest), i + 1)

EmitReturn(x) == At(CreateRet(x.g, x.v), x.p)

(* emit_if and emit_until call for the statements between their tokens.    *)
RECURSIVE Statements(_, _, _)

(* A branch from the first token of its statements, and the jump after it. *)
Branch(ts, x, dest) ==
  LET s == Statements(ts, x.p, x.g) IN At(BrUnlessTerminated(s.g, dest), s.p + 1)

EmitIf(ts, x, hasElse) ==
  LET thn == Fresh(x.g)
      mrg == Fresh(x.g) + 1
      els == IF hasElse THEN Fresh(x.g) + 2 ELSE mrg
      split == CreateCondBr(Create(x.g, IF hasElse THEN 3 ELSE 2), x.v, thn, els)
      then == Branch(ts, At(Continued(split, thn), x.p), mrg)
      last == IF hasElse THEN Branch(ts, At(Continued(then.g, els), then.p), mrg) ELSE then
  IN  At(Joined(last.g, mrg), last.p)

(* The parents that stop and restart jump to.                              *)
Inside(g, cnd, mrg) == [g EXCEPT !.parent_cnd = cnd, !.parent_mrg = mrg]

(* Mutant: the loop around is not put back.                                *)
EmitBodyForgetting(ts, x, cnd, mrg, bdy) ==
  LET split == CreateCondBr(Create(x.g, 1), x.v, mrg, bdy)
      body  == Branch(ts, At(Inside(Continued(split, bdy), cnd, mrg), x.p), cnd)
  IN  body

(* The rest of emit_until after its condition x, if it has a body.         *)
EmitBody(ts, x, cnd, mrg, bdy) ==
  LET split == CreateCondBr(Create(x.g, 1), x.v, mrg, bdy)
      body  == Branch(ts, At(Inside(Continued(split, bdy), cnd, mrg), x.p), cnd)
  IN  At(Inside(body.g, x.g.parent_cnd, x.g.parent_mrg), body.p)

EmitSpin(x, cnd, mrg) == At(CreateCondBr(x.g, x.v, mrg, cnd), x.p)

EmitUntil(ts, i, g) ==
  LET cnd == Fresh(g)
      mrg == Fresh(g) + 1
      x   == Expression(ts, i + 1, Continued(CreateBr(Create(g, 2), cnd), cnd))
      loop == IF ts[i] = "until" THEN EmitBody(ts, x, cnd, mrg, Fresh(x.g))
                                 ELSE EmitSpin(x, cnd, mrg)
  IN  At(Continued(loop.g, mrg), loop.p)

(* The position after the expression at i.                                 *)
RECURSIVE AfterOperand(_, _)
AfterOperand(ts, i) ==
  IF ts[i] = "leaf" THEN i + 1 ELSE AfterOperand(ts, AfterOperand(ts, i + 1))

Valued(ts, i) == i < Len(ts) /\ ts[i + 1] \in {"leaf", "and", "or"}

(* emit_local: the slot of the variable, at the entry.  Nothing generates  *)
(* the initializer.                                                        *)
EmitLocal(ts, i, g) == At(g, AfterOperand(ts, i + 1))

(* An expression statement, a return or a condition.                       *)
EmitWithValue(ts, kind, x) ==
  CASE kind = "eval"   -> At(x.g, x.p)
    [] kind = "ret"    -> EmitReturn(x)
    [] OTHER           -> EmitIf(ts, x, kind = "ifelse")

EmitStatement(ts, i, g) ==
  CASE ts[i] = "stop"    -> EmitJump(g, i, g.parent_mrg)
    [] ts[i] = "restart" -> EmitJump(g, i, g.parent_cnd)
    [] ts[i] \in {"until", "spin"} -> EmitUntil(ts, i, g)
    [] ts[i] = "let" -> EmitLocal(ts, i, g)
    [] ts[i] = "ret" /\ ~Valued(ts, i) -> At(CreateRet(g, NoValue), i + 1)
    [] OTHER -> EmitWithValue(ts, ts[i], Expression(ts, i + 1, g))

(* emit_block: the statements from i to what closes the block.             *)
Statements(ts, i, g) ==
  IF i > Len(ts) \/ ts[i] \in {"else", "end"} THEN At(g, i)
  ELSE LET s == EmitStatement(ts, i, g) IN Statements(ts, s.p, s.g)

-----------------------------------------------------------------------------
(* Functions.                                                              *)

(* A returned value has the type the function returns: a void function has *)
(* none, even of a void call, and one that returns a bool, which is an i8, *)
(* no i1, as a logical operator and a comparison are.                      *)
ReturnMatches(g, value) ==
  IF g.isVoid THEN value = NoValue
  ELSE ~(g.boolean /\ (value.from = "arg" \/ g.compares))

(* What llvm::verifyFunction demands: every block ends in its only         *)
(* terminator and jumps to blocks of the function, none to the first, a    *)
(* phi has one value for each predecessor, and returns match.              *)
Verified(g) ==
  LET placed == {g.layout[n] : n \in DOMAIN g.layout}
  IN  \A b \in placed :
        LET code == g.blocks[b]
            phis == {v \in g.phis : v.at = b}
        IN  /\ Terminated(code)
            /\ \A i \in 1 .. Len(code) - 1 : ~IsTerminator(code[i])
            /\ code[Len(code)].op = "ret" => ReturnMatches(g, code[Len(code)].value)
            /\ \A d \in DOMAIN code[Len(code)].to : code[Len(code)].to[d] \in placed \ {1}
            /\ phis = {} \/ /\ {v.block : v \in phis} = Predecessors(g, b)
                            /\ Cardinality(phis) = Cardinality(Predecessors(g, b))

(* The end of fill_existing_function.                                      *)
Closed(g) ==
  IF Terminated(Inserting(g)) THEN g
  ELSE IF g.isVoid THEN CreateRet(g, NoValue) ELSE [g EXCEPT !.failed = TRUE]

Checked(g) == [g EXCEPT !.failed = @ \/ ~Verified(g)]

(* The function may return a bool, and its leaves may be constants, or     *)
(* comparisons where they are returned.                                    *)
Kinds == [boolean : BOOLEAN, constant : BOOLEAN, compares : BOOLEAN]

FillFunction(ts, isVoid, kind) ==
  Checked(Closed(Statements(ts, 1,
    [blocks |-> << << >> >>, layout |-> <<1>>, insert |-> 1, phis |-> {},
     parent_cnd |-> 0, parent_mrg |-> 0, failed |-> FALSE,
     isVoid |-> isVoid, boolean |-> kind.boolean, constant |-> kind.constant,
     compares |-> kind.compares]).g))
=============================================================================
