----------------------------- MODULE BothCodegens -----------------------------
(***************************************************************************)
(* The blocks that LIRCodegen emits for a function, beside those that      *)
(* LLVMCodegen emits for it.                                               *)
(***************************************************************************)
EXTENDS CodegenPaths

LLVM == INSTANCE LLVMStmtCodegen

(* The position after the statement at s.                                  *)
AfterStatement(s) ==
  CASE program[s] \in Brackets            -> EndOf(s) + 1
    [] program[s] \in {"stop", "restart"} -> s + 1
    [] program[s] = "ret" /\ ~Valued(s)   -> s + 1
    [] OTHER                              -> AfterExpression(s + 1)

(* A statement before p never gets to p: it leaves the function or a body, *)
(* or it is an "if" of whose branches both do, or nothing gets to it and it*)
(* has no blocks.                                                          *)
RECURSIVE Leaves(_)
Leaves(p) ==
  \E s \in 1 .. p - 1 :
    /\ program[s] \in {"ret", "stop", "restart", "ifelse", "eval", "let"}
    /\ AfterStatement(s) = p
    /\ program[s] = "ifelse" => Leaves(ElseOf(s)) /\ Leaves(EndOf(s))
    /\ program[s] \in {"eval", "let"} => Leaves(s)

(* The statements that nothing gets to from the one before them.           *)
DeadStatements ==
  {p \in Positions : program[p] \notin Expressions \union {"else", "end"} /\ Leaves(p)}

HasNoCode(s) == program[s] = "let" \/ (program[s] = "eval" /\ program[s + 1] = "leaf")

(* The positions of an initializer's expression.                           *)
Initializers ==
  UNION {s + 1 .. AfterExpression(s + 1) - 1 : s \in {p \in Positions : program[p] = "let"}}

InitializerOperators == {p \in Initializers : program[p] # "leaf"}

(* The returns of a void call, and of an i1 in a function that returns an  *)
(* i8.                                                                     *)
MismatchedReturns(kind) ==
  {s \in Positions :
     /\ program[s] = "ret" /\ Valued(s)
     /\ isVoid \/ (kind.boolean /\ (program[s + 1] # "leaf" \/ kind.compares))}

(* The instructions of a block as far as they run.                         *)
Live(code) ==
  IF Terminates(code)
  THEN SubSeq(code, 1, Least({i \in DOMAIN code : IsTerminator(code[i])})) ELSE code

(* The instructions that are not of an initializer.                        *)
Shared(code) ==
  SelectSeq(code, LAMBDA i : ~(i.op = "leaf" /\ i.value.id \in Initializers))

(* An instruction of a block b, where the argument that a jump gives is the*)
(* value that the phi of its destination has for b.                        *)
SameInst(g, b, mine, theirs) ==
  /\ theirs = LLVM!Inst(mine.op, mine.value, mine.to)
  /\ \A d \in DOMAIN mine.to :
       mine.with[d] # NoValue
         => [at |-> mine.to[d], value |-> mine.with[d], block |-> b] \in g.phis

SameCode(g, b, mine, theirs) ==
  /\ Len(mine) = Len(theirs)
  /\ \A i \in DOMAIN mine : SameInst(g, b, mine[i], theirs[i])

SameBlocks(g) ==
  /\ g.layout = layout
  /\ \A n \in DOMAIN layout :
       SameCode(g, layout[n], Shared(Live(blocks[layout[n]])), g.blocks[layout[n]])

(* LLVMCodegen fails where LIRCodegen warns that the function does not     *)
(* always return; at statements that nothing gets to, which LIRCodegen     *)
(* takes (LLVMCodegenStmt.cpp has asserts where LIRCodegenStmt.cpp asks if *)
(* the block terminates), at all of them that have code; where a return    *)
(* does not match the function, which LIRCodegen takes too; and nowhere    *)
(* else.  The functions it accepts have the blocks that LIRCodegen gives   *)
(* them, but for the initializers of locals, which LLVMCodegen leaves out: *)
(* two blocks less for each && and || in one.                              *)
AgreeOn(g, kind) ==
  /\ g.failed => warned \/ DeadStatements # {} \/ MismatchedReturns(kind) # {}
  /\ (\/ warned /\ InitializerOperators = {}
      \/ \E s \in DeadStatements : ~HasNoCode(s)
      \/ MismatchedReturns(kind) # {}) => g.failed
  /\ g.failed \/ Len(g.blocks) = Len(blocks) - 2 * Cardinality(InitializerOperators)
  /\ g.failed \/ InitializerOperators # {} \/ SameBlocks(g)

BackendsAgree ==
  stage = "done" /\ pos = 1
    => \A kind \in LLVM!Kinds : AgreeOn(LLVM!FillFunction(program, isVoid, kind), kind)
=============================================================================
