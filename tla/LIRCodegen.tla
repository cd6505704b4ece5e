------------------------------ MODULE LIRCodegen ------------------------------
(***************************************************************************)
(* The control flow LIRCodegen gives to a function body                    *)
(* (lace/source/codegen): one action per statement, per logical operator   *)
(* and per point where a codegen_* call returns to its caller.             *)
(*                                                                         *)
(* The tree is read in preorder, one token at a time: "eval" (a statement  *)
(* that only evaluates an expression), "let" (a local variable with an     *)
(* initializer; without one it is no instruction), "ret", "stop",          *)
(* "restart", "if", "ifelse", "until" and "spin" (until without a body) are*)
(* statements, "and", "or" and "leaf" are expressions, "else" and "end"    *)
(* close the branches and bodies.  Any sequence the parser and the semantic*)
(* analysis accept may come.  What a leaf computes is left to the          *)
(* execution; inject_comparison, which turns it into a boolean, is a part  *)
(* of the leaf, and so is the cast that a return may put around a value.   *)
(***************************************************************************)
EXTENDS Integers, Sequences

CONSTANT MaxNodes  \* bound on the statements and operators of a function

ASSUME MaxNodesAssumption == MaxNodes \in Nat

VARIABLES
  isVoid,       \* the return type of the function is void
  program,      \* the tokens read so far
  blocks,       \* the instructions of every block created, by its number
  layout,       \* m_func's list of blocks, in order
  insert,       \* m_builder's insertion block
  parentCond,   \* m_parent_cond, 0 for null
  parentMerge,  \* m_parent_merge, 0 for null
  frames,       \* the codegen_* calls under way, innermost last
  result,       \* the value the expression just finished hands to its caller
  stage,        \* "emit", then "done"
  warned        \* "function does not always return" has been logged

vars == <<isVoid, program, blocks, layout, insert, parentCond, parentMerge,
          frames, result, stage, warned>>

-----------------------------------------------------------------------------
(* Values, instructions and blocks.                                        *)

NoValue == [from |-> "none", id |-> 0]

LeafValue(tag) == [from |-> "leaf", id |-> tag]

ArgValue(block) == [from |-> "arg", id |-> block]

ConstantValue(b) == [from |-> IF b THEN "true" ELSE "false", id |-> 0]

(* An instruction: the value it computes or reads, the blocks it goes to   *)
(* and the argument each of them is given.                                 *)
Inst(op, value, to, with) == [op |-> op, value |-> value, to |-> to, with |-> with]

IsTerminator(inst) == inst.op \in {"jmp", "jif", "ret"}

Leaf(tag) == Inst("leaf", LeafValue(tag), <<>>, <<>>)

Jmp(dest, arg) == Inst("jmp", NoValue, <<dest>>, <<arg>>)

Jif(cond, trueDest, trueArg, falseDest, falseArg) ==
  Inst("jif", cond, <<trueDest, falseDest>>, <<trueArg, falseArg>>)

Ret(value) == Inst("ret", value, <<>>, <<>>)

Terminates(code) == \E i \in DOMAIN code : IsTerminator(code[i])

(* Some jump goes to b, wherever it stands in its block: build_jmp and     *)
(* build_jif list the inserting block as a predecessor of each destination.*)
HasPreds(bs, b) ==
  \E p \in DOMAIN bs : \E i \in DOMAIN bs[p] : \E d \in DOMAIN bs[p][i].to :
    bs[p][i].to[d] = b

(* The block at gets one more instruction at its end.                      *)
Build(bs, at, inst) == [bs EXCEPT ![at] = Append(@, inst)]

(* A jump to dest, unless the block has a terminator already.              *)
BuildJmpUnlessTerminated(bs, at, dest) ==
  IF Terminates(bs[at]) THEN bs ELSE Build(bs, at, Jmp(dest, NoValue))

(* n more blocks; they are numbered Fresh, Fresh + 1, ...                  *)
Create(bs, n) == [b \in 1..(Len(bs) + n) |-> IF b <= Len(bs) THEN bs[b] ELSE <<>>]

(* Mutant: numbers are off by one.                                         *)
FreshSkipsOne == Len(blocks) + 2

Fresh == Len(blocks) + 1

-----------------------------------------------------------------------------
(* The calls under way.                                                    *)

Frame(kind, has, cond, alt, merge) ==
  [kind |-> kind, has |-> has, cond |-> cond, alt |-> alt, merge |-> merge,
   prevCond |-> parentCond, prevMerge |-> parentMerge]

Top == frames[Len(frames)]

Callers == SubSeq(frames, 1, Len(frames) - 1)

StatementCalls == {"function", "then", "else", "body"}

ExpressionCalls == {"eval", "ret", "if", "until", "left", "right"}

AtStatement == stage = "emit" /\ Top.kind \in StatementCalls

AtExpression == stage = "emit" /\ Top.kind \in ExpressionCalls /\ result = NoValue

Returned(kind) == stage = "emit" /\ Top.kind = kind /\ result # NoValue

IsNode(token) == token \notin {"leaf", "else", "end"}

Room == Len(SelectSeq(program, IsNode)) < MaxNodes

Read(token) == program' = Append(program, token)

Call(frame) == frames' = Append(frames, frame)

Become(frame) == frames' = [frames EXCEPT ![Len(frames)] = frame]

(* codegen_lowered_function up to the body: the entry block.               *)
Init ==
  /\ isVoid \in BOOLEAN
  /\ program = <<>>
  /\ blocks = << <<>> >> /\ layout = <<1>> /\ insert = 1
  /\ parentCond = 0 /\ parentMerge = 0
  /\ frames = <<[kind |-> "function", has |-> FALSE, cond |-> 0, alt |-> 0,
                 merge |-> 0, prevCond |-> 0, prevMerge |-> 0]>>
  /\ result = NoValue
  /\ stage = "emit" /\ warned = FALSE

-----------------------------------------------------------------------------
(* Expressions.                                                            *)

(* An expression without a logical operator.                               *)
EmitLeaf ==
  /\ AtExpression
  /\ Read("leaf")
  /\ blocks' = Build(blocks, insert, Leaf(Len(program) + 1))
  /\ result' = LeafValue(Len(program) + 1)
  /\ UNCHANGED <<isVoid, layout, insert, parentCond, parentMerge, frames, stage, warned>>

(* codegen_logical_and and codegen_logical_or up to the left operand: the  *)
(* right and merge blocks, in no function yet.  A void function returns no *)
(* boolean.                                                                *)
OpenLogical(op) ==
  /\ AtExpression /\ Room
  /\ ~(isVoid /\ Top.kind = "ret")
  /\ Read(op)
  /\ blocks' = Create(blocks, 2)
  /\ Call(Frame("left", op = "and", 0, Fresh, Fresh + 1))
  /\ UNCHANGED <<isVoid, layout, insert, parentCond, parentMerge, result, stage, warned>>

(* The left operand decides: on with the right one, or to the merge block  *)
(* with the value the operator has then.                                   *)
LeftDone ==
  LET right == Top.alt
      merge == Top.merge
      jif == IF Top.has
             THEN Jif(result, right, NoValue, merge, ConstantValue(FALSE))
             ELSE Jif(result, merge, ConstantValue(TRUE), right, NoValue)
  IN /\ Returned("left")
     /\ blocks' = Build(blocks, insert, jif)
     /\ layout' = Append(layout, right)
     /\ insert' = right
     /\ Become([Top EXCEPT !.kind = "right"])
     /\ result' = NoValue
     /\ UNCHANGED <<isVoid, program, parentCond, parentMerge, stage, warned>>

(* Mutant: the operator hands on the value of its right operand.           *)
RightDoneWithOperand ==
  /\ Returned("right")
  /\ blocks' = Build(blocks, insert, Jmp(Top.merge, result))
  /\ layout' = Append(layout, Top.merge)
  /\ insert' = Top.merge
  /\ frames' = Callers
  /\ UNCHANGED <<isVoid, program, result, parentCond, parentMerge, stage, warned>>

(* The value of the operator is the argument of the merge block.           *)
RightDone ==
  /\ Returned("right")
  /\ blocks' = Build(blocks, insert, Jmp(Top.merge, result))
  /\ layout' = Append(layout, Top.merge)
  /\ insert' = Top.merge
  /\ frames' = Callers
  /\ result' = ArgValue(Top.merge)
  /\ UNCHANGED <<isVoid, program, parentCond, parentMerge, stage, warned>>

-----------------------------------------------------------------------------
(* Statements.                                                             *)

(* A statement that evaluates an expression and drops or stores its value. *)
OpenEval(kind) ==
  /\ AtStatement /\ Room
  /\ Read(kind)
  /\ Call(Frame("eval", FALSE, 0, 0, 0))
  /\ UNCHANGED <<isVoid, blocks, layout, insert, parentCond, parentMerge, result, stage, warned>>

EvalDone ==
  /\ Returned("eval")
  /\ frames' = Callers
  /\ result' = NoValue
  /\ UNCHANGED <<isVoid, program, blocks, layout, insert, parentCond, parentMerge, stage, warned>>

(* codegen_return does not ask whether the block terminates already.  The  *)
(* semantic analysis lets only a void function return without a value, and *)
(* lets it return the value of a void call.                                *)
OpenRet ==
  /\ AtStatement /\ Room
  /\ Read("ret")
  /\ \/ isVoid /\ blocks' = Build(blocks, insert, Ret(NoValue)) /\ frames' = frames
     \/ blocks' = blocks /\ Call(Frame("ret", FALSE, 0, 0, 0))
  /\ UNCHANGED <<isVoid, layout, insert, parentCond, parentMerge, result, stage, warned>>

RetDone ==
  /\ Returned("ret")
  /\ blocks' = Build(blocks, insert, Ret(result))
  /\ frames' = Callers
  /\ result' = NoValue
  /\ UNCHANGED <<isVoid, program, layout, insert, parentCond, parentMerge, stage, warned>>

(* codegen_stop and codegen_restart.  The semantic analysis, which counts  *)
(* loops by itself, refuses both outside of the body of a loop.            *)
InLoop == \E f \in DOMAIN frames : frames[f].kind = "body"

Stop ==
  /\ AtStatement /\ Room /\ InLoop
  /\ Read("stop")
  /\ blocks' = BuildJmpUnlessTerminated(blocks, insert, parentMerge)
  /\ UNCHANGED <<isVoid, layout, insert, parentCond, parentMerge, frames, result, stage, warned>>

Restart ==
  /\ AtStatement /\ Room /\ InLoop
  /\ Read("restart")
  /\ blocks' = BuildJmpUnlessTerminated(blocks, insert, parentCond)
  /\ UNCHANGED <<isVoid, layout, insert, parentCond, parentMerge, frames, result, stage, warned>>

(* codegen_if evaluates the condition before it creates a block.           *)
OpenIf(hasElse) ==
  /\ AtStatement /\ Room
  /\ Read(IF hasElse THEN "ifelse" ELSE "if")
  /\ Call(Frame("if", hasElse, 0, 0, 0))
  /\ UNCHANGED <<isVoid, blocks, layout, insert, parentCond, parentMerge, result, stage, warned>>

(* The then block joins the function; the merge block and the else block   *)
(* do so when their turn comes.                                            *)
IfDone ==
  LET then == Fresh
      merge == Fresh + 1
      els == IF Top.has THEN Fresh + 2 ELSE merge
  IN /\ Returned("if")
     /\ blocks' = Build(Create(blocks, IF Top.has THEN 3 ELSE 2), insert,
                        Jif(result, then, NoValue, els, NoValue))
     /\ layout' = Append(layout, then)
     /\ insert' = then
     /\ Become(Frame("then", Top.has, 0, els, merge))
     /\ result' = NoValue
     /\ UNCHANGED <<isVoid, program, parentCond, parentMerge, stage, warned>>

(* Mutant: only the end of the last branch is asked whether it goes on.    *)
JoinIfOpen(bs, merge) ==
  IF HasPreds(bs, merge) /\ ~Terminates(blocks[insert])
  THEN layout' = Append(layout, merge) /\ insert' = merge
  ELSE UNCHANGED <<layout, insert>>

(* The end of codegen_if: a merge block nothing jumps to is deleted, and   *)
(* what follows goes to the end of the else branch.                        *)
Join(bs, merge) ==
  IF HasPreds(bs, merge)
  THEN layout' = Append(layout, merge) /\ insert' = merge
  ELSE UNCHANGED <<layout, insert>>

CloseThen ==
  LET closed == BuildJmpUnlessTerminated(blocks, insert, Top.merge)
  IN /\ AtStatement /\ Top.kind = "then"
     /\ blocks' = closed
     /\ IF Top.has
        THEN /\ Read("else")
             /\ layout' = Append(layout, Top.alt) /\ insert' = Top.alt
             /\ Become([Top EXCEPT !.kind = "else"])
        ELSE /\ Read("end")
             /\ Join(closed, Top.merge)
             /\ frames' = Callers
     /\ UNCHANGED <<isVoid, parentCond, parentMerge, result, stage, warned>>

(* Mutant: the else branch does not jump to the merge block.               *)
CloseElseOpen ==
  /\ AtStatement /\ Top.kind = "else"
  /\ Read("end")
  /\ blocks' = blocks
  /\ Join(blocks, Top.merge)
  /\ frames' = Callers
  /\ UNCHANGED <<isVoid, parentCond, parentMerge, result, stage, warned>>

CloseElse ==
  LET closed == BuildJmpUnlessTerminated(blocks, insert, Top.merge)
  IN /\ AtStatement /\ Top.kind = "else"
     /\ Read("end")
     /\ blocks' = closed
     /\ Join(closed, Top.merge)
     /\ frames' = Callers
     /\ UNCHANGED <<isVoid, parentCond, parentMerge, result, stage, warned>>

(* codegen_until: the condition has a block of its own, to come back to.   *)
OpenUntil(hasBody) ==
  /\ AtStatement /\ Room
  /\ Read(IF hasBody THEN "until" ELSE "spin")
  /\ blocks' = Build(Create(blocks, 2), insert, Jmp(Fresh, NoValue))
  /\ layout' = Append(layout, Fresh)
  /\ insert' = Fresh
  /\ Call(Frame("until", hasBody, Fresh, 0, Fresh + 1))
  /\ UNCHANGED <<isVoid, parentCond, parentMerge, result, stage, warned>>

(* The condition ends the loop; the body knows where stop and restart go.  *)
UntilDone ==
  /\ Returned("until")
  /\ IF Top.has
     THEN /\ blocks' = Build(Create(blocks, 1), insert,
                             Jif(result, Top.merge, NoValue, Fresh, NoValue))
          /\ layout' = Append(layout, Fresh)
          /\ insert' = Fresh
          /\ Become(Frame("body", TRUE, Top.cond, Fresh, Top.merge))
          /\ parentCond' = Top.cond /\ parentMerge' = Top.merge
     ELSE /\ blocks' = Build(blocks, insert,
                             Jif(result, Top.merge, NoValue, Top.cond, NoValue))
          /\ layout' = Append(layout, Top.merge)
          /\ insert' = Top.merge
          /\ frames' = Callers
          /\ UNCHANGED <<parentCond, parentMerge>>
  /\ result' = NoValue
  /\ UNCHANGED <<isVoid, program, stage, warned>>

(* Mutant: the loop around is forgotten.                                   *)
CloseBodyKeepsParents ==
  /\ AtStatement /\ Top.kind = "body"
  /\ Read("end")
  /\ blocks' = BuildJmpUnlessTerminated(blocks, insert, Top.cond)
  /\ layout' = Append(layout, Top.merge)
  /\ insert' = Top.merge
  /\ frames' = Callers
  /\ UNCHANGED <<isVoid, parentCond, parentMerge, result, stage, warned>>

(* Mutant: the body goes back to itself and not to the condition.          *)
CloseBodyToBody ==
  /\ AtStatement /\ Top.kind = "body"
  /\ Read("end")
  /\ blocks' = BuildJmpUnlessTerminated(blocks, insert, Top.alt)
  /\ layout' = Append(layout, Top.merge)
  /\ insert' = Top.merge
  /\ parentCond' = Top.prevCond /\ parentMerge' = Top.prevMerge
  /\ frames' = Callers
  /\ UNCHANGED <<isVoid, result, stage, warned>>

CloseBody ==
  /\ AtStatement /\ Top.kind = "body"
  /\ Read("end")
  /\ blocks' = BuildJmpUnlessTerminated(blocks, insert, Top.cond)
  /\ layout' = Append(layout, Top.merge)
  /\ insert' = Top.merge
  /\ parentCond' = Top.prevCond /\ parentMerge' = Top.prevMerge
  /\ frames' = Callers
  /\ UNCHANGED <<isVoid, result, stage, warned>>

(* The end of codegen_lowered_function.                                    *)
CloseFunction ==
  LET open == ~Terminates(blocks[insert])
  IN /\ AtStatement /\ Top.kind = "function"
     /\ blocks' = IF open /\ isVoid THEN Build(blocks, insert, Ret(NoValue)) ELSE blocks
     /\ warned' = (open /\ ~isVoid)
     /\ stage' = "done"
     /\ UNCHANGED <<isVoid, program, layout, insert, parentCond, parentMerge, frames, result>>

ReadToken ==
  \/ EmitLeaf \/ \E op \in {"and", "or"} : OpenLogical(op)
  \/ \E kind \in {"eval", "let"} : OpenEval(kind)
  \/ OpenRet \/ Stop \/ Restart
  \/ \E hasElse \in BOOLEAN : OpenIf(hasElse)
  \/ \E hasBody \in BOOLEAN : OpenUntil(hasBody)
  \/ CloseThen \/ CloseElse \/ CloseBody \/ CloseFunction

CallReturns ==
  LeftDone \/ RightDone \/ EvalDone \/ RetDone \/ IfDone \/ UntilDone

Next == ReadToken \/ CallReturns

Spec == Init /\ [][Next]_vars

-----------------------------------------------------------------------------
(* Type invariant.                                                         *)

Values == [from : {"none", "leaf", "arg", "true", "false"}, id : Nat]

Insts == [op : {"leaf", "jmp", "jif", "ret"}, value : Values, to : Seq(Nat), with : Seq(Values)]

Frames == [kind : StatementCalls \cup ExpressionCalls, has : BOOLEAN, cond : Nat,
           alt : Nat, merge : Nat, prevCond : Nat, prevMerge : Nat]

(* Every number that stands for a block is that of a block that has been   *)
(* created, or 0 where the code has a null pointer.                        *)
CodegenTypeOK ==
  /\ isVoid \in BOOLEAN /\ warned \in BOOLEAN
  /\ stage \in {"emit", "done"}
  /\ blocks \in Seq(Seq(Insts))
  /\ layout \in Seq(DOMAIN blocks)
  /\ insert \in DOMAIN blocks
  /\ parentCond \in DOMAIN blocks \cup {0}
  /\ parentMerge \in DOMAIN blocks \cup {0}
  /\ frames \in Seq(Frames) /\ frames # <<>>
  /\ \A f \in DOMAIN frames :
       {frames[f].cond, frames[f].alt, frames[f].merge,
        frames[f].prevCond, frames[f].prevMerge} \subseteq DOMAIN blocks \cup {0}
  /\ result \in Values
  /\ \A b \in DOMAIN blocks : \A i \in DOMAIN blocks[b] :
       \A d \in DOMAIN blocks[b][i].to : blocks[b][i].to[d] \in DOMAIN blocks

(* When a function is finished every jump of it, dead code included, goes  *)
(* to a block the function has, and it has no block twice: the merge block *)
(* codegen_if deletes is no jump's destination, and every other block that *)
(* BasicBlock::create makes without a parent is appended to one.           *)
JumpsPlaced ==
  stage = "done" =>
    /\ \A i, j \in DOMAIN layout : layout[i] = layout[j] => i = j
    /\ \A b \in DOMAIN layout : \A i \in DOMAIN blocks[layout[b]] :
         \A d \in DOMAIN blocks[layout[b]][i].to :
           \E n \in DOMAIN layout : layout[n] = blocks[layout[b]][i].to[d]

(* Every block of a finished function terminates, but the last one of a    *)
(* function codegen_lowered_function warns of.                             *)
BlocksTerminate ==
  stage = "done" =>
    \A n \in DOMAIN layout :
      Terminates(blocks[layout[n]]) \/ (warned /\ layout[n] = insert)

=============================================================================
