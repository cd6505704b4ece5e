----------------------------- MODULE CodegenPaths -----------------------------
(***************************************************************************)
(* What LIRCodegen emits for a function, run beside what its statements    *)
(* mean.                                                                   *)
(*                                                                         *)
(* When the function is emitted, two cursors start: pos walks over the     *)
(* tokens by the rules of the language (lir's and lace's backends agree on *)
(* them: short-circuit operators, until as "while not"), and block/inst    *)
(* walk over the blocks, as a processor would.  Moves nobody can observe   *)
(* are steps of their own; a leaf is evaluated by both at once, with the   *)
(* same outcome, and this is where they can be seen to differ.             *)
(***************************************************************************)
EXTENDS LIRCodegen, TLC, FiniteSets

VARIABLES
  pos,     \* the token to run next
  yield,   \* <<b>>: the expression that ends before pos has just yielded b
  block,   \* the block to run next, and the number of the instruction in it
  inst,
  env,     \* the booleans the values computed so far hold
  hops     \* the jumps made since the last leaf

cursors == <<pos, yield, block, inst, env, hops>>

pathVars == <<vars, cursors>>

-----------------------------------------------------------------------------
(* The shape of a program, as lace's grammar gives it.                     *)

Positions == DOMAIN program

Least(S) == CHOOSE i \in S : \A j \in S : i <= j

Count(first, last, kinds) == Cardinality({k \in first..last : program[k] \in kinds})

Brackets == {"if", "ifelse", "until"}

Expressions == {"leaf", "and", "or"}

(* The return at i has an expression.                                      *)
Valued(i) == i < Len(program) /\ program[i + 1] \in Expressions

(* The end of the statement whose branch or body i stands in or opens.     *)
EndOf(i) ==
  Least({j \in Positions : j > i /\ program[j] = "end"
                           /\ Count(i + 1, j, {"end"}) = Count(i + 1, j, Brackets) + 1})

ElseOf(i) ==
  Least({j \in Positions : j > i /\ program[j] = "else"
                           /\ Count(i + 1, j, {"end"}) = Count(i + 1, j, Brackets)})

OpenerOf(i) ==
  CHOOSE k \in Positions : k < i /\ program[k] \in Brackets /\ EndOf(k) = i

(* The innermost loop around i: it opens last.                             *)
LoopOf(i) ==
  LET around == {k \in Positions : k < i /\ program[k] = "until" /\ EndOf(k) > i}
  IN CHOOSE k \in around : \A j \in around : j <= k

(* The position after the expression that starts at i.                     *)
AfterExpression(i) ==
  1 + Least({j \in Positions : j >= i
                /\ Count(i, j, {"leaf"}) = Count(i, j, {"and", "or"}) + 1})

(* The leaf at i is the first one of its statement.                        *)
StartsExpression(i) ==
  \E s \in Positions : /\ s < i /\ program[s] \notin Expressions
                       /\ \A k \in (s + 1)..(i - 1) : program[k] \in {"and", "or"}

-----------------------------------------------------------------------------
(* The statements as the language means them.                              *)

(* Where the statement at i goes without evaluating anything.              *)
Onward(i) ==
  CASE program[i] = "stop" -> EndOf(LoopOf(i)) + 1
    [] program[i] = "restart" -> LoopOf(i) + 1
    [] program[i] = "else" -> EndOf(i) + 1
    [] program[i] = "end" -> IF program[OpenerOf(i)] = "until" THEN OpenerOf(i) + 1 ELSE i + 1
    [] OTHER -> i + 1

(* Where a statement whose expression has yielded b goes; the expression   *)
(* starts after s and ends before p.                                       *)
Decided(s, p, b) ==
  CASE program[s] = "if" -> IF b THEN p ELSE EndOf(s) + 1
    [] program[s] = "ifelse" -> IF b THEN p ELSE ElseOf(s) + 1
    [] program[s] = "until" -> IF b THEN EndOf(s) + 1 ELSE p
    [] program[s] = "spin" -> IF b THEN p ELSE s + 1
    [] program[s] \in {"eval", "let"} -> p

(* The operators whose left operand ends before p: one at most.            *)
LeftOf(p) ==
  {o \in Positions : program[o] \in {"and", "or"} /\ AfterExpression(o + 1) = p}

(* The statement whose expression ends before p.                           *)
StatementOf(p) ==
  CHOOSE s \in Positions :
    /\ program[s] \in {"if", "ifelse", "until", "spin", "eval", "let", "ret"}
    /\ s + 1 < p /\ program[s + 1] \in Expressions
    /\ AfterExpression(s + 1) = p

ProgramEnded == pos = Len(program) + 1 /\ yield = <<>>

ProgramReturns ==
  /\ ~ProgramEnded
  /\ \/ yield = <<>> /\ program[pos] = "ret" /\ ~Valued(pos)
     \/ yield # <<>> /\ LeftOf(pos) = {} /\ program[StatementOf(pos)] = "ret"

ProgramAtLeaf == ~ProgramEnded /\ yield = <<>> /\ program[pos] = "leaf"

ProgramRests == ProgramEnded \/ ProgramReturns \/ ProgramAtLeaf

(* One step of the program that evaluates nothing.                         *)
ProgramMoves ==
  /\ stage = "done" /\ ~ProgramRests
  /\ IF yield = <<>> THEN pos' = Onward(pos) /\ yield' = <<>>
     ELSE LET b == yield[1]
              ops == LeftOf(pos)
          IN IF ops = {} THEN pos' = Decided(StatementOf(pos), pos, b) /\ yield' = <<>>
             ELSE LET o == CHOOSE o \in ops : TRUE
                  IN IF b = (program[o] = "and")
                     THEN pos' = pos /\ yield' = <<>>
                     ELSE pos' = AfterExpression(o) /\ yield' = <<b>>
  /\ UNCHANGED <<vars, block, inst, env, hops>>

-----------------------------------------------------------------------------
(* The blocks as they run.                                                 *)

AtEnd == inst > Len(blocks[block])

Current == blocks[block][inst]

Jumping == ~AtEnd /\ Current.op \in {"jmp", "jif"}

NoValues == (ConstantValue(TRUE) :> TRUE)

Computed(value) == value \in DOMAIN env

Holds(value) ==
  \/ value = ConstantValue(TRUE)
  \/ value.from \in {"leaf", "arg"} /\ Computed(value) /\ env[value]

(* A jump; the destination's argument takes the value it is given.         *)
Jump ==
  /\ stage = "done" /\ ProgramRests /\ Jumping
  /\ LET way == IF Current.op = "jmp" \/ Holds(Current.value) THEN 1 ELSE 2
         dest == Current.to[way]
         given == Current.with[way]
     IN /\ block' = dest /\ inst' = 1
        /\ env' = IF given = NoValue THEN env
                  ELSE (ArgValue(dest) :> Holds(given)) @@ env
        /\ hops' = hops + 1
  /\ UNCHANGED <<vars, pos, yield>>

(* Both evaluate the same leaf, with the same outcome.  A value serves the *)
(* statement it is computed for and no other, so the first leaf of a       *)
(* statement forgets those before it.                                      *)
Evaluate(b) ==
  /\ stage = "done" /\ ProgramAtLeaf
  /\ ~AtEnd /\ Current = Leaf(pos)
  /\ inst' = inst + 1
  /\ env' = (LeafValue(pos) :> b) @@ (IF StartsExpression(pos) THEN NoValues ELSE env)
  /\ pos' = pos + 1 /\ yield' = <<b>>
  /\ hops' = 0
  /\ UNCHANGED <<vars, block>>

PathInit ==
  /\ Init
  /\ pos = 1 /\ yield = <<>> /\ block = 1 /\ inst = 1
  /\ env = NoValues /\ hops = 0

Emit == Next /\ UNCHANGED cursors

PathNext == Emit \/ ProgramMoves \/ Jump \/ \E b \in BOOLEAN : Evaluate(b)

PathSpec == PathInit /\ [][PathNext]_pathVars

-----------------------------------------------------------------------------
(* Properties.                                                             *)

(* The blocks do what the statements mean: where they evaluate a leaf it   *)
(* is the next one of the program, they return when the program returns,   *)
(* with the same boolean, and leave the last block when the program ends.  *)
SameBehaviour ==
  (stage = "done" /\ ProgramRests /\ ~Jumping) =>
    CASE AtEnd -> ProgramEnded /\ ~isVoid
      [] ~AtEnd /\ Current.op = "leaf" -> ProgramAtLeaf /\ Current = Leaf(pos)
      [] ~AtEnd /\ Current.op = "ret" ->
           IF Current.value = NoValue THEN isVoid /\ (ProgramReturns \/ ProgramEnded)
           ELSE ProgramReturns /\ yield = <<Holds(Current.value)>>

(* A jump reads only what this execution has computed: the value of a      *)
(* short-circuit operator is the block argument that both ways give, never *)
(* the operand only one of them computes.                                  *)
ValuesComputed ==
  (stage = "done" /\ Jumping) =>
    /\ Current.op = "jif" => Computed(Current.value)
    /\ \A d \in DOMAIN Current.with :
         Current.with[d].from \in {"leaf", "arg"} /\ (Current.op = "jmp" \/ Holds(Current.value) = (d = 1))
           => Computed(Current.with[d])

(* No loop goes round without evaluating its condition: as many jumps as   *)
(* the function has blocks lead to a leaf, a return or the end.            *)
NoSilentLoop == hops <= Len(layout)

=============================================================================
