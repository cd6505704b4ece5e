------------------------------ MODULE Backend ------------------------------
(***************************************************************************)
(* From expressions to machine code that runs: the code generator of lace  *)
(* evaluates expressions (lace/source/codegen/LIRCodegen*.cpp), the        *)
(* instruction selector lowers each operation (InstSelector), registers    *)
(* are allocated (RegisterAllocation), and a processor with symbolic       *)
(* values executes the result next to the graph it was made from.          *)
(*                                                                         *)
(* Each expression is generated operands first, left to right, and each    *)
(* value it yields is used by one operation, so temps is a stack.          *)
(***************************************************************************)
EXTENDS InstSelector, RegisterAllocation

CONSTANTS
  Values,      \* A sequence: the virtual registers, in the order they are made.
  Selected,    \* The kinds of operation that occur.
  Logical,     \* TRUE if && and || occur.
  MaxOpen,     \* Bounds the && and || within one another.
  MaxCode      \* Bounds the instructions of a function.

ASSUME BackendAssumption ==
  /\ {RAX, RCX, RDX} \subseteq Physical
  /\ RAX # RCX /\ RAX # RDX
  /\ ArgRegs \in Seq(Physical)
  /\ Len(ArgRegs) >= 2
  /\ IsInjective(ArgRegs)
  /\ \A n \in DOMAIN ArgRegs : ArgRegs[n] # RAX
  /\ \A n \in DOMAIN Pool : Pool[n] \in CallerSaved
  /\ Values \in Seq(Virtual)
  /\ IsInjective(Values)
  /\ Selected \subseteq Kinds

VARIABLES
  temps,    \* the values of the operands evaluated so far
  used,     \* how many of Values are made
  opens,    \* the && and || that wait for their right operand
  blocks,   \* how many basic blocks are made
  block,    \* m_insert, the block being filled
  pc,       \* the machine: the instruction it is at,
  regs,     \*   what the registers hold,
  flags,    \*   the flags,
  stack,    \*   what was pushed
  env,      \* the graph: what each value is
  result    \* what the last operation computed: [machine, graph]

selectVars == <<temps, used, opens, blocks, block>>
execVars   == <<pc, regs, flags, stack, env, result>>
vars       == <<allocVars, selectVars, execVars>>

Junk == <<"junk">>

Init ==
  /\ InitAlloc
  /\ stage = "select"
  /\ code = <<>>
  /\ temps = <<>>
  /\ used = 0
  /\ opens = <<>>
  /\ blocks = 1
  /\ block = 1
  /\ pc = 1
  /\ regs = [r \in Physical |-> Junk]
  /\ flags = Junk
  /\ stack = <<>>
  /\ env = [v \in Virtual |-> Junk]
  /\ result = [machine |-> Junk, graph |-> Junk]

-----------------------------------------------------------------------------
(* Code generation.  Instructions are put at the end of block b; the last  *)
(* one completes the operation eval, [kind, value, args], if there is one. *)
Completions == Kinds \union {"none", "store", "test", "true", "false", "copy", "ret"}

None == [kind |-> "none", value |-> NoRegister, args |-> <<>>]

Place(i, b, target, eval) ==
  [op |-> i.op, regs |-> i.regs, block |-> b, target |-> target, eval |-> eval]

Emit(insts, kind, v, a) ==
  [i \in DOMAIN insts |->
     Place(insts[i], block, 0,
           IF i = Len(insts) THEN [kind |-> kind, value |-> v, args |-> a] ELSE None)]

Jump(op, target) == Place(Inst(op, <<>>), block, target, None)

Base == IF opens = <<>> THEN 0 ELSE Last(opens).base

Operands(n) ==
  IF Len(temps) - Base < n THEN {}
  ELSE {SubSeq(temps, Len(temps) - n + 1, Len(temps))}

Rest(n) == SubSeq(temps, 1, Len(temps) - n)

(* An operation that yields a value.                                       *)
Generate(kind) ==
  /\ stage = "select"
  /\ used < Len(Values)
  /\ \E a \in Operands(Arity(kind)) :
       LET v == Values[used + 1] IN
       /\ code' = code \o Emit(Select(kind, v, a), kind, v, a)
       /\ temps' = Append(Rest(Arity(kind)), v)
  /\ used' = used + 1
  /\ Len(code') <= MaxCode
  /\ UNCHANGED <<stage, scanVars, ranges, next, table, opens, blocks, block, execVars>>

(* codegen_assignment: the address, then the value, which is the value of  *)
(* the assignment too.                                                     *)
Assign ==
  /\ stage = "select"
  /\ \E a \in Operands(2) :
       /\ code' = code \o Emit(SelectStore(a[1], a[2]), "store", NoRegister, a)
       /\ temps' = Append(Rest(2), a[2])
  /\ Len(code') <= MaxCode
  /\ UNCHANGED <<stage, scanVars, ranges, next, table, used, opens, blocks, block, execVars>>

(* The value of an expression statement is not used.                       *)
Discard ==
  /\ stage = "select"
  /\ opens = <<>>
  /\ Len(temps) = 1
  /\ temps' = <<>>
  /\ UNCHANGED <<allocVars, used, opens, blocks, block, execVars>>

(* codegen_logical_and, codegen_logical_or up to the right operand.  The   *)
(* merge block takes the result as its argument: a constant comes along    *)
(* with the jump that skips the right operand, before the JNE for ||.      *)
OpenLogical(or) ==
  /\ stage = "select"
  /\ Logical
  /\ used < Len(Values)
  /\ Len(opens) < MaxOpen
  /\ \E a \in Operands(1) :
       LET v     == Values[used + 1]
           right == blocks + 1
           merge == blocks + 2
           test  == Emit(<<Inst("test", <<Use(a[1])>>)>>, "test", NoRegister, a)
           Short(b) == Emit(<<Inst("const", <<Use(v)>>)>>, b, v, <<>>)
       IN
       /\ code' = code \o test \o
            IF or THEN Short("true") \o <<Jump("jne", merge), Jump("jmp", right)>>
                  ELSE <<Jump("jne", right)>> \o Short("false") \o <<Jump("jmp", merge)>>
       /\ temps' = Rest(1)
       /\ opens' = Append(opens, [arg |-> v, merge |-> merge, base |-> Len(Rest(1))])
       /\ block' = right
  /\ used' = used + 1
  /\ blocks' = blocks + 2
  /\ Len(code') <= MaxCode
  /\ UNCHANGED <<stage, scanVars, ranges, next, table, execVars>>

(* The rest of them: the right operand is the argument of the jump.        *)
CloseLogical ==
  /\ stage = "select"
  /\ opens # <<>>
  /\ LET top == Last(opens) IN
     /\ Len(temps) = top.base + 1
     /\ code' = code \o Emit(<<Mov(Last(temps), top.arg)>>, "copy", top.arg, <<Last(temps)>>)
                     \o <<Jump("jmp", top.merge)>>
     /\ temps' = Append(SubSeq(temps, 1, top.base), top.arg)
     /\ block' = top.merge
  /\ opens' = Front(opens)
  /\ Len(code') <= MaxCode
  /\ UNCHANGED <<stage, scanVars, ranges, next, table, used, blocks, execVars>>

Return ==
  /\ stage = "select"
  /\ opens = <<>>
  /\ Len(temps) = 1
  /\ \E a \in Operands(1) :
       code' = code \o Emit(SelectReturn(a[1]), "ret", NoRegister, a)
  /\ temps' = <<>>
  /\ stage' = "scan"
  /\ UNCHANGED <<scanVars, ranges, next, table, used, opens, blocks, block, execVars>>

-----------------------------------------------------------------------------
Allocate ==
  /\ AllocNext
  /\ UNCHANGED <<selectVars, execVars>>

Run ==
  /\ stage = "done"
  /\ stage' = "run"
  /\ UNCHANGED <<code, scanVars, ranges, next, table, selectVars, execVars>>

-----------------------------------------------------------------------------
(* Execution.  AsmWriter::map_register.                                    *)
Where(r) == IF r \in Virtual THEN table[r] ELSE r

Held(r) == regs[Where(r)]

(* What an instruction writes, of the registers it names in its operands.  *)
Writes(i) ==
  LET R(n) == i.regs[n].reg
      X(n) == Held(R(n))
      To(n, term) == [r \in {Where(R(n))} |-> term]
  IN CASE i.op = "load"  -> To(1, <<"load", R(1)>>)
       [] i.op = "const" -> To(1, <<i.eval.kind>>)
       [] i.op = "mov"   -> To(2, X(1))
       [] i.op = "deref" -> To(2, <<"deref", X(1)>>)
       [] i.op = "add"   -> To(2, <<"add", X(1), X(2)>>)
       [] i.op = "sub"   -> To(2, <<"sub", X(2), X(1)>>)
       [] i.op = "imul"  -> To(2, <<"mul", X(2), X(1)>>)
       [] i.op = "shl"   -> To(2, <<"shl", X(2), X(1)>>)
       [] i.op = "neg"   -> To(1, <<"neg", X(1)>>)
       [] i.op = "scale" -> To(1, <<"scale", X(1)>>)
       [] i.op = "cqo"   -> To(2, <<"sign", X(1)>>)
       [] i.op = "zero"  -> To(1, <<"zero">>)
       [] i.op = "div"   ->
            [r \in {Where(R(2)), Where(R(3))} |->
               <<IF r = Where(R(2)) THEN "quot" ELSE "rem", X(3), X(2), X(1)>>]
       [] i.op = "setg"  -> To(1, <<"less">> \o flags)
       [] i.op = "pop"   -> To(1, Last(stack))
       [] i.op = "call"  ->
            LET args == Front(i.regs)
            IN  [r \in Physical |->
                   IF r = RAX
                   THEN <<"call">> \o Reverse([n \in DOMAIN args |-> Held(args[n].reg)])
                   ELSE Junk]
       [] OTHER -> [r \in {} |-> Junk]

(* Where the result of the operation i completes is to be seen.            *)
Outcome(i, regs1) ==
  CASE i.op = "store" -> <<"store", Held(i.regs[2].reg), Held(i.regs[1].reg)>>
    [] i.op = "ret"   -> regs1[RAX]
    [] OTHER          -> regs1[Where(Last(i.regs).reg)]

FirstOf(b) == CHOOSE p \in DOMAIN code :
                /\ code[p].block = b
                /\ \A q \in 1..(p - 1) : code[q].block # b

Execute ==
  /\ stage = "run"
  /\ pc \in DOMAIN code
  /\ LET i == code[pc] IN
     /\ regs' = [r \in Physical |-> IF r \in DOMAIN Writes(i) THEN Writes(i)[r] ELSE regs[r]]
     /\ flags' = IF i.op = "cmp"
                 THEN <<Held(i.regs[1].reg), Held(i.regs[2].reg)>>
                 ELSE IF i.op \in {"mov", "const", "load", "deref", "store"} THEN flags
                 ELSE Junk
     /\ stack' = CASE i.op = "push" -> Append(stack, Held(i.regs[1].reg))
                   [] i.op = "pop"  -> Front(stack)
                   [] OTHER         -> stack
     /\ IF i.eval.kind = "none"
        THEN UNCHANGED <<env, result>>
        ELSE LET x == [n \in DOMAIN i.eval.args |-> env[i.eval.args[n]]]
                 t == Term(i.eval.kind, i.eval.value, x)
             IN  /\ env' = [v \in Virtual |-> IF v = i.eval.value THEN t ELSE env[v]]
                 /\ result' = [machine |-> Outcome(i, regs'), graph |-> t]
     /\ CASE i.op = "jmp" -> pc' = FirstOf(i.target)
          [] i.op = "jne" -> pc' \in {FirstOf(i.target), pc + 1}
          [] i.op = "ret" -> pc' = Len(code) + 1
          [] OTHER        -> pc' = pc + 1
  /\ UNCHANGED <<allocVars, selectVars>>

Next ==
  \/ \E kind \in Selected : Generate(kind)
  \/ Assign
  \/ Discard
  \/ \E or \in BOOLEAN : OpenLogical(or)
  \/ CloseLogical
  \/ Return
  \/ Allocate
  \/ Run
  \/ Execute

Spec == Init /\ [][Next]_vars

-----------------------------------------------------------------------------
SpillsMany ==
  \E p, q \in DOMAIN code : p < q /\ \A n \in p..q : code[n].op = "push"

(* At every operation, what the machine holds is what the graph says, for  *)
(* all values the program can load: no operand is overwritten before its   *)
(* use, by another value, an instruction's fixed registers or a call.      *)
ComputesTheGraph == result.machine = result.graph

(* The same of functions in which no call finds two values to spill: those *)
(* are restored to each other's registers.                                 *)
ComputesWithoutSwap == ~SpillsMany => ComputesTheGraph

(* Where a physical register is killed, or is dead, no range of it goes on *)
(* (docs/lir/liveness.md): other values may have it from there.            *)
KillsSplit ==
  stage = "assign" =>
    \A p \in DOMAIN code : \A n \in DOMAIN code[p].regs :
      code[p].regs[n].kill =>
        \A i \in DOMAIN ranges :
          ranges[i].reg = code[p].regs[n].reg => ~Covers(ranges[i], p)

(* The block of place p has no code before it.                             *)
BeginsBlock(p) == \A q \in 1..(p - 1) : code[q].block # code[p].block

(* Spills are on the stack around their call and nowhere else, whichever   *)
(* way execution takes: it is empty at every other instruction, where a    *)
(* block begins and when the function returns, and a pop finds something.  *)
(* (What a pop brings back is a question for ComputesWithoutSwap.)         *)
StackBalanced ==
  stage = "run" =>
    /\ pc \notin DOMAIN code => stack = <<>>
    /\ pc \in DOMAIN code =>
         /\ code[pc].op \notin {"push", "call", "pop"} => stack = <<>>
         /\ BeginsBlock(pc) => stack = <<>>
         /\ code[pc].op = "pop" => stack # <<>>
=============================================================================
