--------------------------- MODULE BackendProofs ---------------------------
(***************************************************************************)
(* Proofs about Backend.  TypeInv types what the selector emits, AllocInv  *)
(* says how the ranges lie, and no register is given to two ranges that    *)
(* overlap.  KillInv relates the ranges to the operands scanned so far: no *)
(* range goes on over a kill of its register.  StackInv follows a path     *)
(* through the finished function, and how deep the stack is along it.      *)
(*                                                                         *)
(* What the program computes rests on types for machine code.  Typed says  *)
(* what the registers hold at each place, in terms of the values of the    *)
(* graph, before registers are allocated; RealTyped says it of the         *)
(* finished function.  Placing the spills leads from one to the other if   *)
(* no call spills two registers (PlaceReal), and what RealTyped says is    *)
(* what the machine finds (RunInv).  ComputationProofs shows that the code *)
(* the selector emits is Typed.                                            *)
(***************************************************************************)
EXTENDS Backend, WellFoundedInduction, TLAPS

(* What there is of numbers with a property, there is a first of.          *)
LEMMA Least ==
  ASSUME NEW T \in SUBSET Nat, T # {}
  PROVE  \E m \in T : \A k \in T : m <= k
<1>1. \E m \in T : \A k \in T : ~(<<k, m>> \in OpToRel(<, Nat))
  BY NatLessThanWellFounded, WFMin
<1>2. PICK m \in T : \A k \in T : ~(<<k, m>> \in OpToRel(<, Nat))
  BY <1>1
<1>3. \A k \in T : ~(k < m)
  BY <1>2, Zenon DEF OpToRel
<1> QED BY <1>3

(* The selector kills physical registers only.                             *)
Operand == {o \in [reg : Register, kill : BOOLEAN] : o.kill => o.reg \in Physical}

(* It neither jumps, which is left to the control flow, nor spills.        *)
Chosen == Mnemonics \ {"jmp", "jne", "push", "pop"}

Selection == [op : Chosen, regs : Seq(Operand)]

Eval == [kind : Completions, value : Virtual \union {NoRegister},
         args : Seq(Virtual)]

MachInst == [op : Mnemonics, regs : Seq(Operand), block : Nat, target : Nat,
             eval : Eval]

-----------------------------------------------------------------------------
(* An operation on virtual registers becomes a sequence of instructions    *)
(* whose operands are registers.                                           *)
LEMMA UseType ==
  ASSUME NEW r \in Register
  PROVE  Use(r) \in Operand /\ (r \in Physical => Kill(r) \in Operand)
  BY DEF Use, Kill, Operand

(* A move between registers is an instruction the selector may emit.       *)
LEMMA MovType ==
  ASSUME NEW r \in Register, NEW s \in Register PROVE Mov(r, s) \in Selection
<1>1. Use(r) \in Operand /\ Use(s) \in Operand
  BY UseType
<1>2. <<Use(r), Use(s)>> \in Seq(Operand)
  BY <1>1
<1> QED
  BY <1>2 DEF Mov, Inst, Selection, Chosen, Mnemonics

(* So is any opcode with operands.                                         *)
LEMMA InstType ==
  ASSUME NEW op \in Chosen, NEW s \in Seq(Operand) PROVE Inst(op, s) \in Selection
  BY DEF Inst, Selection

(* One operand, or two, are a sequence of them.                            *)
LEMMA OperandsType ==
  ASSUME NEW x \in Operand, NEW y \in Operand
  PROVE  <<x>> \in Seq(Operand) /\ <<x, y>> \in Seq(Operand)
  OBVIOUS

(* The registers the target names are registers.                           *)
LEMMA FixedRegisters ==
  /\ RAX \in Register /\ RCX \in Register /\ RDX \in Register
  /\ RAX \in Physical /\ RDX \in Physical
  BY BackendAssumption DEF Register

(* The code selected for a binary operation is typed.                      *)
LEMMA BinaryType ==
  ASSUME NEW v \in Virtual, NEW a \in Seq(Virtual), Len(a) >= 2
  PROVE  /\ SelectIAdd(v, a) \in Seq(Selection)
         /\ SelectISub(v, a) \in Seq(Selection)
         /\ SelectIMul(v, a) \in Seq(Selection)
         /\ SelectShift(v, a) \in Seq(Selection)
         /\ SelectComparison(v, a) \in Seq(Selection)
         /\ SelectPwalk(v, a) \in Seq(Selection)
<1>1. a[1] \in Register /\ a[2] \in Register /\ v \in Register
  BY DEF Register
<1>2. \A r, s \in Register : Use(r) \in Operand /\ Mov(r, s) \in Selection
  BY UseType, MovType
<1>3. \A op \in Chosen : \A r, s \in Register :
        Inst(op, <<Use(r), Use(s)>>) \in Selection /\ Inst(op, <<Use(r)>>) \in Selection
  BY OperandsType, UseType, InstType
<1>4. SelectIAdd(v, a) \in Seq(Selection)
  <2>1. Inst("add", <<Use(a[1]), Use(a[2])>>) \in Selection BY <1>1, <1>3 DEF Chosen, Mnemonics
  <2> QED BY <2>1, <1>1, <1>2 DEF SelectIAdd
<1>5. SelectISub(v, a) \in Seq(Selection)
  <2>1. Inst("sub", <<Use(a[2]), Use(a[1])>>) \in Selection BY <1>1, <1>3 DEF Chosen, Mnemonics
  <2> QED BY <2>1, <1>1, <1>2 DEF SelectISub
<1>6. SelectIMul(v, a) \in Seq(Selection)
  <2>1. Inst("imul", <<Use(a[2]), Use(v)>>) \in Selection BY <1>1, <1>3 DEF Chosen, Mnemonics
  <2> QED BY <2>1, <1>1, <1>2 DEF SelectIMul
<1>7. SelectShift(v, a) \in Seq(Selection)
  <2>1. Inst("shl", <<Use(RCX), Use(v)>>) \in Selection BY <1>1, <1>3, FixedRegisters DEF Chosen, Mnemonics
  <2> QED BY <2>1, <1>1, <1>2, FixedRegisters DEF SelectShift
<1>8. SelectComparison(v, a) \in Seq(Selection)
  <2>1. /\ Inst("cmp", <<Use(a[1]), Use(a[2])>>) \in Selection
        /\ Inst("setg", <<Use(v)>>) \in Selection
    BY <1>1, <1>3 DEF Chosen, Mnemonics
  <2> QED BY <2>1 DEF SelectComparison
<1>9. SelectPwalk(v, a) \in Seq(Selection)
  <2>1. /\ Inst("scale", <<Use(a[2])>>) \in Selection
        /\ Inst("add", <<Use(a[2]), Use(v)>>) \in Selection
    BY <1>1, <1>3 DEF Chosen, Mnemonics
  <2> QED BY <2>1, <1>1, <1>2 DEF SelectPwalk
<1> QED BY <1>4, <1>5, <1>6, <1>7, <1>8, <1>9

(* The code selected for a unary operation is typed.                       *)
LEMMA UnaryType ==
  ASSUME NEW v \in Virtual, NEW a \in Seq(Virtual), Len(a) >= 1
  PROVE  SelectDeref(v, a) \in Seq(Selection) /\ SelectNegate(v, a) \in Seq(Selection)
<1>1. a[1] \in Register /\ v \in Register
  BY DEF Register
<1>2. Inst("deref", <<Use(a[1]), Use(v)>>) \in Selection /\ Inst("neg", <<Use(a[1])>>) \in Selection
  <2>1. Use(a[1]) \in Operand /\ Use(v) \in Operand
    BY <1>1, UseType
  <2>2. <<Use(a[1]), Use(v)>> \in Seq(Operand) /\ <<Use(a[1])>> \in Seq(Operand)
    BY <2>1, OperandsType
  <2> QED BY <2>2, InstType DEF Chosen, Mnemonics
<1>3. Mov(a[1], v) \in Selection
  BY <1>1, MovType
<1> QED BY <1>2, <1>3 DEF SelectDeref, SelectNegate

(* The code selected for a division is typed.                              *)
LEMMA DivisionType ==
  ASSUME NEW v \in Virtual, NEW a \in Seq(Virtual), Len(a) >= 2, NEW kind
  PROVE  SelectDivision(kind, v, a) \in Seq(Selection)
<1> DEFINE wanted == IF kind \in {"smod", "umod"} THEN RDX ELSE RAX
           Out(reg) == IF reg = wanted THEN Use(reg) ELSE Kill(reg)
<1>1. a[1] \in Register /\ a[2] \in Register /\ v \in Register /\ wanted \in Physical
  BY FixedRegisters DEF Register
<1>2. \A r \in Register : Use(r) \in Operand /\ (r \in Physical => Kill(r) \in Operand)
  BY UseType
<1>3. Mov(a[1], RAX) \in Selection /\ Mov(a[2], v) \in Selection
  BY <1>1, MovType, FixedRegisters
<1>4. /\ Inst("cqo", <<Use(RAX), Use(RDX)>>) \in Selection
      /\ Inst("zero", <<Kill(RDX)>>) \in Selection
  <2>1. <<Use(RAX), Use(RDX)>> \in Seq(Operand) /\ <<Kill(RDX)>> \in Seq(Operand)
    BY <1>2, FixedRegisters, OperandsType
  <2> QED BY <2>1, InstType DEF Chosen, Mnemonics
<1>5. Inst("div", <<Use(v), Kill(RAX), Kill(RDX), Out(RAX), Out(RDX)>>) \in Selection
  <2>1. Out(RAX) \in Operand /\ Out(RDX) \in Operand
    BY <1>2, FixedRegisters
  <2>2. Use(v) \in Operand /\ Kill(RAX) \in Operand /\ Kill(RDX) \in Operand
    BY <1>1, <1>2, FixedRegisters
  <2> HIDE DEF Out
  <2>3. <<Use(v), Kill(RAX), Kill(RDX), Out(RAX), Out(RDX)>> \in Seq(Operand)
    BY <2>1, <2>2
  <2> QED BY <2>3, InstType DEF Chosen, Mnemonics
<1>6. Inst("mov", <<Kill(wanted), Use(v)>>) \in Selection
  <2> HIDE DEF wanted
  <2>1. <<Kill(wanted), Use(v)>> \in Seq(Operand)
    BY <1>1, <1>2, OperandsType DEF Register
  <2> QED BY <2>1, InstType DEF Chosen, Mnemonics
<1>7. SelectDivision(kind, v, a) =
        << Mov(a[1], RAX), Mov(a[2], v),
           IF kind \in {"sdiv", "smod"} THEN Inst("cqo", <<Use(RAX), Use(RDX)>>)
                                        ELSE Inst("zero", <<Kill(RDX)>>),
           Inst("div", <<Use(v), Kill(RAX), Kill(RDX), Out(RAX), Out(RDX)>>),
           Inst("mov", <<Kill(wanted), Use(v)>>) >>
  BY DEF SelectDivision
<1> HIDE DEF Out, wanted
<1> QED BY <1>3, <1>4, <1>5, <1>6, <1>7

(* A sequence in reverse has the same elements, and as many.               *)
LEMMA ReverseType ==
  ASSUME NEW S, NEW s \in Seq(S) PROVE Reverse(s) \in Seq(S) /\ Len(Reverse(s)) = Len(s)
  BY DEF Reverse

(* The code selected for a call is typed.                                  *)
LEMMA CallType ==
  ASSUME NEW v \in Virtual, NEW a \in Seq(Virtual), Len(a) <= 2
  PROVE  SelectCall(v, a) \in Seq(Selection)
<1> DEFINE moves == [i \in DOMAIN a |-> Mov(a[i], ArgRegs[i])]
           kills == [i \in DOMAIN a |-> Kill(ArgRegs[i])]
           call  == Reverse(kills) \o <<Use(RAX)>>
           back  == <<Kill(RAX), Use(v)>>
<1>1. \A i \in DOMAIN a : a[i] \in Register /\ ArgRegs[i] \in Physical
  BY BackendAssumption DEF Register
<1>2. moves \in Seq(Selection)
  <2>1. \A i \in DOMAIN a : Mov(a[i], ArgRegs[i]) \in Selection
    BY <1>1, MovType DEF Register
  <2> QED BY <2>1
<1>3. kills \in Seq(Operand)
  <2>1. \A i \in DOMAIN a : Kill(ArgRegs[i]) \in Operand
    BY <1>1, UseType DEF Register
  <2> QED BY <2>1
<1>4. Inst("call", call) \in Selection
  <2>1. <<Use(RAX)>> \in Seq(Operand)
    BY FixedRegisters, UseType
  <2>2. Reverse(kills) \in Seq(Operand)
    BY <1>3, ReverseType
  <2> HIDE DEF kills
  <2>3. call \in Seq(Operand)
    BY <2>1, <2>2
  <2> QED BY <2>3, InstType DEF Chosen, Mnemonics
<1>5. Inst("mov", back) \in Selection
  <2>1. Kill(RAX) \in Operand /\ Use(v) \in Operand
    BY FixedRegisters, UseType DEF Register
  <2>2. back \in Seq(Operand)
    BY <2>1, OperandsType
  <2> QED BY <2>2, InstType DEF Chosen, Mnemonics
<1>6. Reverse(moves) \in Seq(Selection)
  BY <1>2, ReverseType
<1>7. SelectCall(v, a) = Reverse(moves) \o <<Inst("call", call), Inst("mov", back)>>
  BY DEF SelectCall
<1> HIDE DEF moves, call, back
<1> QED BY <1>4, <1>5, <1>6, <1>7

(* The code selected for an instruction is typed.                          *)
LEMMA SelectType ==
  ASSUME NEW kind \in Kinds, NEW v \in Virtual, NEW a \in Seq(Virtual),
         Len(a) = Arity(kind)
  PROVE  Select(kind, v, a) \in Seq(Selection)
<1>1. CASE kind = "load"
  <2>1. Use(v) \in Operand
    BY UseType DEF Register
  <2>2. <<Use(v)>> \in Seq(Operand)
    BY <2>1, OperandsType
  <2>3. Inst("load", <<Use(v)>>) \in Selection
    BY <2>2, InstType DEF Chosen, Mnemonics
  <2> QED BY <1>1, <2>3 DEF Select, SelectLoad
<1>2. CASE kind \in {"deref", "ineg"}
  <2>1. Len(a) >= 1
    BY <1>2 DEF Arity
  <2> QED BY <1>2, <2>1, UnaryType DEF Select
<1>3. CASE kind \in {"iadd", "isub", "imul", "shift", "less", "pwalk"}
  <2>1. Len(a) >= 2
    BY <1>3 DEF Arity
  <2> QED BY <1>3, <2>1, BinaryType DEF Select
<1>4. CASE kind \in {"sdiv", "smod", "udiv", "umod"}
  <2>1. Len(a) >= 2
    BY <1>4 DEF Arity
  <2> QED BY <1>4, <2>1, DivisionType DEF Select
<1>5. CASE kind \in {"call0", "call1", "call2"}
  <2>1. Len(a) <= 2
    BY <1>5 DEF Arity
  <2> QED BY <1>5, <2>1, CallType DEF Select
<1> QED BY <1>1, <1>2, <1>3, <1>4, <1>5 DEF Kinds

(* The code selected for a store, and for a return, is typed.              *)
LEMMA StoreReturnType ==
  ASSUME NEW x \in Virtual, NEW y \in Virtual
  PROVE  SelectStore(x, y) \in Seq(Selection) /\ SelectReturn(x) \in Seq(Selection)
<1>1. x \in Register /\ y \in Register
  BY DEF Register
<1>2. /\ <<Use(y), Use(x)>> \in Seq(Operand)
      /\ <<Use(RAX)>> \in Seq(Operand)
  BY <1>1, UseType, OperandsType, FixedRegisters
<1>3. Inst("store", <<Use(y), Use(x)>>) \in Selection /\ Inst("ret", <<Use(RAX)>>) \in Selection
  BY <1>2, InstType DEF Chosen, Mnemonics
<1>4. Mov(x, RAX) \in Selection
  BY <1>1, MovType, FixedRegisters
<1> QED BY <1>3, <1>4 DEF SelectStore, SelectReturn

(* What is left of a sequence without its last element, and that element.  *)
LEMMA LastIn ==
  ASSUME NEW S, NEW s \in Seq(S), s # <<>>
  PROVE  Last(s) \in S /\ Front(s) \in Seq(S) /\ Len(s) \in Nat \ {0}
<1>1. Len(s) \in Nat \ {0}
  OBVIOUS
<1> QED BY <1>1 DEF Last, Front

(* The elements of a pair are of its set.                                  *)
LEMMA PairIn ==
  ASSUME NEW S, NEW s \in Seq(S), Len(s) = 2 PROVE s[1] \in S /\ s[2] \in S
<1>1. 1 \in DOMAIN s /\ 2 \in DOMAIN s
  BY SMTT(30)
<1> QED BY <1>1, SMTT(30)

(* The empty sequence is one over any set.                                 *)
LEMMA EmptySeq == \A S : <<>> \in Seq(S)
  OBVIOUS

(* The empty evaluation has its type.                                      *)
LEMMA NoneType == None \in Eval
  BY EmptySeq DEF None, Completions, Eval

(* Placing a selection in a block makes it code.                           *)
LEMMA EmitType ==
  ASSUME NEW insts \in Seq(Selection), NEW kind \in Completions,
         NEW v \in Virtual \union {NoRegister}, NEW a \in Seq(Virtual), block \in Nat
  PROVE  Emit(insts, kind, v, a) \in Seq(MachInst)
<1> DEFINE e == [kind |-> kind, value |-> v, args |-> a]
<1>1. e \in Eval /\ None \in Eval
  BY NoneType DEF Eval
<1>2. \A i \in DOMAIN insts : \A f \in Eval : Place(insts[i], block, 0, f) \in MachInst
  <2> SUFFICES ASSUME NEW i \in DOMAIN insts, NEW f \in Eval
               PROVE  Place(insts[i], block, 0, f) \in MachInst
    OBVIOUS
  <2>1. insts[i] \in Selection
    OBVIOUS
  <2>2. insts[i].op \in Mnemonics /\ insts[i].regs \in Seq(Operand)
    BY <2>1 DEF Selection, Chosen
  <2> QED BY <2>2 DEF Place, MachInst
<1>3. Emit(insts, kind, v, a) =
        [i \in DOMAIN insts |-> Place(insts[i], block, 0, IF i = Len(insts) THEN e ELSE None)]
  BY DEF Emit
<1> HIDE DEF e
<1>4. \A i \in DOMAIN insts :
        Place(insts[i], block, 0, IF i = Len(insts) THEN e ELSE None) \in MachInst
  BY <1>1, <1>2, SMTT(30)
<1> QED BY <1>3, <1>4, SMTT(30)

(* A jump to a block is an instruction.                                    *)
LEMMA JumpType ==
  ASSUME NEW op \in Mnemonics, NEW target \in Nat, block \in Nat
  PROVE  Jump(op, target) \in MachInst
<1>1. None \in Eval
  BY NoneType
<1>2. <<>> \in Seq(Operand)
  BY EmptySeq
<1>3. Jump(op, target) = [op |-> op, regs |-> <<>>, block |-> block,
                          target |-> target, eval |-> None]
  BY DEF Jump, Place, Inst
<1> HIDE DEF None
<1> QED BY <1>1, <1>2, <1>3 DEF MachInst

-----------------------------------------------------------------------------
TypeInv ==
  /\ AllocTypeOK
  /\ stage \in {"select", "scan", "assign", "spill"} => code \in Seq(MachInst)
  /\ temps \in Seq(Virtual)
  /\ used \in Nat
  /\ opens \in Seq([arg : Virtual, merge : Nat, base : Nat])
  /\ blocks \in Nat
  /\ block \in Nat

(* Two ranges of one register: the first was killed before the other       *)
(* began.                                                                  *)
Split ==
  \A i, j \in DOMAIN ranges :
    i < j /\ ranges[i].reg = ranges[j].reg =>
      ranges[i].killed /\ ranges[i].end <= ranges[j].start

AllocInv ==
  /\ stage = "select" => ranges = <<>>
  /\ \A i \in DOMAIN ranges :
       /\ ranges[i].start <= ranges[i].end
       /\ stage = "scan" => ranges[i].end <= pos
       /\ ranges[i].reg \in Physical => ranges[i].alloc = ranges[i].reg
       /\ ranges[i].reg \in Virtual => ~ranges[i].killed
       /\ stage = "scan" /\ ranges[i].reg \in Virtual => ranges[i].alloc = NoRegister
  /\ Split
  /\ AllocDisjoint

(* What the operations are applied to: as many values as they take.        *)
LEMMA OperandsOf ==
  ASSUME TypeInv, NEW n \in Nat, NEW a \in Operands(n)
  PROVE  a \in Seq(Virtual) /\ Len(a) = n /\ Rest(n) \in Seq(Virtual)
<1>1. Base \in Nat
  <2>1. CASE opens = <<>>
    BY <2>1 DEF Base
  <2>2. CASE opens # <<>>
    <3>1. Last(opens) \in [arg : Virtual, merge : Nat, base : Nat]
      BY <2>2, LastIn DEF TypeInv
    <3> QED BY <2>2, <3>1 DEF Base
  <2> QED BY <2>1, <2>2
<1>2. Len(temps) - Base >= n /\ a = SubSeq(temps, Len(temps) - n + 1, Len(temps))
  BY <1>1 DEF Operands, TypeInv
<1>3. n <= Len(temps)
  BY <1>1, <1>2 DEF TypeInv
<1> QED BY <1>2, <1>3 DEF Rest, TypeInv

(* The number of operands an expression takes is a number.                 *)
LEMMA ArityNat == ASSUME NEW kind PROVE Arity(kind) \in Nat
  BY DEF Arity

(* Generating an expression keeps the types.                               *)
LEMMA GenerateType == ASSUME TypeInv, NEW kind \in Selected, Generate(kind) PROVE TypeInv'
<1>1. PICK a \in Operands(Arity(kind)) :
        /\ code' = code \o Emit(Select(kind, Values[used + 1], a), kind, Values[used + 1], a)
        /\ temps' = Append(Rest(Arity(kind)), Values[used + 1])
  BY DEF Generate
<1> DEFINE v == Values[used + 1]
<1>2. v \in Virtual
  BY BackendAssumption DEF Generate, TypeInv
<1>3. a \in Seq(Virtual) /\ Len(a) = Arity(kind) /\ Rest(Arity(kind)) \in Seq(Virtual)
  BY OperandsOf, ArityNat
<1>4. kind \in Kinds /\ kind \in Completions
  BY BackendAssumption DEF Completions
<1> HIDE DEF v
<1>5. Select(kind, v, a) \in Seq(Selection)
  BY <1>2, <1>3, <1>4, SelectType
<1>6. Emit(Select(kind, v, a), kind, v, a) \in Seq(MachInst)
  BY <1>2, <1>3, <1>4, <1>5, EmitType DEF TypeInv
<1>7. code \in Seq(MachInst)
  BY DEF Generate, TypeInv
<1>8. code' \in Seq(MachInst) /\ temps' \in Seq(Virtual)
  BY <1>1, <1>2, <1>3, <1>6, <1>7 DEF v
<1> QED BY <1>8 DEF Generate, TypeInv, AllocTypeOK, scanVars

(* Generating an assignment keeps the types.                               *)
LEMMA AssignType == ASSUME TypeInv, Assign PROVE TypeInv'
<1>1. PICK a \in Operands(2) :
        /\ code' = code \o Emit(SelectStore(a[1], a[2]), "store", NoRegister, a)
        /\ temps' = Append(Rest(2), a[2])
  BY DEF Assign
<1>2. a \in Seq(Virtual) /\ Len(a) = 2 /\ Rest(2) \in Seq(Virtual)
  BY OperandsOf
<1>3. a[1] \in Virtual /\ a[2] \in Virtual
  BY <1>2, PairIn
<1>4. SelectStore(a[1], a[2]) \in Seq(Selection)
  BY <1>3, StoreReturnType
<1>5. Emit(SelectStore(a[1], a[2]), "store", NoRegister, a) \in Seq(MachInst)
  BY <1>2, <1>4, EmitType DEF TypeInv, Completions
<1>6. code \in Seq(MachInst)
  BY DEF Assign, TypeInv
<1>7. code' \in Seq(MachInst) /\ temps' \in Seq(Virtual)
  BY <1>1, <1>2, <1>3, <1>5, <1>6
<1> QED BY <1>7 DEF Assign, TypeInv, AllocTypeOK, scanVars

(* Generating a return keeps the types.                                    *)
LEMMA ReturnType == ASSUME TypeInv, Return PROVE TypeInv'
<1>1. PICK a \in Operands(1) :
        code' = code \o Emit(SelectReturn(a[1]), "ret", NoRegister, a)
  BY DEF Return
<1>2. a \in Seq(Virtual) /\ Len(a) = 1
  BY OperandsOf
<1>3. SelectReturn(a[1]) \in Seq(Selection)
  BY <1>2, StoreReturnType
<1>4. Emit(SelectReturn(a[1]), "ret", NoRegister, a) \in Seq(MachInst)
  BY <1>2, <1>3, EmitType DEF TypeInv, Completions
<1>5. code \in Seq(MachInst)
  BY DEF Return, TypeInv
<1>6. code' \in Seq(MachInst)
  BY <1>1, <1>4, <1>5
<1> QED BY <1>6, EmptySeq DEF Return, TypeInv, AllocTypeOK, scanVars

(* Opening a logical operator keeps the types.                             *)
LEMMA OpenType ==
  ASSUME TypeInv, NEW or \in BOOLEAN, OpenLogical(or) PROVE TypeInv'
<1> DEFINE v        == Values[used + 1]
           right    == blocks + 1
           merge    == blocks + 2
           test(a)  == Emit(<<Inst("test", <<Use(a[1])>>)>>, "test", NoRegister, a)
           Short(b) == Emit(<<Inst("const", <<Use(v)>>)>>, b, v, <<>>)
           jumps    == IF or THEN Short("true") \o <<Jump("jne", merge), Jump("jmp", right)>>
                       ELSE <<Jump("jne", right)>> \o Short("false") \o <<Jump("jmp", merge)>>
<1>1. PICK a \in Operands(1) :
        /\ code' = code \o test(a) \o jumps
        /\ temps' = Rest(1)
        /\ opens' = Append(opens, [arg |-> v, merge |-> merge, base |-> Len(Rest(1))])
        /\ block' = right
  BY DEF OpenLogical
<1>2. a \in Seq(Virtual) /\ Len(a) = 1 /\ Rest(1) \in Seq(Virtual)
  BY OperandsOf
<1>3. v \in Virtual /\ right \in Nat /\ merge \in Nat /\ block \in Nat
  BY BackendAssumption DEF OpenLogical, TypeInv
<1>4. code \in Seq(MachInst)
  BY DEF OpenLogical, TypeInv
<1>5. test(a) \in Seq(MachInst)
  <2>1. Use(a[1]) \in Operand
    BY <1>2, UseType DEF Register
  <2>2. <<Use(a[1])>> \in Seq(Operand)
    BY <2>1, OperandsType
  <2>3. Inst("test", <<Use(a[1])>>) \in Selection
    BY <2>2, InstType DEF Chosen, Mnemonics
  <2>4. <<Inst("test", <<Use(a[1])>>)>> \in Seq(Selection)
    BY <2>3
  <2> QED BY <1>2, <1>3, <2>4, EmitType DEF Completions
<1> HIDE DEF v, right, merge
<1>6. Short("true") \in Seq(MachInst) /\ Short("false") \in Seq(MachInst)
  <2>1. Use(v) \in Operand
    BY <1>3, UseType DEF Register
  <2>2. <<Use(v)>> \in Seq(Operand)
    BY <2>1, OperandsType
  <2>3. Inst("const", <<Use(v)>>) \in Selection
    BY <2>2, InstType DEF Chosen, Mnemonics
  <2>4. <<Inst("const", <<Use(v)>>)>> \in Seq(Selection)
    BY <2>3
  <2>5. <<>> \in Seq(Virtual) /\ "true" \in Completions /\ "false" \in Completions
    BY EmptySeq DEF Completions
  <2> QED BY <1>3, <2>4, <2>5, EmitType
<1>7. /\ Jump("jne", merge) \in MachInst /\ Jump("jmp", right) \in MachInst
      /\ Jump("jne", right) \in MachInst /\ Jump("jmp", merge) \in MachInst
  BY <1>3, JumpType DEF Mnemonics
<1> HIDE DEF test, Short
<1>8. jumps \in Seq(MachInst)
  BY <1>6, <1>7
<1> HIDE DEF jumps
<1>9. code' \in Seq(MachInst)
  BY <1>1, <1>4, <1>5, <1>8
<1>10. opens' \in Seq([arg : Virtual, merge : Nat, base : Nat])
  BY <1>1, <1>2, <1>3 DEF TypeInv
<1> QED BY <1>1, <1>2, <1>3, <1>9, <1>10 DEF OpenLogical, TypeInv, AllocTypeOK, scanVars

(* Closing a logical operator keeps the types.                             *)
LEMMA CloseType == ASSUME TypeInv, CloseLogical PROVE TypeInv'
<1> DEFINE top == Last(opens)
           x   == Last(temps)
           mov == Emit(<<Mov(x, top.arg)>>, "copy", top.arg, <<x>>)
<1>1. top \in [arg : Virtual, merge : Nat, base : Nat]
  BY LastIn DEF CloseLogical, TypeInv
<1>2. x \in Virtual /\ top.base <= Len(temps)
  <2>1. Len(temps) = top.base + 1
    BY DEF CloseLogical
  <2>2. temps # <<>> /\ top.base <= Len(temps)
    BY <1>1, <2>1 DEF TypeInv
  <2> QED BY <2>2, LastIn DEF TypeInv
<1>3. /\ code' = code \o mov \o <<Jump("jmp", top.merge)>>
      /\ temps' = Append(SubSeq(temps, 1, top.base), top.arg)
      /\ block' = top.merge
      /\ opens' = Front(opens)
  BY DEF CloseLogical
<1>4. code \in Seq(MachInst) /\ block \in Nat
  BY DEF CloseLogical, TypeInv
<1> HIDE DEF top, x
<1>5. mov \in Seq(MachInst)
  <2>1. <<Mov(x, top.arg)>> \in Seq(Selection)
    BY <1>1, <1>2, MovType DEF Register
  <2>2. <<x>> \in Seq(Virtual) /\ "copy" \in Completions
    BY <1>2 DEF Completions
  <2> QED BY <1>1, <1>4, <2>1, <2>2, EmitType
<1>6. Jump("jmp", top.merge) \in MachInst
  BY <1>1, <1>4, JumpType DEF Mnemonics
<1> HIDE DEF mov
<1>7. code' \in Seq(MachInst)
  BY <1>3, <1>4, <1>5, <1>6
<1>8. temps' \in Seq(Virtual)
  BY <1>1, <1>2, <1>3 DEF TypeInv
<1>9. opens' \in Seq([arg : Virtual, merge : Nat, base : Nat])
  BY <1>3, LastIn DEF CloseLogical, TypeInv
<1> QED BY <1>1, <1>3, <1>7, <1>8, <1>9 DEF CloseLogical, TypeInv, AllocTypeOK, scanVars

-----------------------------------------------------------------------------
(* The operand a scan is at.                                               *)
LEMMA OperandIn ==
  ASSUME TypeInv, ScanOperand
  PROVE  code[pos].regs[oper] \in Operand
<1>1. code \in Seq(MachInst) /\ pos \in DOMAIN code /\ oper \in DOMAIN code[pos].regs
  BY DEF ScanOperand, TypeInv
<1>2. code[pos] \in MachInst
  BY <1>1
<1>3. code[pos].regs \in Seq(Operand)
  BY <1>2 DEF MachInst
<1> QED BY <1>1, <1>3

(* What ScanOperand does to the ranges.                                    *)
LEMMA ScanCases ==
  ASSUME TypeInv, ScanOperand, NEW op, op = code[pos].regs[oper]
  PROVE  \/ \E i \in DOMAIN ranges :
              /\ Open(i, op.reg)
              /\ ranges' = [ranges EXCEPT ![i].end = pos, ![i].killed = op.kill]
         \/ /\ \A i \in DOMAIN ranges : ~Open(i, op.reg)
            /\ ranges' = Append(ranges, NewRange(op))
  BY DEF ScanOperand

(* Extending a range leaves a sequence of ranges.                          *)
LEMMA ExtendType ==
  ASSUME NEW rs \in Seq(LiveRange), NEW i \in DOMAIN rs, NEW e \in Nat, NEW k \in BOOLEAN
  PROVE  [rs EXCEPT ![i].end = e, ![i].killed = k] \in Seq(LiveRange)
<1> DEFINE r == [rs[i] EXCEPT !.end = e, !.killed = k]
<1>1. rs[i] \in LiveRange
  OBVIOUS
<1>2. r \in LiveRange
  BY <1>1 DEF LiveRange
<1>3. [rs EXCEPT ![i].end = e, ![i].killed = k] = [rs EXCEPT ![i] = r]
  BY <1>1 DEF LiveRange
<1> HIDE DEF r
<1>4. [rs EXCEPT ![i] = r] \in Seq(LiveRange)
  BY <1>2
<1> QED BY <1>3, <1>4

(* Scanning an operand keeps the types of the ranges.                      *)
LEMMA ScanOperandType ==
  ASSUME TypeInv, ScanOperand, UNCHANGED selectVars PROVE TypeInv'
<1> DEFINE op == code[pos].regs[oper]
<1>1. op.reg \in Register /\ op.kill \in BOOLEAN
  BY OperandIn DEF Operand
<1>2. ranges \in Seq(LiveRange) /\ pos \in Nat
  BY DEF TypeInv, AllocTypeOK
<1>3. \/ \E i \in DOMAIN ranges :
           ranges' = [ranges EXCEPT ![i].end = pos, ![i].killed = op.kill]
      \/ ranges' = Append(ranges, NewRange(op))
  BY ScanCases
<1> HIDE DEF op
<1>4. ranges' \in Seq(LiveRange)
  <2>1. NewRange(op) \in LiveRange
    BY <1>1, <1>2 DEF NewRange, LiveRange, Register
  <2>2. CASE \E i \in DOMAIN ranges :
               ranges' = [ranges EXCEPT ![i].end = pos, ![i].killed = op.kill]
    <3>1. PICK i \in DOMAIN ranges :
            ranges' = [ranges EXCEPT ![i].end = pos, ![i].killed = op.kill]
      BY <2>2
    <3>2. [ranges EXCEPT ![i].end = pos, ![i].killed = op.kill] \in Seq(LiveRange)
      BY <1>1, <1>2, ExtendType
    <3> QED BY <3>1, <3>2
  <2>3. CASE ranges' = Append(ranges, NewRange(op))
    <3> DEFINE r == NewRange(op)
    <3> HIDE DEF r
    <3> QED BY <2>1, <2>3, <1>2 DEF r
  <2> QED BY <1>3, <2>2, <2>3
<1>5. oper' = oper + 1 /\ UNCHANGED <<stage, code, pos, next, table>>
  BY DEF ScanOperand
<1> QED BY <1>4, <1>5 DEF TypeInv, AllocTypeOK, selectVars

(* Giving a register of the pool to a range keeps the types.               *)
LEMMA AssignRegisterType ==
  ASSUME TypeInv, AssignRegister, UNCHANGED selectVars PROVE TypeInv'
<1>1. PICK k \in DOMAIN Pool : ranges' = [ranges EXCEPT ![next].alloc = Pool[k]]
  BY DEF AssignRegister
<1>2. Pool[k] \in Physical
  BY RegistersAssumption
<1>3. ranges \in Seq(LiveRange) /\ next \in DOMAIN ranges
  BY DEF AssignRegister, TypeInv, AllocTypeOK
<1>4. ranges[next] \in LiveRange
  BY <1>3
<1>5. [ranges[next] EXCEPT !.alloc = Pool[k]] \in LiveRange
  BY <1>2, <1>4 DEF LiveRange
<1>6. ranges' \in Seq(LiveRange)
  BY <1>1, <1>3, <1>5
<1> QED BY <1>6 DEF AssignRegister, TypeInv, AllocTypeOK, selectVars

-----------------------------------------------------------------------------
(* While ranges are found only physical registers have theirs, and those   *)
(* of one register are split.                                              *)
LEMMA SplitDisjoint ==
  ASSUME NEW rs \in Seq(LiveRange),
         \A i, j \in DOMAIN rs :
           i < j /\ rs[i].reg = rs[j].reg => rs[i].killed /\ rs[i].end <= rs[j].start,
         \A i \in DOMAIN rs :
           /\ rs[i].reg \in Physical => rs[i].alloc = rs[i].reg
           /\ rs[i].reg \in Virtual => rs[i].alloc = NoRegister,
         NEW k \in DOMAIN rs, NEW l \in DOMAIN rs, k # l,
         rs[k].alloc # NoRegister, rs[k].alloc = rs[l].alloc
  PROVE  ~OverlapsBounds(rs[k], rs[l].start, rs[l].end)
<1>1. rs[k] \in LiveRange /\ rs[l] \in LiveRange
  OBVIOUS
<1>2. rs[k].reg = rs[l].reg
  BY <1>1 DEF LiveRange, Register
<1>3. rs[k].end <= rs[l].start \/ rs[l].end <= rs[k].start
  BY <1>2
<1> QED BY <1>1, <1>3 DEF OverlapsBounds, LiveRange

(* An open range of a register is its last: extending it keeps the ranges  *)
(* split.  If there is none, all have been killed before the new one.      *)
LEMMA ScanOperandInv ==
  ASSUME TypeInv, AllocInv, ScanOperand, UNCHANGED selectVars PROVE AllocInv'
<1> DEFINE op == code[pos].regs[oper]
<1>1. op.reg \in Register /\ op.kill \in BOOLEAN /\ (op.kill => op.reg \in Physical)
  BY OperandIn DEF Operand
<1>2. ranges \in Seq(LiveRange) /\ pos \in Nat /\ stage = "scan"
  BY DEF TypeInv, AllocTypeOK, ScanOperand
<1>3. \A i \in DOMAIN ranges : ranges[i] \in LiveRange
  BY <1>2
<1>4. stage' = "scan" /\ pos' = pos
  BY <1>2 DEF ScanOperand
<1>5. \/ \E i \in DOMAIN ranges :
           /\ Open(i, op.reg)
           /\ ranges' = [ranges EXCEPT ![i].end = pos, ![i].killed = op.kill]
      \/ /\ \A i \in DOMAIN ranges : ~Open(i, op.reg)
         /\ ranges' = Append(ranges, NewRange(op))
  BY ScanCases
<1>6. Physical \intersect Virtual = {} /\ NoRegister \notin Physical \union Virtual
  BY RegistersAssumption
<1> HIDE DEF op
<1>7. CASE \E i \in DOMAIN ranges :
             /\ Open(i, op.reg)
             /\ ranges' = [ranges EXCEPT ![i].end = pos, ![i].killed = op.kill]
  <2>1. PICK i \in DOMAIN ranges :
          /\ Open(i, op.reg)
          /\ ranges' = [ranges EXCEPT ![i].end = pos, ![i].killed = op.kill]
    BY <1>7
  <2>2. /\ DOMAIN ranges' = DOMAIN ranges
        /\ \A j \in DOMAIN ranges : j # i => ranges'[j] = ranges[j]
        /\ ranges'[i] = [ranges[i] EXCEPT !.end = pos, !.killed = op.kill]
    BY <2>1, <1>2
  <2>3. /\ ranges'[i].reg = ranges[i].reg /\ ranges'[i].alloc = ranges[i].alloc
        /\ ranges'[i].start = ranges[i].start /\ ranges'[i].end = pos
        /\ ranges'[i].killed = op.kill
    BY <2>2, <1>3 DEF LiveRange
  <2>4. ~ranges[i].killed /\ ranges[i].reg = op.reg
    BY <2>1 DEF Open
  <2>5. \A j \in DOMAIN ranges : j > i => ranges[j].reg # op.reg
    BY <2>4, <1>2 DEF AllocInv, Split
  <2>6. Split'
    <3> SUFFICES ASSUME NEW j \in DOMAIN ranges, NEW k \in DOMAIN ranges, j < k,
                        ranges'[j].reg = ranges'[k].reg
                 PROVE  ranges'[j].killed /\ ranges'[j].end <= ranges'[k].start
      BY <2>2, SMTT(30) DEF Split
    <3>1. j # i
      BY <2>2, <2>3, <2>4, <2>5, <1>2, ZenonT(30)
    <3>2. ranges'[j] = ranges[j] /\ ranges'[k].reg = ranges[k].reg
          /\ ranges'[k].start = ranges[k].start
      BY <3>1, <2>2, <2>3
    <3> QED BY <3>2 DEF AllocInv, Split
  <2>7. \A j \in DOMAIN ranges' :
          /\ ranges'[j].start <= ranges'[j].end
          /\ stage' = "scan" => ranges'[j].end <= pos'
          /\ ranges'[j].reg \in Physical => ranges'[j].alloc = ranges'[j].reg
          /\ ranges'[j].reg \in Virtual => ~ranges'[j].killed
          /\ stage' = "scan" /\ ranges'[j].reg \in Virtual => ranges'[j].alloc = NoRegister
    <3>1. ranges[i].start <= pos
      BY <1>2, <1>3 DEF AllocInv, LiveRange
    <3>2. ASSUME NEW j \in DOMAIN ranges, j # i
          PROVE  /\ ranges'[j].start <= ranges'[j].end
                 /\ ranges'[j].end <= pos
                 /\ ranges'[j].reg \in Physical => ranges'[j].alloc = ranges'[j].reg
                 /\ ranges'[j].reg \in Virtual => ~ranges'[j].killed
                 /\ ranges'[j].reg \in Virtual => ranges'[j].alloc = NoRegister
      BY <3>2, <2>2, <1>2 DEF AllocInv
    <3>3. /\ ranges'[i].start <= ranges'[i].end
          /\ ranges'[i].end <= pos
          /\ ranges'[i].reg \in Physical => ranges'[i].alloc = ranges'[i].reg
          /\ ranges'[i].reg \in Virtual => ranges'[i].alloc = NoRegister
      BY <3>1, <2>3, <1>2 DEF AllocInv
    <3>4. ranges'[i].reg \in Virtual => ~ranges'[i].killed
      BY <2>3, <2>4, <1>1, <1>6
    <3> QED BY <3>2, <3>3, <3>4, <2>2, <1>4
  <2>8. ranges' \in Seq(LiveRange)
    BY ScanOperandType DEF TypeInv, AllocTypeOK
  <2>9. AllocDisjoint'
    BY <2>6, <2>7, <2>8, <1>4, SplitDisjoint DEF Split, AllocDisjoint
  <2> QED BY <2>6, <2>7, <2>9, <1>4 DEF AllocInv
<1>8. CASE /\ \A i \in DOMAIN ranges : ~Open(i, op.reg)
           /\ ranges' = Append(ranges, NewRange(op))
  <2> DEFINE n == Len(ranges) + 1
  <2>1. /\ DOMAIN ranges' = 1..n
        /\ \A j \in DOMAIN ranges : ranges'[j] = ranges[j]
        /\ ranges'[n] = NewRange(op)
    BY <1>8, <1>2
  <2>2. /\ ranges'[n].reg = op.reg /\ ranges'[n].start = pos /\ ranges'[n].end = pos
        /\ ranges'[n].killed = op.kill
        /\ ranges'[n].alloc = IF op.reg \in Physical THEN op.reg ELSE NoRegister
    BY <2>1 DEF NewRange
  <2>3. \A j \in DOMAIN ranges : ranges[j].reg = op.reg => ranges[j].killed
    BY <1>8 DEF Open
  <2>4. \A j \in DOMAIN ranges : ranges[j].end <= pos
    BY <1>2 DEF AllocInv
  <2>5. DOMAIN ranges = 1..Len(ranges) /\ Len(ranges) \in Nat
    BY <1>2
  <2>6. Split'
    BY <2>1, <2>2, <2>3, <2>4, <2>5 DEF AllocInv, Split
  <2>7. \A j \in DOMAIN ranges' :
          /\ ranges'[j].start <= ranges'[j].end
          /\ stage' = "scan" => ranges'[j].end <= pos'
          /\ ranges'[j].reg \in Physical => ranges'[j].alloc = ranges'[j].reg
          /\ ranges'[j].reg \in Virtual => ~ranges'[j].killed
          /\ stage' = "scan" /\ ranges'[j].reg \in Virtual => ranges'[j].alloc = NoRegister
    BY <2>1, <2>2, <2>4, <2>5, <1>1, <1>2, <1>4, <1>6 DEF AllocInv
  <2>8. ranges' \in Seq(LiveRange)
    BY ScanOperandType DEF TypeInv, AllocTypeOK
  <2>9. AllocDisjoint'
    BY <2>6, <2>7, <2>8, <1>4, SplitDisjoint DEF Split, AllocDisjoint
  <2> QED BY <2>6, <2>7, <2>9, <1>4 DEF AllocInv
<1> QED BY <1>5, <1>7, <1>8

(* The register given to a range is one no overlapping range has.          *)
LEMMA AssignRegisterInv ==
  ASSUME TypeInv, AllocInv, AssignRegister, UNCHANGED selectVars PROVE AllocInv'
<1>1. PICK k \in DOMAIN Pool :
        /\ IsAvailable(Pool[k], ranges[next])
        /\ ranges' = [ranges EXCEPT ![next].alloc = Pool[k]]
  BY DEF AssignRegister
<1>2. /\ ranges \in Seq(LiveRange) /\ next \in DOMAIN ranges
      /\ ranges[next].alloc = NoRegister /\ stage' = "assign"
  BY DEF TypeInv, AllocTypeOK, AssignRegister
<1>3. \A i \in DOMAIN ranges : ranges[i] \in LiveRange
  BY <1>2
<1>4. /\ DOMAIN ranges' = DOMAIN ranges
      /\ \A j \in DOMAIN ranges : j # next => ranges'[j] = ranges[j]
      /\ ranges'[next] = [ranges[next] EXCEPT !.alloc = Pool[k]]
  BY <1>1, <1>2
<1>5. ranges'[next].alloc = Pool[k]
  BY <1>2, <1>3, <1>4 DEF LiveRange
<1>6. \A j \in DOMAIN ranges :
        /\ ranges'[j].reg = ranges[j].reg /\ ranges'[j].start = ranges[j].start
        /\ ranges'[j].end = ranges[j].end /\ ranges'[j].killed = ranges[j].killed
  BY <1>2, <1>3, <1>4, SMTT(30) DEF LiveRange
<1>7. ranges[next].reg \notin Physical
  BY <1>2, RegistersAssumption DEF AllocInv
<1>8. Split'
  BY <1>4, <1>6 DEF AllocInv, Split
<1>9. AllocDisjoint'
  <2> SUFFICES ASSUME NEW i \in DOMAIN ranges, NEW j \in DOMAIN ranges, i # j,
                      ranges'[i].alloc # NoRegister, ranges'[i].alloc = ranges'[j].alloc
               PROVE  ~OverlapsBounds(ranges'[i], ranges[j].start, ranges[j].end)
    BY <1>4, <1>6 DEF AllocDisjoint
  <2>1. ranges[i] \in LiveRange /\ ranges[j] \in LiveRange /\ ranges[next] \in LiveRange
    BY <1>3, <1>2
  <2>2. CASE i # next /\ j # next
    BY <2>2, <1>4 DEF AllocInv, AllocDisjoint
  <2>3. CASE i = next
    <3>1. ~OverlapsBounds(ranges[j], ranges[next].start, ranges[next].end)
      BY <2>3, <1>1, <1>4, <1>5 DEF IsAvailable
    <3> QED BY <3>1, <2>1, <2>3, <1>6 DEF OverlapsBounds, LiveRange
  <2>4. CASE j = next
    <3>1. ~OverlapsBounds(ranges[i], ranges[next].start, ranges[next].end)
      BY <2>4, <1>1, <1>4, <1>5 DEF IsAvailable
    <3> QED BY <3>1, <2>4, <1>4
  <2> QED BY <2>2, <2>3, <2>4
<1>10. \A j \in DOMAIN ranges' :
         /\ ranges'[j].start <= ranges'[j].end
         /\ ranges'[j].reg \in Physical => ranges'[j].alloc = ranges'[j].reg
         /\ ranges'[j].reg \in Virtual => ~ranges'[j].killed
  <2>1. ASSUME NEW j \in DOMAIN ranges, ranges[j].reg \in Physical
        PROVE  ranges'[j].alloc = ranges[j].reg
    BY <2>1, <1>4, <1>7 DEF AllocInv
  <2> QED BY <2>1, <1>4, <1>6 DEF AllocInv
<1> QED BY <1>2, <1>8, <1>9, <1>10 DEF AllocInv

(* A virtual register is never killed, so its range is never closed.       *)
LEMMA OneRange == ASSUME TypeInv, AllocInv PROVE OneRangeEach
<1> SUFFICES ASSUME NEW i \in DOMAIN ranges, NEW j \in DOMAIN ranges,
                    ranges[i].reg \in Virtual, ranges[i].reg = ranges[j].reg
             PROVE  i = j
  BY DEF OneRangeEach
<1>1. i \in Nat /\ j \in Nat
  BY DEF TypeInv, AllocTypeOK
<1>2. ~(i < j)
  BY DEF AllocInv, Split
<1>3. ~(j < i)
  BY DEF AllocInv, Split
<1> QED BY <1>1, <1>2, <1>3

(* The register table is filled from the ranges, one for each register.    *)
LEMMA AssignEndsType ==
  ASSUME TypeInv, AllocInv, AssignEnds, UNCHANGED selectVars PROVE TypeInv'
<1>1. ranges \in Seq(LiveRange)
  BY DEF TypeInv, AllocTypeOK
<1>2. ASSUME NEW v \in Virtual, NEW i \in DOMAIN ranges, ranges[i].reg = v
      PROVE  ranges[LastOf(v)].alloc \in Physical \union {NoRegister}
  <2>1. \A j \in (i + 1)..Len(ranges) : ranges[j].reg # v
    <3> SUFFICES ASSUME NEW j \in (i + 1)..Len(ranges), ranges[j].reg = v
                 PROVE  FALSE
      OBVIOUS
    <3>1. j \in DOMAIN ranges /\ i # j
      BY <1>1
    <3> QED BY <3>1, <1>2, OneRange DEF OneRangeEach
  <2>2. LastOf(v) \in DOMAIN ranges
    BY <2>1, <1>2 DEF LastOf
  <2>3. ranges[LastOf(v)] \in LiveRange
    BY <2>2, <1>1
  <2> QED BY <2>3 DEF LiveRange
<1>3. table' \in [Virtual -> Physical \union {NoRegister}]
  <2>1. \A v \in Virtual :
          (IF \E i \in DOMAIN ranges : ranges[i].reg = v
           THEN ranges[LastOf(v)].alloc ELSE NoRegister) \in Physical \union {NoRegister}
    BY <1>2
  <2> QED BY <2>1 DEF AssignEnds
<1> QED BY <1>3 DEF AssignEnds, TypeInv, AllocTypeOK, selectVars

-----------------------------------------------------------------------------
Inv == TypeInv /\ AllocInv

(* The program begins in the invariant.                                    *)
LEMMA InitInv == Init => Inv
<1> SUFFICES ASSUME Init PROVE Inv
  OBVIOUS
<1>1. ranges = <<>> /\ stage = "select" /\ code = <<>> /\ temps = <<>> /\ opens = <<>>
  BY DEF Init, InitAlloc
<1>2. TypeInv
  BY <1>1, EmptySeq DEF Init, InitAlloc, TypeInv, AllocTypeOK
<1>3. DOMAIN ranges = {}
  BY <1>1
<1>4. AllocInv
  BY <1>1, <1>3 DEF AllocInv, Split, AllocDisjoint
<1> QED BY <1>2, <1>4 DEF Inv

(* The allocator's steps one by one.                                       *)
LEMMA AllocateInv == ASSUME Inv, Allocate PROVE Inv'
<1> USE DEF Inv
<1>1. AllocNext /\ UNCHANGED selectVars
  BY DEF Allocate
<1>2. CASE ScanOperand
  BY <1>1, <1>2, ScanOperandType, ScanOperandInv
<1>3. CASE ScanInst
  <2>1. TypeInv'
    BY <1>1, <1>3 DEF ScanInst, TypeInv, AllocTypeOK, selectVars
  <2>2. \A i \in DOMAIN ranges : ranges[i].end \in Nat
    <3>1. \A i \in DOMAIN ranges : ranges[i] \in LiveRange
      BY DEF TypeInv, AllocTypeOK
    <3> QED BY <3>1 DEF LiveRange
  <2>3. pos \in Nat /\ stage = "scan" /\ stage' = "scan" /\ pos' = pos + 1 /\ ranges' = ranges
    BY <1>3 DEF ScanInst, TypeInv, AllocTypeOK
  <2>4. Split' /\ AllocDisjoint'
    BY <2>3 DEF AllocInv, Split, AllocDisjoint
  <2> QED BY <2>1, <2>2, <2>3, <2>4 DEF AllocInv
<1>4. CASE ScanEnds
  BY <1>1, <1>4 DEF ScanEnds, TypeInv, AllocTypeOK, selectVars, AllocInv, Split, AllocDisjoint
<1>5. CASE KeepRegister
  BY <1>1, <1>5 DEF KeepRegister, TypeInv, AllocTypeOK, selectVars, AllocInv, Split, AllocDisjoint
<1>6. CASE AssignRegister
  BY <1>1, <1>6, AssignRegisterType, AssignRegisterInv
<1>7. CASE AssignFails
  BY <1>1, <1>7 DEF AssignFails, TypeInv, AllocTypeOK, selectVars, AllocInv, Split, AllocDisjoint
<1>8. CASE AssignEnds
  <2>1. AllocInv'
    BY <1>8 DEF AssignEnds, AllocInv, Split, AllocDisjoint
  <2> QED BY <2>1, <1>1, <1>8, AssignEndsType
<1>9. CASE PlaceSpills
  BY <1>1, <1>9 DEF PlaceSpills, TypeInv, AllocTypeOK, selectVars, AllocInv, Split, AllocDisjoint
<1> QED BY <1>1, <1>2, <1>3, <1>4, <1>5, <1>6, <1>7, <1>8, <1>9 DEF AllocNext

(* What selects instructions finds no ranges and makes none.               *)
LEMMA SelectInv ==
  ASSUME AllocInv, stage = "select", ranges' = ranges, stage' \in {"select", "scan"}
  PROVE  AllocInv'
<1>1. ranges' = <<>> /\ DOMAIN ranges' = {}
  BY DEF AllocInv
<1> QED BY <1>1 DEF AllocInv, Split, AllocDisjoint

(* Every step keeps the invariant.                                         *)
LEMMA StepInv == Inv /\ [Next]_vars => Inv'
<1> SUFFICES ASSUME Inv, [Next]_vars PROVE Inv'
  OBVIOUS
<1> USE DEF Inv
<1>1. CASE \E kind \in Selected : Generate(kind)
  <2>1. PICK kind \in Selected : Generate(kind)
    BY <1>1
  <2> QED BY <2>1, GenerateType, SelectInv DEF Generate
<1>2. CASE Assign
  BY <1>2, AssignType, SelectInv DEF Assign
<1>3. CASE Discard
  <2>1. TypeInv'
    BY <1>3, EmptySeq DEF Discard, TypeInv, AllocTypeOK, allocVars
  <2> QED BY <1>3, <2>1, SelectInv DEF Discard, allocVars
<1>4. CASE \E or \in BOOLEAN : OpenLogical(or)
  <2>1. PICK or \in BOOLEAN : OpenLogical(or)
    BY <1>4
  <2> QED BY <2>1, OpenType, SelectInv DEF OpenLogical
<1>5. CASE CloseLogical
  BY <1>5, CloseType, SelectInv DEF CloseLogical
<1>6. CASE Return
  BY <1>6, ReturnType, SelectInv DEF Return
<1>7. CASE Allocate
  BY <1>7, AllocateInv
<1>8. CASE Run
  BY <1>8 DEF Run, TypeInv, AllocTypeOK, scanVars, selectVars, AllocInv, Split, AllocDisjoint
<1>9. CASE UNCHANGED <<allocVars, selectVars>>
  BY <1>9 DEF TypeInv, AllocTypeOK, allocVars, selectVars, AllocInv, Split, AllocDisjoint
<1>10. CASE Execute
  BY <1>9, <1>10 DEF Execute
<1>11. CASE UNCHANGED vars
  BY <1>9, <1>11 DEF vars
<1> QED
  BY <1>1, <1>2, <1>3, <1>4, <1>5, <1>6, <1>7, <1>8, <1>10, <1>11 DEF Next

(* RegisterAnalysis keeps its state well formed: for any function, every   *)
(* range is of a register and holds a physical one or none, and so does    *)
(* the table.                                                              *)
THEOREM AllocTypeCorrect == Spec => []AllocTypeOK
<1>1. Inv => AllocTypeOK
  BY DEF Inv, TypeInv
<1> QED BY <1>1, InitInv, StepInv, PTL DEF Spec

(* The allocator never gives one register to two ranges that overlap, for  *)
(* any register file, pool and function.                                   *)
THEOREM AllocDisjointCorrect == Spec => []AllocDisjoint
<1>1. Inv => AllocDisjoint
  BY DEF Inv, AllocInv
<1> QED BY <1>1, InitInv, StepInv, PTL DEF Spec

(* Every virtual register has a single range, so the register table, which *)
(* holds one register for each, is right for all its uses.                 *)
THEOREM OneRangeEachCorrect == Spec => []OneRangeEach
<1>1. Inv => OneRangeEach
  BY OneRange DEF Inv
<1> QED BY <1>1, InitInv, StepInv, PTL DEF Spec
-----------------------------------------------------------------------------
(* Where the scan is, and what it has seen.                                *)
ScanPlace ==
  /\ stage = "select" => pos = 1 /\ oper = 1
  /\ stage = "scan" =>
       /\ pos \in 1..(Len(code) + 1)
       /\ oper >= 1
       /\ pos \in DOMAIN code => oper <= Len(code[pos].regs) + 1

Seen(p, n) == stage = "scan" => p < pos \/ (p = pos /\ n < oper)

(* A range does not go on over a kill of its register: it ended there,     *)
(* killed, or began there or after it.                                     *)
Spares(r, p) == (r.killed /\ r.end <= p) \/ r.start >= p

KillInv ==
  stage \in {"scan", "assign"} =>
    \A p \in DOMAIN code : \A n \in DOMAIN code[p].regs :
      code[p].regs[n].kill /\ Seen(p, n) =>
        \A i \in DOMAIN ranges :
          ranges[i].reg = code[p].regs[n].reg => Spares(ranges[i], p)

(* The code is a sequence of instructions with operands at every place.    *)
LEMMA CodeAt ==
  ASSUME TypeInv, stage \in {"select", "scan", "assign", "spill"}, NEW p \in DOMAIN code
  PROVE  /\ code[p].regs \in Seq(Operand)
         /\ DOMAIN code[p].regs = 1..Len(code[p].regs)
         /\ \A n \in DOMAIN code[p].regs : code[p].regs[n] \in Operand
<1>1. code \in Seq(MachInst)
  BY DEF TypeInv
<1>2. code[p] \in MachInst
  BY <1>1
<1>3. code[p].regs \in Seq(Operand)
  BY <1>2 DEF MachInst
<1> QED BY <1>3

(* The positions of the code are the first numbers.                        *)
LEMMA Positions ==
  ASSUME TypeInv, stage \in {"select", "scan", "assign", "spill"}
  PROVE  /\ DOMAIN code = 1..Len(code)
         /\ Len(code) \in Nat
         /\ pos \in Nat /\ oper \in Nat
<1>1. code \in Seq(MachInst)
  BY DEF TypeInv
<1> QED BY <1>1 DEF TypeInv, AllocTypeOK

(* The scan goes over the operands of every instruction in their order.    *)
LEMMA ScanPlaceStep == ASSUME Inv, ScanPlace, [Next]_vars PROVE ScanPlace'
<1> USE DEF Inv
<1>1. CASE stage = "select" /\ pos' = pos /\ oper' = oper /\ stage' \in {"select", "scan"}
  <2>1. Len(code') \in Nat /\ (1 \in DOMAIN code' => Len(code'[1].regs) \in Nat)
    <3>1. TypeInv'
      BY StepInv
    <3>2. code' \in Seq(MachInst)
      BY <1>1, <3>1 DEF TypeInv
    <3>3. 1 \in DOMAIN code' => code'[1] \in MachInst
      BY <3>2
    <3>4. 1 \in DOMAIN code' => code'[1].regs \in Seq(Operand)
      BY <3>3 DEF MachInst
    <3> QED BY <3>2, <3>4
  <2> QED BY <1>1, <2>1 DEF ScanPlace
<1>2. CASE ScanOperand
  <2>1. pos \in Nat /\ oper \in Nat /\ DOMAIN code[pos].regs = 1..Len(code[pos].regs)
    BY <1>2, CodeAt, Positions DEF ScanOperand
  <2>2. /\ stage = "scan" /\ stage' = "scan" /\ code' = code /\ pos' = pos
        /\ oper' = oper + 1 /\ oper \in DOMAIN code[pos].regs
    BY <1>2 DEF ScanOperand
  <2> QED BY <2>1, <2>2 DEF ScanPlace
<1>3. CASE ScanInst
  <2>1. DOMAIN code = 1..Len(code) /\ Len(code) \in Nat /\ pos \in Nat
    BY <1>3, Positions DEF ScanInst
  <2>2. pos + 1 \in DOMAIN code => Len(code[pos + 1].regs) \in Nat
    <3>1. pos + 1 \in DOMAIN code => code[pos + 1].regs \in Seq(Operand)
      BY <1>3, CodeAt DEF ScanInst
    <3> QED BY <3>1
  <2> QED BY <1>3, <2>1, <2>2 DEF ScanInst, ScanPlace
<1>4. CASE stage' \notin {"select", "scan"}
  BY <1>4 DEF ScanPlace
<1>5. CASE UNCHANGED <<stage, code, pos, oper>>
  BY <1>5 DEF ScanPlace
<1>6. CASE Allocate
  <2>1. AllocNext
    BY <1>6 DEF Allocate
  <2>2. CASE KeepRegister \/ AssignRegister
    BY <2>2, <1>5 DEF KeepRegister, AssignRegister
  <2>3. CASE ScanEnds \/ AssignFails \/ AssignEnds \/ PlaceSpills
    BY <2>3, <1>4 DEF ScanEnds, AssignFails, AssignEnds, PlaceSpills
  <2> QED BY <2>1, <2>2, <2>3, <1>2, <1>3 DEF AllocNext
<1>7. CASE \E kind \in Selected : Generate(kind)
  BY <1>7, <1>1 DEF Generate, scanVars
<1>8. CASE Assign \/ (\E or \in BOOLEAN : OpenLogical(or)) \/ CloseLogical \/ Return
  BY <1>8, <1>1 DEF Assign, OpenLogical, CloseLogical, Return, scanVars
<1>9. CASE Discard \/ Execute \/ UNCHANGED vars
  BY <1>9, <1>5 DEF Discard, Execute, vars, allocVars
<1>10. CASE Run
  BY <1>10, <1>4 DEF Run
<1> QED
  BY <1>6, <1>7, <1>8, <1>9, <1>10 DEF Next

(* An operand that is scanned extends the open range of its register, all  *)
(* others of which were killed, or begins one where it stands.             *)
LEMMA ScanOperandKills ==
  ASSUME Inv, ScanPlace, KillInv, ScanOperand PROVE KillInv'
<1> USE DEF Inv
<1> DEFINE op == code[pos].regs[oper]
<1>1. /\ stage = "scan" /\ stage' = "scan" /\ code' = code /\ pos' = pos
      /\ oper' = oper + 1 /\ pos \in DOMAIN code /\ oper \in DOMAIN code[pos].regs
  BY DEF ScanOperand
<1>2. /\ ranges \in Seq(LiveRange) /\ pos \in Nat /\ oper \in Nat
      /\ DOMAIN code = 1..Len(code) /\ Len(code) \in Nat
  BY <1>1, Positions DEF TypeInv, AllocTypeOK
<1>3. \A i \in DOMAIN ranges :
        /\ ranges[i] \in LiveRange
        /\ ranges[i].start \in Nat /\ ranges[i].end \in Nat /\ ranges[i].end <= pos
  <2>1. \A i \in DOMAIN ranges : ranges[i] \in LiveRange
    BY <1>2
  <2> QED BY <2>1, <1>1 DEF AllocInv, LiveRange
<1>4. \A i, j \in DOMAIN ranges :
        i < j /\ ranges[i].reg = ranges[j].reg => ranges[i].killed
  BY DEF AllocInv, Split
<1>5. DOMAIN ranges = 1..Len(ranges) /\ Len(ranges) \in Nat
  BY <1>2
<1> SUFFICES ASSUME NEW p \in DOMAIN code, NEW n \in DOMAIN code[p].regs,
                    code[p].regs[n].kill, Seen(p, n)',
                    NEW i \in DOMAIN ranges', ranges'[i].reg = code[p].regs[n].reg
             PROVE  Spares(ranges'[i], p)
  BY <1>1 DEF KillInv
<1>6. p \in Nat /\ n \in Nat
  BY <1>1, <1>2, CodeAt
<1>7. Seen(p, n) \/ (p = pos /\ n = oper)
  BY <1>1, <1>2, <1>6 DEF Seen
<1>8. p <= pos
  BY <1>1, <1>2, <1>6 DEF Seen
<1>9. \A j \in DOMAIN ranges :
        Seen(p, n) /\ ranges[j].reg = code[p].regs[n].reg => Spares(ranges[j], p)
  BY <1>1 DEF KillInv
<1>10. ASSUME NEW j \in DOMAIN ranges, ranges[j].reg = code[p].regs[n].reg,
              ranges[j].killed
       PROVE  Spares(ranges[j], p)
  <2>1. CASE p = pos /\ n = oper
    BY <2>1, <1>3, <1>10 DEF Spares
  <2> QED BY <2>1, <1>7, <1>9, <1>10
<1>11. ASSUME NEW k \in DOMAIN ranges, Open(k, op.reg),
              ranges' = [ranges EXCEPT ![k].end = pos, ![k].killed = op.kill]
       PROVE  Spares(ranges'[i], p)
  <2>1. /\ DOMAIN ranges' = DOMAIN ranges
        /\ \A j \in DOMAIN ranges : j # k => ranges'[j] = ranges[j]
    BY <1>11, <1>2
  <2>2. /\ ranges'[k].reg = ranges[k].reg /\ ranges'[k].start = ranges[k].start
        /\ ranges'[k].end = pos /\ ranges'[k].killed = op.kill
    BY <1>11, <1>2, <1>3 DEF LiveRange
  <2>3. ~ranges[k].killed /\ ranges[k].reg = op.reg
    BY <1>11 DEF Open
  <2>4. CASE i = k
    <3>1. CASE p = pos /\ n = oper
      BY <3>1, <2>4, <2>2, <1>2 DEF Spares
    <3>2. CASE Seen(p, n)
      <4>1. Spares(ranges[k], p)
        BY <3>2, <2>4, <2>2, <1>9
      <4>2. ranges[k].start >= p
        BY <4>1, <2>3 DEF Spares
      <4> QED BY <4>2, <2>2, <2>4 DEF Spares
    <3> QED BY <3>1, <3>2, <1>7
  <2>5. CASE i # k
    <3>1. i \in DOMAIN ranges /\ ranges'[i] = ranges[i]
      BY <2>5, <2>1
    <3>2. CASE ranges[i].killed
      BY <3>1, <3>2, <1>10
    <3>3. CASE ~ranges[i].killed
      <4>1. CASE p = pos /\ n = oper
        <5>1. ranges[i].reg = ranges[k].reg
          BY <4>1, <3>1, <2>3
        <5>2. i < k \/ k < i
          BY <2>5, <3>1, <1>5
        <5> QED BY <5>1, <5>2, <3>1, <3>3, <2>3, <1>4
      <4> QED BY <4>1, <3>1, <1>7, <1>9
    <3> QED BY <3>2, <3>3
  <2> QED BY <2>4, <2>5
<1>12. ASSUME \A k \in DOMAIN ranges : ~Open(k, op.reg),
              ranges' = Append(ranges, NewRange(op))
       PROVE  Spares(ranges'[i], p)
  <2>1. CASE i \in DOMAIN ranges
    <3>1. ranges'[i] = ranges[i]
      BY <2>1, <1>12, <1>2
    <3>2. CASE p = pos /\ n = oper
      <4>1. ranges[i].killed
        BY <3>1, <3>2, <2>1, <1>12 DEF Open
      <4> QED BY <4>1, <3>1, <2>1, <1>10
    <3> QED BY <3>1, <3>2, <2>1, <1>7, <1>9
  <2>2. CASE i = Len(ranges) + 1
    <3>1. ranges'[i] = NewRange(op)
      BY <2>2, <1>12, <1>2
    <3> QED BY <3>1, <1>8 DEF NewRange, Spares
  <2> QED BY <2>1, <2>2, <1>12, <1>2
<1> QED BY <1>11, <1>12 DEF ScanOperand

(* Every step keeps the kills where the scan left them.                    *)
LEMMA KillStep == ASSUME Inv, ScanPlace, KillInv, [Next]_vars PROVE KillInv'
<1> USE DEF Inv
<1>1. CASE ranges = <<>> /\ ranges' = ranges
  <2>1. DOMAIN ranges' = {}
    BY <1>1
  <2> QED BY <2>1 DEF KillInv
<1>2. CASE stage = "select"
  <2>1. ranges = <<>>
    BY <1>2 DEF AllocInv
  <2>2. ranges' = ranges
    BY <1>2 DEF Next, Generate, Assign, Discard, OpenLogical, CloseLogical, Return,
                Allocate, AllocNext, ScanOperand, ScanInst, ScanEnds, KeepRegister,
                AssignRegister, AssignFails, AssignEnds, PlaceSpills, Run, Execute,
                vars, allocVars
  <2> QED BY <1>1, <2>1, <2>2
<1>3. CASE ScanOperand
  BY <1>3, ScanOperandKills
<1>4. CASE ScanInst
  <2>1. /\ stage = "scan" /\ code' = code /\ pos' = pos + 1 /\ ranges' = ranges
        /\ pos \in DOMAIN code /\ oper \notin DOMAIN code[pos].regs /\ stage' = "scan"
        /\ oper' = 1
    BY <1>4 DEF ScanInst
  <2>2. pos \in Nat /\ oper \in Nat /\ oper >= 1 /\ oper <= Len(code[pos].regs) + 1
    BY <2>1, Positions DEF ScanPlace
  <2>3. DOMAIN code[pos].regs = 1..Len(code[pos].regs)
        /\ Len(code[pos].regs) \in Nat
    <3>1. code[pos].regs \in Seq(Operand)
      BY <2>1, CodeAt
    <3> QED BY <3>1
  <2>4. oper = Len(code[pos].regs) + 1
    BY <2>1, <2>2, <2>3
  <2>5. ASSUME NEW p \in DOMAIN code, NEW n \in DOMAIN code[p].regs, Seen(p, n)'
        PROVE  Seen(p, n)
    <3>1. p \in Nat /\ n \in 1..Len(code[p].regs)
      BY <2>1, CodeAt, Positions
    <3>2. p < pos + 1 \/ (p = pos + 1 /\ n < 1)
      BY <2>1, <2>5 DEF Seen
    <3>3. n >= 1
      BY <3>1
    <3>4. p = pos => n < oper
      BY <3>1, <2>3, <2>4
    <3> QED BY <3>1, <3>2, <3>3, <3>4, <2>2 DEF Seen
  <2> QED BY <2>1, <2>5 DEF KillInv
<1>5. CASE ScanEnds
  <2>1. /\ stage = "scan" /\ code' = code /\ ranges' = ranges /\ pos \notin DOMAIN code
    BY <1>5 DEF ScanEnds
  <2>2. DOMAIN code = 1..Len(code) /\ Len(code) \in Nat /\ pos \in 1..(Len(code) + 1)
    BY <2>1, Positions DEF ScanPlace
  <2>3. \A p \in DOMAIN code : p < pos
    BY <2>1, <2>2
  <2>4. \A p \in DOMAIN code : \A n \in DOMAIN code[p].regs : Seen(p, n)
    BY <2>3 DEF Seen
  <2> QED BY <2>1, <2>4 DEF KillInv
<1>6. CASE AssignRegister
  <2>1. /\ stage = "assign" /\ stage' = "assign" /\ code' = code /\ pos' = pos /\ oper' = oper
        /\ next \in DOMAIN ranges /\ ranges \in Seq(LiveRange)
    BY <1>6 DEF AssignRegister, TypeInv, AllocTypeOK
  <2>2. PICK k \in DOMAIN Pool : ranges' = [ranges EXCEPT ![next].alloc = Pool[k]]
    BY <1>6 DEF AssignRegister
  <2>3. \A j \in DOMAIN ranges : ranges[j] \in LiveRange
    BY <2>1
  <2>4. /\ DOMAIN ranges' = DOMAIN ranges
        /\ \A j \in DOMAIN ranges :
             /\ ranges'[j].reg = ranges[j].reg /\ ranges'[j].start = ranges[j].start
             /\ ranges'[j].end = ranges[j].end /\ ranges'[j].killed = ranges[j].killed
    BY <2>1, <2>2, <2>3, SMTT(30) DEF LiveRange
  <2> QED BY <2>1, <2>4 DEF KillInv, Seen, Spares
<1>7. CASE stage \in {"scan", "assign"} /\ UNCHANGED <<stage, code, pos, oper, ranges>>
  BY <1>7 DEF KillInv, Seen
<1>8. CASE stage' \notin {"scan", "assign"}
  BY <1>8 DEF KillInv
<1>9. CASE Allocate
  <2>1. AllocNext
    BY <1>9 DEF Allocate
  <2>2. CASE KeepRegister
    BY <2>2, <1>7 DEF KeepRegister
  <2>3. CASE AssignFails \/ AssignEnds \/ PlaceSpills
    BY <2>3, <1>8 DEF AssignFails, AssignEnds, PlaceSpills
  <2> QED BY <2>1, <2>2, <2>3, <1>3, <1>4, <1>5, <1>6 DEF AllocNext
<1>10. CASE Run \/ Execute
  BY <1>10, <1>8 DEF Run, Execute, allocVars
<1>11. CASE UNCHANGED vars
  BY <1>11, <1>7, <1>8 DEF vars, allocVars
<1>12. CASE stage # "select" /\ Next
  BY <1>12, <1>9, <1>10 DEF Next, Generate, Assign, Discard, OpenLogical, CloseLogical, Return
<1> QED BY <1>2, <1>11, <1>12

(* Where an instruction kills a physical register, no range of it goes on, *)
(* for any function the selector can emit: the allocator may give it away  *)
(* from there.                                                             *)
THEOREM KillsSplitCorrect == Spec => []KillsSplit
<1> DEFINE All == Inv /\ ScanPlace /\ KillInv
<1>1. Init => All
  <2> SUFFICES ASSUME Init PROVE All
    OBVIOUS
  <2>1. stage = "select" /\ pos = 1 /\ oper = 1
    BY DEF Init, InitAlloc
  <2> QED BY <2>1, InitInv DEF ScanPlace, KillInv
<1>2. All /\ [Next]_vars => All'
  BY StepInv, ScanPlaceStep, KillStep
<1>3. All => KillsSplit
  <2> SUFFICES ASSUME All, stage = "assign", NEW p \in DOMAIN code,
                      NEW n \in DOMAIN code[p].regs, code[p].regs[n].kill,
                      NEW i \in DOMAIN ranges, ranges[i].reg = code[p].regs[n].reg
               PROVE  ~Covers(ranges[i], p)
    BY DEF KillsSplit
  <2>1. Spares(ranges[i], p)
    BY DEF KillInv, Seen
  <2>2. ranges[i].start \in Nat /\ ranges[i].end \in Nat /\ p \in Nat
    <3>1. ranges[i] \in LiveRange
      BY DEF Inv, TypeInv, AllocTypeOK
    <3> QED BY <3>1, Positions DEF LiveRange, Inv
  <2> QED BY <2>1, <2>2 DEF Spares, Covers
<1> HIDE DEF All
<1> QED BY <1>1, <1>2, <1>3, PTL DEF Spec

-----------------------------------------------------------------------------
(* Putting sequences together, and the spills.                             *)

(* flat[i] is the first i of the sequences put together, up to n of them.  *)
FlatOf(seqs, n, flat) ==
  flat = [i \in 1..n |-> IF i = 1 THEN seqs[i] ELSE flat[i - 1] \o seqs[i]]

(* What a function that is as FlattenSeq defines it says of its places.    *)
LEMMA FlatSteps ==
  ASSUME NEW seqs, NEW n \in Nat, NEW flat, FlatOf(seqs, n, flat)
  PROVE  \A i \in 1..n : flat[i] = IF i = 1 THEN seqs[i] ELSE flat[i - 1] \o seqs[i]
<1> DEFINE rhs(i) == IF i = 1 THEN seqs[i] ELSE flat[i - 1] \o seqs[i]
<1>1. flat = [i \in 1..n |-> rhs(i)]
  BY DEF FlatOf
<1> HIDE DEF rhs
<1>2. \A i \in 1..n : flat[i] = rhs(i)
  BY <1>1
<1> QED BY <1>2 DEF rhs

(* There is such a function for every length.                              *)
LEMMA FlatExists ==
  ASSUME NEW seqs, NEW n \in Nat
  PROVE  \E flat : FlatOf(seqs, n, flat)
<1> DEFINE T == {k \in Nat : ~ \E flat : FlatOf(seqs, k, flat)}
<1>1. CASE T = {}
  BY <1>1
<1>2. CASE T # {}
  <2>1. PICK m \in T : \A k \in T : m <= k
    <3> HIDE DEF T
    <3>1. T \in SUBSET Nat
      BY DEF T
    <3> QED BY <1>2, <3>1, Least
  <2>2. CASE m = 0
    <3>1. FlatOf(seqs, 0, [k \in 1..0 |-> << >>])
      BY DEF FlatOf
    <3> QED BY <2>1, <2>2, <3>1
  <2>3. CASE m # 0
    <3>1. m - 1 \in Nat /\ m - 1 \notin T
      BY <2>1, <2>3
    <3>2. PICK g : FlatOf(seqs, m - 1, g)
      BY <3>1
    <3> DEFINE last == IF m = 1 THEN seqs[m] ELSE g[m - 1] \o seqs[m]
               f == [k \in 1..m |-> IF k = m THEN last ELSE g[k]]
               rhs(k) == IF k = 1 THEN seqs[k] ELSE f[k - 1] \o seqs[k]
    <3>3. \A k \in 1..m : f[k] = IF k = m THEN last ELSE g[k]
      OBVIOUS
    <3>4. \A k \in 1..(m - 1) : g[k] = IF k = 1 THEN seqs[k] ELSE g[k - 1] \o seqs[k]
      BY <3>1, <3>2, FlatSteps
    <3>5. \A k \in 1..m : f[k] = rhs(k)
      <4> SUFFICES ASSUME NEW k \in 1..m PROVE f[k] = rhs(k)
        OBVIOUS
      <4> HIDE DEF f, last
      <4>1. m \in Nat
        BY <2>1
      <4>2. CASE k = m
        <5>1. k # 1 => f[k - 1] = g[k - 1]
          BY <4>1, <4>2, <3>3
        <5> QED BY <4>1, <4>2, <3>3, <5>1 DEF last
      <4>3. CASE k # m
        <5>1. k \in 1..(m - 1) /\ (k # 1 => k - 1 \in 1..m /\ k - 1 # m)
          BY <4>1, <4>3
        <5>2. f[k] = g[k] /\ (k # 1 => f[k - 1] = g[k - 1])
          BY <5>1, <3>3, <4>3
        <5> QED BY <5>1, <5>2, <3>4
      <4> QED BY <4>2, <4>3
    <3>6. f = [k \in 1..m |-> rhs(k)]
      <4> HIDE DEF rhs
      <4>1. f = [k \in 1..m |-> f[k]]
        OBVIOUS
      <4> HIDE DEF f
      <4> QED BY <3>5, <4>1
    <3>7. FlatOf(seqs, m, f)
      <4> HIDE DEF f
      <4> QED BY <3>6 DEF FlatOf
    <3> QED BY <3>7, <2>1
  <2> QED BY <2>2, <2>3
<1> QED BY <1>1, <1>2

(* FlattenSeq puts sequences together one after the other.                 *)
LEMMA FlattenIs ==
  ASSUME NEW S, NEW seqs \in Seq(Seq(S))
  PROVE  \E flat \in [0..Len(seqs) -> Seq(S)] :
           /\ flat[0] = << >>
           /\ \A k \in 1..Len(seqs) : flat[k] = flat[k - 1] \o seqs[k]
           /\ FlattenSeq(seqs) = flat[Len(seqs)]
<1> DEFINE n == Len(seqs)
           g == CHOOSE g : FlatOf(seqs, n, g)
           f == [k \in 0..n |-> IF k = 0 THEN << >> ELSE g[k]]
<1>1. n \in Nat /\ DOMAIN seqs = 1..n /\ \A k \in 1..n : seqs[k] \in Seq(S)
  OBVIOUS
<1>2. FlatOf(seqs, n, g)
  BY <1>1, FlatExists
<1>3. n # 0 => FlattenSeq(seqs) = g[n]
  BY Zenon DEF FlattenSeq, FlatOf
<1>4. n = 0 => FlattenSeq(seqs) = << >>
  <2>1. n = 0 => FlattenSeq(seqs) = seqs
    BY Zenon DEF FlattenSeq
  <2>2. n = 0 => seqs = << >>
    OBVIOUS
  <2> QED BY <2>1, <2>2
<1> HIDE DEF g, n
<1>5. \A k \in 1..n : g[k] = IF k = 1 THEN seqs[k] ELSE g[k - 1] \o seqs[k]
  BY <1>1, <1>2, FlatSteps
<1>6. f[0] = << >> /\ \A k \in 1..n : f[k] = g[k]
  BY <1>1
<1> HIDE DEF f
<1>7. \A k \in 1..n : f[k] = f[k - 1] \o seqs[k]
  <2> SUFFICES ASSUME NEW k \in 1..n PROVE f[k] = f[k - 1] \o seqs[k]
    OBVIOUS
  <2>1. CASE k = 1
    <3>1. << >> \o seqs[k] = seqs[k]
      BY <1>1
    <3> QED BY <2>1, <3>1, <1>1, <1>5, <1>6
  <2>2. CASE k # 1
    <3>1. k - 1 \in 1..n
      BY <1>1, <2>2
    <3> QED BY <2>2, <3>1, <1>5, <1>6
  <2> QED BY <2>1, <2>2
<1> DEFINE T == {k \in 0..n : f[k] \notin Seq(S)}
<1>8. T = {}
  <2> SUFFICES ASSUME T # {} PROVE FALSE
    OBVIOUS
  <2>1. PICK m \in T : \A k \in T : m <= k
    <3>1. T \in SUBSET Nat
      BY <1>1
    <3> HIDE DEF T
    <3> QED BY <3>1, Least
  <2>2. m # 0
    BY <2>1, <1>6, EmptySeq
  <2>3. m - 1 \in 0..n /\ m - 1 \notin T /\ m \in 1..n
    BY <1>1, <2>1, <2>2
  <2>4. f[m - 1] \in Seq(S) /\ seqs[m] \in Seq(S)
    BY <2>3, <1>1
  <2>5. f[m] \in Seq(S)
    <3>1. f[m] = f[m - 1] \o seqs[m]
      BY <2>3, <1>7
    <3>2. f[m - 1] \o seqs[m] \in Seq(S)
      BY <2>4
    <3> QED BY <3>1, <3>2
  <2> QED BY <2>1, <2>5
<1>9. f \in [0..n -> Seq(S)]
  <2>1. \A k \in 0..n : f[k] \in Seq(S)
    BY <1>8
  <2> HIDE DEF T
  <2>2. f = [k \in 0..n |-> f[k]]
    BY DEF f
  <2> QED BY <2>1, <2>2
<1>10. FlattenSeq(seqs) = f[n]
  BY <1>1, <1>3, <1>4, <1>6
<1> QED BY <1>6, <1>7, <1>9, <1>10 DEF n

-----------------------------------------------------------------------------
(* How much is on the stack at each place of code, the one after it        *)
(* included: nothing where it is entered and left, where a block begins,   *)
(* and at every instruction but a call and the spills around it.           *)
Depths(s, d) ==
  /\ d \in [1..(Len(s) + 1) -> Nat]
  /\ d[1] = 0
  /\ d[Len(s) + 1] = 0
  /\ \A p \in DOMAIN s :
       /\ s[p].op = "push" => d[p + 1] = d[p] + 1
       /\ s[p].op = "pop" => d[p] = d[p + 1] + 1
       /\ s[p].op \notin {"push", "pop"} => d[p + 1] = d[p]
       /\ s[p].op \notin {"push", "call", "pop"} => d[p] = 0
       /\ (\A q \in 1..(p - 1) : s[q].block # s[p].block) => d[p] = 0

(* The places of an instruction between as many before it as behind.       *)
LEMMA AroundIs ==
  ASSUME NEW a \in Seq(MachInst), NEW c \in MachInst, NEW b \in Seq(MachInst),
         NEW n \in Nat, Len(a) = n, Len(b) = n
  PROVE  LET g == a \o <<c>> \o b
         IN  /\ g \in Seq(MachInst) /\ Len(g) = 2 * n + 1 /\ DOMAIN g = 1..(2 * n + 1)
             /\ \A q \in 1..n : g[q] = a[q]
             /\ g[n + 1] = c
             /\ \A q \in 1..n : g[n + 1 + q] = b[q]
<1> DEFINE h == a \o <<c>>
<1>1. /\ h \in Seq(MachInst) /\ Len(h) = n + 1
      /\ \A q \in 1..n : h[q] = a[q]
      /\ h[n + 1] = c
  OBVIOUS
<1> HIDE DEF h
<1>2. /\ h \o b \in Seq(MachInst) /\ Len(h \o b) = 2 * n + 1
      /\ \A q \in 1..(n + 1) : (h \o b)[q] = h[q]
      /\ \A q \in 1..n : (h \o b)[n + 1 + q] = b[q]
  BY <1>1
<1>3. DOMAIN (h \o b) = 1..(2 * n + 1)
  BY <1>2
<1>4. n + 1 \in 1..(n + 1) /\ \A q \in 1..n : q \in 1..(n + 1)
  OBVIOUS
<1> QED BY <1>1, <1>2, <1>3, <1>4 DEF h

(* What follows code whose depths are known can be put after it.           *)
LEMMA DepthsJoin ==
  ASSUME NEW s \in Seq(MachInst), NEW g \in Seq(MachInst),
         NEW d, NEW e, Depths(s, d), Depths(g, e)
  PROVE  \E f : Depths(s \o g, f)
<1> DEFINE n == Len(s)
           m == Len(g)
           t == s \o g
           f == [p \in 1..(n + m + 1) |-> IF p <= n THEN d[p] ELSE e[p - n]]
<1>1. /\ n \in Nat /\ m \in Nat /\ Len(t) = n + m
      /\ DOMAIN s = 1..n /\ DOMAIN g = 1..m /\ DOMAIN t = 1..(n + m)
  OBVIOUS
<1>2. /\ \A p \in 1..n : t[p] = s[p]
      /\ \A p \in 1..m : t[n + p] = g[p]
  OBVIOUS
<1>3. /\ d \in [1..(n + 1) -> Nat] /\ d[1] = 0 /\ d[n + 1] = 0
      /\ e \in [1..(m + 1) -> Nat] /\ e[1] = 0 /\ e[m + 1] = 0
  BY DEF Depths
<1>4. \A p \in 1..(n + m + 1) : f[p] = IF p <= n THEN d[p] ELSE e[p - n]
  OBVIOUS
<1> HIDE DEF t, f
<1>5. \A p \in 1..(n + 1) : f[p] = d[p]
  BY <1>1, <1>3, <1>4
<1>6. \A p \in 1..(m + 1) : f[n + p] = e[p]
  BY <1>1, <1>3, <1>4
<1>7. f \in [1..(Len(t) + 1) -> Nat]
  <2>1. \A p \in 1..(n + m + 1) : f[p] \in Nat
    <3> SUFFICES ASSUME NEW p \in 1..(n + m + 1) PROVE f[p] \in Nat
      OBVIOUS
    <3>1. CASE p <= n
      <4>1. p \in 1..(n + 1) /\ f[p] = d[p]
        BY <1>1, <1>4, <3>1
      <4> QED BY <4>1, <1>3
    <3>2. CASE ~(p <= n)
      <4>1. p - n \in 1..(m + 1) /\ f[p] = e[p - n]
        BY <1>1, <1>4, <3>2
      <4> QED BY <4>1, <1>3
    <3> QED BY <3>1, <3>2
  <2>2. f = [p \in 1..(n + m + 1) |-> f[p]]
    BY DEF f
  <2> QED BY <2>1, <2>2, <1>1
<1>8. f[1] = 0 /\ f[Len(t) + 1] = 0
  <2>1. f[1] = 0
    BY <1>1, <1>3, <1>5
  <2>2. f[n + (m + 1)] = 0
    BY <1>1, <1>3, <1>6
  <2> QED BY <1>1, <2>1, <2>2
<1>9. ASSUME NEW p \in DOMAIN t
      PROVE  /\ t[p].op = "push" => f[p + 1] = f[p] + 1
             /\ t[p].op = "pop" => f[p] = f[p + 1] + 1
             /\ t[p].op \notin {"push", "pop"} => f[p + 1] = f[p]
             /\ t[p].op \notin {"push", "call", "pop"} => f[p] = 0
             /\ (\A q \in 1..(p - 1) : t[q].block # t[p].block) => f[p] = 0
  <2>1. CASE p \in 1..n
    <3>1. t[p] = s[p] /\ f[p] = d[p] /\ f[p + 1] = d[p + 1] /\ p \in DOMAIN s
      BY <2>1, <1>1, <1>2, <1>5
    <3>2. \A q \in 1..(p - 1) : t[q] = s[q]
      BY <2>1, <1>1, <1>2
    <3>3. /\ s[p].op = "push" => d[p + 1] = d[p] + 1
          /\ s[p].op = "pop" => d[p] = d[p + 1] + 1
          /\ s[p].op \notin {"push", "pop"} => d[p + 1] = d[p]
          /\ s[p].op \notin {"push", "call", "pop"} => d[p] = 0
          /\ (\A q \in 1..(p - 1) : s[q].block # s[p].block) => d[p] = 0
      BY <3>1 DEF Depths
    <3>4. (\A q \in 1..(p - 1) : t[q].block # t[p].block) =>
            \A q \in 1..(p - 1) : s[q].block # s[p].block
      BY <3>1, <3>2
    <3> QED BY <3>1, <3>3, <3>4
  <2>2. CASE p \notin 1..n
    <3>1. PICK k \in 1..m : p = n + k
      <4>1. p - n \in 1..m /\ p = n + (p - n)
        BY <2>2, <1>1
      <4> QED BY <4>1
    <3>2. t[p] = g[k] /\ f[p] = e[k] /\ f[p + 1] = e[k + 1] /\ k \in DOMAIN g
      <4>1. f[n + (k + 1)] = e[k + 1]
        BY <1>1, <1>6
      <4> QED BY <3>1, <4>1, <1>1, <1>2, <1>6
    <3>3. \A q \in 1..(k - 1) : n + q \in 1..(p - 1) /\ t[n + q] = g[q]
      BY <3>1, <1>1, <1>2
    <3>4. (\A q \in 1..(p - 1) : t[q].block # t[p].block) =>
            \A q \in 1..(k - 1) : g[q].block # g[k].block
      BY <3>2, <3>3
    <3>5. /\ g[k].op = "push" => e[k + 1] = e[k] + 1
          /\ g[k].op = "pop" => e[k] = e[k + 1] + 1
          /\ g[k].op \notin {"push", "pop"} => e[k + 1] = e[k]
          /\ g[k].op \notin {"push", "call", "pop"} => e[k] = 0
          /\ (\A q \in 1..(k - 1) : g[q].block # g[k].block) => e[k] = 0
      BY <3>2 DEF Depths
    <3> QED BY <3>2, <3>4, <3>5
  <2> QED BY <2>1, <2>2
<1>10. Depths(t, f)
  BY <1>7, <1>8, <1>9 DEF Depths
<1> QED BY <1>10 DEF t

(* What is spilled are registers of the machine.                           *)
LEMMA SpilledType ==
  ASSUME TypeInv, NEW p
  PROVE  Spilled(p) \in Seq(Physical)
<1> DEFINE each == [i \in DOMAIN ranges |->
                     IF Covers(ranges[i], p) /\ ranges[i].alloc \in CallerSaved
                     THEN <<ranges[i].alloc>> ELSE << >>]
<1>1. DOMAIN ranges = 1..Len(ranges) /\ Len(ranges) \in Nat
  BY DEF TypeInv, AllocTypeOK
<1>2. \A i \in DOMAIN ranges : each[i] \in Seq(Physical)
  <2> SUFFICES ASSUME NEW i \in DOMAIN ranges PROVE each[i] \in Seq(Physical)
    OBVIOUS
  <2>1. << >> \in Seq(Physical)
    BY EmptySeq
  <2>2. ranges[i].alloc \in CallerSaved => <<ranges[i].alloc>> \in Seq(Physical)
    BY RegistersAssumption
  <2> QED BY <2>1, <2>2
<1>3. each \in Seq(Seq(Physical))
  <2>1. each = [i \in 1..Len(ranges) |-> each[i]]
    BY <1>1
  <2> HIDE DEF each
  <2> QED BY <1>1, <1>2, <2>1
<1>4. Spilled(p) = FlattenSeq(each)
  BY DEF Spilled
<1> HIDE DEF each
<1>5. PICK flat \in [0..Len(each) -> Seq(Physical)] : FlattenSeq(each) = flat[Len(each)]
  BY <1>3, FlattenIs
<1>6. Len(each) \in 0..Len(each)
  BY <1>3
<1> QED BY <1>4, <1>5, <1>6

(* A push, and a pop, are instructions of the block of the call.           *)
LEMMA PushPopType ==
  ASSUME NEW call \in MachInst, NEW reg \in Physical
  PROVE  /\ Push(call, reg) \in MachInst /\ Pop(call, reg) \in MachInst
         /\ Push(call, reg).op = "push" /\ Pop(call, reg).op = "pop"
         /\ Push(call, reg).block = call.block /\ Pop(call, reg).block = call.block
<1> DEFINE o == [reg |-> reg, kill |-> FALSE]
<1>1. <<o>> \in Seq(Operand)
  <2>1. o \in Operand
    BY DEF Operand, Register
  <2> HIDE DEF o
  <2> QED BY <2>1
<1>2. /\ Push(call, reg) = [call EXCEPT !.op = "push", !.regs = <<o>>]
      /\ Pop(call, reg) = [call EXCEPT !.op = "pop", !.regs = <<o>>]
  BY DEF Push, Pop
<1> HIDE DEF o
<1> QED BY <1>1, <1>2 DEF MachInst, Mnemonics

(* What replaces an instruction: instructions of its block, itself and     *)
(* spills, whose depths are known.                                         *)
LEMMA SurroundIs ==
  ASSUME TypeInv, stage = "spill", NEW p \in DOMAIN code,
         code[p].op \notin {"push", "pop"}
  PROVE  /\ Surround(p) \in Seq(MachInst)
         /\ \E q \in DOMAIN Surround(p) : Surround(p)[q] = code[p]
         /\ \A q \in DOMAIN Surround(p) :
              /\ Surround(p)[q].block = code[p].block
              /\ Surround(p)[q].op \in {"push", "pop"} \/ Surround(p)[q] = code[p]
         /\ \E e : Depths(Surround(p), e)
<1> DEFINE spill  == Spilled(p)
           pushes == [i \in DOMAIN spill |-> Push(code[p], spill[i])]
           pops   == [i \in DOMAIN spill |-> Pop(code[p], spill[i])]
           n == Len(spill)
           g == Surround(p)
<1>1. code[p] \in MachInst
  BY DEF TypeInv
<1>2. spill \in Seq(Physical) /\ n \in Nat /\ DOMAIN spill = 1..n
  BY SpilledType
<1>3. g = IF code[p].op = "call" THEN pushes \o <<code[p]>> \o pops ELSE <<code[p]>>
  BY DEF Surround
<1> HIDE DEF g, spill, n
<1>4. \A i \in 1..n : pushes[i] \in MachInst /\ pushes[i].op = "push"
                      /\ pushes[i].block = code[p].block
                      /\ pops[i] \in MachInst /\ pops[i].op = "pop"
                      /\ pops[i].block = code[p].block
  BY <1>1, <1>2, PushPopType
<1>5. pushes \in Seq(MachInst) /\ pops \in Seq(MachInst) /\ Len(pushes) = n /\ Len(pops) = n
  <2>1. pushes = [i \in 1..n |-> pushes[i]] /\ pops = [i \in 1..n |-> pops[i]]
    BY <1>2
  <2> HIDE DEF pushes, pops
  <2>2. pushes \in Seq(MachInst) /\ Len(pushes) = n
    BY <1>2, <1>4, <2>1
  <2>3. pops \in Seq(MachInst) /\ Len(pops) = n
    BY <1>2, <1>4, <2>1
  <2> QED BY <2>2, <2>3
<1> HIDE DEF pushes, pops
<1>6. CASE code[p].op # "call"
  <2>1. g = <<code[p]>> /\ g \in Seq(MachInst) /\ DOMAIN g = 1..1 /\ Len(g) = 1 /\ g[1] = code[p]
    BY <1>1, <1>3, <1>6
  <2> DEFINE e == [q \in 1..(Len(g) + 1) |-> 0]
  <2>2. \A q \in 1..2 : e[q] = 0
    BY <2>1
  <2>3. e \in [1..(Len(g) + 1) -> Nat]
    OBVIOUS
  <2> HIDE DEF e
  <2>4. Depths(g, e)
    BY <2>1, <2>2, <2>3 DEF Depths
  <2> QED BY <2>1, <2>4 DEF g
<1>7. CASE code[p].op = "call"
  <2>1. g = pushes \o <<code[p]>> \o pops
    BY <1>3, <1>7
  <2>2. /\ g \in Seq(MachInst) /\ Len(g) = 2 * n + 1 /\ DOMAIN g = 1..(2 * n + 1)
        /\ \A q \in 1..n : g[q] = pushes[q]
        /\ g[n + 1] = code[p]
        /\ \A q \in 1..n : g[n + 1 + q] = pops[q]
    BY <1>1, <1>2, <1>5, <2>1, AroundIs, SMTT(30)
  <2>3. \A q \in DOMAIN g : q \in 1..n \/ q = n + 1 \/ \E r \in 1..n : q = n + 1 + r
    <3> SUFFICES ASSUME NEW q \in 1..(2 * n + 1), q \notin 1..n, q # n + 1
                 PROVE  \E r \in 1..n : q = n + 1 + r
      BY <2>2
    <3>1. q - (n + 1) \in 1..n /\ q = n + 1 + (q - (n + 1))
      BY <1>2
    <3> QED BY <3>1
  <2>4. \A q \in DOMAIN g :
          /\ g[q].block = code[p].block
          /\ g[q].op \in {"push", "pop"} \/ g[q] = code[p]
    BY <1>4, <2>2, <2>3
  <2>5. n + 1 \in DOMAIN g
    BY <1>2, <2>2
  <2> DEFINE e == [q \in 1..(2 * n + 2) |-> IF q <= n + 1 THEN q - 1 ELSE 2 * n + 2 - q]
  <2>6. \A q \in 1..(2 * n + 2) : e[q] = IF q <= n + 1 THEN q - 1 ELSE 2 * n + 2 - q
    OBVIOUS
  <2>7. e \in [1..(Len(g) + 1) -> Nat]
    <3>1. \A q \in 1..(2 * n + 2) : e[q] \in Nat
      BY <1>2
    <3>2. Len(g) + 1 = 2 * n + 2
      BY <1>2, <2>2
    <3> QED BY <3>1, <3>2
  <2> HIDE DEF e
  <2>8. e[1] = 0 /\ e[Len(g) + 1] = 0
    <3>1. 1 \in 1..(2 * n + 2) /\ 2 * n + 2 \in 1..(2 * n + 2) /\ Len(g) + 1 = 2 * n + 2
      BY <1>2, <2>2
    <3> QED BY <3>1, <2>6, <1>2
  <2>9. ASSUME NEW q \in DOMAIN g
        PROVE  /\ g[q].op = "push" => e[q + 1] = e[q] + 1
               /\ g[q].op = "pop" => e[q] = e[q + 1] + 1
               /\ g[q].op \notin {"push", "pop"} => e[q + 1] = e[q]
               /\ g[q].op \notin {"push", "call", "pop"} => e[q] = 0
               /\ (\A r \in 1..(q - 1) : g[r].block # g[q].block) => e[q] = 0
    <3>1. q \in 1..(2 * n + 2) /\ q + 1 \in 1..(2 * n + 2) /\ q \in Nat
      BY <1>2, <2>2
    <3>2. (\A r \in 1..(q - 1) : g[r].block # g[q].block) => q = 1
      <4>1. ASSUME q # 1 PROVE 1 \in 1..(q - 1) /\ 1 \in DOMAIN g
        BY <3>1, <4>1, <1>2, <2>2
      <4> QED BY <4>1, <2>4
    <3>3. CASE q \in 1..n
      <4>1. g[q].op = "push"
        BY <3>3, <1>4, <2>2
      <4>2. e[q] = q - 1 /\ e[q + 1] = q
        BY <3>1, <3>3, <2>6, <1>2
      <4> QED BY <3>1, <3>2, <4>1, <4>2
    <3>4. CASE q = n + 1
      <4>1. g[q].op = "call"
        BY <3>4, <1>7, <2>2
      <4>2. e[q] = n /\ e[q + 1] = n
        <5>1. q <= n + 1 /\ ~(q + 1 <= n + 1) /\ q - 1 = n /\ 2 * n + 2 - (q + 1) = n
          BY <3>4, <1>2
        <5>2. e[q] = q - 1
          BY <3>1, <2>6, <5>1
        <5>3. e[q + 1] = 2 * n + 2 - (q + 1)
          BY <3>1, <2>6, <5>1
        <5> QED BY <5>1, <5>2, <5>3
      <4>3. q = 1 => e[q] = 0
        BY <2>8
      <4> QED BY <3>2, <4>1, <4>2, <4>3
    <3>5. CASE \E r \in 1..n : q = n + 1 + r
      <4>1. PICK r \in 1..n : q = n + 1 + r
        BY <3>5
      <4>2. g[q].op = "pop"
        BY <4>1, <1>4, <2>2
      <4>3. e[q] = 2 * n + 2 - q /\ e[q + 1] = 2 * n + 2 - (q + 1)
        BY <3>1, <4>1, <2>6, <1>2
      <4>4. q # 1 /\ 2 * n + 2 - q = (2 * n + 2 - (q + 1)) + 1
        BY <4>1, <1>2
      <4> QED BY <3>2, <4>2, <4>3, <4>4
    <3> QED BY <2>3, <3>3, <3>4, <3>5
  <2>10. Depths(g, e)
    BY <2>7, <2>8, <2>9 DEF Depths
  <2> QED BY <2>2, <2>4, <2>5, <2>10 DEF g
<1> QED BY <1>6, <1>7

-----------------------------------------------------------------------------
(* Every block that is jumped to has an instruction.                       *)
Lands(c) ==
  \A p \in DOMAIN c :
    c[p].op \in {"jmp", "jne"} => \E q \in DOMAIN c : c[q].block = c[p].target

(* An element of two sequences put together is of one or the other.        *)
LEMMA JoinElements ==
  ASSUME NEW s \in Seq(MachInst), NEW g \in Seq(MachInst)
  PROVE  /\ \A q \in DOMAIN (s \o g) :
              \/ \E r \in DOMAIN s : (s \o g)[q] = s[r]
              \/ \E r \in DOMAIN g : (s \o g)[q] = g[r]
         /\ \A r \in DOMAIN s : \E q \in DOMAIN (s \o g) : (s \o g)[q] = s[r]
         /\ \A r \in DOMAIN g : \E q \in DOMAIN (s \o g) : (s \o g)[q] = g[r]
<1> DEFINE t == s \o g
           n == Len(s)
           m == Len(g)
<1>1. /\ n \in Nat /\ m \in Nat /\ DOMAIN s = 1..n /\ DOMAIN g = 1..m
      /\ DOMAIN t = 1..(n + m)
      /\ \A q \in 1..n : t[q] = s[q]
      /\ \A q \in 1..m : t[n + q] = g[q]
  OBVIOUS
<1> HIDE DEF t, n, m
<1>2. \A q \in DOMAIN t : (\E r \in DOMAIN s : t[q] = s[r]) \/ \E r \in DOMAIN g : t[q] = g[r]
  <2> SUFFICES ASSUME NEW q \in 1..(n + m)
               PROVE  (\E r \in 1..n : t[q] = s[r]) \/ \E r \in 1..m : t[q] = g[r]
    BY <1>1
  <2>1. CASE q <= n
    BY <1>1, <2>1
  <2>2. CASE ~(q <= n)
    <3>1. q - n \in 1..m /\ q = n + (q - n)
      BY <1>1, <2>2
    <3> QED BY <3>1, <1>1
  <2> QED BY <2>1, <2>2
<1>3. \A r \in DOMAIN s : r \in DOMAIN t /\ t[r] = s[r]
  BY <1>1
<1>4. \A r \in DOMAIN g : n + r \in DOMAIN t /\ t[n + r] = g[r]
  BY <1>1
<1> QED BY <1>2, <1>3, <1>4 DEF t

(* The code with its spills is typed and has depths, and its jumps land if *)
(* those of the code did.                                                  *)
LEMMA PlaceDepths ==
  ASSUME TypeInv, PlaceSpills, Lands(code),
         \A p \in DOMAIN code : code[p].op \notin {"push", "pop"}
  PROVE  /\ code' \in Seq(MachInst)
         /\ \E d : Depths(code', d)
         /\ Lands(code')
<1> DEFINE seqs == [p \in DOMAIN code |-> Surround(p)]
           n == Len(seqs)
<1>1. stage = "spill" /\ code' = FlattenSeq(seqs)
  BY DEF PlaceSpills
<1>2. code \in Seq(MachInst) /\ DOMAIN code = 1..Len(code) /\ Len(code) \in Nat
  BY <1>1 DEF TypeInv
<1>3. \A p \in DOMAIN code :
        /\ Surround(p) \in Seq(MachInst)
        /\ \E q \in DOMAIN Surround(p) : Surround(p)[q] = code[p]
        /\ \A q \in DOMAIN Surround(p) :
             Surround(p)[q].op \in {"push", "pop"} \/ Surround(p)[q] = code[p]
        /\ \E e : Depths(Surround(p), e)
  BY <1>1, SurroundIs
<1>4. seqs \in Seq(Seq(MachInst)) /\ n = Len(code)
  <2>1. seqs = [p \in 1..Len(code) |-> Surround(p)]
    BY <1>2
  <2> HIDE DEF seqs
  <2> QED BY <1>2, <1>3, <2>1
<1>5. \A p \in 1..n : seqs[p] = Surround(p)
  BY <1>2, <1>4
<1> HIDE DEF seqs
<1>6. PICK flat \in [0..n -> Seq(MachInst)] :
        /\ flat[0] = << >>
        /\ \A k \in 1..n : flat[k] = flat[k - 1] \o seqs[k]
        /\ FlattenSeq(seqs) = flat[n]
  BY <1>4, FlattenIs
<1>7. n \in Nat
  BY <1>4, <1>2
<1> HIDE DEF n
<1> DEFINE P(k) == /\ \E d : Depths(flat[k], d)
                   /\ \A p \in 1..k : \E q \in DOMAIN flat[k] : flat[k][q] = code[p]
                   /\ \A q \in DOMAIN flat[k] :
                        \/ flat[k][q].op \in {"push", "pop"}
                        \/ \E p \in 1..k : flat[k][q] = code[p]
           T == {k \in 0..n : ~P(k)}
<1>8. P(0)
  <2>1. DOMAIN flat[0] = {} /\ Len(flat[0]) = 0 /\ 1..0 = {}
    BY <1>6
  <2>2. Depths(flat[0], [p \in 1..1 |-> 0])
    BY <2>1 DEF Depths
  <2> QED BY <2>1, <2>2
<1>9. ASSUME NEW k \in 1..n, P(k - 1) PROVE P(k)
  <2> DEFINE s == flat[k - 1]
             g == seqs[k]
             t == flat[k]
  <2>1. t = s \o g /\ s \in Seq(MachInst) /\ g = Surround(k) /\ k \in DOMAIN code
    <3>1. k - 1 \in 0..n
      BY <1>7
    <3> QED BY <3>1, <1>2, <1>4, <1>5, <1>6
  <2>2. /\ g \in Seq(MachInst)
        /\ \E q \in DOMAIN g : g[q] = code[k]
        /\ \A q \in DOMAIN g : g[q].op \in {"push", "pop"} \/ g[q] = code[k]
        /\ \E e : Depths(g, e)
    BY <2>1, <1>3
  <2>3. /\ \E d : Depths(s, d)
        /\ \A p \in 1..(k - 1) : \E q \in DOMAIN s : s[q] = code[p]
        /\ \A q \in DOMAIN s : \/ s[q].op \in {"push", "pop"}
                               \/ \E p \in 1..(k - 1) : s[q] = code[p]
    BY <1>9
  <2> HIDE DEF s, g, t
  <2>4. \E f : Depths(t, f)
    BY <2>1, <2>2, <2>3, DepthsJoin
  <2>5. /\ \A q \in DOMAIN t : \/ \E r \in DOMAIN s : t[q] = s[r]
                               \/ \E r \in DOMAIN g : t[q] = g[r]
        /\ \A r \in DOMAIN s : \E q \in DOMAIN t : t[q] = s[r]
        /\ \A r \in DOMAIN g : \E q \in DOMAIN t : t[q] = g[r]
    <3>1. /\ \A q \in DOMAIN (s \o g) :
                \/ \E r \in DOMAIN s : (s \o g)[q] = s[r]
                \/ \E r \in DOMAIN g : (s \o g)[q] = g[r]
          /\ \A r \in DOMAIN s : \E q \in DOMAIN (s \o g) : (s \o g)[q] = s[r]
          /\ \A r \in DOMAIN g : \E q \in DOMAIN (s \o g) : (s \o g)[q] = g[r]
      BY <2>1, <2>2, JoinElements
    <3> QED BY <2>1, <3>1, Zenon
  <2>6. /\ \A p \in 1..k : p \in 1..(k - 1) \/ p = k
        /\ \A p \in 1..(k - 1) : p \in 1..k
        /\ k \in 1..k
    BY <1>7
  <2>7. \A p \in 1..k : \E q \in DOMAIN t : t[q] = code[p]
    BY <2>2, <2>3, <2>5, <2>6
  <2>8. \A q \in DOMAIN t : t[q].op \in {"push", "pop"} \/ \E p \in 1..k : t[q] = code[p]
    BY <2>2, <2>3, <2>5, <2>6
  <2> QED BY <2>4, <2>7, <2>8 DEF t
<1> HIDE DEF P
<1>10. T = {}
  <2> SUFFICES ASSUME T # {} PROVE FALSE
    OBVIOUS
  <2>1. PICK m \in T : \A k \in T : m <= k
    <3>1. T \in SUBSET Nat
      BY <1>7
    <3> HIDE DEF T
    <3> QED BY <3>1, Least
  <2>2. m # 0 /\ m \in 0..n /\ ~P(m)
    BY <2>1, <1>8
  <2>3. m - 1 \in 0..n /\ m - 1 \notin T /\ m \in 1..n
    BY <1>7, <2>1, <2>2
  <2>4. P(m - 1)
    BY <2>3
  <2> QED BY <2>2, <2>3, <2>4, <1>9
<1>11. P(n)
  <2>1. n \in 0..n
    BY <1>7
  <2> SUFFICES ASSUME ~P(n) PROVE FALSE
    OBVIOUS
  <2>2. n \in T
    BY <2>1
  <2> QED BY <1>10, <2>2
<1> HIDE DEF T
<1>12. code' = flat[n] /\ code' \in Seq(MachInst)
  BY <1>1, <1>6, <1>7
<1>13. /\ \E d : Depths(code', d)
       /\ \A p \in 1..n : \E q \in DOMAIN code' : code'[q] = code[p]
       /\ \A q \in DOMAIN code' : \/ code'[q].op \in {"push", "pop"}
                                  \/ \E p \in 1..n : code'[q] = code[p]
  BY <1>11, <1>12, Zenon DEF P
<1>14. Lands(code')
  <2> SUFFICES ASSUME NEW q \in DOMAIN code', code'[q].op \in {"jmp", "jne"}
               PROVE  \E r \in DOMAIN code' : code'[r].block = code'[q].target
    BY DEF Lands
  <2>1. PICK p \in 1..n : code'[q] = code[p]
    BY <1>13
  <2>2. PICK r \in DOMAIN code : code[r].block = code[p].target
    BY <2>1, <1>2, <1>4 DEF Lands, n
  <2>3. PICK u \in DOMAIN code' : code'[u] = code[r]
    BY <2>2, <1>2, <1>4, <1>13
  <2> QED BY <2>1, <2>2, <2>3
<1> QED BY <1>12, <1>13, <1>14

-----------------------------------------------------------------------------
(* Instructions of block b that are no spills and jump to blocks of to.    *)
Fresh(e, b, to) ==
  /\ e \in Seq(MachInst)
  /\ \A q \in DOMAIN e :
       /\ e[q].op \notin {"push", "pop"}
       /\ e[q].block = b
       /\ e[q].op \in {"jmp", "jne"} => e[q].target \in to

(* What is generated in pieces is as its pieces are.                       *)
LEMMA FreshJoin ==
  ASSUME NEW b, NEW to, NEW s, NEW g, Fresh(s, b, to), Fresh(g, b, to)
  PROVE  Fresh(s \o g, b, to)
<1>1. s \in Seq(MachInst) /\ g \in Seq(MachInst)
  BY DEF Fresh
<1>2. s \o g \in Seq(MachInst)
  BY <1>1
<1>3. \A q \in DOMAIN (s \o g) :
         \/ \E r \in DOMAIN s : (s \o g)[q] = s[r]
         \/ \E r \in DOMAIN g : (s \o g)[q] = g[r]
  BY <1>1, JoinElements
<1> DEFINE t == s \o g
<1> HIDE DEF t
<1>4. t \in Seq(MachInst) /\ \A q \in DOMAIN t : (\E r \in DOMAIN s : t[q] = s[r])
                                              \/ \E r \in DOMAIN g : t[q] = g[r]
  BY <1>2, <1>3 DEF t
<1>5. Fresh(t, b, to)
  BY <1>4 DEF Fresh
<1> QED BY <1>5 DEF t

(* The selection placed in the block is fresh and jumps nowhere.           *)
LEMMA EmitFresh ==
  ASSUME NEW insts \in Seq(Selection), NEW kind \in Completions,
         NEW v \in Virtual \union {NoRegister}, NEW a \in Seq(Virtual), block \in Nat, NEW to
  PROVE  Fresh(Emit(insts, kind, v, a), block, to) /\ Len(Emit(insts, kind, v, a)) = Len(insts)
<1> DEFINE e == Emit(insts, kind, v, a)
<1>1. e \in Seq(MachInst)
  BY EmitType
<1>2. DOMAIN e = DOMAIN insts /\ \A q \in DOMAIN insts : e[q].op = insts[q].op /\ e[q].block = block
  BY DEF Emit, Place
<1> HIDE DEF e
<1>3. \A q \in DOMAIN insts : insts[q].op \in Chosen
  <2>1. \A q \in DOMAIN insts : insts[q] \in Selection
    OBVIOUS
  <2> QED BY <2>1 DEF Selection
<1>4. \A q \in DOMAIN e : e[q].op \notin {"push", "pop", "jmp", "jne"} /\ e[q].block = block
  BY <1>2, <1>3 DEF Chosen
<1>5. Fresh(e, block, to)
  BY <1>1, <1>4 DEF Fresh
<1>6. Len(e) = Len(insts)
  BY <1>1, <1>2
<1> QED BY <1>5, <1>6 DEF e

(* A jump is fresh if its target is one of to.                             *)
LEMMA JumpFresh ==
  ASSUME NEW op \in {"jmp", "jne"}, NEW target \in Nat, block \in Nat, NEW to, target \in to
  PROVE  Fresh(<<Jump(op, target)>>, block, to)
<1>1. Jump(op, target) \in MachInst
  BY JumpType DEF Mnemonics
<1>2. Jump(op, target).op = op /\ Jump(op, target).block = block /\ Jump(op, target).target = target
  BY DEF Jump, Place, Inst
<1> DEFINE j == Jump(op, target)
<1> HIDE DEF j
<1>3. Fresh(<<j>>, block, to)
  BY <1>1, <1>2 DEF Fresh, j
<1> QED BY <1>3 DEF j

(* What an operation appends to the code.                                  *)
LEMMA GenerateAdds ==
  ASSUME TypeInv, NEW kind \in Selected, Generate(kind), NEW to
  PROVE  \E e : Fresh(e, block, to) /\ code' = code \o e
<1>1. PICK a \in Operands(Arity(kind)) :
        code' = code \o Emit(Select(kind, Values[used + 1], a), kind, Values[used + 1], a)
  BY DEF Generate
<1> DEFINE v == Values[used + 1]
<1>2. v \in Virtual /\ block \in Nat
  BY BackendAssumption DEF Generate, TypeInv
<1>3. a \in Seq(Virtual) /\ Len(a) = Arity(kind)
  BY OperandsOf, ArityNat
<1>4. kind \in Kinds /\ kind \in Completions
  BY BackendAssumption DEF Completions
<1> HIDE DEF v
<1>5. Select(kind, v, a) \in Seq(Selection)
  BY <1>2, <1>3, <1>4, SelectType
<1>6. Fresh(Emit(Select(kind, v, a), kind, v, a), block, to)
  BY <1>2, <1>3, <1>4, <1>5, EmitFresh
<1> QED BY <1>1, <1>6 DEF v

(* What an assignment appends to the code.                                 *)
LEMMA AssignAdds ==
  ASSUME TypeInv, Assign, NEW to
  PROVE  \E e : Fresh(e, block, to) /\ code' = code \o e
<1>1. PICK a \in Operands(2) :
        code' = code \o Emit(SelectStore(a[1], a[2]), "store", NoRegister, a)
  BY DEF Assign
<1>2. a \in Seq(Virtual) /\ Len(a) = 2 /\ block \in Nat
  BY OperandsOf DEF TypeInv
<1>3. a[1] \in Virtual /\ a[2] \in Virtual
  BY <1>2, PairIn
<1>4. SelectStore(a[1], a[2]) \in Seq(Selection)
  BY <1>3, StoreReturnType
<1>5. Fresh(Emit(SelectStore(a[1], a[2]), "store", NoRegister, a), block, to)
  BY <1>2, <1>4, EmitFresh DEF Completions
<1> QED BY <1>1, <1>5

(* What a return appends to the code.                                      *)
LEMMA ReturnAdds ==
  ASSUME TypeInv, Return, NEW to
  PROVE  \E e : Fresh(e, block, to) /\ e # << >> /\ code' = code \o e
<1>1. PICK a \in Operands(1) :
        code' = code \o Emit(SelectReturn(a[1]), "ret", NoRegister, a)
  BY DEF Return
<1>2. a \in Seq(Virtual) /\ Len(a) = 1 /\ block \in Nat
  BY OperandsOf DEF TypeInv
<1>3. SelectReturn(a[1]) \in Seq(Selection) /\ Len(SelectReturn(a[1])) = 2
  BY <1>2, StoreReturnType DEF SelectReturn
<1> DEFINE e == Emit(SelectReturn(a[1]), "ret", NoRegister, a)
<1>4. Fresh(e, block, to) /\ Len(e) = 2
  BY <1>2, <1>3, EmitFresh DEF Completions
<1> HIDE DEF e
<1>5. e # << >>
  BY <1>4
<1> QED BY <1>1, <1>4, <1>5 DEF e

(* The selection of one instruction is a selection.                        *)
LEMMA OneType ==
  ASSUME NEW op \in Chosen, NEW r \in Register
  PROVE  <<Inst(op, <<Use(r)>>)>> \in Seq(Selection) /\ Len(<<Inst(op, <<Use(r)>>)>>) = 1
<1>1. Use(r) \in Operand
  BY UseType
<1>2. <<Use(r)>> \in Seq(Operand)
  BY <1>1, OperandsType
<1>3. Inst(op, <<Use(r)>>) \in Selection
  BY <1>2, InstType
<1> QED BY <1>3

(* What the start of a logical operator appends to the code: it jumps to   *)
(* the block of the right operand and to the merge block.                  *)
LEMMA OpenAdds ==
  ASSUME TypeInv, NEW or \in BOOLEAN, OpenLogical(or)
  PROVE  /\ \E e : /\ Fresh(e, block, {blocks + 1, blocks + 2}) /\ e # << >>
                   /\ code' = code \o e
         /\ block' = blocks + 1
         /\ \E top \in [arg : Virtual, merge : Nat, base : Nat] :
              top.merge = blocks + 2 /\ opens' = Append(opens, top)
<1> DEFINE v        == Values[used + 1]
           right    == blocks + 1
           merge    == blocks + 2
           to       == {right, merge}
           test(a)  == Emit(<<Inst("test", <<Use(a[1])>>)>>, "test", NoRegister, a)
           Short(b) == Emit(<<Inst("const", <<Use(v)>>)>>, b, v, <<>>)
           rest     == IF or THEN Short("true") \o <<Jump("jne", merge), Jump("jmp", right)>>
                       ELSE <<Jump("jne", right)>> \o Short("false") \o <<Jump("jmp", merge)>>
<1>1. PICK a \in Operands(1) :
        /\ code' = code \o test(a) \o rest
        /\ opens' = Append(opens, [arg |-> v, merge |-> merge, base |-> Len(Rest(1))])
        /\ block' = right
  BY DEF OpenLogical
<1>2. a \in Seq(Virtual) /\ Len(a) = 1 /\ Rest(1) \in Seq(Virtual)
  BY OperandsOf
<1>3. v \in Virtual /\ right \in Nat /\ merge \in Nat /\ block \in Nat /\ code \in Seq(MachInst)
  BY BackendAssumption DEF OpenLogical, TypeInv
<1>4. Fresh(test(a), block, to) /\ Len(test(a)) = 1
  <2>1. a[1] \in Register /\ "test" \in Chosen
    BY <1>2 DEF Register, Chosen, Mnemonics
  <2>2. /\ <<Inst("test", <<Use(a[1])>>)>> \in Seq(Selection)
        /\ Len(<<Inst("test", <<Use(a[1])>>)>>) = 1
    BY <2>1, OneType
  <2> HIDE DEF to
  <2> QED BY <1>2, <1>3, <2>2, EmitFresh DEF Completions
<1> HIDE DEF v, right, merge
<1>5. Fresh(Short("true"), block, to) /\ Fresh(Short("false"), block, to)
  <2>1. v \in Register /\ "const" \in Chosen
    BY <1>3 DEF Register, Chosen, Mnemonics
  <2>2. <<>> \in Seq(Virtual) /\ "true" \in Completions /\ "false" \in Completions
    BY EmptySeq DEF Completions
  <2> QED BY <1>3, <2>1, <2>2, OneType, EmitFresh
<1>6. /\ Fresh(<<Jump("jne", merge)>>, block, to) /\ Fresh(<<Jump("jmp", right)>>, block, to)
      /\ Fresh(<<Jump("jne", right)>>, block, to) /\ Fresh(<<Jump("jmp", merge)>>, block, to)
  BY <1>3, JumpFresh
<1> HIDE DEF test, Short, to
<1>7. Fresh(rest, block, to)
  <2>1. <<Jump("jne", merge), Jump("jmp", right)>> = <<Jump("jne", merge)>> \o <<Jump("jmp", right)>>
    OBVIOUS
  <2>2. Fresh(<<Jump("jne", merge), Jump("jmp", right)>>, block, to)
    BY <1>6, <2>1, FreshJoin
  <2>3. Fresh(Short("true") \o <<Jump("jne", merge), Jump("jmp", right)>>, block, to)
    BY <1>5, <2>2, FreshJoin
  <2>4. Fresh(<<Jump("jne", right)>> \o Short("false"), block, to)
    BY <1>5, <1>6, FreshJoin
  <2>5. Fresh(<<Jump("jne", right)>> \o Short("false") \o <<Jump("jmp", merge)>>, block, to)
    BY <2>4, <1>6, FreshJoin
  <2> QED BY <2>3, <2>5
<1> HIDE DEF rest
<1> DEFINE e == test(a) \o rest
<1>8. Fresh(e, block, to)
  BY <1>4, <1>7, FreshJoin
<1>9. /\ test(a) \in Seq(MachInst) /\ rest \in Seq(MachInst)
  BY <1>4, <1>7 DEF Fresh
<1>10. code' = code \o e /\ e # << >>
  <2>1. code' = code \o e
    BY <1>1, <1>3, <1>9, SMTT(30)
  <2>2. Len(e) = 1 + Len(rest) /\ Len(rest) \in Nat
    <3>1. Len(e) = Len(test(a)) + Len(rest) /\ Len(rest) \in Nat
      BY <1>9
    <3>2. Len(test(a)) = 1
      BY <1>4
    <3> QED BY <3>1, <3>2
  <2> HIDE DEF e, rest
  <2>3. e # << >>
    BY <2>2
  <2> QED BY <2>1, <2>3
<1> HIDE DEF e
<1> DEFINE top == [arg |-> v, merge |-> merge, base |-> Len(Rest(1))]
<1>11. top \in [arg : Virtual, merge : Nat, base : Nat] /\ top.merge = merge /\ opens' = Append(opens, top)
  BY <1>1, <1>2, <1>3
<1> HIDE DEF top
<1> QED BY <1>1, <1>8, <1>10, <1>11 DEF right, merge, to

(* What the end of a logical operator appends to the code: it jumps to the *)
(* merge block.                                                            *)
LEMMA CloseAdds ==
  ASSUME TypeInv, CloseLogical
  PROVE  /\ \E e : Fresh(e, block, {Last(opens).merge}) /\ e # << >> /\ code' = code \o e
         /\ block' = Last(opens).merge
         /\ opens' = Front(opens)
<1> DEFINE top == Last(opens)
           x   == Last(temps)
           mov == Emit(<<Mov(x, top.arg)>>, "copy", top.arg, <<x>>)
           to  == {top.merge}
<1>1. top \in [arg : Virtual, merge : Nat, base : Nat]
  BY LastIn DEF CloseLogical, TypeInv
<1>2. x \in Virtual
  <2>1. Len(temps) = top.base + 1
    BY DEF CloseLogical
  <2>2. temps # <<>>
    BY <1>1, <2>1 DEF TypeInv
  <2> QED BY <2>2, LastIn DEF TypeInv
<1>3. /\ code' = code \o mov \o <<Jump("jmp", top.merge)>>
      /\ block' = top.merge
      /\ opens' = Front(opens)
  BY DEF CloseLogical
<1>4. code \in Seq(MachInst) /\ block \in Nat
  BY DEF CloseLogical, TypeInv
<1> HIDE DEF top, x
<1>5. Fresh(mov, block, to) /\ Len(mov) = 1
  <2>1. <<Mov(x, top.arg)>> \in Seq(Selection) /\ Len(<<Mov(x, top.arg)>>) = 1
    <3>1. Mov(x, top.arg) \in Selection
      BY <1>1, <1>2, MovType DEF Register
    <3> QED BY <3>1
  <2>2. <<x>> \in Seq(Virtual) /\ "copy" \in Completions /\ top.arg \in Virtual
    BY <1>1, <1>2 DEF Completions
  <2> QED BY <1>4, <2>1, <2>2, EmitFresh
<1>6. Fresh(<<Jump("jmp", top.merge)>>, block, to)
  BY <1>1, <1>4, JumpFresh
<1> HIDE DEF mov, to
<1> DEFINE e == mov \o <<Jump("jmp", top.merge)>>
<1>7. Fresh(e, block, to)
  BY <1>5, <1>6, FreshJoin
<1>8. mov \in Seq(MachInst) /\ <<Jump("jmp", top.merge)>> \in Seq(MachInst)
  BY <1>5, <1>6 DEF Fresh
<1>9. code' = code \o e /\ e # << >>
  BY <1>3, <1>4, <1>5, <1>8
<1> HIDE DEF e
<1> QED BY <1>3, <1>7, <1>9 DEF top, to

-----------------------------------------------------------------------------
(* A jump goes to a block that has instructions, or to one of those that   *)
(* are about to get some.                                                  *)
LandsOr(c, waiting) ==
  \A p \in DOMAIN c :
    c[p].op \in {"jmp", "jne"} =>
      c[p].target \in waiting \/ \E q \in DOMAIN c : c[q].block = c[p].target

Unspilled(c) == \A p \in DOMAIN c : c[p].op \notin {"push", "pop"}

(* The block being filled, and the merge blocks to be filled.              *)
Awaited == {block} \union {opens[i].merge : i \in DOMAIN opens}

CodeInv ==
  /\ stage = "select" => LandsOr(code, Awaited)
  /\ stage \in {"scan", "assign", "spill"} => Lands(code)
  /\ stage \in {"select", "scan", "assign", "spill"} => Unspilled(code)

(* The stack is as deep as it is at the place of the instruction that is   *)
(* next, whichever way execution has come there.                           *)
StackInv ==
  /\ stage \in {"select", "scan", "assign", "spill", "done"} => pc = 1 /\ stack = <<>>
  /\ stage \in {"done", "run"} =>
       /\ code \in Seq(MachInst)
       /\ Lands(code)
       /\ pc \in 1..(Len(code) + 1)
       /\ stack \in Seq({stack[i] : i \in DOMAIN stack})
       /\ \E d : Depths(code, d) /\ Len(stack) = d[pc]

(* Code that is added to lets its jumps land as before, if a block that is *)
(* no more waiting is filled by it.                                        *)
LEMMA LandsGrows ==
  ASSUME NEW c \in Seq(MachInst), NEW e, NEW b, NEW to, NEW old, NEW new,
         LandsOr(c, old), Unspilled(c), Fresh(e, b, to), to \subseteq new,
         \A t \in old : t \in new \/ (t = b /\ e # << >>)
  PROVE  LandsOr(c \o e, new) /\ Unspilled(c \o e)
<1>1. e \in Seq(MachInst)
  BY DEF Fresh
<1> DEFINE t == c \o e
<1>2. /\ \A q \in DOMAIN t :
              \/ \E r \in DOMAIN c : t[q] = c[r]
              \/ \E r \in DOMAIN e : t[q] = e[r]
      /\ \A r \in DOMAIN c : \E q \in DOMAIN t : t[q] = c[r]
      /\ \A r \in DOMAIN e : \E q \in DOMAIN t : t[q] = e[r]
  BY <1>1, JoinElements
<1>3. e # << >> => 1 \in DOMAIN e
  BY <1>1
<1> HIDE DEF t
<1>4. Unspilled(t)
  BY <1>2 DEF Unspilled, Fresh
<1>5. LandsOr(t, new)
  <2> SUFFICES ASSUME NEW q \in DOMAIN t, t[q].op \in {"jmp", "jne"}
               PROVE  t[q].target \in new \/ \E u \in DOMAIN t : t[u].block = t[q].target
    BY DEF LandsOr
  <2>1. CASE \E r \in DOMAIN e : t[q] = e[r]
    BY <2>1 DEF Fresh
  <2>2. CASE \E r \in DOMAIN c : t[q] = c[r]
    <3>1. PICK r \in DOMAIN c : t[q] = c[r]
      BY <2>2
    <3>2. c[r].target \in old \/ \E u \in DOMAIN c : c[u].block = c[r].target
      BY <3>1 DEF LandsOr
    <3>3. CASE \E u \in DOMAIN c : c[u].block = c[r].target
      BY <3>1, <3>3, <1>2
    <3>4. CASE c[r].target \in old
      <4>1. CASE c[r].target \in new
        BY <3>1, <4>1
      <4>2. CASE c[r].target = b /\ e # << >>
        <5>1. e[1].block = b
          BY <4>2, <1>3 DEF Fresh
        <5> QED BY <3>1, <4>2, <5>1, <1>2, <1>3
      <4> QED BY <3>4, <4>1, <4>2
    <3> QED BY <3>2, <3>3, <3>4
  <2> QED BY <2>1, <2>2, <1>2
<1> QED BY <1>4, <1>5 DEF t

(* Selecting instructions, and all that comes before the spills, lets the  *)
(* jumps of the code land.                                                 *)
LEMMA CodeStep == ASSUME Inv, CodeInv, [Next]_vars PROVE CodeInv'
<1>1. stage = "select" => code \in Seq(MachInst) /\ LandsOr(code, Awaited) /\ Unspilled(code)
  BY DEF Inv, TypeInv, CodeInv
<1>2. TypeInv
  BY DEF Inv
<1>3. ASSUME NEW e, NEW to, stage = "select", stage' = "select", Fresh(e, block, to),
             code' = code \o e, to \subseteq Awaited',
             \A t \in Awaited : t \in Awaited' \/ (t = block /\ e # << >>)
      PROVE  CodeInv'
  <2>1. LandsOr(code', Awaited') /\ Unspilled(code')
    <3> DEFINE new == Awaited'
               old == Awaited
    <3> HIDE DEF new, old
    <3>1. /\ \A t \in old : t \in new \/ (t = block /\ e # << >>)
          /\ to \subseteq new /\ LandsOr(code, old)
      BY <1>1, <1>3 DEF old, new
    <3>2. LandsOr(code \o e, new) /\ Unspilled(code \o e)
      BY <1>1, <1>3, <3>1, LandsGrows
    <3> QED BY <1>3, <3>2 DEF new
  <2> QED BY <1>3, <2>1 DEF CodeInv
<1>4. CASE \E kind \in Selected : Generate(kind)
  <2>1. PICK kind \in Selected : Generate(kind)
    BY <1>4
  <2>2. PICK e : Fresh(e, block, {}) /\ code' = code \o e
    BY <1>2, <2>1, GenerateAdds
  <2>3. stage = "select" /\ stage' = "select" /\ Awaited' = Awaited
    BY <2>1 DEF Generate, Awaited
  <2> QED BY <2>2, <2>3, <1>3
<1>5. CASE Assign
  <2>1. PICK e : Fresh(e, block, {}) /\ code' = code \o e
    BY <1>2, <1>5, AssignAdds
  <2>2. stage = "select" /\ stage' = "select" /\ Awaited' = Awaited
    BY <1>5 DEF Assign, Awaited
  <2> QED BY <2>1, <2>2, <1>3
<1>6. CASE \E or \in BOOLEAN : OpenLogical(or)
  <2>1. PICK or \in BOOLEAN : OpenLogical(or)
    BY <1>6
  <2>2. PICK e : /\ Fresh(e, block, {blocks + 1, blocks + 2}) /\ e # << >>
                 /\ code' = code \o e
    BY <1>2, <2>1, OpenAdds
  <2>3. /\ block' = blocks + 1
        /\ \E top \in [arg : Virtual, merge : Nat, base : Nat] :
             top.merge = blocks + 2 /\ opens' = Append(opens, top)
    BY <1>2, <2>1, OpenAdds
  <2>4. PICK top \in [arg : Virtual, merge : Nat, base : Nat] :
          top.merge = blocks + 2 /\ opens' = Append(opens, top)
    BY <2>3
  <2>5. stage = "select" /\ stage' = "select"
    BY <2>1 DEF OpenLogical
  <2>6. /\ Len(opens) \in Nat /\ DOMAIN opens = 1..Len(opens) /\ DOMAIN opens' = 1..(Len(opens) + 1)
        /\ opens'[Len(opens) + 1] = top
        /\ \A i \in DOMAIN opens : opens'[i] = opens[i]
    BY <1>2, <2>4 DEF TypeInv
  <2>7. Awaited' = {blocks + 1} \union {opens'[i].merge : i \in DOMAIN opens'}
    BY <2>3 DEF Awaited
  <2>8. blocks + 2 \in Awaited'
    <3>1. Len(opens) + 1 \in DOMAIN opens'
      BY <2>6
    <3>2. opens'[Len(opens) + 1].merge = blocks + 2
      BY <2>4, <2>6
    <3> QED BY <2>7, <3>1, <3>2
  <2>9. \A i \in DOMAIN opens : opens[i].merge \in Awaited'
    <3> SUFFICES ASSUME NEW i \in DOMAIN opens PROVE opens[i].merge \in Awaited'
      OBVIOUS
    <3>1. i \in DOMAIN opens'
      BY <2>6
    <3>2. opens'[i].merge = opens[i].merge
      BY <2>6
    <3> QED BY <2>7, <3>1, <3>2
  <2>10. \A t \in Awaited : t \in Awaited' \/ (t = block /\ e # << >>)
    BY <2>2, <2>9 DEF Awaited
  <2>11. {blocks + 1, blocks + 2} \subseteq Awaited'
    BY <2>7, <2>8
  <2> QED BY <2>2, <2>5, <2>10, <2>11, <1>3
<1>7. CASE CloseLogical
  <2>1. PICK e : Fresh(e, block, {Last(opens).merge}) /\ e # << >> /\ code' = code \o e
    BY <1>2, <1>7, CloseAdds
  <2>2. block' = Last(opens).merge /\ opens' = Front(opens)
    BY <1>2, <1>7, CloseAdds
  <2>3. stage = "select" /\ stage' = "select" /\ opens # <<>>
    BY <1>7 DEF CloseLogical
  <2>4. /\ Len(opens) \in Nat \ {0} /\ DOMAIN opens = 1..Len(opens) /\ DOMAIN opens' = 1..(Len(opens) - 1)
        /\ Last(opens) = opens[Len(opens)]
        /\ \A i \in DOMAIN opens' : opens'[i] = opens[i]
    BY <1>2, <2>2, <2>3, SMTT(30) DEF TypeInv, Front, Last
  <2>5. Awaited' = {Last(opens).merge} \union {opens'[i].merge : i \in DOMAIN opens'}
    BY <2>2 DEF Awaited
  <2>6. \A i \in DOMAIN opens : opens[i].merge \in Awaited'
    <3> SUFFICES ASSUME NEW i \in DOMAIN opens PROVE opens[i].merge \in Awaited'
      OBVIOUS
    <3>1. CASE i = Len(opens)
      BY <2>4, <2>5, <3>1
    <3>2. CASE i # Len(opens)
      <4>1. i \in DOMAIN opens'
        BY <2>4, <3>2
      <4>2. opens'[i].merge = opens[i].merge
        BY <2>4, <4>1
      <4> QED BY <2>5, <4>1, <4>2
    <3> QED BY <3>1, <3>2
  <2>7. \A t \in Awaited : t \in Awaited' \/ (t = block /\ e # << >>)
    BY <2>1, <2>6 DEF Awaited
  <2>8. {Last(opens).merge} \subseteq Awaited'
    BY <2>5
  <2> QED BY <2>1, <2>3, <2>7, <2>8, <1>3
<1>8. CASE Return
  <2>1. PICK e : Fresh(e, block, {}) /\ e # << >> /\ code' = code \o e
    BY <1>2, <1>8, ReturnAdds
  <2>2. stage = "select" /\ stage' = "scan" /\ opens = <<>>
    BY <1>8 DEF Return
  <2>3. \A t \in Awaited : t = block
    <3>1. DOMAIN opens = {}
      BY <2>2
    <3> QED BY <3>1 DEF Awaited
  <2>4. LandsOr(code \o e, {}) /\ Unspilled(code \o e)
    <3> DEFINE old == Awaited
    <3> HIDE DEF old
    <3>1. LandsOr(code, old) /\ \A t \in old : t = block
      BY <1>1, <2>2, <2>3 DEF old
    <3> QED BY <1>1, <2>1, <2>2, <3>1, LandsGrows
  <2>5. Lands(code') /\ Unspilled(code')
    BY <2>1, <2>4 DEF LandsOr, Lands
  <2> QED BY <2>2, <2>5 DEF CodeInv
<1>9. CASE Discard
  BY <1>9 DEF Discard, CodeInv, allocVars, Awaited
<1>10. CASE UNCHANGED <<stage, code, block, opens>>
  BY <1>10 DEF CodeInv, Awaited
<1>11. CASE stage \in {"scan", "assign", "spill"} /\ stage' \notin {"select"} /\ code' = code
  BY <1>11 DEF CodeInv
<1>12. CASE stage' \notin {"select", "scan", "assign", "spill"}
  BY <1>12 DEF CodeInv
<1>13. CASE Allocate
  <2>1. AllocNext
    BY <1>13 DEF Allocate
  <2>2. CASE PlaceSpills
    BY <2>2, <1>12 DEF PlaceSpills
  <2>3. CASE ~PlaceSpills
    BY <2>1, <2>3, <1>11 DEF AllocNext, ScanOperand, ScanInst, ScanEnds, KeepRegister,
       AssignRegister, AssignFails, AssignEnds
  <2> QED BY <2>2, <2>3
<1>14. CASE Run
  BY <1>14, <1>12 DEF Run
<1>15. CASE Execute
  BY <1>15, <1>10 DEF Execute, allocVars, selectVars
<1>16. CASE UNCHANGED vars
  BY <1>16, <1>10 DEF vars, allocVars, selectVars
<1> QED
  BY <1>4, <1>5, <1>6, <1>7, <1>8, <1>9, <1>13, <1>14, <1>15, <1>16 DEF Next

(* The first instruction of a block that has one.                          *)
LEMMA FirstOfIs ==
  ASSUME code \in Seq(MachInst), NEW b, \E q \in DOMAIN code : code[q].block = b
  PROVE  /\ FirstOf(b) \in DOMAIN code
         /\ code[FirstOf(b)].block = b
         /\ \A q \in 1..(FirstOf(b) - 1) : code[q].block # b
<1> DEFINE T == {p \in DOMAIN code : code[p].block = b}
<1>1. DOMAIN code = 1..Len(code) /\ Len(code) \in Nat
  OBVIOUS
<1>2. PICK m \in T : \A k \in T : m <= k
  <2>1. T \in SUBSET Nat /\ T # {}
    BY <1>1
  <2> HIDE DEF T
  <2> QED BY <2>1, Least
<1>3. \A q \in 1..(m - 1) : code[q].block # b
  <2> SUFFICES ASSUME NEW q \in 1..(m - 1), code[q].block = b PROVE FALSE
    OBVIOUS
  <2>1. q \in T /\ m \in Nat
    BY <1>1, <1>2
  <2> QED BY <2>1, <1>2
<1>4. \E p \in DOMAIN code : code[p].block = b /\ \A q \in 1..(p - 1) : code[q].block # b
  BY <1>2, <1>3
<1> QED BY <1>4 DEF FirstOf

(* A sequence without its last element.                                    *)
LEMMA FrontIs ==
  ASSUME NEW S, NEW s \in Seq(S), Len(s) >= 1
  PROVE  Front(s) \in Seq(S) /\ Len(Front(s)) = Len(s) - 1
<1>1. Len(s) \in Nat /\ Len(s) - 1 \in Nat
  OBVIOUS
<1>2. \A n \in 0..Len(s) : SubSeq(s, 1, n) \in Seq(S) /\ Len(SubSeq(s, 1, n)) = n
  OBVIOUS
<1>3. Front(s) = SubSeq(s, 1, Len(s) - 1)
  BY DEF Front
<1> DEFINE n == Len(s) - 1
<1>4. n \in 0..Len(s)
  BY <1>1
<1> HIDE DEF n
<1>5. SubSeq(s, 1, n) \in Seq(S) /\ Len(SubSeq(s, 1, n)) = n
  BY <1>2, <1>4
<1> QED BY <1>3, <1>5 DEF n

(* An instruction finds the stack as deep as it is at its place, and       *)
(* leaves it as deep as it is at the place that is next.                   *)
LEMMA ExecuteStack == ASSUME StackInv, Execute PROVE StackInv'
<1> DEFINE n == Len(code)
           i == code[pc]
<1>1. /\ stage = "run" /\ stage' = "run" /\ pc \in DOMAIN code /\ code' = code
      /\ code \in Seq(MachInst) /\ Lands(code)
      /\ n \in Nat /\ DOMAIN code = 1..n
  BY DEF Execute, StackInv, allocVars
<1>2. PICK d : Depths(code, d) /\ Len(stack) = d[pc]
  BY <1>1 DEF StackInv
<1>3. /\ d \in [1..(n + 1) -> Nat]
      /\ d[1] = 0 /\ d[n + 1] = 0
      /\ \A p \in DOMAIN code :
           /\ code[p].op = "push" => d[p + 1] = d[p] + 1
           /\ code[p].op = "pop" => d[p] = d[p + 1] + 1
           /\ code[p].op \notin {"push", "pop"} => d[p + 1] = d[p]
           /\ code[p].op \notin {"push", "call", "pop"} => d[p] = 0
           /\ (\A q \in 1..(p - 1) : code[q].block # code[p].block) => d[p] = 0
  BY <1>2 DEF Depths
<1>4. /\ i.op = "push" => d[pc + 1] = d[pc] + 1
      /\ i.op = "pop" => d[pc] = d[pc + 1] + 1
      /\ i.op \notin {"push", "pop"} => d[pc + 1] = d[pc]
      /\ i.op \notin {"push", "call", "pop"} => d[pc] = 0
  BY <1>1, <1>3
<1>5. pc + 1 \in 1..(n + 1) /\ d[pc] \in Nat /\ d[pc + 1] \in Nat
  BY <1>1, <1>3
<1>6. i.op \in {"jmp", "jne"} => FirstOf(i.target) \in DOMAIN code /\ d[FirstOf(i.target)] = 0
  <2> SUFFICES ASSUME i.op \in {"jmp", "jne"}
               PROVE  FirstOf(i.target) \in DOMAIN code /\ d[FirstOf(i.target)] = 0
    OBVIOUS
  <2>1. \E q \in DOMAIN code : code[q].block = i.target
    BY <1>1 DEF Lands
  <2>2. /\ FirstOf(i.target) \in DOMAIN code
        /\ code[FirstOf(i.target)].block = i.target
        /\ \A q \in 1..(FirstOf(i.target) - 1) : code[q].block # i.target
    BY <1>1, <2>1, FirstOfIs
  <2> QED BY <2>2, <1>3
<1>7. /\ stack' = CASE i.op = "push" -> Append(stack, Held(i.regs[1].reg))
                    [] i.op = "pop"  -> Front(stack)
                    [] OTHER         -> stack
      /\ CASE i.op = "jmp" -> pc' = FirstOf(i.target)
           [] i.op = "jne" -> pc' \in {FirstOf(i.target), pc + 1}
           [] i.op = "ret" -> pc' = n + 1
           [] OTHER        -> pc' = pc + 1
  BY DEF Execute
<1> DEFINE held == {stack[k] : k \in DOMAIN stack}
           x == Held(i.regs[1].reg)
<1>8. stack \in Seq(held) /\ Len(stack) \in Nat
  BY <1>1 DEF StackInv
<1> HIDE DEF i, n, x
<1>9. pc' \in 1..(n + 1) /\ Len(stack') = d[pc'] /\ \E S : stack' \in Seq(S)
  <2> HIDE DEF held
  <2>1. CASE i.op = "push"
    <3>1. pc' = pc + 1 /\ stack' = Append(stack, x)
      BY <2>1, <1>7 DEF x
    <3>2. stack \in Seq(held \union {x}) /\ x \in held \union {x}
      BY <1>8
    <3>3. stack' \in Seq(held \union {x}) /\ Len(stack') = Len(stack) + 1
      BY <3>1, <3>2
    <3> QED BY <2>1, <3>1, <3>3, <1>2, <1>4, <1>5
  <2>2. CASE i.op = "pop"
    <3>1. pc' = pc + 1 /\ stack' = Front(stack)
      BY <2>2, <1>7
    <3>2. Len(stack) >= 1
      BY <2>2, <1>2, <1>4, <1>5
    <3>3. stack' \in Seq(held) /\ Len(stack') = Len(stack) - 1
      BY <3>1, <3>2, <1>8, FrontIs
    <3> QED BY <2>2, <3>1, <3>3, <1>2, <1>4, <1>5
  <2>3. CASE i.op \notin {"push", "pop"}
    <3>1. stack' = stack
      BY <2>3, <1>7
    <3>2. pc' \in 1..(n + 1) /\ d[pc'] = d[pc]
      <4>1. CASE i.op = "jmp"
        BY <4>1, <1>1, <1>4, <1>6, <1>7
      <4>2. CASE i.op = "jne"
        BY <4>2, <1>1, <1>4, <1>5, <1>6, <1>7
      <4>3. CASE i.op = "ret"
        BY <4>3, <1>1, <1>3, <1>4, <1>7
      <4>4. CASE i.op \notin {"jmp", "jne", "ret"}
        BY <4>4, <2>3, <1>4, <1>5, <1>7
      <4> QED BY <4>1, <4>2, <4>3, <4>4
    <3> QED BY <3>1, <3>2, <1>2, <1>8
  <2> QED BY <2>1, <2>2, <2>3
<1>10. stack' \in Seq({stack'[k] : k \in DOMAIN stack'})
  <2>1. PICK S : stack' \in Seq(S)
    BY <1>9
  <2> QED BY <2>1
<1>11. /\ code' \in Seq(MachInst) /\ Lands(code') /\ pc' \in 1..(Len(code') + 1)
       /\ Depths(code', d) /\ Len(stack') = d[pc']
  BY <1>1, <1>2, <1>9 DEF n
<1> QED BY <1>1, <1>10, <1>11 DEF StackInv

(* The other steps have an empty stack, and the one that places the spills *)
(* the code whose depths are known.                                        *)
LEMMA StackStep == ASSUME Inv, CodeInv, StackInv, [Next]_vars PROVE StackInv'
<1>1. CASE /\ UNCHANGED <<pc, stack>>
           /\ stage \in {"select", "scan", "assign", "spill"} /\ stage' \notin {"done", "run"}
  BY <1>1 DEF StackInv
<1>2. CASE PlaceSpills /\ UNCHANGED <<pc, stack>>
  <2>1. stage = "spill" /\ stage' = "done" /\ pc = 1 /\ stack = <<>>
    BY <1>2 DEF PlaceSpills, StackInv
  <2>2. Lands(code) /\ \A p \in DOMAIN code : code[p].op \notin {"push", "pop"}
    BY <2>1 DEF CodeInv, Unspilled
  <2>3. code' \in Seq(MachInst) /\ Lands(code') /\ \E d : Depths(code', d)
    BY <1>2, <2>2, PlaceDepths DEF Inv
  <2>4. PICK d : Depths(code', d)
    BY <2>3
  <2>5. pc' = 1 /\ stack' = <<>> /\ Len(stack') = d[pc']
    BY <1>2, <2>1, <2>4 DEF Depths
  <2>6. pc' \in 1..(Len(code') + 1) /\ stack' \in Seq({stack'[i] : i \in DOMAIN stack'})
    BY <2>3, <2>5
  <2> QED BY <2>1, <2>3, <2>4, <2>5, <2>6 DEF StackInv
<1>3. CASE Run
  BY <1>3 DEF Run, StackInv, execVars
<1>4. CASE Execute
  BY <1>4, ExecuteStack
<1>5. CASE UNCHANGED <<stage, code, pc, stack>>
  BY <1>5 DEF StackInv
<1>6. CASE Allocate
  <2>1. AllocNext /\ UNCHANGED <<pc, stack>>
    BY <1>6 DEF Allocate, execVars
  <2>2. CASE ~PlaceSpills
    BY <2>1, <2>2, <1>1 DEF AllocNext, ScanOperand, ScanInst, ScanEnds, KeepRegister,
       AssignRegister, AssignFails, AssignEnds
  <2> QED BY <2>1, <2>2, <1>2
<1>7. CASE (\E kind \in Selected : Generate(kind)) \/ Assign
           \/ (\E or \in BOOLEAN : OpenLogical(or)) \/ CloseLogical \/ Return \/ Discard
  BY <1>7, <1>1 DEF Generate, Assign, OpenLogical, CloseLogical, Return, Discard, execVars, allocVars
<1>8. CASE UNCHANGED vars
  BY <1>8, <1>5 DEF vars, allocVars, execVars
<1> QED
  BY <1>3, <1>4, <1>6, <1>7, <1>8 DEF Next

(* The program begins with no code and an empty stack.                     *)
LEMMA StackInit == Init => CodeInv /\ StackInv
<1> SUFFICES ASSUME Init PROVE CodeInv /\ StackInv
  OBVIOUS
<1>1. stage = "select" /\ code = <<>> /\ pc = 1 /\ stack = <<>>
  BY DEF Init
<1>2. DOMAIN code = {}
  BY <1>1
<1> QED BY <1>1, <1>2 DEF CodeInv, StackInv, LandsOr, Unspilled

(* Whatever way a function takes, and whatever its calls spill, the stack  *)
(* is empty but around a call, so a return address is on top when the      *)
(* function returns, and no pop takes more than was pushed.                *)
THEOREM StackBalancedCorrect == Spec => []StackBalanced
<1> DEFINE All == Inv /\ CodeInv /\ StackInv
<1>1. Init => All
  BY InitInv, StackInit
<1>2. All /\ [Next]_vars => All'
  BY StepInv, CodeStep, StackStep
<1>3. All => StackBalanced
  <2> SUFFICES ASSUME StackInv, stage = "run" PROVE StackBalanced
    BY DEF StackBalanced
  <2>1. PICK d : Depths(code, d) /\ Len(stack) = d[pc]
    BY DEF StackInv
  <2>2. /\ code \in Seq(MachInst) /\ pc \in 1..(Len(code) + 1)
        /\ DOMAIN code = 1..Len(code) /\ Len(code) \in Nat
    BY DEF StackInv
  <2>3. d[pc] = 0 => stack = <<>>
    <3>1. stack \in Seq({stack[i] : i \in DOMAIN stack})
      BY DEF StackInv
    <3> QED BY <2>1, <3>1
  <2>4. ASSUME pc \notin DOMAIN code PROVE stack = <<>>
    <3>1. pc = Len(code) + 1
      BY <2>2, <2>4
    <3>2. d[pc] = 0
      BY <2>1, <3>1 DEF Depths
    <3> QED BY <2>3, <3>2
  <2>5. ASSUME pc \in DOMAIN code
        PROVE  /\ code[pc].op \notin {"push", "call", "pop"} => stack = <<>>
               /\ BeginsBlock(pc) => stack = <<>>
               /\ code[pc].op = "pop" => stack # <<>>
    <3>1. /\ code[pc].op \notin {"push", "call", "pop"} => d[pc] = 0
          /\ (\A q \in 1..(pc - 1) : code[q].block # code[pc].block) => d[pc] = 0
          /\ code[pc].op = "pop" => d[pc] = d[pc + 1] + 1
          /\ d \in [1..(Len(code) + 1) -> Nat]
      BY <2>1, <2>5 DEF Depths
    <3>2. BeginsBlock(pc) => stack = <<>>
      BY <3>1, <2>3 DEF BeginsBlock
    <3>3. ASSUME code[pc].op = "pop" PROVE stack # <<>>
      <4>1. pc + 1 \in 1..(Len(code) + 1)
        BY <2>2, <2>5
      <4>2. d[pc + 1] \in Nat
        BY <3>1, <4>1
      <4>3. Len(stack) # 0
        BY <2>1, <3>1, <3>3, <4>2
      <4> QED BY <4>3
    <3> QED BY <2>3, <3>1, <3>2, <3>3
  <2> QED BY <2>4, <2>5 DEF StackBalanced
<1> HIDE DEF All
<1> QED BY <1>1, <1>2, <1>3, PTL DEF Spec

(* Every label a jump of the finished function names is there.             *)
JumpsLand == stage \in {"done", "run"} => Lands(code)

(* Every jump of the finished function has a block with instructions to go *)
(* to, so no execution stops for lack of one.                              *)
THEOREM JumpsLandCorrect == Spec => []JumpsLand
<1> DEFINE All == Inv /\ CodeInv /\ StackInv
<1>1. Init => All
  BY InitInv, StackInit
<1>2. All /\ [Next]_vars => All'
  BY StepInv, CodeStep, StackStep
<1>3. All => JumpsLand
  <2>1. StackInv => JumpsLand
    BY DEF StackInv, JumpsLand
  <2> QED BY <2>1
<1> HIDE DEF All
<1> QED BY <1>1, <1>2, <1>3, PTL DEF Spec

-----------------------------------------------------------------------------
(* Which range has a register at a place.                                  *)

(* The operands of code, by their places.                                  *)
Places(c) == {w \in Nat \X Nat : w[1] \in DOMAIN c /\ w[2] \in DOMAIN c[w[1]].regs}

At(c, w) == c[w[1]].regs[w[2]]

(* Operand w is operand u or comes after it.                               *)
Follows(w, u) == w[1] > u[1] \/ (w[1] = u[1] /\ w[2] >= u[2])

KillsAt(i, r) == \E n \in DOMAIN i.regs : i.regs[n].reg = r /\ i.regs[n].kill

(* An operand before place p is r, which nothing has killed since.         *)
OpenTo(c, p, r) ==
  \E u \in Places(c) :
    /\ u[1] < p
    /\ At(c, u).reg = r
    /\ \A w \in Places(c) :
         At(c, w).reg = r /\ Follows(w, u) /\ w[1] < p => ~At(c, w).kill

Carried(c, p, r) == OpenTo(c, p, r) /\ ~KillsAt(c[p], r)

(* The operands the scan has been at.                                      *)
SeenPlaces ==
  IF stage = "scan"
  THEN {w \in Places(code) : w[1] < pos \/ (w[1] = pos /\ w[2] < oper)}
  ELSE Places(code)

(* Each operand seen is in a range of its register.                        *)
Found(c, rs, seen) ==
  \A w \in seen : \E i \in DOMAIN rs :
    rs[i].reg = At(c, w).reg /\ rs[i].start <= w[1] /\ w[1] <= rs[i].end

(* It is in an open one, if no operand seen since has killed it.           *)
Stays(c, rs, seen) ==
  \A u \in seen :
    (\A w \in seen : At(c, w).reg = At(c, u).reg /\ Follows(w, u) => ~At(c, w).kill) =>
      \E i \in DOMAIN rs :
        ~rs[i].killed /\ rs[i].reg = At(c, u).reg /\ rs[i].start <= u[1]

(* A register carried over a place has a range that covers it, once it is  *)
(* seen again.                                                             *)
Spans(c, rs, seen) ==
  \A p \in DOMAIN c : \A r \in Register :
    Carried(c, p, r) /\ (\E w \in seen : w[1] > p /\ At(c, w).reg = r) =>
      \E i \in DOMAIN rs : rs[i].reg = r /\ Covers(rs[i], p)

(* A range begins with an operand, and ends where that is killed.          *)
Starts(c, rs, seen) ==
  \A i \in DOMAIN rs : \E u \in seen :
    /\ u[1] = rs[i].start
    /\ At(c, u).reg = rs[i].reg
    /\ \A w \in seen :
         At(c, w).reg = rs[i].reg /\ Follows(w, u) /\ At(c, w).kill =>
           rs[i].killed /\ rs[i].end <= w[1]

ScanFacts(c, rs, seen) ==
  Found(c, rs, seen) /\ Stays(c, rs, seen) /\ Spans(c, rs, seen) /\ Starts(c, rs, seen)

(* The ranges old become new by a scan of operand o at place p.            *)
Touches(old, new, o, p) ==
  \E k \in DOMAIN new :
    /\ new[k].reg = o.reg /\ new[k].end = p /\ new[k].killed = o.kill
    /\ new[k].start <= p /\ new[k].start \in Nat
    /\ IF k \in DOMAIN old THEN ~old[k].killed ELSE new[k].start = p
    /\ \A i \in DOMAIN old :
         /\ i \in DOMAIN new
         /\ new[i].reg = old[i].reg /\ new[i].start = old[i].start
         /\ old[i].end <= p /\ old[i].start \in Nat /\ old[i].end \in Nat
    /\ \A i \in DOMAIN new \ {k} :
         /\ i \in DOMAIN old
         /\ new[i] = old[i]
         /\ old[i].reg = o.reg => old[i].killed

(* ScanOperand does so.                                                    *)
LEMMA ScanTouches ==
  ASSUME Inv, ScanPlace, ScanOperand
  PROVE  Touches(ranges, ranges', code[pos].regs[oper], pos)
<1> USE DEF Inv
<1> DEFINE op == code[pos].regs[oper]
<1>1. stage = "scan" /\ ranges \in Seq(LiveRange) /\ pos \in Nat
  BY DEF ScanOperand, TypeInv, AllocTypeOK
<1>2. \A i \in DOMAIN ranges :
        /\ ranges[i] \in LiveRange
        /\ ranges[i].start \in Nat /\ ranges[i].end \in Nat /\ ranges[i].end <= pos
        /\ ranges[i].start <= ranges[i].end
  <2>1. \A i \in DOMAIN ranges : ranges[i] \in LiveRange
    BY <1>1
  <2> QED BY <2>1, <1>1 DEF AllocInv, LiveRange
<1>3. \A i, j \in DOMAIN ranges :
        i < j /\ ranges[i].reg = ranges[j].reg => ranges[i].killed
  BY DEF AllocInv, Split
<1>4. DOMAIN ranges = 1..Len(ranges) /\ Len(ranges) \in Nat
  BY <1>1
<1>5. ASSUME NEW k \in DOMAIN ranges, Open(k, op.reg),
             ranges' = [ranges EXCEPT ![k].end = pos, ![k].killed = op.kill]
      PROVE  Touches(ranges, ranges', op, pos)
  <2>1. /\ DOMAIN ranges' = DOMAIN ranges
        /\ \A j \in DOMAIN ranges : j # k => ranges'[j] = ranges[j]
    BY <1>5, <1>1
  <2>2. /\ ranges'[k].reg = ranges[k].reg /\ ranges'[k].start = ranges[k].start
        /\ ranges'[k].end = pos /\ ranges'[k].killed = op.kill
    BY <1>5, <1>1, <1>2 DEF LiveRange
  <2>3. ~ranges[k].killed /\ ranges[k].reg = op.reg
    BY <1>5 DEF Open
  <2>4. \A i \in DOMAIN ranges \ {k} : ranges[i].reg = op.reg => ranges[i].killed
    <3> SUFFICES ASSUME NEW i \in DOMAIN ranges \ {k}, ranges[i].reg = op.reg
                 PROVE  ranges[i].killed
      OBVIOUS
    <3>1. i < k \/ k < i
      BY <1>4
    <3> QED BY <3>1, <2>3, <1>3
  <2>5. ranges[k].start <= pos
    BY <1>2, <1>1
  <2> HIDE DEF op
  <2>6. k \in DOMAIN ranges'
    BY <2>1
  <2>7. \A i \in DOMAIN ranges :
          /\ i \in DOMAIN ranges'
          /\ ranges'[i].reg = ranges[i].reg /\ ranges'[i].start = ranges[i].start
          /\ ranges[i].end <= pos /\ ranges[i].start \in Nat /\ ranges[i].end \in Nat
    BY <2>1, <2>2, <1>2
  <2>8. \A i \in DOMAIN ranges' \ {k} :
          i \in DOMAIN ranges /\ ranges'[i] = ranges[i] /\ (ranges[i].reg = op.reg => ranges[i].killed)
    BY <2>1, <2>4
  <2>9. ranges'[k].reg = op.reg /\ ranges'[k].start <= pos /\ ranges'[k].start \in Nat
    BY <2>2, <2>3, <2>5, <1>2
  <2> QED BY <2>2, <2>3, <2>6, <2>7, <2>8, <2>9 DEF Touches
<1>6. ASSUME \A k \in DOMAIN ranges : ~Open(k, op.reg),
             ranges' = Append(ranges, NewRange(op))
      PROVE  Touches(ranges, ranges', op, pos)
  <2> DEFINE k == Len(ranges) + 1
  <2>1. /\ DOMAIN ranges' = DOMAIN ranges \union {k} /\ k \notin DOMAIN ranges
        /\ \A j \in DOMAIN ranges : ranges'[j] = ranges[j]
        /\ ranges'[k] = NewRange(op)
    BY <1>6, <1>1
  <2>2. /\ ranges'[k].reg = op.reg /\ ranges'[k].start = pos /\ ranges'[k].end = pos
        /\ ranges'[k].killed = op.kill
    BY <2>1 DEF NewRange
  <2>3. \A i \in DOMAIN ranges : ranges[i].reg = op.reg => ranges[i].killed
    BY <1>6 DEF Open
  <2> HIDE DEF op, k
  <2>4. k \in DOMAIN ranges'
    BY <2>1
  <2>5. \A i \in DOMAIN ranges :
          /\ i \in DOMAIN ranges'
          /\ ranges'[i].reg = ranges[i].reg /\ ranges'[i].start = ranges[i].start
          /\ ranges[i].end <= pos /\ ranges[i].start \in Nat /\ ranges[i].end \in Nat
    BY <2>1, <1>2
  <2>6. \A i \in DOMAIN ranges' \ {k} :
          i \in DOMAIN ranges /\ ranges'[i] = ranges[i] /\ (ranges[i].reg = op.reg => ranges[i].killed)
    BY <2>1, <2>3
  <2> QED BY <2>1, <2>2, <2>4, <2>5, <2>6, <1>1 DEF Touches
<1> QED BY <1>5, <1>6, ScanCases

(* With such a step the facts go on to hold, of one operand more.          *)
LEMMA TouchFacts ==
  ASSUME NEW c, DOMAIN c \subseteq Nat, NEW old, NEW new,
         NEW seen \in SUBSET Places(c), NEW x \in Places(c),
         x \notin seen, \A w \in seen : ~Follows(w, x),
         \A w \in Places(c) : w[1] < x[1] => w \in seen,
         Touches(old, new, At(c, x), x[1]), ScanFacts(c, old, seen)
  PROVE  ScanFacts(c, new, seen \union {x})
<1> DEFINE o == At(c, x)
           p == x[1]
           more == seen \union {x}
<1>1. PICK k \in DOMAIN new :
        /\ new[k].reg = o.reg /\ new[k].end = p /\ new[k].killed = o.kill
        /\ new[k].start <= p /\ new[k].start \in Nat
        /\ IF k \in DOMAIN old THEN ~old[k].killed ELSE new[k].start = p
        /\ \A i \in DOMAIN old :
             /\ i \in DOMAIN new
             /\ new[i].reg = old[i].reg /\ new[i].start = old[i].start
             /\ old[i].end <= p /\ old[i].start \in Nat /\ old[i].end \in Nat
        /\ \A i \in DOMAIN new \ {k} :
             /\ i \in DOMAIN old
             /\ new[i] = old[i]
             /\ old[i].reg = o.reg => old[i].killed
  BY DEF Touches
<1>2. \A w \in more : w[1] \in Nat /\ w[2] \in Nat
  BY DEF Places
<1>3. \A w \in seen : Follows(x, w)
  BY <1>2 DEF Follows
<1>4. Follows(x, x) /\ p \in Nat
  BY <1>2 DEF Follows
<1>5. \A i \in DOMAIN old : old[i].end <= new[i].end
  <2> SUFFICES ASSUME NEW i \in DOMAIN old PROVE old[i].end <= new[i].end
    OBVIOUS
  <2>1. CASE i = k
    BY <2>1, <1>1
  <2>2. CASE i # k
    <3>1. new[i] = old[i] /\ old[i].end \in Nat
      BY <2>2, <1>1
    <3> QED BY <3>1
  <2> QED BY <2>1, <2>2
<1> HIDE DEF o, p
<1>6. Found(c, new, more)
  <2>1. ASSUME NEW w \in seen
        PROVE  \E i \in DOMAIN new :
                 new[i].reg = At(c, w).reg /\ new[i].start <= w[1] /\ w[1] <= new[i].end
    <3>1. PICK i \in DOMAIN old :
            old[i].reg = At(c, w).reg /\ old[i].start <= w[1] /\ w[1] <= old[i].end
      BY DEF ScanFacts, Found
    <3>2. i \in DOMAIN new /\ new[i].reg = At(c, w).reg /\ new[i].start <= w[1]
      BY <1>1, <3>1
    <3>3. w[1] <= new[i].end
      <4>1. w[1] \in Nat /\ old[i].end \in Nat
        BY <1>1, <1>2
      <4>2. new[i].end = old[i].end \/ new[i].end = p
        BY <1>1, <3>2
      <4>3. old[i].end <= p /\ old[i].end <= new[i].end
        BY <1>1, <1>5
      <4> QED BY <3>1, <4>1, <4>2, <4>3, <1>4
    <3> QED BY <3>2, <3>3
  <2>2. \E i \in DOMAIN new :
          new[i].reg = At(c, x).reg /\ new[i].start <= x[1] /\ x[1] <= new[i].end
    BY <1>1, <1>4 DEF o, p
  <2> QED BY <2>1, <2>2 DEF Found
<1>7. Stays(c, new, more)
  <2> SUFFICES ASSUME NEW u \in more,
                      \A w \in more : At(c, w).reg = At(c, u).reg /\ Follows(w, u) => ~At(c, w).kill
               PROVE  \E i \in DOMAIN new :
                        ~new[i].killed /\ new[i].reg = At(c, u).reg /\ new[i].start <= u[1]
    BY DEF Stays
  <2>1. CASE u = x
    <3>1. ~o.kill
      BY <2>1, <1>4 DEF o
    <3> QED BY <2>1, <3>1, <1>1 DEF o, p
  <2>2. CASE u # x
    <3>1. u \in seen
      BY <2>2
    <3>2. PICK i \in DOMAIN old :
            ~old[i].killed /\ old[i].reg = At(c, u).reg /\ old[i].start <= u[1]
      BY <3>1 DEF ScanFacts, Stays
    <3>3. i \in DOMAIN new /\ new[i].reg = At(c, u).reg /\ new[i].start <= u[1]
      BY <3>2, <1>1
    <3>4. ~new[i].killed
      <4>1. CASE i = k
        <5>1. At(c, x).reg = At(c, u).reg
          BY <4>1, <3>3, <1>1 DEF o
        <5>2. ~o.kill
          BY <5>1, <3>1, <1>3 DEF o
        <5> QED BY <4>1, <5>2, <1>1
      <4>2. CASE i # k
        BY <4>2, <3>2, <3>3, <1>1
      <4> QED BY <4>1, <4>2
    <3> QED BY <3>3, <3>4
  <2> QED BY <2>1, <2>2
<1>8. Spans(c, new, more)
  <2> SUFFICES ASSUME NEW q \in DOMAIN c, NEW r \in Register, Carried(c, q, r),
                      NEW w \in more, w[1] > q, At(c, w).reg = r
               PROVE  \E i \in DOMAIN new : new[i].reg = r /\ Covers(new[i], q)
    BY DEF Spans
  <2>1. CASE \E v \in seen : v[1] > q /\ At(c, v).reg = r
    <3>1. PICK i \in DOMAIN old : old[i].reg = r /\ Covers(old[i], q)
      BY <2>1 DEF ScanFacts, Spans
    <3>2. i \in DOMAIN new /\ new[i].reg = r /\ new[i].start = old[i].start
          /\ old[i].end <= new[i].end /\ old[i].end \in Nat /\ old[i].end <= p
          /\ old[i].start < q /\ q < old[i].end
      BY <3>1, <1>1, <1>5 DEF Covers
    <3>3. new[i].end = old[i].end \/ new[i].end = p
      BY <1>1, <3>2
    <3>4. q \in Nat
      OBVIOUS
    <3>5. q < new[i].end
      BY <3>2, <3>3, <3>4, <1>4
    <3> QED BY <3>2, <3>5 DEF Covers
  <2>2. CASE ~ \E v \in seen : v[1] > q /\ At(c, v).reg = r
    <3>1. w = x
      BY <2>2
    <3>2. PICK u \in Places(c) :
            /\ u[1] < q
            /\ At(c, u).reg = r
            /\ \A v \in Places(c) :
                 At(c, v).reg = r /\ Follows(v, u) /\ v[1] < q => ~At(c, v).kill
      BY DEF Carried, OpenTo
    <3>3. q < p /\ q \in Nat /\ u[1] \in Nat
      BY <3>1, <3>2 DEF p, Places
    <3>4. u \in seen
      BY <3>2, <3>3, <1>4 DEF p
    <3>5. \A v \in seen : At(c, v).reg = At(c, u).reg /\ Follows(v, u) => ~At(c, v).kill
      <4> SUFFICES ASSUME NEW v \in seen, At(c, v).reg = r, Follows(v, u), At(c, v).kill
                   PROVE  FALSE
        BY <3>2
      <4>1. v \in Places(c) /\ v[1] \in Nat /\ v[2] \in DOMAIN c[v[1]].regs
        BY DEF Places
      <4>2. ~(v[1] < q)
        BY <3>2, <4>1
      <4>3. ~(v[1] > q)
        BY <2>2
      <4>4. v[1] = q
        BY <3>3, <4>1, <4>2, <4>3
      <4> QED BY <4>1, <4>4 DEF Carried, KillsAt, At
    <3>6. PICK i \in DOMAIN old :
            ~old[i].killed /\ old[i].reg = r /\ old[i].start <= u[1]
      BY <3>2, <3>4, <3>5 DEF ScanFacts, Stays
    <3>7. i = k
      BY <3>1, <3>6, <1>1 DEF o
    <3>8. new[k].reg = r /\ new[k].start <= u[1] /\ new[k].end = p /\ new[k].start \in Nat
      BY <3>6, <3>7, <1>1
    <3>9. Covers(new[k], q)
      BY <3>2, <3>3, <3>8, <1>4 DEF Covers
    <3> QED BY <3>8, <3>9
  <2> QED BY <2>1, <2>2
<1>9. Starts(c, new, more)
  <2> SUFFICES ASSUME NEW i \in DOMAIN new
               PROVE  \E u \in more :
                        /\ u[1] = new[i].start
                        /\ At(c, u).reg = new[i].reg
                        /\ \A w \in more :
                             At(c, w).reg = new[i].reg /\ Follows(w, u) /\ At(c, w).kill =>
                               new[i].killed /\ new[i].end <= w[1]
    BY DEF Starts
  <2>1. CASE i \in DOMAIN old
    <3>1. PICK u \in seen :
            /\ u[1] = old[i].start
            /\ At(c, u).reg = old[i].reg
            /\ \A w \in seen :
                 At(c, w).reg = old[i].reg /\ Follows(w, u) /\ At(c, w).kill =>
                   old[i].killed /\ old[i].end <= w[1]
      BY <2>1 DEF ScanFacts, Starts
    <3>2. u \in more /\ u[1] = new[i].start /\ At(c, u).reg = new[i].reg
      BY <2>1, <3>1, <1>1
    <3>3. ASSUME NEW w \in more, At(c, w).reg = new[i].reg, Follows(w, u), At(c, w).kill
          PROVE  new[i].killed /\ new[i].end <= w[1]
      <4>1. CASE i = k
        <5>1. w \notin seen
          BY <4>1, <2>1, <3>1, <3>3, <1>1
        <5>2. w = x
          BY <5>1
        <5> QED BY <4>1, <5>2, <3>3, <1>1, <1>4 DEF o, p
      <4>2. CASE i # k
        <5>1. new[i] = old[i] /\ (old[i].reg = o.reg => old[i].killed) /\ old[i].end <= p
          BY <4>2, <2>1, <1>1
        <5>2. CASE w = x
          BY <5>1, <5>2, <3>3 DEF o, p
        <5>3. CASE w \in seen
          BY <5>1, <5>3, <3>1, <3>3
        <5> QED BY <5>2, <5>3
      <4> QED BY <4>1, <4>2
    <3> QED BY <3>2, <3>3
  <2>2. CASE i \notin DOMAIN old
    <3>1. i = k /\ new[i].start = p
      BY <2>2, <1>1
    <3>2. x \in more /\ x[1] = new[i].start /\ At(c, x).reg = new[i].reg
      BY <3>1, <1>1 DEF o, p
    <3>3. ASSUME NEW w \in more, At(c, w).reg = new[i].reg, Follows(w, x), At(c, w).kill
          PROVE  new[i].killed /\ new[i].end <= w[1]
      <4>1. w = x
        BY <3>3
      <4> QED BY <3>1, <3>3, <4>1, <1>1, <1>4 DEF o, p
    <3> QED BY <3>2, <3>3
  <2> QED BY <2>1, <2>2
<1> QED BY <1>6, <1>7, <1>8, <1>9 DEF ScanFacts, more

(* What the scan has found, while it goes on and until the spills.         *)
ScanInv == stage \in {"scan", "assign", "spill"} => ScanFacts(code, ranges, SeenPlaces)

(* Facts about ranges are facts about where they start and end.            *)
LEMMA SameFacts ==
  ASSUME NEW c, NEW old, NEW new, NEW seen, ScanFacts(c, old, seen),
         DOMAIN new = DOMAIN old,
         \A i \in DOMAIN old :
           /\ new[i].reg = old[i].reg /\ new[i].killed = old[i].killed
           /\ new[i].start = old[i].start /\ new[i].end = old[i].end
  PROVE  ScanFacts(c, new, seen)
<1>1. Found(c, new, seen)
  BY DEF ScanFacts, Found
<1>2. Stays(c, new, seen)
  BY DEF ScanFacts, Stays
<1>3. Spans(c, new, seen)
  BY DEF ScanFacts, Spans, Covers
<1>4. Starts(c, new, seen)
  BY DEF ScanFacts, Starts
<1> QED BY <1>1, <1>2, <1>3, <1>4 DEF ScanFacts

(* The operands seen are those before the one the scan is at.              *)
LEMMA SeenStep ==
  ASSUME Inv, ScanPlace, ScanOperand
  PROVE  LET x == <<pos, oper>>
         IN  /\ DOMAIN code \subseteq Nat
             /\ SeenPlaces \in SUBSET Places(code) /\ x \in Places(code) /\ x \notin SeenPlaces
             /\ \A w \in SeenPlaces : ~Follows(w, x)
             /\ \A w \in Places(code) : w[1] < x[1] => w \in SeenPlaces
             /\ SeenPlaces' = SeenPlaces \union {x}
             /\ At(code, x) = code[pos].regs[oper]
<1> USE DEF Inv
<1> DEFINE x == <<pos, oper>>
<1>1. /\ stage = "scan" /\ stage' = "scan" /\ code' = code /\ pos' = pos
      /\ oper' = oper + 1 /\ pos \in DOMAIN code /\ oper \in DOMAIN code[pos].regs
  BY DEF ScanOperand
<1>2. pos \in Nat /\ oper \in Nat /\ DOMAIN code \subseteq Nat
  BY <1>1, Positions
<1>3. x \in Places(code) /\ x[1] = pos /\ x[2] = oper
  BY <1>1, <1>2 DEF Places
<1>4. \A w \in Places(code) : w[1] \in Nat /\ w[2] \in Nat /\ w = <<w[1], w[2]>>
  BY DEF Places
<1>5. SeenPlaces = {w \in Places(code) : w[1] < pos \/ (w[1] = pos /\ w[2] < oper)}
  BY <1>1 DEF SeenPlaces
<1>6. SeenPlaces' = {w \in Places(code) : w[1] < pos \/ (w[1] = pos /\ w[2] < oper + 1)}
  BY <1>1 DEF SeenPlaces
<1> HIDE DEF x
<1>7. SeenPlaces \in SUBSET Places(code)
  BY <1>5
<1>8. x \notin SeenPlaces
  BY <1>2, <1>3, <1>5
<1>9. \A w \in SeenPlaces : ~Follows(w, x)
  BY <1>2, <1>3, <1>4, <1>5 DEF Follows
<1>10. \A w \in Places(code) : w[1] < x[1] => w \in SeenPlaces
  BY <1>3, <1>5
<1>11. SeenPlaces' = SeenPlaces \union {x}
  <2>1. ASSUME NEW w \in Places(code), w[1] = pos, w[2] = oper PROVE w = x
    <3>1. w = <<pos, oper>>
      BY <2>1, <1>4
    <3> QED BY <3>1 DEF x
  <2>2. ASSUME NEW w \in Places(code)
        PROVE  w \in SeenPlaces' <=> w \in SeenPlaces \union {x}
    <3>1. w[2] < oper + 1 <=> w[2] < oper \/ w[2] = oper
      BY <1>2, <1>4
    <3>2. w \in SeenPlaces' <=> w[1] < pos \/ (w[1] = pos /\ (w[2] < oper \/ w[2] = oper))
      BY <3>1, <1>6
    <3>3. w \in SeenPlaces <=> w[1] < pos \/ (w[1] = pos /\ w[2] < oper)
      BY <1>5
    <3>4. w = x <=> w[1] = pos /\ w[2] = oper
      BY <2>1, <1>3
    <3> QED BY <3>2, <3>3, <3>4
  <2>3. SeenPlaces' \subseteq Places(code) /\ SeenPlaces \union {x} \subseteq Places(code)
    BY <1>3, <1>6, <1>7
  <2> QED BY <2>2, <2>3
<1>12. At(code, x) = code[pos].regs[oper]
  BY <1>3 DEF At
<1> QED BY <1>2, <1>3, <1>7, <1>8, <1>9, <1>10, <1>11, <1>12 DEF x

(* Every step keeps what the scan has found.                               *)
LEMMA ScanInvStep == ASSUME Inv, ScanPlace, ScanInv, [Next]_vars PROVE ScanInv'
<1> USE DEF Inv
<1>1. CASE stage' \notin {"scan", "assign", "spill"}
  BY <1>1 DEF ScanInv
<1>2. CASE stage = "select"
  <2>1. CASE stage' = "scan"
    <3>1. Return
      BY <1>2, <2>1 DEF Next, Generate, Assign, Discard, OpenLogical, CloseLogical,
                Allocate, AllocNext, ScanOperand, ScanInst, ScanEnds, KeepRegister,
                AssignRegister, AssignFails, AssignEnds, PlaceSpills, Run, Execute,
                vars, allocVars
    <3>2. ranges' = <<>> /\ pos' = 1 /\ oper' = 1
      <4>1. ranges = <<>> /\ pos = 1 /\ oper = 1
        BY <1>2 DEF AllocInv, ScanPlace
      <4> QED BY <3>1, <4>1 DEF Return, scanVars
    <3>3. SeenPlaces' = {}
      <4>1. SeenPlaces' = {w \in Places(code') : w[1] < 1 \/ (w[1] = 1 /\ w[2] < 1)}
        BY <2>1, <3>2 DEF SeenPlaces
      <4>2. code' \in Seq(MachInst)
        BY <2>1, StepInv DEF TypeInv
      <4>3. \A w \in Places(code') : w[1] >= 1 /\ w[2] >= 1 /\ w[1] \in Nat /\ w[2] \in Nat
        <5> SUFFICES ASSUME NEW w \in Places(code')
                     PROVE  w[1] >= 1 /\ w[2] >= 1 /\ w[1] \in Nat /\ w[2] \in Nat
          OBVIOUS
        <5>1. w[1] \in DOMAIN code' /\ w[2] \in DOMAIN code'[w[1]].regs
              /\ w[1] \in Nat /\ w[2] \in Nat
          BY DEF Places
        <5>2. code'[w[1]] \in MachInst
          BY <4>2, <5>1
        <5>3. code'[w[1]].regs \in Seq(Operand)
          BY <5>2 DEF MachInst
        <5> QED BY <4>2, <5>1, <5>3
      <4> QED BY <4>1, <4>3
    <3>4. ScanFacts(code, ranges, SeenPlaces)'
      <4>1. DOMAIN ranges' = {}
        BY <3>2
      <4> QED BY <3>3, <4>1 DEF ScanFacts, Found, Stays, Spans, Starts
    <3> QED BY <3>4 DEF ScanInv
  <2>2. CASE stage' # "scan"
    <3>1. stage' = "select"
      BY <1>2, <2>2 DEF Next, Generate, Assign, Discard, OpenLogical, CloseLogical, Return,
                Allocate, AllocNext, ScanOperand, ScanInst, ScanEnds, KeepRegister,
                AssignRegister, AssignFails, AssignEnds, PlaceSpills, Run, Execute,
                vars, allocVars
    <3> QED BY <3>1 DEF ScanInv
  <2> QED BY <2>1, <2>2
<1>3. CASE ScanOperand
  <2> DEFINE x == <<pos, oper>>
  <2>1. ScanFacts(code, ranges, SeenPlaces)
    BY <1>3 DEF ScanInv, ScanOperand
  <2>2. Touches(ranges, ranges', At(code, x), x[1])
    BY <1>3, ScanTouches, SeenStep
  <2>3. ScanFacts(code, ranges', SeenPlaces \union {x})
    <3>1. /\ DOMAIN code \subseteq Nat
          /\ SeenPlaces \in SUBSET Places(code) /\ x \in Places(code) /\ x \notin SeenPlaces
          /\ \A w \in SeenPlaces : ~Follows(w, x)
          /\ \A w \in Places(code) : w[1] < x[1] => w \in SeenPlaces
      BY <1>3, SeenStep
    <3> HIDE DEF x
    <3> QED BY <2>1, <2>2, <3>1, TouchFacts
  <2>4. SeenPlaces' = SeenPlaces \union {x} /\ code' = code
    BY <1>3, SeenStep DEF ScanOperand
  <2> QED BY <2>3, <2>4 DEF ScanInv
<1>4. CASE ScanInst
  <2>1. /\ stage = "scan" /\ code' = code /\ pos' = pos + 1 /\ ranges' = ranges
        /\ pos \in DOMAIN code /\ oper \notin DOMAIN code[pos].regs /\ stage' = "scan"
        /\ oper' = 1
    BY <1>4 DEF ScanInst
  <2>2. pos \in Nat /\ oper \in Nat /\ oper >= 1 /\ oper <= Len(code[pos].regs) + 1
    BY <2>1, Positions DEF ScanPlace
  <2>3. DOMAIN code[pos].regs = 1..Len(code[pos].regs) /\ Len(code[pos].regs) \in Nat
    <3>1. code[pos].regs \in Seq(Operand)
      BY <2>1, CodeAt
    <3> QED BY <3>1
  <2>4. oper = Len(code[pos].regs) + 1
    BY <2>1, <2>2, <2>3
  <2>5. SeenPlaces' = SeenPlaces
    <3>1. SeenPlaces = {w \in Places(code) : w[1] < pos \/ (w[1] = pos /\ w[2] < oper)}
      BY <2>1 DEF SeenPlaces
    <3>2. SeenPlaces' = {w \in Places(code) : w[1] < pos + 1 \/ (w[1] = pos + 1 /\ w[2] < 1)}
      BY <2>1 DEF SeenPlaces
    <3>3. ASSUME NEW w \in Places(code)
          PROVE  (w[1] < pos \/ (w[1] = pos /\ w[2] < oper))
                   <=> (w[1] < pos + 1 \/ (w[1] = pos + 1 /\ w[2] < 1))
      <4>1. w[1] \in Nat /\ w[2] \in Nat /\ w[1] \in DOMAIN code /\ w[2] \in DOMAIN code[w[1]].regs
        BY DEF Places
      <4>2. code[w[1]].regs \in Seq(Operand)
        BY <2>1, <4>1, CodeAt
      <4>3. w[2] >= 1
        BY <4>1, <4>2
      <4>4. w[1] = pos => w[2] < oper
        BY <4>1, <2>3, <2>4
      <4> QED BY <4>1, <4>3, <4>4, <2>2
    <3> QED BY <3>1, <3>2, <3>3
  <2> QED BY <2>1, <2>5 DEF ScanInv
<1>5. CASE ScanEnds
  <2>1. /\ stage = "scan" /\ code' = code /\ ranges' = ranges /\ pos \notin DOMAIN code
        /\ stage' = "assign"
    BY <1>5 DEF ScanEnds
  <2>2. DOMAIN code = 1..Len(code) /\ Len(code) \in Nat /\ pos \in 1..(Len(code) + 1)
    BY <2>1, Positions DEF ScanPlace
  <2>3. \A p \in DOMAIN code : p < pos
    BY <2>1, <2>2
  <2>4. SeenPlaces' = SeenPlaces
    BY <2>1, <2>3 DEF SeenPlaces, Places
  <2> QED BY <2>1, <2>4 DEF ScanInv
<1>6. CASE AssignRegister
  <2>1. /\ stage = "assign" /\ stage' = "assign" /\ code' = code /\ pos' = pos /\ oper' = oper
        /\ next \in DOMAIN ranges /\ ranges \in Seq(LiveRange)
    BY <1>6 DEF AssignRegister, TypeInv, AllocTypeOK
  <2>2. PICK k \in DOMAIN Pool : ranges' = [ranges EXCEPT ![next].alloc = Pool[k]]
    BY <1>6 DEF AssignRegister
  <2>3. \A j \in DOMAIN ranges : ranges[j] \in LiveRange
    BY <2>1
  <2>4. /\ DOMAIN ranges' = DOMAIN ranges
        /\ \A j \in DOMAIN ranges :
             /\ ranges'[j].reg = ranges[j].reg /\ ranges'[j].killed = ranges[j].killed
             /\ ranges'[j].start = ranges[j].start /\ ranges'[j].end = ranges[j].end
    BY <2>1, <2>2, <2>3, SMTT(30) DEF LiveRange
  <2>5. SeenPlaces' = SeenPlaces
    BY <2>1 DEF SeenPlaces
  <2>6. ScanFacts(code, ranges, SeenPlaces)
    BY <2>1 DEF ScanInv
  <2>7. ScanFacts(code, ranges', SeenPlaces)
    BY <2>4, <2>6, SameFacts
  <2> QED BY <2>1, <2>5, <2>7 DEF ScanInv
<1>7. CASE stage # "select" /\ UNCHANGED <<code, pos, oper, ranges>> /\ (stage = "scan" <=> stage' = "scan")
           /\ (stage' = "spill" => stage \in {"assign", "spill"})
           /\ (stage' = "assign" => stage = "assign")
  BY <1>7 DEF ScanInv, SeenPlaces
<1>8. CASE Allocate
  <2>1. AllocNext
    BY <1>8 DEF Allocate
  <2>2. CASE KeepRegister
    BY <2>2, <1>7 DEF KeepRegister
  <2>3. CASE AssignEnds
    BY <2>3, <1>7 DEF AssignEnds
  <2>4. CASE AssignFails \/ PlaceSpills
    BY <2>4, <1>1 DEF AssignFails, PlaceSpills
  <2> QED BY <2>1, <2>2, <2>3, <2>4, <1>3, <1>4, <1>5, <1>6 DEF AllocNext
<1>9. CASE Run \/ Execute
  BY <1>9, <1>1 DEF Run, Execute, allocVars
<1>10. CASE UNCHANGED vars
  BY <1>10, <1>1, <1>2, <1>7 DEF vars, allocVars
<1>11. CASE stage # "select" /\ Next
  BY <1>11, <1>8, <1>9 DEF Next, Generate, Assign, Discard, OpenLogical, CloseLogical, Return
<1> QED BY <1>2, <1>10, <1>11
-----------------------------------------------------------------------------
(* Where the values are.                                                   *)

(* The register of the machine that a register is in, by a table.          *)
Loc(tbl, r) == IF r \in Virtual THEN tbl[r] ELSE r

(* Ranges that the allocator is past have a register; those of virtual     *)
(* registers have one that calls do not preserve.                          *)
AssignInv ==
  /\ stage \in {"select", "scan"} => next = 1
  /\ stage \in {"assign", "spill"} =>
       \A i \in DOMAIN ranges :
         /\ stage = "spill" \/ i < next => ranges[i].alloc # NoRegister
         /\ ranges[i].reg \in Virtual /\ ranges[i].alloc # NoRegister =>
              ranges[i].alloc \in CallerSaved
         /\ stage = "spill" => Loc(table, ranges[i].reg) = ranges[i].alloc

(* Every step keeps this.                                                  *)
LEMMA AssignInvStep == ASSUME Inv, AssignInv, [Next]_vars PROVE AssignInv'
<1> USE DEF Inv
<1>1. CASE stage' \notin {"select", "scan", "assign", "spill"}
  BY <1>1 DEF AssignInv
<1>2. CASE UNCHANGED <<stage, ranges, next, table>>
  BY <1>2 DEF AssignInv, Loc
<1>3. CASE stage \in {"select", "scan"} /\ stage' \in {"select", "scan"} /\ next' = next
  BY <1>3 DEF AssignInv
<1>4. DOMAIN ranges = 1..Len(ranges) /\ Len(ranges) \in Nat /\ ranges \in Seq(LiveRange)
      /\ next \in Nat \ {0}
  BY DEF TypeInv, AllocTypeOK
<1>5. \A i \in DOMAIN ranges : ranges[i] \in LiveRange
  BY <1>4
<1>6. CASE ScanEnds
  <2>1. stage = "scan" /\ stage' = "assign" /\ ranges' = ranges /\ next' = next /\ next = 1
    BY <1>6 DEF ScanEnds, AssignInv
  <2>2. \A i \in DOMAIN ranges : ranges[i].reg \in Virtual => ranges[i].alloc = NoRegister
    BY <2>1 DEF AllocInv
  <2>3. \A i \in DOMAIN ranges : ~(i < next)
    BY <2>1, <1>4
  <2> QED BY <2>1, <2>2, <2>3 DEF AssignInv
<1>7. CASE KeepRegister
  <2>1. stage = "assign" /\ stage' = "assign" /\ ranges' = ranges /\ next' = next + 1
        /\ ranges[next].alloc # NoRegister
    BY <1>7 DEF KeepRegister
  <2>2. \A i \in DOMAIN ranges : i < next + 1 => i < next \/ i = next
    BY <1>4
  <2> QED BY <2>1, <2>2 DEF AssignInv
<1>8. CASE AssignRegister
  <2>1. stage = "assign" /\ stage' = "assign" /\ next' = next + 1 /\ next \in DOMAIN ranges
    BY <1>8 DEF AssignRegister
  <2>2. PICK k \in DOMAIN Pool : ranges' = [ranges EXCEPT ![next].alloc = Pool[k]]
    BY <1>8 DEF AssignRegister
  <2>3. Pool[k] \in CallerSaved /\ Pool[k] # NoRegister
    <3>1. Pool[k] \in Physical
      BY RegistersAssumption
    <3> QED BY <3>1, RegistersAssumption, BackendAssumption
  <2>4. /\ DOMAIN ranges' = DOMAIN ranges
        /\ \A i \in DOMAIN ranges : i # next => ranges'[i] = ranges[i]
        /\ ranges'[next].alloc = Pool[k]
        /\ ranges'[next].reg = ranges[next].reg
    <3>1. ranges[next] \in LiveRange
      BY <2>1, <1>5
    <3> QED BY <2>1, <2>2, <3>1, <1>4 DEF LiveRange
  <2>5. \A i \in DOMAIN ranges : i < next + 1 => i < next \/ i = next
    BY <1>4
  <2> QED BY <2>1, <2>3, <2>4, <2>5 DEF AssignInv
<1>9. CASE AssignEnds
  <2>1. /\ stage = "assign" /\ stage' = "spill" /\ ranges' = ranges /\ next \notin DOMAIN ranges
        /\ table' = [v \in Virtual |->
                       IF \E i \in DOMAIN ranges : ranges[i].reg = v
                       THEN ranges[LastOf(v)].alloc ELSE NoRegister]
    BY <1>9 DEF AssignEnds
  <2>2. \A i \in DOMAIN ranges : i < next
    BY <2>1, <1>4
  <2>3. ASSUME NEW i \in DOMAIN ranges
        PROVE  Loc(table', ranges[i].reg) = ranges[i].alloc
    <3>1. CASE ranges[i].reg \in Virtual
      <4> DEFINE v == ranges[i].reg
      <4>1. table'[v] = ranges[LastOf(v)].alloc
        BY <2>1, <3>1
      <4>2. \A j, k \in DOMAIN ranges : ranges[j].reg = v /\ ranges[k].reg = v => j = k
        BY <3>1, OneRange DEF OneRangeEach
      <4>3. \A j \in (i + 1)..Len(ranges) : ranges[j].reg # v
        <5> SUFFICES ASSUME NEW j \in (i + 1)..Len(ranges), ranges[j].reg = v PROVE FALSE
          OBVIOUS
        <5>1. j \in DOMAIN ranges /\ j # i
          BY <1>4
        <5> QED BY <5>1, <4>2
      <4>4. \E j \in DOMAIN ranges :
              ranges[j].reg = v /\ \A k \in (j + 1)..Len(ranges) : ranges[k].reg # v
        BY <4>3
      <4>5. LastOf(v) \in DOMAIN ranges /\ ranges[LastOf(v)].reg = v
        <5> HIDE DEF v
        <5> QED BY <4>4, Zenon DEF LastOf
      <4>6. LastOf(v) = i
        BY <4>2, <4>5
      <4> QED BY <3>1, <4>1, <4>6 DEF Loc
    <3>2. CASE ranges[i].reg \notin Virtual
      <4>1. ranges[i].reg \in Physical
        BY <1>5, <3>2 DEF LiveRange, Register
      <4> QED BY <3>2, <4>1 DEF Loc, AllocInv
    <3> QED BY <3>1, <3>2
  <2> QED BY <2>1, <2>2, <2>3 DEF AssignInv
<1>10. CASE Allocate
  <2>1. AllocNext
    BY <1>10 DEF Allocate
  <2>2. CASE ScanOperand \/ ScanInst
    BY <2>2, <1>3 DEF ScanOperand, ScanInst
  <2>3. CASE AssignFails \/ PlaceSpills
    BY <2>3, <1>1 DEF AssignFails, PlaceSpills
  <2> QED BY <2>1, <2>2, <2>3, <1>6, <1>7, <1>8, <1>9 DEF AllocNext
<1>11. CASE \E kind \in Selected : Generate(kind)
  BY <1>11, <1>3 DEF Generate
<1>12. CASE Assign \/ Discard \/ (\E or \in BOOLEAN : OpenLogical(or)) \/ CloseLogical \/ Return
  BY <1>12, <1>3 DEF Assign, Discard, OpenLogical, CloseLogical, Return, allocVars
<1>13. CASE Run
  BY <1>13, <1>1 DEF Run
<1>14. CASE Execute \/ UNCHANGED vars
  BY <1>14, <1>2 DEF Execute, vars, allocVars
<1> QED BY <1>10, <1>11, <1>12, <1>13, <1>14 DEF Next

-----------------------------------------------------------------------------
(* What the ranges, with their registers, are good for when calls are      *)
(* surrounded.                                                             *)
Ready == Inv /\ ScanInv /\ AssignInv /\ stage = "spill"

(* Each register in the code has a range there, and is in a register of    *)
(* the machine.                                                            *)
LEMMA RangeThere ==
  ASSUME Ready, NEW p \in DOMAIN code, NEW n \in DOMAIN code[p].regs
  PROVE  /\ \E i \in DOMAIN ranges :
              /\ ranges[i].reg = code[p].regs[n].reg
              /\ ranges[i].start <= p /\ p <= ranges[i].end
         /\ Loc(table, code[p].regs[n].reg) \in Physical
<1> USE DEF Ready, Inv
<1> DEFINE w == <<p, n>>
<1>1. p \in Nat /\ n \in Nat
  BY Positions, CodeAt
<1>2. w \in Places(code) /\ w[1] = p /\ At(code, w) = code[p].regs[n]
  BY <1>1 DEF Places, At
<1>3. w \in SeenPlaces
  BY <1>2 DEF SeenPlaces
<1> HIDE DEF w
<1>4. PICK i \in DOMAIN ranges :
        ranges[i].reg = At(code, w).reg /\ ranges[i].start <= w[1] /\ w[1] <= ranges[i].end
  BY <1>3 DEF ScanInv, ScanFacts, Found
<1>5. ranges[i] \in LiveRange
  BY DEF TypeInv, AllocTypeOK
<1>6. ranges[i].alloc # NoRegister /\ Loc(table, ranges[i].reg) = ranges[i].alloc
  BY DEF AssignInv
<1> QED BY <1>2, <1>4, <1>5, <1>6 DEF LiveRange

(* A register that is carried over a place and used behind it has a range  *)
(* that covers the place.                                                  *)
LEMMA RangeOver ==
  ASSUME Ready, NEW p \in DOMAIN code, NEW r \in Register, Carried(code, p, r),
         NEW q \in DOMAIN code, p < q, NEW n \in DOMAIN code[q].regs, code[q].regs[n].reg = r
  PROVE  \E i \in DOMAIN ranges :
           /\ ranges[i].reg = r /\ Covers(ranges[i], p)
           /\ ranges[i].alloc = Loc(table, r) /\ ranges[i].alloc # NoRegister
           /\ r \in Virtual => ranges[i].alloc \in CallerSaved
<1> USE DEF Ready, Inv
<1> DEFINE w == <<q, n>>
<1>1. q \in Nat /\ n \in Nat /\ p \in Nat
  BY Positions, CodeAt
<1>2. w \in Places(code) /\ w[1] = q /\ At(code, w) = code[q].regs[n]
  BY <1>1 DEF Places, At
<1>3. w \in SeenPlaces /\ w[1] > p /\ At(code, w).reg = r
  BY <1>1, <1>2 DEF SeenPlaces
<1> HIDE DEF w
<1>4. PICK i \in DOMAIN ranges : ranges[i].reg = r /\ Covers(ranges[i], p)
  BY <1>3 DEF ScanInv, ScanFacts, Spans
<1> QED BY <1>4 DEF AssignInv

(* It is then in another register of the machine than what the instruction *)
(* there names,                                                            *)
LEMMA CarriedApart ==
  ASSUME Ready, NEW p \in DOMAIN code, NEW r \in Register, Carried(code, p, r),
         NEW q \in DOMAIN code, p < q, NEW n \in DOMAIN code[q].regs, code[q].regs[n].reg = r,
         NEW m \in DOMAIN code[p].regs, code[p].regs[m].reg # r
  PROVE  Loc(table, r) # Loc(table, code[p].regs[m].reg)
<1> USE DEF Ready, Inv
<1>1. PICK i \in DOMAIN ranges :
        /\ ranges[i].reg = r /\ Covers(ranges[i], p)
        /\ ranges[i].alloc = Loc(table, r) /\ ranges[i].alloc # NoRegister
  BY RangeOver
<1>2. PICK j \in DOMAIN ranges :
        /\ ranges[j].reg = code[p].regs[m].reg
        /\ ranges[j].start <= p /\ p <= ranges[j].end
  BY RangeThere
<1>3. ranges[j].alloc = Loc(table, code[p].regs[m].reg)
  BY <1>2 DEF AssignInv
<1>4. i # j
  BY <1>1, <1>2
<1>5. ranges[i].alloc = ranges[j].alloc =>
        ~OverlapsBounds(ranges[i], ranges[j].start, ranges[j].end)
  BY <1>1, <1>4 DEF AllocInv, AllocDisjoint
<1>6. p \in Nat /\ ranges[i] \in LiveRange /\ ranges[j] \in LiveRange
  BY Positions DEF TypeInv, AllocTypeOK
<1>7. OverlapsBounds(ranges[i], ranges[j].start, ranges[j].end)
  BY <1>1, <1>2, <1>6 DEF OverlapsBounds, Covers, LiveRange
<1> QED BY <1>1, <1>3, <1>5, <1>7

(* A range that covers a place is of a register that is open there.        *)
LEMMA CoversOpen ==
  ASSUME Ready, NEW p \in DOMAIN code, NEW i \in DOMAIN ranges, Covers(ranges[i], p)
  PROVE  OpenTo(code, p, ranges[i].reg)
<1> USE DEF Ready, Inv
<1>1. SeenPlaces = Places(code)
  BY DEF SeenPlaces
<1>2. PICK u \in Places(code) :
        /\ u[1] = ranges[i].start
        /\ At(code, u).reg = ranges[i].reg
        /\ \A w \in Places(code) :
             At(code, w).reg = ranges[i].reg /\ Follows(w, u) /\ At(code, w).kill =>
               ranges[i].killed /\ ranges[i].end <= w[1]
  BY <1>1 DEF ScanInv, ScanFacts, Starts
<1>3. p \in Nat /\ ranges[i] \in LiveRange /\ \A w \in Places(code) : w[1] \in Nat
  BY Positions DEF TypeInv, AllocTypeOK, Places
<1>4. \A w \in Places(code) :
        At(code, w).reg = ranges[i].reg /\ Follows(w, u) /\ w[1] < p => ~At(code, w).kill
  BY <1>2, <1>3 DEF Covers, LiveRange
<1>5. u[1] < p
  BY <1>2, <1>3 DEF Covers, LiveRange
<1> QED BY <1>2, <1>4, <1>5 DEF OpenTo
-----------------------------------------------------------------------------
(* What is in sequences that are put together is in one of them.           *)

Has(s, x) == \E k \in DOMAIN s : s[k] = x

(* So for two.                                                             *)
LEMMA JoinHas ==
  ASSUME NEW S, NEW s \in Seq(S), NEW g \in Seq(S), NEW x
  PROVE  Has(s \o g, x) <=> Has(s, x) \/ Has(g, x)
<1> DEFINE t == s \o g
           n == Len(s)
           m == Len(g)
<1>1. /\ n \in Nat /\ m \in Nat /\ DOMAIN s = 1..n /\ DOMAIN g = 1..m
      /\ DOMAIN t = 1..(n + m)
      /\ \A q \in 1..n : t[q] = s[q]
      /\ \A q \in 1..m : t[n + q] = g[q]
  OBVIOUS
<1> HIDE DEF t, n, m
<1>2. ASSUME NEW q \in 1..(n + m)
      PROVE  (\E r \in 1..n : t[q] = s[r]) \/ \E r \in 1..m : t[q] = g[r]
  <2>1. CASE q <= n
    BY <1>1, <2>1
  <2>2. CASE ~(q <= n)
    <3>1. q - n \in 1..m /\ q = n + (q - n)
      BY <1>1, <2>2
    <3> QED BY <3>1, <1>1
  <2> QED BY <2>1, <2>2
<1>3. \A r \in DOMAIN s : r \in DOMAIN t /\ t[r] = s[r]
  BY <1>1
<1>4. \A r \in DOMAIN g : n + r \in DOMAIN t /\ t[n + r] = g[r]
  BY <1>1
<1>5. Has(t, x) => Has(s, x) \/ Has(g, x)
  BY <1>1, <1>2 DEF Has
<1>6. Has(s, x) \/ Has(g, x) => Has(t, x)
  BY <1>3, <1>4 DEF Has
<1> QED BY <1>5, <1>6 DEF t

(* And for all that FlattenSeq is given.                                   *)
LEMMA FlattenHas ==
  ASSUME NEW S, NEW seqs \in Seq(Seq(S)), NEW x
  PROVE  Has(FlattenSeq(seqs), x) <=> \E i \in DOMAIN seqs : Has(seqs[i], x)
<1> DEFINE n == Len(seqs)
<1>1. n \in Nat /\ DOMAIN seqs = 1..n /\ \A k \in 1..n : seqs[k] \in Seq(S)
  OBVIOUS
<1>2. PICK flat \in [0..n -> Seq(S)] :
        /\ flat[0] = << >>
        /\ \A k \in 1..n : flat[k] = flat[k - 1] \o seqs[k]
        /\ FlattenSeq(seqs) = flat[n]
  BY FlattenIs
<1> HIDE DEF n
<1> DEFINE P(k) == Has(flat[k], x) <=> \E i \in 1..k : Has(seqs[i], x)
           T == {k \in 0..n : ~P(k)}
<1>3. P(0)
  <2>1. DOMAIN flat[0] = {} /\ 1..0 = {}
    BY <1>2
  <2> QED BY <2>1 DEF Has
<1>4. ASSUME NEW k \in 1..n, P(k - 1) PROVE P(k)
  <2>1. k - 1 \in 0..n /\ flat[k - 1] \in Seq(S) /\ seqs[k] \in Seq(S)
    <3>1. k - 1 \in 0..n
      BY <1>1
    <3> QED BY <3>1, <1>1, <1>2
  <2>2. Has(flat[k - 1] \o seqs[k], x) <=> Has(flat[k - 1], x) \/ Has(seqs[k], x)
    BY <2>1, JoinHas
  <2>3. Has(flat[k], x) <=> Has(flat[k - 1], x) \/ Has(seqs[k], x)
    BY <2>2, <1>2
  <2>4. \A i : i \in 1..k <=> i \in 1..(k - 1) \/ i = k
    BY <1>1
  <2> QED BY <1>4, <2>3, <2>4
<1> HIDE DEF P
<1>5. T = {}
  <2> SUFFICES ASSUME T # {} PROVE FALSE
    OBVIOUS
  <2>1. PICK m \in T : \A k \in T : m <= k
    <3>1. T \in SUBSET Nat
      BY <1>1
    <3> HIDE DEF T
    <3> QED BY <3>1, Least
  <2>2. m # 0 /\ m \in 0..n /\ ~P(m)
    BY <2>1, <1>3
  <2>3. m - 1 \in 0..n /\ m - 1 \notin T /\ m \in 1..n
    BY <1>1, <2>1, <2>2
  <2>4. P(m - 1)
    BY <2>3
  <2> QED BY <2>2, <2>3, <2>4, <1>4
<1>6. P(n)
  <2>1. n \in 0..n
    BY <1>1
  <2> QED BY <1>5, <2>1
<1> QED BY <1>1, <1>2, <1>6, Zenon DEF P

(* The registers that are spilled at a place are those of the ranges that  *)
(* cover it.                                                               *)
LEMMA SpilledIs ==
  ASSUME TypeInv, NEW p, NEW x
  PROVE  Has(Spilled(p), x) <=>
           \E i \in DOMAIN ranges :
             Covers(ranges[i], p) /\ ranges[i].alloc \in CallerSaved /\ ranges[i].alloc = x
<1> DEFINE each == [i \in DOMAIN ranges |->
                     IF Covers(ranges[i], p) /\ ranges[i].alloc \in CallerSaved
                     THEN <<ranges[i].alloc>> ELSE << >>]
<1>1. DOMAIN ranges = 1..Len(ranges) /\ Len(ranges) \in Nat
  BY DEF TypeInv, AllocTypeOK
<1>2. \A i \in DOMAIN ranges : each[i] \in Seq(Physical)
  <2> SUFFICES ASSUME NEW i \in DOMAIN ranges PROVE each[i] \in Seq(Physical)
    OBVIOUS
  <2>1. << >> \in Seq(Physical)
    BY EmptySeq
  <2>2. ranges[i].alloc \in CallerSaved => <<ranges[i].alloc>> \in Seq(Physical)
    BY RegistersAssumption
  <2> QED BY <2>1, <2>2
<1>3. each \in Seq(Seq(Physical))
  <2>1. each = [i \in 1..Len(ranges) |-> each[i]]
    BY <1>1
  <2> HIDE DEF each
  <2> QED BY <1>1, <1>2, <2>1
<1>4. Spilled(p) = FlattenSeq(each)
  BY DEF Spilled
<1>5. DOMAIN each = DOMAIN ranges
  OBVIOUS
<1>6. ASSUME NEW i \in DOMAIN ranges
      PROVE  Has(each[i], x) <=>
               Covers(ranges[i], p) /\ ranges[i].alloc \in CallerSaved /\ ranges[i].alloc = x
  <2>1. CASE Covers(ranges[i], p) /\ ranges[i].alloc \in CallerSaved
    <3>1. each[i] = <<ranges[i].alloc>>
      BY <2>1
    <3>2. Has(<<ranges[i].alloc>>, x) <=> ranges[i].alloc = x
      BY DEF Has
    <3> HIDE DEF each
    <3> QED BY <3>1, <3>2, <2>1
  <2>2. CASE ~(Covers(ranges[i], p) /\ ranges[i].alloc \in CallerSaved)
    <3>1. each[i] = << >>
      BY <2>2
    <3>2. ~Has(<< >>, x)
      BY DEF Has
    <3> HIDE DEF each
    <3> QED BY <3>1, <3>2, <2>2
  <2> QED BY <2>1, <2>2
<1> HIDE DEF each
<1>7. Has(FlattenSeq(each), x) <=> \E i \in DOMAIN each : Has(each[i], x)
  BY <1>3, FlattenHas
<1> QED BY <1>4, <1>5, <1>6, <1>7
-----------------------------------------------------------------------------
(* What registers hold, in terms of the values of the graph.  The contents *)
(* C of the registers at a place are facts <<register, shape>>, C.held,    *)
(* and the pairs of values whose comparison is in the flags, C.flags.      *)

Sh(kind, of) == [kind |-> kind, of |-> of]

Val(u) == Sh("value", <<u>>)

(* The value that an operation yields.                                     *)
Shape(e) ==
  Sh(IF e.kind \in {"copy", "ret", "test"} THEN "value" ELSE e.kind,
     IF e.kind = "load" THEN <<e.value>> ELSE e.args)

(* What a shape stands for if the values are as env says.                  *)
Ev(e, s) ==
  LET x == [n \in DOMAIN s.of |-> e[s.of[n]]]
  IN  CASE s.kind = "value" -> x[1]
        [] s.kind \in {"sign", "scale"} -> <<s.kind, x[1]>>
        [] s.kind = "zero" -> <<"zero">>
        [] OTHER -> Term(s.kind, s.of[1], x)

Reg(i, n) == i.regs[n].reg

LastReg(i) == Reg(i, Len(i.regs))

Occurs(i, r) == \E n \in DOMAIN i.regs : Reg(i, n) = r

(* Operand n of i has this shape; is this register.                        *)
Reads(C, i, n, s) == n \in DOMAIN i.regs /\ <<Reg(i, n), s>> \in C.held

To(i, n, r) == n \in DOMAIN i.regs /\ r = Reg(i, n)

(* What an instruction writes.                                             *)
Written(i) ==
  CASE i.op \in {"load", "const", "neg", "scale", "zero", "setg", "pop"} -> {Reg(i, 1)}
    [] i.op \in {"mov", "deref", "add", "sub", "imul", "shl", "cqo"} -> {Reg(i, 2)}
    [] i.op = "div" -> {Reg(i, 2), Reg(i, 3)}
    [] i.op = "call" -> Physical
    [] OTHER -> {}

YieldsFixed(i, r, s) ==
  /\ To(i, 1, r)
  /\ \/ i.op = "load" /\ s = Sh("load", <<r>>)
     \/ i.op = "const" /\ i.eval.kind \in {"true", "false"} /\ s = Sh(i.eval.kind, << >>)
     \/ i.op = "zero" /\ s = Sh("zero", << >>)

YieldsOfOne(i, u, r, s) ==
  \/ i.op = "deref" /\ To(i, 2, r) /\ s = Sh("deref", <<u>>)
  \/ i.op = "cqo"   /\ To(i, 2, r) /\ s = Sh("sign", <<u>>)
  \/ i.op = "neg"   /\ To(i, 1, r) /\ s = Sh("ineg", <<u>>)
  \/ i.op = "scale" /\ To(i, 1, r) /\ s = Sh("scale", <<u>>)

YieldsOfTwo(i, u, w, r, s) ==
  /\ To(i, 2, r)
  /\ \/ i.op = "add"  /\ s = Sh("iadd", <<u, w>>)
     \/ i.op = "sub"  /\ s = Sh("isub", <<w, u>>)
     \/ i.op = "imul" /\ s = Sh("imul", <<w, u>>)
     \/ i.op = "shl"  /\ s = Sh("shift", <<w, u>>)

YieldsDivided(i, u, w, signed, r, s) ==
  /\ Reg(i, 2) = RAX /\ Reg(i, 3) = RDX
  /\ \/ To(i, 2, r) /\ s = Sh(IF signed THEN "sdiv" ELSE "udiv", <<u, w>>)
     \/ To(i, 3, r) /\ s = Sh(IF signed THEN "smod" ELSE "umod", <<u, w>>)

YieldsCalled(i, C, r, s) ==
  /\ To(i, Len(i.regs), r)
  /\ r = RAX
  /\ s \in {Sh(kind, of) : kind \in {"call0", "call1", "call2"}, of \in Seq(Virtual)}
  /\ Len(i.regs) = Len(s.of) + 1
  /\ \A n \in DOMAIN s.of : Reads(C, i, Len(i.regs) - n, Val(s.of[n]))

(* Behind the instruction, register r holds s.                             *)
Yields(i, C, r, s) ==
  \/ YieldsFixed(i, r, s)
  \/ i.op = "mov" /\ To(i, 2, r) /\ Reads(C, i, 1, s)
  \/ \E u, w : <<u, w>> \in C.flags /\ i.op = "setg" /\ To(i, 1, r) /\ s = Sh("less", <<u, w>>)
  \/ \E u : Reads(C, i, 1, Val(u)) /\ YieldsOfOne(i, u, r, s)
  \/ \E u, w : Reads(C, i, 1, Val(u)) /\ Reads(C, i, 2, Val(w)) /\ YieldsOfTwo(i, u, w, r, s)
  \/ \E u, w : /\ i.op = "add" /\ To(i, 2, r) /\ s = Sh("pwalk", <<w, u>>)
               /\ Reads(C, i, 1, Sh("scale", <<u>>)) /\ Reads(C, i, 2, Val(w))
  \/ \E u, w : \E signed \in BOOLEAN :
       /\ i.op = "div" /\ YieldsDivided(i, u, w, signed, r, s)
       /\ Reads(C, i, 1, Val(w)) /\ Reads(C, i, 2, Val(u))
       /\ Reads(C, i, 3, IF signed THEN Sh("sign", <<u>>) ELSE Sh("zero", << >>))
  \/ i.op = "call" /\ YieldsCalled(i, C, r, s)

(* The operation that i completes has its outcome where it is looked for.  *)
Completed(i, C) ==
  LET e == i.eval
  IN  /\ e.kind \in {"copy", "ret", "test"} => 1 \in DOMAIN e.args
      /\ CASE i.op = "store" -> /\ e.kind = "store"
                                /\ Reads(C, i, 2, Val(e.args[1])) /\ Reads(C, i, 1, Val(e.args[2]))
                                /\ DOMAIN e.args = 1..2
           [] i.op \in {"ret", "test"} ->
                /\ Reads(C, i, Len(i.regs), Shape(e))
                /\ e.kind = i.op /\ e.value = NoRegister
                /\ i.op = "ret" => LastReg(i) = RAX
           [] OTHER -> e.kind # "store" /\ Yields(i, C, LastReg(i), Shape(e))

(* From C the instruction leads to D, if it leaves alone the registers     *)
(* kept.                                                                   *)
Moves(i, C, D, kept) ==
  LET e == i.eval
  IN  /\ \A f \in D.held :
           \/ /\ f \in C.held /\ f[1] \in kept
              /\ e.kind = "none" \/ \A n \in DOMAIN f[2].of : f[2].of[n] \in Virtual \ {e.value}
           \/ e.kind = "none" /\ Yields(i, C, f[1], f[2])
           \/ /\ e.kind # "none" /\ i.op \notin {"store", "ret", "test"}
              /\ e.value \in Virtual /\ e.value = LastReg(i)
              /\ f = <<e.value, Val(e.value)>>
      /\ \A f \in D.flags :
           /\ i.op = "cmp" /\ e.kind = "none"
           /\ \E u, w : f = <<u, w>> /\ Reads(C, i, 1, Val(u)) /\ Reads(C, i, 2, Val(w))

-----------------------------------------------------------------------------
(* The code before registers are allocated: C.open are the registers that  *)
(* occur before the place and have not been killed since, B what is held   *)
(* where each block begins.                                                *)
Opened(i, r) ==
  \E n \in DOMAIN i.regs :
    Reg(i, n) = r /\ \A m \in DOMAIN i.regs : m >= n /\ Reg(i, m) = r => ~i.regs[m].kill

Opens(i, o) == {r \in Register : Opened(i, r) \/ (r \in o /\ ~KillsAt(i, r))}

Unkilled(i, o) == {r \in o : r \notin Written(i) /\ ~KillsAt(i, r)}

Follow(i, C, D, B) ==
  /\ D.open = Opens(i, C.open)
  /\ i.op # "call" => \A w \in Written(i) : Occurs(i, w)
  /\ i.op = "call" => RAX \notin C.open /\ Occurs(i, RAX)
  /\ i.op \in {"call", "jmp", "jne"} => i.eval.kind = "none"
  /\ i.eval.kind # "none" => Completed(i, C)
  /\ i.op \in {"jmp", "jne"} => B[i.target] \subseteq C.held
  /\ i.op \notin {"jmp", "ret"} => Moves(i, C, D, Unkilled(i, C.open))

First(c, p) == \A q \in 1..(p - 1) : c[q].block # c[p].block

Typed(c, C, B) ==
  /\ C[1].held = {} /\ C[1].flags = {} /\ C[1].open = {}
  /\ C[Len(c) + 1].held = {} /\ C[Len(c) + 1].flags = {}
  /\ \A p \in DOMAIN c :
       /\ Follow(c[p], C[p], C[p + 1], B)
       /\ First(c, p) => C[p].held \subseteq B[c[p].block] /\ C[p].flags = {}

(* Jumps go ahead.                                                         *)
Forward(c) ==
  \A p \in DOMAIN c :
    c[p].op \in {"jmp", "jne"} => \A q \in 1..p : c[q].block # c[p].target

(* The code that is executed: where registers are is in a table, and       *)
(* C.saved says what is on top of the stack.                               *)
Apart(tbl, i) == {r \in Register : \A w \in Written(i) : Loc(tbl, r) # Loc(tbl, w)}

RealStep(tbl, i, C, D) ==
  CASE i.op = "push" ->
         /\ i.eval.kind = "none"
         /\ D.held \subseteq C.held /\ D.flags = {}
         /\ \A s \in D.saved : \E f \in C.held : Loc(tbl, f[1]) = Reg(i, 1) /\ f[2] = s
    [] i.op = "pop" ->
         /\ i.eval.kind = "none"
         /\ \A f \in D.held : IF Loc(tbl, f[1]) = Reg(i, 1) THEN f[2] \in C.saved ELSE f \in C.held
         /\ D.flags = {} /\ D.saved = {}
    [] OTHER ->
         /\ i.eval.kind # "none" => Completed(i, C)
         /\ i.op \notin {"jmp", "ret"} =>
              /\ Moves(i, C, D, Apart(tbl, i))
              /\ D.saved \subseteq C.saved
              /\ i.eval.kind # "none" => D.saved = {}

Named(tbl, i) == \A n \in DOMAIN i.regs : Loc(tbl, Reg(i, n)) \in Physical

Placed(tbl, C) == \A f \in C.held : f[1] \in Register /\ Loc(tbl, f[1]) \in Physical

RealTyped(tbl, t, S) ==
  /\ S[1].held = {} /\ S[1].flags = {} /\ S[1].saved = {}
  /\ S[Len(t) + 1].held = {} /\ S[Len(t) + 1].flags = {} /\ S[Len(t) + 1].saved = {}
  /\ \A q \in DOMAIN t :
       /\ Placed(tbl, S[q]) /\ Named(tbl, t[q])
       /\ t[q].op \in {"push", "pop"} => t[q].regs[1].reg \in Physical
       /\ RealStep(tbl, t[q], S[q], S[q + 1])
       /\ t[q].op \in {"jmp", "jne"} =>
            \A y \in DOMAIN t :
              t[y].block = t[q].target /\ First(t, y) =>
                S[y].held \subseteq S[q].held /\ S[y].flags = {} /\ S[y].saved = {}

-----------------------------------------------------------------------------
(* What is open is what the code before leaves open.                       *)
LEMMA OpenIs ==
  ASSUME NEW c, NEW n \in Nat, DOMAIN c = 1..n,
         \A p \in 1..n : DOMAIN c[p].regs \subseteq Nat, NEW C,
         C[1].open = {}, \A p \in 1..n : C[p + 1].open = Opens(c[p], C[p].open)
  PROVE  \A p \in 1..(n + 1) : \A r \in Register : r \in C[p].open <=> OpenTo(c, p, r)
<1> DEFINE P(p) == \A r \in Register : r \in C[p].open <=> OpenTo(c, p, r)
           T == {p \in 1..(n + 1) : ~P(p)}
<1>1. P(1)
  <2>1. \A r : ~OpenTo(c, 1, r)
    <3>1. \A u \in Places(c) : u[1] >= 1 /\ u[1] \in Nat
      BY DEF Places
    <3>2. \A u \in Places(c) : ~(u[1] < 1)
      BY <3>1
    <3> QED BY <3>2 DEF OpenTo
  <2> QED BY <2>1
<1>2. ASSUME NEW p \in 1..n, P(p) PROVE P(p + 1)
  <2> SUFFICES ASSUME NEW r \in Register
               PROVE  r \in C[p + 1].open <=> OpenTo(c, p + 1, r)
    OBVIOUS
  <2>1. r \in C[p + 1].open <=> Opened(c[p], r) \/ (OpenTo(c, p, r) /\ ~KillsAt(c[p], r))
    BY <1>2 DEF Opens
  <2>2. \A w \in Places(c) : w[1] \in Nat /\ w[2] \in Nat /\ w[1] \in DOMAIN c
                             /\ w[2] \in DOMAIN c[w[1]].regs /\ w = <<w[1], w[2]>>
    BY DEF Places
  <2>3. \A m \in DOMAIN c[p].regs :
          /\ <<p, m>> \in Places(c)
          /\ At(c, <<p, m>>) = c[p].regs[m]
    BY DEF Places, At
  <2>4. ASSUME Opened(c[p], r) PROVE OpenTo(c, p + 1, r)
    <3>1. PICK m \in DOMAIN c[p].regs :
            /\ Reg(c[p], m) = r
            /\ \A k \in DOMAIN c[p].regs : k >= m /\ Reg(c[p], k) = r => ~c[p].regs[k].kill
      BY <2>4 DEF Opened
    <3> DEFINE u == <<p, m>>
    <3>2. u \in Places(c) /\ u[1] = p /\ u[2] = m /\ At(c, u).reg = r
      BY <2>3, <3>1 DEF Reg
    <3> HIDE DEF u
    <3>3. ASSUME NEW w \in Places(c), At(c, w).reg = r, Follows(w, u), w[1] < p + 1
          PROVE  ~At(c, w).kill
      <4>1. w[1] = p /\ w[2] >= m
        BY <2>2, <3>2, <3>3 DEF Follows
      <4>2. w[2] \in DOMAIN c[p].regs /\ At(c, w) = c[p].regs[w[2]]
        BY <2>2, <4>1 DEF At
      <4> QED BY <3>1, <3>3, <4>1, <4>2 DEF Reg
    <3>4. u[1] < p + 1
      BY <3>2
    <3> QED BY <3>2, <3>3, <3>4 DEF OpenTo
  <2>5. ASSUME OpenTo(c, p, r), ~KillsAt(c[p], r) PROVE OpenTo(c, p + 1, r)
    <3>1. PICK u \in Places(c) :
            /\ u[1] < p
            /\ At(c, u).reg = r
            /\ \A w \in Places(c) :
                 At(c, w).reg = r /\ Follows(w, u) /\ w[1] < p => ~At(c, w).kill
      BY <2>5 DEF OpenTo
    <3>2. ASSUME NEW w \in Places(c), At(c, w).reg = r, Follows(w, u), w[1] < p + 1
          PROVE  ~At(c, w).kill
      <4>1. CASE w[1] < p
        BY <3>1, <3>2, <4>1
      <4>2. CASE w[1] = p
        BY <2>2, <2>5, <3>2, <4>2 DEF KillsAt, At
      <4> QED BY <2>2, <3>2, <4>1, <4>2
    <3>3. u[1] < p + 1
      BY <2>2, <3>1
    <3> QED BY <3>1, <3>2, <3>3 DEF OpenTo
  <2>6. ASSUME OpenTo(c, p + 1, r)
        PROVE  Opened(c[p], r) \/ (OpenTo(c, p, r) /\ ~KillsAt(c[p], r))
    <3>1. PICK u \in Places(c) :
            /\ u[1] < p + 1
            /\ At(c, u).reg = r
            /\ \A w \in Places(c) :
                 At(c, w).reg = r /\ Follows(w, u) /\ w[1] < p + 1 => ~At(c, w).kill
      BY <2>6 DEF OpenTo
    <3>2. CASE u[1] = p
      <4>1. u[2] \in DOMAIN c[p].regs /\ Reg(c[p], u[2]) = r /\ u[2] \in Nat
        BY <2>2, <3>1, <3>2 DEF At, Reg
      <4>2. ASSUME NEW k \in DOMAIN c[p].regs, k >= u[2], Reg(c[p], k) = r
            PROVE  ~c[p].regs[k].kill
        <5> DEFINE w == <<p, k>>
        <5>1. w \in Places(c) /\ At(c, w) = c[p].regs[k] /\ w[1] = p /\ w[2] = k
          BY <2>3
        <5> HIDE DEF w
        <5>2. Follows(w, u) /\ w[1] < p + 1 /\ At(c, w).reg = r
          BY <5>1, <3>2, <4>2 DEF Follows, Reg
        <5> QED BY <5>1, <5>2, <3>1
      <4> QED BY <4>1, <4>2 DEF Opened
    <3>3. CASE u[1] # p
      <4>1. u[1] < p
        BY <2>2, <3>1, <3>3
      <4>2. \A w \in Places(c) :
               At(c, w).reg = r /\ Follows(w, u) /\ w[1] < p => ~At(c, w).kill
        BY <2>2, <3>1
      <4>3. ~KillsAt(c[p], r)
        <5> SUFFICES ASSUME NEW k \in DOMAIN c[p].regs, c[p].regs[k].reg = r, c[p].regs[k].kill
                     PROVE  FALSE
          BY DEF KillsAt
        <5> DEFINE w == <<p, k>>
        <5>1. w \in Places(c) /\ At(c, w) = c[p].regs[k] /\ w[1] = p /\ w[2] = k
          BY <2>3
        <5> HIDE DEF w
        <5>2. Follows(w, u) /\ w[1] < p + 1
          BY <2>2, <5>1, <4>1 DEF Follows
        <5> QED BY <5>1, <5>2, <3>1
      <4> QED BY <3>1, <4>1, <4>2, <4>3 DEF OpenTo
    <3> QED BY <3>2, <3>3
  <2> QED BY <2>1, <2>4, <2>5, <2>6
<1> HIDE DEF P
<1>3. T = {}
  <2> SUFFICES ASSUME T # {} PROVE FALSE
    OBVIOUS
  <2>1. PICK m \in T : \A k \in T : m <= k
    <3>1. T \in SUBSET Nat
      OBVIOUS
    <3> HIDE DEF T
    <3> QED BY <3>1, Least
  <2>2. m # 1 /\ m \in 1..(n + 1) /\ ~P(m)
    BY <2>1, <1>1
  <2>3. m - 1 \in 1..n /\ m - 1 \notin T /\ m - 1 \in 1..(n + 1)
    BY <2>1, <2>2
  <2>4. P(m - 1)
    BY <2>3
  <2>5. P((m - 1) + 1)
    BY <2>3, <2>4, <1>2
  <2>6. (m - 1) + 1 = m
    BY <2>2
  <2> QED BY <2>2, <2>5, <2>6
<1> HIDE DEF T
<1> QED BY <1>3 DEF T, P
-----------------------------------------------------------------------------
(* What holds for 0, and for k + 1 if for k, holds up to n.                *)
LEMMA Climb ==
  ASSUME NEW n \in Nat, NEW T, 0 \in T, \A k \in 1..n : k - 1 \in T => k \in T
  PROVE  \A k \in 0..n : k \in T
<1> DEFINE U == {k \in 0..n : k \notin T}
<1>1. CASE U = {}
  BY <1>1
<1>2. CASE U # {}
  <2>1. PICK m \in U : \A k \in U : m <= k
    <3>1. U \in SUBSET Nat
      OBVIOUS
    <3> HIDE DEF U
    <3> QED BY <1>2, <3>1, Least
  <2>2. m # 0 /\ m \in 0..n /\ m \notin T
    BY <2>1
  <2>3. m - 1 \in 0..n /\ m - 1 \notin U /\ m \in 1..n
    BY <2>1, <2>2
  <2>4. m - 1 \in T
    BY <2>3
  <2> QED BY <2>2, <2>3, <2>4
<1> QED BY <1>1, <1>2

(* Where each of the sequences FlattenSeq is given begins.                 *)
Starting(seqs, t, st) ==
  /\ st[1] = 1
  /\ \A p \in 1..(Len(seqs) + 1) : st[p] \in Nat /\ st[p] >= 1
  /\ \A p \in 1..Len(seqs) : st[p + 1] = st[p] + Len(seqs[p])
  /\ Len(t) = st[Len(seqs) + 1] - 1
  /\ \A p \in 1..Len(seqs) : \A j \in 1..Len(seqs[p]) :
       st[p] + j - 1 \in 1..Len(t) /\ t[st[p] + j - 1] = seqs[p][j]
  /\ \A y \in 1..Len(t) : \E p \in 1..Len(seqs) : \E j \in 1..Len(seqs[p]) : y = st[p] + j - 1
  /\ \A q \in 1..(Len(seqs) + 1) : \A p \in 1..(q - 1) : st[p] + Len(seqs[p]) <= st[q]

(* There are such beginnings.                                              *)
LEMMA FlattenStarts ==
  ASSUME NEW S, NEW seqs \in Seq(Seq(S))
  PROVE  FlattenSeq(seqs) \in Seq(S) /\ \E st : Starting(seqs, FlattenSeq(seqs), st)
<1> DEFINE n == Len(seqs)
<1>1. n \in Nat /\ DOMAIN seqs = 1..n /\ \A k \in 1..n : seqs[k] \in Seq(S)
  OBVIOUS
<1>2. PICK flat \in [0..n -> Seq(S)] :
        /\ flat[0] = << >>
        /\ \A k \in 1..n : flat[k] = flat[k - 1] \o seqs[k]
        /\ FlattenSeq(seqs) = flat[n]
  BY FlattenIs
<1>3. \A k \in 1..n : Len(seqs[k]) \in Nat /\ DOMAIN seqs[k] = 1..Len(seqs[k])
  BY <1>1, SMTT(30)
<1>4. \A k \in 0..n : flat[k] \in Seq(S) /\ Len(flat[k]) \in Nat
  BY <1>2, SMTT(30)
<1> HIDE DEF n
<1> DEFINE st == [p \in 1..(n + 1) |-> Len(flat[p - 1]) + 1]
<1>5. \A p \in 1..(n + 1) : p - 1 \in 0..n /\ st[p] = Len(flat[p - 1]) + 1
  BY <1>1
<1>6. \A k \in 0..n : st[k + 1] = Len(flat[k]) + 1
  BY <1>1
<1>7. \A p \in 1..(n + 1) : st[p] \in Nat /\ st[p] >= 1
  BY <1>4, <1>5
<1> HIDE DEF st
<1>8. \A k \in 1..n :
        /\ Len(flat[k]) = Len(flat[k - 1]) + Len(seqs[k])
        /\ \A q \in 1..Len(flat[k - 1]) : flat[k][q] = flat[k - 1][q]
        /\ \A q \in 1..Len(seqs[k]) : flat[k][Len(flat[k - 1]) + q] = seqs[k][q]
  <2> SUFFICES ASSUME NEW k \in 1..n
               PROVE  /\ Len(flat[k]) = Len(flat[k - 1]) + Len(seqs[k])
                      /\ \A q \in 1..Len(flat[k - 1]) : flat[k][q] = flat[k - 1][q]
                      /\ \A q \in 1..Len(seqs[k]) : flat[k][Len(flat[k - 1]) + q] = seqs[k][q]
    OBVIOUS
  <2>1. k - 1 \in 0..n
    BY <1>1
  <2>2. PICK s \in Seq(S) : s = flat[k - 1]
    BY <2>1, <1>4
  <2>3. PICK g \in Seq(S) : g = seqs[k]
    BY <1>1
  <2>4. flat[k] = s \o g
    BY <1>2, <2>2, <2>3
  <2>5. /\ Len(s \o g) = Len(s) + Len(g)
        /\ \A q \in 1..Len(s) : (s \o g)[q] = s[q]
        /\ \A q \in 1..Len(g) : (s \o g)[Len(s) + q] = g[q]
    OBVIOUS
  <2> QED BY <2>2, <2>3, <2>4, <2>5
<1>9. \A k \in 1..n : st[k + 1] = st[k] + Len(seqs[k]) /\ st[k] = Len(flat[k - 1]) + 1
  <2> SUFFICES ASSUME NEW k \in 1..n
               PROVE  st[k + 1] = st[k] + Len(seqs[k]) /\ st[k] = Len(flat[k - 1]) + 1
    OBVIOUS
  <2>1. k \in 0..n /\ k \in 1..(n + 1) /\ k - 1 \in 0..n
    BY <1>1
  <2>2. st[k + 1] = Len(flat[k]) + 1 /\ st[k] = Len(flat[k - 1]) + 1
    BY <2>1, <1>5, <1>6
  <2>3. Len(flat[k - 1]) \in Nat /\ Len(seqs[k]) \in Nat
        /\ Len(flat[k]) = Len(flat[k - 1]) + Len(seqs[k])
    BY <2>1, <1>3, <1>4, <1>8
  <2> QED BY <2>2, <2>3, <1>1
<1> DEFINE A(k) == \A p \in 1..k : \A j \in 1..Len(seqs[p]) :
                     /\ st[p] + j - 1 \in 1..Len(flat[k])
                     /\ flat[k][st[p] + j - 1] = seqs[p][j]
           E(k) == \A y \in 1..Len(flat[k]) :
                     \E p \in 1..k : \E j \in 1..Len(seqs[p]) : y = st[p] + j - 1
           O(k) == \A p \in 1..k : st[p] + Len(seqs[p]) <= st[k + 1]
           T == {k \in 0..n : A(k) /\ E(k) /\ O(k)}
<1>10. 0 \in T
  <2>1. Len(flat[0]) = 0 /\ 1..0 = {}
    BY <1>2
  <2> QED BY <2>1, <1>1
<1> HIDE DEF A, E, O
<1>11. ASSUME NEW k \in 1..n, k - 1 \in T PROVE k \in T
  <2>1. A(k - 1) /\ E(k - 1) /\ O(k - 1) /\ (k - 1) + 1 = k /\ k \in 0..n /\ k - 1 \in 0..n
    BY <1>1, <1>11
  <2>2. Len(flat[k - 1]) \in Nat /\ Len(flat[k]) \in Nat /\ Len(seqs[k]) \in Nat
        /\ Len(flat[k]) = Len(flat[k - 1]) + Len(seqs[k])
        /\ st[k] = Len(flat[k - 1]) + 1 /\ st[k + 1] = st[k] + Len(seqs[k])
    BY <2>1, <1>3, <1>4, <1>8, <1>9
  <2>3. \A p \in 1..k : p \in 1..(k - 1) \/ p = k
    OBVIOUS
  <2>4. A(k)
    <3> SUFFICES ASSUME NEW p \in 1..k, NEW j \in 1..Len(seqs[p])
                 PROVE  /\ st[p] + j - 1 \in 1..Len(flat[k])
                        /\ flat[k][st[p] + j - 1] = seqs[p][j]
      BY DEF A
    <3>1. CASE p \in 1..(k - 1)
      <4>1. st[p] + j - 1 \in 1..Len(flat[k - 1]) /\ flat[k - 1][st[p] + j - 1] = seqs[p][j]
        BY <2>1, <3>1 DEF A
      <4>2. flat[k][st[p] + j - 1] = flat[k - 1][st[p] + j - 1]
        BY <4>1, <1>8
      <4> QED BY <4>1, <4>2, <2>2, <1>1, SMTT(30)
    <3>2. CASE p = k
      <4>1. st[p] + j - 1 = Len(flat[k - 1]) + j /\ j \in 1..Len(seqs[k])
        BY <2>2, <3>2
      <4>2. flat[k][Len(flat[k - 1]) + j] = seqs[k][j]
        BY <4>1, <1>8
      <4>3. Len(flat[k - 1]) + j \in 1..Len(flat[k])
        BY <4>1, <2>2, <1>1
      <4> QED BY <4>1, <4>2, <4>3, <3>2
    <3> QED BY <2>3, <3>1, <3>2
  <2>5. E(k)
    <3> SUFFICES ASSUME NEW y \in 1..Len(flat[k])
                 PROVE  \E p \in 1..k : \E j \in 1..Len(seqs[p]) : y = st[p] + j - 1
      BY DEF E
    <3>1. CASE y <= Len(flat[k - 1])
      <4>1. PICK p \in 1..(k - 1) : \E j \in 1..Len(seqs[p]) : y = st[p] + j - 1
        <5>1. y \in 1..Len(flat[k - 1])
          BY <3>1, <2>2
        <5> QED BY <5>1, <2>1 DEF E
      <4>2. p \in 1..k
        OBVIOUS
      <4> QED BY <4>1, <4>2
    <3>2. CASE ~(y <= Len(flat[k - 1]))
      <4> DEFINE a == Len(flat[k - 1])
      <4>1. y \in 1..(a + Len(seqs[k])) /\ a \in Nat /\ Len(seqs[k]) \in Nat /\ ~(y <= a)
            /\ st[k] = a + 1
        BY <2>2, <3>2
      <4> HIDE DEF a
      <4>2. y - a \in 1..Len(seqs[k]) /\ y = st[k] + (y - a) - 1
        BY <4>1
      <4>3. k \in 1..k
        BY <1>1
      <4> QED BY <4>2, <4>3
    <3> QED BY <3>1, <3>2
  <2>6. O(k)
    <3> SUFFICES ASSUME NEW p \in 1..k PROVE st[p] + Len(seqs[p]) <= st[k + 1]
      BY DEF O
    <3>1. CASE p \in 1..(k - 1)
      <4>1. st[p] + Len(seqs[p]) <= st[k]
        BY <2>1, <3>1 DEF O
      <4>2. st[p] \in Nat /\ Len(seqs[p]) \in Nat /\ st[k] \in Nat
        <5>1. p \in 1..(n + 1) /\ k \in 1..(n + 1) /\ p \in 1..n
          BY <1>1
        <5> QED BY <5>1, <1>3, <1>7
      <4> QED BY <4>1, <4>2, <2>2, <1>1, SMTT(30)
    <3>2. CASE p = k
      <4>1. st[k + 1] \in Nat
        <5>1. k + 1 \in 1..(n + 1)
          BY <1>1
        <5> QED BY <5>1, <1>7
      <4> QED BY <3>2, <2>2, <4>1
    <3> QED BY <2>3, <3>1, <3>2
  <2> QED BY <2>1, <2>4, <2>5, <2>6
<1> HIDE DEF T
<1>12. \A k \in 0..n : k \in T
  <2> QED BY <1>1, <1>10, <1>11, Climb
<1>13. /\ A(n) /\ E(n)
       /\ \A q \in 1..(n + 1) : \A p \in 1..(q - 1) : st[p] + Len(seqs[p]) <= st[q]
  <2>1. A(n) /\ E(n)
    BY <1>1, <1>12 DEF T
  <2>2. ASSUME NEW q \in 1..(n + 1) PROVE O(q - 1) /\ (q - 1) + 1 = q
    <3>1. q - 1 \in 0..n /\ (q - 1) + 1 = q
      BY <1>1
    <3> QED BY <3>1, <1>12 DEF T
  <2>3. ASSUME NEW q \in 1..(n + 1), NEW p \in 1..(q - 1) PROVE st[p] + Len(seqs[p]) <= st[q]
    BY <2>2 DEF O
  <2> QED BY <2>1, <2>3
<1>14. Len(flat[n]) = st[n + 1] - 1 /\ flat[n] \in Seq(S) /\ st[1] = 1
  <2>1. n \in 0..n /\ 0 \in 0..n /\ Len(flat[0]) = 0 /\ 0 + 1 = 1
    BY <1>1, <1>2
  <2> QED BY <2>1, <1>4, <1>6
<1>15. Starting(seqs, flat[n], st)
  BY <1>7, <1>9, <1>13, <1>14, <1>1 DEF Starting, n, A, E
<1> QED BY <1>2, <1>14, <1>15
-----------------------------------------------------------------------------
(* Placing the spills keeps the code typed.                                *)

(* What an instruction computes depends on what its operands and the flags *)
(* hold.                                                                   *)
Sees(i, C, D) ==
  /\ \A n \in DOMAIN i.regs : \A s : <<Reg(i, n), s>> \in C.held => <<Reg(i, n), s>> \in D.held
  /\ C.flags \subseteq D.flags

(* So it yields the same,                                                  *)
LEMMA YieldsLocal ==
  ASSUME NEW i, NEW C, NEW D, Sees(i, C, D), NEW r, NEW s, Yields(i, C, r, s)
  PROVE  Yields(i, D, r, s)
<1>1. \A n, x : Reads(C, i, n, x) => Reads(D, i, n, x)
  BY DEF Sees, Reads
<1>2. \A u, w : <<u, w>> \in C.flags => <<u, w>> \in D.flags
  BY DEF Sees
<1>3. YieldsCalled(i, C, r, s) => YieldsCalled(i, D, r, s)
  BY <1>1 DEF YieldsCalled
<1>4. CASE YieldsFixed(i, r, s)
  BY <1>4 DEF Yields
<1>5. CASE i.op = "mov" /\ To(i, 2, r) /\ Reads(C, i, 1, s)
  BY <1>1, <1>5 DEF Yields
<1>6. CASE \E u, w : <<u, w>> \in C.flags /\ i.op = "setg" /\ To(i, 1, r) /\ s = Sh("less", <<u, w>>)
  BY <1>2, <1>6 DEF Yields
<1>7. CASE \E u : Reads(C, i, 1, Val(u)) /\ YieldsOfOne(i, u, r, s)
  BY <1>1, <1>7 DEF Yields
<1>8. CASE \E u, w : Reads(C, i, 1, Val(u)) /\ Reads(C, i, 2, Val(w)) /\ YieldsOfTwo(i, u, w, r, s)
  BY <1>1, <1>8 DEF Yields
<1>9. CASE \E u, w : /\ i.op = "add" /\ To(i, 2, r) /\ s = Sh("pwalk", <<w, u>>)
                     /\ Reads(C, i, 1, Sh("scale", <<u>>)) /\ Reads(C, i, 2, Val(w))
  BY <1>1, <1>9 DEF Yields
<1>10. CASE \E u, w : \E signed \in BOOLEAN :
              /\ i.op = "div" /\ YieldsDivided(i, u, w, signed, r, s)
              /\ Reads(C, i, 1, Val(w)) /\ Reads(C, i, 2, Val(u))
              /\ Reads(C, i, 3, IF signed THEN Sh("sign", <<u>>) ELSE Sh("zero", << >>))
  BY <1>1, <1>10 DEF Yields
<1>11. CASE i.op = "call" /\ YieldsCalled(i, C, r, s)
  BY <1>3, <1>11 DEF Yields
<1> QED BY <1>4, <1>5, <1>6, <1>7, <1>8, <1>9, <1>10, <1>11 DEF Yields

(* and its operation is complete as well.                                  *)
LEMMA CompletedLocal ==
  ASSUME NEW i, NEW C, NEW D, Sees(i, C, D), Completed(i, C)
  PROVE  Completed(i, D)
<1>1. \A n, x : Reads(C, i, n, x) => Reads(D, i, n, x)
  BY DEF Sees, Reads
<1>2. \A r, s : Yields(i, C, r, s) => Yields(i, D, r, s)
  BY YieldsLocal
<1> QED BY <1>1, <1>2 DEF Completed

(* Of the facts, those about registers that are used from a place on.      *)
Later(c, p, C) ==
  {f \in C.held : f[1] \in Register /\ \E q \in DOMAIN c : q >= p /\ Occurs(c[q], f[1])}

Needed(c, p, C) == [held |-> Later(c, p, C), flags |-> C.flags, saved |-> {}]

(* An instruction at p sees no difference.                                 *)
LEMMA LaterSeen ==
  ASSUME TypeInv, stage = "spill", NEW p \in DOMAIN code, NEW C
  PROVE  Sees(code[p], C, Needed(code, p, C))
<1>1. p \in Nat
  BY Positions
<1>2. ASSUME NEW n \in DOMAIN code[p].regs, NEW s, <<Reg(code[p], n), s>> \in C.held
      PROVE  <<Reg(code[p], n), s>> \in Later(code, p, C)
  <2> DEFINE f == <<Reg(code[p], n), s>>
  <2>1. f[1] = Reg(code[p], n) /\ f[1] \in Register
    BY CodeAt DEF Operand, Reg
  <2>2. Occurs(code[p], f[1]) /\ p >= p
    BY <1>1, <2>1 DEF Occurs
  <2> QED BY <1>2, <2>1, <2>2 DEF Later
<1> QED BY <1>2 DEF Sees, Needed

(* What is kept over an instruction and used behind it is, in the machine, *)
(* in another register than what it writes.                                *)
LEMMA KeptApart ==
  ASSUME Ready, NEW p \in DOMAIN code, code[p].op # "call",
         \A w \in Written(code[p]) : Occurs(code[p], w),
         NEW o, \A x \in Register : x \in o <=> OpenTo(code, p, x),
         NEW r \in Unkilled(code[p], o),
         NEW q \in DOMAIN code, q > p, Occurs(code[q], r)
  PROVE  r \in Apart(table, code[p])
<1>1. p \in Nat /\ q \in Nat
  BY Positions DEF Ready, Inv
<1>2. PICK n \in DOMAIN code[q].regs : code[q].regs[n].reg = r
  BY DEF Occurs, Reg
<1>3. r \in Register
  BY <1>2, CodeAt DEF Operand, Ready, Inv
<1>4. Carried(code, p, r)
  BY <1>3 DEF Unkilled, Carried
<1>5. ASSUME NEW w \in Written(code[p]) PROVE Loc(table, r) # Loc(table, w)
  <2>1. PICK m \in DOMAIN code[p].regs : code[p].regs[m].reg = w
    BY DEF Occurs, Reg
  <2>2. code[p].regs[m].reg # r
    BY <2>1 DEF Unkilled
  <2> QED BY <1>1, <1>2, <1>3, <1>4, <2>1, <2>2, CarriedApart
<1> QED BY <1>3, <1>5 DEF Apart

(* An instruction that is no call leads on from what is used later.        *)
LEMMA StepReal ==
  ASSUME Ready, NEW p \in DOMAIN code, code[p].op \notin {"call", "push", "pop"},
         NEW C, NEW D, NEW B, Follow(code[p], C, D, B),
         \A x \in Register : x \in C.open <=> OpenTo(code, p, x)
  PROVE  RealStep(table, code[p], Needed(code, p, C), Needed(code, p + 1, D))
<1> DEFINE i == code[p]
           X == Needed(code, p, C)
           Y == Needed(code, p + 1, D)
<1>1. Sees(i, C, X)
  BY LaterSeen DEF Ready, Inv
<1>2. i.eval.kind # "none" => Completed(i, X)
  BY <1>1, CompletedLocal DEF Follow
<1>3. p \in Nat /\ DOMAIN code = 1..Len(code) /\ Len(code) \in Nat
  BY Positions DEF Ready, Inv
<1>4. ASSUME i.op \notin {"jmp", "ret"}
      PROVE  Moves(i, X, Y, Apart(table, i))
  <2>1. Moves(i, C, D, Unkilled(i, C.open))
    BY <1>4 DEF Follow
  <2>2. ASSUME NEW f \in Y.held
        PROVE  \/ /\ f \in X.held /\ f[1] \in Apart(table, i)
                  /\ i.eval.kind = "none" \/ \A n \in DOMAIN f[2].of : f[2].of[n] \in Virtual \ {i.eval.value}
               \/ i.eval.kind = "none" /\ Yields(i, X, f[1], f[2])
               \/ /\ i.eval.kind # "none" /\ i.op \notin {"store", "ret", "test"}
                  /\ i.eval.value \in Virtual /\ i.eval.value = LastReg(i)
                  /\ f = <<i.eval.value, Val(i.eval.value)>>
    <3>1. f \in D.held /\ f[1] \in Register
      BY DEF Needed, Later
    <3>2. PICK q \in DOMAIN code : q >= p + 1 /\ Occurs(code[q], f[1])
      BY DEF Needed, Later
    <3>3. CASE /\ f \in C.held /\ f[1] \in Unkilled(i, C.open)
               /\ i.eval.kind = "none" \/ \A n \in DOMAIN f[2].of : f[2].of[n] \in Virtual \ {i.eval.value}
      <4>1. q > p /\ q >= p
        BY <1>3, <3>2
      <4>2. f \in X.held
        BY <3>1, <3>2, <3>3, <4>1 DEF Needed, Later
      <4>3. f[1] \in Apart(table, i)
        BY <3>2, <3>3, <4>1, KeptApart DEF Follow
      <4> QED BY <3>3, <4>2, <4>3
    <3>4. CASE i.eval.kind = "none" /\ Yields(i, C, f[1], f[2])
      BY <3>4, <1>1, YieldsLocal
    <3> HIDE DEF i
    <3> QED BY <2>1, <3>1, <3>3, <3>4 DEF Moves
  <2>3. Y.flags = D.flags
    BY DEF Needed
  <2>4. \A n, s : Reads(C, i, n, s) => Reads(X, i, n, s)
    BY <1>1 DEF Sees, Reads
  <2> HIDE DEF i, X, Y
  <2> QED BY <2>1, <2>2, <2>3, <2>4 DEF Moves
<1>5. Y.saved \subseteq X.saved /\ Y.saved = {}
  BY DEF Needed
<1>6. i.op # "push" /\ i.op # "pop"
  OBVIOUS
<1> HIDE DEF i, X, Y
<1>7. RealStep(table, i, X, Y)
  BY <1>2, <1>4, <1>5, <1>6 DEF RealStep
<1> QED BY <1>7 DEF i, X, Y

(* A call: what is saved around it, before it and behind it.               *)
Saved(c, p, C, D) ==
  {f[2] : f \in {g \in Later(c, p + 1, D) : g \in C.held /\ g[1] \in Unkilled(c[p], C.open)}}

Before(c, p, C, D) ==
  [held |-> Later(c, p, C), flags |-> {}, saved |-> Saved(c, p, C, D)]

Behind(c, p, C, D) ==
  [held |-> {f \in Later(c, p + 1, D) : Yields(c[p], Before(c, p, C, D), f[1], f[2])},
   flags |-> {}, saved |-> Saved(c, p, C, D)]

(* What is used behind a call was computed by it, or is carried over it in *)
(* a register that is spilled.                                             *)
LEMMA OverCall ==
  ASSUME Ready, NEW p \in DOMAIN code, code[p].op = "call",
         NEW C, NEW D, NEW B, Follow(code[p], C, D, B),
         \A x \in Register : x \in C.open <=> OpenTo(code, p, x),
         NEW f \in Later(code, p + 1, D)
  PROVE  \/ f \in Behind(code, p, C, D).held /\ f[1] = RAX
         \/ /\ f \in Later(code, p, C)
            /\ f[2] \in Saved(code, p, C, D)
            /\ Has(Spilled(p), Loc(table, f[1]))
<1> DEFINE i == code[p]
<1>1. p \in Nat /\ TypeInv
  BY Positions DEF Ready, Inv
<1>2. f \in D.held /\ f[1] \in Register
  BY DEF Later
<1>3. PICK q \in DOMAIN code : q >= p + 1 /\ Occurs(code[q], f[1]) /\ q \in Nat
  BY <1>1, Positions DEF Later, Ready
<1>4. q > p /\ q >= p
  BY <1>1, <1>3
<1>5. i.eval.kind = "none" /\ Moves(i, C, D, Unkilled(i, C.open))
  BY DEF Follow
<1>6. CASE f \in C.held /\ f[1] \in Unkilled(i, C.open)
  <2>1. f \in Later(code, p, C)
    BY <1>2, <1>3, <1>4, <1>6 DEF Later
  <2>2. f[2] \in Saved(code, p, C, D)
    BY <1>6 DEF Saved
  <2>3. f[1] \in Virtual
    <3>1. f[1] \notin Physical
      BY <1>6 DEF Unkilled, Written
    <3> QED BY <1>2, <3>1 DEF Register
  <2>4. Carried(code, p, f[1])
    BY <1>2, <1>6 DEF Unkilled, Carried
  <2>5. PICK m \in DOMAIN code[q].regs : code[q].regs[m].reg = f[1]
    BY <1>3 DEF Occurs, Reg
  <2>6. PICK k \in DOMAIN ranges :
          /\ Covers(ranges[k], p)
          /\ ranges[k].alloc = Loc(table, f[1])
          /\ ranges[k].alloc \in CallerSaved
    BY <1>2, <1>4, <2>3, <2>4, <2>5, RangeOver
  <2>7. Has(Spilled(p), Loc(table, f[1]))
    BY <1>1, <2>6, SpilledIs
  <2> QED BY <2>1, <2>2, <2>7
<1>7. CASE Yields(i, C, f[1], f[2])
  <2>1. YieldsCalled(i, C, f[1], f[2])
    BY <1>7 DEF Yields, YieldsFixed, YieldsOfOne, YieldsOfTwo
  <2>2. Sees(i, C, Needed(code, p, C))
    BY <1>1, LaterSeen DEF Ready
  <2>3. \A n, x : Reads(C, i, n, x) => Reads(Before(code, p, C, D), i, n, x)
    BY <2>2 DEF Sees, Reads, Needed, Before
  <2>4. YieldsCalled(i, Before(code, p, C, D), f[1], f[2]) /\ f[1] = RAX
    BY <2>1, <2>3 DEF YieldsCalled
  <2>5. Yields(i, Before(code, p, C, D), f[1], f[2])
    BY <2>4 DEF Yields
  <2> QED BY <2>4, <2>5 DEF Behind
<1> HIDE DEF i
<1> QED BY <1>2, <1>5, <1>6, <1>7 DEF Moves

(* RAX is not spilled: it does not go on over a call.                      *)
LEMMA ResultUnspilled ==
  ASSUME Ready, NEW p \in DOMAIN code, Occurs(code[p], RAX), ~OpenTo(code, p, RAX)
  PROVE  ~Has(Spilled(p), RAX)
<1> USE DEF Ready, Inv
<1> SUFFICES ASSUME Has(Spilled(p), RAX) PROVE FALSE
  OBVIOUS
<1>1. PICK i \in DOMAIN ranges : Covers(ranges[i], p) /\ ranges[i].alloc = RAX
  BY SpilledIs
<1>2. PICK n \in DOMAIN code[p].regs : code[p].regs[n].reg = RAX
  BY DEF Occurs, Reg
<1>3. PICK j \in DOMAIN ranges :
        ranges[j].reg = RAX /\ ranges[j].start <= p /\ p <= ranges[j].end
  BY <1>2, RangeThere
<1>4. RAX \in Physical /\ RAX \notin Virtual /\ RAX # NoRegister
  BY BackendAssumption, RegistersAssumption
<1>5. ranges[j].alloc = RAX
  BY <1>3, <1>4 DEF AssignInv, Loc
<1>6. p \in Nat /\ ranges[i] \in LiveRange /\ ranges[j] \in LiveRange
  BY Positions DEF TypeInv, AllocTypeOK
<1>7. OverlapsBounds(ranges[i], ranges[j].start, ranges[j].end)
  BY <1>1, <1>3, <1>6 DEF OverlapsBounds, Covers, LiveRange
<1>8. i = j
  BY <1>1, <1>4, <1>5, <1>7 DEF AllocInv, AllocDisjoint
<1>9. OpenTo(code, p, ranges[i].reg)
  BY <1>1, CoversOpen
<1> QED BY <1>3, <1>8, <1>9

(* A call that spills nothing, and one that spills one register.           *)
LEMMA CallReal ==
  ASSUME Ready, NEW p \in DOMAIN code, code[p].op = "call",
         NEW C, NEW D, NEW B, Follow(code[p], C, D, B),
         \A x \in Register : x \in C.open <=> OpenTo(code, p, x)
  PROVE  /\ Spilled(p) = << >> =>
              RealStep(table, code[p], Needed(code, p, C), Needed(code, p + 1, D))
         /\ \A x \in Physical : Spilled(p) = <<x>> =>
              /\ RealStep(table, Push(code[p], x), Needed(code, p, C), Before(code, p, C, D))
              /\ RealStep(table, code[p], Before(code, p, C, D), Behind(code, p, C, D))
              /\ RealStep(table, Pop(code[p], x), Behind(code, p, C, D), Needed(code, p + 1, D))
<1> DEFINE i == code[p]
           X == Needed(code, p, C)
           Y == Needed(code, p + 1, D)
           W == Before(code, p, C, D)
           Z == Behind(code, p, C, D)
<1>1. i.eval.kind = "none" /\ ~OpenTo(code, p, RAX) /\ Occurs(code[p], RAX)
  BY BackendAssumption DEF Follow, Register
<1>2. ~Has(Spilled(p), RAX)
  BY <1>1, ResultUnspilled
<1>3. \A f \in Later(code, p + 1, D) :
         \/ f \in Z.held /\ f[1] = RAX
         \/ /\ f \in Later(code, p, C)
            /\ f[2] \in Saved(code, p, C, D)
            /\ Has(Spilled(p), Loc(table, f[1]))
  BY OverCall
<1>4. D.flags = {}
  <2>1. \A f \in D.flags : i.op = "cmp"
    BY DEF Follow, Moves
  <2> QED BY <2>1
<1>5. ASSUME Spilled(p) = << >> PROVE RealStep(table, i, X, Y)
  <2>1. \A x : ~Has(Spilled(p), x)
    BY <1>5 DEF Has
  <2>2. \A f \in Y.held : Yields(i, W, f[1], f[2])
    BY <1>3, <2>1 DEF Needed, Behind
  <2>3. \A f \in Y.held : Yields(i, X, f[1], f[2])
    <3>1. W.held = X.held /\ W.flags = {}
      BY DEF Needed, Before
    <3>2. Sees(i, W, X)
      BY <3>1 DEF Sees
    <3> QED BY <2>2, <3>2, YieldsLocal
  <2>4. Y.flags = {} /\ Y.saved = {}
    BY <1>4 DEF Needed
  <2> HIDE DEF X, Y
  <2>5. Moves(i, X, Y, Apart(table, i))
    BY <1>1, <2>3, <2>4 DEF Moves
  <2>6. i.op # "push" /\ i.op # "pop"
    OBVIOUS
  <2> HIDE DEF i
  <2> QED BY <1>1, <2>4, <2>5, <2>6 DEF RealStep
<1>6. ASSUME NEW x \in Physical, Spilled(p) = <<x>>
      PROVE  RealStep(table, Push(i, x), X, W) /\ RealStep(table, i, W, Z)
             /\ RealStep(table, Pop(i, x), Z, Y)
  <2>1. \A y : Has(Spilled(p), y) <=> y = x
    BY <1>6 DEF Has
  <2>2. x # RAX
    BY <1>2, <2>1
  <2>3. i \in MachInst
    BY DEF Ready, Inv, TypeInv
  <2>4. /\ Push(i, x).op = "push" /\ Pop(i, x).op = "pop"
        /\ Push(i, x).eval = i.eval /\ Pop(i, x).eval = i.eval
        /\ Reg(Push(i, x), 1) = x /\ Reg(Pop(i, x), 1) = x
    BY <2>3 DEF Push, Pop, Reg, MachInst
  <2>5. \A s \in W.saved : \E f \in X.held : Loc(table, f[1]) = x /\ f[2] = s
    <3> SUFFICES ASSUME NEW s \in Saved(code, p, C, D)
                 PROVE  \E f \in X.held : Loc(table, f[1]) = x /\ f[2] = s
      BY DEF Before
    <3>1. PICK f \in Later(code, p + 1, D) :
            f \in C.held /\ f[1] \in Unkilled(i, C.open) /\ f[2] = s
      BY DEF Saved
    <3>2. f[1] # RAX
      BY BackendAssumption, <3>1 DEF Unkilled, Written
    <3>3. f \in Later(code, p, C) /\ Loc(table, f[1]) = x
      BY <1>3, <2>1, <3>2
    <3> QED BY <3>1, <3>3 DEF Needed
  <2>6. RealStep(table, Push(i, x), X, W)
    <3>1. W.held \subseteq X.held /\ W.flags = {}
      BY DEF Before, Needed
    <3> HIDE DEF W, X, i
    <3> QED BY <1>1, <2>4, <2>5, <3>1 DEF RealStep
  <2>7. RealStep(table, i, W, Z)
    <3>1. \A f \in Z.held : Yields(i, W, f[1], f[2])
      BY DEF Behind
    <3>2. Z.flags = {} /\ Z.saved = W.saved
      BY DEF Behind, Before
    <3> HIDE DEF W, Z
    <3>3. Moves(i, W, Z, Apart(table, i))
      BY <1>1, <3>1, <3>2 DEF Moves
    <3>4. i.op # "push" /\ i.op # "pop"
      OBVIOUS
    <3> HIDE DEF i
    <3> QED BY <1>1, <3>2, <3>3, <3>4 DEF RealStep
  <2>8. RealStep(table, Pop(i, x), Z, Y)
    <3>1. \A f \in Y.held :
            IF Loc(table, f[1]) = x THEN f[2] \in Z.saved ELSE f \in Z.held
      <4>1. Loc(table, RAX) = RAX
        BY BackendAssumption, RegistersAssumption DEF Loc
      <4>2. Y.held = Later(code, p + 1, D) /\ Z.saved = Saved(code, p, C, D)
        BY DEF Needed, Behind
      <4> HIDE DEF Y, Z
      <4> QED BY <1>3, <2>1, <2>2, <4>1, <4>2
    <3>2. Y.flags = {} /\ Y.saved = {}
      BY <1>4 DEF Needed
    <3> HIDE DEF Y, Z, i
    <3> QED BY <1>1, <2>4, <3>1, <3>2 DEF RealStep
  <2> QED BY <2>6, <2>7, <2>8
<1> QED BY <1>5, <1>6
-----------------------------------------------------------------------------
(* Places of sequences put together are of one of them, at one place.      *)
LEMMA OnePlace ==
  ASSUME NEW seqs, Len(seqs) \in Nat, \A p \in 1..Len(seqs) : Len(seqs[p]) \in Nat \ {0},
         NEW t, NEW st, Starting(seqs, t, st),
         NEW p \in 1..Len(seqs), NEW j \in 1..Len(seqs[p]),
         NEW q \in 1..Len(seqs), NEW k \in 1..Len(seqs[q])
  PROVE  /\ st[p] + j - 1 = st[q] + k - 1 => p = q /\ j = k
         /\ p < q => st[p] + j - 1 < st[q] + k - 1
<1> DEFINE n == Len(seqs)
<1>1. /\ p \in 1..(n + 1) /\ q \in 1..(n + 1) /\ n \in Nat
      /\ p < q => p \in 1..(q - 1)
      /\ q < p => q \in 1..(p - 1)
  OBVIOUS
<1>2. st[p] \in Nat /\ st[q] \in Nat
  BY <1>1 DEF Starting
<1>3. p < q => st[p] + Len(seqs[p]) <= st[q]
  BY <1>1 DEF Starting
<1>4. q < p => st[q] + Len(seqs[q]) <= st[p]
  BY <1>1 DEF Starting
<1>5. Len(seqs[p]) \in Nat /\ Len(seqs[q]) \in Nat
  OBVIOUS
<1>6. p < q => st[p] + j - 1 < st[q] + k - 1
  BY <1>2, <1>3, <1>5, SMTT(30)
<1>7. q < p => st[q] + k - 1 < st[p] + j - 1
  BY <1>2, <1>4, <1>5, SMTT(30)
<1>8. p = q => (st[p] + j - 1 = st[q] + k - 1 => j = k)
  BY <1>2, <1>5
<1>9. st[p] + j - 1 \in Int /\ st[q] + k - 1 \in Int
  BY <1>2, <1>5
<1>10. p < q \/ q < p \/ p = q
  BY <1>1
<1> QED BY <1>6, <1>7, <1>8, <1>9, <1>10

(* What two sequences put together are.                                    *)
LEMMA JoinIs ==
  ASSUME NEW S, NEW s \in Seq(S), NEW g \in Seq(S)
  PROVE  /\ s \o g \in Seq(S)
         /\ Len(s) \in Nat /\ Len(g) \in Nat
         /\ Len(s \o g) = Len(s) + Len(g)
         /\ \A q \in 1..Len(s) : (s \o g)[q] = s[q]
         /\ \A q \in 1..Len(g) : (s \o g)[Len(s) + q] = g[q]
<1>1. s \o g \in Seq(S)
  OBVIOUS
<1> QED BY <1>1

(* Three sequences of one element put together.                            *)
LEMMA Three ==
  ASSUME NEW S, NEW f \in Seq(S), NEW h \in Seq(S), NEW g \in Seq(S),
         Len(f) = 1, Len(h) = 1, Len(g) = 1
  PROVE  /\ Len(f \o h \o g) = 3
         /\ (f \o h \o g)[1] = f[1] /\ (f \o h \o g)[2] = h[1] /\ (f \o h \o g)[3] = g[1]
<1> DEFINE e == f \o h
<1>3. /\ e \in Seq(S) /\ Len(e) = Len(f) + Len(h) /\ \A q \in 1..Len(f) : e[q] = f[q]
      /\ \A q \in 1..Len(h) : e[Len(f) + q] = h[q]
  BY JoinIs
<1> HIDE DEF e
<1>1. e \in Seq(S) /\ Len(e) = 2 /\ e[1] = f[1] /\ e[1 + 1] = h[1]
  BY <1>3
<1>7. e \in Seq(S)
  BY <1>1
<1>4. /\ Len(e \o g) = Len(e) + Len(g) /\ \A q \in 1..Len(e) : (e \o g)[q] = e[q]
      /\ \A q \in 1..Len(g) : (e \o g)[Len(e) + q] = g[q]
  BY <1>7, JoinIs
<1> DEFINE t == e \o g
<1> HIDE DEF t
<1>5. /\ Len(t) = Len(e) + Len(g) /\ \A q \in 1..Len(e) : t[q] = e[q]
      /\ \A q \in 1..Len(g) : t[Len(e) + q] = g[q]
  BY <1>4 DEF t
<1>2. Len(t) = 3 /\ t[1] = e[1] /\ t[2] = e[2] /\ t[2 + 1] = g[1]
  BY <1>1, <1>5
<1>6. Len(t) = 3 /\ t[1] = f[1] /\ t[2] = h[1] /\ t[3] = g[1]
  BY <1>1, <1>2
<1> QED BY <1>6 DEF e, t

(* S says of the places of the whole what G says of those of its parts,    *)
(* and of the first behind the last.                                       *)
LaidOut(seqs, t, st, G, S) ==
  /\ S[Len(t) + 1] = G[<<Len(seqs) + 1, 1>>]
  /\ S[1] = G[<<1, 1>>]
  /\ \A p \in 1..Len(seqs) : \A j \in 1..Len(seqs[p]) :
       /\ S[st[p] + j - 1] = G[<<p, j>>]
       /\ S[st[p] + j - 1 + 1] = IF j = Len(seqs[p]) THEN G[<<p + 1, 1>>] ELSE G[<<p, j + 1>>]

(* What is said of every place of the sequences, and of the place behind   *)
(* the last, is said of the places of the whole.                           *)
LEMMA Laid ==
  ASSUME NEW seqs, Len(seqs) \in Nat, \A p \in 1..Len(seqs) : Len(seqs[p]) \in Nat \ {0},
         NEW t, NEW st, Starting(seqs, t, st), NEW G
  PROVE  \E S : LaidOut(seqs, t, st, G, S)
<1> DEFINE n == Len(seqs)
           m == Len(t)
           Is(y, w) == w[2] \in 1..Len(seqs[w[1]]) /\ y = st[w[1]] + w[2] - 1
           W == (1..n) \X Nat
           at(y) == CHOOSE w \in W : Is(y, w)
           S == [y \in 1..(m + 1) |-> IF y = m + 1 THEN G[<<n + 1, 1>>] ELSE G[at(y)]]
<1>1. /\ n \in Nat
      /\ \A p \in 1..n : Len(seqs[p]) \in Nat \ {0}
      /\ \A p \in 1..n : 1 \in 1..Len(seqs[p])
      /\ m = st[n + 1] - 1 /\ st[n + 1] \in Nat /\ st[n + 1] >= 1 /\ st[1] = 1
      /\ \A p \in 1..(n + 1) : st[p] \in Nat
      /\ \A p \in 1..n : st[p + 1] = st[p] + Len(seqs[p])
      /\ \A p \in 1..n : \A j \in 1..Len(seqs[p]) : st[p] + j - 1 \in 1..m
  <2>1. n + 1 \in 1..(n + 1)
    OBVIOUS
  <2> QED BY <2>1 DEF Starting
<1>2. m \in Nat
  BY <1>1
<1>9. ASSUME NEW p \in 1..Len(seqs), NEW j \in 1..Len(seqs[p]),
             NEW q \in 1..Len(seqs), NEW k \in 1..Len(seqs[q]), st[q] + k - 1 = st[p] + j - 1
      PROVE  q = p /\ k = j
  BY <1>9, OnePlace
<1>3. ASSUME NEW p \in 1..n, NEW j \in 1..Len(seqs[p])
      PROVE  S[st[p] + j - 1] = G[<<p, j>>]
  <2> DEFINE y == st[p] + j - 1
             v == <<p, j>>
  <2>1. v \in W /\ Is(y, v)
    BY <1>1, <1>3
  <2>2. \A w \in W : Is(y, w) => w = v
    <3> SUFFICES ASSUME NEW w \in W, Is(y, w) PROVE w = v
      OBVIOUS
    <3>1. w = <<w[1], w[2]>> /\ w[1] \in 1..n /\ w[2] \in 1..Len(seqs[w[1]])
          /\ st[w[1]] + w[2] - 1 = st[p] + j - 1
      OBVIOUS
    <3>2. PICK q \in 1..n : q = w[1]
      BY <3>1
    <3>3. PICK k \in 1..Len(seqs[q]) : k = w[2]
      BY <3>1, <3>2
    <3>4. st[q] + k - 1 = st[p] + j - 1
      BY <3>1, <3>2, <3>3
    <3>5. q = p /\ k = j
      BY <3>4, <1>9
    <3> QED BY <3>1, <3>2, <3>3, <3>4, <3>5
  <2> HIDE DEF Is, W, v
  <2>3. at(y) = v
    BY <2>1, <2>2
  <2>4. y \in 1..m /\ y # m + 1 /\ y \in 1..(m + 1)
    BY <1>1, <1>2, SMTT(30)
  <2> HIDE DEF y, at
  <2>5. S[y] = G[v]
    BY <2>3, <2>4
  <2> QED BY <2>5 DEF y, v
<1>4. S[m + 1] = G[<<n + 1, 1>>]
  <2>1. m + 1 \in 1..(m + 1)
    BY <1>2
  <2> QED BY <2>1
<1> HIDE DEF S
<1>5. S[st[n + 1]] = G[<<n + 1, 1>>]
  BY <1>1, <1>4
<1>6. \A p \in 1..(n + 1) : S[st[p]] = G[<<p, 1>>]
  <2> SUFFICES ASSUME NEW p \in 1..(n + 1) PROVE S[st[p]] = G[<<p, 1>>]
    OBVIOUS
  <2>1. CASE p = n + 1
    BY <1>5, <2>1
  <2>2. CASE p \in 1..n
    <3>1. 1 \in 1..Len(seqs[p]) /\ st[p] + 1 - 1 = st[p]
      BY <1>1, <2>2
    <3> QED BY <1>3, <2>2, <3>1
  <2> QED BY <1>1, <2>1, <2>2
<1>7. ASSUME NEW p \in 1..n, NEW j \in 1..Len(seqs[p])
      PROVE  S[st[p] + j - 1 + 1] = IF j = Len(seqs[p]) THEN G[<<p + 1, 1>>] ELSE G[<<p, j + 1>>]
  <2>1. CASE j = Len(seqs[p])
    <3>1. p + 1 \in 1..(n + 1) /\ p \in 1..(n + 1) /\ Len(seqs[p]) \in Nat
      BY <1>1
    <3>2. st[p] \in Nat /\ st[p + 1] = st[p] + Len(seqs[p]) /\ p \in Nat
      BY <3>1, <1>1
    <3>3. st[p] + j - 1 + 1 = st[p] + j
      BY <3>1, <3>2
    <3>4. st[p] + j - 1 + 1 = st[p + 1]
      BY <2>1, <3>2, <3>3
    <3> QED BY <1>6, <2>1, <3>1, <3>4
  <2>2. CASE j # Len(seqs[p])
    <3>1. p \in 1..(n + 1) /\ Len(seqs[p]) \in Nat
      BY <1>1
    <3>2. st[p] \in Nat
      BY <3>1, <1>1
    <3>3. j + 1 \in 1..Len(seqs[p]) /\ st[p] + j - 1 + 1 = st[p] + (j + 1) - 1
      BY <2>2, <3>1, <3>2
    <3>4. S[st[p] + (j + 1) - 1] = G[<<p, j + 1>>]
      BY <1>3, <3>3
    <3> QED BY <2>2, <3>3, <3>4
  <2> QED BY <2>1, <2>2
<1>8. S[1] = G[<<1, 1>>]
  <2>1. 1 \in 1..(n + 1)
    BY <1>1
  <2> QED BY <1>1, <1>6, <2>1
<1>10. LaidOut(seqs, t, st, G, S)
  BY <1>3, <1>4, <1>7, <1>8 DEF LaidOut
<1> QED BY <1>10

(* What is put around an instruction.                                      *)
LEMMA SurroundForm ==
  ASSUME TypeInv, stage = "spill", NEW p \in DOMAIN code
  PROVE  /\ code[p].op # "call" \/ Spilled(p) = << >> => Surround(p) = <<code[p]>>
         /\ \A x : code[p].op = "call" /\ Spilled(p) = <<x>> =>
                     /\ Len(Surround(p)) = 3
                     /\ Surround(p)[1] = Push(code[p], x) /\ Surround(p)[2] = code[p]
                     /\ Surround(p)[3] = Pop(code[p], x)
         /\ code[p].op = "call" /\ Len(Spilled(p)) >= 2 =>
              1 \in DOMAIN Surround(p) /\ Surround(p)[1].op = "push"
              /\ 2 \in DOMAIN Surround(p) /\ Surround(p)[2].op = "push"
         /\ Spilled(p) = << >> \/ (\E x \in Physical : Spilled(p) = <<x>>) \/ Len(Spilled(p)) >= 2
         /\ Len(Surround(p)) \in Nat \ {0}
<1> DEFINE spill  == Spilled(p)
           pushes == [i \in DOMAIN spill |-> Push(code[p], spill[i])]
           pops   == [i \in DOMAIN spill |-> Pop(code[p], spill[i])]
           n == Len(spill)
           g == Surround(p)
<1>1. code[p] \in MachInst
  BY DEF TypeInv
<1>2. spill \in Seq(Physical) /\ n \in Nat /\ DOMAIN spill = 1..n
  BY SpilledType
<1>3. g = IF code[p].op = "call" THEN pushes \o <<code[p]>> \o pops ELSE <<code[p]>>
  BY DEF Surround
<1> HIDE DEF g, spill
<1>4. \A i \in 1..n : /\ Push(code[p], spill[i]) \in MachInst /\ Pop(code[p], spill[i]) \in MachInst
                      /\ Push(code[p], spill[i]).op = "push"
  BY <1>1, <1>2, PushPopType
<1>5. pushes \in Seq(MachInst) /\ pops \in Seq(MachInst) /\ Len(pushes) = n /\ Len(pops) = n
      /\ \A i \in 1..n : pushes[i] = Push(code[p], spill[i]) /\ pops[i] = Pop(code[p], spill[i])
  <2>1. pushes = [i \in 1..n |-> Push(code[p], spill[i])]
        /\ pops = [i \in 1..n |-> Pop(code[p], spill[i])]
    BY <1>2
  <2> HIDE DEF pushes, pops, n
  <2>2. pushes \in [1..n -> MachInst] /\ pops \in [1..n -> MachInst]
    BY <1>4, <2>1
  <2> QED BY <1>2, <2>1, <2>2
<1> HIDE DEF pushes, pops
<1>6. code[p].op # "call" \/ spill = << >> => g = <<code[p]>>
  <2>1. CASE code[p].op # "call"
    BY <1>3, <2>1
  <2>2. CASE code[p].op = "call"
    <3> SUFFICES ASSUME spill = << >> PROVE g = <<code[p]>>
      BY <2>2
    <3>1. n = 0
      OBVIOUS
    <3>2. pushes = << >> /\ pops = << >>
      BY <3>1, <1>5
    <3>3. << >> \o <<code[p]>> \o << >> = <<code[p]>>
      <4> DEFINE h == <<code[p]>>
      <4>1. h \in Seq(MachInst)
        BY <1>1
      <4> HIDE DEF h
      <4>2. << >> \o h = h /\ h \o << >> = h
        BY <4>1
      <4> QED BY <4>2 DEF h
    <3> QED BY <2>2, <1>3, <3>2, <3>3
  <2> QED BY <2>1, <2>2
<1>7. ASSUME NEW x, code[p].op = "call", spill = <<x>>
      PROVE  Len(g) = 3 /\ g[1] = Push(code[p], x) /\ g[2] = code[p] /\ g[3] = Pop(code[p], x)
  <2>1. n = 1 /\ spill[1] = x
    BY <1>7
  <2> HIDE DEF n
  <2>2. /\ Len(pushes) = 1 /\ pushes[1] = Push(code[p], x)
        /\ Len(pops) = 1 /\ pops[1] = Pop(code[p], x)
    BY <1>5, <2>1
  <2> DEFINE h == <<code[p]>>
  <2>3. h \in Seq(MachInst) /\ Len(h) = 1 /\ h[1] = code[p]
    BY <1>1
  <2>4. g = pushes \o h \o pops
    BY <1>3, <1>7
  <2> HIDE DEF h
  <2>5. /\ Len(pushes \o h \o pops) = 3 /\ (pushes \o h \o pops)[1] = pushes[1]
        /\ (pushes \o h \o pops)[2] = h[1] /\ (pushes \o h \o pops)[3] = pops[1]
    BY <1>5, <2>2, <2>3, Three, SMTT(30)
  <2> QED BY <2>2, <2>3, <2>4, <2>5
<1>8. ASSUME code[p].op = "call", n >= 2
      PROVE  1 \in DOMAIN g /\ g[1].op = "push" /\ 2 \in DOMAIN g /\ g[2].op = "push"
  <2> DEFINE h == <<code[p]>> \o pops
  <2>1. h \in Seq(MachInst) /\ g = pushes \o h
    BY <1>1, <1>3, <1>5, <1>8
  <2> HIDE DEF h
  <2>2. /\ Len(pushes \o h) = Len(pushes) + Len(h) /\ Len(h) \in Nat
        /\ \A k \in 1..Len(pushes) : (pushes \o h)[k] = pushes[k]
        /\ DOMAIN (pushes \o h) = 1..Len(pushes \o h)
    <3> DEFINE f == pushes
    <3>1. f \in Seq(MachInst) /\ h \in Seq(MachInst)
      BY <2>1, <1>5
    <3> HIDE DEF f
    <3>2. /\ Len(f \o h) = Len(f) + Len(h) /\ Len(h) \in Nat
          /\ \A k \in 1..Len(f) : (f \o h)[k] = f[k]
          /\ DOMAIN (f \o h) = 1..Len(f \o h)
      BY <3>1
    <3> QED BY <3>2 DEF f
  <2> HIDE DEF n
  <2>3. 1 \in 1..n /\ 2 \in 1..n
    BY <1>2, <1>8
  <2>4. Len(g) = n + Len(h) /\ Len(h) \in Nat /\ g[1] = pushes[1] /\ g[2] = pushes[2]
        /\ DOMAIN g = 1..Len(g)
    BY <2>1, <2>2, <2>3, <1>5
  <2> QED BY <2>3, <2>4, <1>2, <1>4, <1>5
<1>9. spill = << >> \/ (\E x \in Physical : spill = <<x>>) \/ n >= 2
  <2>1. CASE n = 0
    BY <1>2, <2>1
  <2>2. CASE n = 1
    <3>1. spill = <<spill[1]>> /\ spill[1] \in Physical
      BY <1>2, <2>2
    <3> QED BY <3>1
  <2> QED BY <2>1, <2>2, <1>2
<1>10. Len(g) \in Nat \ {0}
  <2>1. CASE code[p].op # "call"
    BY <1>3, <2>1
  <2>2. CASE code[p].op = "call"
    <3>1. g = pushes \o <<code[p]>> \o pops
      BY <1>3, <2>2
    <3> DEFINE h == <<code[p]>>
    <3>2. h \in Seq(MachInst) /\ Len(h) = 1
      BY <1>1
    <3>3. g = pushes \o h \o pops
      BY <3>1
    <3> HIDE DEF h, n
    <3> DEFINE f == pushes
    <3>7. f \in Seq(MachInst) /\ Len(f) = n
      BY <1>5
    <3> HIDE DEF f
    <3>10. Len(f \o h) = Len(f) + Len(h) /\ f \o h \in Seq(MachInst)
      BY <3>2, <3>7, JoinIs
    <3>8. Len(f \o h) = n + 1 /\ f \o h \in Seq(MachInst)
      BY <3>2, <3>7, <3>10
    <3>4. Len(pushes \o h) = n + 1 /\ pushes \o h \in Seq(MachInst)
      BY <3>8 DEF f
    <3> DEFINE e == pushes \o h
    <3> HIDE DEF e
    <3>9. e \in Seq(MachInst) /\ Len(e) = n + 1
      BY <3>4 DEF e
    <3>5. Len(e \o pops) = Len(e) + Len(pops)
      BY <1>5, <3>9
    <3>6. Len(g) = n + 1 + n
      BY <1>5, <3>3, <3>5, <3>9 DEF e
    <3> QED BY <3>6, <1>2
  <2> QED BY <2>1, <2>2
<1> QED BY <1>6, <1>7, <1>8, <1>9, <1>10 DEF g, spill
-----------------------------------------------------------------------------
(* The contents at instruction j of what is put for instruction p.         *)
Between(c, C, p, j) ==
  IF j = 1 THEN Needed(c, p, C[p])
  ELSE IF j = 2 THEN Before(c, p, C[p], C[p + 1])
  ELSE Behind(c, p, C[p], C[p + 1])

(* What is used from a place on is in a register of the machine.           *)
LEMMA NeededPlaced ==
  ASSUME Ready, NEW p \in Nat, NEW C, NEW f \in Later(code, p, C)
  PROVE  f[1] \in Register /\ Loc(table, f[1]) \in Physical
<1>1. PICK q \in DOMAIN code : Occurs(code[q], f[1])
  BY DEF Later
<1>2. PICK m \in DOMAIN code[q].regs : code[q].regs[m].reg = f[1]
  BY <1>1 DEF Occurs, Reg
<1>3. Loc(table, f[1]) \in Physical
  BY <1>2, RangeThere
<1> QED BY <1>3 DEF Later

(* What is put for an instruction leads from what is needed there to what  *)
(* is needed behind it.                                                    *)
LEMMA AroundReal ==
  ASSUME Ready, Unspilled(code), NEW p \in DOMAIN code, NEW C, NEW B,
         Follow(code[p], C[p], C[p + 1], B),
         \A x \in Register : x \in C[p].open <=> OpenTo(code, p, x),
         ~(code[p].op = "call" /\ Len(Spilled(p)) >= 2),
         NEW j \in 1..Len(Surround(p))
  PROVE  LET i == Surround(p)[j]
         IN  /\ RealStep(table, i, Between(code, C, p, j),
                         IF j = Len(Surround(p)) THEN Between(code, C, p + 1, 1)
                                                 ELSE Between(code, C, p, j + 1))
             /\ Placed(table, Between(code, C, p, j)) /\ Named(table, i)
             /\ i.op \in {"push", "pop"} => i.regs[1].reg \in Physical
             /\ i.op \in {"jmp", "jne"} => j = 1 /\ i = code[p]
             /\ i.block = code[p].block
<1> DEFINE X == Needed(code, p, C[p])
           Y == Needed(code, p + 1, C[p + 1])
           W == Before(code, p, C[p], C[p + 1])
           Z == Behind(code, p, C[p], C[p + 1])
<1>1. TypeInv /\ stage = "spill" /\ p \in Nat /\ code[p] \in MachInst /\ code[p].op \notin {"push", "pop"}
  BY Positions DEF Ready, Inv, TypeInv, Unspilled
<1>2. /\ Between(code, C, p, 1) = X /\ Between(code, C, p + 1, 1) = Y
      /\ Between(code, C, p, 2) = W /\ Between(code, C, p, 3) = Z
  BY DEF Between
<1>3. Placed(table, X) /\ Placed(table, W) /\ Placed(table, Z)
  <2>1. \A f \in Later(code, p, C[p]) : f[1] \in Register /\ Loc(table, f[1]) \in Physical
    BY <1>1, NeededPlaced
  <2>2. \A f \in Later(code, p + 1, C[p + 1]) : f[1] \in Register /\ Loc(table, f[1]) \in Physical
    <3>1. p + 1 \in Nat
      BY <1>1
    <3> QED BY <3>1, NeededPlaced
  <2> QED BY <2>1, <2>2 DEF Placed, Needed, Before, Behind
<1> HIDE DEF X, Y, W, Z
<1>6. Named(table, code[p])
  BY RangeThere DEF Named, Reg
<1>4. CASE code[p].op # "call" \/ Spilled(p) = << >>
  <2>1. Surround(p) = <<code[p]>>
    BY <1>1, <1>4, SurroundForm
  <2>2. j = 1 /\ Len(Surround(p)) = 1 /\ Surround(p)[j] = code[p]
    BY <2>1
  <2>3. RealStep(table, code[p], X, Y)
    <3>1. CASE code[p].op # "call"
      <4>1. code[p].op \notin {"call", "push", "pop"}
        BY <1>1, <3>1
      <4> QED BY <4>1, StepReal DEF X, Y
    <3>2. CASE code[p].op = "call"
      <4>1. Spilled(p) = << >>
        BY <1>4, <3>2
      <4> QED BY <3>2, <4>1, CallReal DEF X, Y
    <3> QED BY <3>1, <3>2
  <2> QED BY <1>1, <1>2, <1>3, <1>6, <2>2, <2>3
<1>5. CASE code[p].op = "call" /\ Spilled(p) # << >>
  <2>1. PICK x \in Physical : Spilled(p) = <<x>>
    BY <1>1, <1>5, SurroundForm
  <2>2. /\ Len(Surround(p)) = 3
        /\ Surround(p)[1] = Push(code[p], x) /\ Surround(p)[2] = code[p]
        /\ Surround(p)[3] = Pop(code[p], x)
    BY <1>1, <1>5, <2>1, SurroundForm
  <2>3. /\ RealStep(table, Push(code[p], x), X, W)
        /\ RealStep(table, code[p], W, Z)
        /\ RealStep(table, Pop(code[p], x), Z, Y)
    BY <1>5, <2>1, CallReal DEF X, Y, W, Z
  <2>4. /\ Push(code[p], x).op = "push" /\ Pop(code[p], x).op = "pop"
        /\ Push(code[p], x).block = code[p].block /\ Pop(code[p], x).block = code[p].block
        /\ Push(code[p], x).regs[1].reg = x /\ Pop(code[p], x).regs[1].reg = x
    BY <1>1 DEF Push, Pop, MachInst
  <2>9. Named(table, Push(code[p], x)) /\ Named(table, Pop(code[p], x))
    <3>1. Loc(table, x) = x
      BY RegistersAssumption DEF Loc
    <3>2. /\ Push(code[p], x).regs = <<[reg |-> x, kill |-> FALSE]>>
          /\ Pop(code[p], x).regs = <<[reg |-> x, kill |-> FALSE]>>
      BY <1>1 DEF Push, Pop, MachInst
    <3> QED BY <3>1, <3>2 DEF Named, Reg
  <2>5. CASE j = 1
    <3>1. j # Len(Surround(p)) /\ j + 1 = 2
      BY <2>2, <2>5
    <3> QED BY <1>2, <1>3, <2>2, <2>3, <2>4, <2>5, <2>9, <3>1
  <2>6. CASE j = 2
    <3>1. j # Len(Surround(p)) /\ j + 1 = 3
      BY <2>2, <2>6
    <3> QED BY <1>2, <1>3, <1>5, <1>6, <2>2, <2>3, <2>4, <2>6, <3>1
  <2>7. CASE j = 3
    BY <1>2, <1>3, <2>2, <2>3, <2>4, <2>7, <2>9
  <2>8. j = 1 \/ j = 2 \/ j = 3
    BY <2>2
  <2> QED BY <2>5, <2>6, <2>7, <2>8
<1> QED BY <1>4, <1>5
-----------------------------------------------------------------------------
(* Typed code stays so when the spills are placed, if no call spills two.  *)
LEMMA PlaceReal ==
  ASSUME Ready, Unspilled(code), NEW C, NEW B, Typed(code, C, B), Forward(code), PlaceSpills
  PROVE  SpillsMany' \/ \E S : RealTyped(table, code', S)
<1> DEFINE seqs == [p \in DOMAIN code |-> Surround(p)]
           t == FlattenSeq(seqs)
           n == Len(code)
<1>1. /\ TypeInv /\ stage = "spill" /\ code' = t
      /\ n \in Nat /\ DOMAIN code = 1..n /\ code \in Seq(MachInst)
  BY Positions DEF Ready, Inv, PlaceSpills, TypeInv
<1>2. \A p \in DOMAIN code : Surround(p) \in Seq(MachInst)
  BY <1>1, SurroundIs DEF Unspilled
<1>3. seqs \in Seq(Seq(MachInst)) /\ Len(seqs) = n /\ \A p \in 1..n : seqs[p] = Surround(p)
  <2>1. seqs = [p \in 1..n |-> Surround(p)]
    BY <1>1
  <2> HIDE DEF seqs, n
  <2>2. seqs \in [1..n -> Seq(MachInst)]
    BY <1>1, <1>2, <2>1
  <2> QED BY <1>1, <2>1, <2>2
<1> HIDE DEF seqs, t
<1>4. PICK st : Starting(seqs, t, st) /\ t \in Seq(MachInst)
  BY <1>3, FlattenStarts DEF t
<1> HIDE DEF n
<1>5. \A p \in 1..n : Len(seqs[p]) \in Nat \ {0}
  BY <1>1, <1>3, SurroundForm
<1>6. /\ DOMAIN t = 1..Len(t) /\ Len(t) \in Nat
      /\ \A p \in 1..n : \A j \in 1..Len(seqs[p]) :
           st[p] + j - 1 \in DOMAIN t /\ t[st[p] + j - 1] = seqs[p][j]
      /\ \A y \in DOMAIN t : \E p \in 1..n : \E j \in 1..Len(seqs[p]) : y = st[p] + j - 1
  <2>1. DOMAIN t = 1..Len(t) /\ Len(t) \in Nat
    BY <1>4
  <2> QED BY <1>3, <1>4, <2>1 DEF Starting
<1>9. \A p \in 1..n : \A j \in 1..Len(seqs[p]) : t[st[p] + j - 1] = seqs[p][j]
  BY <1>6
<1>10. n \in Nat
  BY <1>1
<1>11. Starting(seqs, t, st)
  BY <1>4
<1>7. CASE \E p \in 1..n : code[p].op = "call" /\ Len(Spilled(p)) >= 2
  <2>1. PICK p \in 1..n : code[p].op = "call" /\ Len(Spilled(p)) >= 2
    BY <1>7
  <2>2. /\ 1 \in DOMAIN seqs[p] /\ seqs[p][1].op = "push"
        /\ 2 \in DOMAIN seqs[p] /\ seqs[p][2].op = "push"
    BY <1>1, <1>3, <2>1, SurroundForm
  <2>3. seqs[p] \in Seq(MachInst) /\ st[p] \in Nat
    <3>1. p \in 1..(n + 1)
      BY <1>1
    <3>2. st[p] \in Nat
      BY <1>3, <1>4, <3>1 DEF Starting
    <3>3. seqs[p] \in Seq(MachInst)
      BY <1>1, <1>2, <1>3
    <3> QED BY <3>2, <3>3
  <2>4. 1 \in 1..Len(seqs[p]) /\ 2 \in 1..Len(seqs[p])
    BY <2>2, <2>3
  <2>5. /\ st[p] + 1 - 1 \in DOMAIN t /\ t[st[p] + 1 - 1].op = "push"
        /\ st[p] + 2 - 1 \in DOMAIN t /\ t[st[p] + 2 - 1].op = "push"
    BY <1>6, <2>2, <2>4
  <2>6. st[p] + 1 - 1 = st[p] /\ st[p] + 2 - 1 = st[p] + 1
    BY <2>3
  <2>7. \A q \in st[p]..(st[p] + 1) : t[q].op = "push"
    <3>1. \A q \in st[p]..(st[p] + 1) : q = st[p] \/ q = st[p] + 1
      BY <2>3
    <3> QED BY <2>5, <2>6, <3>1
  <2>8. st[p] < st[p] + 1
    BY <2>3
  <2>9. \E y, q \in DOMAIN t : y < q /\ \A m \in y..q : t[m].op = "push"
    BY <2>5, <2>6, <2>7, <2>8
  <2> QED BY <1>1, <2>9 DEF SpillsMany
<1>8. CASE ~ \E p \in 1..n : code[p].op = "call" /\ Len(Spilled(p)) >= 2
  <2> DEFINE G == [w \in (1..(n + 1)) \X (1..3) |-> Between(code, C, w[1], w[2])]
  <2>1. \A p \in 1..(n + 1) : \A j \in 1..3 : G[<<p, j>>] = Between(code, C, p, j)
    OBVIOUS
  <2> HIDE DEF G
  <2>2. \A p \in 1..n : Follow(code[p], C[p], C[p + 1], B)
    BY <1>1 DEF Typed
  <2>3. \A p \in 1..(n + 1) : \A x \in Register : x \in C[p].open <=> OpenTo(code, p, x)
    <3>1. C[1].open = {} /\ \A p \in 1..n : C[p + 1].open = Opens(code[p], C[p].open)
      BY <2>2 DEF Typed, Follow
    <3>2. \A p \in 1..n : DOMAIN code[p].regs \subseteq Nat
      BY <1>1, CodeAt
    <3> QED BY <1>1, <3>1, <3>2, OpenIs
  <2>4. \A p \in 1..n : Len(seqs[p]) \in 1..3
    <3> SUFFICES ASSUME NEW p \in 1..n PROVE Len(Surround(p)) \in 1..3
      BY <1>3
    <3>1. Len(<<code[p]>>) = 1
      OBVIOUS
    <3>2. Spilled(p) = << >> \/ (\E x \in Physical : Spilled(p) = <<x>>) \/ code[p].op # "call"
      BY <1>1, <1>8, SurroundForm
    <3> QED BY <1>1, <3>1, <3>2, SurroundForm
  <2>13. \A p \in 1..n : \A j \in 1..Len(seqs[p]) :
           /\ p \in 1..(n + 1) /\ p + 1 \in 1..(n + 1) /\ j \in 1..3 /\ 1 \in 1..3
           /\ j # Len(seqs[p]) => j + 1 \in 1..3
    <3>1. \A x \in 1..3 : \A j \in 1..x : j \in 1..3 /\ (j # x => j + 1 \in 1..3)
      OBVIOUS
    <3>2. \A p \in 1..n : p \in 1..(n + 1) /\ p + 1 \in 1..(n + 1)
      BY <1>10
    <3>3. 1 \in 1..3
      OBVIOUS
    <3> QED BY <2>4, <3>1, <3>2, <3>3, Zenon
  <2>5. ASSUME NEW p \in 1..n, NEW j \in 1..Len(seqs[p])
        PROVE  /\ RealStep(table, seqs[p][j], G[<<p, j>>],
                           IF j = Len(seqs[p]) THEN G[<<p + 1, 1>>] ELSE G[<<p, j + 1>>])
               /\ Placed(table, G[<<p, j>>]) /\ Named(table, seqs[p][j])
               /\ seqs[p][j].op \in {"push", "pop"} => seqs[p][j].regs[1].reg \in Physical
               /\ seqs[p][j].op \in {"jmp", "jne"} => j = 1 /\ seqs[p][j] = code[p]
               /\ seqs[p][j].block = code[p].block
    <3>1. p \in DOMAIN code /\ seqs[p] = Surround(p) /\ j \in 1..Len(Surround(p))
      BY <1>1, <1>3
    <3>2. /\ p \in 1..(n + 1) /\ p + 1 \in 1..(n + 1) /\ j \in 1..3 /\ 1 \in 1..3
          /\ j # Len(seqs[p]) => j + 1 \in 1..3
      BY <2>13
    <3>3. /\ G[<<p, j>>] = Between(code, C, p, j)
          /\ G[<<p + 1, 1>>] = Between(code, C, p + 1, 1)
          /\ j # Len(seqs[p]) => G[<<p, j + 1>>] = Between(code, C, p, j + 1)
      BY <2>1, <3>2
    <3>4. \A x \in Register : x \in C[p].open <=> OpenTo(code, p, x)
      BY <2>3, <3>2
    <3>5. ~(code[p].op = "call" /\ Len(Spilled(p)) >= 2) /\ Follow(code[p], C[p], C[p + 1], B)
      BY <1>8, <2>2
    <3> DEFINE i == Surround(p)[j]
    <3>6. /\ RealStep(table, i, Between(code, C, p, j),
                      IF j = Len(Surround(p)) THEN Between(code, C, p + 1, 1)
                                              ELSE Between(code, C, p, j + 1))
          /\ Placed(table, Between(code, C, p, j)) /\ Named(table, i)
          /\ i.op \in {"push", "pop"} => i.regs[1].reg \in Physical
          /\ i.op \in {"jmp", "jne"} => j = 1 /\ i = code[p]
          /\ i.block = code[p].block
      BY <3>1, <3>4, <3>5, AroundReal
    <3>7. seqs[p][j] = i
      BY <3>1
    <3> HIDE DEF i
    <3> QED BY <3>1, <3>3, <3>6, <3>7
  <2>11. \A p \in 1..n : \A j \in 1..Len(seqs[p]) : t[st[p] + j - 1].block = code[p].block
    <3>1. \A p \in 1..n : \A j \in 1..Len(seqs[p]) : seqs[p][j].block = code[p].block
      BY <2>5
    <3> QED BY <1>9, <3>1
  <2>6. PICK S :
          /\ S[Len(t) + 1] = G[<<n + 1, 1>>]
          /\ S[1] = G[<<1, 1>>]
          /\ \A p \in 1..n : \A j \in 1..Len(seqs[p]) :
               /\ S[st[p] + j - 1] = G[<<p, j>>]
               /\ S[st[p] + j - 1 + 1] = IF j = Len(seqs[p]) THEN G[<<p + 1, 1>>]
                                                             ELSE G[<<p, j + 1>>]
    <3>1. Len(seqs) \in Nat /\ \A p \in 1..Len(seqs) : Len(seqs[p]) \in Nat \ {0}
      BY <1>1, <1>3, <1>5
    <3>2. PICK S : LaidOut(seqs, t, st, G, S)
      BY <1>11, <3>1, Laid
    <3> QED BY <1>3, <3>2 DEF LaidOut
  <2>7. /\ \A f : f \notin S[1].held
        /\ S[1].held = {} /\ S[1].flags = {} /\ S[1].saved = {}
        /\ S[Len(t) + 1].held = {} /\ S[Len(t) + 1].flags = {} /\ S[Len(t) + 1].saved = {}
    <3>1. S[1] = Needed(code, 1, C[1]) /\ S[Len(t) + 1] = Needed(code, n + 1, C[n + 1])
      <4>1. 1 \in 1..(n + 1) /\ n + 1 \in 1..(n + 1) /\ 1 \in 1..3
        BY <1>1
      <4> QED BY <2>1, <2>6, <4>1 DEF Between
    <3>2. C[1].held = {} /\ C[1].flags = {} /\ C[n + 1].held = {} /\ C[n + 1].flags = {}
      BY <1>1 DEF Typed, n
    <3> QED BY <3>1, <3>2 DEF Needed, Later
  <2>8. ASSUME NEW y \in DOMAIN t, First(t, y)
        PROVE  \E p \in 1..n : /\ S[y] = Needed(code, p, C[p]) /\ First(code, p)
                               /\ t[y].block = code[p].block
    <3>0. PICK p \in 1..n : \E j \in 1..Len(seqs[p]) : y = st[p] + j - 1
      BY <1>6
    <3>1. PICK j \in 1..Len(seqs[p]) : y = st[p] + j - 1
      BY <3>0
    <3>2. st[p] \in Nat /\ p \in 1..(n + 1) /\ Len(seqs[p]) \in Nat
      <4>1. p \in 1..(n + 1)
        BY <1>1
      <4> QED BY <1>3, <1>4, <1>5, <4>1 DEF Starting
    <3>3. t[y].block = code[p].block
      BY <2>11, <3>1
    <3>4. j = 1
      <4> SUFFICES ASSUME j # 1 PROVE FALSE
        OBVIOUS
      <4>1. 1 \in 1..Len(seqs[p]) /\ st[p] + 1 - 1 \in 1..(y - 1)
        <5>1. st[p] + 1 - 1 \in DOMAIN t /\ 1 \in 1..Len(seqs[p])
          BY <1>6, <3>1, <3>2
        <5>2. st[p] + 1 - 1 >= 1
          BY <5>1, <1>6
        <5> QED BY <5>1, <5>2, <3>1, <3>2
      <4> DEFINE a == st[p] + 1 - 1
      <4>2. t[a].block = code[p].block /\ a \in 1..(y - 1)
        BY <2>11, <4>1
      <4> HIDE DEF a
      <4> QED BY <2>8, <3>3, <4>2 DEF First
    <3>5. S[y] = Needed(code, p, C[p])
      <4>1. 1 \in 1..3
        OBVIOUS
      <4> QED BY <2>1, <2>6, <3>1, <3>2, <3>4, <4>1 DEF Between
    <3>6. First(code, p)
      <4> SUFFICES ASSUME NEW q \in 1..(p - 1), code[q].block = code[p].block PROVE FALSE
        BY DEF First
      <4>1. q \in 1..n /\ 1 \in 1..Len(seqs[q])
        <5>1. q \in 1..n
          BY <1>1
        <5> QED BY <1>5, <5>1
      <4>2. st[q] + 1 - 1 < st[p] + j - 1
        <5>1. Len(seqs) \in Nat /\ \A x \in 1..Len(seqs) : Len(seqs[x]) \in Nat \ {0}
          BY <1>1, <1>3, <1>5
        <5>2. q < p
          BY <1>1
        <5>3. q \in 1..Len(seqs) /\ p \in 1..Len(seqs)
          BY <1>3, <4>1
        <5>4. q < p => st[q] + 1 - 1 < st[p] + j - 1
          BY <5>1, <5>3, <1>4, <4>1, OnePlace
        <5> QED BY <5>2, <5>4
      <4> DEFINE a == st[q] + 1 - 1
      <4>3. a \in DOMAIN t /\ t[a].block = code[q].block /\ a < y
        BY <1>6, <2>11, <3>1, <4>1, <4>2
      <4> HIDE DEF a
      <4>4. a \in 1..(y - 1)
        BY <1>6, <4>3
      <4> QED BY <2>8, <3>3, <4>3, <4>4 DEF First
    <3> QED BY <3>3, <3>5, <3>6
  <2>9. ASSUME NEW y \in DOMAIN t
        PROVE  /\ Placed(table, S[y]) /\ Named(table, t[y])
               /\ t[y].op \in {"push", "pop"} => t[y].regs[1].reg \in Physical
               /\ RealStep(table, t[y], S[y], S[y + 1])
               /\ t[y].op \in {"jmp", "jne"} =>
                    \A z \in DOMAIN t :
                      t[z].block = t[y].target /\ First(t, z) =>
                        S[z].held \subseteq S[y].held /\ S[z].flags = {} /\ S[z].saved = {}
    <3>0. PICK p \in 1..n : \E j \in 1..Len(seqs[p]) : y = st[p] + j - 1
      BY <1>6
    <3>1. PICK j \in 1..Len(seqs[p]) : y = st[p] + j - 1
      BY <3>0
    <3>2. /\ t[y] = seqs[p][j] /\ S[y] = G[<<p, j>>]
          /\ S[y + 1] = IF j = Len(seqs[p]) THEN G[<<p + 1, 1>>] ELSE G[<<p, j + 1>>]
      BY <1>6, <2>6, <3>1
    <3>3. ASSUME t[y].op \in {"jmp", "jne"},
                 NEW z \in DOMAIN t, t[z].block = t[y].target, First(t, z)
          PROVE  S[z].held \subseteq S[y].held /\ S[z].flags = {} /\ S[z].saved = {}
      <4>1. j = 1 /\ t[y] = code[p]
        BY <2>5, <3>2, <3>3
      <4>2. S[y] = Needed(code, p, C[p])
        <5>1. p \in 1..(n + 1) /\ 1 \in 1..3
          BY <1>1
        <5> QED BY <2>1, <3>2, <4>1, <5>1 DEF Between
      <4>3. PICK q \in 1..n : /\ S[z] = Needed(code, q, C[q]) /\ First(code, q)
                              /\ t[z].block = code[q].block
        BY <2>8, <3>3
      <4>4. code[q].block = code[p].target /\ code[p].op \in {"jmp", "jne"}
        BY <3>3, <4>1, <4>3
      <4>5. q > p
        <5>1. q \notin 1..p
          BY <1>1, <4>4 DEF Forward
        <5> QED BY <1>1, <5>1
      <4>6. C[q].held \subseteq B[code[q].block] /\ C[q].flags = {}
        BY <1>1, <4>3 DEF Typed
      <4>7. B[code[p].target] \subseteq C[p].held
        BY <2>2, <4>4 DEF Follow
      <4>8. Later(code, q, C[q]) \subseteq Later(code, p, C[p])
        <5>1. \A x \in DOMAIN code : x >= q => x >= p
          BY <1>1, <4>5
        <5> QED BY <4>4, <4>6, <4>7, <5>1 DEF Later
      <4> QED BY <4>2, <4>3, <4>6, <4>8 DEF Needed
    <3> QED BY <2>5, <3>1, <3>2, <3>3
  <2>10. RealTyped(table, t, S)
    BY <2>7, <2>9 DEF RealTyped
  <2> QED BY <1>1, <2>10
<1> QED BY <1>7, <1>8
-----------------------------------------------------------------------------
(* Executing typed code.                                                   *)

(* What a shape has is what it was made of.                                *)
LEMMA ShHas == \A kind, of : Sh(kind, of).kind = kind /\ Sh(kind, of).of = of
BY DEF Sh

(* What a value stands for.                                                *)
LEMMA EvVal ==
  ASSUME NEW e, NEW u
  PROVE  Ev(e, Val(u)) = e[u]
<1>1. [n \in DOMAIN <<u>> |-> e[<<u>>[n]]][1] = e[u]
  OBVIOUS
<1>2. Val(u).kind = "value" /\ Val(u).of = <<u>>
  BY DEF Val, Sh
<1> QED BY <1>1, <1>2 DEF Ev

(* The shapes of one value.                                                *)
LEMMA EvOne ==
  ASSUME NEW e, NEW u
  PROVE  /\ Ev(e, Sh("sign", <<u>>)) = <<"sign", e[u]>>
         /\ Ev(e, Sh("scale", <<u>>)) = <<"scale", e[u]>>
         /\ Ev(e, Sh("load", <<u>>)) = <<"load", u>>
         /\ Ev(e, Sh("deref", <<u>>)) = <<"deref", e[u]>>
         /\ Ev(e, Sh("ineg", <<u>>)) = <<"neg", e[u]>>
<1> DEFINE x == [n \in DOMAIN <<u>> |-> e[<<u>>[n]]]
<1>1. x[1] = e[u]
  OBVIOUS
<1>2. <<u>>[1] = u
  OBVIOUS
<1>3. \A kind : Ev(e, Sh(kind, <<u>>)) =
        CASE kind = "value" -> x[1]
          [] kind \in {"sign", "scale"} -> <<kind, x[1]>>
          [] kind = "zero" -> <<"zero">>
          [] OTHER -> Term(kind, u, x)
  BY <1>2, ShHas DEF Ev
<1> HIDE DEF x
<1>4. /\ Ev(e, Sh("sign", <<u>>)) = <<"sign", x[1]>>
      /\ Ev(e, Sh("scale", <<u>>)) = <<"scale", x[1]>>
  BY <1>3
<1>5. \A kind \in {"load", "deref", "ineg"} : Ev(e, Sh(kind, <<u>>)) = Term(kind, u, x)
  BY <1>3
<1>6. /\ Term("load", u, x) = <<"load", u>>
      /\ Term("deref", u, x) = <<"deref", x[1]>>
      /\ Term("ineg", u, x) = <<"neg", x[1]>>
  BY DEF Term
<1> QED BY <1>1, <1>4, <1>5, <1>6

(* The shapes of no value.                                                 *)
LEMMA EvNone ==
  ASSUME NEW e
  PROVE  /\ Ev(e, Sh("zero", << >>)) = <<"zero">>
         /\ Ev(e, Sh("true", << >>)) = <<"true">>
         /\ Ev(e, Sh("false", << >>)) = <<"false">>
<1> DEFINE z == [n \in DOMAIN << >> |-> e[<< >>[n]]]
<1>1. \A kind : kind \in {"true", "false"} => Ev(e, Sh(kind, << >>)) = Term(kind, << >>[1], z)
  BY ShHas DEF Ev
<1>2. Ev(e, Sh("zero", << >>)) = <<"zero">>
  BY ShHas DEF Ev
<1> HIDE DEF z
<1>3. \A o : Term("true", o, z) = <<"true">> /\ Term("false", o, z) = <<"false">>
  BY DEF Term
<1> QED BY <1>1, <1>2, <1>3

(* The shapes of two values.                                               *)
LEMMA EvTwo ==
  ASSUME NEW e, NEW u, NEW w
  PROVE  \E y : /\ y[1] = e[u] /\ y[2] = e[w]
                /\ \A kind : kind \notin {"value", "sign", "scale", "zero"} =>
                     Ev(e, Sh(kind, <<u, w>>)) = Term(kind, u, y)
<1> DEFINE y == [n \in DOMAIN <<u, w>> |-> e[<<u, w>>[n]]]
<1>1. y[1] = e[u] /\ y[2] = e[w]
  OBVIOUS
<1>2. <<u, w>>[1] = u
  OBVIOUS
<1>3. \A kind : kind \notin {"value", "sign", "scale", "zero"} =>
        Ev(e, Sh(kind, <<u, w>>)) = Term(kind, u, y)
  BY <1>2, ShHas DEF Ev
<1> HIDE DEF y
<1> QED BY <1>1, <1>3

(* Those of them that are not of divisions.                                *)
LEMMA EvPaired ==
  ASSUME NEW e, NEW u, NEW w
  PROVE  /\ Ev(e, Sh("iadd", <<u, w>>)) = <<"add", e[u], e[w]>>
         /\ Ev(e, Sh("isub", <<u, w>>)) = <<"sub", e[u], e[w]>>
         /\ Ev(e, Sh("imul", <<u, w>>)) = <<"mul", e[u], e[w]>>
         /\ Ev(e, Sh("shift", <<u, w>>)) = <<"shl", e[u], e[w]>>
         /\ Ev(e, Sh("less", <<u, w>>)) = <<"less", e[u], e[w]>>
         /\ Ev(e, Sh("pwalk", <<u, w>>)) = <<"add", <<"scale", e[w]>>, e[u]>>
<1>1. PICK y : /\ y[1] = e[u] /\ y[2] = e[w]
               /\ \A kind : kind \notin {"value", "sign", "scale", "zero"} =>
                    Ev(e, Sh(kind, <<u, w>>)) = Term(kind, u, y)
  BY EvTwo
<1>2. /\ Term("iadd", u, y) = <<"add", y[1], y[2]>>
      /\ Term("isub", u, y) = <<"sub", y[1], y[2]>>
      /\ Term("imul", u, y) = <<"mul", y[1], y[2]>>
      /\ Term("shift", u, y) = <<"shl", y[1], y[2]>>
      /\ Term("less", u, y) = <<"less", y[1], y[2]>>
      /\ Term("pwalk", u, y) = <<"add", <<"scale", y[2]>>, y[1]>>
  BY DEF Term
<1>3. \A kind \in {"iadd", "isub", "imul", "shift", "less", "pwalk"} :
         Ev(e, Sh(kind, <<u, w>>)) = Term(kind, u, y)
  BY <1>1
<1> QED BY <1>1, <1>2, <1>3

(* Those of divisions.                                                     *)
LEMMA EvDivided ==
  ASSUME NEW e, NEW u, NEW w
  PROVE  /\ Ev(e, Sh("sdiv", <<u, w>>)) = <<"quot", <<"sign", e[u]>>, e[u], e[w]>>
         /\ Ev(e, Sh("smod", <<u, w>>)) = <<"rem", <<"sign", e[u]>>, e[u], e[w]>>
         /\ Ev(e, Sh("udiv", <<u, w>>)) = <<"quot", <<"zero">>, e[u], e[w]>>
         /\ Ev(e, Sh("umod", <<u, w>>)) = <<"rem", <<"zero">>, e[u], e[w]>>
<1>1. PICK y : /\ y[1] = e[u] /\ y[2] = e[w]
               /\ \A kind : kind \notin {"value", "sign", "scale", "zero"} =>
                    Ev(e, Sh(kind, <<u, w>>)) = Term(kind, u, y)
  BY EvTwo
<1>2. /\ Term("sdiv", u, y) = <<"quot", <<"sign", y[1]>>, y[1], y[2]>>
      /\ Term("smod", u, y) = <<"rem", <<"sign", y[1]>>, y[1], y[2]>>
      /\ Term("udiv", u, y) = <<"quot", <<"zero">>, y[1], y[2]>>
      /\ Term("umod", u, y) = <<"rem", <<"zero">>, y[1], y[2]>>
  BY DEF Term
<1>3. \A kind \in {"sdiv", "smod", "udiv", "umod"} : Ev(e, Sh(kind, <<u, w>>)) = Term(kind, u, y)
  BY <1>1
<1> QED BY <1>1, <1>2, <1>3
-----------------------------------------------------------------------------
(* The machine holds what C says.                                          *)
Fits(C) ==
  /\ \A f \in C.held : regs[Loc(table, f[1])] = Ev(env, f[2])
  /\ \A f \in C.flags : flags = <<env[f[1]], env[f[2]]>>
  /\ \A s \in C.saved : stack # << >> /\ Last(stack) = Ev(env, s)

(* The registers behind an instruction.                                    *)
After(i) == [r \in Physical |-> IF r \in DOMAIN Writes(i) THEN Writes(i)[r] ELSE regs[r]]

(* An operand holds what it is said to.                                    *)
LEMMA ReadsHeld ==
  ASSUME NEW C, Fits(C), NEW i, NEW n, NEW s, Reads(C, i, n, s)
  PROVE  Held(i.regs[n].reg) = Ev(env, s) /\ Reg(i, n) = i.regs[n].reg
<1> DEFINE f == <<Reg(i, n), s>>
<1>1. f \in C.held /\ f[1] = Reg(i, n) /\ f[2] = s
  BY DEF Reads
<1> HIDE DEF f
<1>2. regs[Loc(table, f[1])] = Ev(env, f[2])
  BY <1>1 DEF Fits
<1> QED BY <1>1, <1>2 DEF Held, Where, Loc, Reg

(* What is written is in the register it is written to.                    *)
LEMMA WrittenThere ==
  ASSUME NEW i, NEW r, NEW t, Where(r) \in Physical, Writes(i) = [x \in {Where(r)} |-> t]
  PROVE  After(i)[Loc(table, r)] = t
<1>1. Where(r) = Loc(table, r)
  BY DEF Where, Loc
<1>2. Where(r) \in DOMAIN Writes(i) /\ Writes(i)[Where(r)] = t
  OBVIOUS
<1> QED BY <1>1, <1>2 DEF After

(* The comparison's result.                                                *)
LEMMA LessOf == \A a, b : <<"less">> \o <<a, b>> = <<"less", a, b>>
<1> SUFFICES ASSUME NEW a, NEW b PROVE <<"less">> \o <<a, b>> = <<"less", a, b>>
  OBVIOUS
<1> DEFINE S == {"less", a, b}
           s == <<"less">>
           g == <<a, b>>
<1>1. s \in Seq(S) /\ g \in Seq(S) /\ Len(s) = 1 /\ Len(g) = 2
      /\ s[1] = "less" /\ g[1] = a /\ g[2] = b
  OBVIOUS
<1> HIDE DEF S, s, g
<1>2. s \in Seq(S) /\ g \in Seq(S)
  BY <1>1
<1>3. /\ s \o g \in Seq(S)
      /\ Len(s \o g) = Len(s) + Len(g)
      /\ \A q \in 1..Len(s) : (s \o g)[q] = s[q]
      /\ \A q \in 1..Len(g) : (s \o g)[Len(s) + q] = g[q]
  BY <1>2, JoinIs
<1> DEFINE t == s \o g
<1> HIDE DEF t
<1>4. t \in Seq(S) /\ Len(t) = 3 /\ t[1] = "less" /\ t[1 + 1] = a /\ t[1 + 2] = b
  BY <1>1, <1>3 DEF t
<1>5. t = <<"less", a, b>>
  BY <1>4
<1> QED BY <1>5 DEF t, s, g

(* A call leaves its result in RAX.                                        *)
LEMMA CallRight ==
  ASSUME NEW C, Fits(C), NEW i, i.op = "call", i.regs \in Seq(Operand),
         NEW r, NEW s, YieldsCalled(i, C, r, s)
  PROVE  After(i)[Loc(table, r)] = Ev(env, s)
<1> DEFINE args == Front(i.regs)
           held == [n \in DOMAIN args |-> Held(args[n].reg)]
           of == s.of
           x == [n \in DOMAIN of |-> env[of[n]]]
           k == Len(of)
<1>1. /\ r = RAX /\ of \in Seq(Virtual) /\ s.kind \in {"call0", "call1", "call2"}
      /\ Len(i.regs) = k + 1 /\ k \in Nat /\ DOMAIN of = 1..k
      /\ \A n \in DOMAIN of : Reads(C, i, Len(i.regs) - n, Val(of[n]))
  <2>1. PICK kind \in {"call0", "call1", "call2"}, o \in Seq(Virtual) : s = Sh(kind, o)
    BY DEF YieldsCalled
  <2>2. s.of = o /\ s.kind = kind
    BY <2>1 DEF Sh
  <2>3. Len(o) \in Nat /\ DOMAIN o = 1..Len(o)
    OBVIOUS
  <2> QED BY <2>2, <2>3 DEF YieldsCalled
<1>2. /\ Len(i.regs) >= 1 /\ Len(args) = k /\ args \in Seq(Operand)
      /\ \A n \in 1..k : args[n] = i.regs[n]
  <2>1. Len(i.regs) >= 1 /\ Len(i.regs) - 1 = k /\ k \in 0..Len(i.regs)
    BY <1>1
  <2>2. args = SubSeq(i.regs, 1, k)
    BY <2>1 DEF Front
  <2> HIDE DEF args, k
  <2>3. PICK g \in Seq(Operand) : g = i.regs
    OBVIOUS
  <2>4. Len(SubSeq(g, 1, k)) = k /\ SubSeq(g, 1, k) \in Seq(Operand)
        /\ \A n \in 1..k : SubSeq(g, 1, k)[n] = g[n]
    BY <2>1, <2>3
  <2> QED BY <2>1, <2>2, <2>3, <2>4
<1>3. DOMAIN args = 1..k
  BY <1>2
<1> HIDE DEF args, of, k
<1>4. Len(held) = k /\ \A n \in 1..k : held[n] = Held(i.regs[n].reg)
  <2>1. held = [n \in 1..k |-> Held(args[n].reg)]
    BY <1>3
  <2> HIDE DEF held
  <2>2. Len(held) = k
    BY <1>1, <2>1
  <2> QED BY <1>2, <2>1, <2>2
<1>5. Reverse(held) = x
  <2>1. Reverse(held) = [n \in 1..k |-> held[(k - n) + 1]]
    BY <1>4 DEF Reverse
  <2>2. ASSUME NEW n \in 1..k PROVE held[(k - n) + 1] = env[of[n]]
    <3>1. (k - n) + 1 \in 1..k /\ (k - n) + 1 = Len(i.regs) - n
      BY <1>1
    <3>2. Held(i.regs[Len(i.regs) - n].reg) = Ev(env, Val(of[n]))
      BY <1>1, ReadsHeld
    <3>3. Ev(env, Val(of[n])) = env[of[n]]
      BY EvVal
    <3>4. held[(k - n) + 1] = Held(i.regs[(k - n) + 1].reg)
      BY <1>4, <3>1
    <3> QED BY <3>1, <3>2, <3>3, <3>4
  <2>3. x = [n \in 1..k |-> env[of[n]]]
    BY <1>1
  <2> HIDE DEF x, held
  <2> QED BY <2>1, <2>2, <2>3
<1>6. Writes(i) = [q \in Physical |-> IF q = RAX THEN <<"call">> \o Reverse(held) ELSE Junk]
  BY DEF Writes, args
<1>7. Ev(env, s) = <<"call">> \o x
  <2>1. \A o, z : Term("call0", o, z) = <<"call">> \o z /\ Term("call1", o, z) = <<"call">> \o z
                  /\ Term("call2", o, z) = <<"call">> \o z
    BY DEF Term
  <2>2. Ev(env, s) = Term(s.kind, of[1], x)
    BY <1>1 DEF Ev, of
  <2> HIDE DEF x
  <2> QED BY <1>1, <2>1, <2>2
<1>8. RAX \in Physical /\ Loc(table, r) = RAX
  BY <1>1, BackendAssumption, RegistersAssumption DEF Loc
<1> HIDE DEF held, x
<1> QED BY <1>5, <1>6, <1>7, <1>8 DEF After

(* What an instruction yields by what is held is what it leaves.           *)
LEMMA YieldsRight ==
  ASSUME NEW C, Fits(C), NEW i, i.regs \in Seq(Operand),
         NEW r, NEW s, Yields(i, C, r, s), Loc(table, r) \in Physical
  PROVE  After(i)[Loc(table, r)] = Ev(env, s)
<1>1. \A x : Loc(table, x) = Where(x)
  BY DEF Loc, Where
<1>2. \A n : To(i, n, r) => r = i.regs[n].reg
  BY DEF To, Reg
<1>3. \A n, t : To(i, n, r) /\ Writes(i) = [x \in {Where(i.regs[n].reg)} |-> t] =>
                 After(i)[Loc(table, r)] = t
  BY <1>1, <1>2, WrittenThere
<1>4. CASE YieldsFixed(i, r, s)
  <2>1. To(i, 1, r)
    BY <1>4 DEF YieldsFixed
  <2>2. CASE i.op = "load" /\ s = Sh("load", <<r>>)
    <3>1. Ev(env, s) = <<"load", r>>
      BY <2>2, EvOne
    <3>2. Writes(i) = [x \in {Where(i.regs[1].reg)} |-> <<"load", i.regs[1].reg>>]
      BY <2>2 DEF Writes
    <3> QED BY <1>2, <1>3, <2>1, <3>1, <3>2
  <2>3. CASE i.op = "const" /\ i.eval.kind \in {"true", "false"} /\ s = Sh(i.eval.kind, << >>)
    <3>1. Ev(env, s) = <<i.eval.kind>>
      BY <2>3, EvNone
    <3>2. Writes(i) = [x \in {Where(i.regs[1].reg)} |-> <<i.eval.kind>>]
      BY <2>3 DEF Writes
    <3> QED BY <1>3, <2>1, <3>1, <3>2
  <2>4. CASE i.op = "zero" /\ s = Sh("zero", << >>)
    <3>1. Ev(env, s) = <<"zero">>
      BY <2>4, EvNone
    <3>2. Writes(i) = [x \in {Where(i.regs[1].reg)} |-> <<"zero">>]
      BY <2>4 DEF Writes
    <3> QED BY <1>3, <2>1, <3>1, <3>2
  <2> QED BY <1>4, <2>2, <2>3, <2>4 DEF YieldsFixed
<1>5. CASE i.op = "mov" /\ To(i, 2, r) /\ Reads(C, i, 1, s)
  <2>1. Held(i.regs[1].reg) = Ev(env, s)
    BY <1>5, ReadsHeld
  <2>2. Writes(i) = [x \in {Where(i.regs[2].reg)} |-> Held(i.regs[1].reg)]
    BY <1>5 DEF Writes
  <2> QED BY <1>3, <1>5, <2>1, <2>2
<1>6. ASSUME NEW u, NEW w, <<u, w>> \in C.flags, i.op = "setg", To(i, 1, r),
             s = Sh("less", <<u, w>>)
      PROVE  After(i)[Loc(table, r)] = Ev(env, s)
  <2> DEFINE f == <<u, w>>
  <2>1. f[1] = u /\ f[2] = w /\ f \in C.flags
    BY <1>6
  <2> HIDE DEF f
  <2>2. flags = <<env[u], env[w]>>
    BY <2>1 DEF Fits
  <2>3. <<"less">> \o flags = <<"less", env[u], env[w]>>
    BY <2>2, LessOf
  <2>4. Ev(env, s) = <<"less", env[u], env[w]>>
    BY <1>6, EvPaired
  <2>5. Writes(i) = [x \in {Where(i.regs[1].reg)} |-> <<"less">> \o flags]
    BY <1>6 DEF Writes
  <2> QED BY <1>3, <1>6, <2>3, <2>4, <2>5
<1>7. ASSUME NEW u, Reads(C, i, 1, Val(u)), YieldsOfOne(i, u, r, s)
      PROVE  After(i)[Loc(table, r)] = Ev(env, s)
  <2>1. Held(i.regs[1].reg) = env[u]
    <3>1. Held(i.regs[1].reg) = Ev(env, Val(u))
      BY <1>7, ReadsHeld
    <3>2. Ev(env, Val(u)) = env[u]
      BY EvVal
    <3> QED BY <3>1, <3>2
  <2>2. /\ Ev(env, Sh("deref", <<u>>)) = <<"deref", env[u]>>
        /\ Ev(env, Sh("sign", <<u>>)) = <<"sign", env[u]>>
        /\ Ev(env, Sh("ineg", <<u>>)) = <<"neg", env[u]>>
        /\ Ev(env, Sh("scale", <<u>>)) = <<"scale", env[u]>>
    BY EvOne
  <2>3. CASE i.op = "deref" /\ To(i, 2, r) /\ s = Sh("deref", <<u>>)
    <3>1. Writes(i) = [x \in {Where(i.regs[2].reg)} |-> <<"deref", Held(i.regs[1].reg)>>]
      BY <2>3 DEF Writes
    <3> QED BY <1>3, <2>1, <2>2, <2>3, <3>1
  <2>4. CASE i.op = "cqo" /\ To(i, 2, r) /\ s = Sh("sign", <<u>>)
    <3>1. Writes(i) = [x \in {Where(i.regs[2].reg)} |-> <<"sign", Held(i.regs[1].reg)>>]
      BY <2>4 DEF Writes
    <3> QED BY <1>3, <2>1, <2>2, <2>4, <3>1
  <2>5. CASE i.op = "neg" /\ To(i, 1, r) /\ s = Sh("ineg", <<u>>)
    <3>1. Writes(i) = [x \in {Where(i.regs[1].reg)} |-> <<"neg", Held(i.regs[1].reg)>>]
      BY <2>5 DEF Writes
    <3> QED BY <1>3, <2>1, <2>2, <2>5, <3>1
  <2>6. CASE i.op = "scale" /\ To(i, 1, r) /\ s = Sh("scale", <<u>>)
    <3>1. Writes(i) = [x \in {Where(i.regs[1].reg)} |-> <<"scale", Held(i.regs[1].reg)>>]
      BY <2>6 DEF Writes
    <3> QED BY <1>3, <2>1, <2>2, <2>6, <3>1
  <2> QED BY <1>7, <2>3, <2>4, <2>5, <2>6 DEF YieldsOfOne
<1>8. ASSUME NEW u, NEW w, Reads(C, i, 1, Val(u)), Reads(C, i, 2, Val(w)),
             YieldsOfTwo(i, u, w, r, s)
      PROVE  After(i)[Loc(table, r)] = Ev(env, s)
  <2>1. Held(i.regs[1].reg) = env[u] /\ Held(i.regs[2].reg) = env[w]
    <3>1. Held(i.regs[1].reg) = Ev(env, Val(u)) /\ Held(i.regs[2].reg) = Ev(env, Val(w))
      BY <1>8, ReadsHeld
    <3>2. Ev(env, Val(u)) = env[u] /\ Ev(env, Val(w)) = env[w]
      BY EvVal
    <3> QED BY <3>1, <3>2
  <2>2. /\ Ev(env, Sh("iadd", <<u, w>>)) = <<"add", env[u], env[w]>>
        /\ Ev(env, Sh("isub", <<w, u>>)) = <<"sub", env[w], env[u]>>
        /\ Ev(env, Sh("imul", <<w, u>>)) = <<"mul", env[w], env[u]>>
        /\ Ev(env, Sh("shift", <<w, u>>)) = <<"shl", env[w], env[u]>>
    BY EvPaired
  <2>7. To(i, 2, r)
    BY <1>8 DEF YieldsOfTwo
  <2>3. CASE i.op = "add" /\ s = Sh("iadd", <<u, w>>)
    <3>1. Writes(i) = [x \in {Where(i.regs[2].reg)} |-> <<"add", Held(i.regs[1].reg), Held(i.regs[2].reg)>>]
      BY <2>3 DEF Writes
    <3> QED BY <1>3, <2>1, <2>2, <2>3, <2>7, <3>1
  <2>4. CASE i.op = "sub" /\ s = Sh("isub", <<w, u>>)
    <3>1. Writes(i) = [x \in {Where(i.regs[2].reg)} |-> <<"sub", Held(i.regs[2].reg), Held(i.regs[1].reg)>>]
      BY <2>4 DEF Writes
    <3> QED BY <1>3, <2>1, <2>2, <2>4, <2>7, <3>1
  <2>5. CASE i.op = "imul" /\ s = Sh("imul", <<w, u>>)
    <3>1. Writes(i) = [x \in {Where(i.regs[2].reg)} |-> <<"mul", Held(i.regs[2].reg), Held(i.regs[1].reg)>>]
      BY <2>5 DEF Writes
    <3> QED BY <1>3, <2>1, <2>2, <2>5, <2>7, <3>1
  <2>6. CASE i.op = "shl" /\ s = Sh("shift", <<w, u>>)
    <3>1. Writes(i) = [x \in {Where(i.regs[2].reg)} |-> <<"shl", Held(i.regs[2].reg), Held(i.regs[1].reg)>>]
      BY <2>6 DEF Writes
    <3> QED BY <1>3, <2>1, <2>2, <2>6, <2>7, <3>1
  <2> QED BY <1>8, <2>3, <2>4, <2>5, <2>6 DEF YieldsOfTwo
<1>9. ASSUME NEW u, NEW w, i.op = "add", To(i, 2, r), s = Sh("pwalk", <<w, u>>),
             Reads(C, i, 1, Sh("scale", <<u>>)), Reads(C, i, 2, Val(w))
      PROVE  After(i)[Loc(table, r)] = Ev(env, s)
  <2>1. Held(i.regs[1].reg) = Ev(env, Sh("scale", <<u>>)) /\ Held(i.regs[2].reg) = Ev(env, Val(w))
    BY <1>9, ReadsHeld
  <2>2. Ev(env, Sh("scale", <<u>>)) = <<"scale", env[u]>>
    BY EvOne
  <2>3. Ev(env, Val(w)) = env[w]
    BY EvVal
  <2>4. Ev(env, s) = <<"add", <<"scale", env[u]>>, env[w]>>
    BY <1>9, EvPaired
  <2>5. Writes(i) = [x \in {Where(i.regs[2].reg)} |-> <<"add", Held(i.regs[1].reg), Held(i.regs[2].reg)>>]
    BY <1>9 DEF Writes
  <2> QED BY <1>3, <1>9, <2>1, <2>2, <2>3, <2>4, <2>5
<1>10. ASSUME NEW u, NEW w, NEW signed \in BOOLEAN,
              i.op = "div", YieldsDivided(i, u, w, signed, r, s),
              Reads(C, i, 1, Val(w)), Reads(C, i, 2, Val(u)),
              Reads(C, i, 3, IF signed THEN Sh("sign", <<u>>) ELSE Sh("zero", << >>))
       PROVE  After(i)[Loc(table, r)] = Ev(env, s)
  <2> DEFINE h == IF signed THEN <<"sign", env[u]>> ELSE <<"zero">>
  <2>1. /\ Held(i.regs[1].reg) = env[w] /\ Held(i.regs[2].reg) = env[u]
        /\ Held(i.regs[3].reg) = h
    <3>1. /\ Held(i.regs[1].reg) = Ev(env, Val(w)) /\ Held(i.regs[2].reg) = Ev(env, Val(u))
          /\ Held(i.regs[3].reg) = Ev(env, IF signed THEN Sh("sign", <<u>>) ELSE Sh("zero", << >>))
      BY <1>10, ReadsHeld
    <3>2. Ev(env, Val(u)) = env[u] /\ Ev(env, Val(w)) = env[w]
      BY EvVal
    <3>3. Ev(env, Sh("sign", <<u>>)) = <<"sign", env[u]>>
      BY EvOne
    <3>4. Ev(env, Sh("zero", << >>)) = <<"zero">>
      BY EvNone
    <3> QED BY <3>1, <3>2, <3>3, <3>4
  <2>2. /\ Ev(env, Sh(IF signed THEN "sdiv" ELSE "udiv", <<u, w>>)) = <<"quot", h, env[u], env[w]>>
        /\ Ev(env, Sh(IF signed THEN "smod" ELSE "umod", <<u, w>>)) = <<"rem", h, env[u], env[w]>>
    <3>1. /\ Ev(env, Sh("sdiv", <<u, w>>)) = <<"quot", <<"sign", env[u]>>, env[u], env[w]>>
          /\ Ev(env, Sh("smod", <<u, w>>)) = <<"rem", <<"sign", env[u]>>, env[u], env[w]>>
          /\ Ev(env, Sh("udiv", <<u, w>>)) = <<"quot", <<"zero">>, env[u], env[w]>>
          /\ Ev(env, Sh("umod", <<u, w>>)) = <<"rem", <<"zero">>, env[u], env[w]>>
      BY EvDivided
    <3> QED BY <3>1
  <2> HIDE DEF h
  <2>3. /\ i.regs[2].reg = RAX /\ i.regs[3].reg = RDX
        /\ Where(RAX) = RAX /\ Where(RDX) = RDX /\ RAX # RDX
        /\ RAX \in Physical /\ RDX \in Physical
    BY <1>10, BackendAssumption, RegistersAssumption DEF YieldsDivided, Reg, Where
  <2>4. Writes(i) = [x \in {RAX, RDX} |-> <<IF x = RAX THEN "quot" ELSE "rem", h, env[u], env[w]>>]
    BY <1>10, <2>1, <2>3 DEF Writes
  <2>5. After(i)[RAX] = <<"quot", h, env[u], env[w]>> /\ After(i)[RDX] = <<"rem", h, env[u], env[w]>>
    BY <2>3, <2>4 DEF After
  <2>6. CASE To(i, 2, r) /\ s = Sh(IF signed THEN "sdiv" ELSE "udiv", <<u, w>>)
    BY <1>1, <1>2, <2>2, <2>3, <2>5, <2>6
  <2>7. CASE To(i, 3, r) /\ s = Sh(IF signed THEN "smod" ELSE "umod", <<u, w>>)
    BY <1>1, <1>2, <2>2, <2>3, <2>5, <2>7
  <2> QED BY <1>10, <2>6, <2>7 DEF YieldsDivided
<1>11. CASE i.op = "call" /\ YieldsCalled(i, C, r, s)
  BY <1>11, CallRight
<1> QED BY <1>4, <1>5, <1>6, <1>7, <1>8, <1>9, <1>10, <1>11 DEF Yields
-----------------------------------------------------------------------------
(* An instruction writes no registers but those it names as written.       *)
LEMMA WritesWhere ==
  ASSUME NEW i, NEW x \in DOMAIN Writes(i)
  PROVE  \E w \in Written(i) : x = Loc(table, w)
<1>1. \A y : Loc(table, y) = Where(y)
  BY DEF Loc, Where
<1>2. CASE i.op \in {"load", "const", "neg", "scale", "zero", "setg", "pop"}
  <2>1. \E t : Writes(i) = [r \in {Where(i.regs[1].reg)} |-> t]
    BY <1>2 DEF Writes
  <2>2. Written(i) = {Reg(i, 1)}
    BY <1>2 DEF Written
  <2> QED BY <1>1, <2>1, <2>2 DEF Reg
<1>3. CASE i.op \in {"mov", "deref", "add", "sub", "imul", "shl", "cqo"}
  <2>1. \E t : Writes(i) = [r \in {Where(i.regs[2].reg)} |-> t]
    BY <1>3 DEF Writes
  <2>2. Written(i) = {Reg(i, 2)}
    BY <1>3 DEF Written
  <2> QED BY <1>1, <2>1, <2>2 DEF Reg
<1>4. CASE i.op = "div"
  <2>1. DOMAIN Writes(i) = {Where(i.regs[2].reg), Where(i.regs[3].reg)}
    BY <1>4 DEF Writes
  <2>2. Written(i) = {Reg(i, 2), Reg(i, 3)}
    BY <1>4 DEF Written
  <2> QED BY <1>1, <2>1, <2>2 DEF Reg
<1>5. CASE i.op = "call"
  <2>1. DOMAIN Writes(i) = Physical
    BY <1>5 DEF Writes
  <2>2. Written(i) = Physical
    BY <1>5 DEF Written
  <2>3. \A y \in Physical : Loc(table, y) = y
    BY RegistersAssumption DEF Loc
  <2> QED BY <2>1, <2>2, <2>3
<1>6. CASE i.op \notin {"load", "const", "neg", "scale", "zero", "setg", "pop", "mov", "deref",
                        "add", "sub", "imul", "shl", "cqo", "div", "call"}
  <2>1. DOMAIN Writes(i) = {}
    BY <1>6 DEF Writes
  <2> QED BY <2>1
<1> QED BY <1>2, <1>3, <1>4, <1>5, <1>6

(* What is apart from what is written stays.                               *)
LEMMA ApartStays ==
  ASSUME NEW i, NEW r \in Apart(table, i), Loc(table, r) \in Physical
  PROVE  After(i)[Loc(table, r)] = regs[Loc(table, r)]
<1>1. Loc(table, r) \notin DOMAIN Writes(i)
  BY WritesWhere DEF Apart
<1> QED BY <1>1 DEF After

(* A shape stands for the same if its values do.                           *)
LEMMA EvSame ==
  ASSUME NEW e1, NEW e2, NEW s, \A n \in DOMAIN s.of : e1[s.of[n]] = e2[s.of[n]]
  PROVE  Ev(e1, s) = Ev(e2, s)
<1> DEFINE x1 == [n \in DOMAIN s.of |-> e1[s.of[n]]]
           x2 == [n \in DOMAIN s.of |-> e2[s.of[n]]]
<1>1. x1 = x2
  OBVIOUS
<1>2. /\ Ev(e1, s) = CASE s.kind = "value" -> x1[1]
                        [] s.kind \in {"sign", "scale"} -> <<s.kind, x1[1]>>
                        [] s.kind = "zero" -> <<"zero">>
                        [] OTHER -> Term(s.kind, s.of[1], x1)
      /\ Ev(e2, s) = CASE s.kind = "value" -> x2[1]
                        [] s.kind \in {"sign", "scale"} -> <<s.kind, x2[1]>>
                        [] s.kind = "zero" -> <<"zero">>
                        [] OTHER -> Term(s.kind, s.of[1], x2)
  BY Zenon DEF Ev
<1> HIDE DEF x1, x2
<1> QED BY <1>1, <1>2

(* The shape of an operation stands for what it computes.                  *)
LEMMA ShapeIs ==
  ASSUME NEW en, NEW e \in Eval, e.kind # "none",
         e.kind \in {"copy", "ret", "test"} => 1 \in DOMAIN e.args
  PROVE  Ev(en, Shape(e)) = Term(e.kind, e.value, [n \in DOMAIN e.args |-> en[e.args[n]]])
<1> DEFINE x == [n \in DOMAIN e.args |-> en[e.args[n]]]
<1>1. CASE e.kind \in {"copy", "ret", "test"}
  <2>1. Shape(e) = Sh("value", e.args)
    BY <1>1 DEF Shape
  <2>2. Ev(en, Shape(e)) = x[1]
    BY <2>1, ShHas DEF Ev
  <2> HIDE DEF x
  <2>3. Term(e.kind, e.value, x) = x[1]
    BY <1>1 DEF Term
  <2> QED BY <2>2, <2>3 DEF x
<1>2. CASE e.kind = "load"
  <2>1. Shape(e) = Sh("load", <<e.value>>)
    BY <1>2 DEF Shape
  <2>2. Ev(en, Shape(e)) = <<"load", e.value>>
    BY <2>1, EvOne
  <2> HIDE DEF x
  <2>3. Term(e.kind, e.value, x) = <<"load", e.value>>
    BY <1>2 DEF Term
  <2> QED BY <2>2, <2>3 DEF x
<1>3. CASE e.kind \notin {"copy", "ret", "test", "load"}
  <2>1. Shape(e) = Sh(e.kind, e.args)
    BY <1>3 DEF Shape
  <2>2. e.kind \notin {"value", "sign", "scale", "zero"}
    BY DEF Eval, Completions, Kinds
  <2>3. Ev(en, Shape(e)) = Term(e.kind, e.args[1], x)
    BY <2>1, <2>2, ShHas DEF Ev
  <2> HIDE DEF x
  <2>4. Term(e.kind, e.args[1], x) = Term(e.kind, e.value, x)
    BY <1>3 DEF Term
  <2> QED BY <2>3, <2>4 DEF x
<1> QED BY <1>1, <1>2, <1>3

(* The machine's outcome of an operation is the graph's.                   *)
LEMMA OutcomeRight ==
  ASSUME NEW C, Fits(C), NEW i \in MachInst, i.eval.kind # "none", Completed(i, C), Named(table, i)
  PROVE  Outcome(i, After(i))
           = Term(i.eval.kind, i.eval.value, [n \in DOMAIN i.eval.args |-> env[i.eval.args[n]]])
<1> DEFINE e == i.eval
           x == [n \in DOMAIN e.args |-> env[e.args[n]]]
<1>1. e \in Eval /\ i.regs \in Seq(Operand)
  BY DEF MachInst
<1>2. Ev(env, Shape(e)) = Term(e.kind, e.value, x)
  <2>1. e.kind \in {"copy", "ret", "test"} => 1 \in DOMAIN e.args
    BY DEF Completed
  <2> QED BY <1>1, <2>1, ShapeIs
<1>3. Last(i.regs).reg = LastReg(i)
  BY DEF Last, LastReg, Reg
<1>4. Where(LastReg(i)) = Loc(table, LastReg(i))
  BY DEF Where, Loc
<1>5. CASE i.op = "store"
  <2>1. /\ e.kind = "store" /\ DOMAIN e.args = 1..2
        /\ Reads(C, i, 2, Val(e.args[1])) /\ Reads(C, i, 1, Val(e.args[2]))
    BY <1>5 DEF Completed
  <2>2. Held(i.regs[2].reg) = Ev(env, Val(e.args[1])) /\ Held(i.regs[1].reg) = Ev(env, Val(e.args[2]))
    BY <2>1, ReadsHeld
  <2>3. Ev(env, Val(e.args[1])) = env[e.args[1]] /\ Ev(env, Val(e.args[2])) = env[e.args[2]]
    BY EvVal
  <2>4. x[1] = env[e.args[1]] /\ x[2] = env[e.args[2]]
    BY <2>1
  <2> HIDE DEF x
  <2>5. Term(e.kind, e.value, x) = <<"store", x[1], x[2]>>
    BY <2>1 DEF Term
  <2>6. Outcome(i, After(i)) = <<"store", Held(i.regs[2].reg), Held(i.regs[1].reg)>>
    BY <1>5 DEF Outcome
  <2> QED BY <2>2, <2>3, <2>4, <2>5, <2>6 DEF x
<1>6. CASE i.op \in {"ret", "test"}
  <2>1. /\ Reads(C, i, Len(i.regs), Shape(e))
        /\ i.op = "ret" => LastReg(i) = RAX
    BY <1>6 DEF Completed
  <2>2. /\ Held(LastReg(i)) = Ev(env, Shape(e))
        /\ Loc(table, LastReg(i)) \in Physical
    <3>1. Held(i.regs[Len(i.regs)].reg) = Ev(env, Shape(e))
      BY <2>1, ReadsHeld
    <3>2. Len(i.regs) \in DOMAIN i.regs
      BY <2>1 DEF Reads
    <3> QED BY <3>1, <3>2 DEF LastReg, Reg, Named
  <2>3. DOMAIN Writes(i) = {}
    BY <1>6 DEF Writes
  <2>4. After(i)[Loc(table, LastReg(i))] = regs[Loc(table, LastReg(i))]
    BY <2>2, <2>3 DEF After
  <2>5. After(i)[Loc(table, LastReg(i))] = Term(e.kind, e.value, x)
    BY <1>2, <1>4, <2>2, <2>4 DEF Held
  <2>6. CASE i.op = "ret"
    <3>1. Loc(table, LastReg(i)) = RAX
      BY <2>1, <2>6, BackendAssumption, RegistersAssumption DEF Loc
    <3>2. Outcome(i, After(i)) = After(i)[RAX]
      BY <2>6 DEF Outcome
    <3> QED BY <2>5, <3>1, <3>2
  <2>7. CASE i.op = "test"
    <3>1. Outcome(i, After(i)) = After(i)[Where(Last(i.regs).reg)]
      BY <2>7 DEF Outcome
    <3> QED BY <1>3, <1>4, <2>5, <3>1
  <2> QED BY <1>6, <2>6, <2>7
<1>7. CASE i.op \notin {"store", "ret", "test"}
  <2>1. Yields(i, C, LastReg(i), Shape(e))
    BY <1>7 DEF Completed
  <2>2. Len(i.regs) \in DOMAIN i.regs
    <3>2. DOMAIN i.regs # {}
      <4> SUFFICES ASSUME DOMAIN i.regs = {} PROVE FALSE
        OBVIOUS
      <4>1. \A n, r : ~To(i, n, r)
        BY DEF To
      <4>2. \A u, w, r, s : /\ ~YieldsFixed(i, r, s) /\ ~YieldsOfOne(i, u, r, s)
                            /\ ~YieldsOfTwo(i, u, w, r, s)
        BY <4>1 DEF YieldsFixed, YieldsOfOne, YieldsOfTwo
      <4>3. \A u, w, q, r, s : ~YieldsDivided(i, u, w, q, r, s) /\ ~YieldsCalled(i, C, r, s)
        BY <4>1 DEF YieldsDivided, YieldsCalled
      <4> QED BY <2>1, <4>1, <4>2, <4>3 DEF Yields
    <3> QED BY <1>1, <3>2
  <2>3. Loc(table, LastReg(i)) \in Physical
    BY <2>2 DEF Named, LastReg
  <2>4. After(i)[Loc(table, LastReg(i))] = Ev(env, Shape(e))
    BY <1>1, <2>1, <2>3, YieldsRight
  <2>5. Outcome(i, After(i)) = After(i)[Where(Last(i.regs).reg)]
    BY <1>7 DEF Outcome
  <2> QED BY <1>2, <1>3, <1>4, <2>4, <2>5
<1> QED BY <1>5, <1>6, <1>7

(* What a step of the machine does.                                        *)
LEMMA ExecuteIs ==
  ASSUME Execute, NEW i, i = code[pc],
         NEW t, t = Term(i.eval.kind, i.eval.value,
                         [n \in DOMAIN i.eval.args |-> env[i.eval.args[n]]])
  PROVE  /\ regs' = After(i) /\ table' = table /\ code' = code
         /\ i.op = "cmp" => flags' = <<Held(i.regs[1].reg), Held(i.regs[2].reg)>>
         /\ stack' = CASE i.op = "push" -> Append(stack, Held(i.regs[1].reg))
                       [] i.op = "pop"  -> Front(stack)
                       [] OTHER         -> stack
         /\ i.eval.kind = "none" => env' = env /\ result' = result
         /\ i.eval.kind # "none" =>
              /\ env' = [v \in Virtual |-> IF v = i.eval.value THEN t ELSE env[v]]
              /\ result' = [machine |-> Outcome(i, After(i)), graph |-> t]
<1>1. regs' = After(i)
  BY DEF Execute, After
<1>2. table' = table /\ code' = code
  BY DEF Execute, allocVars
<1>3. i.op = "cmp" => flags' = <<Held(i.regs[1].reg), Held(i.regs[2].reg)>>
  BY DEF Execute
<1>4. stack' = CASE i.op = "push" -> Append(stack, Held(i.regs[1].reg))
                 [] i.op = "pop"  -> Front(stack)
                 [] OTHER         -> stack
  BY DEF Execute
<1>5. i.eval.kind = "none" => env' = env /\ result' = result
  BY DEF Execute
<1>6. i.eval.kind # "none" =>
        /\ env' = [v \in Virtual |-> IF v = i.eval.value THEN t ELSE env[v]]
        /\ result' = [machine |-> Outcome(i, regs'), graph |-> t]
  BY DEF Execute
<1> QED BY <1>1, <1>2, <1>3, <1>4, <1>5, <1>6
-----------------------------------------------------------------------------
(* What was pushed last is on top.                                         *)
LEMMA TopIs ==
  ASSUME NEW S, NEW s \in Seq(S), NEW x
  PROVE  Append(s, x) # << >> /\ Last(Append(s, x)) = x
<1> DEFINE t == Append(s, x)
<1>1. s \in Seq(S \union {x}) /\ x \in S \union {x} /\ Len(s) \in Nat
  OBVIOUS
<1>2. t \in Seq(S \union {x}) /\ Len(t) = Len(s) + 1 /\ t[Len(s) + 1] = x
  BY <1>1
<1> HIDE DEF t
<1>3. t # << >>
  BY <1>1, <1>2
<1>4. Last(t) = x
  BY <1>2 DEF Last
<1> QED BY <1>3, <1>4 DEF t

(* A push saves what is in the register.                                   *)
LEMMA PushFits ==
  ASSUME Execute, NEW i, i = code[pc], i.op = "push", NEW S, stack \in Seq(S),
         NEW C, NEW D, Fits(C), RealStep(table, i, C, D), Placed(table, C),
         Reg(i, 1) \in Physical
  PROVE  Fits(D)'
<1>1. /\ i.eval.kind = "none"
      /\ D.held \subseteq C.held /\ D.flags = {}
      /\ \A s \in D.saved : \E f \in C.held : Loc(table, f[1]) = Reg(i, 1) /\ f[2] = s
  BY DEF RealStep
<1>2. /\ regs' = After(i) /\ table' = table /\ env' = env
      /\ stack' = Append(stack, Held(i.regs[1].reg))
  BY <1>1, ExecuteIs
<1>3. \A y \in Physical : After(i)[y] = regs[y]
  <2>1. DOMAIN Writes(i) = {}
    BY DEF Writes
  <2> QED BY <2>1 DEF After
<1>4. \A f \in D.held : regs'[Loc(table', f[1])] = Ev(env', f[2])
  BY <1>1, <1>2, <1>3 DEF Fits, Placed
<1>5. stack' # << >> /\ Last(stack') = Held(i.regs[1].reg)
  BY <1>2, TopIs
<1>6. Held(i.regs[1].reg) = regs[Reg(i, 1)]
  BY RegistersAssumption DEF Held, Where, Reg
<1>7. ASSUME NEW s \in D.saved PROVE stack' # << >> /\ Last(stack') = Ev(env', s)
  <2>1. PICK f \in C.held : Loc(table, f[1]) = Reg(i, 1) /\ f[2] = s
    BY <1>1
  <2>2. regs[Reg(i, 1)] = Ev(env, s)
    BY <2>1 DEF Fits
  <2> QED BY <1>2, <1>5, <1>6, <2>2
<1> QED BY <1>1, <1>4, <1>7 DEF Fits

(* A pop restores what was saved.                                          *)
LEMMA PopFits ==
  ASSUME Execute, NEW i, i = code[pc], i.op = "pop",
         NEW C, NEW D, Fits(C), RealStep(table, i, C, D), Placed(table, D),
         Reg(i, 1) \in Physical
  PROVE  Fits(D)'
<1>1. /\ i.eval.kind = "none"
      /\ \A f \in D.held : IF Loc(table, f[1]) = Reg(i, 1) THEN f[2] \in C.saved ELSE f \in C.held
      /\ D.flags = {} /\ D.saved = {}
  BY DEF RealStep
<1>2. regs' = After(i) /\ table' = table /\ env' = env
  BY <1>1, ExecuteIs
<1>3. Where(i.regs[1].reg) = Reg(i, 1)
  BY RegistersAssumption DEF Where, Reg
<1>4. Writes(i) = [r \in {Reg(i, 1)} |-> Last(stack)]
  BY <1>3 DEF Writes
<1>5. \A y \in Physical : After(i)[y] = IF y = Reg(i, 1) THEN Last(stack) ELSE regs[y]
  BY <1>4 DEF After
<1>6. ASSUME NEW f \in D.held PROVE regs'[Loc(table', f[1])] = Ev(env', f[2])
  <2>1. Loc(table, f[1]) \in Physical
    BY DEF Placed
  <2>2. CASE Loc(table, f[1]) = Reg(i, 1)
    <3>1. Last(stack) = Ev(env, f[2])
      BY <1>1, <2>2 DEF Fits
    <3> QED BY <1>2, <1>5, <2>1, <2>2, <3>1
  <2>3. CASE Loc(table, f[1]) # Reg(i, 1)
    <3>1. regs[Loc(table, f[1])] = Ev(env, f[2])
      BY <1>1, <2>3 DEF Fits
    <3> QED BY <1>2, <1>5, <2>1, <2>3, <3>1
  <2> QED BY <2>2, <2>3
<1> QED BY <1>1, <1>6 DEF Fits

(* The other instructions leave what they are said to.                     *)
LEMMA MoveFits ==
  ASSUME Execute, NEW i \in MachInst, i = code[pc], i.op \notin {"push", "pop", "jmp", "ret"},
         NEW C, NEW D, Fits(C), RealStep(table, i, C, D), Placed(table, C), Placed(table, D)
  PROVE  Fits(D)'
<1> DEFINE e == i.eval
           x == [n \in DOMAIN e.args |-> env[e.args[n]]]
           t == Term(e.kind, e.value, x)
<1>1. /\ e.kind # "none" => Completed(i, C)
      /\ Moves(i, C, D, Apart(table, i))
      /\ D.saved \subseteq C.saved
      /\ e.kind # "none" => D.saved = {}
  BY DEF RealStep
<1>2. /\ regs' = After(i) /\ table' = table
      /\ i.op = "cmp" => flags' = <<Held(i.regs[1].reg), Held(i.regs[2].reg)>>
      /\ stack' = stack
      /\ e.kind = "none" => env' = env
      /\ e.kind # "none" => env' = [v \in Virtual |-> IF v = e.value THEN t ELSE env[v]]
  <2>5. t = Term(i.eval.kind, i.eval.value, [n \in DOMAIN i.eval.args |-> env[i.eval.args[n]]])
    OBVIOUS
  <2> HIDE DEF t
  <2>1. /\ regs' = After(i) /\ table' = table
        /\ i.op = "cmp" => flags' = <<Held(i.regs[1].reg), Held(i.regs[2].reg)>>
        /\ e.kind = "none" => env' = env
    BY <2>5, ExecuteIs
  <2>2. stack' = CASE i.op = "push" -> Append(stack, Held(i.regs[1].reg))
                   [] i.op = "pop"  -> Front(stack)
                   [] OTHER         -> stack
    BY <2>5, ExecuteIs
  <2>3. stack' = stack
    BY <2>2
  <2>4. e.kind # "none" => env' = [v \in Virtual |-> IF v = e.value THEN t ELSE env[v]]
    BY <2>5, ExecuteIs
  <2> QED BY <2>1, <2>3, <2>4
<1>3. i.regs \in Seq(Operand) /\ e \in Eval
  BY DEF MachInst
<1> HIDE DEF t, x
<1>4. ASSUME NEW f \in D.held PROVE regs'[Loc(table', f[1])] = Ev(env', f[2])
  <2>1. Loc(table, f[1]) \in Physical
    BY DEF Placed
  <2>2. CASE /\ f \in C.held /\ f[1] \in Apart(table, i)
             /\ e.kind = "none" \/ \A n \in DOMAIN f[2].of : f[2].of[n] \in Virtual \ {e.value}
    <3>1. After(i)[Loc(table, f[1])] = regs[Loc(table, f[1])]
      BY <2>1, <2>2, ApartStays
    <3>2. regs[Loc(table, f[1])] = Ev(env, f[2])
      BY <2>2 DEF Fits
    <3>3. Ev(env', f[2]) = Ev(env, f[2])
      <4>1. CASE e.kind = "none"
        BY <1>2, <4>1
      <4>2. CASE e.kind # "none"
        <5>1. \A n \in DOMAIN f[2].of : env'[f[2].of[n]] = env[f[2].of[n]]
          BY <1>2, <2>2, <4>2
        <5> QED BY <5>1, EvSame
      <4> QED BY <4>1, <4>2
    <3> QED BY <1>2, <3>1, <3>2, <3>3
  <2>3. CASE e.kind = "none" /\ Yields(i, C, f[1], f[2])
    <3>1. After(i)[Loc(table, f[1])] = Ev(env, f[2])
      BY <1>3, <2>1, <2>3, YieldsRight
    <3> QED BY <1>2, <2>3, <3>1
  <2>4. CASE /\ e.kind # "none" /\ i.op \notin {"store", "ret", "test"}
             /\ e.value \in Virtual /\ e.value = LastReg(i)
             /\ f = <<e.value, Val(e.value)>>
    <3>1. Yields(i, C, LastReg(i), Shape(e)) /\ (e.kind \in {"copy", "ret", "test"} => 1 \in DOMAIN e.args)
      BY <1>1, <2>4 DEF Completed
    <3>2. f[1] = LastReg(i) /\ f[2] = Val(e.value)
      BY <2>4
    <3>3. After(i)[Loc(table, f[1])] = Ev(env, Shape(e))
      BY <1>3, <2>1, <3>1, <3>2, YieldsRight
    <3>4. Ev(env, Shape(e)) = t
      BY <1>3, <2>4, <3>1, ShapeIs DEF t, x
    <3>5. Ev(env', Val(e.value)) = env'[e.value]
      BY EvVal
    <3>6. env'[e.value] = t
      BY <1>2, <2>4
    <3> QED BY <1>2, <3>2, <3>3, <3>4, <3>5, <3>6
  <2> QED BY <1>1, <2>2, <2>3, <2>4 DEF Moves
<1>5. ASSUME NEW f \in D.flags PROVE flags' = <<env'[f[1]], env'[f[2]]>>
  <2>1. i.op = "cmp" /\ e.kind = "none"
    BY <1>1 DEF Moves
  <2>2. PICK u, w : f = <<u, w>> /\ Reads(C, i, 1, Val(u)) /\ Reads(C, i, 2, Val(w))
    BY <1>1 DEF Moves
  <2>3. Held(i.regs[1].reg) = Ev(env, Val(u)) /\ Held(i.regs[2].reg) = Ev(env, Val(w))
    BY <2>2, ReadsHeld
  <2>4. Ev(env, Val(u)) = env[u] /\ Ev(env, Val(w)) = env[w]
    BY EvVal
  <2>5. f[1] = u /\ f[2] = w
    BY <2>2
  <2> QED BY <1>2, <2>1, <2>3, <2>4, <2>5
<1>6. ASSUME NEW s \in D.saved PROVE stack' # << >> /\ Last(stack') = Ev(env', s)
  <2>1. s \in C.saved /\ e.kind = "none"
    BY <1>1
  <2> QED BY <1>2, <2>1 DEF Fits
<1> QED BY <1>4, <1>5, <1>6 DEF Fits
-----------------------------------------------------------------------------
(* The finished function: at each place the machine holds what the code is *)
(* typed with, unless a call spills two registers.                         *)
RunInv ==
  /\ stage \notin {"done", "run"} => result.machine = result.graph
  /\ stage \in {"done", "run"} /\ ~SpillsMany =>
       /\ result.machine = result.graph
       /\ \E S : RealTyped(table, code, S) /\ Fits(S[pc])

(* An instruction with an operation that it completes is no jump.          *)
LEMMA JumpsComplete ==
  ASSUME NEW i, NEW C, i.op \in {"jmp", "jne"}, Completed(i, C)
  PROVE  FALSE
<1>1. Yields(i, C, LastReg(i), Shape(i.eval))
  BY DEF Completed
<1> QED BY <1>1 DEF Yields, YieldsFixed, YieldsOfOne, YieldsOfTwo

(* Executing an instruction of typed code.                                 *)
LEMMA ExecuteReal ==
  ASSUME StackInv, Execute, NEW S, RealTyped(table, code, S), Fits(S[pc]),
         result.machine = result.graph
  PROVE  /\ result'.machine = result'.graph
         /\ RealTyped(table', code', S)
         /\ (Fits(S[pc]))'
<1> DEFINE i == code[pc]
           n == Len(code)
<1>1. /\ stage = "run" /\ pc \in DOMAIN code /\ code' = code /\ table' = table
      /\ code \in Seq(MachInst) /\ Lands(code) /\ n \in Nat /\ DOMAIN code = 1..n
      /\ stack \in Seq({stack[k] : k \in DOMAIN stack})
  BY DEF Execute, StackInv, allocVars
<1>2. /\ Placed(table, S[pc]) /\ Named(table, i)
      /\ i.op \in {"push", "pop"} => i.regs[1].reg \in Physical
      /\ RealStep(table, i, S[pc], S[pc + 1])
      /\ i.op \in {"jmp", "jne"} =>
           \A y \in DOMAIN code :
             code[y].block = i.target /\ First(code, y) =>
               S[y].held \subseteq S[pc].held /\ S[y].flags = {} /\ S[y].saved = {}
  BY <1>1 DEF RealTyped
<1>3. i \in MachInst
  BY <1>1
<1>5. pc + 1 \in 1..(n + 1) /\ Placed(table, S[pc + 1])
  <2>1. pc + 1 \in 1..(n + 1)
    BY <1>1
  <2>2. CASE pc + 1 \in DOMAIN code
    <3>1. \A q \in DOMAIN code : Placed(table, S[q])
      BY DEF RealTyped
    <3> QED BY <2>2, <3>1
  <2>3. CASE pc + 1 \notin DOMAIN code
    <3>1. pc + 1 = n + 1
      BY <1>1, <2>1, <2>3
    <3>2. S[n + 1].held = {}
      BY DEF RealTyped
    <3> QED BY <3>1, <3>2 DEF Placed
  <2> QED BY <2>1, <2>2, <2>3
<1>6. i.eval.kind # "none" => Completed(i, S[pc])
  BY <1>2 DEF RealStep
<1>7. result'.machine = result'.graph
  <2> DEFINE t == Term(i.eval.kind, i.eval.value, [m \in DOMAIN i.eval.args |-> env[i.eval.args[m]]])
  <2>1. i.eval.kind = "none" => result' = result
    BY DEF Execute
  <2>2. i.eval.kind # "none" => result' = [machine |-> Outcome(i, After(i)), graph |-> t]
    BY ExecuteIs
  <2>3. i.eval.kind # "none" => Outcome(i, After(i)) = t
    BY <1>2, <1>3, <1>6, OutcomeRight
  <2> HIDE DEF t, i
  <2> QED BY <2>1, <2>2, <2>3
<1>8. /\ i.op = "jmp" => pc' = FirstOf(i.target)
      /\ i.op = "jne" => pc' = FirstOf(i.target) \/ pc' = pc + 1
      /\ i.op = "ret" => pc' = n + 1
      /\ i.op \notin {"jmp", "jne", "ret"} => pc' = pc + 1
  BY DEF Execute
<1>9. PICK C, D : C = S[pc] /\ D = S[pc + 1]
  OBVIOUS
<1>10. PICK w : w = i
  OBVIOUS
<1>11. /\ w \in MachInst /\ w = code[pc] /\ Fits(C) /\ RealStep(table, w, C, D)
       /\ Placed(table, C) /\ Placed(table, D)
       /\ w.op \in {"push", "pop"} => Reg(w, 1) \in Physical
  BY <1>2, <1>3, <1>5, <1>9, <1>10 DEF Reg
<1> HIDE DEF n, i
<1>13. ASSUME w.op \notin {"jmp", "jne", "ret"} \/ (w.op = "jne" /\ pc' = pc + 1) PROVE (Fits(S[pc]))'
  <2>1. pc' = pc + 1
    BY <1>8, <1>10, <1>13
  <2>2. Fits(D)'
    <3>1. CASE w.op = "push"
      BY <1>1, <1>11, <3>1, PushFits
    <3>2. CASE w.op = "pop"
      BY <1>11, <3>2, PopFits
    <3>3. CASE w.op \notin {"push", "pop", "jmp", "ret"}
      BY <1>11, <3>3, MoveFits
    <3> QED BY <1>13, <3>1, <3>2, <3>3
  <2>3. S[pc'] = D
    BY <1>9, <2>1
  <2> QED BY <2>2, <2>3 DEF Fits
<1>14. ASSUME w.op = "jmp" \/ (w.op = "jne" /\ pc' = FirstOf(i.target)) PROVE (Fits(S[pc]))'
  <2>1. pc' = FirstOf(w.target) /\ w.op \in {"jmp", "jne"}
    BY <1>8, <1>10, <1>14
  <2>2. \E q \in DOMAIN code : code[q].block = w.target
    BY <1>1, <1>11, <2>1 DEF Lands
  <2>3. PICK y : y = FirstOf(w.target)
    OBVIOUS
  <2>4. y \in DOMAIN code /\ code[y].block = w.target /\ \A q \in 1..(y - 1) : code[q].block # w.target
    BY <1>1, <2>2, <2>3, FirstOfIs
  <2>5. S[y].held \subseteq C.held /\ S[y].flags = {} /\ S[y].saved = {}
    BY <1>2, <1>9, <1>10, <2>1, <2>4 DEF First
  <2>6. w.eval.kind = "none"
    BY <1>6, <1>9, <1>10, <2>1, JumpsComplete
  <2>7. regs' = After(w) /\ table' = table /\ env' = env
    BY <1>11, <2>6, ExecuteIs
  <2>8. \A z \in Physical : After(w)[z] = regs[z]
    <3>1. DOMAIN Writes(w) = {}
      BY <2>1 DEF Writes
    <3> QED BY <3>1 DEF After
  <2>9. PICK E : E = S[y]
    OBVIOUS
  <2>10. Fits(E)'
    <3>1. \A f \in E.held : regs'[Loc(table', f[1])] = Ev(env', f[2])
      BY <1>11, <2>5, <2>7, <2>8, <2>9 DEF Fits, Placed
    <3> QED BY <2>5, <2>9, <3>1 DEF Fits
  <2>11. S[pc'] = E
    BY <2>1, <2>3, <2>9
  <2> QED BY <2>10, <2>11 DEF Fits
<1>15. ASSUME w.op = "ret" PROVE (Fits(S[pc]))'
  <2>1. pc' = n + 1
    BY <1>8, <1>10, <1>15
  <2>2. PICK E : E = S[n + 1]
    OBVIOUS
  <2>3. E.held = {} /\ E.flags = {} /\ E.saved = {}
    BY <2>2 DEF RealTyped, n
  <2>4. Fits(E)'
    BY <2>3 DEF Fits
  <2>5. S[pc'] = E
    BY <2>1, <2>2
  <2> QED BY <2>4, <2>5 DEF Fits
<1>16. (Fits(S[pc]))'
  BY <1>8, <1>10, <1>13, <1>14, <1>15
<1> QED BY <1>1, <1>7, <1>16

(* Placing the spills begins with typed code: see PlaceReal.               *)
LEMMA RunStart ==
  ASSUME Ready, Unspilled(code), NEW C, NEW B, Typed(code, C, B), Forward(code), PlaceSpills,
         StackInv, RunInv, UNCHANGED execVars
  PROVE  RunInv'
<1>1. /\ stage' = "done" /\ result' = result /\ table' = table /\ pc' = 1
      /\ result.machine = result.graph
  BY DEF PlaceSpills, Ready, StackInv, RunInv, execVars
<1>2. SpillsMany' \/ \E S : RealTyped(table, code', S)
  BY PlaceReal
<1>3. CASE \E S : RealTyped(table, code', S)
  <2>1. PICK S : RealTyped(table, code', S)
    BY <1>3
  <2>2. S[1].held = {} /\ S[1].flags = {} /\ S[1].saved = {}
    BY <2>1 DEF RealTyped
  <2>3. (Fits(S[pc]))'
    BY <1>1, <2>2 DEF Fits
  <2>4. RealTyped(table', code', S)
    BY <1>1, <2>1
  <2> QED BY <1>1, <2>3, <2>4 DEF RunInv
<1>4. CASE SpillsMany'
  BY <1>1, <1>4 DEF RunInv
<1> QED BY <1>2, <1>3, <1>4

(* The other steps.                                                        *)
LEMMA RunStep ==
  ASSUME StackInv, RunInv, [Next]_vars, ~(Allocate /\ PlaceSpills)
  PROVE  RunInv'
<1>1. CASE Execute
  <2>1. /\ stage = "run" /\ stage' = "run" /\ code' = code
    BY <1>1 DEF Execute, allocVars
  <2>2. SpillsMany' = SpillsMany
    BY <2>1 DEF SpillsMany
  <2>3. ASSUME ~SpillsMany
        PROVE  RunInv'
    <3>1. PICK S : RealTyped(table, code, S) /\ Fits(S[pc])
      BY <2>1, <2>3 DEF RunInv
    <3>2. result.machine = result.graph
      BY <2>1, <2>3 DEF RunInv
    <3>3. result'.machine = result'.graph /\ RealTyped(table', code', S) /\ (Fits(S[pc]))'
      BY <1>1, <3>1, <3>2, ExecuteReal
    <3> QED BY <2>1, <3>3 DEF RunInv
  <2>4. CASE SpillsMany
    BY <2>1, <2>2, <2>4 DEF RunInv
  <2> QED BY <2>3, <2>4
<1>2. ASSUME UNCHANGED <<code, table, execVars>>,
             stage' = stage \/ (stage = "done" /\ stage' = "run")
             \/ (stage \notin {"done", "run"} /\ stage' \notin {"done", "run"})
      PROVE  RunInv'
  <2>1. UNCHANGED <<code, table, pc, regs, flags, stack, env, result>>
    BY <1>2 DEF execVars
  <2>2. SpillsMany' = SpillsMany
    BY <2>1 DEF SpillsMany
  <2>3. CASE stage \notin {"done", "run"} /\ stage' \notin {"done", "run"}
    BY <2>1, <2>3 DEF RunInv
  <2>4. CASE stage \in {"done", "run"} /\ stage' \in {"done", "run"}
    <3>1. CASE SpillsMany
      BY <2>2, <2>4, <3>1 DEF RunInv
    <3>2. CASE ~SpillsMany
      <4>1. result.machine = result.graph
        BY <2>4, <3>2 DEF RunInv
      <4>2. PICK S : RealTyped(table, code, S) /\ Fits(S[pc])
        BY <2>4, <3>2 DEF RunInv
      <4>3. RealTyped(table', code', S) /\ (Fits(S[pc]))'
        BY <2>1, <4>2 DEF Fits
      <4> QED BY <2>1, <2>4, <4>1, <4>3 DEF RunInv
    <3> QED BY <3>1, <3>2
  <2> QED BY <1>2, <2>3, <2>4
<1>3. ASSUME UNCHANGED execVars, stage \notin {"done", "run"}, stage' \notin {"done", "run"}
      PROVE  RunInv'
  BY <1>3 DEF RunInv, execVars
<1>4. CASE Run
  BY <1>4, <1>2 DEF Run
<1>5. CASE Allocate
  <2>1. AllocNext /\ UNCHANGED execVars /\ ~PlaceSpills
    BY <1>5 DEF Allocate
  <2> QED BY <2>1, <1>3 DEF AllocNext, ScanOperand, ScanInst, ScanEnds, KeepRegister,
       AssignRegister, AssignFails, AssignEnds
<1>6. CASE (\E kind \in Selected : Generate(kind)) \/ Assign
           \/ (\E or \in BOOLEAN : OpenLogical(or)) \/ CloseLogical \/ Return \/ Discard
  BY <1>6, <1>3 DEF Generate, Assign, OpenLogical, CloseLogical, Return, Discard, allocVars
<1>7. CASE UNCHANGED vars
  BY <1>7, <1>2 DEF vars, allocVars
<1> QED
  BY <1>1, <1>4, <1>5, <1>6, <1>7 DEF Next
=============================================================================
