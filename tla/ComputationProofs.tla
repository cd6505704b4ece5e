-------------------------- MODULE ComputationProofs --------------------------
(***************************************************************************)
(* Proofs about Backend, continued: the machine computes what the graph    *)
(* says.  BackendProofs shows that code stays typed when its spills are    *)
(* placed, and that typed code executes as the graph does; here, that the  *)
(* code the selector emits is typed.  An operation takes the values it     *)
(* uses, all held, to its result, with the values below them still held    *)
(* (Selects); a function under construction leaves the values on its stack *)
(* (Leaves); and the block that waits for an && or || gets them with its   *)
(* argument (Waits).                                                       *)
(***************************************************************************)
EXTENDS BackendProofs

-----------------------------------------------------------------------------
(* The code as it is selected: what is held and open between operations.   *)
St(held, fl, open) == [held |-> held, flags |-> fl, open |-> open]

(* The values T are in their registers.                                    *)
Vals(T) == {<<t, Val(t)>> : t \in T}

(* The instructions e lead from P to Q.                                    *)
Goes(e, P, Q, B) ==
  \E C : /\ C[1] = P
         /\ C[Len(e) + 1] = Q
         /\ \A q \in DOMAIN e : Follow(e[q], C[q], C[q + 1], B)

(* What is open behind an instruction.                                     *)
LEMMA OpensIs ==
  ASSUME NEW i \in MachInst, NEW o, NEW r \in Register
  PROVE  /\ r \in Virtual /\ (r \in o \/ Occurs(i, r)) => r \in Opens(i, o)
         /\ ~Occurs(i, r) /\ r \notin o => r \notin Opens(i, o)
         /\ Occurs(i, r) /\ (\A n \in DOMAIN i.regs : Reg(i, n) = r => i.regs[n].kill) =>
              r \notin Opens(i, o)
         /\ Occurs(i, r) /\ (\A n \in DOMAIN i.regs : Reg(i, n) = r => ~i.regs[n].kill) =>
              r \in Opens(i, o)
         /\ ~Occurs(i, r) /\ r \in o => r \in Opens(i, o)
<1>1. \A n \in DOMAIN i.regs : i.regs[n].reg \in Virtual => ~i.regs[n].kill
  <2>1. i.regs \in Seq(Operand)
    BY DEF MachInst
  <2>2. \A n \in DOMAIN i.regs : i.regs[n] \in Operand
    BY <2>1
  <2> QED BY <2>2, RegistersAssumption DEF Operand
<1>2. r \in Opens(i, o) <=> Opened(i, r) \/ (r \in o /\ ~KillsAt(i, r))
  BY DEF Opens
<1>3. ASSUME Occurs(i, r), \A n \in DOMAIN i.regs : Reg(i, n) = r => ~i.regs[n].kill
      PROVE  Opened(i, r)
  BY <1>3 DEF Occurs, Opened
<1>4. ASSUME r \in Virtual PROVE \A n \in DOMAIN i.regs : Reg(i, n) = r => ~i.regs[n].kill
  BY <1>1, <1>4 DEF Reg
<1>5. ASSUME \A n \in DOMAIN i.regs : Reg(i, n) = r => ~i.regs[n].kill PROVE ~KillsAt(i, r)
  BY <1>5 DEF KillsAt, Reg
<1>6. ASSUME ~Occurs(i, r) PROVE ~Opened(i, r) /\ ~KillsAt(i, r)
  BY <1>6 DEF Occurs, Opened, KillsAt, Reg
<1>7. ASSUME Occurs(i, r), \A n \in DOMAIN i.regs : Reg(i, n) = r => i.regs[n].kill
      PROVE  ~Opened(i, r) /\ KillsAt(i, r)
  <2>1. KillsAt(i, r)
    BY <1>7 DEF Occurs, KillsAt, Reg
  <2>2. \A n \in DOMAIN i.regs : n >= n
    <3>1. i.regs \in Seq(Operand)
      BY DEF MachInst
    <3> QED BY <3>1
  <2>3. ~Opened(i, r)
    BY <1>7, <2>2 DEF Opened
  <2> QED BY <2>1, <2>3
<1> QED BY <1>2, <1>3, <1>4, <1>5, <1>6, <1>7

(* Values that an instruction does not write are kept by it.               *)
LEMMA ValsKept ==
  ASSUME NEW i \in MachInst, NEW o, NEW T, \A t \in T : t \in Virtual /\ t \in o,
         \A t \in T : t \notin Written(i) /\ t # i.eval.value,
         NEW f \in Vals(T)
  PROVE  /\ f[1] \in Unkilled(i, o)
         /\ \A n \in DOMAIN f[2].of : f[2].of[n] \in Virtual \ {i.eval.value}
<1>1. PICK t \in T : f = <<t, Val(t)>>
  BY DEF Vals
<1>2. f[1] = t /\ f[2] = Val(t)
  BY <1>1
<1>3. Val(t).of = <<t>>
  BY DEF Val, Sh
<1>4. \A n \in DOMAIN <<t>> : <<t>>[n] = t
  OBVIOUS
<1>5. ~KillsAt(i, t)
  <2>1. i.regs \in Seq(Operand)
    BY DEF MachInst
  <2>2. \A n \in DOMAIN i.regs : i.regs[n] \in Operand
    BY <2>1
  <2> QED BY <2>2, RegistersAssumption DEF Operand, KillsAt
<1>6. t \in Unkilled(i, o)
  BY <1>5 DEF Unkilled
<1>7. \A n \in DOMAIN f[2].of : f[2].of[n] = t
  BY <1>2, <1>3, <1>4
<1> QED BY <1>2, <1>6, <1>7

(* The instructions that compute something.                                *)
Plain == {"load", "const", "neg", "scale", "zero", "setg", "mov", "deref", "add", "sub",
          "imul", "shl", "cqo", "div"}

(* An instruction within an operation: what it yields, and what it keeps.  *)
LEMMA MidStep ==
  ASSUME NEW i \in MachInst, i.eval.kind = "none", i.eval.value = NoRegister, i.op \in Plain,
         \A w \in Written(i) : Occurs(i, w),
         NEW P, NEW T, Vals(T) \subseteq P.held, \A t \in T : t \in Virtual /\ t \in P.open,
         \A t \in T : t \notin Written(i),
         NEW Y, \A f \in Y : \/ f \in P.held /\ f[1] \in Unkilled(i, P.open)
                             \/ Yields(i, P, f[1], f[2]),
         NEW Q, Q = St(Vals(T) \union Y, {}, Opens(i, P.open)), NEW B
  PROVE  Follow(i, P, Q, B)
<1>1. Q.held = Vals(T) \union Y /\ Q.flags = {} /\ Q.open = Opens(i, P.open)
  BY DEF St
<1>2. \A t \in T : t # i.eval.value
  BY RegistersAssumption
<1>3. \A f \in Vals(T) : f[1] \in Unkilled(i, P.open)
  BY <1>2, ValsKept
<1>4. Moves(i, P, Q, Unkilled(i, P.open))
  BY <1>1, <1>3 DEF Moves
<1>5. i.op \notin {"call", "jmp", "jne"}
  BY DEF Plain
<1> HIDE DEF Vals
<1> QED BY <1>1, <1>4, <1>5 DEF Follow

(* The last instruction of an operation, which defines its value.          *)
LEMMA LastStep ==
  ASSUME NEW i \in MachInst, i.eval.kind # "none", i.op \in Plain,
         \A w \in Written(i) : Occurs(i, w),
         NEW P, NEW T, Vals(T) \subseteq P.held, \A t \in T : t \in Virtual /\ t \in P.open,
         \A t \in T : t \notin Written(i),
         NEW v \in Virtual, v = i.eval.value, v = LastReg(i), v \notin T,
         Completed(i, P),
         NEW Q, Q = St(Vals(T \union {v}), {}, Opens(i, P.open)), NEW B
  PROVE  Follow(i, P, Q, B)
<1>1. Q.held = Vals(T) \union {<<v, Val(v)>>} /\ Q.flags = {} /\ Q.open = Opens(i, P.open)
  BY DEF St, Vals
<1>2. \A t \in T : t # i.eval.value
  OBVIOUS
<1>3. \A f \in Vals(T) : /\ f[1] \in Unkilled(i, P.open)
                         /\ \A n \in DOMAIN f[2].of : f[2].of[n] \in Virtual \ {i.eval.value}
  BY <1>2, ValsKept
<1>4. i.op \notin {"call", "jmp", "jne", "store", "ret", "test"}
  BY DEF Plain
<1>5. Moves(i, P, Q, Unkilled(i, P.open))
  BY <1>1, <1>3, <1>4 DEF Moves
<1> QED BY <1>1, <1>4, <1>5 DEF Follow

(* Chains of instructions.                                                 *)
LEMMA GoesOne ==
  ASSUME NEW e, NEW S, e \in Seq(S), Len(e) = 1, NEW P, NEW Q, NEW B, Follow(e[1], P, Q, B)
  PROVE  Goes(e, P, Q, B)
<1> DEFINE C == <<P, Q>>
<1>1. C[1] = P /\ C[2] = Q
  OBVIOUS
<1>2. DOMAIN e = {1}
  OBVIOUS
<1> HIDE DEF C
<1> QED BY <1>1, <1>2 DEF Goes

(* One chain behind another.                                               *)
LEMMA GoesOn ==
  ASSUME NEW S, NEW e \in Seq(S), NEW g \in Seq(S), NEW P, NEW Q, NEW R, NEW B,
         Goes(e, P, Q, B), Goes(g, Q, R, B)
  PROVE  Goes(e \o g, P, R, B)
<1> DEFINE m == Len(e)
           n == Len(g)
<1>1. PICK C : /\ C[1] = P /\ C[m + 1] = Q
               /\ \A q \in 1..m : Follow(e[q], C[q], C[q + 1], B)
  BY DEF Goes
<1>2. PICK D : /\ D[1] = Q /\ D[n + 1] = R
               /\ \A q \in 1..n : Follow(g[q], D[q], D[q + 1], B)
  BY DEF Goes
<1> DEFINE t == e \o g
<1>3. /\ t \in Seq(S) /\ Len(t) = m + n
      /\ \A q \in 1..m : t[q] = e[q]
      /\ \A q \in 1..n : t[m + q] = g[q]
  BY JoinIs
<1>4. m \in Nat /\ n \in Nat
  OBVIOUS
<1> HIDE DEF t, m, n
<1> DEFINE E == [q \in 1..(m + n + 1) |-> IF q <= m THEN C[q] ELSE D[q - m]]
<1>5. \A q \in 1..(m + n + 1) : E[q] = IF q <= m THEN C[q] ELSE D[q - m]
  OBVIOUS
<1> HIDE DEF E
<1>6. E[1] = P
  <2>1. 1 \in 1..(m + n + 1)
    BY <1>4
  <2>2. CASE m = 0
    <3>1. E[1] = D[1]
      BY <1>5, <2>1, <2>2
    <3> QED BY <1>1, <1>2, <2>2, <3>1
  <2>3. CASE m # 0
    <3>1. 1 <= m
      BY <1>4, <2>3
    <3> QED BY <1>1, <1>5, <2>1, <3>1
  <2> QED BY <2>2, <2>3
<1>7. E[m + n + 1] = R
  <2>1. m + n + 1 \in 1..(m + n + 1) /\ ~(m + n + 1 <= m) /\ (m + n + 1) - m = n + 1
    BY <1>4
  <2> QED BY <1>2, <1>5, <2>1
<1>8. ASSUME NEW q \in 1..(m + n) PROVE Follow(t[q], E[q], E[q + 1], B)
  <2>1. q \in 1..(m + n + 1) /\ q + 1 \in 1..(m + n + 1)
    BY <1>4
  <2>2. CASE q <= m
    <3>1. q \in 1..m /\ t[q] = e[q] /\ E[q] = C[q]
      BY <1>3, <1>4, <1>5, <2>1, <2>2
    <3>2. E[q + 1] = C[q + 1]
      <4>1. CASE q + 1 <= m
        BY <1>5, <2>1, <4>1
      <4>2. CASE q = m
        <5>1. ~(q + 1 <= m) /\ (q + 1) - m = 1
          BY <1>4, <4>2
        <5>2. E[q + 1] = D[1]
          BY <1>5, <2>1, <5>1
        <5> QED BY <1>1, <1>2, <4>2, <5>2
      <4> QED BY <1>4, <2>2, <4>1, <4>2
    <3> QED BY <1>1, <3>1, <3>2
  <2>3. CASE ~(q <= m)
    <3>1. q - m \in 1..n /\ m + (q - m) = q /\ (q + 1) - m = (q - m) + 1 /\ ~(q + 1 <= m)
      BY <1>4, <2>3
    <3>2. t[q] = g[q - m]
      BY <1>3, <3>1
    <3>3. E[q] = D[q - m] /\ E[q + 1] = D[(q - m) + 1]
      BY <1>5, <2>1, <2>3, <3>1
    <3> QED BY <1>2, <3>1, <3>2, <3>3
  <2> QED BY <2>2, <2>3
<1>9. DOMAIN t = 1..(m + n) /\ Len(t) + 1 = m + n + 1
  BY <1>3, <1>4
<1>10. Goes(t, P, R, B)
  BY <1>6, <1>7, <1>8, <1>9 DEF Goes
<1> QED BY <1>10 DEF t
-----------------------------------------------------------------------------
(* Values whose registers are open.                                        *)
Live(T, o) == \A t \in T : t \in Virtual /\ t \in o

Is(i, op, rs, e) == i \in MachInst /\ i.op = op /\ i.regs = rs /\ i.eval = e

(* They stay open, and what is defined is open.                            *)
LEMMA LiveOn ==
  ASSUME NEW i \in MachInst, NEW o, NEW T, Live(T, o)
  PROVE  /\ Live(T, Opens(i, o))
         /\ \A v \in Virtual : Occurs(i, v) => Live(T \union {v}, Opens(i, o))
<1>1. \A t \in Virtual : t \in o \/ Occurs(i, t) => t \in Opens(i, o)
  BY OpensIs DEF Register
<1> QED BY <1>1 DEF Live

(* The operands of an instruction with one, and of one with two.           *)
LEMMA OneOperand ==
  ASSUME NEW i, NEW x, i.regs = <<x>>
  PROVE  /\ DOMAIN i.regs = {1} /\ Reg(i, 1) = x.reg /\ LastReg(i) = x.reg /\ Len(i.regs) = 1
         /\ \A r : Occurs(i, r) <=> r = x.reg
<1>1. DOMAIN i.regs = {1} /\ i.regs[1] = x /\ Len(i.regs) = 1
  OBVIOUS
<1> QED BY <1>1 DEF Reg, LastReg, Occurs

(* Two.                                                                    *)
LEMMA TwoOperands ==
  ASSUME NEW i, NEW x, NEW y, i.regs = <<x, y>>
  PROVE  /\ DOMAIN i.regs = {1, 2} /\ i.regs[1] = x /\ i.regs[2] = y
         /\ Reg(i, 1) = x.reg /\ Reg(i, 2) = y.reg /\ LastReg(i) = y.reg /\ Len(i.regs) = 2
         /\ \A r : Occurs(i, r) <=> r = x.reg \/ r = y.reg
<1>1. DOMAIN i.regs = {1, 2} /\ i.regs[1] = x /\ i.regs[2] = y /\ Len(i.regs) = 2
  OBVIOUS
<1> QED BY <1>1 DEF Reg, LastReg, Occurs

(* Longer chains.                                                          *)
LEMMA GoesTwo ==
  ASSUME NEW e, NEW S, e \in Seq(S), Len(e) = 2, NEW P, NEW Q, NEW R, NEW B,
         Follow(e[1], P, Q, B), Follow(e[2], Q, R, B)
  PROVE  Goes(e, P, R, B)
<1> DEFINE C == <<P, Q, R>>
<1>1. C[1] = P /\ C[2] = Q /\ C[3] = R
  OBVIOUS
<1>2. DOMAIN e = {1, 2}
  OBVIOUS
<1> HIDE DEF C
<1> QED BY <1>1, <1>2 DEF Goes

(* Three.                                                                  *)
LEMMA GoesThree ==
  ASSUME NEW e, NEW S, e \in Seq(S), Len(e) = 3, NEW P, NEW Q, NEW R, NEW U, NEW B,
         Follow(e[1], P, Q, B), Follow(e[2], Q, R, B), Follow(e[3], R, U, B)
  PROVE  Goes(e, P, U, B)
<1> DEFINE C == <<P, Q, R, U>>
<1>1. C[1] = P /\ C[2] = Q /\ C[3] = R /\ C[4] = U
  OBVIOUS
<1>2. DOMAIN e = {1, 2, 3}
  OBVIOUS
<1> HIDE DEF C
<1> QED BY <1>1, <1>2 DEF Goes

(* Four.                                                                   *)
LEMMA GoesFour ==
  ASSUME NEW e, NEW S, e \in Seq(S), Len(e) = 4, NEW P, NEW Q, NEW R, NEW U, NEW V, NEW B,
         Follow(e[1], P, Q, B), Follow(e[2], Q, R, B), Follow(e[3], R, U, B), Follow(e[4], U, V, B)
  PROVE  Goes(e, P, V, B)
<1> DEFINE C == <<P, Q, R, U, V>>
<1>1. C[1] = P /\ C[2] = Q /\ C[3] = R /\ C[4] = U /\ C[5] = V
  OBVIOUS
<1>2. DOMAIN e = {1, 2, 3, 4}
  OBVIOUS
<1> HIDE DEF C
<1> QED BY <1>1, <1>2 DEF Goes

(* Five.                                                                   *)
LEMMA GoesFive ==
  ASSUME NEW e, NEW S, e \in Seq(S), Len(e) = 5,
         NEW P, NEW Q, NEW R, NEW U, NEW V, NEW W, NEW B,
         Follow(e[1], P, Q, B), Follow(e[2], Q, R, B), Follow(e[3], R, U, B),
         Follow(e[4], U, V, B), Follow(e[5], V, W, B)
  PROVE  Goes(e, P, W, B)
<1> DEFINE C == <<P, Q, R, U, V, W>>
<1>1. C[1] = P /\ C[2] = Q /\ C[3] = R /\ C[4] = U /\ C[5] = V /\ C[6] = W
  OBVIOUS
<1>2. DOMAIN e = {1, 2, 3, 4, 5}
  OBVIOUS
<1> HIDE DEF C
<1> QED BY <1>1, <1>2 DEF Goes

(* A move within an operation takes a shape to another register.           *)
LEMMA MovMid ==
  ASSUME NEW i, NEW x, NEW y, Is(i, "mov", <<x, y>>, None),
         NEW P, NEW T, Vals(T) \subseteq P.held, Live(T, P.open), y.reg \notin T,
         NEW s, <<x.reg, s>> \in P.held,
         NEW Y, \A f \in Y : f \in P.held /\ f[1] \in Unkilled(i, P.open),
         NEW Q, Q = St(Vals(T) \union (Y \union {<<y.reg, s>>}), {}, Opens(i, P.open)), NEW B
  PROVE  Follow(i, P, Q, B)
<1>1. i \in MachInst /\ i.op = "mov" /\ i.regs = <<x, y>> /\ i.eval.kind = "none"
      /\ i.eval.value = NoRegister
  BY DEF Is, None
<1>2. /\ Reg(i, 1) = x.reg /\ Reg(i, 2) = y.reg /\ 1 \in DOMAIN i.regs /\ 2 \in DOMAIN i.regs
      /\ Occurs(i, y.reg)
  BY <1>1, TwoOperands
<1>3. Written(i) = {y.reg}
  BY <1>1, <1>2 DEF Written
<1>4. Reads(P, i, 1, s)
  BY <1>2 DEF Reads
<1>5. Yields(i, P, y.reg, s)
  BY <1>1, <1>2, <1>4 DEF Yields, To
<1>6. \A f \in Y \union {<<y.reg, s>>} :
         (f \in P.held /\ f[1] \in Unkilled(i, P.open)) \/ Yields(i, P, f[1], f[2])
  BY <1>5
<1>7. i.op \in Plain
  BY <1>1 DEF Plain
<1> DEFINE Z == Y \union {<<y.reg, s>>}
<1> HIDE DEF Z
<1>8. Q = St(Vals(T) \union Z, {}, Opens(i, P.open))
      /\ \A f \in Z : (f \in P.held /\ f[1] \in Unkilled(i, P.open)) \/ Yields(i, P, f[1], f[2])
  BY <1>6 DEF Z
<1> QED BY <1>1, <1>2, <1>3, <1>7, <1>8, MidStep DEF Live

(* The move that ends an operation.                                        *)
LEMMA MovLast ==
  ASSUME NEW i, NEW x, NEW y, NEW e, Is(i, "mov", <<x, y>>, e), e.kind \notin {"none", "store"},
         e.value = y.reg, y.reg \in Virtual,
         e.kind \in {"copy", "ret", "test"} => 1 \in DOMAIN e.args,
         NEW P, NEW T, Vals(T) \subseteq P.held, Live(T, P.open), y.reg \notin T,
         <<x.reg, Shape(e)>> \in P.held,
         NEW Q, Q = St(Vals(T \union {y.reg}), {}, Opens(i, P.open)), NEW B
  PROVE  Follow(i, P, Q, B)
<1>1. i \in MachInst /\ i.op = "mov" /\ i.regs = <<x, y>> /\ i.eval = e
  BY DEF Is
<1>2. /\ Reg(i, 1) = x.reg /\ Reg(i, 2) = y.reg /\ 1 \in DOMAIN i.regs /\ 2 \in DOMAIN i.regs
      /\ Occurs(i, y.reg) /\ LastReg(i) = y.reg
  BY <1>1, TwoOperands
<1>3. Written(i) = {y.reg}
  BY <1>1, <1>2 DEF Written
<1>4. Reads(P, i, 1, Shape(e))
  BY <1>2 DEF Reads
<1>5. Yields(i, P, y.reg, Shape(e))
  BY <1>1, <1>2, <1>4 DEF Yields, To
<1>6. Completed(i, P)
  BY <1>1, <1>2, <1>5 DEF Completed
<1>7. i.op \in Plain
  BY <1>1 DEF Plain
<1> QED BY <1>1, <1>2, <1>3, <1>6, <1>7, LastStep DEF Live
-----------------------------------------------------------------------------
(* The instructions e take the values T to the values U, with o open.      *)
Grows(o, o2) == RAX \notin o2 /\ \A r \in Virtual : r \in o => r \in o2

Selects(e, T, U, o, B) ==
  \E o2 : /\ Goes(e, St(Vals(T), {}, o), St(Vals(U), {}, o2), B)
          /\ Grows(o, o2)
          /\ Live(U, o2)

(* What instructions that do not name RAX leave open.                      *)
LEMMA GrowsOn ==
  ASSUME NEW i \in MachInst, NEW o, NEW o1, Grows(o, o1), ~Occurs(i, RAX)
  PROVE  Grows(o, Opens(i, o1))
<1>1. RAX \notin Opens(i, o1)
  BY OpensIs, FixedRegisters DEF Grows
<1>2. \A r \in Virtual : r \in o1 => r \in Opens(i, o1)
  BY OpensIs DEF Register
<1> QED BY <1>1, <1>2 DEF Grows

(* And what a move that kills RAX or RDX does.                             *)
LEMMA GrowsKilled ==
  ASSUME NEW i \in MachInst, NEW o, NEW o1, \A r \in Virtual : r \in o => r \in o1,
         NEW x, NEW y, i.regs = <<x, y>>, y.reg # RAX, x.kill,
         x.reg = RAX \/ RAX \notin o1
  PROVE  Grows(o, Opens(i, o1))
<1>1. RAX \notin Opens(i, o1)
  <2>1. /\ DOMAIN i.regs = {1, 2} /\ i.regs[1] = x /\ i.regs[2] = y
        /\ Reg(i, 1) = x.reg /\ Reg(i, 2) = y.reg
        /\ \A r : Occurs(i, r) <=> r = x.reg \/ r = y.reg
    BY TwoOperands
  <2>2. Occurs(i, RAX) => \A n \in DOMAIN i.regs : Reg(i, n) = RAX => i.regs[n].kill
    BY <2>1
  <2>3. Occurs(i, RAX) => RAX \notin Opens(i, o1)
    BY <2>2, OpensIs, FixedRegisters
  <2>4. ~Occurs(i, RAX) => RAX \notin Opens(i, o1)
    BY <2>1, OpensIs, FixedRegisters
  <2> QED BY <2>3, <2>4
<1>2. \A r \in Virtual : r \in o1 => r \in Opens(i, o1)
  BY OpensIs DEF Register
<1> QED BY <1>1, <1>2 DEF Grows

(* Virtual registers are not the fixed ones.                               *)
LEMMA NotFixed ==
  ASSUME NEW r \in Virtual
  PROVE  r # RAX /\ r # RDX /\ r # RCX /\ r \notin Physical
BY BackendAssumption, RegistersAssumption

(* The only element of a sequence is of its set.                           *)
LEMMA OnlyIn ==
  ASSUME NEW S, NEW s \in Seq(S), Len(s) = 1 PROVE s[1] \in S
<1>1. 1 \in DOMAIN s
  OBVIOUS
<1> QED BY <1>1

(* An operation of one instruction.                                        *)
LEMMA OneGoes ==
  ASSUME NEW o, RAX \notin o, NEW T, Live(T, o), NEW A, Live(A, o),
         NEW v \in Virtual, v \notin T, NEW B,
         NEW e \in Seq(MachInst), Len(e) = 1, e[1].op \in Plain,
         e[1].eval.kind \notin {"none", "store", "copy", "ret", "test"}, e[1].eval.value = v,
         Written(e[1]) = {v}, LastReg(e[1]) = v, Occurs(e[1], v), ~Occurs(e[1], RAX),
         Yields(e[1], St(Vals(T \union A), {}, o), v, Shape(e[1].eval))
  PROVE  Selects(e, T \union A, T \union {v}, o, B)
<1>3. e[1] \in MachInst
  BY OnlyIn
<1> DEFINE P == St(Vals(T \union A), {}, o)
           o1 == Opens(e[1], o)
           Q == St(Vals(T \union {v}), {}, o1)
<1>1. P.open = o /\ Vals(T) \subseteq P.held
  BY DEF St, Vals
<1>2. Completed(e[1], P)
  BY DEF Completed, Plain
<1>4. Q = St(Vals(T \union {v}), {}, Opens(e[1], P.open))
  BY <1>1
<1> HIDE DEF P, Q
<1>5. Follow(e[1], P, Q, B)
  BY <1>1, <1>2, <1>3, <1>4, LastStep DEF Live
<1>6. Goes(e, P, Q, B)
  BY <1>5, GoesOne
<1>7. Grows(o, o1)
  BY <1>3, GrowsOn DEF Grows
<1>8. Live(T \union {v}, o1)
  BY <1>3, LiveOn
<1> QED BY <1>6, <1>7, <1>8 DEF Selects, P, Q

(* One that computes the result in an operand and moves it.                *)
LEMMA MovedGoes ==
  ASSUME NEW o, RAX \notin o, NEW T, Live(T, o), NEW A, Live(A, o),
         NEW y \in A, y \notin T, NEW v \in Virtual, v \notin T, NEW B,
         NEW e \in Seq(MachInst), Len(e) = 2, e[1].op \in Plain, e[1].eval = None,
         Written(e[1]) = {y}, Occurs(e[1], y), ~Occurs(e[1], RAX),
         NEW ev, Is(e[2], "mov", <<Use(y), Use(v)>>, ev), ev.value = v,
         ev.kind \notin {"none", "store", "copy", "ret", "test"},
         Yields(e[1], St(Vals(T \union A), {}, o), y, Shape(ev))
  PROVE  Selects(e, T \union A, T \union {v}, o, B)
<1> DEFINE P == St(Vals(T \union A), {}, o)
           o1 == Opens(e[1], o)
           Y == {<<y, Shape(ev)>>}
           Q == St(Vals(T) \union Y, {}, o1)
           o2 == Opens(e[2], o1)
           R == St(Vals(T \union {v}), {}, o2)
<1>1. P.open = o /\ Vals(T) \subseteq P.held
  BY DEF St, Vals
<1>2. e[1] \in MachInst /\ e[2] \in MachInst /\ e[2].regs = <<Use(y), Use(v)>>
  BY DEF Is
<1>3. e[1].eval.kind = "none" /\ e[1].eval.value = NoRegister
  BY DEF None
<1>4. Q = St(Vals(T) \union Y, {}, Opens(e[1], P.open))
  BY <1>1
<1>5. \A f \in Y : Yields(e[1], P, f[1], f[2])
  OBVIOUS
<1>6. Q.open = o1 /\ Vals(T) \subseteq Q.held /\ <<y, Shape(ev)>> \in Q.held
  BY DEF St
<1>7. Use(y).reg = y /\ Use(v).reg = v
  BY DEF Use
<1>8. R = St(Vals(T \union {v}), {}, Opens(e[2], Q.open))
  BY <1>6
<1> HIDE DEF P, Q, R, Y
<1>9. Follow(e[1], P, Q, B)
  <2>1. \A t \in T : t \notin Written(e[1])
    OBVIOUS
  <2>2. \A t \in T : t \in Virtual /\ t \in P.open
    BY <1>1 DEF Live
  <2>3. \A w \in Written(e[1]) : Occurs(e[1], w)
    OBVIOUS
  <2> QED BY <1>1, <1>2, <1>3, <1>4, <1>5, <2>1, <2>2, <2>3, MidStep
<1>10. Live(T, o1)
  BY <1>2, LiveOn
<1>11. Follow(e[2], Q, R, B)
  BY <1>6, <1>7, <1>8, <1>10, MovLast
<1>12. Goes(e, P, R, B)
  BY <1>9, <1>11, GoesTwo
<1>13. y # RAX /\ v # RAX /\ \A r : Occurs(e[2], r) <=> r = y \/ r = v
  <2>1. \A r : Occurs(e[2], r) <=> r = y \/ r = v
    BY <1>2, <1>7, TwoOperands
  <2> QED BY <2>1, NotFixed DEF Live
<1>14. Grows(o, o1)
  BY <1>2, GrowsOn DEF Grows
<1>15. Grows(o, o2)
  BY <1>2, <1>13, <1>14, GrowsOn
<1>16. Live(T \union {v}, o2)
  BY <1>2, <1>10, <1>13, LiveOn
<1> HIDE DEF o1, o2
<1> QED BY <1>12, <1>15, <1>16 DEF Selects, P, R
-----------------------------------------------------------------------------
(* The operands A of an operation and its value v, with T below them.      *)
Here(o, T, A, v) ==
  /\ RAX \notin o
  /\ Live(T, o) /\ Live(A, o) /\ A \intersect T = {}
  /\ v \in Virtual /\ v \notin T /\ v \notin A

Completes(kind, v, a) == [kind |-> kind, value |-> v, args |-> a]

(* What is emitted are the instructions selected.                          *)
LEMMA EmitAt ==
  ASSUME NEW insts, NEW S, insts \in Seq(S), NEW kind, NEW v, NEW a, NEW e,
         e = Emit(insts, kind, v, a), e \in Seq(MachInst)
  PROVE  /\ Len(e) = Len(insts)
         /\ \A q \in DOMAIN insts :
              Is(e[q], insts[q].op, insts[q].regs,
                 IF q = Len(insts) THEN Completes(kind, v, a) ELSE None)
<1>1. DOMAIN e = DOMAIN insts
  BY DEF Emit
<1>2. Len(e) = Len(insts)
  BY <1>1
<1>3. ASSUME NEW q \in DOMAIN insts
      PROVE  Is(e[q], insts[q].op, insts[q].regs,
                IF q = Len(insts) THEN Completes(kind, v, a) ELSE None)
  <2>1. e[q] = Place(insts[q], block, 0,
                 IF q = Len(insts) THEN [kind |-> kind, value |-> v, args |-> a] ELSE None)
    BY DEF Emit
  <2>2. e[q] \in MachInst
    BY <1>1
  <2> QED BY <2>1, <2>2 DEF Place, Is, Completes
<1> QED BY <1>2, <1>3

(* The registers of an instruction on two of them.                         *)
LEMMA OnTwo ==
  ASSUME NEW i, NEW op, NEW x, NEW y, NEW ev, Is(i, op, <<Use(x), Use(y)>>, ev)
  PROVE  /\ i \in MachInst /\ i.op = op /\ i.eval = ev
         /\ Reg(i, 1) = x /\ Reg(i, 2) = y /\ 1 \in DOMAIN i.regs /\ 2 \in DOMAIN i.regs
         /\ LastReg(i) = y /\ \A r : Occurs(i, r) <=> r = x \/ r = y
<1>1. i \in MachInst /\ i.op = op /\ i.eval = ev /\ i.regs = <<Use(x), Use(y)>>
  BY DEF Is
<1>2. Use(x).reg = x /\ Use(y).reg = y
  BY DEF Use
<1>3. /\ Reg(i, 1) = x /\ Reg(i, 2) = y /\ 1 \in DOMAIN i.regs /\ 2 \in DOMAIN i.regs
      /\ LastReg(i) = y /\ \A r : Occurs(i, r) <=> r = x \/ r = y
  BY <1>1, <1>2, TwoOperands
<1> QED BY <1>1, <1>3

(* And on one.                                                             *)
LEMMA OnOne ==
  ASSUME NEW i, NEW op, NEW x, NEW ev, Is(i, op, <<Use(x)>>, ev)
  PROVE  /\ i \in MachInst /\ i.op = op /\ i.eval = ev
         /\ Reg(i, 1) = x /\ 1 \in DOMAIN i.regs
         /\ LastReg(i) = x /\ \A r : Occurs(i, r) <=> r = x
<1>1. i \in MachInst /\ i.op = op /\ i.eval = ev /\ i.regs = <<Use(x)>>
  BY DEF Is
<1>2. Use(x).reg = x
  BY DEF Use
<1>3. /\ Reg(i, 1) = x /\ 1 \in DOMAIN i.regs
      /\ LastReg(i) = x /\ \A r : Occurs(i, r) <=> r = x
  BY <1>1, <1>2, OneOperand
<1> QED BY <1>1, <1>3

(* What an instruction writes.                                             *)
LEMMA WritesOf ==
  ASSUME NEW i
  PROVE  /\ i.op \in {"load", "const", "neg", "scale", "zero", "setg", "pop"} => Written(i) = {Reg(i, 1)}
         /\ i.op \in {"mov", "deref", "add", "sub", "imul", "shl", "cqo"} => Written(i) = {Reg(i, 2)}
BY DEF Written

(* Values in registers are held there.                                     *)
LEMMA ValsHeld ==
  ASSUME NEW A, NEW o, NEW x \in A, NEW i, NEW n \in DOMAIN i.regs, Reg(i, n) = x
  PROVE  Reads(St(Vals(A), {}, o), i, n, Val(x))
BY DEF Reads, St, Vals

(* LIRCodegen's load of a variable.                                        *)
LEMMA LoadSelects ==
  ASSUME NEW o, NEW T, NEW v, Here(o, T, {}, v), NEW B, NEW e \in Seq(MachInst), Len(e) = 1,
         NEW ev, ev = Completes("load", v, << >>), Is(e[1], "load", <<Use(v)>>, ev)
  PROVE  Selects(e, T, T \union {v}, o, B)
<1>1. PICK i, A : i = e[1] /\ A = {}
  OBVIOUS
<1>2. Is(i, "load", <<Use(v)>>, ev)
  BY <1>1
<1>3. /\ i.op = "load" /\ i.eval = ev
      /\ Reg(i, 1) = v /\ 1 \in DOMAIN i.regs
      /\ LastReg(i) = v /\ (\A r : Occurs(i, r) <=> r = v)
  BY <1>2, OnOne
<1>4. i.op \in Plain /\ Written(i) = {v}
  BY <1>3, WritesOf DEF Plain
<1>5. ev.kind = "load" /\ ev.value = v /\ Shape(ev) = Sh("load", <<v>>)
  BY DEF Completes, Shape
<1>7. Yields(i, St(Vals(T \union A), {}, o), v, Shape(ev))
  BY <1>3, <1>5 DEF Yields, YieldsFixed, To
<1>8. /\ v # RAX /\ v \in Virtual /\ v \notin T /\ RAX \notin o /\ Live(T, o)
      /\ Live(A, o)
  BY <1>1, NotFixed DEF Here, Live
<1>9. Selects(e, T \union A, T \union {v}, o, B)
  BY <1>1, <1>3, <1>4, <1>5, <1>7, <1>8, OneGoes
<1>10. T \union A = T
  BY <1>1
<1> QED BY <1>9, <1>10

(* The load through a pointer.                                             *)
LEMMA DerefSelects ==
  ASSUME NEW o, NEW T, NEW u, NEW v, Here(o, T, {u}, v), NEW B, NEW e \in Seq(MachInst), Len(e) = 1,
         NEW ev, ev = Completes("deref", v, <<u>>), Is(e[1], "deref", <<Use(u), Use(v)>>, ev)
  PROVE  Selects(e, T \union {u}, T \union {v}, o, B)
<1>1. PICK i, A : i = e[1] /\ A = {u}
  OBVIOUS
<1>2. Is(i, "deref", <<Use(u), Use(v)>>, ev)
  BY <1>1
<1>3. /\ i.op = "deref" /\ i.eval = ev
      /\ Reg(i, 1) = u /\ Reg(i, 2) = v /\ 1 \in DOMAIN i.regs /\ 2 \in DOMAIN i.regs
      /\ LastReg(i) = v /\ (\A r : Occurs(i, r) <=> r = u \/ r = v)
  BY <1>2, OnTwo
<1>4. i.op \in Plain /\ Written(i) = {v}
  BY <1>3, WritesOf DEF Plain
<1>5. ev.kind = "deref" /\ ev.value = v /\ Shape(ev) = Sh("deref", <<u>>)
  BY DEF Completes, Shape
<1>6. Reads(St(Vals(T \union A), {}, o), i, 1, Val(u))
  <2>1. u \in T \union A
    BY <1>1
  <2> QED BY <1>3, <2>1, ValsHeld
<1>7. Yields(i, St(Vals(T \union A), {}, o), v, Shape(ev))
  BY <1>3, <1>5, <1>6 DEF Yields, YieldsOfOne, To
<1>8. /\ v # RAX /\ u # RAX /\ v \in Virtual /\ v \notin T /\ RAX \notin o /\ Live(T, o)
      /\ Live(A, o)
  BY <1>1, NotFixed DEF Here, Live
<1>9. Selects(e, T \union A, T \union {v}, o, B)
  BY <1>1, <1>3, <1>4, <1>5, <1>7, <1>8, OneGoes
<1> QED BY <1>1, <1>9
-----------------------------------------------------------------------------
(* Addition and subtraction: the result is in an operand.                  *)
LEMMA SumSelects ==
  ASSUME NEW o, NEW T, NEW x, NEW y, NEW v, Here(o, T, {x, y}, v), NEW B,
         NEW e \in Seq(MachInst), Len(e) = 2, NEW op, Is(e[1], op, <<Use(x), Use(y)>>, None),
         NEW ev, Is(e[2], "mov", <<Use(y), Use(v)>>, ev),
         \/ op = "add" /\ ev = Completes("iadd", v, <<x, y>>)
         \/ op = "sub" /\ ev = Completes("isub", v, <<y, x>>)
  PROVE  Selects(e, T \union {x, y}, T \union {v}, o, B)
<1>1. PICK i, A, P : i = e[1] /\ A = {x, y} /\ P = St(Vals(T \union A), {}, o)
  OBVIOUS
<1>2. Is(i, op, <<Use(x), Use(y)>>, None)
  BY <1>1
<1>3. /\ i.op = op /\ i.eval = None
      /\ Reg(i, 1) = x /\ Reg(i, 2) = y /\ 1 \in DOMAIN i.regs /\ 2 \in DOMAIN i.regs
      /\ \A r : Occurs(i, r) <=> r = x \/ r = y
  BY <1>2, OnTwo
<1>4. i.op \in Plain /\ Written(i) = {y}
  BY <1>3, WritesOf DEF Plain
<1>5. /\ ev.kind \in {"iadd", "isub"} /\ ev.value = v
      /\ \/ op = "add" /\ Shape(ev) = Sh("iadd", <<x, y>>)
         \/ op = "sub" /\ Shape(ev) = Sh("isub", <<y, x>>)
  <2>1. ASSUME op = "add", ev = Completes("iadd", v, <<x, y>>)
        PROVE  ev.kind = "iadd" /\ ev.value = v /\ Shape(ev) = Sh("iadd", <<x, y>>)
    BY <2>1 DEF Completes, Shape
  <2>2. ASSUME op = "sub", ev = Completes("isub", v, <<y, x>>)
        PROVE  ev.kind = "isub" /\ ev.value = v /\ Shape(ev) = Sh("isub", <<y, x>>)
    BY <2>2 DEF Completes, Shape
  <2> QED BY <2>1, <2>2
<1>6. Reads(P, i, 1, Val(x)) /\ Reads(P, i, 2, Val(y))
  <2>1. x \in T \union A /\ y \in T \union A
    BY <1>1
  <2> QED BY <1>1, <1>3, <2>1, ValsHeld
<1>7. YieldsOfTwo(i, x, y, y, Shape(ev))
  BY <1>3, <1>5 DEF YieldsOfTwo, To
<1>8. Yields(i, P, y, Shape(ev))
  BY <1>6, <1>7 DEF Yields
<1>9. /\ v \in Virtual /\ v \notin T /\ RAX \notin o /\ Live(T, o) /\ Live(A, o)
      /\ y \in A /\ y \notin T /\ x # RAX /\ y # RAX
  BY <1>1, NotFixed DEF Here, Live
<1>10. Selects(e, T \union A, T \union {v}, o, B)
  BY <1>1, <1>3, <1>4, <1>5, <1>8, <1>9, MovedGoes
<1> QED BY <1>1, <1>10

(* Negation.                                                               *)
LEMMA NegateSelects ==
  ASSUME NEW o, NEW T, NEW x, NEW v, Here(o, T, {x}, v), NEW B,
         NEW e \in Seq(MachInst), Len(e) = 2, Is(e[1], "neg", <<Use(x)>>, None),
         NEW ev, Is(e[2], "mov", <<Use(x), Use(v)>>, ev), ev = Completes("ineg", v, <<x>>)
  PROVE  Selects(e, T \union {x}, T \union {v}, o, B)
<1>1. PICK i, A, P : i = e[1] /\ A = {x} /\ P = St(Vals(T \union A), {}, o)
  OBVIOUS
<1>2. Is(i, "neg", <<Use(x)>>, None)
  BY <1>1
<1>3. /\ i.op = "neg" /\ i.eval = None
      /\ Reg(i, 1) = x /\ 1 \in DOMAIN i.regs
      /\ \A r : Occurs(i, r) <=> r = x
  BY <1>2, OnOne
<1>4. i.op \in Plain /\ Written(i) = {x}
  BY <1>3, WritesOf DEF Plain
<1>5. /\ ev.kind = "ineg" /\ ev.value = v /\ Shape(ev) = Sh("ineg", <<x>>)
  BY DEF Completes, Shape
<1>6. Reads(P, i, 1, Val(x))
  <2>1. x \in T \union A
    BY <1>1
  <2> QED BY <1>1, <1>3, <2>1, ValsHeld
<1>7. YieldsOfOne(i, x, x, Shape(ev))
  BY <1>3, <1>5 DEF YieldsOfOne, To
<1>8. Yields(i, P, x, Shape(ev))
  BY <1>6, <1>7 DEF Yields
<1>9. /\ v \in Virtual /\ v \notin T /\ RAX \notin o /\ Live(T, o) /\ Live(A, o)
      /\ x \in A /\ x \notin T /\ x # RAX
  BY <1>1, NotFixed DEF Here, Live
<1>10. Selects(e, T \union A, T \union {v}, o, B)
  BY <1>1, <1>3, <1>4, <1>5, <1>8, <1>9, MovedGoes
<1> QED BY <1>1, <1>10

(* A move of a value to another register leaves what is held elsewhere.    *)
LEMMA MovKeeps ==
  ASSUME NEW i, NEW x \in Virtual, NEW y \in Register, NEW W, NEW o,
         Is(i, "mov", <<Use(x), Use(y)>>, None), Live(W, o), x \in W, y \notin W,
         NEW Y, \A f \in Y : f[1] \in o /\ f[1] # y, NEW B
  PROVE  /\ Follow(i, St(Vals(W) \union Y, {}, o),
                   St(Vals(W) \union (Y \union {<<y, Val(x)>>}), {}, Opens(i, o)), B)
         /\ Live(W, Opens(i, o))
         /\ y \in Opens(i, o)
         /\ \A r \in Register : r \in o => r \in Opens(i, o)
         /\ \A o0 : Grows(o0, o) /\ y # RAX => Grows(o0, Opens(i, o))
<1>1. PICK P, Q : /\ P = St(Vals(W) \union Y, {}, o)
                  /\ Q = St(Vals(W) \union (Y \union {<<y, Val(x)>>}), {}, Opens(i, o))
  OBVIOUS
<1>2. P.open = o /\ P.held = Vals(W) \union Y
  BY <1>1 DEF St
<1>3. <<x, Val(x)>> \in P.held /\ Vals(W) \subseteq P.held /\ Y \subseteq P.held
  BY <1>2 DEF Vals
<1>4. Use(x).reg = x /\ Use(y).reg = y /\ ~Use(x).kill /\ ~Use(y).kill
  BY DEF Use
<1>5. /\ i \in MachInst /\ i.op = "mov" /\ Reg(i, 2) = y /\ i.regs = <<Use(x), Use(y)>>
      /\ \A r : Occurs(i, r) <=> r = x \/ r = y
  BY OnTwo DEF Is
<1>6. DOMAIN i.regs = {1, 2} /\ i.regs[1] = Use(x) /\ i.regs[2] = Use(y)
  BY <1>5, TwoOperands
<1>7. \A n \in DOMAIN i.regs : ~i.regs[n].kill
  BY <1>4, <1>6
<1>8. Written(i) = {y}
  BY <1>5, WritesOf
<1>9. \A f \in Y : f \in P.held /\ f[1] \in Unkilled(i, P.open)
  BY <1>2, <1>3, <1>7, <1>8 DEF Unkilled, KillsAt
<1>10. Live(W, P.open) /\ Q = St(Vals(W) \union (Y \union {<<y, Val(x)>>}), {}, Opens(i, P.open))
  BY <1>1, <1>2
<1>11. Follow(i, P, Q, B)
  BY <1>3, <1>4, <1>9, <1>10, MovMid
<1>12. Live(W, Opens(i, o))
  BY <1>5, LiveOn
<1>13. y \in Opens(i, o)
  BY <1>5, <1>7, OpensIs
<1>14. \A r \in Register : r \in o => r \in Opens(i, o)
  BY <1>5, <1>7, OpensIs
<1>15. ASSUME NEW o0, Grows(o0, o), y # RAX PROVE Grows(o0, Opens(i, o))
  <2>1. ~Occurs(i, RAX)
    BY <1>5, <1>15, NotFixed
  <2> QED BY <1>5, <1>15, <2>1, GrowsOn
<1> QED BY <1>1, <1>11, <1>12, <1>13, <1>14, <1>15

(* The instruction that ends an operation.                                 *)
LEMMA EndStep ==
  ASSUME NEW i, i \in MachInst, NEW ev, i.eval = ev, i.op \in Plain,
         ev.kind \notin {"none", "store", "copy", "ret", "test"},
         NEW v \in Virtual, ev.value = v, Written(i) = {v}, LastReg(i) = v, Occurs(i, v),
         ~Occurs(i, RAX), NEW T, v \notin T, NEW o, NEW o1, Grows(o, o1), Live(T, o1),
         NEW P, Vals(T) \subseteq P.held, P.open = o1, Yields(i, P, v, Shape(ev)), NEW B
  PROVE  \E o2 : /\ Follow(i, P, St(Vals(T \union {v}), {}, o2), B)
                 /\ Grows(o, o2)
                 /\ Live(T \union {v}, o2)
<1>1. Completed(i, P)
  BY DEF Completed, Plain
<1>2. PICK o2, Q : o2 = Opens(i, o1) /\ Q = St(Vals(T \union {v}), {}, o2)
  OBVIOUS
<1>3. Follow(i, P, Q, B)
  BY <1>1, <1>2, LastStep DEF Live
<1>4. Grows(o, o2)
  BY <1>2, GrowsOn
<1>5. Live(T \union {v}, o2)
  BY <1>2, LiveOn
<1> QED BY <1>2, <1>3, <1>4, <1>5
-----------------------------------------------------------------------------
(* What an operation begins with.                                          *)
LEMMA HereIs ==
  ASSUME NEW o, NEW T, NEW A, NEW v, Here(o, T, A, v)
  PROVE  /\ Live(T, o) /\ Live(T \union A, o) /\ Grows(o, o) /\ RAX \notin o
         /\ v \in Virtual /\ v \in Register /\ v \notin T /\ v \notin T \union A /\ v # RAX
         /\ \A x \in A : x \in Virtual /\ x \notin T /\ x # RAX
BY NotFixed DEF Here, Live, Grows, Register

(* Multiplication.                                                         *)
LEMMA MulSelects ==
  ASSUME NEW o, NEW T, NEW x, NEW y, NEW v, Here(o, T, {x, y}, v), NEW B,
         NEW e \in Seq(MachInst), Len(e) = 2, Is(e[1], "mov", <<Use(x), Use(v)>>, None),
         NEW ev, ev = Completes("imul", v, <<x, y>>), Is(e[2], "imul", <<Use(y), Use(v)>>, ev)
  PROVE  Selects(e, T \union {x, y}, T \union {v}, o, B)
<1>1. PICK i, j, W, Y : /\ i = e[1] /\ j = e[2] /\ W = T \union {x, y}
                        /\ Y = {} \union {<<v, Val(x)>>}
  OBVIOUS
<1>2. PICK o1, P, Q : /\ P = St(Vals(W), {}, o) /\ Q = St(Vals(W) \union Y, {}, o1)
                      /\ o1 = Opens(i, o)
  OBVIOUS
<1>3. Is(i, "mov", <<Use(x), Use(v)>>, None) /\ Is(j, "imul", <<Use(y), Use(v)>>, ev)
  BY <1>1
<1>4. /\ Live(T, o) /\ Live(W, o) /\ Grows(o, o) /\ RAX \notin o
      /\ v \in Virtual /\ v \in Register /\ v \notin T /\ v \notin W /\ v # RAX
      /\ x \in Virtual /\ y \in Virtual /\ x \in W /\ y \in W /\ y # RAX
  BY <1>1, HereIs
<1>5. /\ Follow(i, P, Q, B) /\ Live(W, o1) /\ Grows(o, o1)
  <2>0. PICK F : F = {}
    OBVIOUS
  <2>1. \A f \in F : f[1] \in o /\ f[1] # v
    BY <2>0
  <2>2. /\ Follow(i, St(Vals(W) \union F, {}, o),
                   St(Vals(W) \union (F \union {<<v, Val(x)>>}), {}, Opens(i, o)), B)
        /\ Live(W, Opens(i, o))
        /\ \A o0 : Grows(o0, o) /\ v # RAX => Grows(o0, Opens(i, o))
    BY <1>3, <1>4, <2>1, MovKeeps
  <2>3. Vals(W) \union F = Vals(W) /\ F \union {<<v, Val(x)>>} = Y
    BY <1>1, <2>0
  <2> QED BY <1>2, <1>4, <2>2, <2>3
<1>6. /\ j.op = "imul" /\ j.eval = ev /\ j \in MachInst
      /\ Reg(j, 1) = y /\ Reg(j, 2) = v /\ 1 \in DOMAIN j.regs /\ 2 \in DOMAIN j.regs
      /\ LastReg(j) = v /\ (\A r : Occurs(j, r) <=> r = y \/ r = v)
  BY <1>3, OnTwo
<1>7. j.op \in Plain /\ Written(j) = {v}
  BY <1>6, WritesOf DEF Plain
<1>8. ev.kind = "imul" /\ ev.value = v /\ Shape(ev) = Sh("imul", <<x, y>>)
  BY DEF Completes, Shape
<1>9. Q.held = Vals(W) \union Y /\ Q.open = o1
  BY <1>2 DEF St
<1>10. Reads(Q, j, 1, Val(y)) /\ Reads(Q, j, 2, Val(x))
  <2>1. <<y, Val(y)>> \in Q.held
    BY <1>4, <1>9 DEF Vals
  <2>2. <<v, Val(x)>> \in Q.held
    BY <1>1, <1>9
  <2> QED BY <1>6, <2>1, <2>2 DEF Reads
<1>11. YieldsOfTwo(j, y, x, v, Shape(ev))
  BY <1>6, <1>8 DEF YieldsOfTwo, To
<1>12. Yields(j, Q, v, Shape(ev))
  BY <1>10, <1>11 DEF Yields
<1>13. Vals(T) \subseteq Q.held
  BY <1>1, <1>9 DEF Vals
<1>14. Live(T, o1)
  BY <1>1, <1>5 DEF Live
<1>15. PICK o2 : /\ Follow(j, Q, St(Vals(T \union {v}), {}, o2), B)
                 /\ Grows(o, o2)
                 /\ Live(T \union {v}, o2)
  <2>1. ~Occurs(j, RAX) /\ Occurs(j, v)
    BY <1>4, <1>6
  <2>2. ev.kind \notin {"none", "store", "copy", "ret", "test"}
    BY <1>8
  <2> QED BY <1>4, <1>5, <1>6, <1>7, <1>8, <1>9, <1>12, <1>13, <1>14, <2>1, <2>2, EndStep
<1>16. Goes(e, P, St(Vals(T \union {v}), {}, o2), B)
  BY <1>1, <1>5, <1>15, GoesTwo
<1> QED BY <1>1, <1>2, <1>15, <1>16 DEF Selects

(* A shift, whose count goes through RCX.                                  *)
LEMMA ShiftSelects ==
  ASSUME NEW o, NEW T, NEW x, NEW y, NEW v, Here(o, T, {x, y}, v), NEW B,
         NEW e \in Seq(MachInst), Len(e) = 3, Is(e[1], "mov", <<Use(x), Use(v)>>, None),
         Is(e[2], "mov", <<Use(y), Use(RCX)>>, None),
         NEW ev, ev = Completes("shift", v, <<x, y>>), Is(e[3], "shl", <<Use(RCX), Use(v)>>, ev)
  PROVE  Selects(e, T \union {x, y}, T \union {v}, o, B)
<1>1. PICK h, i, j, W, Y, Z :
        /\ h = e[1] /\ i = e[2] /\ j = e[3] /\ W = T \union {x, y}
        /\ Y = {} \union {<<v, Val(x)>>} /\ Z = Y \union {<<RCX, Val(y)>>}
  OBVIOUS
<1>2. PICK o1, o2, P, Q, R :
        /\ P = St(Vals(W), {}, o) /\ Q = St(Vals(W) \union Y, {}, o1)
        /\ o1 = Opens(h, o) /\ o2 = Opens(i, o1)
        /\ R = St(Vals(W) \union Z, {}, o2)
  OBVIOUS
<1>3. /\ Is(h, "mov", <<Use(x), Use(v)>>, None) /\ Is(i, "mov", <<Use(y), Use(RCX)>>, None)
      /\ Is(j, "shl", <<Use(RCX), Use(v)>>, ev)
  BY <1>1
<1>4. /\ Live(T, o) /\ Live(W, o) /\ Grows(o, o) /\ RAX \notin o
      /\ v \in Virtual /\ v \in Register /\ v \notin T /\ v \notin W /\ v # RAX
      /\ x \in Virtual /\ y \in Virtual /\ x \in W /\ y \in W /\ y # RAX
  BY <1>1, HereIs
<1>a. RCX \in Register /\ RCX # RAX /\ RCX \notin W /\ v # RCX
  BY <1>4, NotFixed, FixedRegisters, BackendAssumption DEF Live
<1>5. /\ Follow(h, P, Q, B) /\ Live(W, o1) /\ Grows(o, o1) /\ v \in o1
  <2>0. PICK F : F = {}
    OBVIOUS
  <2>1. \A f \in F : f[1] \in o /\ f[1] # v
    BY <2>0
  <2>2. /\ Follow(h, St(Vals(W) \union F, {}, o),
                   St(Vals(W) \union (F \union {<<v, Val(x)>>}), {}, Opens(h, o)), B)
        /\ Live(W, Opens(h, o)) /\ v \in Opens(h, o)
        /\ \A o0 : Grows(o0, o) /\ v # RAX => Grows(o0, Opens(h, o))
    BY <1>3, <1>4, <2>1, MovKeeps
  <2>3. Vals(W) \union F = Vals(W) /\ F \union {<<v, Val(x)>>} = Y
    BY <1>1, <2>0
  <2> QED BY <1>2, <1>4, <2>2, <2>3
<1>b. /\ Follow(i, Q, R, B) /\ Live(W, o2) /\ Grows(o, o2)
  <2>1. \A f \in Y : f[1] \in o1 /\ f[1] # RCX
    BY <1>1, <1>5, <1>a
  <2>2. /\ Follow(i, St(Vals(W) \union Y, {}, o1),
                   St(Vals(W) \union (Y \union {<<RCX, Val(y)>>}), {}, Opens(i, o1)), B)
        /\ Live(W, Opens(i, o1))
        /\ \A o0 : Grows(o0, o1) /\ RCX # RAX => Grows(o0, Opens(i, o1))
    BY <1>3, <1>4, <1>5, <1>a, <2>1, MovKeeps
  <2> QED BY <1>1, <1>2, <1>5, <1>a, <2>2
<1>6. /\ j.op = "shl" /\ j.eval = ev /\ j \in MachInst
      /\ Reg(j, 1) = RCX /\ Reg(j, 2) = v /\ 1 \in DOMAIN j.regs /\ 2 \in DOMAIN j.regs
      /\ LastReg(j) = v /\ (\A r : Occurs(j, r) <=> r = RCX \/ r = v)
  BY <1>3, OnTwo
<1>7. j.op \in Plain /\ Written(j) = {v}
  BY <1>6, WritesOf DEF Plain
<1>8. ev.kind = "shift" /\ ev.value = v /\ Shape(ev) = Sh("shift", <<x, y>>)
  BY DEF Completes, Shape
<1>9. R.held = Vals(W) \union Z /\ R.open = o2
  BY <1>2 DEF St
<1>10. Reads(R, j, 1, Val(y)) /\ Reads(R, j, 2, Val(x))
  <2>1. <<RCX, Val(y)>> \in R.held /\ <<v, Val(x)>> \in R.held
    BY <1>1, <1>9
  <2> QED BY <1>6, <2>1 DEF Reads
<1>11. YieldsOfTwo(j, y, x, v, Shape(ev))
  BY <1>6, <1>8 DEF YieldsOfTwo, To
<1>12. Yields(j, R, v, Shape(ev))
  BY <1>10, <1>11 DEF Yields
<1>13. Vals(T) \subseteq R.held
  BY <1>1, <1>9 DEF Vals
<1>14. Live(T, o2)
  BY <1>1, <1>b DEF Live
<1>15. PICK o3 : /\ Follow(j, R, St(Vals(T \union {v}), {}, o3), B)
                 /\ Grows(o, o3)
                 /\ Live(T \union {v}, o3)
  <2>1. ~Occurs(j, RAX) /\ Occurs(j, v)
    BY <1>4, <1>6, <1>a
  <2>2. ev.kind \notin {"none", "store", "copy", "ret", "test"}
    BY <1>8
  <2> QED BY <1>4, <1>b, <1>6, <1>7, <1>8, <1>9, <1>12, <1>13, <1>14, <2>1, <2>2, EndStep
<1>16. Goes(e, P, St(Vals(T \union {v}), {}, o3), B)
  BY <1>1, <1>5, <1>b, <1>15, GoesThree
<1> QED BY <1>1, <1>2, <1>15, <1>16 DEF Selects
-----------------------------------------------------------------------------
(* Instructions that write no register leave the values where they are.    *)
LEMMA KeepStep ==
  ASSUME NEW i \in MachInst, i.op \in {"cmp", "store", "test", "jne"},
         i.op = "jne" => i.eval.kind = "none", i.eval.value = NoRegister,
         NEW P, NEW T, Vals(T) \subseteq P.held, Live(T, P.open),
         i.eval.kind # "none" => Completed(i, P),
         NEW B, i.op = "jne" => B[i.target] \subseteq P.held,
         NEW fl, \A f \in fl : /\ i.op = "cmp" /\ i.eval.kind = "none"
                               /\ \E u, w : f = <<u, w>> /\ Reads(P, i, 1, Val(u)) /\ Reads(P, i, 2, Val(w))
  PROVE  Follow(i, P, St(Vals(T), fl, Opens(i, P.open)), B)
<1>1. PICK Q : Q = St(Vals(T), fl, Opens(i, P.open))
  OBVIOUS
<1>2. Q.held = Vals(T) /\ Q.flags = fl /\ Q.open = Opens(i, P.open)
  BY <1>1 DEF St
<1>3. Written(i) = {}
  BY DEF Written
<1>4. \A t \in T : t \notin Written(i) /\ t # i.eval.value /\ t \in Virtual /\ t \in P.open
  BY <1>3, RegistersAssumption DEF Live
<1>5. \A f \in Vals(T) : /\ f[1] \in Unkilled(i, P.open)
                         /\ \A n \in DOMAIN f[2].of : f[2].of[n] \in Virtual \ {i.eval.value}
  BY <1>4, ValsKept
<1>6. Moves(i, P, Q, Unkilled(i, P.open))
  BY <1>2, <1>5 DEF Moves
<1>7. Follow(i, P, Q, B)
  BY <1>2, <1>3, <1>6 DEF Follow
<1> QED BY <1>1, <1>7

(* A comparison goes through the flags.                                    *)
LEMMA LessSelects ==
  ASSUME NEW o, NEW T, NEW x, NEW y, NEW v, Here(o, T, {x, y}, v), NEW B,
         NEW e \in Seq(MachInst), Len(e) = 2, Is(e[1], "cmp", <<Use(x), Use(y)>>, None),
         NEW ev, ev = Completes("less", v, <<x, y>>), Is(e[2], "setg", <<Use(v)>>, ev)
  PROVE  Selects(e, T \union {x, y}, T \union {v}, o, B)
<1>1. PICK i, j, W, fl : i = e[1] /\ j = e[2] /\ W = T \union {x, y} /\ fl = {<<x, y>>}
  OBVIOUS
<1>2. PICK o1, P, Q : /\ P = St(Vals(W), {}, o) /\ Q = St(Vals(T), fl, o1)
                      /\ o1 = Opens(i, o)
  OBVIOUS
<1>3. Is(i, "cmp", <<Use(x), Use(y)>>, None) /\ Is(j, "setg", <<Use(v)>>, ev)
  BY <1>1
<1>4. /\ Live(T, o) /\ Live(W, o) /\ Grows(o, o) /\ RAX \notin o
      /\ v \in Virtual /\ v \notin T /\ v # RAX
      /\ x \in W /\ y \in W /\ x # RAX /\ y # RAX
  BY <1>1, HereIs
<1>5. /\ i.op = "cmp" /\ i.eval = None /\ i \in MachInst
      /\ Reg(i, 1) = x /\ Reg(i, 2) = y /\ 1 \in DOMAIN i.regs /\ 2 \in DOMAIN i.regs
      /\ (\A r : Occurs(i, r) <=> r = x \/ r = y)
  BY <1>3, OnTwo
<1>6. P.open = o /\ P.held = Vals(W)
  BY <1>2 DEF St
<1>7. Follow(i, P, Q, B)
  <2>1. i.eval.kind = "none" /\ i.eval.value = NoRegister
    BY <1>5 DEF None
  <2>2. Reads(P, i, 1, Val(x)) /\ Reads(P, i, 2, Val(y))
    BY <1>2, <1>4, <1>5, ValsHeld DEF Reads, Vals, St
  <2>3. \A f \in fl : /\ i.op = "cmp" /\ i.eval.kind = "none"
                      /\ \E u, w : f = <<u, w>> /\ Reads(P, i, 1, Val(u)) /\ Reads(P, i, 2, Val(w))
    BY <1>1, <1>5, <2>1, <2>2
  <2>4. Vals(T) \subseteq P.held /\ Live(T, P.open)
    BY <1>1, <1>4, <1>6 DEF Vals
  <2>5. Follow(i, P, St(Vals(T), fl, Opens(i, P.open)), B)
    BY <1>5, <2>1, <2>3, <2>4, KeepStep
  <2> QED BY <1>2, <1>6, <2>5
<1>8. Live(T, o1) /\ Grows(o, o1)
  <2>1. ~Occurs(i, RAX)
    BY <1>4, <1>5
  <2> QED BY <1>2, <1>4, <1>5, <2>1, LiveOn, GrowsOn
<1>9. /\ j.op = "setg" /\ j.eval = ev /\ j \in MachInst
      /\ Reg(j, 1) = v /\ 1 \in DOMAIN j.regs
      /\ LastReg(j) = v /\ (\A r : Occurs(j, r) <=> r = v)
  BY <1>3, OnOne DEF Is
<1>10. j.op \in Plain /\ Written(j) = {v}
  BY <1>9, WritesOf DEF Plain
<1>11. ev.kind = "less" /\ ev.value = v /\ Shape(ev) = Sh("less", <<x, y>>)
  BY DEF Completes, Shape
<1>12. Yields(j, Q, v, Shape(ev))
  <2>1. <<x, y>> \in Q.flags
    BY <1>1, <1>2 DEF St
  <2>2. To(j, 1, v)
    BY <1>9 DEF To
  <2>3. \E u, w : <<u, w>> \in Q.flags /\ j.op = "setg" /\ To(j, 1, v) /\ Shape(ev) = Sh("less", <<u, w>>)
    BY <1>9, <1>11, <2>1, <2>2
  <2> QED BY <2>3 DEF Yields
<1>13. Vals(T) \subseteq Q.held /\ Q.open = o1
  BY <1>2 DEF St
<1>15. PICK o2 : /\ Follow(j, Q, St(Vals(T \union {v}), {}, o2), B)
                 /\ Grows(o, o2)
                 /\ Live(T \union {v}, o2)
  <2>1. ~Occurs(j, RAX) /\ Occurs(j, v)
    BY <1>4, <1>9
  <2>2. ev.kind \notin {"none", "store", "copy", "ret", "test"}
    BY <1>11
  <2> QED BY <1>4, <1>8, <1>9, <1>10, <1>11, <1>12, <1>13, <2>1, <2>2, EndStep
<1>16. Goes(e, P, St(Vals(T \union {v}), {}, o2), B)
  BY <1>1, <1>7, <1>15, GoesTwo
<1> QED BY <1>1, <1>2, <1>15, <1>16 DEF Selects

(* The operand of pwalk that is scaled keeps the scaled index.             *)
LEMMA PwalkSelects ==
  ASSUME NEW o, NEW T, NEW x, NEW y, NEW v, Here(o, T, {x, y}, v), NEW B,
         NEW e \in Seq(MachInst), Len(e) = 3, Is(e[1], "mov", <<Use(x), Use(v)>>, None),
         Is(e[2], "scale", <<Use(y)>>, None),
         NEW ev, ev = Completes("pwalk", v, <<x, y>>), Is(e[3], "add", <<Use(y), Use(v)>>, ev)
  PROVE  Selects(e, T \union {x, y}, T \union {v}, o, B)
<1>1. PICK h, i, j, W, Y, Z :
        /\ h = e[1] /\ i = e[2] /\ j = e[3] /\ W = T \union {x, y}
        /\ Y = {<<v, Val(x)>>} /\ Z = Y \union {<<y, Sh("scale", <<y>>)>>}
  OBVIOUS
<1>2. PICK o1, o2, P, Q, R :
        /\ P = St(Vals(W), {}, o) /\ Q = St(Vals(W) \union Y, {}, o1)
        /\ o1 = Opens(h, o) /\ o2 = Opens(i, o1)
        /\ R = St(Vals(T) \union Z, {}, o2)
  OBVIOUS
<1>3. /\ Is(h, "mov", <<Use(x), Use(v)>>, None) /\ Is(i, "scale", <<Use(y)>>, None)
      /\ Is(j, "add", <<Use(y), Use(v)>>, ev)
  BY <1>1
<1>4. /\ Live(T, o) /\ Live(W, o) /\ Grows(o, o) /\ RAX \notin o
      /\ v \in Virtual /\ v \in Register /\ v \notin T /\ v \notin W /\ v # RAX
      /\ x \in Virtual /\ y \in Virtual /\ x \in W /\ y \in W /\ y # RAX /\ y \notin T
  BY <1>1, HereIs
<1>5. /\ Follow(h, P, Q, B) /\ Live(W, o1) /\ Grows(o, o1) /\ v \in o1
  <2>0. PICK F : F = {}
    OBVIOUS
  <2>1. \A f \in F : f[1] \in o /\ f[1] # v
    BY <2>0
  <2>2. /\ Follow(h, St(Vals(W) \union F, {}, o),
                   St(Vals(W) \union (F \union {<<v, Val(x)>>}), {}, Opens(h, o)), B)
        /\ Live(W, Opens(h, o)) /\ v \in Opens(h, o)
        /\ \A o0 : Grows(o0, o) /\ v # RAX => Grows(o0, Opens(h, o))
    BY <1>3, <1>4, <2>1, MovKeeps
  <2>3. Vals(W) \union F = Vals(W) /\ F \union {<<v, Val(x)>>} = Y
    BY <1>1, <2>0
  <2> QED BY <1>2, <1>4, <2>2, <2>3
<1>6. /\ i.op = "scale" /\ i.eval = None /\ i \in MachInst
      /\ Reg(i, 1) = y /\ 1 \in DOMAIN i.regs
      /\ (\A r : Occurs(i, r) <=> r = y)
  BY <1>3, OnOne
<1>7. i.op \in Plain /\ Written(i) = {y} /\ i.eval.kind = "none" /\ i.eval.value = NoRegister
  BY <1>6, WritesOf DEF Plain, None
<1>8. Q.held = Vals(W) \union Y /\ Q.open = o1 /\ R.held = Vals(T) \union Z /\ R.open = o2
  BY <1>2 DEF St
<1>9. Follow(i, Q, R, B)
  <2>1. Vals(T) \subseteq Q.held /\ \A t \in T : t \in Virtual /\ t \in Q.open
    BY <1>1, <1>5, <1>8 DEF Vals, Live
  <2>2. Yields(i, Q, y, Sh("scale", <<y>>))
    <3>1. <<y, Val(y)>> \in Q.held
      BY <1>4, <1>8 DEF Vals
    <3>2. Reads(Q, i, 1, Val(y))
      BY <1>6, <3>1 DEF Reads
    <3>3. YieldsOfOne(i, y, y, Sh("scale", <<y>>))
      BY <1>6 DEF YieldsOfOne, To
    <3> QED BY <3>2, <3>3 DEF Yields
  <2>3. v \in Unkilled(i, Q.open)
    <3>1. ~KillsAt(i, v)
      BY <1>4, <1>6 DEF KillsAt, Occurs, Reg
    <3> QED BY <1>4, <1>5, <1>7, <1>8, <3>1 DEF Unkilled
  <2>4. \A f \in Z : \/ f \in Q.held /\ f[1] \in Unkilled(i, Q.open)
                     \/ Yields(i, Q, f[1], f[2])
    BY <1>1, <1>8, <2>2, <2>3
  <2>5. (\A t \in T : t \notin Written(i)) /\ \A w \in Written(i) : Occurs(i, w)
    BY <1>4, <1>6, <1>7
  <2>6. R = St(Vals(T) \union Z, {}, Opens(i, Q.open))
    BY <1>2, <1>8
  <2> QED BY <1>6, <1>7, <2>1, <2>4, <2>5, <2>6, MidStep
<1>10. Live(T, o2) /\ Grows(o, o2)
  <2>1. ~Occurs(i, RAX)
    BY <1>4, <1>6
  <2>2. Live(T, o1)
    BY <1>1, <1>5 DEF Live
  <2> QED BY <1>2, <1>5, <1>6, <2>1, <2>2, LiveOn, GrowsOn
<1>11. /\ j.op = "add" /\ j.eval = ev /\ j \in MachInst
      /\ Reg(j, 1) = y /\ Reg(j, 2) = v /\ 1 \in DOMAIN j.regs /\ 2 \in DOMAIN j.regs
      /\ LastReg(j) = v /\ (\A r : Occurs(j, r) <=> r = y \/ r = v)
  BY <1>3, OnTwo
<1>12. j.op \in Plain /\ Written(j) = {v}
  BY <1>11, WritesOf DEF Plain
<1>13. ev.kind = "pwalk" /\ ev.value = v /\ Shape(ev) = Sh("pwalk", <<x, y>>)
  BY DEF Completes, Shape
<1>14. Yields(j, R, v, Shape(ev))
  <2>1. <<y, Sh("scale", <<y>>)>> \in R.held /\ <<v, Val(x)>> \in R.held
    BY <1>1, <1>8
  <2>2. Reads(R, j, 1, Sh("scale", <<y>>)) /\ Reads(R, j, 2, Val(x))
    BY <1>11, <2>1 DEF Reads
  <2>3. To(j, 2, v)
    BY <1>11 DEF To
  <2>4. \E u, w : /\ j.op = "add" /\ To(j, 2, v) /\ Shape(ev) = Sh("pwalk", <<w, u>>)
                  /\ Reads(R, j, 1, Sh("scale", <<u>>)) /\ Reads(R, j, 2, Val(w))
    BY <1>11, <1>13, <2>2, <2>3
  <2> QED BY <2>4 DEF Yields
<1>15. PICK o3 : /\ Follow(j, R, St(Vals(T \union {v}), {}, o3), B)
                 /\ Grows(o, o3)
                 /\ Live(T \union {v}, o3)
  <2>1. ~Occurs(j, RAX) /\ Occurs(j, v)
    BY <1>4, <1>11
  <2>2. ev.kind \notin {"none", "store", "copy", "ret", "test"}
    BY <1>13
  <2>3. Vals(T) \subseteq R.held
    BY <1>8
  <2> QED BY <1>4, <1>8, <1>10, <1>11, <1>12, <1>13, <1>14, <2>1, <2>2, <2>3, EndStep
<1>16. Goes(e, P, St(Vals(T \union {v}), {}, o3), B)
  BY <1>1, <1>5, <1>9, <1>15, GoesThree
<1> QED BY <1>1, <1>2, <1>15, <1>16 DEF Selects
-----------------------------------------------------------------------------
(* The registers of a division.                                            *)
LEMMA DivisionIs ==
  ASSUME NEW i, NEW v, NEW y, NEW z, y.reg = RAX, z.reg = RDX, i.op = "div",
         i.regs = <<Use(v), Kill(RAX), Kill(RDX), y, z>>
  PROVE  /\ DOMAIN i.regs = 1..5
         /\ Reg(i, 1) = v /\ Reg(i, 2) = RAX /\ Reg(i, 3) = RDX
         /\ \A r : Occurs(i, r) <=> r \in {v, RAX, RDX}
         /\ Written(i) = {RAX, RDX}
         /\ v # RAX /\ y.kill /\ RAX # RDX => \A n \in DOMAIN i.regs : Reg(i, n) = RAX => i.regs[n].kill
<1>1. /\ DOMAIN i.regs = 1..5 /\ i.regs[1] = Use(v) /\ i.regs[2] = Kill(RAX) /\ i.regs[3] = Kill(RDX)
      /\ i.regs[4] = y /\ i.regs[5] = z
  OBVIOUS
<1>2. Use(v).reg = v /\ Kill(RAX).reg = RAX /\ Kill(RDX).reg = RDX /\ Kill(RAX).kill
  BY DEF Use, Kill
<1>3. /\ Reg(i, 1) = v /\ Reg(i, 2) = RAX /\ Reg(i, 3) = RDX /\ Reg(i, 4) = RAX /\ Reg(i, 5) = RDX
  BY <1>1, <1>2 DEF Reg
<1>4. \A n \in DOMAIN i.regs : n = 1 \/ n = 2 \/ n = 3 \/ n = 4 \/ n = 5
  BY <1>1
<1>5. 1 \in DOMAIN i.regs /\ 2 \in DOMAIN i.regs /\ 3 \in DOMAIN i.regs
  BY <1>1
<1>6. \A r : Occurs(i, r) <=> r \in {v, RAX, RDX}
  BY <1>3, <1>4, <1>5 DEF Occurs
<1>7. Written(i) = {RAX, RDX}
  BY <1>3 DEF Written
<1>8. ASSUME v # RAX, y.kill, RAX # RDX, NEW n \in DOMAIN i.regs, Reg(i, n) = RAX PROVE i.regs[n].kill
  <2>1. n = 2 \/ n = 4
    BY <1>3, <1>4, <1>8
  <2> QED BY <1>1, <1>2, <1>8, <2>1
<1> QED BY <1>1, <1>3, <1>6, <1>7, <1>8

(* A step within a division leaves the registers it does not write.        *)
LEMMA HeldOn ==
  ASSUME NEW i, NEW r \in Register, NEW o, r \in o, r \notin Written(i),
         \A n \in DOMAIN i.regs : Reg(i, n) = r => ~i.regs[n].kill
  PROVE  r \in Unkilled(i, o)
BY DEF Unkilled, KillsAt, Reg

(* What goes into RDX before the division.                                 *)
Upper(kind, x) == IF kind \in {"sdiv", "smod"} THEN Sh("sign", <<x>>) ELSE Sh("zero", << >>)

LEMMA ExtendStep ==
  ASSUME NEW i, NEW kind, NEW x, NEW v \in Virtual,
         kind \in {"sdiv", "smod"} => Is(i, "cqo", <<Use(RAX), Use(RDX)>>, None),
         kind \notin {"sdiv", "smod"} => Is(i, "zero", <<Kill(RDX)>>, None),
         NEW T, NEW o, Live(T, o), RAX \in o, v \in o, v \notin T,
         NEW P, NEW Z, P.open = o, Vals(T) \subseteq P.held, Z \subseteq P.held,
         <<RAX, Val(x)>> \in Z,
         \A f \in Z : f[1] \in {RAX, v}, NEW B
  PROVE  /\ Follow(i, P, St(Vals(T) \union (Z \union {<<RDX, Upper(kind, x)>>}), {}, Opens(i, o)), B)
         /\ Live(T, Opens(i, o)) /\ v \in Opens(i, o)
         /\ \A r \in Virtual : r \in o => r \in Opens(i, o)
<1>1. /\ RAX \in Register /\ RDX \in Register /\ v \in Register /\ RAX # RDX /\ v # RAX /\ v # RDX
      /\ RDX \in Physical
  BY FixedRegisters, NotFixed, BackendAssumption DEF Register
<1>2. /\ i \in MachInst /\ i.eval = None /\ i.op \in Plain /\ Written(i) = {RDX} /\ Occurs(i, RDX)
      /\ \A n \in DOMAIN i.regs : Reg(i, n) # RDX => ~i.regs[n].kill
      /\ \A C : Reads(C, i, 1, Val(x)) \/ i.op = "zero" => Yields(i, C, RDX, Upper(kind, x))
      /\ i.op = "cqo" => 1 \in DOMAIN i.regs /\ Reg(i, 1) = RAX
      /\ i.op \in {"cqo", "zero"}
  <2>1. CASE kind \in {"sdiv", "smod"}
    <3>1. Is(i, "cqo", <<Use(RAX), Use(RDX)>>, None)
      BY <2>1
    <3>2. /\ i \in MachInst /\ i.op = "cqo" /\ i.eval = None
          /\ Reg(i, 1) = RAX /\ Reg(i, 2) = RDX /\ 1 \in DOMAIN i.regs /\ 2 \in DOMAIN i.regs
          /\ \A r : Occurs(i, r) <=> r = RAX \/ r = RDX
      BY <3>1, OnTwo
    <3>3. i.op \in Plain /\ Written(i) = {RDX}
      BY <3>2, WritesOf DEF Plain
    <3>4. \A n \in DOMAIN i.regs : Reg(i, n) # RDX => ~i.regs[n].kill
      <4>1. i.regs = <<Use(RAX), Use(RDX)>> /\ ~Use(RAX).kill /\ ~Use(RDX).kill
        BY <3>1 DEF Is, Use
      <4>2. DOMAIN i.regs = {1, 2} /\ i.regs[1] = Use(RAX) /\ i.regs[2] = Use(RDX)
        BY <4>1
      <4> QED BY <4>1, <4>2
    <3>5. YieldsOfOne(i, x, RDX, Upper(kind, x))
      BY <2>1, <3>2 DEF YieldsOfOne, To, Upper
    <3>6. \A C : Reads(C, i, 1, Val(x)) => Yields(i, C, RDX, Upper(kind, x))
      BY <3>5 DEF Yields
    <3>7. i.op # "zero" /\ i.op \in {"cqo", "zero"}
      BY <3>2
    <3> QED BY <3>2, <3>3, <3>4, <3>6, <3>7
  <2>2. CASE kind \notin {"sdiv", "smod"}
    <3>1. Is(i, "zero", <<Kill(RDX)>>, None)
      BY <2>2
    <3>2. i \in MachInst /\ i.op = "zero" /\ i.eval = None /\ i.regs = <<Kill(RDX)>>
      BY <3>1 DEF Is
    <3>3. Kill(RDX).reg = RDX
      BY DEF Kill
    <3>4. Reg(i, 1) = RDX /\ 1 \in DOMAIN i.regs /\ DOMAIN i.regs = {1} /\ \A r : Occurs(i, r) <=> r = RDX
      BY <3>2, <3>3, OneOperand
    <3>5. i.op \in Plain /\ Written(i) = {RDX}
      BY <3>2, <3>4, WritesOf DEF Plain
    <3>6. YieldsFixed(i, RDX, Upper(kind, x))
      BY <2>2, <3>2, <3>4 DEF YieldsFixed, To, Upper
    <3>7. \A C : Yields(i, C, RDX, Upper(kind, x))
      BY <3>6 DEF Yields
    <3>8. i.op # "cqo" /\ i.op \in {"cqo", "zero"}
      BY <3>2
    <3>9. \A n \in DOMAIN i.regs : Reg(i, n) = RDX
      BY <3>4
    <3> QED BY <3>2, <3>4, <3>5, <3>7, <3>8, <3>9
  <2> QED BY <2>1, <2>2
<1>3. Vals(T) \subseteq P.held /\ Z \subseteq P.held /\ P.open = o
  OBVIOUS
<1>4. Yields(i, P, RDX, Upper(kind, x))
  <2>1. i.op = "cqo" => Reads(P, i, 1, Val(x))
    BY <1>2, <1>3 DEF Reads
  <2> QED BY <1>2, <2>1
<1>5. RAX \in Unkilled(i, o) /\ v \in Unkilled(i, o)
  <2>1. \A n \in DOMAIN i.regs : Reg(i, n) = RAX \/ Reg(i, n) = v => ~i.regs[n].kill
    BY <1>1, <1>2
  <2>2. RAX \notin Written(i) /\ v \notin Written(i)
    BY <1>1, <1>2
  <2> QED BY <1>1, <2>1, <2>2, HeldOn
<1>6. PICK Y, Q : /\ Y = Z \union {<<RDX, Upper(kind, x)>>}
                  /\ Q = St(Vals(T) \union Y, {}, Opens(i, P.open))
  OBVIOUS
<1>7. \A f \in Y : \/ f \in P.held /\ f[1] \in Unkilled(i, P.open)
                   \/ Yields(i, P, f[1], f[2])
  BY <1>3, <1>4, <1>5, <1>6
<1>8. Follow(i, P, Q, B)
  <2>1. i.eval.kind = "none" /\ i.eval.value = NoRegister
    BY <1>2 DEF None
  <2>2. Vals(T) \subseteq P.held /\ \A t \in T : t \in Virtual /\ t \in P.open
    BY <1>3 DEF Live
  <2>3. \A t \in T : t \notin Written(i)
    BY <1>2, NotFixed DEF Live
  <2>4. \A w \in Written(i) : Occurs(i, w)
    BY <1>2
  <2> QED BY <1>2, <1>6, <1>7, <2>1, <2>2, <2>3, <2>4, MidStep
<1>9. Live(T, Opens(i, o))
  BY <1>2, LiveOn
<1>10. \A r \in Virtual : r \in o => r \in Opens(i, o)
  BY <1>2, OpensIs DEF Register
<1> QED BY <1>3, <1>6, <1>8, <1>9, <1>10
-----------------------------------------------------------------------------
DivKinds == {"sdiv", "smod", "udiv", "umod"}

(* The register of the quotient, or of the remainder.                      *)
ResultOf(kind) == IF kind \in {"smod", "umod"} THEN RDX ELSE RAX

(* The division yields the result.                                         *)
LEMMA DivideYields ==
  ASSUME NEW i, NEW v, NEW x, NEW y, NEW kind \in DivKinds, i.op = "div", DOMAIN i.regs = 1..5,
         Reg(i, 1) = v, Reg(i, 2) = RAX, Reg(i, 3) = RDX, NEW P,
         {<<RAX, Val(x)>>, <<v, Val(y)>>, <<RDX, Upper(kind, x)>>} \subseteq P.held
  PROVE  Yields(i, P, ResultOf(kind), Sh(kind, <<x, y>>))
<1>1. Reads(P, i, 1, Val(y)) /\ Reads(P, i, 2, Val(x)) /\ Reads(P, i, 3, Upper(kind, x))
  BY DEF Reads
<1>2. To(i, 2, RAX) /\ To(i, 3, RDX)
  BY DEF To
<1>3. PICK signed \in BOOLEAN : signed <=> kind \in {"sdiv", "smod"}
  <2>1. TRUE \in BOOLEAN /\ FALSE \in BOOLEAN
    OBVIOUS
  <2> QED BY <2>1, Zenon
<1>4. Upper(kind, x) = IF signed THEN Sh("sign", <<x>>) ELSE Sh("zero", << >>)
  BY <1>3 DEF Upper
<1>5. YieldsDivided(i, x, y, signed, ResultOf(kind), Sh(kind, <<x, y>>))
  <2>1. CASE kind = "sdiv"
    BY <1>2, <1>3, <2>1 DEF YieldsDivided, ResultOf
  <2>2. CASE kind = "smod"
    BY <1>2, <1>3, <2>2 DEF YieldsDivided, ResultOf
  <2>3. CASE kind = "udiv"
    BY <1>2, <1>3, <2>3 DEF YieldsDivided, ResultOf
  <2>4. CASE kind = "umod"
    BY <1>2, <1>3, <2>4 DEF YieldsDivided, ResultOf
  <2> QED BY <2>1, <2>2, <2>3, <2>4 DEF DivKinds
<1>6. \E u, w : \E s \in BOOLEAN :
       /\ i.op = "div" /\ YieldsDivided(i, u, w, s, ResultOf(kind), Sh(kind, <<x, y>>))
       /\ Reads(P, i, 1, Val(w)) /\ Reads(P, i, 2, Val(u))
       /\ Reads(P, i, 3, IF s THEN Sh("sign", <<u>>) ELSE Sh("zero", << >>))
  BY <1>1, <1>4, <1>5
<1> QED BY <1>6 DEF Yields

(* Five instructions in a row, from values A to values U.                  *)
Chain(f, g, h, i, j, A, U, o, B) ==
  \E P1, P2, P3, P4, o5 :
    /\ Follow(f, St(Vals(A), {}, o), P1, B) /\ Follow(g, P1, P2, B)
    /\ Follow(h, P2, P3, B) /\ Follow(i, P3, P4, B)
    /\ Follow(j, P4, St(Vals(U), {}, o5), B)
    /\ Grows(o, o5) /\ Live(U, o5)

(* A division in the registers RAX and RDX.                                *)
LEMMA DivideFollows ==
  ASSUME NEW o, NEW T, NEW x, NEW y, NEW v, Here(o, T, {x, y}, v), NEW B, NEW kind \in DivKinds,
         NEW f, NEW g, NEW h, NEW i, NEW j,
         Is(f, "mov", <<Use(x), Use(RAX)>>, None), Is(g, "mov", <<Use(y), Use(v)>>, None),
         kind \in {"sdiv", "smod"} => Is(h, "cqo", <<Use(RAX), Use(RDX)>>, None),
         kind \notin {"sdiv", "smod"} => Is(h, "zero", <<Kill(RDX)>>, None),
         NEW m, NEW n, m.reg = RAX, n.reg = RDX, ResultOf(kind) = RDX => m.kill,
         Is(i, "div", <<Use(v), Kill(RAX), Kill(RDX), m, n>>, None),
         NEW ev, ev = Completes(kind, v, <<x, y>>),
         Is(j, "mov", <<Kill(ResultOf(kind)), Use(v)>>, ev)
  PROVE  Chain(f, g, h, i, j, T \union {x, y}, T \union {v}, o, B)
<1>1. PICK W, Y, Z, D, E :
        /\ W = T \union {x, y}
        /\ Y = {<<RAX, Val(x)>>} /\ Z = Y \union {<<v, Val(y)>>}
        /\ D = Z \union {<<RDX, Upper(kind, x)>>}
        /\ E = {<<ResultOf(kind), Sh(kind, <<x, y>>)>>}
  OBVIOUS
<1>2. PICK o1, o2, o3, o4, o5 :
        /\ o1 = Opens(f, o) /\ o2 = Opens(g, o1) /\ o3 = Opens(h, o2) /\ o4 = Opens(i, o3)
        /\ o5 = Opens(j, o4)
  OBVIOUS
<1>3. PICK P, P1, P2, P3, P4, P5 :
        /\ P = St(Vals(W), {}, o) /\ P1 = St(Vals(W) \union Y, {}, o1)
        /\ P2 = St(Vals(W) \union Z, {}, o2) /\ P3 = St(Vals(T) \union D, {}, o3)
        /\ P4 = St(Vals(T) \union E, {}, o4) /\ P5 = St(Vals(T \union {v}), {}, o5)
  OBVIOUS
<1>4. /\ Live(T, o) /\ Live(W, o) /\ Grows(o, o) /\ RAX \notin o
      /\ v \in Virtual /\ v \in Register /\ v \notin T /\ v \notin W /\ v # RAX
      /\ x \in Virtual /\ y \in Virtual /\ x \in W /\ y \in W
  BY <1>1, HereIs
<1>5. /\ RAX \in Register /\ RDX \in Register /\ RAX # RDX /\ RAX \notin W /\ v # RDX
      /\ RAX \notin T /\ RDX \notin T
  BY <1>4, NotFixed, FixedRegisters, BackendAssumption DEF Live
<1>7. /\ Follow(f, P, P1, B) /\ Follow(g, P1, P2, B)
      /\ Live(W, o2) /\ RAX \in o2 /\ v \in o2
      /\ \A r \in Virtual : r \in o => r \in o2
  <2>1. /\ RAX \in Register /\ RAX \notin W /\ v # RAX /\ v \in Register /\ Live(W, o)
        /\ x \in Virtual /\ y \in Virtual /\ x \in W /\ y \in W /\ v \notin W
    BY <1>4, <1>5
  <2>0. Y = {<<RAX, Val(x)>>} /\ Z = Y \union {<<v, Val(y)>>} /\ o1 = Opens(f, o) /\ o2 = Opens(g, o1)
    BY <1>1, <1>2
  <2>2. /\ Follow(f, St(Vals(W), {}, o), St(Vals(W) \union Y, {}, o1), B) /\ Live(W, o1) /\ RAX \in o1
        /\ \A r \in Register : r \in o => r \in o1
    <3>1. PICK F : F = {}
      OBVIOUS
    <3>2. \A z \in F : z[1] \in o /\ z[1] # RAX
      BY <3>1
    <3>3. /\ Follow(f, St(Vals(W) \union F, {}, o),
                     St(Vals(W) \union (F \union {<<RAX, Val(x)>>}), {}, Opens(f, o)), B)
          /\ Live(W, Opens(f, o)) /\ RAX \in Opens(f, o)
          /\ \A r \in Register : r \in o => r \in Opens(f, o)
      BY <2>1, <3>2, MovKeeps
    <3>4. Vals(W) \union F = Vals(W) /\ F \union {<<RAX, Val(x)>>} = Y
      BY <2>0, <3>1
    <3> QED BY <2>0, <3>3, <3>4
  <2>3. /\ Follow(g, St(Vals(W) \union Y, {}, o1), St(Vals(W) \union Z, {}, o2), B)
        /\ Live(W, o2) /\ v \in o2
        /\ \A r \in Register : r \in o1 => r \in o2
    <3>1. \A z \in Y : z[1] \in o1 /\ z[1] # v
      BY <2>0, <2>1, <2>2
    <3>2. /\ Follow(g, St(Vals(W) \union Y, {}, o1),
                     St(Vals(W) \union (Y \union {<<v, Val(y)>>}), {}, Opens(g, o1)), B)
          /\ Live(W, Opens(g, o1)) /\ v \in Opens(g, o1)
          /\ \A r \in Register : r \in o1 => r \in Opens(g, o1)
      BY <2>1, <2>2, <3>1, MovKeeps
    <3> QED BY <2>0, <3>2
  <2> QED BY <1>3, <2>1, <2>2, <2>3 DEF Register
<1>8. /\ Follow(h, P2, P3, B) /\ Live(T, o3) /\ v \in o3
      /\ \A r \in Virtual : r \in o2 => r \in o3
  <2>1. /\ kind \in {"sdiv", "smod"} => Is(h, "cqo", <<Use(RAX), Use(RDX)>>, None)
        /\ kind \notin {"sdiv", "smod"} => Is(h, "zero", <<Kill(RDX)>>, None)
    BY <1>1
  <2>2. Live(T, o2)
    BY <1>1, <1>7 DEF Live
  <2>3. P2.open = o2 /\ Vals(T) \subseteq P2.held /\ Z \subseteq P2.held
    BY <1>1, <1>3 DEF St, Vals
  <2>4. <<RAX, Val(x)>> \in Z /\ \A z \in Z : z[1] \in {RAX, v}
    BY <1>1
  <2>b. v \in Virtual /\ RAX \in o2 /\ v \in o2 /\ v \notin T
    BY <1>4, <1>7
  <2>5. /\ Follow(h, P2, St(Vals(T) \union (Z \union {<<RDX, Upper(kind, x)>>}), {}, Opens(h, o2)), B)
        /\ Live(T, Opens(h, o2)) /\ v \in Opens(h, o2)
        /\ \A r \in Virtual : r \in o2 => r \in Opens(h, o2)
    BY <2>b, <2>1, <2>2, <2>3, <2>4, ExtendStep, ZenonT(30)
  <2>6. P3 = St(Vals(T) \union (Z \union {<<RDX, Upper(kind, x)>>}), {}, Opens(h, o2))
    BY <1>1, <1>2, <1>3
  <2> QED BY <1>2, <2>5, <2>6
<1>9. /\ i \in MachInst /\ i.op = "div" /\ i.regs = <<Use(v), Kill(RAX), Kill(RDX), m, n>>
      /\ i.eval.kind = "none" /\ i.eval.value = NoRegister
  <2>1. Is(i, "div", <<Use(v), Kill(RAX), Kill(RDX), m, n>>, None)
    BY <1>1
  <2> QED BY <2>1 DEF Is, None
<1>10. /\ DOMAIN i.regs = 1..5
       /\ Reg(i, 1) = v /\ Reg(i, 2) = RAX /\ Reg(i, 3) = RDX
       /\ \A r : Occurs(i, r) <=> r \in {v, RAX, RDX}
       /\ Written(i) = {RAX, RDX}
       /\ v # RAX /\ m.kill /\ RAX # RDX => \A q \in DOMAIN i.regs : Reg(i, q) = RAX => i.regs[q].kill
  BY <1>9, DivisionIs
<1>11. i.op \in Plain
  BY <1>9 DEF Plain
<1>12. Follow(i, P3, P4, B)
  <2>1. P3.open = o3 /\ Vals(T) \subseteq P3.held /\ D \subseteq P3.held
    BY <1>3 DEF St
  <2>2. \A t \in T : t \in Virtual /\ t \in P3.open /\ t \notin Written(i)
    BY <1>5, <1>8, <1>10, <2>1 DEF Live
  <2>3. {<<RAX, Val(x)>>, <<v, Val(y)>>, <<RDX, Upper(kind, x)>>} \subseteq P3.held
    BY <1>1, <2>1
  <2>4. Yields(i, P3, ResultOf(kind), Sh(kind, <<x, y>>))
    BY <1>9, <1>10, <2>3, DivideYields
  <2>5. \A z \in E : Yields(i, P3, z[1], z[2])
    BY <1>1, <2>4
  <2>6. \A w \in Written(i) : Occurs(i, w)
    BY <1>10
  <2>7. P4 = St(Vals(T) \union E, {}, Opens(i, P3.open))
    BY <1>2, <1>3, <2>1
  <2> QED BY <1>9, <1>11, <2>1, <2>2, <2>5, <2>6, <2>7, MidStep
<1>13. Live(T, o4) /\ \A r \in Virtual : r \in o3 => r \in o4
  BY <1>2, <1>8, <1>9, LiveOn, OpensIs DEF Register
<1>14. /\ Is(j, "mov", <<Kill(ResultOf(kind)), Use(v)>>, ev)
       /\ Kill(ResultOf(kind)).reg = ResultOf(kind) /\ Kill(ResultOf(kind)).kill
       /\ Use(v).reg = v
  BY <1>1 DEF Kill, Use
<1>15. /\ ev.kind \notin {"none", "store", "copy", "ret", "test"} /\ ev.value = v
       /\ Shape(ev) = Sh(kind, <<x, y>>)
  BY DEF Completes, Shape, DivKinds
<1>16. Follow(j, P4, P5, B)
  <2>1. P4.open = o4 /\ Vals(T) \subseteq P4.held /\ <<ResultOf(kind), Sh(kind, <<x, y>>)>> \in P4.held
    BY <1>1, <1>3 DEF St
  <2>2. P5 = St(Vals(T \union {v}), {}, Opens(j, P4.open))
    BY <1>2, <1>3, <2>1
  <2>3. PICK a, b : a = Kill(ResultOf(kind)) /\ b = Use(v)
    OBVIOUS
  <2>4. Is(j, "mov", <<a, b>>, ev) /\ a.reg = ResultOf(kind) /\ b.reg = v
    BY <1>14, <2>3
  <2>5. ev.kind \notin {"none", "store"} /\ (ev.kind \in {"copy", "ret", "test"} => 1 \in DOMAIN ev.args)
    BY <1>15
  <2> QED BY <1>4, <1>13, <1>15, <2>1, <2>2, <2>4, <2>5, MovLast
<1>17. j \in MachInst /\ j.regs = <<Kill(ResultOf(kind)), Use(v)>>
  BY <1>14 DEF Is
<1>18. Grows(o, o5)
  <2>1. \A r \in Virtual : r \in o => r \in o4
    BY <1>7, <1>8, <1>13
  <2>2. ResultOf(kind) = RAX \/ RAX \notin o4
    <3>1. CASE ResultOf(kind) = RDX
      <4>1. \A q \in DOMAIN i.regs : Reg(i, q) = RAX => i.regs[q].kill
        BY <1>4, <1>5, <1>10, <3>1
      <4>2. Occurs(i, RAX)
        BY <1>10
      <4> QED BY <1>2, <1>5, <1>9, <4>1, <4>2, OpensIs
    <3> QED BY <3>1 DEF ResultOf
  <2>3. PICK a, b : a = Kill(ResultOf(kind)) /\ b = Use(v)
    OBVIOUS
  <2>4. j.regs = <<a, b>> /\ a.reg = ResultOf(kind) /\ a.kill /\ b.reg # RAX
    BY <1>4, <1>14, <1>17, <2>3
  <2> QED BY <1>2, <1>17, <2>1, <2>2, <2>4, GrowsKilled
<1>19. Live(T \union {v}, o5)
  <2>1. Occurs(j, v)
    BY <1>14, <1>17, TwoOperands
  <2> QED BY <1>2, <1>4, <1>13, <1>17, <2>1, LiveOn
<1> QED BY <1>1, <1>3, <1>7, <1>8, <1>12, <1>16, <1>18, <1>19 DEF Chain

(* Divisions, quotients and remainders.                                    *)
LEMMA DivideSelects ==
  ASSUME NEW o, NEW T, NEW x, NEW y, NEW v, Here(o, T, {x, y}, v), NEW B, NEW kind \in DivKinds,
         NEW e \in Seq(MachInst), Len(e) = 5,
         NEW f, NEW g, NEW h, NEW i, NEW j,
         f = e[1] /\ g = e[2] /\ h = e[3] /\ i = e[4] /\ j = e[5],
         Is(f, "mov", <<Use(x), Use(RAX)>>, None), Is(g, "mov", <<Use(y), Use(v)>>, None),
         kind \in {"sdiv", "smod"} => Is(h, "cqo", <<Use(RAX), Use(RDX)>>, None),
         kind \notin {"sdiv", "smod"} => Is(h, "zero", <<Kill(RDX)>>, None),
         NEW m, NEW n, m.reg = RAX, n.reg = RDX, ResultOf(kind) = RDX => m.kill,
         Is(i, "div", <<Use(v), Kill(RAX), Kill(RDX), m, n>>, None),
         NEW ev, ev = Completes(kind, v, <<x, y>>),
         Is(j, "mov", <<Kill(ResultOf(kind)), Use(v)>>, ev)
  PROVE  Selects(e, T \union {x, y}, T \union {v}, o, B)
<1>1. Chain(f, g, h, i, j, T \union {x, y}, T \union {v}, o, B)
  BY DivideFollows
<1>2. PICK P1, P2, P3, P4, o5 :
           /\ Follow(f, St(Vals(T \union {x, y}), {}, o), P1, B) /\ Follow(g, P1, P2, B)
           /\ Follow(h, P2, P3, B) /\ Follow(i, P3, P4, B)
           /\ Follow(j, P4, St(Vals(T \union {v}), {}, o5), B)
           /\ Grows(o, o5) /\ Live(T \union {v}, o5)
  BY <1>1 DEF Chain
<1>3. Goes(e, St(Vals(T \union {x, y}), {}, o), St(Vals(T \union {v}), {}, o5), B)
  BY <1>2, GoesFive
<1> QED BY <1>2, <1>3 DEF Selects
-----------------------------------------------------------------------------
CallKinds == {"call0", "call1", "call2"}

(* A call and the move of its result.                                      *)
Called(i, j, P, U, o, B) ==
  \E Q, o2 : /\ Follow(i, P, Q, B)
             /\ Follow(j, Q, St(Vals(U), {}, o2), B)
             /\ Grows(o, o2)
             /\ Live(U, o2)

LEMMA CallEnds ==
  ASSUME NEW i \in MachInst, i.op = "call", i.eval = None,
         NEW kind \in CallKinds, NEW a \in Seq(Virtual), Len(i.regs) = Len(a) + 1,
         LastReg(i) = RAX,
         NEW P, RAX \notin P.open, \A n \in DOMAIN a : Reads(P, i, Len(i.regs) - n, Val(a[n])),
         NEW T, Live(T, P.open), Vals(T) \subseteq P.held,
         NEW o, \A r \in Virtual : r \in o => r \in P.open,
         NEW v \in Virtual, v \notin T, NEW ev, ev = Completes(kind, v, a),
         NEW j, Is(j, "mov", <<Kill(RAX), Use(v)>>, ev), NEW B
  PROVE  Called(i, j, P, T \union {v}, o, B)
<1>1. PICK s, o1, Q : /\ s = Sh(kind, a) /\ o1 = Opens(i, P.open)
                      /\ Q = St(Vals(T) \union {<<RAX, s>>}, {}, o1)
  OBVIOUS
<1>2. PICK o2 : o2 = Opens(j, o1)
  OBVIOUS
<1>3. Q.held = Vals(T) \union {<<RAX, s>>} /\ Q.flags = {} /\ Q.open = o1
  BY <1>1 DEF St
<1>4. PICK m \in Nat : m = Len(i.regs) /\ m \in DOMAIN i.regs /\ m >= 1 /\ DOMAIN i.regs = 1..m
  <2>1. i.regs \in Seq(Operand)
    BY DEF MachInst
  <2>2. Len(i.regs) \in Nat /\ DOMAIN i.regs = 1..Len(i.regs) /\ Len(a) \in Nat
    BY <2>1
  <2>3. Len(i.regs) >= 1 /\ Len(i.regs) \in DOMAIN i.regs
    BY <2>2
  <2> QED BY <2>2, <2>3
<1>5. Yields(i, P, RAX, s)
  <2>1. To(i, Len(i.regs), RAX)
    BY <1>4 DEF To, LastReg
  <2>2. s \in {Sh(k, of) : k \in {"call0", "call1", "call2"}, of \in Seq(Virtual)}
    BY <1>1 DEF CallKinds
  <2>3. s.of = a
    BY <1>1, ShHas
  <2>4. YieldsCalled(i, P, RAX, s)
    BY <2>1, <2>2, <2>3 DEF YieldsCalled
  <2> QED BY <2>4 DEF Yields
<1>6. Written(i) = Physical
  BY DEF Written
<1>7. i.eval.kind = "none" /\ i.eval.value = NoRegister
  BY DEF None
<1>8. \A t \in T : t \notin Written(i) /\ t # i.eval.value /\ t \in Virtual /\ t \in P.open
  BY <1>6, <1>7, RegistersAssumption DEF Live
<1>9. \A f \in Vals(T) : f[1] \in Unkilled(i, P.open)
  BY <1>8, ValsKept
<1>10. Occurs(i, RAX)
  BY <1>4 DEF Occurs, LastReg
<1>11. Moves(i, P, Q, Unkilled(i, P.open))
  BY <1>3, <1>5, <1>7, <1>9 DEF Moves
<1>12. Follow(i, P, Q, B)
  BY <1>1, <1>3, <1>7, <1>10, <1>11 DEF Follow
<1>13. Live(T, o1) /\ \A r \in Virtual : r \in o => r \in o1
  BY <1>1, LiveOn, OpensIs DEF Register
<1>14. PICK x, y : x = Kill(RAX) /\ y = Use(v)
  OBVIOUS
<1>15. Is(j, "mov", <<x, y>>, ev) /\ x.reg = RAX /\ x.kill /\ y.reg = v
  BY <1>14 DEF Kill, Use
<1>16. ev.kind \notin {"none", "store", "copy", "ret", "test"} /\ ev.value = v /\ Shape(ev) = s
  BY <1>1 DEF Completes, Shape, CallKinds
<1>17. Follow(j, Q, St(Vals(T \union {v}), {}, o2), B)
  <2>1. Vals(T) \subseteq Q.held /\ Live(T, Q.open) /\ <<RAX, s>> \in Q.held
    BY <1>3, <1>13
  <2>2. PICK R : R = St(Vals(T \union {v}), {}, o2)
    OBVIOUS
  <2>3. R = St(Vals(T \union {v}), {}, Opens(j, Q.open))
    BY <1>2, <1>3, <2>2
  <2>4. ev.kind \notin {"none", "store"} /\ (ev.kind \in {"copy", "ret", "test"} => 1 \in DOMAIN ev.args)
    BY <1>16
  <2>5. Follow(j, Q, R, B)
    BY <1>15, <1>16, <2>1, <2>3, <2>4, MovLast
  <2> QED BY <2>2, <2>5
<1>18. j \in MachInst /\ j.regs = <<x, y>>
  BY <1>15 DEF Is
<1>19. Grows(o, o2)
  BY <1>2, <1>13, <1>15, <1>18, NotFixed, GrowsKilled
<1>20. Live(T \union {v}, o2)
  <2>1. Occurs(j, v)
    BY <1>15, <1>18, TwoOperands
  <2> QED BY <1>2, <1>13, <1>18, <2>1, LiveOn
<1> QED BY <1>12, <1>17, <1>19, <1>20 DEF Called

(* A call without arguments.                                               *)
LEMMA Call0Selects ==
  ASSUME NEW o, NEW T, NEW v, Here(o, T, {}, v), NEW B,
         NEW e \in Seq(MachInst), Len(e) = 2, NEW i, NEW j, i = e[1], j = e[2],
         Is(i, "call", <<Use(RAX)>>, None),
         NEW ev, ev = Completes("call0", v, << >>), Is(j, "mov", <<Kill(RAX), Use(v)>>, ev)
  PROVE  Selects(e, T, T \union {v}, o, B)
<1>1. PICK P, kind, a : P = St(Vals(T), {}, o) /\ kind = "call0" /\ a = << >>
  OBVIOUS
<1>2. P.open = o /\ P.held = Vals(T)
  BY <1>1 DEF St
<1>3. Live(T, o) /\ RAX \notin o /\ v \in Virtual /\ v \notin T
  BY DEF Here
<1>4. i \in MachInst /\ i.op = "call" /\ i.eval = None /\ LastReg(i) = RAX
  BY OnOne
<1>5. i.regs = <<Use(RAX)>>
  BY DEF Is
<1>6. Len(i.regs) = Len(a) + 1 /\ a \in Seq(Virtual) /\ DOMAIN a = {}
  BY <1>1, <1>5
<1>7. Called(i, j, P, T \union {v}, o, B)
  <2>1. kind \in CallKinds /\ ev = Completes(kind, v, a)
    BY <1>1 DEF CallKinds
  <2>2. \A n \in DOMAIN a : Reads(P, i, Len(i.regs) - n, Val(a[n]))
    BY <1>6
  <2> QED BY <1>2, <1>3, <1>4, <1>6, <2>1, <2>2, CallEnds
<1>8. PICK Q, o2 : /\ Follow(i, P, Q, B)
                   /\ Follow(j, Q, St(Vals(T \union {v}), {}, o2), B)
                   /\ Grows(o, o2)
                   /\ Live(T \union {v}, o2)
  BY <1>7 DEF Called
<1>9. Goes(e, P, St(Vals(T \union {v}), {}, o2), B)
  BY <1>8, GoesTwo
<1> QED BY <1>1, <1>8, <1>9 DEF Selects

(* The registers of the arguments.                                         *)
LEMMA ArgumentsApart ==
  /\ ArgRegs[1] \in Register /\ ArgRegs[1] # RAX
  /\ ArgRegs[2] \in Register /\ ArgRegs[2] # RAX
  /\ ArgRegs[1] # ArgRegs[2]
  /\ \A r \in Virtual : r # ArgRegs[1] /\ r # ArgRegs[2]
<1>1. ArgRegs \in Seq(Physical) /\ Len(ArgRegs) >= 2 /\ IsInjective(ArgRegs)
      /\ \A n \in DOMAIN ArgRegs : ArgRegs[n] # RAX
  BY BackendAssumption
<1>2. 1 \in DOMAIN ArgRegs /\ 2 \in DOMAIN ArgRegs
  BY <1>1
<1>3. ArgRegs[1] \in Physical /\ ArgRegs[2] \in Physical
  BY <1>1, <1>2
<1>4. ArgRegs[1] # ArgRegs[2]
  BY <1>1, <1>2 DEF IsInjective
<1> QED BY <1>1, <1>2, <1>3, <1>4, RegistersAssumption DEF Register

(* A move of a value where nothing but values is held.                     *)
LEMMA MovFirst ==
  ASSUME NEW i, NEW x \in Virtual, NEW y \in Register, NEW W, NEW o,
         Is(i, "mov", <<Use(x), Use(y)>>, None), Live(W, o), x \in W, y \notin W, NEW B
  PROVE  /\ Follow(i, St(Vals(W), {}, o), St(Vals(W) \union {<<y, Val(x)>>}, {}, Opens(i, o)), B)
         /\ Live(W, Opens(i, o))
         /\ y \in Opens(i, o)
         /\ \A o0 : Grows(o0, o) /\ y # RAX => Grows(o0, Opens(i, o))
<1>1. PICK F : F = {}
  OBVIOUS
<1>2. \A z \in F : z[1] \in o /\ z[1] # y
  BY <1>1
<1>3. /\ Follow(i, St(Vals(W) \union F, {}, o),
                 St(Vals(W) \union (F \union {<<y, Val(x)>>}), {}, Opens(i, o)), B)
      /\ Live(W, Opens(i, o)) /\ y \in Opens(i, o)
  BY <1>2, MovKeeps
<1>5. ASSUME NEW o0, Grows(o0, o), y # RAX PROVE Grows(o0, Opens(i, o))
  <2>1. i \in MachInst /\ \A r : Occurs(i, r) <=> r = x \/ r = y
    BY OnTwo
  <2>2. ~Occurs(i, RAX)
    BY <1>5, <2>1, NotFixed
  <2> QED BY <1>5, <2>1, <2>2, GrowsOn
<1>4. Vals(W) \union F = Vals(W) /\ F \union {<<y, Val(x)>>} = {<<y, Val(x)>>}
  BY <1>1
<1> QED BY <1>3, <1>4, <1>5

(* One with one.                                                           *)
LEMMA Call1Selects ==
  ASSUME NEW o, NEW T, NEW x, NEW v, Here(o, T, {x}, v), NEW B,
         NEW e \in Seq(MachInst), Len(e) = 3, NEW h, NEW i, NEW j, h = e[1], i = e[2], j = e[3],
         NEW A1, A1 = ArgRegs[1], Is(h, "mov", <<Use(x), Use(A1)>>, None),
         Is(i, "call", <<Kill(A1), Use(RAX)>>, None),
         NEW ev, ev = Completes("call1", v, <<x>>), Is(j, "mov", <<Kill(RAX), Use(v)>>, ev)
  PROVE  Selects(e, T \union {x}, T \union {v}, o, B)
<1>1. PICK W, o1, P, R, kind, a :
        /\ W = T \union {x} /\ o1 = Opens(h, o)
        /\ P = St(Vals(W), {}, o) /\ R = St(Vals(W) \union {<<A1, Val(x)>>}, {}, o1)
        /\ kind = "call1" /\ a = <<x>>
  OBVIOUS
<1>2. R.open = o1 /\ R.held = Vals(W) \union {<<A1, Val(x)>>}
  BY <1>1 DEF St
<1>3. /\ Live(T, o) /\ Live(W, o) /\ Grows(o, o) /\ RAX \notin o
      /\ v \in Virtual /\ v \notin T
      /\ x \in Virtual /\ x \in W
  BY <1>1, HereIs
<1>4. A1 \in Register /\ A1 # RAX /\ A1 \notin W
  BY <1>3, ArgumentsApart DEF Live
<1>5. Follow(h, P, R, B) /\ Live(W, o1) /\ Grows(o, o1)
  <2>3. /\ Follow(h, St(Vals(W), {}, o), St(Vals(W) \union {<<A1, Val(x)>>}, {}, Opens(h, o)), B)
        /\ Live(W, Opens(h, o))
        /\ \A o0 : Grows(o0, o) /\ A1 # RAX => Grows(o0, Opens(h, o))
    BY <1>3, <1>4, MovFirst
  <2> QED BY <1>1, <1>3, <1>4, <2>3
<1>6. /\ i \in MachInst /\ i.op = "call" /\ i.eval = None /\ LastReg(i) = RAX
      /\ Reg(i, 1) = A1 /\ 1 \in DOMAIN i.regs /\ Len(i.regs) = 2
  <2>1. PICK p, q : p = Kill(A1) /\ q = Use(RAX)
    OBVIOUS
  <2>2. Is(i, "call", <<p, q>>, None) /\ p.reg = A1 /\ q.reg = RAX
    BY <2>1 DEF Kill, Use
  <2>3. i \in MachInst /\ i.op = "call" /\ i.eval = None /\ i.regs = <<p, q>>
    BY <2>2 DEF Is
  <2>4. 1 \in {1, 2}
    OBVIOUS
  <2> QED BY <2>2, <2>3, <2>4, TwoOperands
<1>7. Called(i, j, R, T \union {v}, o, B)
  <2>1. kind \in CallKinds /\ ev = Completes(kind, v, a)
    BY <1>1 DEF CallKinds
  <2>2. a \in Seq(Virtual) /\ Len(i.regs) = Len(a) + 1 /\ DOMAIN a = {1} /\ a[1] = x
    BY <1>1, <1>3, <1>6
  <2>3. Reads(R, i, 1, Val(x))
    BY <1>2, <1>6 DEF Reads
  <2>4. \A n \in DOMAIN a : Reads(R, i, Len(i.regs) - n, Val(a[n]))
    BY <1>6, <2>2, <2>3
  <2>5. Live(T, R.open) /\ Vals(T) \subseteq R.held
    BY <1>1, <1>2, <1>5 DEF Live, Vals
  <2>6. RAX \notin R.open /\ \A r \in Virtual : r \in o => r \in R.open
    BY <1>2, <1>5 DEF Grows
  <2> QED BY <1>3, <1>6, <2>1, <2>2, <2>4, <2>5, <2>6, CallEnds
<1>8. PICK Q, o2 : /\ Follow(i, R, Q, B)
                   /\ Follow(j, Q, St(Vals(T \union {v}), {}, o2), B)
                   /\ Grows(o, o2)
                   /\ Live(T \union {v}, o2)
  BY <1>7 DEF Called
<1>9. Goes(e, P, St(Vals(T \union {v}), {}, o2), B)
  BY <1>5, <1>8, GoesThree
<1> QED BY <1>1, <1>8, <1>9 DEF Selects

(* One with two.                                                           *)
LEMMA Call2Selects ==
  ASSUME NEW o, NEW T, NEW x, NEW y, NEW v, Here(o, T, {x, y}, v), NEW B,
         NEW e \in Seq(MachInst), Len(e) = 4, NEW g, NEW h, NEW i, NEW j,
         g = e[1], h = e[2], i = e[3], j = e[4],
         NEW A1, A1 = ArgRegs[1], NEW A2, A2 = ArgRegs[2],
         Is(g, "mov", <<Use(y), Use(A2)>>, None), Is(h, "mov", <<Use(x), Use(A1)>>, None),
         Is(i, "call", <<Kill(A2), Kill(A1), Use(RAX)>>, None),
         NEW ev, ev = Completes("call2", v, <<x, y>>), Is(j, "mov", <<Kill(RAX), Use(v)>>, ev)
  PROVE  Selects(e, T \union {x, y}, T \union {v}, o, B)
<1>1. PICK W, o1, o2, P, Y, Z, S, R, kind, a :
        /\ W = T \union {x, y} /\ o1 = Opens(g, o) /\ o2 = Opens(h, o1)
        /\ Y = {<<A2, Val(y)>>} /\ Z = Y \union {<<A1, Val(x)>>}
        /\ P = St(Vals(W), {}, o) /\ S = St(Vals(W) \union Y, {}, o1)
        /\ R = St(Vals(W) \union Z, {}, o2)
        /\ kind = "call2" /\ a = <<x, y>>
  OBVIOUS
<1>2. R.open = o2 /\ R.held = Vals(W) \union Z
  BY <1>1 DEF St
<1>3. /\ Live(T, o) /\ Live(W, o) /\ Grows(o, o) /\ RAX \notin o
      /\ v \in Virtual /\ v \notin T
      /\ x \in Virtual /\ x \in W /\ y \in Virtual /\ y \in W
  BY <1>1, HereIs
<1>4. /\ A1 \in Register /\ A1 # RAX /\ A1 \notin W /\ A2 \in Register /\ A2 # RAX /\ A2 \notin W
      /\ A1 # A2
  BY <1>3, ArgumentsApart DEF Live
<1>5. Follow(g, P, S, B) /\ Live(W, o1) /\ Grows(o, o1) /\ A2 \in o1
  <2>3. /\ Follow(g, St(Vals(W), {}, o), St(Vals(W) \union {<<A2, Val(y)>>}, {}, Opens(g, o)), B)
        /\ Live(W, Opens(g, o)) /\ A2 \in Opens(g, o)
        /\ \A o0 : Grows(o0, o) /\ A2 # RAX => Grows(o0, Opens(g, o))
    BY <1>3, <1>4, MovFirst
  <2> QED BY <1>1, <1>3, <1>4, <2>3
<1>6. Follow(h, S, R, B) /\ Live(W, o2) /\ Grows(o, o2)
  <2>1. \A z \in Y : z[1] \in o1 /\ z[1] # A1
    BY <1>1, <1>4, <1>5
  <2>2. /\ Follow(h, St(Vals(W) \union Y, {}, o1),
                   St(Vals(W) \union (Y \union {<<A1, Val(x)>>}), {}, Opens(h, o1)), B)
        /\ Live(W, Opens(h, o1))
        /\ \A o0 : Grows(o0, o1) /\ A1 # RAX => Grows(o0, Opens(h, o1))
    BY <1>3, <1>4, <1>5, <2>1, MovKeeps
  <2> QED BY <1>1, <1>4, <1>5, <2>2
<1>7. /\ i \in MachInst /\ i.op = "call" /\ i.eval = None /\ LastReg(i) = RAX
      /\ Reg(i, 1) = A2 /\ Reg(i, 2) = A1 /\ DOMAIN i.regs = 1..3 /\ Len(i.regs) = 3
  <2>1. PICK p, q, r : p = Kill(A2) /\ q = Kill(A1) /\ r = Use(RAX)
    OBVIOUS
  <2>2. Is(i, "call", <<p, q, r>>, None) /\ p.reg = A2 /\ q.reg = A1 /\ r.reg = RAX
    BY <2>1 DEF Kill, Use
  <2>3. i \in MachInst /\ i.op = "call" /\ i.eval = None /\ i.regs = <<p, q, r>>
    BY <2>2 DEF Is
  <2>4. /\ DOMAIN i.regs = 1..3 /\ Len(i.regs) = 3
        /\ i.regs[1] = p /\ i.regs[2] = q /\ i.regs[3] = r
    BY <2>3
  <2> QED BY <2>2, <2>3, <2>4 DEF Reg, LastReg
<1>8. Called(i, j, R, T \union {v}, o, B)
  <2>1. kind \in CallKinds /\ ev = Completes(kind, v, a)
    BY <1>1 DEF CallKinds
  <2>2. a \in Seq(Virtual) /\ Len(i.regs) = Len(a) + 1 /\ DOMAIN a = {1, 2} /\ a[1] = x /\ a[2] = y
    BY <1>1, <1>3, <1>7
  <2>3. Reads(R, i, 2, Val(x)) /\ Reads(R, i, 1, Val(y))
    <3>1. <<A1, Val(x)>> \in R.held /\ <<A2, Val(y)>> \in R.held
      BY <1>1, <1>2
    <3>2. 1 \in DOMAIN i.regs /\ 2 \in DOMAIN i.regs
      BY <1>7
    <3> QED BY <1>7, <3>1, <3>2 DEF Reads
  <2>4. \A n \in DOMAIN a : Reads(R, i, Len(i.regs) - n, Val(a[n]))
    BY <1>7, <2>2, <2>3
  <2>5. Live(T, R.open) /\ Vals(T) \subseteq R.held
    BY <1>1, <1>2, <1>6 DEF Live, Vals
  <2>6. RAX \notin R.open /\ \A r \in Virtual : r \in o => r \in R.open
    BY <1>2, <1>6 DEF Grows
  <2> QED BY <1>3, <1>7, <2>1, <2>2, <2>4, <2>5, <2>6, CallEnds
<1>9. PICK Q, o3 : /\ Follow(i, R, Q, B)
                   /\ Follow(j, Q, St(Vals(T \union {v}), {}, o3), B)
                   /\ Grows(o, o3)
                   /\ Live(T \union {v}, o3)
  BY <1>8 DEF Called
<1>10. Goes(e, P, St(Vals(T \union {v}), {}, o3), B)
  BY <1>5, <1>6, <1>9, GoesFour
<1> QED BY <1>1, <1>9, <1>10 DEF Selects
-----------------------------------------------------------------------------
(* A store leaves the value that it stores.                                *)
LEMMA StoreSelects ==
  ASSUME NEW o, NEW T, NEW x, NEW p, RAX \notin o, Live(T, o), Live({p, x}, o), NEW B,
         NEW e \in Seq(MachInst), Len(e) = 1, NEW i, i = e[1],
         NEW ev, ev = Completes("store", NoRegister, <<p, x>>),
         Is(i, "store", <<Use(x), Use(p)>>, ev)
  PROVE  Selects(e, T \union {p, x}, T \union {x}, o, B)
<1>1. PICK W, U, P, o2 : /\ W = T \union {p, x} /\ U = T \union {x}
                         /\ P = St(Vals(W), {}, o) /\ o2 = Opens(i, o)
  OBVIOUS
<1>2. P.open = o /\ P.held = Vals(W)
  BY <1>1 DEF St
<1>3. /\ i.op = "store" /\ i.eval = ev /\ i \in MachInst
      /\ Reg(i, 1) = x /\ Reg(i, 2) = p /\ 1 \in DOMAIN i.regs /\ 2 \in DOMAIN i.regs
      /\ (\A r : Occurs(i, r) <=> r = x \/ r = p)
  BY OnTwo
<1>4. /\ Live(U, o) /\ Vals(U) \subseteq P.held /\ x # RAX /\ p # RAX
      /\ <<x, Val(x)>> \in P.held /\ <<p, Val(p)>> \in P.held
  BY <1>1, <1>2, NotFixed DEF Live, Vals
<1>5. /\ ev.kind = "store" /\ ev.value = NoRegister
      /\ DOMAIN ev.args = 1..2 /\ ev.args[1] = p /\ ev.args[2] = x
  BY DEF Completes
<1>6. Reads(P, i, 2, Val(p)) /\ Reads(P, i, 1, Val(x))
  BY <1>3, <1>4 DEF Reads
<1>7. Completed(i, P)
  BY <1>3, <1>5, <1>6 DEF Completed
<1>8. Follow(i, P, St(Vals(U), {}, o2), B)
  <2>1. PICK fl : fl = {}
    OBVIOUS
  <2>2. Follow(i, P, St(Vals(U), fl, Opens(i, P.open)), B)
    BY <1>2, <1>3, <1>4, <1>5, <1>7, <2>1, KeepStep
  <2> QED BY <1>1, <1>2, <2>1, <2>2
<1>9. Grows(o, o2) /\ Live(U, o2)
  <2>1. ~Occurs(i, RAX) /\ Grows(o, o)
    BY <1>3, <1>4 DEF Grows
  <2> QED BY <1>1, <1>3, <1>4, <2>1, GrowsOn, LiveOn
<1>10. Goes(e, P, St(Vals(U), {}, o2), B)
  BY <1>8, GoesOne
<1> QED BY <1>1, <1>9, <1>10 DEF Selects

(* The test of a condition uses it up.                                     *)
LEMMA TestSelects ==
  ASSUME NEW o, NEW T, NEW x, RAX \notin o, Live(T, o), Live({x}, o), NEW B,
         NEW e \in Seq(MachInst), Len(e) = 1, NEW i, i = e[1],
         NEW ev, ev = Completes("test", NoRegister, <<x>>), Is(i, "test", <<Use(x)>>, ev)
  PROVE  Selects(e, T \union {x}, T, o, B)
<1>1. PICK W, P, o2 : /\ W = T \union {x}
                      /\ P = St(Vals(W), {}, o) /\ o2 = Opens(i, o)
  OBVIOUS
<1>2. P.open = o /\ P.held = Vals(W)
  BY <1>1 DEF St
<1>3. /\ i.op = "test" /\ i.eval = ev /\ i \in MachInst
      /\ Reg(i, 1) = x /\ 1 \in DOMAIN i.regs /\ LastReg(i) = x
      /\ (\A r : Occurs(i, r) <=> r = x)
  BY OnOne
<1>4. /\ Live(T, o) /\ Vals(T) \subseteq P.held /\ x # RAX
      /\ <<x, Val(x)>> \in P.held
  BY <1>1, <1>2, NotFixed DEF Live, Vals
<1>5. /\ ev.kind = "test" /\ ev.value = NoRegister
      /\ 1 \in DOMAIN ev.args /\ Shape(ev) = Val(x)
  BY DEF Completes, Shape, Val
<1>6. Reads(P, i, Len(i.regs), Shape(ev))
  <2>1. i.regs = <<Use(x)>>
    BY DEF Is
  <2>2. Len(i.regs) = 1
    BY <2>1
  <2> QED BY <1>3, <1>4, <1>5, <2>2 DEF Reads
<1>7. Completed(i, P)
  BY <1>3, <1>5, <1>6 DEF Completed
<1>8. Follow(i, P, St(Vals(T), {}, o2), B)
  <2>1. PICK fl : fl = {}
    OBVIOUS
  <2>2. Follow(i, P, St(Vals(T), fl, Opens(i, P.open)), B)
    BY <1>2, <1>3, <1>4, <1>5, <1>7, <2>1, KeepStep
  <2> QED BY <1>1, <1>2, <2>1, <2>2
<1>9. Grows(o, o2) /\ Live(T, o2)
  <2>1. ~Occurs(i, RAX) /\ Grows(o, o)
    BY <1>3, <1>4 DEF Grows
  <2> QED BY <1>1, <1>3, <1>4, <2>1, GrowsOn, LiveOn
<1>10. Goes(e, P, St(Vals(T), {}, o2), B)
  BY <1>8, GoesOne
<1> QED BY <1>1, <1>9, <1>10 DEF Selects

(* A constant.                                                             *)
LEMMA ConstSelects ==
  ASSUME NEW o, NEW T, NEW v, Here(o, T, {}, v), NEW B, NEW kind \in {"true", "false"},
         NEW e \in Seq(MachInst), Len(e) = 1, NEW i, i = e[1],
         NEW ev, ev = Completes(kind, v, << >>), Is(i, "const", <<Use(v)>>, ev)
  PROVE  Selects(e, T, T \union {v}, o, B)
<1>1. PICK A : A = {}
  OBVIOUS
<1>3. /\ i.op = "const" /\ i.eval = ev
      /\ Reg(i, 1) = v /\ 1 \in DOMAIN i.regs
      /\ LastReg(i) = v /\ (\A r : Occurs(i, r) <=> r = v)
  BY OnOne
<1>4. i.op \in Plain /\ Written(i) = {v}
  BY <1>3, WritesOf DEF Plain
<1>5. ev.kind = kind /\ ev.value = v /\ Shape(ev) = Sh(kind, << >>)
  BY DEF Completes, Shape
<1>6. ev.kind \notin {"none", "store", "copy", "ret", "test"}
  BY <1>5
<1>7. Yields(i, St(Vals(T \union A), {}, o), v, Shape(ev))
  BY <1>3, <1>5 DEF Yields, YieldsFixed, To
<1>8. /\ v # RAX /\ v \in Virtual /\ v \notin T /\ RAX \notin o /\ Live(T, o)
      /\ Live(A, o)
  BY <1>1, NotFixed DEF Here, Live
<1>9. Selects(e, T \union A, T \union {v}, o, B)
  BY <1>1, <1>3, <1>4, <1>5, <1>6, <1>7, <1>8, OneGoes
<1>10. T \union A = T
  BY <1>1
<1> QED BY <1>9, <1>10

(* The argument of a block.                                                *)
LEMMA CopySelects ==
  ASSUME NEW o, NEW T, NEW x, NEW v, Here(o, T, {x}, v), NEW B,
         NEW e \in Seq(MachInst), Len(e) = 1, NEW i, i = e[1],
         NEW ev, ev = Completes("copy", v, <<x>>), Is(i, "mov", <<Use(x), Use(v)>>, ev)
  PROVE  Selects(e, T \union {x}, T \union {v}, o, B)
<1>1. PICK W, P, Q, o2 : /\ W = T \union {x} /\ o2 = Opens(i, o)
                         /\ P = St(Vals(W), {}, o) /\ Q = St(Vals(T \union {v}), {}, o2)
  OBVIOUS
<1>2. P.open = o /\ P.held = Vals(W)
  BY <1>1 DEF St
<1>3. /\ i \in MachInst /\ (\A r : Occurs(i, r) <=> r = x \/ r = v)
  BY OnTwo
<1>4. /\ Live(T, o) /\ Vals(T) \subseteq P.held /\ x # RAX /\ v # RAX /\ v \in Virtual /\ v \notin T
      /\ <<x, Val(x)>> \in P.held /\ RAX \notin o
  BY <1>1, <1>2, NotFixed DEF Live, Vals, Here
<1>5. /\ ev.kind = "copy" /\ ev.value = v
      /\ 1 \in DOMAIN ev.args /\ Shape(ev) = Val(x)
  BY DEF Completes, Shape, Val
<1>6. Follow(i, P, Q, B)
  <2>1. PICK a, b : a = Use(x) /\ b = Use(v)
    OBVIOUS
  <2>2. Is(i, "mov", <<a, b>>, ev) /\ a.reg = x /\ b.reg = v
    BY <2>1 DEF Use
  <2>3. Q = St(Vals(T \union {v}), {}, Opens(i, P.open))
    BY <1>1, <1>2
  <2>4. ev.kind \notin {"none", "store"}
    BY <1>5
  <2> QED BY <1>2, <1>4, <1>5, <2>2, <2>3, <2>4, MovLast
<1>7. Grows(o, o2) /\ Live(T \union {v}, o2)
  <2>1. ~Occurs(i, RAX) /\ Grows(o, o)
    BY <1>3, <1>4 DEF Grows
  <2> QED BY <1>1, <1>3, <1>4, <2>1, GrowsOn, LiveOn
<1>8. Goes(e, P, Q, B)
  BY <1>6, GoesOne
<1> QED BY <1>1, <1>7, <1>8 DEF Selects

(* The value of the function is returned in RAX.                           *)
Returns(e, A, o, B) == \E Q : Goes(e, St(Vals(A), {}, o), Q, B) /\ Q.held = {} /\ Q.flags = {}

LEMMA ReturnGoes ==
  ASSUME NEW o, NEW x, Live({x}, o), NEW B,
         NEW e \in Seq(MachInst), Len(e) = 2, NEW i, NEW j, i = e[1], j = e[2],
         Is(i, "mov", <<Use(x), Use(RAX)>>, None),
         NEW ev, ev = Completes("ret", NoRegister, <<x>>), Is(j, "ret", <<Use(RAX)>>, ev)
  PROVE  Returns(e, {x}, o, B)
<1>1. PICK W, o1, P, Q, R :
        /\ W = {x} /\ o1 = Opens(i, o)
        /\ P = St(Vals(W), {}, o) /\ Q = St(Vals(W) \union {<<RAX, Val(x)>>}, {}, o1)
        /\ R = St({}, {}, Opens(j, o1))
  OBVIOUS
<1>2. Live(W, o) /\ x \in W /\ x \in Virtual /\ RAX \in Register /\ RAX \notin W
  BY <1>1, FixedRegisters, NotFixed DEF Live
<1>3. Follow(i, P, Q, B)
  <2>1. Follow(i, St(Vals(W), {}, o), St(Vals(W) \union {<<RAX, Val(x)>>}, {}, Opens(i, o)), B)
    BY <1>2, MovFirst
  <2> QED BY <1>1, <2>1
<1>4. /\ j.op = "ret" /\ j.eval = ev
      /\ Reg(j, 1) = RAX /\ 1 \in DOMAIN j.regs
      /\ LastReg(j) = RAX
  <2>1. j.op = "ret" /\ j.eval = ev /\ j.regs = <<Use(RAX)>>
    BY DEF Is
  <2>2. PICK u : u = Use(RAX) /\ u.reg = RAX
    BY DEF Use
  <2>3. j.regs = <<u>> /\ 1 \in {1}
    BY <2>1, <2>2
  <2> QED BY <2>1, <2>2, <2>3, OneOperand
<1>5. /\ ev.kind = "ret" /\ ev.value = NoRegister
      /\ 1 \in DOMAIN ev.args /\ Shape(ev) = Val(x)
  BY DEF Completes, Shape, Val
<1>6. Reads(Q, j, Len(j.regs), Shape(ev))
  <2>1. j.regs = <<Use(RAX)>>
    BY DEF Is
  <2>2. Len(j.regs) = 1
    BY <2>1
  <2>3. <<RAX, Val(x)>> \in Q.held
    BY <1>1 DEF St
  <2> QED BY <1>4, <1>5, <2>2, <2>3 DEF Reads
<1>7. Completed(j, Q)
  BY <1>4, <1>5, <1>6 DEF Completed
<1>8. R.held = {} /\ R.flags = {} /\ R.open = Opens(j, Q.open)
  BY <1>1 DEF St
<1>9. Written(j) = {}
  BY <1>4 DEF Written
<1>10. Follow(j, Q, R, B)
  BY <1>4, <1>7, <1>8, <1>9 DEF Follow
<1>11. Goes(e, P, R, B)
  BY <1>3, <1>10, GoesTwo
<1> QED BY <1>1, <1>8, <1>11 DEF Returns
-----------------------------------------------------------------------------
(* The instructions of an operation, as they are emitted.                  *)
LEMMA EmitOne ==
  ASSUME NEW f, NEW kind, NEW v, NEW a, NEW e \in Seq(MachInst), e = Emit(<<f>>, kind, v, a)
  PROVE  Len(e) = 1 /\ Is(e[1], f.op, f.regs, Completes(kind, v, a))
<1>1. PICK s, S : s = <<f>> /\ S = {f}
  OBVIOUS
<1>2. s \in Seq(S) /\ Len(s) = 1 /\ DOMAIN s = {1} /\ s[1] = f
  BY <1>1
<1>5. e = Emit(s, kind, v, a)
  BY <1>1
<1>3. /\ Len(e) = Len(s)
      /\ \A q \in DOMAIN s : Is(e[q], s[q].op, s[q].regs,
                                IF q = Len(s) THEN Completes(kind, v, a) ELSE None)
  BY <1>2, <1>5, EmitAt
<1> QED BY <1>2, <1>3

(* Two.                                                                    *)
LEMMA EmitTwo ==
  ASSUME NEW f, NEW g, NEW kind, NEW v, NEW a, NEW e \in Seq(MachInst),
         e = Emit(<<f, g>>, kind, v, a)
  PROVE  /\ Len(e) = 2 /\ Is(e[1], f.op, f.regs, None)
         /\ Is(e[2], g.op, g.regs, Completes(kind, v, a))
<1>1. PICK s, S : s = <<f, g>> /\ S = {f, g}
  OBVIOUS
<1>2. s \in Seq(S) /\ Len(s) = 2 /\ DOMAIN s = {1, 2} /\ s[1] = f /\ s[2] = g
  BY <1>1
<1>5. e = Emit(s, kind, v, a)
  BY <1>1
<1>3. /\ Len(e) = Len(s)
      /\ \A q \in DOMAIN s : Is(e[q], s[q].op, s[q].regs,
                                IF q = Len(s) THEN Completes(kind, v, a) ELSE None)
  BY <1>2, <1>5, EmitAt
<1>4. Is(e[1], s[1].op, s[1].regs, None) /\ Is(e[2], s[2].op, s[2].regs, Completes(kind, v, a))
  BY <1>2, <1>3
<1> QED BY <1>2, <1>3, <1>4

(* Three.                                                                  *)
LEMMA EmitThree ==
  ASSUME NEW f, NEW g, NEW h, NEW kind, NEW v, NEW a, NEW e \in Seq(MachInst),
         e = Emit(<<f, g, h>>, kind, v, a)
  PROVE  /\ Len(e) = 3 /\ Is(e[1], f.op, f.regs, None) /\ Is(e[2], g.op, g.regs, None)
         /\ Is(e[3], h.op, h.regs, Completes(kind, v, a))
<1>1. PICK s, S : s = <<f, g, h>> /\ S = {f, g, h}
  OBVIOUS
<1>2. s \in Seq(S) /\ Len(s) = 3 /\ DOMAIN s = {1, 2, 3} /\ s[1] = f /\ s[2] = g /\ s[3] = h
  BY <1>1
<1>5. e = Emit(s, kind, v, a)
  BY <1>1
<1>3. /\ Len(e) = Len(s)
      /\ \A q \in DOMAIN s : Is(e[q], s[q].op, s[q].regs,
                                IF q = Len(s) THEN Completes(kind, v, a) ELSE None)
  BY <1>2, <1>5, EmitAt
<1>4. /\ Is(e[1], s[1].op, s[1].regs, None) /\ Is(e[2], s[2].op, s[2].regs, None)
      /\ Is(e[3], s[3].op, s[3].regs, Completes(kind, v, a))
  BY <1>2, <1>3
<1> QED BY <1>2, <1>3, <1>4

(* Four.                                                                   *)
LEMMA EmitFour ==
  ASSUME NEW f, NEW g, NEW h, NEW i, NEW kind, NEW v, NEW a, NEW e \in Seq(MachInst),
         e = Emit(<<f, g, h, i>>, kind, v, a)
  PROVE  /\ Len(e) = 4 /\ Is(e[1], f.op, f.regs, None) /\ Is(e[2], g.op, g.regs, None)
         /\ Is(e[3], h.op, h.regs, None) /\ Is(e[4], i.op, i.regs, Completes(kind, v, a))
<1>1. PICK s, S : s = <<f, g, h, i>> /\ S = {f, g, h, i}
  OBVIOUS
<1>2. /\ s \in Seq(S) /\ Len(s) = 4 /\ DOMAIN s = {1, 2, 3, 4} /\ s[1] = f /\ s[2] = g
      /\ s[3] = h /\ s[4] = i
  BY <1>1
<1>5. e = Emit(s, kind, v, a)
  BY <1>1
<1>3. /\ Len(e) = Len(s)
      /\ \A q \in DOMAIN s : Is(e[q], s[q].op, s[q].regs,
                                IF q = Len(s) THEN Completes(kind, v, a) ELSE None)
  BY <1>2, <1>5, EmitAt
<1>4. /\ Is(e[1], s[1].op, s[1].regs, None) /\ Is(e[2], s[2].op, s[2].regs, None)
      /\ Is(e[3], s[3].op, s[3].regs, None) /\ Is(e[4], s[4].op, s[4].regs, Completes(kind, v, a))
  BY <1>2, <1>3
<1> QED BY <1>2, <1>3, <1>4

(* Five.                                                                   *)
LEMMA EmitFive ==
  ASSUME NEW f, NEW g, NEW h, NEW i, NEW j, NEW kind, NEW v, NEW a, NEW e \in Seq(MachInst),
         e = Emit(<<f, g, h, i, j>>, kind, v, a)
  PROVE  /\ Len(e) = 5 /\ Is(e[1], f.op, f.regs, None) /\ Is(e[2], g.op, g.regs, None)
         /\ Is(e[3], h.op, h.regs, None) /\ Is(e[4], i.op, i.regs, None)
         /\ Is(e[5], j.op, j.regs, Completes(kind, v, a))
<1>1. PICK s, S : s = <<f, g, h, i, j>> /\ S = {f, g, h, i, j}
  OBVIOUS
<1>2. /\ s \in Seq(S) /\ Len(s) = 5 /\ DOMAIN s = {1, 2, 3, 4, 5} /\ s[1] = f /\ s[2] = g
      /\ s[3] = h /\ s[4] = i /\ s[5] = j
  BY <1>1
<1>5. e = Emit(s, kind, v, a)
  BY <1>1
<1>3. /\ Len(e) = Len(s)
      /\ \A q \in DOMAIN s : Is(e[q], s[q].op, s[q].regs,
                                IF q = Len(s) THEN Completes(kind, v, a) ELSE None)
  BY <1>2, <1>5, EmitAt
<1>4. /\ Is(e[1], s[1].op, s[1].regs, None) /\ Is(e[2], s[2].op, s[2].regs, None)
      /\ Is(e[3], s[3].op, s[3].regs, None) /\ Is(e[4], s[4].op, s[4].regs, None)
      /\ Is(e[5], s[5].op, s[5].regs, Completes(kind, v, a))
  BY <1>2, <1>3
<1> QED BY <1>2, <1>3, <1>4

(* Short sequences.                                                        *)
LEMMA ShortIs ==
  ASSUME NEW S, NEW a \in Seq(S)
  PROVE  /\ Len(a) = 0 => a = << >> /\ {a[n] : n \in DOMAIN a} = {}
         /\ Len(a) = 1 => a = <<a[1]>> /\ {a[n] : n \in DOMAIN a} = {a[1]}
         /\ Len(a) = 2 => a = <<a[1], a[2]>> /\ {a[n] : n \in DOMAIN a} = {a[1], a[2]}
<1>1. Len(a) = 0 => a = << >> /\ DOMAIN a = {}
  OBVIOUS
<1>2. Len(a) = 1 => a = <<a[1]>> /\ DOMAIN a = {1}
  OBVIOUS
<1>3. Len(a) = 2 => a = <<a[1], a[2]>> /\ DOMAIN a = {1, 2}
  OBVIOUS
<1> QED BY <1>1, <1>2, <1>3
-----------------------------------------------------------------------------
(* Each operation: the load of a variable,                                 *)
LEMMA EmitLoad ==
  ASSUME NEW o, NEW T, NEW v, Here(o, T, {}, v), NEW B,
         NEW e \in Seq(MachInst), e = Emit(SelectLoad(v), "load", v, << >>)
  PROVE  Selects(e, T, T \union {v}, o, B)
<1>1. PICK f : /\ f = Inst("load", <<Use(v)>>)
  OBVIOUS
<1>2. SelectLoad(v) = <<f>>
  BY <1>1 DEF SelectLoad
<1>3. /\ f.op = "load" /\ f.regs = <<Use(v)>>
  BY <1>1 DEF Inst
<1>4. PICK ev : ev = Completes("load", v, << >>)
  OBVIOUS
<1>5. e = Emit(<<f>>, "load", v, << >>)
  BY <1>2
<1>6. /\ Len(e) = 1
      /\ Is(e[1], f.op, f.regs, ev)
  BY <1>4, <1>5, EmitOne
<1>7. /\ Is(e[1], "load", <<Use(v)>>, ev)
  BY <1>3, <1>6
<1> QED BY <1>4, <1>6, <1>7, LoadSelects

(* through a pointer,                                                      *)
LEMMA EmitDeref ==
  ASSUME NEW o, NEW T, NEW x, NEW v, Here(o, T, {x}, v), NEW B,
         NEW e \in Seq(MachInst), e = Emit(SelectDeref(v, <<x>>), "deref", v, <<x>>)
  PROVE  Selects(e, T \union {x}, T \union {v}, o, B)
<1>1. PICK f : /\ f = Inst("deref", <<Use(x), Use(v)>>)
  OBVIOUS
<1>2. SelectDeref(v, <<x>>) = <<f>>
  BY <1>1 DEF SelectDeref
<1>3. /\ f.op = "deref" /\ f.regs = <<Use(x), Use(v)>>
  BY <1>1 DEF Inst
<1>4. PICK ev : ev = Completes("deref", v, <<x>>)
  OBVIOUS
<1>5. e = Emit(<<f>>, "deref", v, <<x>>)
  BY <1>2
<1>6. /\ Len(e) = 1
      /\ Is(e[1], f.op, f.regs, ev)
  BY <1>4, <1>5, EmitOne
<1>7. /\ Is(e[1], "deref", <<Use(x), Use(v)>>, ev)
  BY <1>3, <1>6
<1> QED BY <1>4, <1>6, <1>7, DerefSelects

(* addition,                                                               *)
LEMMA EmitAdd ==
  ASSUME NEW o, NEW T, NEW x, NEW y, NEW v, Here(o, T, {x, y}, v), NEW B,
         NEW e \in Seq(MachInst), e = Emit(SelectIAdd(v, <<x, y>>), "iadd", v, <<x, y>>)
  PROVE  Selects(e, T \union {x, y}, T \union {v}, o, B)
<1>1. PICK f, g : /\ f = Inst("add", <<Use(x), Use(y)>>)
                /\ g = Inst("mov", <<Use(y), Use(v)>>)
  OBVIOUS
<1>2. SelectIAdd(v, <<x, y>>) = <<f, g>>
  BY <1>1 DEF SelectIAdd, Mov
<1>3. /\ f.op = "add" /\ f.regs = <<Use(x), Use(y)>>
      /\ g.op = "mov" /\ g.regs = <<Use(y), Use(v)>>
  BY <1>1 DEF Inst
<1>4. PICK ev : ev = Completes("iadd", v, <<x, y>>)
  OBVIOUS
<1>5. e = Emit(<<f, g>>, "iadd", v, <<x, y>>)
  BY <1>2
<1>6. /\ Len(e) = 2
      /\ Is(e[1], f.op, f.regs, None)
      /\ Is(e[2], g.op, g.regs, ev)
  BY <1>4, <1>5, EmitTwo
<1>7. /\ Is(e[1], "add", <<Use(x), Use(y)>>, None)
      /\ Is(e[2], "mov", <<Use(y), Use(v)>>, ev)
  BY <1>3, <1>6
<1> QED BY <1>4, <1>6, <1>7, SumSelects

(* subtraction,                                                            *)
LEMMA EmitSub ==
  ASSUME NEW o, NEW T, NEW x, NEW y, NEW v, Here(o, T, {x, y}, v), NEW B,
         NEW e \in Seq(MachInst), e = Emit(SelectISub(v, <<x, y>>), "isub", v, <<x, y>>)
  PROVE  Selects(e, T \union {x, y}, T \union {v}, o, B)
<1>1. PICK f, g : /\ f = Inst("sub", <<Use(y), Use(x)>>)
                /\ g = Inst("mov", <<Use(x), Use(v)>>)
  OBVIOUS
<1>2. SelectISub(v, <<x, y>>) = <<f, g>>
  BY <1>1 DEF SelectISub, Mov
<1>3. /\ f.op = "sub" /\ f.regs = <<Use(y), Use(x)>>
      /\ g.op = "mov" /\ g.regs = <<Use(x), Use(v)>>
  BY <1>1 DEF Inst
<1>4. PICK ev : ev = Completes("isub", v, <<x, y>>)
  OBVIOUS
<1>5. e = Emit(<<f, g>>, "isub", v, <<x, y>>)
  BY <1>2
<1>6. /\ Len(e) = 2
      /\ Is(e[1], f.op, f.regs, None)
      /\ Is(e[2], g.op, g.regs, ev)
  BY <1>4, <1>5, EmitTwo
<1>7. /\ Is(e[1], "sub", <<Use(y), Use(x)>>, None)
      /\ Is(e[2], "mov", <<Use(x), Use(v)>>, ev)
  BY <1>3, <1>6
<1>8. PICK A : A = {x, y}
  OBVIOUS
<1>9. A = {y, x}
  BY <1>8
<1>10. Here(o, T, {y, x}, v)
  BY <1>8, <1>9
<1>11. Selects(e, T \union {y, x}, T \union {v}, o, B)
  BY <1>4, <1>6, <1>7, <1>10, SumSelects
<1> QED BY <1>8, <1>9, <1>11

(* multiplication,                                                         *)
LEMMA EmitMul ==
  ASSUME NEW o, NEW T, NEW x, NEW y, NEW v, Here(o, T, {x, y}, v), NEW B,
         NEW e \in Seq(MachInst), e = Emit(SelectIMul(v, <<x, y>>), "imul", v, <<x, y>>)
  PROVE  Selects(e, T \union {x, y}, T \union {v}, o, B)
<1>1. PICK f, g : /\ f = Inst("mov", <<Use(x), Use(v)>>)
                /\ g = Inst("imul", <<Use(y), Use(v)>>)
  OBVIOUS
<1>2. SelectIMul(v, <<x, y>>) = <<f, g>>
  BY <1>1 DEF SelectIMul, Mov
<1>3. /\ f.op = "mov" /\ f.regs = <<Use(x), Use(v)>>
      /\ g.op = "imul" /\ g.regs = <<Use(y), Use(v)>>
  BY <1>1 DEF Inst
<1>4. PICK ev : ev = Completes("imul", v, <<x, y>>)
  OBVIOUS
<1>5. e = Emit(<<f, g>>, "imul", v, <<x, y>>)
  BY <1>2
<1>6. /\ Len(e) = 2
      /\ Is(e[1], f.op, f.regs, None)
      /\ Is(e[2], g.op, g.regs, ev)
  BY <1>4, <1>5, EmitTwo
<1>7. /\ Is(e[1], "mov", <<Use(x), Use(v)>>, None)
      /\ Is(e[2], "imul", <<Use(y), Use(v)>>, ev)
  BY <1>3, <1>6
<1> QED BY <1>4, <1>6, <1>7, MulSelects

(* negation,                                                               *)
LEMMA EmitNegate ==
  ASSUME NEW o, NEW T, NEW x, NEW v, Here(o, T, {x}, v), NEW B,
         NEW e \in Seq(MachInst), e = Emit(SelectNegate(v, <<x>>), "ineg", v, <<x>>)
  PROVE  Selects(e, T \union {x}, T \union {v}, o, B)
<1>1. PICK f, g : /\ f = Inst("neg", <<Use(x)>>)
                /\ g = Inst("mov", <<Use(x), Use(v)>>)
  OBVIOUS
<1>2. SelectNegate(v, <<x>>) = <<f, g>>
  BY <1>1 DEF SelectNegate, Mov
<1>3. /\ f.op = "neg" /\ f.regs = <<Use(x)>>
      /\ g.op = "mov" /\ g.regs = <<Use(x), Use(v)>>
  BY <1>1 DEF Inst
<1>4. PICK ev : ev = Completes("ineg", v, <<x>>)
  OBVIOUS
<1>5. e = Emit(<<f, g>>, "ineg", v, <<x>>)
  BY <1>2
<1>6. /\ Len(e) = 2
      /\ Is(e[1], f.op, f.regs, None)
      /\ Is(e[2], g.op, g.regs, ev)
  BY <1>4, <1>5, EmitTwo
<1>7. /\ Is(e[1], "neg", <<Use(x)>>, None)
      /\ Is(e[2], "mov", <<Use(x), Use(v)>>, ev)
  BY <1>3, <1>6
<1> QED BY <1>4, <1>6, <1>7, NegateSelects

(* a shift,                                                                *)
LEMMA EmitShift ==
  ASSUME NEW o, NEW T, NEW x, NEW y, NEW v, Here(o, T, {x, y}, v), NEW B,
         NEW e \in Seq(MachInst), e = Emit(SelectShift(v, <<x, y>>), "shift", v, <<x, y>>)
  PROVE  Selects(e, T \union {x, y}, T \union {v}, o, B)
<1>1. PICK f, g, h : /\ f = Inst("mov", <<Use(x), Use(v)>>)
                /\ g = Inst("mov", <<Use(y), Use(RCX)>>)
                /\ h = Inst("shl", <<Use(RCX), Use(v)>>)
  OBVIOUS
<1>2. SelectShift(v, <<x, y>>) = <<f, g, h>>
  BY <1>1 DEF SelectShift, Mov
<1>3. /\ f.op = "mov" /\ f.regs = <<Use(x), Use(v)>>
      /\ g.op = "mov" /\ g.regs = <<Use(y), Use(RCX)>>
      /\ h.op = "shl" /\ h.regs = <<Use(RCX), Use(v)>>
  BY <1>1 DEF Inst
<1>4. PICK ev : ev = Completes("shift", v, <<x, y>>)
  OBVIOUS
<1>5. e = Emit(<<f, g, h>>, "shift", v, <<x, y>>)
  BY <1>2
<1>6. /\ Len(e) = 3
      /\ Is(e[1], f.op, f.regs, None)
      /\ Is(e[2], g.op, g.regs, None)
      /\ Is(e[3], h.op, h.regs, ev)
  BY <1>4, <1>5, EmitThree
<1>7. /\ Is(e[1], "mov", <<Use(x), Use(v)>>, None)
      /\ Is(e[2], "mov", <<Use(y), Use(RCX)>>, None)
      /\ Is(e[3], "shl", <<Use(RCX), Use(v)>>, ev)
  BY <1>3, <1>6
<1> QED BY <1>4, <1>6, <1>7, ShiftSelects

(* a comparison,                                                           *)
LEMMA EmitLess ==
  ASSUME NEW o, NEW T, NEW x, NEW y, NEW v, Here(o, T, {x, y}, v), NEW B,
         NEW e \in Seq(MachInst), e = Emit(SelectComparison(v, <<x, y>>), "less", v, <<x, y>>)
  PROVE  Selects(e, T \union {x, y}, T \union {v}, o, B)
<1>1. PICK f, g : /\ f = Inst("cmp", <<Use(x), Use(y)>>)
                /\ g = Inst("setg", <<Use(v)>>)
  OBVIOUS
<1>2. SelectComparison(v, <<x, y>>) = <<f, g>>
  BY <1>1 DEF SelectComparison
<1>3. /\ f.op = "cmp" /\ f.regs = <<Use(x), Use(y)>>
      /\ g.op = "setg" /\ g.regs = <<Use(v)>>
  BY <1>1 DEF Inst
<1>4. PICK ev : ev = Completes("less", v, <<x, y>>)
  OBVIOUS
<1>5. e = Emit(<<f, g>>, "less", v, <<x, y>>)
  BY <1>2
<1>6. /\ Len(e) = 2
      /\ Is(e[1], f.op, f.regs, None)
      /\ Is(e[2], g.op, g.regs, ev)
  BY <1>4, <1>5, EmitTwo
<1>7. /\ Is(e[1], "cmp", <<Use(x), Use(y)>>, None)
      /\ Is(e[2], "setg", <<Use(v)>>, ev)
  BY <1>3, <1>6
<1> QED BY <1>4, <1>6, <1>7, LessSelects

(* the step of a pointer,                                                  *)
LEMMA EmitPwalk ==
  ASSUME NEW o, NEW T, NEW x, NEW y, NEW v, Here(o, T, {x, y}, v), NEW B,
         NEW e \in Seq(MachInst), e = Emit(SelectPwalk(v, <<x, y>>), "pwalk", v, <<x, y>>)
  PROVE  Selects(e, T \union {x, y}, T \union {v}, o, B)
<1>1. PICK f, g, h : /\ f = Inst("mov", <<Use(x), Use(v)>>)
                /\ g = Inst("scale", <<Use(y)>>)
                /\ h = Inst("add", <<Use(y), Use(v)>>)
  OBVIOUS
<1>2. SelectPwalk(v, <<x, y>>) = <<f, g, h>>
  BY <1>1 DEF SelectPwalk, Mov
<1>3. /\ f.op = "mov" /\ f.regs = <<Use(x), Use(v)>>
      /\ g.op = "scale" /\ g.regs = <<Use(y)>>
      /\ h.op = "add" /\ h.regs = <<Use(y), Use(v)>>
  BY <1>1 DEF Inst
<1>4. PICK ev : ev = Completes("pwalk", v, <<x, y>>)
  OBVIOUS
<1>5. e = Emit(<<f, g, h>>, "pwalk", v, <<x, y>>)
  BY <1>2
<1>6. /\ Len(e) = 3
      /\ Is(e[1], f.op, f.regs, None)
      /\ Is(e[2], g.op, g.regs, None)
      /\ Is(e[3], h.op, h.regs, ev)
  BY <1>4, <1>5, EmitThree
<1>7. /\ Is(e[1], "mov", <<Use(x), Use(v)>>, None)
      /\ Is(e[2], "scale", <<Use(y)>>, None)
      /\ Is(e[3], "add", <<Use(y), Use(v)>>, ev)
  BY <1>3, <1>6
<1> QED BY <1>4, <1>6, <1>7, PwalkSelects
-----------------------------------------------------------------------------
(* a division, whose result comes from RAX or RDX,                         *)
LEMMA EmitDivision ==
  ASSUME NEW o, NEW T, NEW x, NEW y, NEW v, Here(o, T, {x, y}, v), NEW B, NEW kind \in DivKinds,
         NEW e \in Seq(MachInst), e = Emit(SelectDivision(kind, v, <<x, y>>), kind, v, <<x, y>>)
  PROVE  Selects(e, T \union {x, y}, T \union {v}, o, B)
<1>1. PICK m, n : /\ m = IF RAX = ResultOf(kind) THEN Use(RAX) ELSE Kill(RAX)
                  /\ n = IF RDX = ResultOf(kind) THEN Use(RDX) ELSE Kill(RDX)
  OBVIOUS
<1>2. PICK f, g, h, i, j :
        /\ f = Mov(x, RAX)
        /\ g = Mov(y, v)
        /\ h = IF kind \in {"sdiv", "smod"} THEN Inst("cqo", <<Use(RAX), Use(RDX)>>)
                                            ELSE Inst("zero", <<Kill(RDX)>>)
        /\ i = Inst("div", <<Use(v), Kill(RAX), Kill(RDX), m, n>>)
        /\ j = Inst("mov", <<Kill(ResultOf(kind)), Use(v)>>)
  OBVIOUS
<1>3. SelectDivision(kind, v, <<x, y>>) = <<f, g, h, i, j>>
  BY <1>1, <1>2 DEF SelectDivision, ResultOf
<1>4. PICK ev : ev = Completes(kind, v, <<x, y>>)
  OBVIOUS
<1>5. e = Emit(<<f, g, h, i, j>>, kind, v, <<x, y>>)
  BY <1>3
<1>6. /\ Len(e) = 5
      /\ Is(e[1], f.op, f.regs, None)
      /\ Is(e[2], g.op, g.regs, None)
      /\ Is(e[3], h.op, h.regs, None)
      /\ Is(e[4], i.op, i.regs, None)
      /\ Is(e[5], j.op, j.regs, ev)
  BY <1>4, <1>5, EmitFive
<1>7. /\ f.op = "mov" /\ f.regs = <<Use(x), Use(RAX)>>
      /\ g.op = "mov" /\ g.regs = <<Use(y), Use(v)>>
      /\ i.op = "div" /\ i.regs = <<Use(v), Kill(RAX), Kill(RDX), m, n>>
      /\ j.op = "mov" /\ j.regs = <<Kill(ResultOf(kind)), Use(v)>>
  BY <1>2 DEF Inst, Mov
<1>8. /\ kind \in {"sdiv", "smod"} => h.op = "cqo" /\ h.regs = <<Use(RAX), Use(RDX)>>
      /\ kind \notin {"sdiv", "smod"} => h.op = "zero" /\ h.regs = <<Kill(RDX)>>
  BY <1>2 DEF Inst
<1>9. /\ m.reg = RAX /\ n.reg = RDX /\ (ResultOf(kind) = RDX => m.kill)
  BY <1>1, BackendAssumption DEF Use, Kill
<1>10. PICK f1, g1, h1, i1, j1 : f1 = e[1] /\ g1 = e[2] /\ h1 = e[3] /\ i1 = e[4] /\ j1 = e[5]
  OBVIOUS
<1>11. /\ Is(f1, "mov", <<Use(x), Use(RAX)>>, None)
       /\ Is(g1, "mov", <<Use(y), Use(v)>>, None)
       /\ Is(i1, "div", <<Use(v), Kill(RAX), Kill(RDX), m, n>>, None)
       /\ Is(j1, "mov", <<Kill(ResultOf(kind)), Use(v)>>, ev)
  BY <1>6, <1>7, <1>10
<1>12. /\ kind \in {"sdiv", "smod"} => Is(h1, "cqo", <<Use(RAX), Use(RDX)>>, None)
       /\ kind \notin {"sdiv", "smod"} => Is(h1, "zero", <<Kill(RDX)>>, None)
  BY <1>6, <1>8, <1>10
<1>13. Len(e) = 5
  BY <1>6
<1> QED BY <1>4, <1>9, <1>10, <1>11, <1>12, <1>13, DivideSelects

(* Moves and kills of the arguments of a call, last to first.              *)
LEMMA ReverseIs ==
  /\ \A x : Reverse(<<x>>) = <<x>>
  /\ \A x, y : Reverse(<<x, y>>) = <<y, x>>
  /\ Reverse(<< >>) = << >>
BY DEF Reverse
-----------------------------------------------------------------------------
(* Two sequences with the same elements are one.                           *)
LEMMA SameSeq ==
  ASSUME NEW S, NEW s \in Seq(S), NEW t \in Seq(S), Len(s) = Len(t),
         \A n \in 1..Len(s) : s[n] = t[n]
  PROVE  s = t
OBVIOUS

(* Short sequences put together.                                           *)
LEMMA JoinOneOne ==
  ASSUME NEW x, NEW z
  PROVE  <<x>> \o <<z>> = <<x, z>>
<1>1. PICK S : S = {x, z}
  OBVIOUS
<1>2. PICK s, t, u, r : s = <<x>> /\ t = <<z>> /\ u = <<x, z>> /\ r = s \o t
  OBVIOUS
<1>3. s \in Seq(S) /\ t \in Seq(S) /\ u \in Seq(S)
  BY <1>1, <1>2
<1>4. /\ Len(s) = 1 /\ Len(t) = 1 /\ Len(u) = 2
      /\ s[1] = x /\ t[1] = z
      /\ u[1] = x /\ u[2] = z
  BY <1>2
<1>5. /\ r \in Seq(S) /\ Len(r) = Len(s) + Len(t)
      /\ \A q \in 1..Len(s) : r[q] = s[q]
      /\ \A q \in 1..Len(t) : r[Len(s) + q] = t[q]
  BY <1>2, <1>3, JoinIs
<1>6. Len(r) = 2 /\ r[1] = s[1] /\ r[1 + 1] = t[1]
  BY <1>4, <1>5
<1>7. \A q \in 1..Len(r) : r[q] = u[q]
  <2>1. \A q \in 1..2 : q = 1 \/ q = 2
    OBVIOUS
  <2> QED BY <2>1, <1>4, <1>6
<1>8. r \in Seq(S) /\ Len(r) = Len(u)
  BY <1>4, <1>5, <1>6
<1>9. r = u
  BY <1>3, <1>7, <1>8, SameSeq
<1> QED BY <1>2, <1>9

(* Two and one,                                                            *)
LEMMA JoinTwoOne ==
  ASSUME NEW x, NEW y, NEW z
  PROVE  <<x, y>> \o <<z>> = <<x, y, z>>
<1>1. PICK S : S = {x, y, z}
  OBVIOUS
<1>2. PICK s, t, u, r : s = <<x, y>> /\ t = <<z>> /\ u = <<x, y, z>> /\ r = s \o t
  OBVIOUS
<1>3. s \in Seq(S) /\ t \in Seq(S) /\ u \in Seq(S)
  BY <1>1, <1>2
<1>4. /\ Len(s) = 2 /\ Len(t) = 1 /\ Len(u) = 3
      /\ s[1] = x /\ s[2] = y /\ t[1] = z
      /\ u[1] = x /\ u[2] = y /\ u[3] = z
  BY <1>2
<1>5. /\ r \in Seq(S) /\ Len(r) = Len(s) + Len(t)
      /\ \A q \in 1..Len(s) : r[q] = s[q]
      /\ \A q \in 1..Len(t) : r[Len(s) + q] = t[q]
  BY <1>2, <1>3, JoinIs
<1>6. Len(r) = 3 /\ r[1] = s[1] /\ r[2] = s[2] /\ r[2 + 1] = t[1]
  BY <1>4, <1>5
<1>7. \A q \in 1..Len(r) : r[q] = u[q]
  <2>1. \A q \in 1..3 : q = 1 \/ q = 2 \/ q = 3
    OBVIOUS
  <2> QED BY <2>1, <1>4, <1>6
<1>8. r \in Seq(S) /\ Len(r) = Len(u)
  BY <1>4, <1>5, <1>6
<1>9. r = u
  BY <1>3, <1>7, <1>8, SameSeq
<1> QED BY <1>2, <1>9

(* one and two,                                                            *)
LEMMA JoinOneTwo ==
  ASSUME NEW x, NEW z, NEW w
  PROVE  <<x>> \o <<z, w>> = <<x, z, w>>
<1>1. PICK S : S = {x, z, w}
  OBVIOUS
<1>2. PICK s, t, u, r : s = <<x>> /\ t = <<z, w>> /\ u = <<x, z, w>> /\ r = s \o t
  OBVIOUS
<1>3. s \in Seq(S) /\ t \in Seq(S) /\ u \in Seq(S)
  BY <1>1, <1>2
<1>4. /\ Len(s) = 1 /\ Len(t) = 2 /\ Len(u) = 3
      /\ s[1] = x /\ t[1] = z /\ t[2] = w
      /\ u[1] = x /\ u[2] = z /\ u[3] = w
  BY <1>2
<1>5. /\ r \in Seq(S) /\ Len(r) = Len(s) + Len(t)
      /\ \A q \in 1..Len(s) : r[q] = s[q]
      /\ \A q \in 1..Len(t) : r[Len(s) + q] = t[q]
  BY <1>2, <1>3, JoinIs
<1>6. Len(r) = 3 /\ r[1] = s[1] /\ r[1 + 1] = t[1] /\ r[1 + 2] = t[2]
  BY <1>4, <1>5
<1>7. \A q \in 1..Len(r) : r[q] = u[q]
  <2>1. \A q \in 1..3 : q = 1 \/ q = 2 \/ q = 3
    OBVIOUS
  <2> QED BY <2>1, <1>4, <1>6
<1>8. r \in Seq(S) /\ Len(r) = Len(u)
  BY <1>4, <1>5, <1>6
<1>9. r = u
  BY <1>3, <1>7, <1>8, SameSeq
<1> QED BY <1>2, <1>9

(* two and two.                                                            *)
LEMMA JoinTwoTwo ==
  ASSUME NEW x, NEW y, NEW z, NEW w
  PROVE  <<x, y>> \o <<z, w>> = <<x, y, z, w>>
<1>1. PICK S : S = {x, y, z, w}
  OBVIOUS
<1>2. PICK s, t, u, r : s = <<x, y>> /\ t = <<z, w>> /\ u = <<x, y, z, w>> /\ r = s \o t
  OBVIOUS
<1>3. s \in Seq(S) /\ t \in Seq(S) /\ u \in Seq(S)
  BY <1>1, <1>2
<1>4. /\ Len(s) = 2 /\ Len(t) = 2 /\ Len(u) = 4
      /\ s[1] = x /\ s[2] = y /\ t[1] = z /\ t[2] = w
      /\ u[1] = x /\ u[2] = y /\ u[3] = z /\ u[4] = w
  BY <1>2
<1>5. /\ r \in Seq(S) /\ Len(r) = Len(s) + Len(t)
      /\ \A q \in 1..Len(s) : r[q] = s[q]
      /\ \A q \in 1..Len(t) : r[Len(s) + q] = t[q]
  BY <1>2, <1>3, JoinIs
<1>6. Len(r) = 4 /\ r[1] = s[1] /\ r[2] = s[2] /\ r[2 + 1] = t[1] /\ r[2 + 2] = t[2]
  BY <1>4, <1>5
<1>7. \A q \in 1..Len(r) : r[q] = u[q]
  <2>1. \A q \in 1..4 : q = 1 \/ q = 2 \/ q = 3 \/ q = 4
    OBVIOUS
  <2> QED BY <2>1, <1>4, <1>6
<1>8. r \in Seq(S) /\ Len(r) = Len(u)
  BY <1>4, <1>5, <1>6
<1>9. r = u
  BY <1>3, <1>7, <1>8, SameSeq
<1> QED BY <1>2, <1>9

(* What is selected for a call with no, one or two arguments.              *)
LEMMA CallIs ==
  ASSUME NEW v, NEW x, NEW y
  PROVE  /\ SelectCall(v, << >>) =
              <<Inst("call", <<Use(RAX)>>), Inst("mov", <<Kill(RAX), Use(v)>>)>>
         /\ SelectCall(v, <<x>>) =
              <<Mov(x, ArgRegs[1]), Inst("call", <<Kill(ArgRegs[1]), Use(RAX)>>),
                Inst("mov", <<Kill(RAX), Use(v)>>)>>
         /\ SelectCall(v, <<x, y>>) =
              <<Mov(y, ArgRegs[2]), Mov(x, ArgRegs[1]),
                Inst("call", <<Kill(ArgRegs[2]), Kill(ArgRegs[1]), Use(RAX)>>),
                Inst("mov", <<Kill(RAX), Use(v)>>)>>
<1>1. PICK j : j = Inst("mov", <<Kill(RAX), Use(v)>>)
  OBVIOUS
<1>2. SelectCall(v, << >>) = <<Inst("call", <<Use(RAX)>>), j>>
  <2>1. /\ [i \in DOMAIN << >> |-> Mov(<< >>[i], ArgRegs[i])] = << >>
        /\ [i \in DOMAIN << >> |-> Kill(ArgRegs[i])] = << >>
    OBVIOUS
  <2>2. << >> \o <<Use(RAX)>> = <<Use(RAX)>>
    OBVIOUS
  <2>3. PICK c : c = Inst("call", <<Use(RAX)>>)
    OBVIOUS
  <2>4. << >> \o <<c, j>> = <<c, j>>
    OBVIOUS
  <2> QED BY <1>1, <2>1, <2>2, <2>3, <2>4, ReverseIs DEF SelectCall
<1>3. SelectCall(v, <<x>>) = <<Mov(x, ArgRegs[1]), Inst("call", <<Kill(ArgRegs[1]), Use(RAX)>>), j>>
  <2>1. PICK m, k : m = Mov(x, ArgRegs[1]) /\ k = Kill(ArgRegs[1])
    OBVIOUS
  <2>2. /\ [i \in DOMAIN <<x>> |-> Mov(<<x>>[i], ArgRegs[i])] = <<m>>
        /\ [i \in DOMAIN <<x>> |-> Kill(ArgRegs[i])] = <<k>>
    BY <2>1
  <2>3. <<k>> \o <<Use(RAX)>> = <<k, Use(RAX)>>
    BY JoinOneOne
  <2>4. PICK c : c = Inst("call", <<k, Use(RAX)>>)
    OBVIOUS
  <2>5. <<m>> \o <<c, j>> = <<m, c, j>>
    BY JoinOneTwo
  <2> QED BY <1>1, <2>1, <2>2, <2>3, <2>4, <2>5, ReverseIs DEF SelectCall
<1>4. SelectCall(v, <<x, y>>) = <<Mov(y, ArgRegs[2]), Mov(x, ArgRegs[1]),
                                  Inst("call", <<Kill(ArgRegs[2]), Kill(ArgRegs[1]), Use(RAX)>>), j>>
  <2>1. PICK m, k, n, l : /\ m = Mov(x, ArgRegs[1]) /\ k = Kill(ArgRegs[1])
                          /\ n = Mov(y, ArgRegs[2]) /\ l = Kill(ArgRegs[2])
    OBVIOUS
  <2>2. /\ [i \in DOMAIN <<x, y>> |-> Mov(<<x, y>>[i], ArgRegs[i])] = <<m, n>>
        /\ [i \in DOMAIN <<x, y>> |-> Kill(ArgRegs[i])] = <<k, l>>
    BY <2>1
  <2>3. <<l, k>> \o <<Use(RAX)>> = <<l, k, Use(RAX)>>
    BY JoinTwoOne
  <2>4. PICK c : c = Inst("call", <<l, k, Use(RAX)>>)
    OBVIOUS
  <2>5. <<n, m>> \o <<c, j>> = <<n, m, c, j>>
    BY JoinTwoTwo
  <2>6. Reverse(<<m, n>>) = <<n, m>> /\ Reverse(<<k, l>>) = <<l, k>>
    BY ReverseIs
  <2>7. SelectCall(v, <<x, y>>)
          = Reverse(<<m, n>>) \o <<Inst("call", Reverse(<<k, l>>) \o <<Use(RAX)>>), j>>
    BY <1>1, <2>2 DEF SelectCall
  <2>8. SelectCall(v, <<x, y>>) = <<n, m>> \o <<c, j>>
    BY <2>3, <2>4, <2>6, <2>7
  <2> QED BY <2>1, <2>4, <2>5, <2>8
<1> QED BY <1>1, <1>2, <1>3, <1>4

(* A call without arguments,                                               *)
LEMMA EmitCall0 ==
  ASSUME NEW o, NEW T, NEW v, Here(o, T, {}, v), NEW B,
         NEW e \in Seq(MachInst), e = Emit(SelectCall(v, << >>), "call0", v, << >>)
  PROVE  Selects(e, T, T \union {v}, o, B)
<1>1. PICK f, g : /\ f = Inst("call", <<Use(RAX)>>)
                  /\ g = Inst("mov", <<Kill(RAX), Use(v)>>)
  OBVIOUS
<1>2. SelectCall(v, << >>) = <<f, g>>
  BY <1>1, CallIs
<1>3. /\ f.op = "call" /\ f.regs = <<Use(RAX)>>
      /\ g.op = "mov" /\ g.regs = <<Kill(RAX), Use(v)>>
  BY <1>1 DEF Inst
<1>4. PICK ev : ev = Completes("call0", v, << >>)
  OBVIOUS
<1>5. e = Emit(<<f, g>>, "call0", v, << >>)
  BY <1>2
<1>6. /\ Len(e) = 2
      /\ Is(e[1], f.op, f.regs, None)
      /\ Is(e[2], g.op, g.regs, ev)
  BY <1>4, <1>5, EmitTwo
<1>7. PICK i, j : i = e[1] /\ j = e[2]
  OBVIOUS
<1>8. /\ Is(i, "call", <<Use(RAX)>>, None)
      /\ Is(j, "mov", <<Kill(RAX), Use(v)>>, ev)
  BY <1>3, <1>6, <1>7
<1>9. Len(e) = 2
  BY <1>6
<1> QED BY <1>4, <1>7, <1>8, <1>9, Call0Selects

(* with one,                                                               *)
LEMMA EmitCall1 ==
  ASSUME NEW o, NEW T, NEW x, NEW v, Here(o, T, {x}, v), NEW B,
         NEW e \in Seq(MachInst), e = Emit(SelectCall(v, <<x>>), "call1", v, <<x>>)
  PROVE  Selects(e, T \union {x}, T \union {v}, o, B)
<1>0. PICK A1 : A1 = ArgRegs[1]
  OBVIOUS
<1>1. PICK f, g, h : /\ f = Mov(x, A1)
                     /\ g = Inst("call", <<Kill(A1), Use(RAX)>>)
                     /\ h = Inst("mov", <<Kill(RAX), Use(v)>>)
  OBVIOUS
<1>2. SelectCall(v, <<x>>) = <<f, g, h>>
  BY <1>0, <1>1, CallIs
<1>3. /\ f.op = "mov" /\ f.regs = <<Use(x), Use(A1)>>
      /\ g.op = "call" /\ g.regs = <<Kill(A1), Use(RAX)>>
      /\ h.op = "mov" /\ h.regs = <<Kill(RAX), Use(v)>>
  BY <1>1 DEF Inst, Mov
<1>4. PICK ev : ev = Completes("call1", v, <<x>>)
  OBVIOUS
<1>5. e = Emit(<<f, g, h>>, "call1", v, <<x>>)
  BY <1>2
<1>6. /\ Len(e) = 3
      /\ Is(e[1], f.op, f.regs, None)
      /\ Is(e[2], g.op, g.regs, None)
      /\ Is(e[3], h.op, h.regs, ev)
  BY <1>4, <1>5, EmitThree
<1>7. PICK i, j, k : i = e[1] /\ j = e[2] /\ k = e[3]
  OBVIOUS
<1>8. /\ Is(i, "mov", <<Use(x), Use(A1)>>, None)
      /\ Is(j, "call", <<Kill(A1), Use(RAX)>>, None)
      /\ Is(k, "mov", <<Kill(RAX), Use(v)>>, ev)
  BY <1>3, <1>6, <1>7
<1>9. Len(e) = 3
  BY <1>6
<1> QED BY <1>0, <1>4, <1>7, <1>8, <1>9, Call1Selects

(* and with two.                                                           *)
LEMMA EmitCall2 ==
  ASSUME NEW o, NEW T, NEW x, NEW y, NEW v, Here(o, T, {x, y}, v), NEW B,
         NEW e \in Seq(MachInst), e = Emit(SelectCall(v, <<x, y>>), "call2", v, <<x, y>>)
  PROVE  Selects(e, T \union {x, y}, T \union {v}, o, B)
<1>0. PICK A1, A2 : A1 = ArgRegs[1] /\ A2 = ArgRegs[2]
  OBVIOUS
<1>1. PICK f, g, h, i : /\ f = Mov(y, A2)
                        /\ g = Mov(x, A1)
                        /\ h = Inst("call", <<Kill(A2), Kill(A1), Use(RAX)>>)
                        /\ i = Inst("mov", <<Kill(RAX), Use(v)>>)
  OBVIOUS
<1>2. SelectCall(v, <<x, y>>) = <<f, g, h, i>>
  BY <1>0, <1>1, CallIs
<1>3. /\ f.op = "mov" /\ f.regs = <<Use(y), Use(A2)>>
      /\ g.op = "mov" /\ g.regs = <<Use(x), Use(A1)>>
      /\ h.op = "call" /\ h.regs = <<Kill(A2), Kill(A1), Use(RAX)>>
      /\ i.op = "mov" /\ i.regs = <<Kill(RAX), Use(v)>>
  BY <1>1 DEF Inst, Mov
<1>4. PICK ev : ev = Completes("call2", v, <<x, y>>)
  OBVIOUS
<1>5. e = Emit(<<f, g, h, i>>, "call2", v, <<x, y>>)
  BY <1>2
<1>6. /\ Len(e) = 4
      /\ Is(e[1], f.op, f.regs, None)
      /\ Is(e[2], g.op, g.regs, None)
      /\ Is(e[3], h.op, h.regs, None)
      /\ Is(e[4], i.op, i.regs, ev)
  BY <1>4, <1>5, EmitFour
<1>7. PICK j, k, l, m : j = e[1] /\ k = e[2] /\ l = e[3] /\ m = e[4]
  OBVIOUS
<1>8. /\ Is(j, "mov", <<Use(y), Use(A2)>>, None)
      /\ Is(k, "mov", <<Use(x), Use(A1)>>, None)
      /\ Is(l, "call", <<Kill(A2), Kill(A1), Use(RAX)>>, None)
      /\ Is(m, "mov", <<Kill(RAX), Use(v)>>, ev)
  BY <1>3, <1>6, <1>7
<1>9. Len(e) = 4
  BY <1>6
<1> QED BY <1>0, <1>4, <1>7, <1>8, <1>9, Call2Selects
-----------------------------------------------------------------------------
(* An assignment,                                                          *)
LEMMA EmitStore ==
  ASSUME NEW o, NEW T, NEW p, NEW x, RAX \notin o, Live(T, o), Live({p, x}, o), NEW B,
         NEW e \in Seq(MachInst), e = Emit(SelectStore(p, x), "store", NoRegister, <<p, x>>)
  PROVE  Selects(e, T \union {p, x}, T \union {x}, o, B)
<1>1. PICK f : f = Inst("store", <<Use(x), Use(p)>>)
  OBVIOUS
<1>2. SelectStore(p, x) = <<f>>
  BY <1>1 DEF SelectStore
<1>3. f.op = "store" /\ f.regs = <<Use(x), Use(p)>>
  BY <1>1 DEF Inst
<1>4. PICK ev : ev = Completes("store", NoRegister, <<p, x>>)
  OBVIOUS
<1>5. e = Emit(<<f>>, "store", NoRegister, <<p, x>>)
  BY <1>2
<1>6. /\ Len(e) = 1
      /\ Is(e[1], f.op, f.regs, ev)
  BY <1>4, <1>5, EmitOne
<1>7. PICK i : i = e[1]
  OBVIOUS
<1>8. Is(i, "store", <<Use(x), Use(p)>>, ev)
  BY <1>3, <1>6, <1>7
<1>9. Len(e) = 1
  BY <1>6
<1> QED BY <1>4, <1>7, <1>8, <1>9, StoreSelects

(* the test of && and ||,                                                  *)
LEMMA EmitTest ==
  ASSUME NEW o, NEW T, NEW x, RAX \notin o, Live(T, o), Live({x}, o), NEW B,
         NEW e \in Seq(MachInst),
         e = Emit(<<Inst("test", <<Use(x)>>)>>, "test", NoRegister, <<x>>)
  PROVE  Selects(e, T \union {x}, T, o, B)
<1>1. PICK f : f = Inst("test", <<Use(x)>>)
  OBVIOUS
<1>3. f.op = "test" /\ f.regs = <<Use(x)>>
  BY <1>1 DEF Inst
<1>4. PICK ev : ev = Completes("test", NoRegister, <<x>>)
  OBVIOUS
<1>5. e = Emit(<<f>>, "test", NoRegister, <<x>>)
  BY <1>1
<1>6. /\ Len(e) = 1
      /\ Is(e[1], f.op, f.regs, ev)
  BY <1>4, <1>5, EmitOne
<1>7. PICK i : i = e[1]
  OBVIOUS
<1>8. Is(i, "test", <<Use(x)>>, ev)
  BY <1>3, <1>6, <1>7
<1>9. Len(e) = 1
  BY <1>6
<1> QED BY <1>4, <1>7, <1>8, <1>9, TestSelects

(* their constant,                                                         *)
LEMMA EmitConst ==
  ASSUME NEW o, NEW T, NEW v, Here(o, T, {}, v), NEW B, NEW kind \in {"true", "false"},
         NEW e \in Seq(MachInst), e = Emit(<<Inst("const", <<Use(v)>>)>>, kind, v, << >>)
  PROVE  Selects(e, T, T \union {v}, o, B)
<1>1. PICK f : f = Inst("const", <<Use(v)>>)
  OBVIOUS
<1>3. f.op = "const" /\ f.regs = <<Use(v)>>
  BY <1>1 DEF Inst
<1>4. PICK ev : ev = Completes(kind, v, << >>)
  OBVIOUS
<1>5. e = Emit(<<f>>, kind, v, << >>)
  BY <1>1
<1>6. /\ Len(e) = 1
      /\ Is(e[1], f.op, f.regs, ev)
  BY <1>4, <1>5, EmitOne
<1>7. PICK i : i = e[1]
  OBVIOUS
<1>8. Is(i, "const", <<Use(v)>>, ev)
  BY <1>3, <1>6, <1>7
<1>9. Len(e) = 1
  BY <1>6
<1> QED BY <1>4, <1>7, <1>8, <1>9, ConstSelects

(* the copy to the argument of their merge block,                          *)
LEMMA EmitCopy ==
  ASSUME NEW o, NEW T, NEW x, NEW v, Here(o, T, {x}, v), NEW B,
         NEW e \in Seq(MachInst), e = Emit(<<Mov(x, v)>>, "copy", v, <<x>>)
  PROVE  Selects(e, T \union {x}, T \union {v}, o, B)
<1>1. PICK f : f = Mov(x, v)
  OBVIOUS
<1>3. f.op = "mov" /\ f.regs = <<Use(x), Use(v)>>
  BY <1>1 DEF Inst, Mov
<1>4. PICK ev : ev = Completes("copy", v, <<x>>)
  OBVIOUS
<1>5. e = Emit(<<f>>, "copy", v, <<x>>)
  BY <1>1
<1>6. /\ Len(e) = 1
      /\ Is(e[1], f.op, f.regs, ev)
  BY <1>4, <1>5, EmitOne
<1>7. PICK i : i = e[1]
  OBVIOUS
<1>8. Is(i, "mov", <<Use(x), Use(v)>>, ev)
  BY <1>3, <1>6, <1>7
<1>9. Len(e) = 1
  BY <1>6
<1> QED BY <1>4, <1>7, <1>8, <1>9, CopySelects

(* and the return.                                                         *)
LEMMA EmitReturn ==
  ASSUME NEW o, NEW x, Live({x}, o), NEW B,
         NEW e \in Seq(MachInst), e = Emit(SelectReturn(x), "ret", NoRegister, <<x>>)
  PROVE  Returns(e, {x}, o, B)
<1>1. PICK f, g : f = Mov(x, RAX) /\ g = Inst("ret", <<Use(RAX)>>)
  OBVIOUS
<1>2. SelectReturn(x) = <<f, g>>
  BY <1>1 DEF SelectReturn
<1>3. /\ f.op = "mov" /\ f.regs = <<Use(x), Use(RAX)>>
      /\ g.op = "ret" /\ g.regs = <<Use(RAX)>>
  BY <1>1 DEF Inst, Mov
<1>4. PICK ev : ev = Completes("ret", NoRegister, <<x>>)
  OBVIOUS
<1>5. e = Emit(<<f, g>>, "ret", NoRegister, <<x>>)
  BY <1>2
<1>6. /\ Len(e) = 2
      /\ Is(e[1], f.op, f.regs, None)
      /\ Is(e[2], g.op, g.regs, ev)
  BY <1>4, <1>5, EmitTwo
<1>7. PICK i, j : i = e[1] /\ j = e[2]
  OBVIOUS
<1>8. /\ Is(i, "mov", <<Use(x), Use(RAX)>>, None)
      /\ Is(j, "ret", <<Use(RAX)>>, ev)
  BY <1>3, <1>6, <1>7
<1>9. Len(e) = 2
  BY <1>6
<1> QED BY <1>4, <1>7, <1>8, <1>9, ReturnGoes

-----------------------------------------------------------------------------
(* The operations without an operand,                                      *)
LEMMA KindsOfNone ==
  ASSUME NEW o, NEW T, NEW v, Here(o, T, {}, v), NEW B, NEW kind \in Kinds, Arity(kind) = 0,
         NEW e \in Seq(MachInst), e = Emit(Select(kind, v, << >>), kind, v, << >>)
  PROVE  Selects(e, T, T \union {v}, o, B)
<1>1. kind \in {"load", "call0"}
  BY DEF Kinds, Arity
<1>2. CASE kind = "load"
  <2>1. e = Emit(SelectLoad(v), "load", v, << >>)
    BY <1>2 DEF Select
  <2> QED BY <2>1, EmitLoad
<1>3. CASE kind = "call0"
  <2>1. e = Emit(SelectCall(v, << >>), "call0", v, << >>)
    BY <1>3 DEF Select
  <2> QED BY <2>1, EmitCall0
<1> QED BY <1>1, <1>2, <1>3

(* those with one,                                                         *)
LEMMA KindsOfOne ==
  ASSUME NEW o, NEW T, NEW x, NEW v, Here(o, T, {x}, v), NEW B, NEW kind \in Kinds,
         Arity(kind) = 1, NEW e \in Seq(MachInst), e = Emit(Select(kind, v, <<x>>), kind, v, <<x>>)
  PROVE  Selects(e, T \union {x}, T \union {v}, o, B)
<1>1. kind \in {"deref", "ineg", "call1"}
  BY DEF Kinds, Arity
<1>2. CASE kind = "deref"
  <2>1. e = Emit(SelectDeref(v, <<x>>), "deref", v, <<x>>)
    BY <1>2 DEF Select
  <2> QED BY <2>1, EmitDeref
<1>3. CASE kind = "ineg"
  <2>1. e = Emit(SelectNegate(v, <<x>>), "ineg", v, <<x>>)
    BY <1>3 DEF Select
  <2> QED BY <2>1, EmitNegate
<1>4. CASE kind = "call1"
  <2>1. e = Emit(SelectCall(v, <<x>>), "call1", v, <<x>>)
    BY <1>4 DEF Select
  <2> QED BY <2>1, EmitCall1
<1> QED BY <1>1, <1>2, <1>3, <1>4

(* and those with two.                                                     *)
LEMMA KindsOfTwo ==
  ASSUME NEW o, NEW T, NEW x, NEW y, NEW v, Here(o, T, {x, y}, v), NEW B, NEW kind \in Kinds,
         Arity(kind) = 2,
         NEW e \in Seq(MachInst), e = Emit(Select(kind, v, <<x, y>>), kind, v, <<x, y>>)
  PROVE  Selects(e, T \union {x, y}, T \union {v}, o, B)
<1>1. kind \in {"iadd", "isub", "imul", "shift", "less", "pwalk", "call2"} \union DivKinds
  BY DEF Kinds, Arity, DivKinds
<1>2. CASE kind = "iadd"
  <2>1. e = Emit(SelectIAdd(v, <<x, y>>), "iadd", v, <<x, y>>)
    BY <1>2 DEF Select
  <2> QED BY <2>1, EmitAdd
<1>3. CASE kind = "isub"
  <2>1. e = Emit(SelectISub(v, <<x, y>>), "isub", v, <<x, y>>)
    BY <1>3 DEF Select
  <2> QED BY <2>1, EmitSub
<1>4. CASE kind = "imul"
  <2>1. e = Emit(SelectIMul(v, <<x, y>>), "imul", v, <<x, y>>)
    BY <1>4 DEF Select
  <2> QED BY <2>1, EmitMul
<1>5. CASE kind = "shift"
  <2>1. e = Emit(SelectShift(v, <<x, y>>), "shift", v, <<x, y>>)
    BY <1>5 DEF Select
  <2> QED BY <2>1, EmitShift
<1>6. CASE kind = "less"
  <2>1. e = Emit(SelectComparison(v, <<x, y>>), "less", v, <<x, y>>)
    BY <1>6 DEF Select
  <2> QED BY <2>1, EmitLess
<1>7. CASE kind = "pwalk"
  <2>1. e = Emit(SelectPwalk(v, <<x, y>>), "pwalk", v, <<x, y>>)
    BY <1>7 DEF Select
  <2> QED BY <2>1, EmitPwalk
<1>8. CASE kind = "call2"
  <2>1. e = Emit(SelectCall(v, <<x, y>>), "call2", v, <<x, y>>)
    BY <1>8 DEF Select
  <2> QED BY <2>1, EmitCall2
<1>9. CASE kind \in DivKinds
  <2>1. Select(kind, v, <<x, y>>) = SelectDivision(kind, v, <<x, y>>)
    BY <1>9 DEF DivKinds, Select
  <2>2. e = Emit(SelectDivision(kind, v, <<x, y>>), kind, v, <<x, y>>)
    BY <2>1
  <2> QED BY <1>9, <2>2, EmitDivision
<1> QED BY <1>1, <1>2, <1>3, <1>4, <1>5, <1>6, <1>7, <1>8, <1>9

(* Every operation of the graph turns the values of its operands into the  *)
(* value it defines, whatever else is held.                                *)
LEMMA KindSelects ==
  ASSUME NEW o, NEW T, NEW v, NEW kind \in Kinds, NEW a \in Seq(Virtual), Len(a) = Arity(kind),
         NEW A, A = {a[n] : n \in DOMAIN a}, Here(o, T, A, v), NEW B,
         NEW e \in Seq(MachInst), e = Emit(Select(kind, v, a), kind, v, a)
  PROVE  Selects(e, T \union A, T \union {v}, o, B)
<1>1. /\ Len(a) = 0 => a = << >> /\ A = {}
      /\ Len(a) = 1 => a = <<a[1]>> /\ A = {a[1]}
      /\ Len(a) = 2 => a = <<a[1], a[2]>> /\ A = {a[1], a[2]}
  BY ShortIs
<1>2. Arity(kind) \in {0, 1, 2}
  BY DEF Arity
<1>3. CASE Arity(kind) = 0
  <2>1. a = << >> /\ A = {}
    BY <1>1, <1>3
  <2>2. Here(o, T, {}, v) /\ e = Emit(Select(kind, v, << >>), kind, v, << >>)
    BY <2>1
  <2>3. Selects(e, T, T \union {v}, o, B)
    BY <1>3, <2>2, KindsOfNone
  <2>4. T \union A = T
    BY <2>1
  <2> QED BY <2>3, <2>4
<1>4. CASE Arity(kind) = 1
  <2>1. PICK x : x = a[1]
    OBVIOUS
  <2>2. a = <<x>> /\ A = {x}
    BY <1>1, <1>4, <2>1
  <2>3. Here(o, T, {x}, v) /\ e = Emit(Select(kind, v, <<x>>), kind, v, <<x>>)
    BY <2>2
  <2>4. Selects(e, T \union {x}, T \union {v}, o, B)
    BY <1>4, <2>3, KindsOfOne
  <2> QED BY <2>2, <2>4
<1>5. CASE Arity(kind) = 2
  <2>1. PICK x, y : x = a[1] /\ y = a[2]
    OBVIOUS
  <2>2. a = <<x, y>> /\ A = {x, y}
    BY <1>1, <1>5, <2>1
  <2>3. Here(o, T, {x, y}, v) /\ e = Emit(Select(kind, v, <<x, y>>), kind, v, <<x, y>>)
    BY <2>2
  <2>4. Selects(e, T \union {x, y}, T \union {v}, o, B)
    BY <1>5, <2>3, KindsOfTwo
  <2> QED BY <2>2, <2>4
<1> QED BY <1>2, <1>3, <1>4, <1>5
-----------------------------------------------------------------------------
(* Code that is typed up to its end, where C[Len(c) + 1] holds.            *)
Sound(c, C, B) ==
  /\ C[1].held = {} /\ C[1].flags = {} /\ C[1].open = {}
  /\ \A p \in DOMAIN c :
       /\ Follow(c[p], C[p], C[p + 1], B)
       /\ First(c, p) => C[p].held \subseteq B[c[p].block] /\ C[p].flags = {}

Ends(c, Q, B) == \E D : Sound(c, D, B) /\ D[Len(c) + 1] = Q

(* A place after the first l of l + m.                                     *)
LEMMA OffsetIs ==
  ASSUME NEW p \in Int, NEW l \in Int, NEW m \in Int, p > l, p <= l + m
  PROVE  p - l \in Int /\ p = l + (p - l) /\ 1 <= p - l /\ p - l <= m
OBVIOUS

(* More of a block is put at the end of it.                                *)
LEMMA SoundJoin ==
  ASSUME NEW c \in Seq(MachInst), NEW C, NEW B, Sound(c, C, B), NEW P, P = C[Len(c) + 1],
         P.flags = {}, NEW b, (\A p \in DOMAIN c : c[p].block # b) => P.held \subseteq B[b],
         NEW e \in Seq(MachInst), \A q \in DOMAIN e : e[q].block = b, NEW Q, Goes(e, P, Q, B)
  PROVE  Ends(c \o e, Q, B)
<1>1. PICK E : /\ E[1] = P /\ E[Len(e) + 1] = Q
               /\ \A q \in DOMAIN e : Follow(e[q], E[q], E[q + 1], B)
  BY DEF Goes
<1>2. PICK l, m : l = Len(c) /\ m = Len(e) /\ l \in Nat /\ m \in Nat
  BY SMTT(30)
<1>3. PICK t : t = c \o e
  OBVIOUS
<1>4. /\ t \in Seq(MachInst) /\ Len(t) = l + m
      /\ \A q \in 1..l : t[q] = c[q]
      /\ \A q \in 1..m : t[l + q] = e[q]
  BY <1>2, <1>3, JoinIs
<1>5. DOMAIN t = 1..(l + m) /\ DOMAIN c = 1..l /\ DOMAIN e = 1..m
  BY <1>2, <1>4
<1>6. PICK D : D = [p \in 1..(l + m + 1) |-> IF p <= l THEN C[p] ELSE E[p - l]]
  OBVIOUS
<1>7. /\ \A p \in 1..(l + 1) : D[p] = C[p]
      /\ \A q \in 1..(m + 1) : D[l + q] = E[q]
  <2>1. D[l + 1] = E[1]
    <3>1. PICK k : k = l + 1
      OBVIOUS
    <3>2. k \in 1..(l + m + 1) /\ ~(k <= l) /\ k - l = 1
      BY <1>2, <3>1
    <3>3. D[k] = E[k - l]
      BY <1>6, <3>2
    <3> QED BY <3>1, <3>2, <3>3
  <2>2. E[1] = C[l + 1]
    BY <1>1, <1>2
  <2>3. \A p \in 1..l : D[p] = C[p]
    <3>1. \A p \in 1..l : p \in 1..(l + m + 1) /\ p <= l
      BY <1>2
    <3> QED BY <1>6, <3>1
  <2>5. ASSUME NEW q \in 1..(m + 1)
        PROVE  D[l + q] = E[q]
    <3>1. PICK k : k = l + q
      OBVIOUS
    <3>2. k \in 1..(l + m + 1) /\ (k <= l <=> FALSE) /\ k - l = q
      BY <1>2, <3>1
    <3>3. D[k] = E[k - l]
      BY <1>6, <3>2
    <3> QED BY <3>1, <3>2, <3>3
  <2>6. \A p \in 1..(l + 1) : p \in 1..l \/ p = l + 1
    BY <1>2
  <2> QED BY <2>1, <2>2, <2>3, <2>5, <2>6
<1>8. D[1].held = {} /\ D[1].flags = {} /\ D[1].open = {}
  <2>1. 1 \in 1..(l + 1)
    BY <1>2
  <2> QED BY <1>7, <2>1 DEF Sound
<1>9. D[Len(t) + 1] = Q
  <2>1. Len(t) + 1 = l + (m + 1) /\ m + 1 \in 1..(m + 1)
    BY <1>2, <1>4
  <2> QED BY <1>1, <1>2, <1>7, <2>1
<1>10. ASSUME NEW p \in DOMAIN t
       PROVE  /\ Follow(t[p], D[p], D[p + 1], B)
              /\ First(t, p) => D[p].held \subseteq B[t[p].block] /\ D[p].flags = {}
  <2>1. CASE p \in 1..l
    <3>1. t[p] = c[p] /\ D[p] = C[p] /\ D[p + 1] = C[p + 1]
      <4>1. p \in 1..(l + 1) /\ p + 1 \in 1..(l + 1)
        BY <1>2, <2>1
      <4> QED BY <1>4, <1>7, <2>1, <4>1
    <3>2. First(t, p) => First(c, p)
      <4>1. \A q \in 1..(p - 1) : q \in 1..l
        BY <1>2, <2>1
      <4> QED BY <1>4, <2>1, <4>1 DEF First
    <3> QED BY <1>5, <2>1, <3>1, <3>2 DEF Sound
  <2>2. CASE p \notin 1..l
    <3>1. PICK q : q = p - l
      OBVIOUS
    <3>6. p \in 1..(l + m)
      BY <1>5
    <3>7. ~(p <= l)
      BY <1>2, <2>2, <3>6
    <3>2. q \in 1..m /\ p = l + q /\ p + 1 = l + (q + 1) /\ q \in 1..(m + 1) /\ q + 1 \in 1..(m + 1)
      <4>1. p \in Int /\ l \in Int /\ m \in Int /\ 0 <= l /\ 0 <= m
        BY <1>2, <3>6
      <4>2. p <= l + m /\ p > l
        BY <1>2, <3>6, <3>7, <4>1
      <4>3. q \in Int /\ p = l + q /\ 1 <= q /\ q <= m
        <5>1. p - l \in Int /\ p = l + (p - l) /\ 1 <= p - l /\ p - l <= m
          BY <4>1, <4>2, OffsetIs
        <5> QED BY <3>1, <5>1
      <4> QED BY <4>1, <4>3
    <3>3. t[p] = e[q] /\ D[p] = E[q] /\ D[p + 1] = E[q + 1]
      <4>1. t[l + q] = e[q]
        BY <1>4, <3>2
      <4>2. D[l + q] = E[q]
        BY <1>7, <3>2
      <4>3. D[l + (q + 1)] = E[q + 1]
        BY <1>7, <3>2
      <4> QED BY <3>2, <4>1, <4>2, <4>3
    <3>4. Follow(t[p], D[p], D[p + 1], B)
      BY <1>1, <1>5, <3>2, <3>3
    <3>5. ASSUME First(t, p)
          PROVE  D[p].held \subseteq B[t[p].block] /\ D[p].flags = {}
      <4>1. t[p].block = b
        BY <1>5, <3>2, <3>3
      <4>2. q = 1
        <5>1. SUFFICES ASSUME q # 1 PROVE FALSE
          OBVIOUS
        <5>2. l + 1 \in 1..(p - 1) /\ 1 \in 1..m
          BY <1>2, <3>2, <5>1
        <5>3. t[l + 1] = e[1] /\ e[1].block = b
          BY <1>4, <1>5, <5>2
        <5> QED BY <3>5, <4>1, <5>2, <5>3 DEF First
      <4>3. \A n \in DOMAIN c : c[n].block # b
        <5>1. \A n \in 1..l : n \in 1..(p - 1)
          BY <1>2, <3>2
        <5> QED BY <1>4, <1>5, <3>5, <4>1, <5>1 DEF First
      <4>4. D[p] = P
        BY <1>1, <3>3, <4>2
      <4> QED BY <4>1, <4>3, <4>4
    <3> QED BY <3>4, <3>5
  <2> QED BY <2>1, <2>2
<1>11. Sound(t, D, B)
  BY <1>8, <1>10 DEF Sound
<1> QED BY <1>3, <1>9, <1>11 DEF Ends

(* Facts are given up at the end.                                          *)
LEMMA FollowLess ==
  ASSUME NEW i, NEW C, NEW D, NEW B, Follow(i, C, D, B), NEW E, E.open = D.open,
         E.held \subseteq D.held, E.flags \subseteq D.flags
  PROVE  Follow(i, C, E, B)
<1>1. Moves(i, C, D, Unkilled(i, C.open)) => Moves(i, C, E, Unkilled(i, C.open))
  BY DEF Moves
<1> QED BY <1>1 DEF Follow

(* The same of the code as a whole.                                        *)
LEMMA SoundLess ==
  ASSUME NEW c \in Seq(MachInst), NEW C, NEW B, Sound(c, C, B), NEW P, P = C[Len(c) + 1],
         NEW Q, Q.open = P.open, Q.held \subseteq P.held, Q.flags \subseteq P.flags
  PROVE  Ends(c, Q, B)
<1>1. PICK l : l = Len(c) /\ l \in Nat
  OBVIOUS
<1>2. PICK D : D = [p \in 1..(l + 1) |-> IF p = l + 1 THEN Q ELSE C[p]]
  OBVIOUS
<1>3. D[l + 1] = Q /\ \A p \in 1..l : D[p] = C[p]
  <2>1. l + 1 \in 1..(l + 1) /\ \A p \in 1..l : p \in 1..(l + 1) /\ p # l + 1
    BY <1>1
  <2> QED BY <1>2, <2>1
<1>4. DOMAIN c = 1..l
  BY <1>1
<1>5. D[1].held = {} /\ D[1].flags = {} /\ D[1].open = {}
  <2>1. CASE l = 0
    <3>1. D[1] = Q /\ P = C[1]
      BY <1>1, <1>3, <2>1
    <3> QED BY <3>1 DEF Sound
  <2>2. CASE l # 0
    <3>1. 1 \in 1..l
      BY <1>1, <2>2
    <3> QED BY <1>3, <3>1 DEF Sound
  <2> QED BY <2>1, <2>2
<1>6. ASSUME NEW p \in DOMAIN c
      PROVE  /\ Follow(c[p], D[p], D[p + 1], B)
             /\ First(c, p) => D[p].held \subseteq B[c[p].block] /\ D[p].flags = {}
  <2>1. D[p] = C[p]
    BY <1>3, <1>4
  <2>2. Follow(c[p], C[p], C[p + 1], B)
    BY DEF Sound
  <2>3. Follow(c[p], C[p], D[p + 1], B)
    <3>1. CASE p = l
      <4>1. D[p + 1] = Q /\ C[p + 1] = P
        BY <1>1, <1>3, <3>1
      <4> QED BY <2>2, <4>1, FollowLess
    <3>2. CASE p # l
      <4>1. p + 1 \in 1..l
        BY <1>1, <1>4, <3>2
      <4> QED BY <1>3, <2>2, <4>1
    <3> QED BY <3>1, <3>2
  <2> QED BY <2>1, <2>3 DEF Sound
<1>7. Sound(c, D, B)
  BY <1>5, <1>6 DEF Sound
<1> QED BY <1>1, <1>3, <1>7 DEF Ends

(* What blocks of which there is no code yet hold makes no difference.     *)
LEMMA SoundRebind ==
  ASSUME NEW c, NEW C, NEW B, Sound(c, C, B), NEW B2,
         \A p \in DOMAIN c : /\ B2[c[p].block] = B[c[p].block]
                             /\ c[p].op \in {"jmp", "jne"} => B2[c[p].target] = B[c[p].target]
  PROVE  Sound(c, C, B2)
<1>1. ASSUME NEW p \in DOMAIN c, Follow(c[p], C[p], C[p + 1], B)
      PROVE  Follow(c[p], C[p], C[p + 1], B2)
  BY <1>1 DEF Follow
<1> QED BY <1>1 DEF Sound

(* A jump ends the block: what its target is to hold is held here.         *)
LEMMA JumpFollows ==
  ASSUME NEW i \in MachInst, i.op = "jmp", i.regs = << >>, i.eval.kind = "none",
         NEW P, NEW B, B[i.target] \subseteq P.held, NEW Q, Q.open = Opens(i, P.open)
  PROVE  Follow(i, P, Q, B)
<1>1. Written(i) = {}
  BY DEF Written
<1> QED BY <1>1 DEF Follow

(* Nothing is opened or killed by an instruction without operands.         *)
LEMMA NoOperands ==
  ASSUME NEW i \in MachInst, i.regs = << >>, NEW o, NEW T, Live(T, o), NEW o0, Grows(o0, o)
  PROVE  Live(T, Opens(i, o)) /\ Grows(o0, Opens(i, o))
<1>1. ~Occurs(i, RAX)
  BY DEF Occurs
<1> QED BY <1>1, LiveOn, GrowsOn

(* A conditional jump that is not taken goes on with what was held.        *)
LEMMA BranchFollows ==
  ASSUME NEW i \in MachInst, i.op = "jne", i.regs = << >>, i.eval = None,
         NEW T, NEW o, Live(T, o), NEW B, B[i.target] \subseteq Vals(T)
  PROVE  Follow(i, St(Vals(T), {}, o), St(Vals(T), {}, Opens(i, o)), B)
<1>1. PICK P : P = St(Vals(T), {}, o)
  OBVIOUS
<1>2. P.held = Vals(T) /\ P.open = o
  BY <1>1 DEF St
<1>3. i.eval.kind = "none" /\ i.eval.value = NoRegister
  BY DEF None
<1>4. Live(T, P.open) /\ Vals(T) \subseteq P.held /\ B[i.target] \subseteq P.held
  BY <1>2
<1>5. PICK fl : fl = {}
  OBVIOUS
<1>6. Follow(i, P, St(Vals(T), fl, Opens(i, P.open)), B)
  <2>1. \A f \in fl : /\ i.op = "cmp" /\ i.eval.kind = "none"
                      /\ \E u, w : f = <<u, w>> /\ Reads(P, i, 1, Val(u)) /\ Reads(P, i, 2, Val(w))
    BY <1>5
  <2> QED BY <1>3, <1>4, <2>1, KeepStep
<1> QED BY <1>1, <1>2, <1>5, <1>6
-----------------------------------------------------------------------------
(* The values on the stack and those the merge blocks take are registers   *)
(* made so far, all different; no && or || starts above the stack.         *)
NamesOk(tm, us, ops) ==
  /\ us \in Nat /\ us <= Len(Values)
  /\ \A j \in DOMAIN tm : \E k \in 1..us : tm[j] = Values[k]
  /\ \A j \in DOMAIN ops : \E k \in 1..us : ops[j].arg = Values[k]
  /\ \A i, j \in DOMAIN tm : tm[i] = tm[j] => i = j
  /\ \A j \in DOMAIN ops : \A n \in DOMAIN tm : tm[n] # ops[j].arg
  /\ \A i, j \in DOMAIN ops : ops[i].arg = ops[j].arg => i = j
  /\ \A j \in DOMAIN ops : ops[j].base <= Len(tm)
  /\ \A i, j \in DOMAIN ops : i < j => ops[i].base <= ops[j].base

Waiting == [arg : Virtual, merge : Nat, base : Nat]

(* The values of which there are registers.                                *)
LEMMA ValuesAre ==
  /\ Values \in Seq(Virtual) /\ Len(Values) \in Nat
  /\ \A k \in 1..Len(Values) : Values[k] \in Virtual
  /\ \A k, n \in 1..Len(Values) : Values[k] = Values[n] => k = n
BY BackendAssumption DEF IsInjective

(* The lower part of the stack, if all that waits is below its top;        *)
LEMMA NamesCut ==
  ASSUME NEW tm \in Seq(Virtual), NEW us, NEW ops \in Seq(Waiting), NamesOk(tm, us, ops),
         NEW r \in Seq(Virtual), Len(r) <= Len(tm), \A j \in 1..Len(r) : r[j] = tm[j],
         \A k \in DOMAIN ops : ops[k].base <= Len(r)
  PROVE  NamesOk(r, us, ops)
<1>1. DOMAIN r = 1..Len(r) /\ DOMAIN tm = 1..Len(tm) /\ Len(r) \in Nat /\ Len(tm) \in Nat
  OBVIOUS
<1>2. \A j \in DOMAIN r : j \in DOMAIN tm /\ r[j] = tm[j]
  BY <1>1
<1> QED BY <1>2 DEF NamesOk

(* with another value on top of it;                                        *)
LEMMA NamesPut ==
  ASSUME NEW r \in Seq(Virtual), NEW us, NEW ops \in Seq(Waiting), NamesOk(r, us, ops),
         NEW n \in Nat, us <= n, n <= Len(Values), NEW v, \E k \in 1..n : v = Values[k],
         \A j \in DOMAIN r : r[j] # v, \A j \in DOMAIN ops : ops[j].arg # v
  PROVE  NamesOk(Append(r, v), n, ops)
<1>1. PICK l : l = Len(r) /\ l \in Nat
  OBVIOUS
<1>2. v \in Virtual
  BY ValuesAre
<1>3. PICK t : t = Append(r, v)
  OBVIOUS
<1>4. DOMAIN r = 1..l /\ DOMAIN t = 1..(l + 1) /\ Len(t) = l + 1 /\ t[l + 1] = v
      /\ \A j \in 1..l : t[j] = r[j]
  BY <1>1, <1>2, <1>3
<1>5. \A j \in DOMAIN t : j = l + 1 \/ j \in DOMAIN r
  BY <1>1, <1>4
<1>6. us \in Nat /\ \A k \in 1..us : k \in 1..n
  BY DEF NamesOk
<1>7. n \in Nat /\ n <= Len(Values)
  OBVIOUS
<1>8. \A j \in DOMAIN t : \E k \in 1..n : t[j] = Values[k]
  <2>1. \A j \in DOMAIN r : \E k \in 1..n : r[j] = Values[k]
    BY <1>6 DEF NamesOk
  <2> QED BY <1>4, <1>5, <2>1
<1>9. \A j \in DOMAIN ops : \E k \in 1..n : ops[j].arg = Values[k]
  BY <1>6 DEF NamesOk
<1>10. \A i, j \in DOMAIN t : t[i] = t[j] => i = j
  <2>1. \A i, j \in DOMAIN r : r[i] = r[j] => i = j
    BY DEF NamesOk
  <2> QED BY <1>4, <1>5, <2>1
<1>11. \A j \in DOMAIN ops : \A m \in DOMAIN t : t[m] # ops[j].arg
  <2>1. \A j \in DOMAIN ops : \A m \in DOMAIN r : r[m] # ops[j].arg
    BY DEF NamesOk
  <2> QED BY <1>4, <1>5, <2>1
<1>12. \A j \in DOMAIN ops : ops[j].base <= Len(t)
  <2>1. \A j \in DOMAIN ops : ops[j].base <= l
    BY <1>1 DEF NamesOk
  <2>2. \A j \in DOMAIN ops : ops[j].base \in Nat
    <3>1. \A j \in DOMAIN ops : ops[j] \in Waiting
      OBVIOUS
    <3> QED BY <3>1 DEF Waiting
  <2>3. \A x \in Nat : x <= l => x <= l + 1
    BY <1>1
  <2> QED BY <1>4, <2>1, <2>2, <2>3
<1>13. NamesOk(t, n, ops)
  BY <1>7, <1>8, <1>9, <1>10, <1>11, <1>12 DEF NamesOk
<1> QED BY <1>3, <1>13

(* with a new value;                                                       *)
LEMMA NamesNew ==
  ASSUME NEW r, NEW us, NEW ops, NamesOk(r, us, ops),
         us < Len(Values), NEW v, v = Values[us + 1]
  PROVE  /\ us + 1 \in Nat /\ us <= us + 1 /\ us + 1 <= Len(Values)
         /\ \E k \in 1..(us + 1) : v = Values[k]
         /\ v \in Virtual
         /\ \A j \in DOMAIN r : r[j] # v
         /\ \A j \in DOMAIN ops : ops[j].arg # v
<1>1. us \in Nat
  BY DEF NamesOk
<1>2. us + 1 \in 1..Len(Values) /\ us + 1 \in 1..(us + 1)
  BY <1>1, ValuesAre
<1>3. \A k \in 1..us : k \in 1..Len(Values) /\ k # us + 1
  BY <1>1, ValuesAre
<1>4. \A k \in 1..us : Values[k] # v
  BY <1>2, <1>3, ValuesAre
<1>5. v \in Virtual
  BY <1>2, ValuesAre
<1>6. us + 1 \in Nat /\ us <= us + 1 /\ us + 1 <= Len(Values)
  BY <1>1, ValuesAre
<1>7. \E k \in 1..(us + 1) : v = Values[k]
  BY <1>2
<1>8. \A j \in DOMAIN r : r[j] # v
  BY <1>4 DEF NamesOk
<1>9. \A j \in DOMAIN ops : ops[j].arg # v
  BY <1>4 DEF NamesOk
<1> QED BY <1>5, <1>6, <1>7, <1>8, <1>9

(* with a new value that one more merge block waits for;                   *)
LEMMA NamesOpen ==
  ASSUME NEW r \in Seq(Virtual), NEW us, NEW ops \in Seq(Waiting), NamesOk(r, us, ops),
         us < Len(Values), NEW top \in Waiting, top.arg = Values[us + 1], top.base = Len(r)
  PROVE  NamesOk(r, us + 1, Append(ops, top))
<1>1. PICK v : v = top.arg
  OBVIOUS
<1>2. /\ us + 1 \in Nat /\ us <= us + 1 /\ us + 1 <= Len(Values)
      /\ \E k \in 1..(us + 1) : v = Values[k]
      /\ \A j \in DOMAIN r : r[j] # v
      /\ \A j \in DOMAIN ops : ops[j].arg # v
  BY <1>1, NamesNew
<1>3. PICK l : l = Len(ops) /\ l \in Nat
  OBVIOUS
<1>4. PICK t : t = Append(ops, top)
  OBVIOUS
<1>5. DOMAIN ops = 1..l /\ DOMAIN t = 1..(l + 1) /\ t[l + 1] = top
      /\ \A j \in 1..l : t[j] = ops[j]
  BY <1>3, <1>4
<1>6. \A j \in DOMAIN t : j = l + 1 \/ j \in DOMAIN ops
  BY <1>3, <1>5
<1>7. us \in Nat /\ \A k \in 1..us : k \in 1..(us + 1)
  BY DEF NamesOk
<1>8. \A j \in DOMAIN r : \E k \in 1..(us + 1) : r[j] = Values[k]
  BY <1>7 DEF NamesOk
<1>9. \A j \in DOMAIN t : \E k \in 1..(us + 1) : t[j].arg = Values[k]
  <2>1. \A j \in DOMAIN ops : \E k \in 1..(us + 1) : ops[j].arg = Values[k]
    BY <1>7 DEF NamesOk
  <2> QED BY <1>1, <1>2, <1>5, <1>6, <2>1
<1>10. \A i, j \in DOMAIN r : r[i] = r[j] => i = j
  BY DEF NamesOk
<1>11. \A j \in DOMAIN t : \A n \in DOMAIN r : r[n] # t[j].arg
  <2>1. \A j \in DOMAIN ops : \A n \in DOMAIN r : r[n] # ops[j].arg
    BY DEF NamesOk
  <2> QED BY <1>1, <1>2, <1>5, <1>6, <2>1
<1>12. \A i, j \in DOMAIN t : t[i].arg = t[j].arg => i = j
  <2>1. \A i, j \in DOMAIN ops : ops[i].arg = ops[j].arg => i = j
    BY DEF NamesOk
  <2> QED BY <1>1, <1>2, <1>5, <1>6, <2>1
<1>13. \A j \in DOMAIN t : t[j].base <= Len(r)
  <2>1. \A j \in DOMAIN ops : ops[j].base <= Len(r)
    BY DEF NamesOk
  <2>2. top.base <= Len(r)
    OBVIOUS
  <2> QED BY <1>5, <1>6, <2>1, <2>2
<1>14. \A i, j \in DOMAIN t : i < j => t[i].base <= t[j].base
  <2>1. \A i, j \in DOMAIN ops : i < j => ops[i].base <= ops[j].base
    BY DEF NamesOk
  <2>2. \A i \in DOMAIN ops : ops[i].base <= top.base
    BY DEF NamesOk
  <2>3. \A i, j \in DOMAIN t : i < j => i \in DOMAIN ops /\ (j \in DOMAIN ops \/ j = l + 1)
    BY <1>3, <1>5
  <2> QED BY <1>5, <2>1, <2>2, <2>3
<1>15. NamesOk(r, us + 1, t)
  BY <1>2, <1>8, <1>9, <1>10, <1>11, <1>12, <1>13, <1>14 DEF NamesOk
<1> QED BY <1>4, <1>15

(* What is known of the && or || that ends, and of the ones it is in.      *)
Closed(tm, us, ops, top, f) ==
  /\ NamesOk(tm, us, f)
  /\ f \in Seq(Waiting) /\ top \in Waiting
  /\ \A q \in DOMAIN f : q \in DOMAIN ops /\ f[q] = ops[q]
  /\ \A q \in DOMAIN f : f[q].base <= top.base /\ f[q].arg # top.arg
  /\ \E n \in DOMAIN ops : n \notin DOMAIN f /\ top = ops[n]

(* without the last that waits.                                            *)
LEMMA NamesClose ==
  ASSUME NEW tm \in Seq(Virtual), NEW us, NEW ops \in Seq(Waiting), NamesOk(tm, us, ops),
         ops # << >>, NEW top, top = Last(ops), NEW f, f = Front(ops)
  PROVE  Closed(tm, us, ops, top, f)
<1>1. PICK l : l = Len(ops) /\ l \in Nat /\ l >= 1
  OBVIOUS
<1>2. f \in Seq(Waiting) /\ Len(f) = l - 1 /\ top = ops[l]
  BY <1>1, FrontIs DEF Last
<1>3. \A j \in 1..(l - 1) : f[j] = ops[j]
  BY <1>1 DEF Front
<1>4. DOMAIN ops = 1..l /\ DOMAIN f = 1..(l - 1)
  BY <1>1, <1>2
<1>5. l \in DOMAIN ops /\ l \notin DOMAIN f
  BY <1>1, <1>4
<1>6. \A j \in DOMAIN f : j \in DOMAIN ops /\ f[j] = ops[j] /\ j < l
  BY <1>1, <1>3, <1>4
<1>7. NamesOk(tm, us, f)
  <2>1. /\ us \in Nat /\ us <= Len(Values)
        /\ \A j \in DOMAIN tm : \E k \in 1..us : tm[j] = Values[k]
        /\ \A i, j \in DOMAIN tm : tm[i] = tm[j] => i = j
    BY DEF NamesOk
  <2>2. \A j \in DOMAIN f : \E k \in 1..us : f[j].arg = Values[k]
    BY <1>6 DEF NamesOk
  <2>3. \A j \in DOMAIN f : \A n \in DOMAIN tm : tm[n] # f[j].arg
    BY <1>6 DEF NamesOk
  <2>4. \A i, j \in DOMAIN f : f[i].arg = f[j].arg => i = j
    BY <1>6 DEF NamesOk
  <2>5. \A j \in DOMAIN f : f[j].base <= Len(tm)
    BY <1>6 DEF NamesOk
  <2>6. \A i, j \in DOMAIN f : i < j => f[i].base <= f[j].base
    BY <1>6 DEF NamesOk
  <2> QED BY <2>1, <2>2, <2>3, <2>4, <2>5, <2>6 DEF NamesOk
<1>8. top \in Waiting
  BY <1>2, <1>5
<1>9. \A j \in DOMAIN f : f[j].base <= top.base /\ f[j].arg # top.arg
  <2>1. \A j \in DOMAIN f : j # l
    BY <1>5
  <2> QED BY <1>2, <1>5, <1>6, <2>1 DEF NamesOk
<1> QED BY <1>2, <1>5, <1>6, <1>7, <1>8, <1>9 DEF Closed
-----------------------------------------------------------------------------
(* The code is in the blocks made so far, but none of it where && and ||   *)
(* merge; jumps go to blocks that are begun later.                         *)
BlocksOk(c, ops, b, n) ==
  /\ n \in Nat /\ b \in 1..n
  /\ \A p \in DOMAIN c : /\ c[p].block \in 1..n
                         /\ c[p].op \in {"jmp", "jne"} => c[p].target \in 1..n
  /\ \A k \in DOMAIN ops : /\ ops[k].merge \in 1..n /\ ops[k].merge # b
                           /\ \A p \in DOMAIN c : c[p].block # ops[k].merge
  /\ \A i, j \in DOMAIN ops : ops[i].merge = ops[j].merge => i = j
  /\ Forward(c)

(* Code at the end of block b that jumps to blocks without code.           *)
LEMMA ForwardJoin ==
  ASSUME NEW c \in Seq(MachInst), Forward(c), NEW b, NEW to, NEW e, Fresh(e, b, to),
         b \notin to, \A p \in DOMAIN c : c[p].block \notin to
  PROVE  Forward(c \o e)
<1>0. e \in Seq(MachInst)
  BY DEF Fresh
<1>6. Len(c) \in Nat /\ Len(e) \in Nat
  BY <1>0
<1>1. PICK l, m : l = Len(c) /\ m = Len(e) /\ l \in Nat /\ m \in Nat
  BY <1>6
<1>2. PICK t : t = c \o e
  OBVIOUS
<1>3. /\ t \in Seq(MachInst) /\ Len(t) = l + m
      /\ \A q \in 1..l : t[q] = c[q]
      /\ \A q \in 1..m : t[l + q] = e[q]
  BY <1>1, <1>2, JoinIs DEF Fresh
<1>4. DOMAIN c = 1..l /\ DOMAIN e = 1..m /\ DOMAIN t = 1..(l + m)
  BY <1>1, <1>3 DEF Fresh
<1>5. ASSUME NEW p \in 1..(l + m), p \notin 1..l
      PROVE  \E q \in DOMAIN e : t[p] = e[q]
  <2>1. p \in Int /\ p > l /\ p <= l + m
    BY <1>1, <1>5
  <2>2. p = l + (p - l) /\ p - l \in 1..m
    BY <1>1, <2>1, OffsetIs
  <2>3. PICK q : q = p - l
    OBVIOUS
  <2>4. t[l + q] = e[q]
    BY <1>3, <2>2, <2>3
  <2> QED BY <1>4, <2>2, <2>3, <2>4
<1>7. ASSUME NEW p \in DOMAIN t, t[p].op \in {"jmp", "jne"}, NEW q \in 1..p
      PROVE  t[q].block # t[p].target
  <2>1. p \in 1..(l + m) /\ q \in 1..(l + m)
    BY <1>1, <1>4
  <2>2. CASE p \in 1..l
    <3>1. q \in 1..l
      BY <1>1, <2>2
    <3>2. t[p] = c[p] /\ t[q] = c[q]
      BY <1>3, <2>2, <3>1
    <3> QED BY <1>4, <1>7, <2>2, <3>2 DEF Forward
  <2>3. CASE p \notin 1..l
    <3>1. PICK k \in DOMAIN e : t[p] = e[k]
      BY <1>5, <2>1, <2>3
    <3>2. t[p].target \in to
      BY <1>7, <3>1 DEF Fresh
    <3>3. CASE q \in 1..l
      BY <1>3, <1>4, <3>2, <3>3
    <3>4. CASE q \notin 1..l
      <4>1. PICK j \in DOMAIN e : t[q] = e[j]
        BY <1>5, <2>1, <3>4
      <4>2. t[q].block = b
        BY <4>1 DEF Fresh
      <4> QED BY <3>2, <4>2
    <3> QED BY <3>3, <3>4
  <2> QED BY <2>2, <2>3
<1> QED BY <1>2, <1>7 DEF Forward

(* The blocks and the jumps of the code with more of block b at its end.   *)
LEMMA BlocksOf ==
  ASSUME NEW c \in Seq(MachInst), NEW b, NEW to, NEW e, Fresh(e, b, to)
  PROVE  \A p \in DOMAIN (c \o e) :
           \/ \E q \in DOMAIN c : (c \o e)[p] = c[q]
           \/ /\ (c \o e)[p].block = b
              /\ (c \o e)[p].op \in {"jmp", "jne"} => (c \o e)[p].target \in to
<1>1. e \in Seq(MachInst)
  BY DEF Fresh
<1>2. \A q \in DOMAIN (c \o e) : \/ \E r \in DOMAIN c : (c \o e)[q] = c[r]
                                 \/ \E r \in DOMAIN e : (c \o e)[q] = e[r]
  BY <1>1, JoinElements
<1>3. \A r \in DOMAIN e : e[r].block = b /\ (e[r].op \in {"jmp", "jne"} => e[r].target \in to)
  BY DEF Fresh
<1> QED BY <1>2, <1>3

(* More of the block,                                                      *)
LEMMA BlocksGrow ==
  ASSUME NEW c \in Seq(MachInst), NEW ops, NEW b, NEW n, BlocksOk(c, ops, b, n),
         NEW e, Fresh(e, b, {})
  PROVE  BlocksOk(c \o e, ops, b, n)
<1>1. PICK t : t = c \o e
  OBVIOUS
<1>2. \A p \in DOMAIN t : \/ \E q \in DOMAIN c : t[p] = c[q]
                          \/ t[p].block = b /\ t[p].op \notin {"jmp", "jne"}
  BY <1>1, BlocksOf
<1>3. Forward(t)
  <2>1. PICK to : to = {}
    OBVIOUS
  <2>2. Fresh(e, b, to) /\ b \notin to /\ \A p \in DOMAIN c : c[p].block \notin to
    BY <2>1
  <2> QED BY <1>1, <2>2, ForwardJoin DEF BlocksOk
<1>4. n \in Nat /\ b \in 1..n
  BY DEF BlocksOk
<1>5. \A p \in DOMAIN t : /\ t[p].block \in 1..n
                          /\ t[p].op \in {"jmp", "jne"} => t[p].target \in 1..n
  BY <1>2, <1>4 DEF BlocksOk
<1>6. \A k \in DOMAIN ops : /\ ops[k].merge \in 1..n /\ ops[k].merge # b
                            /\ \A p \in DOMAIN t : t[p].block # ops[k].merge
  BY <1>2 DEF BlocksOk
<1>7. \A i, j \in DOMAIN ops : ops[i].merge = ops[j].merge => i = j
  BY DEF BlocksOk
<1>8. BlocksOk(t, ops, b, n)
  BY <1>3, <1>4, <1>5, <1>6, <1>7 DEF BlocksOk
<1> QED BY <1>1, <1>8

(* the two blocks of && and ||,                                            *)
LEMMA BlocksOpen ==
  ASSUME NEW c \in Seq(MachInst), NEW ops \in Seq(Waiting), NEW b, NEW n, BlocksOk(c, ops, b, n),
         NEW e, Fresh(e, b, {n + 1, n + 2}), NEW top, top.merge = n + 2, top \in Waiting
  PROVE  BlocksOk(c \o e, Append(ops, top), n + 1, n + 2)
<1>1. PICK t, to, w : t = c \o e /\ to = {n + 1, n + 2} /\ w = Append(ops, top)
  OBVIOUS
<1>2. n \in Nat /\ b \in 1..n
  BY DEF BlocksOk
<1>3. \A x \in 1..n : x \in 1..(n + 2) /\ x # n + 1 /\ x # n + 2
  BY <1>2
<1>4. n + 1 \in 1..(n + 2) /\ n + 2 \in 1..(n + 2) /\ n + 1 # n + 2 /\ n + 2 \in Nat
  BY <1>2
<1>5. \A p \in DOMAIN t : \/ \E q \in DOMAIN c : t[p] = c[q]
                          \/ /\ t[p].block = b
                             /\ t[p].op \in {"jmp", "jne"} => t[p].target \in to
  BY <1>1, BlocksOf
<1>6. \A p \in DOMAIN c : /\ c[p].block \in 1..n
                          /\ c[p].op \in {"jmp", "jne"} => c[p].target \in 1..n
  BY DEF BlocksOk
<1>7. Forward(t)
  <2>1. Fresh(e, b, to) /\ b \notin to /\ \A p \in DOMAIN c : c[p].block \notin to
    BY <1>1, <1>2, <1>3, <1>6
  <2> QED BY <1>1, <2>1, ForwardJoin DEF BlocksOk
<1>8. \A p \in DOMAIN t : t[p].block \in 1..n
  BY <1>2, <1>5, <1>6
<1>9. \A p \in DOMAIN t : /\ t[p].block \in 1..(n + 2)
                          /\ t[p].op \in {"jmp", "jne"} => t[p].target \in 1..(n + 2)
  <2>1. \A x \in to : x \in 1..(n + 2)
    BY <1>1, <1>4
  <2> QED BY <1>3, <1>5, <1>6, <1>8, <2>1
<1>10. PICK l : l = Len(ops) /\ l \in Nat
  OBVIOUS
<1>11. DOMAIN ops = 1..l /\ DOMAIN w = 1..(l + 1) /\ w[l + 1] = top
       /\ \A j \in 1..l : w[j] = ops[j]
  BY <1>1, <1>10
<1>12. \A j \in DOMAIN w : j = l + 1 \/ j \in DOMAIN ops
  BY <1>10, <1>11
<1>13. \A k \in DOMAIN ops : ops[k].merge \in 1..n /\ \A p \in DOMAIN t : t[p].block # ops[k].merge
  BY <1>5 DEF BlocksOk
<1>14. \A k \in DOMAIN w : /\ w[k].merge \in 1..(n + 2) /\ w[k].merge # n + 1
                           /\ \A p \in DOMAIN t : t[p].block # w[k].merge
  BY <1>3, <1>4, <1>8, <1>11, <1>12, <1>13
<1>15. \A i, j \in DOMAIN w : w[i].merge = w[j].merge => i = j
  <2>1. \A i, j \in DOMAIN ops : ops[i].merge = ops[j].merge => i = j
    BY DEF BlocksOk
  <2>2. \A i \in DOMAIN ops : ops[i].merge # top.merge
    BY <1>3, <1>13
  <2> QED BY <1>11, <1>12, <2>1, <2>2
<1>16. BlocksOk(t, w, n + 1, n + 2)
  BY <1>4, <1>7, <1>9, <1>14, <1>15 DEF BlocksOk
<1> QED BY <1>1, <1>16

(* and the end of the first, where their merge block begins.               *)
LEMMA BlocksClose ==
  ASSUME NEW c \in Seq(MachInst), NEW ops, NEW b, NEW n, BlocksOk(c, ops, b, n),
         NEW k \in DOMAIN ops, NEW f, \A j \in DOMAIN f : j \in DOMAIN ops /\ f[j] = ops[j],
         k \notin DOMAIN f, NEW m, m = ops[k].merge, NEW e, Fresh(e, b, {m})
  PROVE  BlocksOk(c \o e, f, m, n)
<1>1. PICK t, to : t = c \o e /\ to = {m}
  OBVIOUS
<1>2. n \in Nat /\ b \in 1..n /\ m \in 1..n /\ m # b /\ \A p \in DOMAIN c : c[p].block # m
  BY DEF BlocksOk
<1>3. \A p \in DOMAIN t : \/ \E q \in DOMAIN c : t[p] = c[q]
                          \/ /\ t[p].block = b
                             /\ t[p].op \in {"jmp", "jne"} => t[p].target \in to
  BY <1>1, BlocksOf
<1>4. Forward(t)
  <2>1. Fresh(e, b, to) /\ b \notin to /\ \A p \in DOMAIN c : c[p].block \notin to
    BY <1>1, <1>2
  <2> QED BY <1>1, <2>1, ForwardJoin DEF BlocksOk
<1>5. \A p \in DOMAIN t : /\ t[p].block \in 1..n
                          /\ t[p].op \in {"jmp", "jne"} => t[p].target \in 1..n
  <2>1. \A p \in DOMAIN c : /\ c[p].block \in 1..n
                            /\ c[p].op \in {"jmp", "jne"} => c[p].target \in 1..n
    BY DEF BlocksOk
  <2>2. \A x \in to : x \in 1..n
    BY <1>1, <1>2
  <2> QED BY <1>2, <1>3, <2>1, <2>2
<1>6. \A i, j \in DOMAIN ops : ops[i].merge = ops[j].merge => i = j
  BY DEF BlocksOk
<1>7. \A j \in DOMAIN f : f[j] = ops[j] /\ j \in DOMAIN ops /\ j # k
  OBVIOUS
<1>8. \A j \in DOMAIN f : /\ f[j].merge \in 1..n /\ f[j].merge # m
                          /\ \A p \in DOMAIN t : t[p].block # f[j].merge
  <2>1. \A j \in DOMAIN ops : /\ ops[j].merge \in 1..n
                              /\ \A p \in DOMAIN t : t[p].block # ops[j].merge
    BY <1>3 DEF BlocksOk
  <2> QED BY <1>6, <1>7, <2>1
<1>9. \A i, j \in DOMAIN f : f[i].merge = f[j].merge => i = j
  BY <1>6, <1>7
<1>10. BlocksOk(t, f, m, n)
  BY <1>2, <1>4, <1>5, <1>8, <1>9 DEF BlocksOk
<1> QED BY <1>1, <1>10
-----------------------------------------------------------------------------
(* What the code generated so far leaves: the values on the stack are      *)
(* held, each in its own virtual register.                                 *)
HeldTo(c, tm, b, C, B, o) ==
  /\ Sound(c, C, B)
  /\ C[Len(c) + 1] = St(Vals(ToSet(tm)), {}, o)
  /\ RAX \notin o /\ Live(ToSet(tm), o)
  /\ (\A p \in DOMAIN c : c[p].block # b) => Vals(ToSet(tm)) \subseteq B[b]

Leaves(c, tm, b, B) == \E C, o : HeldTo(c, tm, b, C, B, o)

Below(tm, n) == {tm[j] : j \in 1..n}

(* A merge block holds what was below the && or ||, and its result.        *)
Waits(tm, ops, B) ==
  \A k \in DOMAIN ops : B[ops[k].merge] = Vals(Below(tm, ops[k].base) \union {ops[k].arg})

Parts(tm, r, a) ==
  ToSet(tm) = ToSet(r) \union ToSet(a) /\ ToSet(r) \intersect ToSet(a) = {}

(* The n values on top of the stack, and the rest.                         *)
LEMMA StackSplit ==
  ASSUME NEW tm \in Seq(Virtual), NEW n \in Nat, n <= Len(tm),
         \A i, j \in DOMAIN tm : tm[i] = tm[j] => i = j,
         NEW r, r = SubSeq(tm, 1, Len(tm) - n),
         NEW a, a = SubSeq(tm, Len(tm) - n + 1, Len(tm))
  PROVE  /\ r \in Seq(Virtual) /\ a \in Seq(Virtual)
         /\ Len(r) = Len(tm) - n /\ Len(a) = n
         /\ \A j \in 1..Len(r) : r[j] = tm[j]
         /\ \A j \in 1..n : a[j] = tm[Len(tm) - n + j]
         /\ Parts(tm, r, a)
<1>1. PICK l, m : l = Len(tm) /\ m = l - n /\ l \in Nat /\ m \in Nat
  <2>1. Len(tm) \in Nat /\ Len(tm) - n \in Nat
    OBVIOUS
  <2> QED BY <2>1
<1>2. r \in Seq(Virtual) /\ Len(r) = m /\ \A j \in 1..m : r[j] = tm[j]
  <2>1. r = SubSeq(tm, 1, m)
    BY <1>1
  <2>2. m <= l
    BY <1>1
  <2> QED BY <1>1, <2>1, <2>2
<1>3. a \in Seq(Virtual) /\ Len(a) = n /\ \A j \in 1..n : a[j] = tm[m + j]
  <2>1. a = SubSeq(tm, m + 1, l)
    BY <1>1
  <2>2. m + 1 \in 1..(l + 1) /\ l = m + n
    BY <1>1
  <2> QED BY <1>1, <2>1, <2>2
<1>4. DOMAIN tm = 1..l /\ DOMAIN r = 1..m /\ DOMAIN a = 1..n
  BY <1>1, <1>2, <1>3
<1>5. /\ \A j \in 1..m : j \in 1..l
      /\ \A j \in 1..n : m + j \in 1..l /\ m + j \notin 1..m
      /\ \A j \in 1..l : j \in 1..m \/ (j - m \in 1..n /\ j = m + (j - m))
  BY <1>1
<1>6. \A x : x \in ToSet(r) => x \in ToSet(tm)
  BY <1>2, <1>4, <1>5 DEF ToSet
<1>7. \A x : x \in ToSet(a) => x \in ToSet(tm)
  BY <1>3, <1>4, <1>5 DEF ToSet
<1>8. ASSUME NEW j \in 1..l
      PROVE  tm[j] \in ToSet(r) \/ tm[j] \in ToSet(a)
  <2>1. CASE j \in 1..m
    BY <1>2, <1>4, <2>1 DEF ToSet
  <2>2. CASE j \notin 1..m
    <3>1. PICK k : k = j - m
      OBVIOUS
    <3>2. k \in 1..n /\ j = m + k
      BY <1>5, <2>2, <3>1
    <3>3. tm[j] = a[k]
      BY <1>3, <3>2
    <3> QED BY <1>4, <3>2, <3>3 DEF ToSet
  <2> QED BY <2>1, <2>2
<1>9. ToSet(tm) = ToSet(r) \union ToSet(a)
  <2>1. \A x : x \in ToSet(tm) => x \in ToSet(r) \/ x \in ToSet(a)
    BY <1>4, <1>8 DEF ToSet
  <2> QED BY <1>6, <1>7, <2>1
<1>10. ToSet(r) \intersect ToSet(a) = {}
  <2>1. SUFFICES ASSUME NEW j \in 1..m, NEW k \in 1..n, r[j] = a[k] PROVE FALSE
    BY <1>4 DEF ToSet
  <2>2. tm[j] = tm[m + k]
    BY <1>2, <1>3, <2>1
  <2>3. j \in DOMAIN tm /\ m + k \in DOMAIN tm /\ j # m + k
    BY <1>4, <1>5
  <2> QED BY <2>2, <2>3
<1> QED BY <1>1, <1>2, <1>3, <1>9, <1>10 DEF Parts

(* A value put on the stack.                                               *)
LEMMA ToSetAppend ==
  ASSUME NEW S, NEW r \in Seq(S), NEW v
  PROVE  ToSet(Append(r, v)) = ToSet(r) \union {v}
<1>1. PICK l, t : l = Len(r) /\ t = Append(r, v)
  OBVIOUS
<1>2. l \in Nat /\ DOMAIN r = 1..l /\ DOMAIN t = 1..(l + 1) /\ t[l + 1] = v
      /\ \A j \in 1..l : t[j] = r[j]
  BY <1>1
<1>3. \A j \in 1..(l + 1) : j \in 1..l \/ j = l + 1
  BY <1>2
<1>4. l + 1 \in 1..(l + 1) /\ \A j \in 1..l : j \in 1..(l + 1)
  BY <1>2
<1>5. \A x : x \in ToSet(t) <=> x \in ToSet(r) \/ x = v
  BY <1>2, <1>3, <1>4 DEF ToSet
<1> QED BY <1>1, <1>5

(* The end of the code moves on when an operation is selected.             *)
LEMMA HeldGrow ==
  ASSUME NEW c \in Seq(MachInst), NEW tm, NEW b, NEW C, NEW B, NEW o, HeldTo(c, tm, b, C, B, o),
         NEW e \in Seq(MachInst), \A q \in DOMAIN e : e[q].block = b,
         NEW T, T = ToSet(tm), NEW U, Selects(e, T, U, o, B), NEW tn, ToSet(tn) = U
  PROVE  Leaves(c \o e, tn, b, B)
<1>1. PICK P : P = St(Vals(T), {}, o)
  OBVIOUS
<1>2. P.held = Vals(T) /\ P.flags = {}
  BY <1>1 DEF St
<1>3. /\ Sound(c, C, B) /\ C[Len(c) + 1] = P
      /\ (\A p \in DOMAIN c : c[p].block # b) => P.held \subseteq B[b]
  BY <1>1, <1>2 DEF HeldTo
<1>4. PICK o2 : /\ Goes(e, P, St(Vals(U), {}, o2), B)
                /\ Grows(o, o2) /\ Live(U, o2)
  BY <1>1 DEF Selects
<1>5. PICK Q : Q = St(Vals(U), {}, o2)
  OBVIOUS
<1>6. PICK D : Sound(c \o e, D, B) /\ D[Len(c \o e) + 1] = Q
  <2>1. Goes(e, P, Q, B)
    BY <1>4, <1>5
  <2>2. Sound(c, C, B) /\ P = C[Len(c) + 1] /\ P.flags = {}
    BY <1>2, <1>3
  <2>3. (\A p \in DOMAIN c : c[p].block # b) => P.held \subseteq B[b]
    BY <1>3
  <2>4. Ends(c \o e, Q, B)
    BY <2>1, <2>2, <2>3, SoundJoin
  <2> QED BY <2>4 DEF Ends
<1>7. RAX \notin o2
  BY <1>4 DEF Grows
<1>8. (\A p \in DOMAIN (c \o e) : (c \o e)[p].block # b) => Vals(U) \subseteq B[b]
  <2>1. SUFFICES ASSUME \A p \in DOMAIN (c \o e) : (c \o e)[p].block # b
                 PROVE  Vals(U) \subseteq B[b]
    OBVIOUS
  <2>2. /\ \A r \in DOMAIN c : \E q \in DOMAIN (c \o e) : (c \o e)[q] = c[r]
        /\ \A r \in DOMAIN e : \E q \in DOMAIN (c \o e) : (c \o e)[q] = e[r]
    BY JoinElements
  <2>3. \A p \in DOMAIN c : c[p].block # b
    BY <2>1, <2>2
  <2>4. DOMAIN e = {}
    BY <2>1, <2>2
  <2>5. Len(e) = 0
    <3>1. Len(e) \in Nat /\ DOMAIN e = 1..Len(e)
      OBVIOUS
    <3> QED BY <2>4, <3>1
  <2>6. P = Q
    <3>1. Len(e) + 1 = 1
      BY <2>5
    <3> QED BY <1>4, <1>5, <3>1 DEF Goes
  <2>7. Vals(U) = Q.held
    BY <1>5 DEF St
  <2> QED BY <1>3, <2>3, <2>6, <2>7
<1>9. HeldTo(c \o e, tn, b, D, B, o2)
  BY <1>4, <1>5, <1>6, <1>7, <1>8 DEF HeldTo
<1> QED BY <1>9 DEF Leaves

(* What waits does not change with the top of the stack.                   *)
LEMMA WaitsKept ==
  ASSUME NEW tm, NEW ops \in Seq(Waiting), NEW B, Waits(tm, ops, B), NEW l \in Nat,
         \A k \in DOMAIN ops : ops[k].base <= l, NEW tn, \A j \in 1..l : tn[j] = tm[j]
  PROVE  Waits(tn, ops, B)
<1>1. ASSUME NEW k \in DOMAIN ops PROVE Below(tm, ops[k].base) = Below(tn, ops[k].base)
  <2>1. ops[k] \in Waiting
    OBVIOUS
  <2>2. ops[k].base \in Nat /\ ops[k].base <= l
    BY <2>1 DEF Waiting
  <2>3. \A j \in 1..ops[k].base : tn[j] = tm[j]
    BY <2>2
  <2> QED BY <2>3 DEF Below
<1> QED BY <1>1 DEF Waits
-----------------------------------------------------------------------------
(* While the code is generated, its values are where the graph has them.   *)
SelectionInv ==
  stage = "select" =>
    /\ NamesOk(temps, used, opens)
    /\ BlocksOk(code, opens, block, blocks)
    /\ \E B : Leaves(code, temps, block, B) /\ Waits(temps, opens, B)

(* The operands are on top of the stack, above all that waits.             *)
LEMMA OperandsAre ==
  ASSUME TypeInv, NamesOk(temps, used, opens), NEW n \in Nat, NEW a \in Operands(n),
         NEW r, r = Rest(n)
  PROVE  /\ r \in Seq(Virtual) /\ a \in Seq(Virtual)
         /\ n <= Len(temps) /\ Len(r) = Len(temps) - n /\ Len(a) = n
         /\ \A j \in 1..Len(r) : r[j] = temps[j]
         /\ ToSet(temps) = ToSet(r) \union ToSet(a)
         /\ ToSet(r) \intersect ToSet(a) = {}
         /\ \A k \in DOMAIN opens : opens[k].base <= Len(r)
<1>1. /\ temps \in Seq(Virtual) /\ opens \in Seq(Waiting)
      /\ \A i, j \in DOMAIN temps : temps[i] = temps[j] => i = j
  BY DEF TypeInv, Waiting, NamesOk
<1>2. PICK l : l = Len(temps) /\ l \in Nat
  <2>1. Len(temps) \in Nat
    BY <1>1
  <2> QED BY <2>1
<1>3. Base \in Nat /\ \A k \in DOMAIN opens : opens[k].base <= Base
  <2>1. CASE opens = <<>>
    BY <2>1 DEF Base
  <2>2. CASE opens # <<>>
    <3>1. PICK m : m = Len(opens) /\ m \in Nat /\ m >= 1
      <4>1. Len(opens) \in Nat /\ Len(opens) >= 1
        BY <1>1, <2>2
      <4> QED BY <4>1
    <3>2. DOMAIN opens = 1..m /\ m \in DOMAIN opens
      BY <1>1, <3>1
    <3>3. Base = opens[m].base
      BY <2>2, <3>1 DEF Base, Last
    <3>4. opens[m] \in Waiting
      BY <1>1, <3>2
    <3>5. opens[m].base \in Nat
      BY <3>4 DEF Waiting
    <3>6. \A k \in DOMAIN opens : k = m \/ k < m
      BY <3>1, <3>2
    <3>7. \A k \in DOMAIN opens : k < m => opens[k].base <= opens[m].base
      BY <3>2 DEF NamesOk
    <3>8. opens[m].base <= opens[m].base
      BY <3>5
    <3> QED BY <3>3, <3>5, <3>6, <3>7, <3>8
  <2> QED BY <2>1, <2>2
<1>4. l - Base >= n /\ a = SubSeq(temps, l - n + 1, l)
  BY <1>2, <1>3 DEF Operands
<1>5. n <= Len(temps) /\ r = SubSeq(temps, 1, Len(temps) - n)
      /\ a = SubSeq(temps, Len(temps) - n + 1, Len(temps))
  BY <1>2, <1>3, <1>4 DEF Rest
<1>6. /\ r \in Seq(Virtual) /\ a \in Seq(Virtual)
      /\ Len(r) = Len(temps) - n /\ Len(a) = n
      /\ \A j \in 1..Len(r) : r[j] = temps[j]
      /\ \A j \in 1..n : a[j] = temps[Len(temps) - n + j]
      /\ ToSet(temps) = ToSet(r) \union ToSet(a)
      /\ ToSet(r) \intersect ToSet(a) = {}
  <2>1. PICK tm : tm = temps
    OBVIOUS
  <2>2. tm \in Seq(Virtual) /\ n <= Len(tm)
    BY <1>1, <1>5, <2>1
  <2>3. r = SubSeq(tm, 1, Len(tm) - n)
    BY <1>5, <2>1
  <2>4. a = SubSeq(tm, Len(tm) - n + 1, Len(tm))
    BY <1>5, <2>1
  <2>5. \A i, j \in DOMAIN tm : tm[i] = tm[j] => i = j
    BY <1>1, <2>1
  <2>6. r \in Seq(Virtual) /\ a \in Seq(Virtual)
    BY <2>2, <2>3, <2>4, <2>5, StackSplit
  <2>7. Len(r) = Len(tm) - n /\ Len(a) = n
    BY <2>2, <2>3, <2>4, <2>5, StackSplit
  <2>8. \A j \in 1..Len(r) : r[j] = tm[j]
    BY <2>2, <2>3, <2>4, <2>5, StackSplit
  <2>9. \A j \in 1..n : a[j] = tm[Len(tm) - n + j]
    BY <2>2, <2>3, <2>4, <2>5, StackSplit
  <2>10. Parts(tm, r, a)
    BY <2>2, <2>3, <2>4, <2>5, StackSplit
  <2> QED BY <2>1, <2>6, <2>7, <2>8, <2>9, <2>10 DEF Parts
<1>7. Base <= Len(r)
  BY <1>2, <1>3, <1>4, <1>6
<1>8. \A k \in DOMAIN opens : opens[k].base <= Len(r)
  <2>1. ASSUME NEW k \in DOMAIN opens PROVE opens[k].base <= Len(r)
    <3>1. opens[k] \in Waiting
      BY <1>1
    <3>2. opens[k].base \in Nat
      BY <3>1 DEF Waiting
    <3>3. Len(r) \in Nat
      BY <1>6
    <3> QED BY <1>3, <1>7, <3>2, <3>3
  <2> QED BY <2>1
<1> QED BY <1>5, <1>6, <1>8

(* A value of the stack is not one made later.                             *)
LEMMA NotOn ==
  ASSUME NEW tm, NEW v, \A j \in DOMAIN tm : tm[j] # v
  PROVE  v \notin ToSet(tm)
BY DEF ToSet

(* An operation that yields a value,                                       *)
LEMMA GenerateKeeps ==
  ASSUME TypeInv, SelectionInv, NEW kind \in Selected, Generate(kind)
  PROVE  SelectionInv'
<1>1. PICK v, n : v = Values[used + 1] /\ n = Arity(kind)
  OBVIOUS
<1>2. PICK a \in Operands(n) :
        /\ code' = code \o Emit(Select(kind, v, a), kind, v, a)
        /\ temps' = Append(Rest(n), v)
  BY <1>1 DEF Generate
<1>3. PICK e, r : e = Emit(Select(kind, v, a), kind, v, a) /\ r = Rest(n)
  OBVIOUS
<1>4. /\ stage = "select" /\ used < Len(Values) /\ used' = used + 1
      /\ opens' = opens /\ blocks' = blocks /\ block' = block
  BY DEF Generate
<1>5. /\ NamesOk(temps, used, opens)
      /\ BlocksOk(code, opens, block, blocks)
  BY <1>4 DEF SelectionInv
<1>6. PICK B : Leaves(code, temps, block, B) /\ Waits(temps, opens, B)
  BY <1>4 DEF SelectionInv
<1>7. n \in Nat /\ kind \in Kinds /\ kind \in Completions
  BY <1>1, ArityNat, BackendAssumption DEF Completions
<1>8. /\ r \in Seq(Virtual) /\ a \in Seq(Virtual)
      /\ n <= Len(temps) /\ Len(r) = Len(temps) - n /\ Len(a) = n
      /\ \A j \in 1..Len(r) : r[j] = temps[j]
      /\ ToSet(temps) = ToSet(r) \union ToSet(a)
      /\ ToSet(r) \intersect ToSet(a) = {}
      /\ \A k \in DOMAIN opens : opens[k].base <= Len(r)
  BY <1>3, <1>5, <1>7, OperandsAre
<1>9. /\ temps \in Seq(Virtual) /\ opens \in Seq(Waiting) /\ code \in Seq(MachInst) /\ block \in Nat
  BY <1>4 DEF TypeInv, Waiting
<1>10. /\ used + 1 \in Nat /\ used <= used + 1 /\ used + 1 <= Len(Values)
       /\ \E k \in 1..(used + 1) : v = Values[k]
       /\ v \in Virtual
       /\ \A j \in DOMAIN temps : temps[j] # v
       /\ \A j \in DOMAIN opens : opens[j].arg # v
  BY <1>1, <1>4, <1>5, NamesNew
<1>11. Select(kind, v, a) \in Seq(Selection)
  BY <1>1, <1>7, <1>8, <1>10, SelectType
<1>12. Fresh(e, block, {})
  BY <1>3, <1>7, <1>8, <1>9, <1>10, <1>11, EmitFresh
<1>13. e \in Seq(MachInst) /\ \A q \in DOMAIN e : e[q].block = block
  BY <1>12 DEF Fresh
<1>14. PICK T, A : T = ToSet(r) /\ A = ToSet(a)
  OBVIOUS
<1>15. v \notin ToSet(temps)
  BY <1>10, NotOn
<1>16. PICK C, o : HeldTo(code, temps, block, C, B, o)
  BY <1>6 DEF Leaves
<1>17. Here(o, T, A, v)
  <2>1. RAX \notin o /\ Live(ToSet(temps), o)
    BY <1>16 DEF HeldTo
  <2>2. Live(T, o) /\ Live(A, o)
    BY <1>8, <1>14, <2>1 DEF Live
  <2>3. v \notin T /\ v \notin A /\ A \intersect T = {}
    BY <1>8, <1>14, <1>15
  <2> QED BY <1>10, <2>1, <2>2, <2>3 DEF Here
<1>18. Selects(e, T \union A, T \union {v}, o, B)
  <2>1. A = {a[q] : q \in DOMAIN a}
    BY <1>14 DEF ToSet
  <2>2. Len(a) = Arity(kind)
    BY <1>1, <1>8
  <2> QED BY <1>3, <1>7, <1>8, <1>13, <1>17, <2>1, <2>2, KindSelects
<1>19. PICK W, U : W = T \union A /\ U = T \union {v}
  OBVIOUS
<1>20. ToSet(temps') = U /\ W = ToSet(temps)
  <2>1. ToSet(Append(r, v)) = ToSet(r) \union {v}
    BY <1>8, ToSetAppend
  <2> QED BY <1>2, <1>3, <1>8, <1>14, <1>19, <2>1
<1>21. Leaves(code', temps', block', B)
  <2>1. Selects(e, W, U, o, B)
    BY <1>18, <1>19
  <2>2. PICK tn : tn = temps'
    OBVIOUS
  <2>3. ToSet(tn) = U
    BY <1>20, <2>2
  <2>4. Leaves(code \o e, tn, block, B)
    BY <1>9, <1>13, <1>16, <1>20, <2>1, <2>3, HeldGrow
  <2> QED BY <1>2, <1>3, <1>4, <2>2, <2>4
<1>22. NamesOk(temps', used', opens')
  <2>1. Len(r) <= Len(temps)
    BY <1>7, <1>8
  <2>2. NamesOk(r, used, opens)
    BY <1>5, <1>8, <1>9, <2>1, NamesCut
  <2>3. \A j \in DOMAIN r : r[j] # v
    BY <1>1, <1>4, <2>2, NamesNew
  <2>4. NamesOk(Append(r, v), used + 1, opens)
    BY <1>8, <1>9, <1>10, <2>2, <2>3, NamesPut
  <2> QED BY <1>2, <1>3, <1>4, <2>4
<1>23. BlocksOk(code', opens', block', blocks')
  <2>1. BlocksOk(code \o e, opens, block, blocks)
    BY <1>5, <1>9, <1>12, BlocksGrow
  <2> QED BY <1>2, <1>3, <1>4, <2>1
<1>24. Waits(temps', opens', B)
  <2>1. PICK l, tn : l = Len(r) /\ tn = Append(r, v)
    OBVIOUS
  <2>2. l \in Nat /\ \A j \in 1..l : tn[j] = r[j]
    BY <1>8, <2>1
  <2>3. \A j \in 1..l : tn[j] = temps[j]
    BY <1>8, <2>1, <2>2
  <2>4. \A k \in DOMAIN opens : opens[k].base <= l
    BY <1>8, <2>1
  <2>5. Waits(tn, opens, B)
    BY <1>6, <1>9, <2>2, <2>3, <2>4, WaitsKept
  <2> QED BY <1>2, <1>3, <1>4, <2>1, <2>5
<1> QED BY <1>21, <1>22, <1>23, <1>24 DEF SelectionInv
-----------------------------------------------------------------------------
(* an assignment, whose value is its second operand,                       *)
LEMMA AssignKeeps == ASSUME TypeInv, SelectionInv, Assign PROVE SelectionInv'
<1>1. PICK a \in Operands(2) :
        /\ code' = code \o Emit(SelectStore(a[1], a[2]), "store", NoRegister, a)
        /\ temps' = Append(Rest(2), a[2])
  BY DEF Assign
<1>2. PICK p, x, r, e : /\ p = a[1] /\ x = a[2] /\ r = Rest(2)
                        /\ e = Emit(SelectStore(p, x), "store", NoRegister, a)
  OBVIOUS
<1>3. /\ stage = "select" /\ used' = used
      /\ opens' = opens /\ blocks' = blocks /\ block' = block
  BY DEF Assign
<1>4. /\ NamesOk(temps, used, opens)
      /\ BlocksOk(code, opens, block, blocks)
  BY <1>3 DEF SelectionInv
<1>5. PICK B : Leaves(code, temps, block, B) /\ Waits(temps, opens, B)
  BY <1>3 DEF SelectionInv
<1>6. /\ r \in Seq(Virtual) /\ a \in Seq(Virtual)
      /\ 2 <= Len(temps) /\ Len(r) = Len(temps) - 2 /\ Len(a) = 2
      /\ \A j \in 1..Len(r) : r[j] = temps[j]
      /\ ToSet(temps) = ToSet(r) \union ToSet(a)
      /\ ToSet(r) \intersect ToSet(a) = {}
      /\ \A k \in DOMAIN opens : opens[k].base <= Len(r)
  <2>1. PICK n : n = 2
    OBVIOUS
  <2>2. n \in Nat /\ a \in Operands(n) /\ r = Rest(n)
    BY <1>2, <2>1
  <2>3. /\ r \in Seq(Virtual) /\ a \in Seq(Virtual)
        /\ n <= Len(temps) /\ Len(r) = Len(temps) - n /\ Len(a) = n
        /\ \A j \in 1..Len(r) : r[j] = temps[j]
        /\ ToSet(temps) = ToSet(r) \union ToSet(a)
        /\ ToSet(r) \intersect ToSet(a) = {}
        /\ \A k \in DOMAIN opens : opens[k].base <= Len(r)
    BY <1>4, <2>2, OperandsAre
  <2> QED BY <2>1, <2>3
<1>7. /\ temps \in Seq(Virtual) /\ opens \in Seq(Waiting) /\ code \in Seq(MachInst) /\ block \in Nat
  BY <1>3 DEF TypeInv, Waiting
<1>8. p \in Virtual /\ x \in Virtual
  BY <1>2, <1>6, PairIn
<1>9. SelectStore(p, x) \in Seq(Selection)
  BY <1>8, StoreReturnType
<1>10. Fresh(e, block, {})
  <2>1. "store" \in Completions /\ NoRegister \in Virtual \union {NoRegister}
    BY DEF Completions
  <2> QED BY <1>2, <1>6, <1>7, <1>9, <2>1, EmitFresh
<1>11. e \in Seq(MachInst) /\ \A q \in DOMAIN e : e[q].block = block
  BY <1>10 DEF Fresh
<1>12. PICK T, A : T = ToSet(r) /\ A = {p, x}
  OBVIOUS
<1>13. a = <<p, x>> /\ A = ToSet(a)
  <2>1. a = <<a[1], a[2]>> /\ {a[n] : n \in DOMAIN a} = {a[1], a[2]}
    BY <1>6, ShortIs
  <2> QED BY <1>2, <1>12, <2>1 DEF ToSet
<1>14. PICK C, o : HeldTo(code, temps, block, C, B, o)
  BY <1>5 DEF Leaves
<1>15. RAX \notin o /\ Live(T, o) /\ Live({p, x}, o)
  <2>1. RAX \notin o /\ Live(ToSet(temps), o)
    BY <1>14 DEF HeldTo
  <2>2. \A t \in T : t \in ToSet(temps)
    BY <1>6, <1>12
  <2>3. \A t \in {p, x} : t \in ToSet(temps)
    BY <1>6, <1>12, <1>13
  <2> QED BY <2>1, <2>2, <2>3 DEF Live
<1>16. Selects(e, T \union {p, x}, T \union {x}, o, B)
  <2>1. e = Emit(SelectStore(p, x), "store", NoRegister, <<p, x>>)
    BY <1>2, <1>13
  <2> QED BY <1>11, <1>15, <2>1, EmitStore
<1>17. PICK W, U : W = T \union {p, x} /\ U = T \union {x}
  OBVIOUS
<1>18. ToSet(temps') = U /\ W = ToSet(temps)
  <2>1. ToSet(Append(r, x)) = ToSet(r) \union {x}
    BY <1>6, ToSetAppend
  <2>2. temps' = Append(r, x)
    BY <1>1, <1>2
  <2> QED BY <1>6, <1>12, <1>13, <1>17, <2>1, <2>2
<1>19. Leaves(code', temps', block', B)
  <2>1. Selects(e, W, U, o, B)
    BY <1>16, <1>17
  <2>2. PICK tn : tn = temps'
    OBVIOUS
  <2>3. ToSet(tn) = U
    BY <1>18, <2>2
  <2>4. Leaves(code \o e, tn, block, B)
    BY <1>7, <1>11, <1>14, <1>18, <2>1, <2>3, HeldGrow
  <2> QED BY <1>1, <1>2, <1>3, <2>2, <2>4
<1>20. NamesOk(temps', used', opens')
  <2>1. Len(r) <= Len(temps)
    BY <1>6
  <2>2. NamesOk(r, used, opens)
    BY <1>4, <1>6, <1>7, <2>1, NamesCut
  <2>3. x \in ToSet(temps)
    BY <1>6, <1>12, <1>13
  <2>4. \E m \in DOMAIN temps : x = temps[m]
    BY <2>3 DEF ToSet
  <2>5. /\ used \in Nat /\ used <= used /\ used <= Len(Values)
        /\ \E k \in 1..used : x = Values[k]
        /\ \A j \in DOMAIN opens : opens[j].arg # x
    BY <1>4, <2>4 DEF NamesOk
  <2>6. \A j \in DOMAIN r : r[j] # x
    <3>1. x \in ToSet(a)
      BY <1>12, <1>13
    <3>2. \A j \in DOMAIN r : r[j] \in ToSet(r)
      BY DEF ToSet
    <3> QED BY <1>6, <3>1, <3>2
  <2>7. NamesOk(Append(r, x), used, opens)
    BY <1>6, <1>7, <2>2, <2>5, <2>6, NamesPut
  <2> QED BY <1>1, <1>2, <1>3, <2>7
<1>21. BlocksOk(code', opens', block', blocks')
  <2>1. BlocksOk(code \o e, opens, block, blocks)
    BY <1>4, <1>7, <1>10, BlocksGrow
  <2> QED BY <1>1, <1>2, <1>3, <2>1
<1>22. Waits(temps', opens', B)
  <2>1. PICK l, tn : l = Len(r) /\ tn = Append(r, x)
    OBVIOUS
  <2>2. l \in Nat /\ \A j \in 1..l : tn[j] = r[j]
    BY <1>6, <2>1
  <2>3. \A j \in 1..l : tn[j] = temps[j]
    BY <1>6, <2>1, <2>2
  <2>4. \A k \in DOMAIN opens : opens[k].base <= l
    BY <1>6, <2>1
  <2>5. Waits(tn, opens, B)
    BY <1>5, <1>7, <2>2, <2>3, <2>4, WaitsKept
  <2> QED BY <1>1, <1>2, <1>3, <2>1, <2>5
<1> QED BY <1>19, <1>20, <1>21, <1>22 DEF SelectionInv

(* the end of an expression statement,                                     *)
LEMMA DiscardKeeps == ASSUME TypeInv, SelectionInv, Discard PROVE SelectionInv'
<1>1. /\ stage = "select" /\ used' = used /\ opens = << >> /\ temps' = << >>
      /\ opens' = opens /\ blocks' = blocks /\ block' = block /\ code' = code
  BY DEF Discard, allocVars
<1>2. /\ NamesOk(temps, used, opens)
      /\ BlocksOk(code, opens, block, blocks)
  BY <1>1 DEF SelectionInv
<1>3. PICK B : Leaves(code, temps, block, B) /\ Waits(temps, opens, B)
  BY <1>1 DEF SelectionInv
<1>4. PICK C, o : HeldTo(code, temps, block, C, B, o)
  BY <1>3 DEF Leaves
<1>5. PICK P, Q : P = St(Vals(ToSet(temps)), {}, o) /\ Q = St({}, {}, o)
  OBVIOUS
<1>6. Q.open = P.open /\ Q.held \subseteq P.held /\ Q.flags \subseteq P.flags /\ Q.held = {}
  BY <1>5 DEF St
<1>7. code \in Seq(MachInst)
  BY <1>1 DEF TypeInv
<1>8. Ends(code, Q, B)
  <2>1. Sound(code, C, B) /\ P = C[Len(code) + 1]
    BY <1>4, <1>5 DEF HeldTo
  <2> QED BY <1>6, <1>7, <2>1, SoundLess
<1>9. PICK D : Sound(code, D, B) /\ D[Len(code) + 1] = Q
  BY <1>8 DEF Ends
<1>10. ToSet(<< >>) = {} /\ Vals({}) = {}
  BY DEF ToSet, Vals
<1>11. HeldTo(code, << >>, block, D, B, o)
  <2>1. RAX \notin o /\ Live({}, o)
    BY <1>4 DEF HeldTo, Live
  <2>2. D[Len(code) + 1] = St(Vals(ToSet(<< >>)), {}, o)
    BY <1>5, <1>9, <1>10
  <2> QED BY <1>9, <1>10, <2>1, <2>2 DEF HeldTo
<1>12. Leaves(code', temps', block', B)
  BY <1>1, <1>11 DEF Leaves
<1>13. Waits(temps', opens', B)
  BY <1>1 DEF Waits
<1>14. NamesOk(temps', used', opens')
  BY <1>1, <1>2 DEF NamesOk
<1>15. BlocksOk(code', opens', block', blocks')
  BY <1>1, <1>2
<1> QED BY <1>12, <1>13, <1>14, <1>15 DEF SelectionInv
-----------------------------------------------------------------------------
(* One piece of code after another.                                        *)
LEMMA SelectsThen ==
  ASSUME NEW e \in Seq(MachInst), NEW g \in Seq(MachInst), NEW T, NEW U, NEW V, NEW B,
         NEW o, NEW o2, Goes(e, St(Vals(T), {}, o), St(Vals(U), {}, o2), B), Grows(o, o2),
         Selects(g, U, V, o2, B)
  PROVE  Selects(e \o g, T, V, o, B)
<1>1. PICK o3 : /\ Goes(g, St(Vals(U), {}, o2), St(Vals(V), {}, o3), B)
                /\ Grows(o2, o3) /\ Live(V, o3)
  BY DEF Selects
<1>2. PICK P, Q, R : /\ P = St(Vals(T), {}, o) /\ Q = St(Vals(U), {}, o2)
                     /\ R = St(Vals(V), {}, o3)
  OBVIOUS
<1>3. Goes(e, P, Q, B) /\ Goes(g, Q, R, B)
  BY <1>1, <1>2
<1>4. Goes(e \o g, P, R, B)
  BY <1>3, GoesOn
<1>5. Grows(o, o3)
  BY <1>1 DEF Grows
<1> QED BY <1>1, <1>2, <1>4, <1>5 DEF Selects

(* The jump of an instruction sequence of one.                             *)
LEMMA JumpIs ==
  ASSUME NEW op \in {"jmp", "jne"}, NEW target \in Nat, block \in Nat
  PROVE  /\ <<Jump(op, target)>> \in Seq(MachInst) /\ Len(<<Jump(op, target)>>) = 1
         /\ Jump(op, target) \in MachInst
         /\ Jump(op, target).op = op /\ Jump(op, target).regs = << >>
         /\ Jump(op, target).eval = None /\ Jump(op, target).target = target
<1>1. op \in Mnemonics
  BY DEF Mnemonics
<1>2. Jump(op, target) \in MachInst
  BY <1>1, JumpType
<1> QED BY <1>2 DEF Jump, Place, Inst

(* A conditional jump to where what is held is enough,                     *)
LEMMA BranchSelects ==
  ASSUME NEW o, NEW T, RAX \notin o, Live(T, o), NEW B, NEW target \in Nat, block \in Nat,
         B[target] \subseteq Vals(T), NEW e, e = <<Jump("jne", target)>>
  PROVE  e \in Seq(MachInst) /\ Selects(e, T, T, o, B)
<1>1. PICK i : i = Jump("jne", target)
  OBVIOUS
<1>2. /\ e \in Seq(MachInst) /\ Len(e) = 1 /\ e[1] = i /\ i \in MachInst
      /\ i.op = "jne" /\ i.regs = << >> /\ i.eval = None /\ i.target = target
  BY <1>1, JumpIs
<1>3. B[i.target] \subseteq Vals(T)
  BY <1>2
<1>4. PICK P, Q, o2 : o2 = Opens(i, o) /\ P = St(Vals(T), {}, o) /\ Q = St(Vals(T), {}, o2)
  OBVIOUS
<1>5. Follow(i, P, Q, B)
  BY <1>2, <1>3, <1>4, BranchFollows
<1>6. Goes(e, P, Q, B)
  BY <1>2, <1>5, GoesOne
<1>7. Grows(o, o)
  BY DEF Grows
<1>8. Live(T, o2) /\ Grows(o, o2)
  BY <1>2, <1>4, <1>7, NoOperands
<1> QED BY <1>2, <1>4, <1>6, <1>8 DEF Selects

(* and a jump, after which the text goes on with other values.             *)
LEMMA LeapSelects ==
  ASSUME NEW o, NEW T, NEW U, RAX \notin o, Live(U, o), NEW B, NEW target \in Nat, block \in Nat,
         B[target] \subseteq Vals(T), NEW e, e = <<Jump("jmp", target)>>
  PROVE  e \in Seq(MachInst) /\ Selects(e, T, U, o, B)
<1>1. PICK i : i = Jump("jmp", target)
  OBVIOUS
<1>2. /\ e \in Seq(MachInst) /\ Len(e) = 1 /\ e[1] = i /\ i \in MachInst
      /\ i.op = "jmp" /\ i.regs = << >> /\ i.eval = None /\ i.target = target
  BY <1>1, JumpIs
<1>4. PICK P, Q, o2 : o2 = Opens(i, o) /\ P = St(Vals(T), {}, o) /\ Q = St(Vals(U), {}, o2)
  OBVIOUS
<1>3. /\ B[i.target] \subseteq P.held /\ Q.open = Opens(i, P.open) /\ i.eval.kind = "none"
  BY <1>2, <1>4 DEF St, None
<1>5. Follow(i, P, Q, B)
  BY <1>2, <1>3, JumpFollows
<1>6. Goes(e, P, Q, B)
  BY <1>2, <1>5, GoesOne
<1>7. Grows(o, o)
  BY DEF Grows
<1>8. Live(U, o2) /\ Grows(o, o2)
  BY <1>2, <1>4, <1>7, NoOperands
<1> QED BY <1>2, <1>4, <1>6, <1>8 DEF Selects

(* The short way through ||: with the constant to the merge block, or on   *)
(* to the right operand;                                                   *)
LEMMA OrSelects ==
  ASSUME NEW o, NEW T, NEW v, Here(o, T, {}, v), NEW B, block \in Nat,
         NEW s \in Seq(MachInst), Selects(s, T, T \union {v}, o, B),
         NEW right \in Nat, NEW merge \in Nat,
         B[merge] = Vals(T \union {v}), B[right] = Vals(T)
  PROVE  Selects(s \o <<Jump("jne", merge), Jump("jmp", right)>>, T, T, o, B)
<1>1. PICK e, g, U : /\ e = <<Jump("jne", merge)>> /\ g = <<Jump("jmp", right)>>
                     /\ U = T \union {v}
  OBVIOUS
<1>2. PICK o2 : /\ Goes(s, St(Vals(T), {}, o), St(Vals(U), {}, o2), B)
                /\ Grows(o, o2) /\ Live(U, o2)
  BY <1>1 DEF Selects
<1>3. e \in Seq(MachInst) /\ Selects(e, U, U, o2, B)
  <2>1. RAX \notin o2 /\ B[merge] \subseteq Vals(U)
    BY <1>1, <1>2 DEF Grows
  <2> QED BY <1>1, <1>2, <2>1, BranchSelects
<1>4. PICK o3 : /\ Goes(e, St(Vals(U), {}, o2), St(Vals(U), {}, o3), B)
                /\ Grows(o2, o3) /\ Live(U, o3)
  BY <1>3 DEF Selects
<1>5. g \in Seq(MachInst) /\ Selects(g, U, T, o3, B)
  <2>1. RAX \notin o3 /\ B[right] \subseteq Vals(U) /\ Live(T, o3)
    BY <1>1, <1>4 DEF Grows, Vals, Live
  <2> QED BY <1>1, <2>1, LeapSelects
<1>6. Selects(e \o g, U, T, o2, B)
  BY <1>3, <1>4, <1>5, SelectsThen
<1>7. PICK h : h = e \o g
  OBVIOUS
<1>8. h \in Seq(MachInst) /\ h = <<Jump("jne", merge), Jump("jmp", right)>>
  BY <1>1, <1>3, <1>5, <1>7, JoinOneOne
<1>9. Selects(s \o h, T, T, o, B)
  BY <1>2, <1>6, <1>7, <1>8, SelectsThen
<1> QED BY <1>8, <1>9

(* through &&: on to the right operand, or to the merge block.             *)
LEMMA AndSelects ==
  ASSUME NEW o, NEW T, RAX \notin o, Live(T, o), NEW v, NEW B, block \in Nat,
         NEW s \in Seq(MachInst),
         \A o1 : Grows(o, o1) /\ Live(T, o1) => Selects(s, T, T \union {v}, o1, B),
         NEW right \in Nat, NEW merge \in Nat,
         B[merge] = Vals(T \union {v}), B[right] = Vals(T)
  PROVE  Selects(<<Jump("jne", right)>> \o s \o <<Jump("jmp", merge)>>, T, T, o, B)
<1>1. PICK e, g, U : /\ e = <<Jump("jne", right)>> /\ g = <<Jump("jmp", merge)>>
                     /\ U = T \union {v}
  OBVIOUS
<1>2. e \in Seq(MachInst) /\ Selects(e, T, T, o, B)
  <2>1. B[right] \subseteq Vals(T)
    OBVIOUS
  <2> QED BY <1>1, <2>1, BranchSelects
<1>3. PICK o2 : /\ Goes(e, St(Vals(T), {}, o), St(Vals(T), {}, o2), B)
                /\ Grows(o, o2) /\ Live(T, o2)
  BY <1>2 DEF Selects
<1>4. Selects(s, T, U, o2, B)
  BY <1>1, <1>3
<1>5. Selects(e \o s, T, U, o, B)
  BY <1>2, <1>3, <1>4, SelectsThen
<1>6. PICK h : h = e \o s
  OBVIOUS
<1>7. h \in Seq(MachInst)
  BY <1>2, <1>6
<1>8. PICK o3 : /\ Goes(h, St(Vals(T), {}, o), St(Vals(U), {}, o3), B)
                /\ Grows(o, o3) /\ Live(U, o3)
  BY <1>5, <1>6 DEF Selects
<1>9. g \in Seq(MachInst) /\ Selects(g, U, T, o3, B)
  <2>1. RAX \notin o3 /\ B[merge] \subseteq Vals(U) /\ Live(T, o3)
    BY <1>1, <1>8 DEF Grows, Live
  <2> QED BY <1>1, <2>1, LeapSelects
<1>10. Selects(h \o g, T, T, o, B)
  BY <1>7, <1>8, <1>9, SelectsThen
<1> QED BY <1>1, <1>6, <1>10

(* The code ends in another block,                                         *)
LEMMA LeavesTurn ==
  ASSUME NEW c, NEW tm, NEW b, NEW B, Leaves(c, tm, b, B), NEW b2, Vals(ToSet(tm)) \subseteq B[b2]
  PROVE  Leaves(c, tm, b2, B)
BY DEF Leaves, HeldTo

(* or new blocks are begun.                                                *)
LEMMA LeavesRebind ==
  ASSUME NEW c, NEW tm, NEW ops, NEW b, NEW n, BlocksOk(c, ops, b, n), NEW B, Leaves(c, tm, b, B),
         NEW B2, \A k \in 1..n : B2[k] = B[k]
  PROVE  Leaves(c, tm, b, B2)
<1>1. PICK C, o : HeldTo(c, tm, b, C, B, o)
  BY DEF Leaves
<1>2. \A p \in DOMAIN c : /\ B2[c[p].block] = B[c[p].block]
                          /\ c[p].op \in {"jmp", "jne"} => B2[c[p].target] = B[c[p].target]
  BY DEF BlocksOk
<1>3. B2[b] = B[b]
  BY DEF BlocksOk
<1>4. Sound(c, C, B)
  BY <1>1 DEF HeldTo
<1>5. Sound(c, C, B2)
  BY <1>2, <1>4, SoundRebind
<1>6. HeldTo(c, tm, b, C, B2, o)
  BY <1>1, <1>3, <1>5 DEF HeldTo
<1> QED BY <1>6 DEF Leaves
-----------------------------------------------------------------------------
(* What && and || put into the code before their right operand: the test,  *)
(* and two ways on.                                                        *)
LEMMA OpenForm ==
  ASSUME NEW or \in BOOLEAN, OpenLogical(or)
  PROVE  \E a \in Operands(1) : \E e, s, j, k, g, top :
           /\ e = Emit(<<Inst("test", <<Use(a[1])>>)>>, "test", NoRegister, a)
           /\ s = Emit(<<Inst("const", <<Use(Values[used + 1])>>)>>,
                       IF or THEN "true" ELSE "false", Values[used + 1], << >>)
           /\ j = <<Jump("jne", IF or THEN blocks + 2 ELSE blocks + 1)>>
           /\ k = <<Jump("jmp", IF or THEN blocks + 1 ELSE blocks + 2)>>
           /\ or => g = s \o <<Jump("jne", blocks + 2), Jump("jmp", blocks + 1)>>
           /\ ~or => g = j \o s \o k
           /\ code' = code \o e \o g
           /\ temps' = Rest(1)
           /\ top = [arg |-> Values[used + 1], merge |-> blocks + 2, base |-> Len(Rest(1))]
           /\ opens' = Append(opens, top)
<1>0. PICK v, right, merge :
        v = Values[used + 1] /\ right = blocks + 1 /\ merge = blocks + 2
  OBVIOUS
<1>1. PICK a \in Operands(1) :
        /\ code' = code \o Emit(<<Inst("test", <<Use(a[1])>>)>>, "test", NoRegister, a) \o
             IF or THEN Emit(<<Inst("const", <<Use(v)>>)>>, "true", v, <<>>)
                          \o <<Jump("jne", merge), Jump("jmp", right)>>
                   ELSE <<Jump("jne", right)>>
                          \o Emit(<<Inst("const", <<Use(v)>>)>>, "false", v, <<>>)
                          \o <<Jump("jmp", merge)>>
        /\ temps' = Rest(1)
        /\ opens' = Append(opens, [arg |-> v, merge |-> merge, base |-> Len(Rest(1))])
  BY <1>0 DEF OpenLogical
<1>2. PICK e, s, j, k, top :
           /\ e = Emit(<<Inst("test", <<Use(a[1])>>)>>, "test", NoRegister, a)
           /\ s = Emit(<<Inst("const", <<Use(v)>>)>>, IF or THEN "true" ELSE "false", v, << >>)
           /\ j = <<Jump("jne", IF or THEN merge ELSE right)>>
           /\ k = <<Jump("jmp", IF or THEN right ELSE merge)>>
           /\ top = [arg |-> v, merge |-> merge, base |-> Len(Rest(1))]
  OBVIOUS
<1>3. PICK g : g = IF or THEN s \o <<Jump("jne", merge), Jump("jmp", right)>> ELSE j \o s \o k
  OBVIOUS
<1>4. code' = code \o e \o g
  <2>1. CASE or
    BY <1>1, <1>2, <1>3, <2>1
  <2>2. CASE ~or
    BY <1>1, <1>2, <1>3, <2>2
  <2> QED BY <2>1, <2>2
<1>5. opens' = Append(opens, top)
  BY <1>1, <1>2
<1>6. (or => g = s \o <<Jump("jne", merge), Jump("jmp", right)>>) /\ (~or => g = j \o s \o k)
  BY <1>3
<1>7. v = Values[used + 1] /\ right = blocks + 1 /\ merge = blocks + 2
  BY <1>0
<1>8. /\ e = Emit(<<Inst("test", <<Use(a[1])>>)>>, "test", NoRegister, a)
      /\ s = Emit(<<Inst("const", <<Use(Values[used + 1])>>)>>,
                  IF or THEN "true" ELSE "false", Values[used + 1], << >>)
      /\ top = [arg |-> Values[used + 1], merge |-> blocks + 2, base |-> Len(Rest(1))]
  BY <1>2, <1>7
<1>9. /\ or => g = s \o <<Jump("jne", blocks + 2), Jump("jmp", blocks + 1)>>
      /\ j = <<Jump("jne", IF or THEN blocks + 2 ELSE blocks + 1)>>
      /\ k = <<Jump("jmp", IF or THEN blocks + 1 ELSE blocks + 2)>>
      /\ ~or => g = j \o s \o k
  BY <1>2, <1>6, <1>7
<1>10. temps' = Rest(1)
  BY <1>1
<1> QED BY <1>4, <1>5, <1>8, <1>9, <1>10

(* It is in the block that ends here, and jumps to the two new ones.       *)
LEMMA OpenFresh ==
  ASSUME NEW or \in BOOLEAN, NEW v \in Virtual, NEW right \in Nat, NEW merge \in Nat,
         block \in Nat, NEW kind \in {"true", "false"}, NEW j, NEW k, NEW g,
         NEW s, s = Emit(<<Inst("const", <<Use(v)>>)>>, kind, v, << >>),
         j = <<Jump("jne", IF or THEN merge ELSE right)>>,
         k = <<Jump("jmp", IF or THEN right ELSE merge)>>,
         or => g = s \o <<Jump("jne", merge), Jump("jmp", right)>>,
         ~or => g = j \o s \o k, NEW to, to = {right, merge}
  PROVE  Fresh(s, block, {}) /\ Fresh(g, block, to)
<1>1. \A b : Fresh(s, block, b)
  <2>1. v \in Register /\ "const" \in Chosen
    BY DEF Register, Chosen, Mnemonics
  <2>2. <<>> \in Seq(Virtual) /\ kind \in Completions
    BY EmptySeq DEF Completions
  <2> QED BY <2>1, <2>2, OneType, EmitFresh
<1>2. Fresh(s, block, to)
  BY <1>1
<1>3. Fresh(j, block, to) /\ Fresh(k, block, to)
  <2>1. PICK x, y : x = (IF or THEN merge ELSE right) /\ y = (IF or THEN right ELSE merge)
    OBVIOUS
  <2>2. x \in Nat /\ y \in Nat /\ x \in to /\ y \in to /\ j = <<Jump("jne", x)>> /\ k = <<Jump("jmp", y)>>
    BY <2>1
  <2> QED BY <2>2, JumpFresh
<1>4. CASE or
  <2>1. PICK h : h = j \o k
    OBVIOUS
  <2>2. h = <<Jump("jne", merge), Jump("jmp", right)>>
    BY <1>4, <2>1, JoinOneOne
  <2>3. Fresh(h, block, to)
    BY <1>3, <2>1, FreshJoin
  <2>4. g = s \o h
    BY <1>4, <2>2
  <2> QED BY <1>1, <1>2, <2>3, <2>4, FreshJoin
<1>5. CASE ~or
  <2>1. PICK h : h = j \o s
    OBVIOUS
  <2>2. Fresh(h, block, to)
    BY <1>2, <1>3, <2>1, FreshJoin
  <2>3. g = h \o k
    BY <1>5, <2>1
  <2> QED BY <1>1, <1>3, <2>2, <2>3, FreshJoin
<1> QED BY <1>4, <1>5

(* Either way the right operand starts with the rest of the values, and    *)
(* the merge block with the result as well.                                *)
LEMMA OpenSelects ==
  ASSUME NEW or \in BOOLEAN, NEW v, NEW right \in Nat, NEW merge \in Nat, block \in Nat,
         NEW j, NEW k, NEW g, NEW s \in Seq(MachInst),
         s = Emit(<<Inst("const", <<Use(v)>>)>>, IF or THEN "true" ELSE "false", v, << >>),
         j = <<Jump("jne", IF or THEN merge ELSE right)>>,
         k = <<Jump("jmp", IF or THEN right ELSE merge)>>,
         or => g = s \o <<Jump("jne", merge), Jump("jmp", right)>>,
         ~or => g = j \o s \o k,
         NEW o, NEW T, Here(o, T, {}, v), NEW B, B[merge] = Vals(T \union {v}), B[right] = Vals(T)
  PROVE  Selects(g, T, T, o, B)
<1>1. CASE or
  <2>1. s = Emit(<<Inst("const", <<Use(v)>>)>>, "true", v, << >>)
    BY <1>1
  <2>2. Selects(s, T, T \union {v}, o, B)
    BY <2>1, EmitConst
  <2> QED BY <1>1, <2>2, OrSelects
<1>2. CASE ~or
  <2>1. s = Emit(<<Inst("const", <<Use(v)>>)>>, "false", v, << >>)
    BY <1>2
  <2>2. ASSUME NEW o1, Grows(o, o1) /\ Live(T, o1)
        PROVE  Selects(s, T, T \union {v}, o1, B)
    <3>1. Here(o1, T, {}, v)
      BY <2>2 DEF Here, Grows, Live
    <3> QED BY <2>1, <3>1, EmitConst
  <2>3. RAX \notin o /\ Live(T, o)
    BY DEF Here
  <2>4. Selects(<<Jump("jne", right)>> \o s \o <<Jump("jmp", merge)>>, T, T, o, B)
    BY <2>2, <2>3, AndSelects
  <2> QED BY <1>2, <2>4
<1> QED BY <1>1, <1>2
-----------------------------------------------------------------------------
(* The new blocks: the right operand starts with the values T, and the     *)
(* merge block with v too.                                                 *)
Begun(B, n, T, v) ==
  [k \in 1..(n + 2) |->
     IF k = n + 1 THEN Vals(T) ELSE IF k = n + 2 THEN Vals(T \union {v}) ELSE B[k]]

(* More code after more code.                                              *)
LEMMA JoinMore ==
  ASSUME NEW S, NEW f \in Seq(S), NEW g \in Seq(S), NEW h \in Seq(S)
  PROVE  (f \o g) \o h = f \o (g \o h)
OBVIOUS

(* Of those of which there is code, nothing changes.                       *)
LEMMA BegunIs ==
  ASSUME NEW B, NEW n \in Nat, NEW T, NEW v, NEW B2, B2 = Begun(B, n, T, v)
  PROVE  /\ B2[n + 1] = Vals(T) /\ B2[n + 2] = Vals(T \union {v})
         /\ \A k \in 1..n : B2[k] = B[k]
<1>1. /\ n + 1 \in 1..(n + 2) /\ n + 2 \in 1..(n + 2) /\ n + 2 # n + 1
      /\ \A k \in 1..n : k \in 1..(n + 2) /\ k # n + 1 /\ k # n + 2
  OBVIOUS
<1>2. B2[n + 1] = Vals(T)
  BY <1>1 DEF Begun
<1>3. B2[n + 2] = Vals(T \union {v})
  BY <1>1 DEF Begun
<1>4. \A k \in 1..n : B2[k] = B[k]
  BY <1>1 DEF Begun
<1> QED BY <1>2, <1>3, <1>4

(* What waits for the new result.                                          *)
LEMMA WaitsOpen ==
  ASSUME NEW r \in Seq(Virtual), NEW ops \in Seq(Waiting), NEW B, Waits(r, ops, B),
         NEW v, NEW B2, \A k \in DOMAIN ops : B2[ops[k].merge] = B[ops[k].merge],
         NEW top, top.base = Len(r), top.arg = v, B2[top.merge] = Vals(ToSet(r) \union {v})
  PROVE  Waits(r, Append(ops, top), B2)
<1>0. Len(ops) \in Nat
  OBVIOUS
<1>1. PICK l, t : l = Len(ops) /\ l \in Nat /\ t = Append(ops, top)
  BY <1>0
<1>2. DOMAIN ops = 1..l /\ DOMAIN t = 1..(l + 1) /\ t[l + 1] = top
      /\ \A j \in 1..l : t[j] = ops[j]
  BY <1>1
<1>3. \A j \in DOMAIN t : j = l + 1 \/ j \in DOMAIN ops
  BY <1>1, <1>2
<1>5. \A k \in DOMAIN ops : B2[ops[k].merge] = Vals(Below(r, ops[k].base) \union {ops[k].arg})
  BY DEF Waits
<1>6. Below(r, top.base) = ToSet(r)
  <2>1. DOMAIN r = 1..Len(r)
    OBVIOUS
  <2> QED BY <2>1 DEF Below, ToSet
<1>7. B2[top.merge] = Vals(Below(r, top.base) \union {top.arg})
  BY <1>6
<1>8. \A k \in DOMAIN t : B2[t[k].merge] = Vals(Below(r, t[k].base) \union {t[k].arg})
  BY <1>2, <1>3, <1>5, <1>7
<1> QED BY <1>1, <1>8 DEF Waits

(* && and || up to their right operand,                                    *)
LEMMA OpenKeeps ==
  ASSUME TypeInv, SelectionInv, NEW or \in BOOLEAN, OpenLogical(or)
  PROVE  SelectionInv'
<1>1. PICK v, right, merge, r, n :
        v = Values[used + 1] /\ right = blocks + 1 /\ merge = blocks + 2 /\ n = 1 /\ r = Rest(n)
  OBVIOUS
<1>2. PICK a \in Operands(1) : \E e, s, j, k, g, top :
           /\ e = Emit(<<Inst("test", <<Use(a[1])>>)>>, "test", NoRegister, a)
           /\ s = Emit(<<Inst("const", <<Use(Values[used + 1])>>)>>,
                       IF or THEN "true" ELSE "false", Values[used + 1], << >>)
           /\ j = <<Jump("jne", IF or THEN blocks + 2 ELSE blocks + 1)>>
           /\ k = <<Jump("jmp", IF or THEN blocks + 1 ELSE blocks + 2)>>
           /\ or => g = s \o <<Jump("jne", blocks + 2), Jump("jmp", blocks + 1)>>
           /\ ~or => g = j \o s \o k
           /\ code' = code \o e \o g
           /\ temps' = Rest(1)
           /\ top = [arg |-> Values[used + 1], merge |-> blocks + 2, base |-> Len(Rest(1))]
           /\ opens' = Append(opens, top)
  BY OpenForm
<1>2a. PICK e, s, j, k, g, top :
           /\ e = Emit(<<Inst("test", <<Use(a[1])>>)>>, "test", NoRegister, a)
           /\ s = Emit(<<Inst("const", <<Use(Values[used + 1])>>)>>,
                       IF or THEN "true" ELSE "false", Values[used + 1], << >>)
           /\ j = <<Jump("jne", IF or THEN blocks + 2 ELSE blocks + 1)>>
           /\ k = <<Jump("jmp", IF or THEN blocks + 1 ELSE blocks + 2)>>
           /\ or => g = s \o <<Jump("jne", blocks + 2), Jump("jmp", blocks + 1)>>
           /\ ~or => g = j \o s \o k
           /\ code' = code \o e \o g
           /\ temps' = Rest(1)
           /\ top = [arg |-> Values[used + 1], merge |-> blocks + 2, base |-> Len(Rest(1))]
           /\ opens' = Append(opens, top)
  BY <1>2
<1>3. /\ e = Emit(<<Inst("test", <<Use(a[1])>>)>>, "test", NoRegister, a)
      /\ s = Emit(<<Inst("const", <<Use(v)>>)>>, IF or THEN "true" ELSE "false", v, << >>)
      /\ j = <<Jump("jne", IF or THEN merge ELSE right)>>
      /\ k = <<Jump("jmp", IF or THEN right ELSE merge)>>
      /\ or => g = s \o <<Jump("jne", merge), Jump("jmp", right)>>
      /\ ~or => g = j \o s \o k
      /\ code' = code \o e \o g
      /\ temps' = r
      /\ top = [arg |-> v, merge |-> merge, base |-> Len(r)]
      /\ opens' = Append(opens, top)
  BY <1>1, <1>2a
<1>4. /\ stage = "select" /\ used < Len(Values) /\ used' = used + 1
      /\ blocks' = merge /\ block' = right
  BY <1>1 DEF OpenLogical
<1>5. /\ NamesOk(temps, used, opens)
      /\ BlocksOk(code, opens, block, blocks)
  BY <1>4 DEF SelectionInv
<1>6. PICK B : Leaves(code, temps, block, B) /\ Waits(temps, opens, B)
  BY <1>4 DEF SelectionInv
<1>7. /\ temps \in Seq(Virtual) /\ opens \in Seq(Waiting) /\ code \in Seq(MachInst)
      /\ block \in Nat /\ blocks \in Nat
  BY <1>4 DEF TypeInv, Waiting
<1>8. n \in Nat /\ a \in Operands(n) /\ r = Rest(n)
  BY <1>1
<1>9. /\ r \in Seq(Virtual) /\ a \in Seq(Virtual)
      /\ n <= Len(temps) /\ Len(r) = Len(temps) - n /\ Len(a) = n
      /\ \A q \in 1..Len(r) : r[q] = temps[q]
      /\ ToSet(temps) = ToSet(r) \union ToSet(a)
      /\ ToSet(r) \intersect ToSet(a) = {}
      /\ \A q \in DOMAIN opens : opens[q].base <= Len(r)
  BY <1>5, <1>8, OperandsAre
<1>10. v \in Virtual /\ \A q \in DOMAIN temps : temps[q] # v
  BY <1>1, <1>4, <1>5, NamesNew
<1>11. PICK T, x, kind : T = ToSet(r) /\ x = a[1] /\ kind = IF or THEN "true" ELSE "false"
  OBVIOUS
<1>12. a = <<x>> /\ ToSet(a) = {x} /\ x \in Virtual
  <2>1. Len(a) = 1
    BY <1>1, <1>9
  <2>2. a = <<a[1]>> /\ {a[q] : q \in DOMAIN a} = {a[1]}
    BY <1>9, <2>1, ShortIs
  <2>3. a[1] \in Virtual
    BY <1>9, <2>1, OnlyIn
  <2> QED BY <1>11, <2>2, <2>3 DEF ToSet
<1>13. right \in Nat /\ merge \in Nat /\ kind \in {"true", "false"}
  BY <1>1, <1>7, <1>11
<1>14. PICK to : to = {right, merge}
  OBVIOUS
<1>15. Fresh(s, block, {}) /\ Fresh(g, block, to)
  BY <1>3, <1>7, <1>10, <1>11, <1>13, <1>14, OpenFresh
<1>16. \A b : Fresh(e, block, b)
  <2>1. x \in Register /\ "test" \in Chosen /\ "test" \in Completions
    BY <1>12 DEF Register, Chosen, Mnemonics, Completions
  <2>2. <<Inst("test", <<Use(x)>>)>> \in Seq(Selection)
    BY <2>1, OneType
  <2>3. e = Emit(<<Inst("test", <<Use(x)>>)>>, "test", NoRegister, a)
    BY <1>3, <1>11
  <2>4. NoRegister \in Virtual \union {NoRegister}
    OBVIOUS
  <2> QED BY <1>7, <1>9, <2>1, <2>2, <2>3, <2>4, EmitFresh
<1>17. /\ e \in Seq(MachInst) /\ \A q \in DOMAIN e : e[q].block = block
       /\ g \in Seq(MachInst) /\ \A q \in DOMAIN g : g[q].block = block
       /\ s \in Seq(MachInst)
  BY <1>15, <1>16 DEF Fresh
<1>18. PICK B2 : B2 = Begun(B, blocks, T, v)
  OBVIOUS
<1>19. B2[right] = Vals(T) /\ B2[merge] = Vals(T \union {v}) /\ \A q \in 1..blocks : B2[q] = B[q]
  <2>1. PICK m : m = blocks
    OBVIOUS
  <2>2. m \in Nat /\ B2 = Begun(B, m, T, v) /\ right = m + 1 /\ merge = m + 2
    BY <1>1, <1>7, <1>18, <2>1
  <2>3. /\ B2[m + 1] = Vals(T) /\ B2[m + 2] = Vals(T \union {v})
        /\ \A q \in 1..m : B2[q] = B[q]
    BY <2>2, BegunIs
  <2> QED BY <2>1, <2>2, <2>3
<1>20. Leaves(code, temps, block, B2)
  BY <1>5, <1>6, <1>19, LeavesRebind
<1>21. PICK c1 : c1 = code \o e
  OBVIOUS
<1>22. c1 \in Seq(MachInst)
  BY <1>7, <1>17, <1>21
<1>23. PICK W : W = T \union {x}
  OBVIOUS
<1>24. W = ToSet(temps)
  BY <1>9, <1>11, <1>12, <1>23
<1>25. Leaves(c1, r, block, B2)
  <2>1. PICK C, o : HeldTo(code, temps, block, C, B2, o)
    BY <1>20 DEF Leaves
  <2>2. RAX \notin o /\ Live(T, o) /\ Live({x}, o)
    BY <1>23, <1>24, <2>1 DEF HeldTo, Live
  <2>3. Selects(e, T \union {x}, T, o, B2)
    <3>1. e = Emit(<<Inst("test", <<Use(x)>>)>>, "test", NoRegister, <<x>>)
      BY <1>3, <1>12
    <3> QED BY <1>17, <2>2, <3>1, EmitTest
  <2>4. Selects(e, W, T, o, B2)
    BY <1>23, <2>3
  <2>5. Leaves(code \o e, r, block, B2)
    BY <1>7, <1>11, <1>17, <1>24, <2>1, <2>4, HeldGrow
  <2> QED BY <1>21, <2>5
<1>26. Leaves(c1 \o g, r, block, B2)
  <2>1. PICK C, o : HeldTo(c1, r, block, C, B2, o)
    BY <1>25 DEF Leaves
  <2>2. Here(o, T, {}, v)
    <3>1. v \notin ToSet(temps)
      BY <1>10, NotOn
    <3>2. v \notin T
      BY <1>23, <1>24, <3>1
    <3>3. RAX \notin o /\ Live(T, o)
      BY <1>11, <2>1 DEF HeldTo
    <3> QED BY <1>10, <3>2, <3>3 DEF Here, Live
  <2>3. Selects(g, T, T, o, B2)
    <3>1. /\ s = Emit(<<Inst("const", <<Use(v)>>)>>, IF or THEN "true" ELSE "false", v, << >>)
          /\ j = <<Jump("jne", IF or THEN merge ELSE right)>>
          /\ k = <<Jump("jmp", IF or THEN right ELSE merge)>>
      BY <1>3
    <3>2. /\ or => g = s \o <<Jump("jne", merge), Jump("jmp", right)>>
          /\ ~or => g = j \o s \o k
      BY <1>3
    <3>3. s \in Seq(MachInst) /\ right \in Nat /\ merge \in Nat /\ block \in Nat
      BY <1>7, <1>13, <1>17
    <3>4. B2[merge] = Vals(T \union {v}) /\ B2[right] = Vals(T)
      BY <1>19
    <3> QED BY <2>2, <3>1, <3>2, <3>3, <3>4, OpenSelects
  <2> QED BY <1>11, <1>17, <1>22, <2>1, <2>3, HeldGrow
<1>27. Leaves(code', temps', block', B2)
  <2>1. Vals(ToSet(r)) \subseteq B2[right]
    BY <1>11, <1>19
  <2>2. Leaves(c1 \o g, r, right, B2)
    BY <1>26, <2>1, LeavesTurn
  <2> QED BY <1>3, <1>4, <1>21, <2>2
<1>28. top \in Waiting /\ top.arg = v /\ top.merge = merge /\ top.base = Len(r)
  <2>1. Len(r) \in Nat
    BY <1>9
  <2> QED BY <1>3, <1>10, <1>13, <2>1 DEF Waiting
<1>29. NamesOk(temps', used', opens')
  <2>1. Len(r) <= Len(temps)
    BY <1>7, <1>8, <1>9
  <2>2. NamesOk(r, used, opens)
    BY <1>5, <1>7, <1>9, <2>1, NamesCut
  <2>3. top.arg = Values[used + 1]
    BY <1>1, <1>28
  <2>4. NamesOk(r, used + 1, Append(opens, top))
    BY <1>4, <1>7, <1>9, <1>28, <2>2, <2>3, NamesOpen
  <2> QED BY <1>3, <1>4, <2>4
<1>30. BlocksOk(code', opens', block', blocks')
  <2>1. Fresh(e, block, to)
    BY <1>16
  <2>2. PICK h : h = e \o g
    OBVIOUS
  <2>3. Fresh(h, block, to)
    BY <1>15, <2>1, <2>2, FreshJoin
  <2>4. to = {blocks + 1, blocks + 2} /\ top.merge = blocks + 2
    BY <1>1, <1>14, <1>28
  <2>5. Fresh(h, block, {blocks + 1, blocks + 2})
    BY <2>3, <2>4
  <2>6. BlocksOk(code \o h, Append(opens, top), blocks + 1, blocks + 2)
    BY <1>5, <1>7, <1>28, <2>4, <2>5, BlocksOpen
  <2>7. code' = code \o h
    <3>1. PICK c : c = code
      OBVIOUS
    <3>2. c \in Seq(MachInst) /\ code' = (c \o e) \o g
      BY <1>3, <1>7, <3>1
    <3>3. (c \o e) \o g = c \o (e \o g)
      BY <1>17, <3>2, JoinMore, SMTT(30)
    <3> QED BY <2>2, <3>1, <3>2, <3>3
  <2> QED BY <1>1, <1>3, <1>4, <2>6, <2>7
<1>31. Waits(temps', opens', B2)
  <2>1. Len(r) \in Nat
    BY <1>9
  <2>2. Waits(r, opens, B)
    BY <1>6, <1>7, <1>9, <2>1, WaitsKept
  <2>3. B2[top.merge] = Vals(ToSet(r) \union {v})
    BY <1>11, <1>19, <1>28
  <2>4. Waits(r, Append(opens, top), B2)
    <3>1. \A q \in DOMAIN opens : B2[opens[q].merge] = B[opens[q].merge]
      BY <1>5, <1>19 DEF BlocksOk
    <3>2. top.base = Len(r) /\ top.arg = v
      BY <1>28
    <3> QED BY <1>7, <1>9, <2>2, <2>3, <3>1, <3>2, WaitsOpen, ZenonT(30)
  <2> QED BY <1>3, <2>4
<1> QED BY <1>27, <1>29, <1>30, <1>31 DEF SelectionInv
-----------------------------------------------------------------------------
(* Of those that wait, some still do.                                      *)
LEMMA WaitsLess ==
  ASSUME NEW tm, NEW ops, NEW B, Waits(tm, ops, B),
         NEW f, \A j \in DOMAIN f : j \in DOMAIN ops /\ f[j] = ops[j]
  PROVE  Waits(tm, f, B)
BY DEF Waits

(* The value x on top of the stack tm, and the b values r below it.        *)
OnTop(tm, b, r, x) ==
  /\ r \in Seq(Virtual) /\ Len(r) = b /\ x \in Virtual
  /\ \A j \in 1..b : r[j] = tm[j]
  /\ ToSet(tm) = ToSet(r) \union {x} /\ x \notin ToSet(r)
  /\ Below(tm, b) = ToSet(r)

(* They are the last, and the others.                                      *)
LEMMA StackTop ==
  ASSUME NEW tm \in Seq(Virtual), NEW b \in Nat, Len(tm) = b + 1,
         \A i, j \in DOMAIN tm : tm[i] = tm[j] => i = j,
         NEW r, r = SubSeq(tm, 1, b), NEW x, x = Last(tm)
  PROVE  OnTop(tm, b, r, x)
<1>1. PICK n, a, t, u : n = 1 /\ t = tm /\ a = SubSeq(t, Len(t) - n + 1, Len(t)) /\ u = r
  OBVIOUS
<1>2. n \in Nat /\ n <= Len(t) /\ t \in Seq(Virtual)
  BY <1>1
<1>3. /\ r \in Seq(Virtual) /\ a \in Seq(Virtual)
      /\ Len(r) = Len(tm) - n /\ Len(a) = n
      /\ \A j \in 1..Len(r) : r[j] = tm[j]
      /\ \A j \in 1..n : a[j] = tm[Len(tm) - n + j]
      /\ Parts(tm, r, a)
  <2>1. u = SubSeq(t, 1, Len(t) - n)
    BY <1>1
  <2>2. a = SubSeq(t, Len(t) - n + 1, Len(t))
    BY <1>1
  <2>3. \A i, j \in DOMAIN t : t[i] = t[j] => i = j
    BY <1>1
  <2>4. u \in Seq(Virtual) /\ a \in Seq(Virtual)
    BY <1>2, <2>1, <2>2, <2>3, StackSplit
  <2>5. Len(u) = Len(t) - n /\ Len(a) = n
    BY <1>2, <2>1, <2>2, <2>3, StackSplit
  <2>6. \A j \in 1..Len(u) : u[j] = t[j]
    BY <1>2, <2>1, <2>2, <2>3, StackSplit
  <2>7. \A j \in 1..n : a[j] = t[Len(t) - n + j]
    BY <1>2, <2>1, <2>2, <2>3, StackSplit
  <2>8. Parts(t, u, a)
    BY <1>2, <2>1, <2>2, <2>3, StackSplit
  <2> QED BY <1>1, <2>4, <2>5, <2>6, <2>7, <2>8
<1>4. Len(r) = b /\ Len(a) = 1 /\ a[1] = tm[Len(tm)]
  BY <1>1, <1>3
<1>5. x = tm[Len(tm)] /\ Len(tm) \in DOMAIN tm
  BY DEF Last
<1>6. x \in Virtual
  BY <1>5
<1>7. ToSet(a) = {x}
  <2>1. {a[q] : q \in DOMAIN a} = {a[1]}
    BY <1>3, <1>4, ShortIs
  <2> QED BY <1>4, <1>5, <2>1 DEF ToSet
<1>8. ToSet(tm) = ToSet(r) \union {x} /\ x \notin ToSet(r)
  BY <1>3, <1>7 DEF Parts
<1>9. Below(tm, b) = ToSet(r)
  <2>1. DOMAIN r = 1..b /\ \A j \in 1..b : r[j] = tm[j]
    BY <1>3, <1>4
  <2> QED BY <2>1 DEF Below, ToSet
<1> QED BY <1>3, <1>4, <1>6, <1>8, <1>9 DEF OnTop

(* && and || from their right operand on.                                  *)
LEMMA CloseKeeps ==
  ASSUME TypeInv, SelectionInv, CloseLogical
  PROVE  SelectionInv'
<1>1. PICK top, x, f : top = Last(opens) /\ x = Last(temps) /\ f = Front(opens)
  OBVIOUS
<1>2. PICK v, merge, base : v = top.arg /\ merge = top.merge /\ base = top.base
  OBVIOUS
<1>3. PICK e, j, r : /\ e = Emit(<<Mov(x, v)>>, "copy", v, <<x>>)
                     /\ j = <<Jump("jmp", merge)>>
                     /\ r = SubSeq(temps, 1, base)
  OBVIOUS
<1>4. /\ stage = "select" /\ opens # << >> /\ Len(temps) = base + 1
      /\ code' = (code \o e) \o j /\ temps' = Append(r, v)
      /\ block' = merge /\ opens' = f /\ used' = used /\ blocks' = blocks
  BY <1>1, <1>2, <1>3 DEF CloseLogical
<1>5. /\ NamesOk(temps, used, opens)
      /\ BlocksOk(code, opens, block, blocks)
  BY <1>4 DEF SelectionInv
<1>6. PICK B : Leaves(code, temps, block, B) /\ Waits(temps, opens, B)
  BY <1>4 DEF SelectionInv
<1>7. /\ temps \in Seq(Virtual) /\ opens \in Seq(Waiting) /\ code \in Seq(MachInst)
      /\ block \in Nat
  BY <1>4 DEF TypeInv, Waiting
<1>8. /\ NamesOk(temps, used, f)
      /\ f \in Seq(Waiting) /\ top \in Waiting
      /\ \A q \in DOMAIN f : q \in DOMAIN opens /\ f[q] = opens[q]
      /\ \A q \in DOMAIN f : f[q].base <= top.base /\ f[q].arg # top.arg
      /\ \E n \in DOMAIN opens : n \notin DOMAIN f /\ top = opens[n]
  <2>1. top = Last(opens) /\ f = Front(opens) /\ opens # << >>
    BY <1>1, <1>4
  <2>2. NamesOk(temps, used, opens) /\ temps \in Seq(Virtual) /\ opens \in Seq(Waiting)
    BY <1>5, <1>7
  <2>3. Closed(temps, used, opens, top, f)
    BY <2>1, <2>2, NamesClose
  <2> QED BY <2>3 DEF Closed
<1>9. PICK k : k \in DOMAIN opens /\ k \notin DOMAIN f /\ top = opens[k]
  BY <1>8
<1>10. v \in Virtual /\ merge \in Nat /\ base \in Nat
  BY <1>2, <1>8 DEF Waiting
<1>11. \A p, q \in DOMAIN temps : temps[p] = temps[q] => p = q
  BY <1>5 DEF NamesOk
<1>12. /\ r \in Seq(Virtual) /\ Len(r) = base /\ x \in Virtual
       /\ \A q \in 1..base : r[q] = temps[q]
       /\ ToSet(temps) = ToSet(r) \union {x} /\ x \notin ToSet(r)
       /\ Below(temps, base) = ToSet(r)
  <2>1. r = SubSeq(temps, 1, base) /\ x = Last(temps) /\ Len(temps) = base + 1
    BY <1>1, <1>3, <1>4
  <2>2. temps \in Seq(Virtual) /\ base \in Nat
    BY <1>7, <1>10
  <2>3. OnTop(temps, base, r, x)
    BY <1>11, <2>1, <2>2, StackTop
  <2> QED BY <2>3 DEF OnTop
<1>13. \A q \in DOMAIN temps : temps[q] # v
  BY <1>2, <1>5, <1>9 DEF NamesOk
<1>14. \A q \in DOMAIN r : r[q] # v
  <2>1. DOMAIN r = 1..base /\ \A q \in 1..base : q \in DOMAIN temps
    BY <1>4, <1>7, <1>10, <1>12
  <2> QED BY <1>12, <1>13, <2>1
<1>15. PICK T, to, tn : T = ToSet(r) /\ to = {merge} /\ tn = Append(r, v)
  OBVIOUS
<1>16. Fresh(e, block, to) /\ Fresh(j, block, to)
  <2>1. <<Mov(x, v)>> \in Seq(Selection)
    <3>1. Mov(x, v) \in Selection
      BY <1>10, <1>12, MovType DEF Register
    <3> QED BY <3>1, OneType
  <2>2. <<x>> \in Seq(Virtual) /\ "copy" \in Completions
    BY <1>12, OneType DEF Completions
  <2>3. Fresh(e, block, to)
    BY <1>3, <1>7, <1>10, <2>1, <2>2, EmitFresh
  <2>4. merge \in to
    BY <1>15
  <2>5. Fresh(j, block, to)
    BY <1>3, <1>7, <1>10, <2>4, JumpFresh
  <2> QED BY <2>3, <2>5
<1>17. /\ e \in Seq(MachInst) /\ \A q \in DOMAIN e : e[q].block = block
       /\ j \in Seq(MachInst) /\ \A q \in DOMAIN j : j[q].block = block
  BY <1>16 DEF Fresh
<1>18. PICK W, U : W = T \union {x} /\ U = T \union {v}
  OBVIOUS
<1>19. W = ToSet(temps) /\ ToSet(tn) = U /\ v \notin ToSet(temps)
  <2>1. ToSet(Append(r, v)) = ToSet(r) \union {v}
    BY <1>12, ToSetAppend
  <2>2. v \notin ToSet(temps)
    BY <1>13, NotOn
  <2> QED BY <1>12, <1>15, <1>18, <2>1, <2>2
<1>20. PICK c1 : c1 = code \o e
  OBVIOUS
<1>21. c1 \in Seq(MachInst)
  BY <1>7, <1>17, <1>20
<1>22. Leaves(c1, tn, block, B)
  <2>1. PICK C, o : HeldTo(code, temps, block, C, B, o)
    BY <1>6 DEF Leaves
  <2>2. RAX \notin o /\ Live(ToSet(temps), o)
    BY <2>1 DEF HeldTo
  <2>3. Here(o, T, {x}, v)
    <3>1. Live(T, o) /\ Live({x}, o)
      BY <1>18, <1>19, <2>2 DEF Live
    <3>2. v \notin T /\ v \notin {x} /\ {x} \intersect T = {}
      BY <1>12, <1>15, <1>18, <1>19
    <3> QED BY <1>10, <2>2, <3>1, <3>2 DEF Here
  <2>4. Selects(e, T \union {x}, T \union {v}, o, B)
    BY <1>3, <1>17, <2>3, EmitCopy
  <2>5. Selects(e, W, U, o, B)
    BY <1>18, <2>4
  <2>6. Leaves(code \o e, tn, block, B)
    BY <1>7, <1>17, <1>19, <2>1, <2>5, HeldGrow
  <2> QED BY <1>20, <2>6
<1>23. B[merge] = Vals(U)
  <2>1. B[opens[k].merge] = Vals(Below(temps, opens[k].base) \union {opens[k].arg})
    BY <1>6, <1>9 DEF Waits
  <2> QED BY <1>2, <1>9, <1>12, <1>15, <1>18, <2>1
<1>24. Leaves(c1 \o j, tn, block, B)
  <2>1. PICK C, o : HeldTo(c1, tn, block, C, B, o)
    BY <1>22 DEF Leaves
  <2>2. RAX \notin o /\ Live(U, o)
    BY <1>19, <2>1 DEF HeldTo
  <2>3. Selects(j, U, U, o, B)
    <3>1. B[merge] \subseteq Vals(U)
      BY <1>23
    <3> QED BY <1>3, <1>7, <1>10, <2>2, <3>1, LeapSelects
  <2>4. PICK T2 : T2 = ToSet(tn)
    OBVIOUS
  <2>5. Selects(j, T2, U, o, B)
    BY <1>19, <2>3, <2>4
  <2> QED BY <1>17, <1>19, <1>21, <2>1, <2>4, <2>5, HeldGrow
<1>25. Leaves(code', temps', block', B)
  <2>1. Vals(ToSet(tn)) \subseteq B[merge]
    BY <1>19, <1>23
  <2>2. Leaves(c1 \o j, tn, merge, B)
    BY <1>24, <2>1, LeavesTurn
  <2> QED BY <1>4, <1>15, <1>20, <2>2
<1>26. NamesOk(temps', used', opens')
  <2>1. \A q \in DOMAIN f : f[q].base <= Len(r) /\ f[q].arg # v
    BY <1>2, <1>8, <1>12
  <2>2. Len(r) <= Len(temps) /\ \A q \in 1..Len(r) : r[q] = temps[q]
    BY <1>4, <1>10, <1>12
  <2>3. NamesOk(r, used, f)
    BY <1>7, <1>8, <1>12, <2>1, <2>2, NamesCut
  <2>4. /\ used \in Nat /\ used <= used /\ used <= Len(Values)
        /\ \E q \in 1..used : v = Values[q]
    BY <1>2, <1>5, <1>9 DEF NamesOk
  <2>5. NamesOk(Append(r, v), used, f)
    BY <1>8, <1>12, <1>14, <2>1, <2>3, <2>4, NamesPut
  <2> QED BY <1>4, <2>5
<1>27. BlocksOk(code', opens', block', blocks')
  <2>1. PICK h : h = e \o j
    OBVIOUS
  <2>2. Fresh(h, block, to)
    BY <1>16, <2>1, FreshJoin
  <2>3. Fresh(h, block, {merge})
    BY <1>15, <2>2
  <2>4. merge = opens[k].merge
    BY <1>2, <1>9
  <2>5. \A q \in DOMAIN f : q \in DOMAIN opens /\ f[q] = opens[q]
    BY <1>8
  <2>6. BlocksOk(code \o h, f, merge, blocks)
    BY <1>5, <1>7, <1>9, <2>3, <2>4, <2>5, BlocksClose
  <2>7. code' = code \o h
    <3>1. PICK c : c = code
      OBVIOUS
    <3>2. c \in Seq(MachInst) /\ code' = (c \o e) \o j
      BY <1>4, <1>7, <3>1
    <3>3. (c \o e) \o j = c \o (e \o j)
      BY <1>17, <3>2, JoinMore
    <3> QED BY <2>1, <3>1, <3>2, <3>3
  <2> QED BY <1>4, <2>6, <2>7
<1>28. Waits(temps', opens', B)
  <2>1. Waits(temps, f, B)
    BY <1>6, <1>8, WaitsLess
  <2>2. \A q \in DOMAIN f : f[q].base <= base
    BY <1>2, <1>8
  <2>3. \A q \in 1..base : tn[q] = temps[q]
    BY <1>10, <1>12, <1>15
  <2>4. Waits(tn, f, B)
    BY <1>8, <1>10, <2>1, <2>2, <2>3, WaitsKept
  <2> QED BY <1>4, <1>15, <2>4
<1> QED BY <1>25, <1>26, <1>27, <1>28 DEF SelectionInv
-----------------------------------------------------------------------------
(* The code is complete: it can be typed from its begin to its end.        *)
Complete(c) == Forward(c) /\ \E C, B : Typed(c, C, B)

(* A return completes the code.                                            *)
LEMMA ReturnCompletes ==
  ASSUME NEW c \in Seq(MachInst), NEW tm, NEW b, NEW B, Leaves(c, tm, b, B),
         NEW x, ToSet(tm) = {x}, NEW e \in Seq(MachInst), \A q \in DOMAIN e : e[q].block = b,
         \A o : Live({x}, o) => Returns(e, {x}, o, B)
  PROVE  \E C : Typed(c \o e, C, B)
<1>1. PICK C, o : HeldTo(c, tm, b, C, B, o)
  BY DEF Leaves
<1>2. PICK P, A : P = St(Vals(A), {}, o) /\ A = {x}
  OBVIOUS
<1>3. P.held = Vals(A) /\ P.flags = {}
  BY <1>2 DEF St
<1>4. Live(A, o) /\ A = ToSet(tm)
  BY <1>1, <1>2 DEF HeldTo
<1>5. PICK Q : Goes(e, P, Q, B) /\ Q.held = {} /\ Q.flags = {}
  <2>1. Returns(e, A, o, B)
    BY <1>2, <1>4
  <2> QED BY <1>2, <2>1 DEF Returns
<1>6. Ends(c \o e, Q, B)
  <2>1. Sound(c, C, B) /\ P = C[Len(c) + 1] /\ P.flags = {}
    BY <1>1, <1>2, <1>3, <1>4 DEF HeldTo
  <2>2. (\A p \in DOMAIN c : c[p].block # b) => P.held \subseteq B[b]
    BY <1>1, <1>3, <1>4 DEF HeldTo
  <2> QED BY <1>5, <2>1, <2>2, SoundJoin
<1>7. PICK D : Sound(c \o e, D, B) /\ D[Len(c \o e) + 1] = Q
  BY <1>6 DEF Ends
<1>8. Typed(c \o e, D, B)
  BY <1>5, <1>7 DEF Typed, Sound
<1> QED BY <1>8

(* The return statement.                                                   *)
LEMMA ReturnKeeps == ASSUME TypeInv, SelectionInv, Return PROVE Complete(code')
<1>1. PICK n, r : n = 1 /\ r = Rest(n)
  OBVIOUS
<1>2. PICK a \in Operands(n) : code' = code \o Emit(SelectReturn(a[1]), "ret", NoRegister, a)
  BY <1>1 DEF Return
<1>3. PICK x, e : x = a[1] /\ e = Emit(SelectReturn(a[1]), "ret", NoRegister, a)
  OBVIOUS
<1>4. stage = "select" /\ opens = << >> /\ Len(temps) = 1
  BY DEF Return
<1>5. /\ NamesOk(temps, used, opens)
      /\ BlocksOk(code, opens, block, blocks)
  BY <1>4 DEF SelectionInv
<1>6. PICK B : Leaves(code, temps, block, B)
  BY <1>4 DEF SelectionInv
<1>7. temps \in Seq(Virtual) /\ code \in Seq(MachInst) /\ block \in Nat
  BY <1>4 DEF TypeInv
<1>8. n \in Nat
  BY <1>1
<1>9. /\ r \in Seq(Virtual) /\ a \in Seq(Virtual)
      /\ n <= Len(temps) /\ Len(r) = Len(temps) - n /\ Len(a) = n
      /\ \A q \in 1..Len(r) : r[q] = temps[q]
      /\ ToSet(temps) = ToSet(r) \union ToSet(a)
      /\ ToSet(r) \intersect ToSet(a) = {}
      /\ \A q \in DOMAIN opens : opens[q].base <= Len(r)
  <2>1. r = Rest(n)
    BY <1>1
  <2> QED BY <1>5, <1>8, <2>1, OperandsAre
<1>10. a = <<x>> /\ ToSet(a) = {x} /\ x \in Virtual
  <2>1. Len(a) = 1
    BY <1>1, <1>9
  <2>2. a = <<a[1]>> /\ {a[q] : q \in DOMAIN a} = {a[1]}
    BY <1>9, <2>1, ShortIs
  <2>3. a[1] \in Virtual
    BY <1>9, <2>1, OnlyIn
  <2> QED BY <1>3, <2>2, <2>3 DEF ToSet
<1>11. ToSet(temps) = {x}
  <2>1. Len(r) = 0
    BY <1>1, <1>4, <1>9
  <2>2. ToSet(r) = {}
    BY <1>9, <2>1 DEF ToSet
  <2> QED BY <1>9, <1>10, <2>2
<1>12. \A to : Fresh(e, block, to)
  <2>1. SelectReturn(a[1]) \in Seq(Selection)
    BY <1>3, <1>10, StoreReturnType DEF SelectReturn
  <2> QED BY <1>3, <1>7, <1>9, <2>1, EmitFresh DEF Completions
<1>13. Fresh(e, block, {}) /\ e \in Seq(MachInst) /\ \A q \in DOMAIN e : e[q].block = block
  <2>1. Fresh(e, block, {})
    BY <1>12
  <2> QED BY <2>1 DEF Fresh
<1>14. ASSUME NEW o, Live({x}, o)
       PROVE  Returns(e, {x}, o, B)
  <2>1. e = Emit(SelectReturn(x), "ret", NoRegister, <<x>>)
    BY <1>3, <1>10
  <2> QED BY <1>13, <1>14, <2>1, EmitReturn
<1>15. \E C : Typed(code \o e, C, B)
  BY <1>6, <1>7, <1>11, <1>13, <1>14, ReturnCompletes
<1>16. Forward(code \o e)
  <2>1. BlocksOk(code \o e, opens, block, blocks)
    BY <1>5, <1>7, <1>13, BlocksGrow
  <2> QED BY <2>1 DEF BlocksOk
<1> QED BY <1>2, <1>3, <1>15, <1>16 DEF Complete

(* What the allocator is given is complete, and stays it.                  *)
CompleteInv == stage \in {"scan", "assign", "spill"} => Complete(code)

(* No code is typed, and no value is held.                                 *)
LEMMA SelectionInit == Init => SelectionInv /\ CompleteInv
<1> SUFFICES ASSUME Init PROVE SelectionInv /\ CompleteInv
  OBVIOUS
<1>1. /\ stage = "select" /\ code = << >> /\ temps = << >> /\ used = 0 /\ opens = << >>
      /\ blocks = 1 /\ block = 1
  BY DEF Init
<1>2. NamesOk(temps, used, opens)
  BY <1>1, ValuesAre DEF NamesOk
<1>3. BlocksOk(code, opens, block, blocks)
  BY <1>1 DEF BlocksOk, Forward
<1>4. PICK C, B, o : o = {} /\ C = [p \in {1} |-> St({}, {}, o)] /\ B = [k \in {1} |-> {}]
  OBVIOUS
<1>5. C[1] = St({}, {}, o) /\ B[1] = {}
  BY <1>4
<1>6. C[1].held = {} /\ C[1].flags = {} /\ C[1].open = {}
  BY <1>4, <1>5 DEF St
<1>7. ToSet(<< >>) = {} /\ Vals({}) = {} /\ DOMAIN << >> = {} /\ Len(<< >>) + 1 = 1
  BY DEF ToSet, Vals
<1>8. HeldTo(<< >>, << >>, 1, C, B, o)
  <2>1. Sound(<< >>, C, B)
    BY <1>6, <1>7 DEF Sound
  <2>2. C[Len(<< >>) + 1] = St(Vals(ToSet(<< >>)), {}, o)
    BY <1>5, <1>7
  <2>3. RAX \notin o /\ Live(ToSet(<< >>), o)
    BY <1>4, <1>7 DEF Live
  <2>4. Vals(ToSet(<< >>)) \subseteq B[1]
    BY <1>7
  <2> QED BY <2>1, <2>2, <2>3, <2>4 DEF HeldTo
<1>9. Leaves(code, temps, block, B)
  BY <1>1, <1>8 DEF Leaves
<1>10. Waits(temps, opens, B)
  BY <1>1 DEF Waits
<1> QED BY <1>1, <1>2, <1>3, <1>9, <1>10 DEF SelectionInv, CompleteInv

(* Every step of the selection keeps what is known of its code, and the    *)
(* last hands over complete code.                                          *)
LEMMA SelectionStep ==
  ASSUME Inv, SelectionInv, CompleteInv, [Next]_vars
  PROVE  SelectionInv' /\ CompleteInv'
<1>1. TypeInv
  BY DEF Inv
<1>2. CASE (\E kind \in Selected : Generate(kind)) \/ Assign \/ Discard
           \/ (\E or \in BOOLEAN : OpenLogical(or)) \/ CloseLogical
  <2>1. SelectionInv'
    BY <1>1, <1>2, GenerateKeeps, AssignKeeps, DiscardKeeps, OpenKeeps, CloseKeeps
  <2>2. stage' = "select"
    BY <1>2 DEF Generate, Assign, Discard, OpenLogical, CloseLogical, allocVars
  <2> QED BY <2>1, <2>2 DEF CompleteInv
<1>3. CASE Return
  <2>1. Complete(code') /\ stage' = "scan"
    BY <1>1, <1>3, ReturnKeeps DEF Return
  <2> QED BY <2>1 DEF SelectionInv, CompleteInv
<1>4. CASE /\ stage' # "select"
           /\ stage' \in {"scan", "assign", "spill"} =>
                stage \in {"scan", "assign", "spill"} /\ code' = code
  BY <1>4 DEF SelectionInv, CompleteInv
<1>5. CASE Allocate \/ Run \/ Execute
  BY <1>4, <1>5 DEF Allocate, AllocNext, ScanOperand, ScanInst, ScanEnds, KeepRegister,
     AssignRegister, AssignFails, AssignEnds, PlaceSpills, Run, Execute, allocVars
<1>6. CASE UNCHANGED vars
  BY <1>6 DEF vars, allocVars, selectVars, SelectionInv, CompleteInv
<1> QED
  BY <1>2, <1>3, <1>5, <1>6 DEF Next

(* Where no call finds two values to spill, the machine computes what the  *)
(* graph says, whatever way it takes through the function: of every        *)
(* function the code generator can emit, with any pool of registers.       *)
THEOREM ComputesWithoutSwapCorrect == Spec => []ComputesWithoutSwap
<1> DEFINE All == /\ Inv /\ ScanPlace /\ ScanInv /\ AssignInv /\ CodeInv /\ StackInv
                  /\ SelectionInv /\ CompleteInv /\ RunInv
<1>1. Init => All
  <2> SUFFICES ASSUME Init PROVE All
    OBVIOUS
  <2>1. /\ stage = "select" /\ pos = 1 /\ oper = 1 /\ next = 1
        /\ result = [machine |-> Junk, graph |-> Junk]
    BY DEF Init, InitAlloc
  <2>2. ScanPlace /\ ScanInv /\ AssignInv /\ RunInv
    BY <2>1 DEF ScanPlace, ScanInv, AssignInv, RunInv
  <2> QED BY <2>2, InitInv, StackInit, SelectionInit
<1>2. All /\ [Next]_vars => All'
  <2> SUFFICES ASSUME All, [Next]_vars PROVE All'
    OBVIOUS
  <2>1. RunInv'
    <3>1. CASE Allocate /\ PlaceSpills
      <4>1. Ready /\ UNCHANGED execVars
        BY <3>1 DEF Ready, PlaceSpills, Allocate
      <4>2. Unspilled(code) /\ Complete(code)
        BY <3>1 DEF PlaceSpills, CodeInv, CompleteInv
      <4>3. PICK C, B : Typed(code, C, B)
        BY <4>2 DEF Complete
      <4> QED BY <3>1, <4>1, <4>2, <4>3, RunStart DEF Complete
    <3>2. CASE ~(Allocate /\ PlaceSpills)
      BY <3>2, RunStep
    <3> QED BY <3>1, <3>2
  <2> QED BY <2>1, StepInv, ScanPlaceStep, ScanInvStep, AssignInvStep, CodeStep, StackStep,
             SelectionStep
<1>3. All => ComputesWithoutSwap
  <2> SUFFICES ASSUME RunInv, ~SpillsMany PROVE result.machine = result.graph
    BY DEF ComputesWithoutSwap, ComputesTheGraph
  <2> QED BY DEF RunInv
<1> HIDE DEF All
<1> QED BY <1>1, <1>2, <1>3, PTL DEF Spec
=============================================================================
