-------------------------- MODULE LIRCodegenProofs --------------------------
(***************************************************************************)
(* Theorems about LIRCodegen, for functions of any size.  A block is       *)
(* placed once it is in the layout, and owed while a call under way has    *)
(* still to place it; every jump goes to a block of the one or the other   *)
(* kind, and every placed block but the last terminates.                   *)
(***************************************************************************)
EXTENDS LIRCodegen, TLAPS

Tokens == {"eval", "let", "ret", "stop", "restart", "if", "ifelse", "until", "spin", "and", "or",
           "leaf", "else", "end"}

Placed == {layout[n] : n \in DOMAIN layout}

(* The blocks a jump of code goes to.                                      *)
Targets(code) == UNION {{code[i].to[d] : d \in DOMAIN code[i].to} : i \in DOMAIN code}

(* The blocks that a call has created and not placed yet.                  *)
Owed(frame) ==
  IF frame.kind \in {"left", "then"} THEN {frame.alt, frame.merge}
  ELSE IF frame.kind \in {"right", "else", "until", "body"} THEN {frame.merge}
  ELSE {}

OwedBy(fs) == UNION {Owed(fs[f]) : f \in DOMAIN fs}

(* c and m are the condition and the merge block of the innermost of the   *)
(* loops whose bodies are among the first n calls, or null without one.    *)
Innermost(fs, n, c, m) ==
  \/ c = 0 /\ m = 0 /\ \A f \in 1..n : fs[f].kind # "body"
  \/ \E f \in 1..n : /\ fs[f].kind = "body" /\ fs[f].cond = c /\ fs[f].merge = m
                     /\ \A g \in (f + 1)..n : fs[g].kind # "body"

Numbers(frame) == {frame.cond, frame.alt, frame.merge, frame.prevCond, frame.prevMerge}

(* The calls: what they owe is theirs alone and not placed, and a loop's   *)
(* condition is placed before its body.                                    *)
CallsOK(fs, placed, created) ==
  /\ Len(fs) > 0
  /\ \A f \in DOMAIN fs : fs[f].kind = "function" <=> f = 1
  /\ \A f \in DOMAIN fs : Numbers(fs[f]) \subseteq created \union {0}
  /\ \A f \in DOMAIN fs : Owed(fs[f]) \subseteq created \ placed
  /\ \A f, g \in DOMAIN fs : f # g => Owed(fs[f]) \intersect Owed(fs[g]) = {}
  /\ \A f \in DOMAIN fs :
       /\ fs[f].kind = "left" => fs[f].alt # fs[f].merge
       /\ fs[f].kind = "then" => (fs[f].alt = fs[f].merge <=> ~fs[f].has)
       /\ fs[f].kind \in {"until", "body"} => fs[f].cond \in placed

LoopsOK(fs) ==
  \A f \in DOMAIN fs :
    fs[f].kind = "body" => Innermost(fs, f - 1, fs[f].prevCond, fs[f].prevMerge)

(* The parents are those of the innermost loop.                            *)
ParentsInnermost == Innermost(frames, Len(frames), parentCond, parentMerge)

LayoutOK ==
  /\ Len(layout) > 0 /\ insert = layout[Len(layout)]
  /\ \A i, j \in DOMAIN layout : layout[i] = layout[j] => i = j

(* The code: bs are the blocks, and at is where instructions go.           *)
CodeFits(bs, placed, owed, at) ==
  /\ \A b \in DOMAIN bs : Targets(bs[b]) \subseteq placed \union owed
  /\ \A b \in DOMAIN bs \ placed : bs[b] = <<>>
  /\ \A b \in placed : b # at => Terminates(bs[b])

Codes == Seq(Seq(Insts))

FlowType ==
  /\ isVoid \in BOOLEAN /\ warned \in BOOLEAN
  /\ stage \in {"emit", "done"}
  /\ program \in Seq(Tokens)
  /\ blocks \in Codes
  /\ layout \in Seq(DOMAIN blocks)
  /\ frames \in Seq(Frames)
  /\ result \in Values

FlowInv ==
  /\ FlowType
  /\ LayoutOK
  /\ CallsOK(frames, Placed, DOMAIN blocks)
  /\ LoopsOK(frames)
  /\ ParentsInnermost
  /\ CodeFits(blocks, Placed, OwedBy(frames), insert)
  /\ stage = "done" => Len(frames) = 1 /\ (Terminates(blocks[insert]) \/ warned)

-----------------------------------------------------------------------------
(* What the helpers that build code return.                                *)

(* The values are values.                                                  *)
LEMMA ValueTypes ==
  /\ NoValue \in Values
  /\ \A n \in Nat : LeafValue(n) \in Values /\ ArgValue(n) \in Values
  /\ \A t \in BOOLEAN : ConstantValue(t) \in Values
BY DEF NoValue, LeafValue, ArgValue, ConstantValue, Values

Destinations(inst) == {inst.to[d] : d \in DOMAIN inst.to}

(* A leaf is an instruction and goes nowhere.                              *)
LEMMA LeafInst ==
  ASSUME NEW n \in Nat
  PROVE  Leaf(n) \in Insts /\ Destinations(Leaf(n)) = {}
BY ValueTypes DEF Leaf, Inst, Insts, Destinations

(* A return goes nowhere, and ends its block.                              *)
LEMMA RetInst ==
  ASSUME NEW v \in Values
  PROVE  Ret(v) \in Insts /\ Destinations(Ret(v)) = {} /\ IsTerminator(Ret(v))
BY DEF Ret, Inst, Insts, Destinations, IsTerminator

(* So does a jump, which goes to its destination.                          *)
LEMMA JmpInst ==
  ASSUME NEW n \in Nat, NEW a \in Values
  PROVE  Jmp(n, a) \in Insts /\ Destinations(Jmp(n, a)) = {n} /\ IsTerminator(Jmp(n, a))
BY ValueTypes DEF Jmp, Inst, Insts, Destinations, IsTerminator

(* So does a conditional jump, which goes to the one or to the other.      *)
LEMMA JifInst ==
  ASSUME NEW v \in Values, NEW m \in Nat, NEW a \in Values, NEW n \in Nat, NEW b \in Values
  PROVE  /\ Jif(v, m, a, n, b) \in Insts /\ Destinations(Jif(v, m, a, n, b)) = {m, n}
         /\ IsTerminator(Jif(v, m, a, n, b))
BY DEF Jif, Inst, Insts, Destinations, IsTerminator

(* A block of code with one more instruction.                              *)
LEMMA AppendInst ==
  ASSUME NEW code \in Seq(Insts), NEW inst \in Insts
  PROVE  /\ Append(code, inst) \in Seq(Insts)
         /\ Targets(Append(code, inst)) =
              Targets(code) \union Destinations(inst)
         /\ Terminates(Append(code, inst)) <=> Terminates(code) \/ IsTerminator(inst)
<1> DEFINE new == Append(code, inst)
<1>1. /\ new \in Seq(Insts) /\ Len(new) = Len(code) + 1 /\ Len(code) \in Nat
      /\ \A i \in 1..Len(code) : new[i] = code[i]
      /\ new[Len(code) + 1] = inst
      /\ DOMAIN new = 1..(Len(code) + 1) /\ DOMAIN code = 1..Len(code)
  OBVIOUS
<1>2. DOMAIN new = DOMAIN code \union {Len(code) + 1}
  BY <1>1
<1>3. \A i \in DOMAIN code : new[i] = code[i]
  BY <1>1
<1> HIDE DEF new
<1>4. Targets(new) = Targets(code) \union Destinations(inst)
  <2>1. \A t : t \in Targets(new) <=> \E i \in DOMAIN new : \E d \in DOMAIN new[i].to : t = new[i].to[d]
    BY DEF Targets
  <2>2. \A t : t \in Targets(code) <=> \E i \in DOMAIN code : \E d \in DOMAIN code[i].to : t = code[i].to[d]
    BY DEF Targets
  <2>3. ASSUME NEW t, t \in Targets(new)
        PROVE  t \in Targets(code) \union Destinations(inst)
    BY <2>1, <2>2, <2>3, <1>1, <1>2 DEF Destinations
  <2>4. ASSUME NEW t, t \in Targets(code)
        PROVE  t \in Targets(new)
    BY <2>1, <2>2, <2>4, <1>2, <1>3
  <2>5. ASSUME NEW d \in DOMAIN inst.to
        PROVE  inst.to[d] \in Targets(new)
    BY <2>1, <1>1, <1>2
  <2> QED
    BY <2>3, <2>4, <2>5 DEF Destinations
<1>5. Terminates(new) <=> Terminates(code) \/ IsTerminator(inst)
  BY <1>1, <1>2, <1>3 DEF Terminates
<1> QED
  BY <1>1, <1>4, <1>5 DEF new

(* Build changes one block, at its end.                                    *)
LEMMA BuildCode ==
  ASSUME NEW bs \in Codes, NEW at \in DOMAIN bs, NEW inst \in Insts
  PROVE  /\ Build(bs, at, inst) \in Codes
         /\ DOMAIN Build(bs, at, inst) = DOMAIN bs
         /\ Len(Build(bs, at, inst)) = Len(bs)
         /\ Build(bs, at, inst)[at] = Append(bs[at], inst)
         /\ \A b \in DOMAIN bs : b # at => Build(bs, at, inst)[b] = bs[b]
<1>1. Append(bs[at], inst) \in Seq(Insts)
  BY AppendInst DEF Codes
<1> QED
  BY <1>1 DEF Build, Codes

(* Create adds empty blocks.                                               *)
LEMMA CreateCode ==
  ASSUME NEW bs \in Codes, NEW n \in Nat
  PROVE  /\ Create(bs, n) \in Codes
         /\ DOMAIN Create(bs, n) = 1..(Len(bs) + n)
         /\ Len(Create(bs, n)) = Len(bs) + n
         /\ DOMAIN bs = 1..Len(bs) /\ Len(bs) \in Nat
         /\ DOMAIN bs \subseteq DOMAIN Create(bs, n)
         /\ \A b \in DOMAIN bs : Create(bs, n)[b] = bs[b]
         /\ \A b \in DOMAIN Create(bs, n) \ DOMAIN bs : Create(bs, n)[b] = <<>>
<1>1. Len(bs) \in Nat /\ DOMAIN bs = 1..Len(bs)
  BY DEF Codes
<1>2. \A b \in 1..(Len(bs) + n) :
         (IF b <= Len(bs) THEN bs[b] ELSE <<>>) \in Seq(Insts)
  BY <1>1 DEF Codes
<1>3. Create(bs, n) \in [1..(Len(bs) + n) -> Seq(Insts)]
  BY <1>2 DEF Create
<1>4. Create(bs, n) \in Codes
  BY <1>1, <1>3 DEF Codes
<1> QED
  BY <1>1, <1>3, <1>4 DEF Create

(* Code that has grown: only the block at got instructions, which go to t  *)
(* at most, and the blocks created are empty.                              *)
Grown(bs, cs, at, t) ==
  /\ cs \in Codes
  /\ DOMAIN bs \subseteq DOMAIN cs
  /\ \A b \in DOMAIN bs : b # at => cs[b] = bs[b]
  /\ \A b \in DOMAIN cs \ DOMAIN bs : cs[b] = <<>>
  /\ Targets(cs[at]) \subseteq Targets(bs[at]) \union t
  /\ Terminates(bs[at]) => Terminates(cs[at])

(* Blocks are created, and then an instruction is built.                   *)
LEMMA GrownBuild ==
  ASSUME NEW bs \in Codes, NEW at \in DOMAIN bs, NEW inst \in Insts, NEW n \in Nat
  PROVE  /\ Grown(bs, Build(bs, at, inst), at, Destinations(inst))
         /\ Grown(bs, Build(Create(bs, n), at, inst), at, Destinations(inst))
         /\ DOMAIN Build(bs, at, inst) = DOMAIN bs
         /\ DOMAIN Build(Create(bs, n), at, inst) = 1..(Len(bs) + n)
         /\ IsTerminator(inst) => /\ Terminates(Build(bs, at, inst)[at])
                                  /\ Terminates(Build(Create(bs, n), at, inst)[at])
<1> DEFINE cs == Create(bs, n)
<1>1. bs[at] \in Seq(Insts)
  BY DEF Codes
<1>2. cs \in Codes /\ at \in DOMAIN cs /\ cs[at] = bs[at]
  BY CreateCode
<1> DEFINE more == Append(bs[at], inst)
<1>7. /\ Targets(more) \subseteq Targets(bs[at]) \union Destinations(inst)
      /\ Terminates(bs[at]) => Terminates(more)
      /\ IsTerminator(inst) => Terminates(more)
  BY <1>1, AppendInst
<1>8. /\ Build(bs, at, inst)[at] = more
      /\ Build(cs, at, inst)[at] = more
  BY <1>2, BuildCode
<1> HIDE DEF more
<1>3. Grown(bs, Build(bs, at, inst), at, Destinations(inst))
  BY <1>7, <1>8, BuildCode DEF Grown
<1>4. Grown(bs, Build(cs, at, inst), at, Destinations(inst))
  <2>1. /\ DOMAIN bs \subseteq DOMAIN cs
        /\ \A b \in DOMAIN bs : cs[b] = bs[b]
        /\ \A b \in DOMAIN cs \ DOMAIN bs : cs[b] = <<>>
    BY CreateCode
  <2> HIDE DEF cs
  <2> QED
    BY <1>2, <1>7, <1>8, <2>1, BuildCode DEF Grown
<1>5. DOMAIN Build(cs, at, inst) = 1..(Len(bs) + n)
  BY <1>2, BuildCode, CreateCode
<1>6. IsTerminator(inst) => Terminates(Build(bs, at, inst)[at]) /\ Terminates(Build(cs, at, inst)[at])
  BY <1>7, <1>8
<1> QED
  BY <1>3, <1>4, <1>5, <1>6, BuildCode

(* A jump is built unless the block terminates already: then it does.      *)
LEMMA GrownJmp ==
  ASSUME NEW bs \in Codes, NEW at \in DOMAIN bs, NEW dest \in Nat
  PROVE  /\ Grown(bs, BuildJmpUnlessTerminated(bs, at, dest), at, {dest})
         /\ DOMAIN BuildJmpUnlessTerminated(bs, at, dest) = DOMAIN bs
         /\ Terminates(BuildJmpUnlessTerminated(bs, at, dest)[at])
<1>1. /\ Jmp(dest, NoValue) \in Insts /\ Destinations(Jmp(dest, NoValue)) = {dest}
      /\ IsTerminator(Jmp(dest, NoValue))
  BY ValueTypes, JmpInst
<1>3. CASE Terminates(bs[at])
  BY <1>3 DEF BuildJmpUnlessTerminated, Grown
<1>4. CASE ~Terminates(bs[at])
  BY <1>1, <1>4, GrownBuild DEF BuildJmpUnlessTerminated
<1> QED
  BY <1>3, <1>4

-----------------------------------------------------------------------------
(* The calls under way, when one more is made, the innermost goes on or it *)
(* returns: p are the blocks placed before, q those placed after, and c    *)
(* and e the blocks created before and after.                              *)

(* What is owed when a call under way makes one more.                      *)
LEMMA OwedPushed ==
  ASSUME NEW fs \in Seq(Frames), NEW fr \in Frames
  PROVE  OwedBy(Append(fs, fr)) = OwedBy(fs) \union Owed(fr)
<1> DEFINE new == Append(fs, fr)
<1>1. /\ DOMAIN new = 1..(Len(fs) + 1) /\ DOMAIN fs = 1..Len(fs) /\ Len(fs) \in Nat
      /\ \A f \in DOMAIN fs : new[f] = fs[f]
      /\ new[Len(fs) + 1] = fr
  OBVIOUS
<1>2. DOMAIN new = DOMAIN fs \union {Len(fs) + 1}
  BY <1>1
<1> HIDE DEF new
<1>3. \A b : b \in OwedBy(new) <=> \E f \in DOMAIN new : b \in Owed(new[f])
  BY DEF OwedBy
<1>4. \A b : b \in OwedBy(fs) <=> \E f \in DOMAIN fs : b \in Owed(fs[f])
  BY DEF OwedBy
<1> QED
  BY <1>1, <1>2, <1>3, <1>4 DEF new

(* A call under way makes one more.                                        *)
LEMMA CallPushed ==
  ASSUME NEW fs \in Seq(Frames), NEW p, NEW q, NEW c, NEW e,
         CallsOK(fs, p, c), p \subseteq q, q \subseteq p \union (e \ c), c \subseteq e,
         NEW fr \in Frames, fr.kind # "function", fr.kind # "body", fr.kind # "then",
         Numbers(fr) \subseteq e \union {0}, Owed(fr) \subseteq e \ (c \union q),
         fr.kind = "left" => fr.alt # fr.merge,
         fr.kind = "until" => fr.cond \in q
  PROVE  CallsOK(Append(fs, fr), q, e)
<1> DEFINE new == Append(fs, fr)
<1>1. /\ new \in Seq(Frames) /\ Len(new) = Len(fs) + 1 /\ Len(fs) \in Nat /\ Len(fs) > 0
      /\ DOMAIN new = 1..(Len(fs) + 1) /\ DOMAIN fs = 1..Len(fs)
      /\ \A f \in DOMAIN fs : new[f] = fs[f]
      /\ new[Len(fs) + 1] = fr
  BY DEF CallsOK
<1>2. /\ DOMAIN new = DOMAIN fs \union {Len(fs) + 1} /\ Len(fs) + 1 \notin DOMAIN fs
      /\ Len(fs) + 1 # 1
  BY <1>1
<1> HIDE DEF new
<1>4. \A f \in DOMAIN fs : /\ Owed(fs[f]) \subseteq e \ q
                           /\ Owed(fs[f]) \intersect Owed(fr) = {}
  BY DEF CallsOK
<1>5. \A f, g \in DOMAIN new : f # g => Owed(new[f]) \intersect Owed(new[g]) = {}
  BY <1>1, <1>2, <1>4 DEF CallsOK
<1>6. \A f \in DOMAIN new : new[f].kind = "function" <=> f = 1
  BY <1>1, <1>2 DEF CallsOK
<1>7. \A f \in DOMAIN new : Owed(new[f]) \subseteq e \ q
  BY <1>1, <1>2, <1>4
<1>8. \A f \in DOMAIN new :
        /\ new[f].kind = "left" => new[f].alt # new[f].merge
        /\ new[f].kind = "then" => (new[f].alt = new[f].merge <=> ~new[f].has)
        /\ new[f].kind \in {"until", "body"} => new[f].cond \in q
  BY <1>1, <1>2 DEF CallsOK
<1>9. \A f \in DOMAIN new : Numbers(new[f]) \subseteq e \union {0}
  BY <1>1, <1>2 DEF CallsOK
<1> QED
  BY <1>1, <1>5, <1>6, <1>7, <1>8, <1>9 DEF CallsOK, new

(* The innermost call gets to its next part.                               *)
LEMMA CallGoesOn ==
  ASSUME NEW fs \in Seq(Frames), NEW p, NEW q, NEW c, NEW e,
         CallsOK(fs, p, c), c \subseteq e, p \subseteq c, p \subseteq q,
         NEW fr \in Frames, fr.kind # "function", fs[Len(fs)].kind # "function",
         Numbers(fr) \subseteq e \union {0},
         Owed(fr) \subseteq Owed(fs[Len(fs)]) \union (e \ c), Owed(fr) \intersect q = {},
         q \subseteq p \union Owed(fs[Len(fs)]) \union (e \ c),
         fr.kind = "left" => fr.alt # fr.merge,
         fr.kind = "then" => (fr.alt = fr.merge <=> ~fr.has),
         fr.kind \in {"until", "body"} => fr.cond \in q
  PROVE  /\ CallsOK([fs EXCEPT ![Len(fs)] = fr], q, e)
         /\ OwedBy(fs) \subseteq OwedBy([fs EXCEPT ![Len(fs)] = fr]) \union Owed(fs[Len(fs)])
         /\ Owed(fr) \subseteq OwedBy([fs EXCEPT ![Len(fs)] = fr])
<1> DEFINE new == [fs EXCEPT ![Len(fs)] = fr]
           n == Len(fs)
<1>1. /\ new \in Seq(Frames) /\ Len(new) = n /\ n \in Nat /\ n > 0
      /\ DOMAIN new = 1..n /\ DOMAIN fs = 1..n /\ n \in DOMAIN fs
      /\ \A f \in DOMAIN fs : f # n => new[f] = fs[f]
      /\ new[n] = fr
  BY DEF CallsOK
<1> HIDE DEF new, n
<1>2. n # 1
  BY <1>1 DEF CallsOK, n
<1>3. /\ OwedBy(fs) \subseteq OwedBy(new) \union Owed(fs[n])
      /\ Owed(fr) \subseteq OwedBy(new)
  <2>1. \A b : b \in OwedBy(new) <=> \E f \in DOMAIN new : b \in Owed(new[f])
    BY DEF OwedBy
  <2>2. \A b : b \in OwedBy(fs) <=> \E f \in DOMAIN fs : b \in Owed(fs[f])
    BY DEF OwedBy
  <2> QED
    BY <2>1, <2>2, <1>1
<1>4. \A f \in DOMAIN fs : f # n => /\ Owed(fs[f]) \subseteq c \ p
                                    /\ Owed(fs[f]) \intersect Owed(fs[n]) = {}
  BY <1>1 DEF CallsOK
<1>5. \A f \in DOMAIN fs : f # n => /\ Owed(fs[f]) \subseteq e \ q
                                    /\ Owed(fs[f]) \intersect Owed(fr) = {}
  BY <1>4 DEF n
<1>6. Owed(fs[n]) \subseteq c
  BY <1>1 DEF CallsOK
<1>7. Owed(fr) \subseteq e \ q
  BY <1>6 DEF n
<1>8. \A f, g \in DOMAIN new : f # g => Owed(new[f]) \intersect Owed(new[g]) = {}
  BY <1>1, <1>5 DEF CallsOK
<1>9. \A f \in DOMAIN new : Owed(new[f]) \subseteq e \ q
  BY <1>1, <1>5, <1>7
<1>10. \A f \in DOMAIN new : new[f].kind = "function" <=> f = 1
  BY <1>1, <1>2 DEF CallsOK
<1>11. \A f \in DOMAIN new :
        /\ new[f].kind = "left" => new[f].alt # new[f].merge
        /\ new[f].kind = "then" => (new[f].alt = new[f].merge <=> ~new[f].has)
        /\ new[f].kind \in {"until", "body"} => new[f].cond \in q
  BY <1>1 DEF CallsOK
<1>12. \A f \in DOMAIN new : Numbers(new[f]) \subseteq e \union {0}
  BY <1>1 DEF CallsOK
<1> QED
  BY <1>1, <1>3, <1>8, <1>9, <1>10, <1>11, <1>12 DEF CallsOK, new, n

(* The innermost call returns when what it owes is placed or dropped.      *)
LEMMA CallReturned ==
  ASSUME NEW fs \in Seq(Frames), NEW p, NEW q, NEW c, NEW e,
         CallsOK(fs, p, c), c \subseteq e, p \subseteq q,
         fs[Len(fs)].kind # "function",
         q \subseteq p \union Owed(fs[Len(fs)])
  PROVE  /\ SubSeq(fs, 1, Len(fs) - 1) \in Seq(Frames)
         /\ Len(SubSeq(fs, 1, Len(fs) - 1)) = Len(fs) - 1
         /\ \A f \in 1..(Len(fs) - 1) : SubSeq(fs, 1, Len(fs) - 1)[f] = fs[f]
         /\ CallsOK(SubSeq(fs, 1, Len(fs) - 1), q, e)
         /\ OwedBy(fs) \subseteq OwedBy(SubSeq(fs, 1, Len(fs) - 1)) \union Owed(fs[Len(fs)])
<1> DEFINE new == SubSeq(fs, 1, Len(fs) - 1)
           n == Len(fs)
<1>0. n \in Nat /\ n > 0 /\ DOMAIN fs = 1..n
  BY DEF CallsOK
<1>1. n # 1
  BY <1>0 DEF CallsOK
<1>2. /\ new \in Seq(Frames) /\ Len(new) = n - 1 /\ n - 1 \in Nat /\ n - 1 > 0
      /\ \A f \in 1..(n - 1) : new[f] = fs[f]
      /\ DOMAIN new = 1..(n - 1)
  BY <1>0, <1>1
<1> HIDE DEF new, n
<1>3. /\ DOMAIN fs = DOMAIN new \union {n} /\ n \notin DOMAIN new
      /\ \A f \in DOMAIN new : new[f] = fs[f]
  BY <1>0, <1>2
<1>4. OwedBy(fs) \subseteq OwedBy(new) \union Owed(fs[n])
  <2>1. \A b : b \in OwedBy(new) <=> \E f \in DOMAIN new : b \in Owed(new[f])
    BY DEF OwedBy
  <2>2. \A b : b \in OwedBy(fs) <=> \E f \in DOMAIN fs : b \in Owed(fs[f])
    BY DEF OwedBy
  <2> QED
    BY <2>1, <2>2, <1>3
<1>5. \A f \in DOMAIN new : Owed(new[f]) \subseteq e \ q
  <2>1. \A f \in DOMAIN new : /\ Owed(fs[f]) \subseteq c \ p
                              /\ Owed(fs[f]) \intersect Owed(fs[n]) = {}
    BY <1>3 DEF CallsOK
  <2> QED
    BY <2>1, <1>3 DEF n
<1>6. CallsOK(new, q, e)
  <2>1. \A f, g \in DOMAIN new : f # g => Owed(new[f]) \intersect Owed(new[g]) = {}
    BY <1>3 DEF CallsOK
  <2>2. \A f \in DOMAIN new : new[f].kind = "function" <=> f = 1
    BY <1>3 DEF CallsOK
  <2>3. \A f \in DOMAIN new :
          /\ new[f].kind = "left" => new[f].alt # new[f].merge
          /\ new[f].kind = "then" => (new[f].alt = new[f].merge <=> ~new[f].has)
          /\ new[f].kind \in {"until", "body"} => new[f].cond \in q
    BY <1>3 DEF CallsOK
  <2>4. \A f \in DOMAIN new : Numbers(new[f]) \subseteq e \union {0}
    BY <1>3 DEF CallsOK
  <2> QED
    BY <2>1, <2>2, <2>3, <2>4, <1>2, <1>5 DEF CallsOK
<1> QED
  BY <1>2, <1>4, <1>6 DEF new, n

-----------------------------------------------------------------------------
(* The innermost loop depends on the calls below only ...                  *)
LEMMA InnermostAgrees ==
  ASSUME NEW fs, NEW gs, NEW n \in Nat, NEW c, NEW m, Innermost(fs, n, c, m),
         \A f \in 1..n : gs[f] = fs[f]
  PROVE  Innermost(gs, n, c, m)
<1>1. CASE c = 0 /\ m = 0 /\ \A f \in 1..n : fs[f].kind # "body"
  BY <1>1 DEF Innermost
<1>2. CASE \E f \in 1..n : /\ fs[f].kind = "body" /\ fs[f].cond = c /\ fs[f].merge = m
                           /\ \A g \in (f + 1)..n : fs[g].kind # "body"
  <2>1. PICK f \in 1..n : /\ fs[f].kind = "body" /\ fs[f].cond = c /\ fs[f].merge = m
                          /\ \A g \in (f + 1)..n : fs[g].kind # "body"
    BY <1>2
  <2>2. \A g \in (f + 1)..n : g \in 1..n
    OBVIOUS
  <2> QED
    BY <2>1, <2>2 DEF Innermost
<1> QED
  BY <1>1, <1>2 DEF Innermost

(* ... and a call that is no body of a loop does not change it.            *)
LEMMA InnermostAbove ==
  ASSUME NEW fs, NEW n \in Nat, NEW c, NEW m, fs[n + 1].kind # "body"
  PROVE  Innermost(fs, n + 1, c, m) <=> Innermost(fs, n, c, m)
<1>1. ASSUME Innermost(fs, n, c, m) PROVE Innermost(fs, n + 1, c, m)
  BY <1>1 DEF Innermost
<1>2. ASSUME Innermost(fs, n + 1, c, m) PROVE Innermost(fs, n, c, m)
  BY <1>2 DEF Innermost
<1> QED
  BY <1>1, <1>2

(* The loops stay what they were when a call other than a body is made ... *)
LEMMA LoopPushed ==
  ASSUME NEW fs \in Seq(Frames), NEW c, NEW m, LoopsOK(fs), Innermost(fs, Len(fs), c, m),
         NEW fr \in Frames, fr.kind # "body"
  PROVE  LoopsOK(Append(fs, fr)) /\ Innermost(Append(fs, fr), Len(Append(fs, fr)), c, m)
<1> DEFINE new == Append(fs, fr)
           n == Len(fs)
<1>1. /\ n \in Nat /\ Len(new) = n + 1 /\ DOMAIN new = 1..(n + 1) /\ DOMAIN fs = 1..n
      /\ \A f \in 1..n : new[f] = fs[f]
      /\ new[n + 1] = fr
  OBVIOUS
<1> HIDE DEF new, n
<1>2. Innermost(new, n + 1, c, m)
  BY <1>1, InnermostAgrees, InnermostAbove DEF n
<1>3. \A f \in DOMAIN new : new[f].kind = "body" =>
         Innermost(new, f - 1, new[f].prevCond, new[f].prevMerge)
  <2> SUFFICES ASSUME NEW f \in 1..n, fs[f].kind = "body"
               PROVE  Innermost(new, f - 1, fs[f].prevCond, fs[f].prevMerge)
    BY <1>1
  <2>1. Innermost(fs, f - 1, fs[f].prevCond, fs[f].prevMerge)
    BY <1>1 DEF LoopsOK
  <2>2. f - 1 \in Nat /\ \A g \in 1..(f - 1) : new[g] = fs[g]
    BY <1>1
  <2> QED
    BY <2>1, <2>2, InnermostAgrees
<1> QED
  BY <1>1, <1>2, <1>3 DEF LoopsOK, new

(* ... when a call other than a body gets to its next part, which may be   *)
(* the body of a loop, that keeps the parents it finds ...                 *)
LEMMA LoopGoesOn ==
  ASSUME NEW fs \in Seq(Frames), NEW c, NEW m, LoopsOK(fs), Innermost(fs, Len(fs), c, m),
         Len(fs) > 0, fs[Len(fs)].kind # "body",
         NEW fr \in Frames,
         fr.kind = "body" => fr.prevCond = c /\ fr.prevMerge = m
  PROVE  /\ LoopsOK([fs EXCEPT ![Len(fs)] = fr])
         /\ IF fr.kind = "body"
            THEN Innermost([fs EXCEPT ![Len(fs)] = fr], Len(fs), fr.cond, fr.merge)
            ELSE Innermost([fs EXCEPT ![Len(fs)] = fr], Len(fs), c, m)
         /\ Len([fs EXCEPT ![Len(fs)] = fr]) = Len(fs)
<1> DEFINE new == [fs EXCEPT ![Len(fs)] = fr]
           n == Len(fs)
<1>1. /\ n \in Nat /\ n > 0 /\ n - 1 \in Nat /\ (n - 1) + 1 = n
      /\ Len(new) = n /\ DOMAIN new = 1..n /\ DOMAIN fs = 1..n
      /\ \A f \in 1..(n - 1) : new[f] = fs[f]
      /\ new[n] = fr /\ fs[n].kind # "body"
  OBVIOUS
<1>2. Innermost(fs, n, c, m)
  OBVIOUS
<1> HIDE DEF new, n
<1>3. Innermost(fs, n - 1, c, m)
  BY <1>1, <1>2, InnermostAbove
<1>4. Innermost(new, n - 1, c, m)
  BY <1>1, <1>3, InnermostAgrees
<1>5. IF fr.kind = "body" THEN Innermost(new, n, fr.cond, fr.merge) ELSE Innermost(new, n, c, m)
  <2>1. CASE fr.kind = "body"
    BY <2>1, <1>1 DEF Innermost
  <2>2. CASE fr.kind # "body"
    <3>1. new[(n - 1) + 1].kind # "body"
      BY <2>2, <1>1
    <3> QED
      BY <2>2, <3>1, <1>1, <1>4, InnermostAbove
  <2> QED
    BY <2>1, <2>2
<1>6. \A f \in DOMAIN new : new[f].kind = "body" =>
         Innermost(new, f - 1, new[f].prevCond, new[f].prevMerge)
  <2> SUFFICES ASSUME NEW f \in 1..n, new[f].kind = "body"
               PROVE  Innermost(new, f - 1, new[f].prevCond, new[f].prevMerge)
    BY <1>1
  <2>1. CASE f = n
    BY <2>1, <1>1, <1>4
  <2>2. CASE f # n
    <3>1. f \in 1..(n - 1) /\ f - 1 \in Nat /\ \A g \in 1..(f - 1) : new[g] = fs[g]
      BY <2>2, <1>1
    <3>2. Innermost(fs, f - 1, fs[f].prevCond, fs[f].prevMerge)
      BY <3>1, <1>1 DEF LoopsOK
    <3> QED
      BY <3>1, <3>2, <1>1, InnermostAgrees
  <2> QED
    BY <2>1, <2>2
<1> QED
  BY <1>1, <1>5, <1>6 DEF LoopsOK, new, n

(* ... and when a call returns, which a body does to the parents it kept.  *)
LEMMA LoopReturned ==
  ASSUME NEW fs \in Seq(Frames), NEW gs \in Seq(Frames), NEW c, NEW m,
         LoopsOK(fs), Innermost(fs, Len(fs), c, m),
         Len(fs) > 0, Len(gs) = Len(fs) - 1, \A f \in 1..(Len(fs) - 1) : gs[f] = fs[f]
  PROVE  /\ LoopsOK(gs)
         /\ IF fs[Len(fs)].kind = "body"
            THEN Innermost(gs, Len(gs), fs[Len(fs)].prevCond, fs[Len(fs)].prevMerge)
            ELSE Innermost(gs, Len(gs), c, m)
<1> DEFINE n == Len(fs)
<1>1. /\ n \in Nat /\ n > 0 /\ n - 1 \in Nat /\ (n - 1) + 1 = n
      /\ DOMAIN gs = 1..(n - 1) /\ DOMAIN fs = 1..n /\ n \in DOMAIN fs
      /\ \A f \in 1..(n - 1) : gs[f] = fs[f]
      /\ Len(gs) = n - 1
  OBVIOUS
<1>2. Innermost(fs, n, c, m)
  OBVIOUS
<1> HIDE DEF n
<1>3. ASSUME NEW k \in 0..(n - 1), NEW d, NEW e, Innermost(fs, k, d, e)
      PROVE  Innermost(gs, k, d, e)
  <2>1. k \in Nat /\ \A f \in 1..k : gs[f] = fs[f]
    BY <1>1
  <2> QED
    BY <1>3, <2>1, InnermostAgrees
<1>4. \A f \in 1..n : f - 1 \in 0..(n - 1) /\ n - 1 \in 0..(n - 1)
  BY <1>1
<1>5. LoopsOK(gs)
  <2> SUFFICES ASSUME NEW f \in 1..(n - 1), gs[f].kind = "body"
               PROVE  Innermost(gs, f - 1, gs[f].prevCond, gs[f].prevMerge)
    BY <1>1 DEF LoopsOK
  <2>1. f \in 1..n /\ fs[f] = gs[f]
    BY <1>1
  <2> QED
    BY <2>1, <1>1, <1>3, <1>4 DEF LoopsOK
<1>6. CASE fs[n].kind = "body"
  BY <1>1, <1>3, <1>4, <1>5, <1>6 DEF LoopsOK, n
<1>7. CASE fs[n].kind # "body"
  <2>1. Innermost(fs, n - 1, c, m)
    BY <1>1, <1>2, <1>7, InnermostAbove
  <2> QED
    BY <2>1, <1>1, <1>3, <1>4, <1>5, <1>7 DEF n
<1> QED
  BY <1>6, <1>7

-----------------------------------------------------------------------------
(* The invariant keeps the types, and its names of blocks are of blocks.   *)
LEMMA FlowTyped == FlowInv => CodegenTypeOK
<1> SUFFICES ASSUME FlowInv PROVE CodegenTypeOK
  OBVIOUS
<1>1. insert \in DOMAIN blocks
  BY DEF FlowInv, FlowType, LayoutOK
<1>2. parentCond \in DOMAIN blocks \union {0} /\ parentMerge \in DOMAIN blocks \union {0}
  <2>1. \A f \in 1..Len(frames) : f \in DOMAIN frames
    BY DEF FlowInv, FlowType
  <2> QED
    BY <2>1 DEF FlowInv, ParentsInnermost, Innermost, CallsOK, Numbers
<1>3. frames # <<>>
  BY DEF FlowInv, CallsOK
<1>4. Placed \union OwedBy(frames) \subseteq DOMAIN blocks
  <2>1. Placed \subseteq DOMAIN blocks
    BY DEF FlowInv, FlowType, Placed
  <2> QED
    BY <2>1 DEF FlowInv, CallsOK, OwedBy
<1>5. \A b \in DOMAIN blocks : \A i \in DOMAIN blocks[b] :
        \A d \in DOMAIN blocks[b][i].to : blocks[b][i].to[d] \in DOMAIN blocks
  BY <1>4 DEF FlowInv, CodeFits, Targets
<1>6. \A f \in DOMAIN frames :
        {frames[f].cond, frames[f].alt, frames[f].merge,
         frames[f].prevCond, frames[f].prevMerge} \subseteq DOMAIN blocks \union {0}
  BY DEF FlowInv, CallsOK, Numbers
<1> QED
  BY <1>1, <1>2, <1>3, <1>5, <1>6 DEF CodegenTypeOK, FlowInv, FlowType, Codes

(* What every step starts from.                                            *)
LEMMA FlowFacts ==
  ASSUME FlowInv
  PROVE  /\ Len(blocks) \in Nat /\ DOMAIN blocks = 1..Len(blocks)
         /\ Placed \subseteq DOMAIN blocks /\ insert \in Placed
         /\ Fresh \in Nat \ DOMAIN blocks /\ Fresh + 1 \in Nat \ DOMAIN blocks
         /\ Fresh + 2 \in Nat \ DOMAIN blocks
         /\ Len(frames) \in Nat \ {0} /\ DOMAIN frames = 1..Len(frames)
         /\ Top = frames[Len(frames)] /\ Top \in Frames
         /\ Owed(Top) \subseteq DOMAIN blocks \ Placed /\ Owed(Top) \subseteq OwedBy(frames)
         /\ Numbers(Top) \subseteq DOMAIN blocks \union {0}
         /\ parentCond \in DOMAIN blocks \union {0} /\ parentMerge \in DOMAIN blocks \union {0}
         /\ Len(program) + 1 \in Nat
<1>1. /\ Len(blocks) \in Nat /\ DOMAIN blocks = 1..Len(blocks)
      /\ Len(frames) \in Nat \ {0} /\ DOMAIN frames = 1..Len(frames)
      /\ Len(program) + 1 \in Nat
  BY DEF FlowInv, FlowType, Codes, CallsOK
<1>2. Placed \subseteq DOMAIN blocks /\ insert \in Placed
  BY DEF FlowInv, FlowType, LayoutOK, Placed
<1>3. Top = frames[Len(frames)] /\ Top \in Frames /\ Len(frames) \in DOMAIN frames
  BY <1>1 DEF Top, FlowInv, FlowType
<1>4. /\ Owed(Top) \subseteq DOMAIN blocks \ Placed /\ Owed(Top) \subseteq OwedBy(frames)
      /\ Numbers(Top) \subseteq DOMAIN blocks \union {0}
  BY <1>3 DEF FlowInv, CallsOK, OwedBy
<1>5. parentCond \in DOMAIN blocks \union {0} /\ parentMerge \in DOMAIN blocks \union {0}
  BY FlowTyped DEF CodegenTypeOK
<1>6. /\ Fresh \in Nat \ DOMAIN blocks /\ Fresh + 1 \in Nat \ DOMAIN blocks
      /\ Fresh + 2 \in Nat \ DOMAIN blocks
  BY <1>1 DEF Fresh
<1> QED
  BY <1>1, <1>2, <1>3, <1>4, <1>5, <1>6

(* A block joins the function.                                             *)
LEMMA PlacedNext ==
  ASSUME FlowInv, NEW x, x \notin Placed, layout' = Append(layout, x), insert' = x,
         DOMAIN blocks \subseteq DOMAIN blocks', x \in DOMAIN blocks'
  PROVE  /\ LayoutOK' /\ Placed' = Placed \union {x}
         /\ layout' \in Seq(DOMAIN blocks')
<1>1. /\ layout \in Seq(DOMAIN blocks') /\ Len(layout) \in Nat
      /\ DOMAIN layout = 1..Len(layout)
  BY DEF FlowInv, FlowType
<1>2. /\ Len(layout') = Len(layout) + 1 /\ DOMAIN layout' = 1..(Len(layout) + 1)
      /\ layout'[Len(layout) + 1] = x
      /\ \A n \in DOMAIN layout : layout'[n] = layout[n]
      /\ DOMAIN layout' = DOMAIN layout \union {Len(layout) + 1}
      /\ layout' \in Seq(DOMAIN blocks')
  BY <1>1
<1>3. \A n \in DOMAIN layout : layout[n] # x
  BY DEF Placed
<1>4. Placed' = Placed \union {x}
  BY <1>2 DEF Placed
<1>5. \A i, j \in DOMAIN layout' : layout'[i] = layout'[j] => i = j
  BY <1>2, <1>3 DEF FlowInv, LayoutOK
<1> QED
  BY <1>1, <1>2, <1>4, <1>5 DEF LayoutOK

(* Code that grows at its insertion point still fits.                      *)
LEMMA CodeGrown ==
  ASSUME NEW bs, NEW cs, NEW at, NEW next, NEW t, NEW p, NEW q, NEW o, NEW u, NEW dropped,
         CodeFits(bs, p, o, at), at \in p, p \subseteq DOMAIN bs,
         Grown(bs, cs, at, t), p \subseteq q, q \subseteq p \union {next},
         next = at \/ Terminates(cs[at]),
         p \union o \subseteq q \union u \union dropped, t \subseteq q \union u \union dropped,
         \A b \in DOMAIN cs : Targets(cs[b]) \intersect dropped = {}
  PROVE  CodeFits(cs, q, u, next)
<1>1. \A b \in DOMAIN cs \ DOMAIN bs : Targets(cs[b]) = {}
  BY DEF Grown, Targets
<1>2. \A b \in DOMAIN cs : Targets(cs[b]) \subseteq q \union u \union dropped
  BY <1>1 DEF Grown, CodeFits
<1>3. \A b \in DOMAIN cs : Targets(cs[b]) \subseteq q \union u
  BY <1>2
<1>4. \A b \in DOMAIN cs \ q : cs[b] = <<>>
  BY DEF Grown, CodeFits
<1>5. \A b \in q : b # next => Terminates(cs[b])
  BY DEF Grown, CodeFits
<1> QED
  BY <1>3, <1>4, <1>5 DEF CodeFits

(* Nothing built is growth too.                                            *)
LEMMA GrownSame ==
  ASSUME NEW bs \in Codes, NEW at
  PROVE  Grown(bs, bs, at, {})
BY DEF Grown

(* A step of the code generator that lets the code grow, changes the calls *)
(* under way and places at most one block keeps the invariant.             *)
LEMMA FlowStep ==
  ASSUME FlowInv, stage = "emit", UNCHANGED <<isVoid, stage, warned>>,
         program' \in Seq(Tokens), result' \in Values, frames' \in Seq(Frames),
         NEW t, NEW dropped, Grown(blocks, blocks', insert, t),
         \/ layout' = layout /\ insert' = insert
         \/ /\ insert' \in DOMAIN blocks' \ Placed
            /\ layout' = Append(layout, insert') /\ Terminates(blocks'[insert]),
         CallsOK(frames', Placed', DOMAIN blocks'), LoopsOK(frames'),
         Innermost(frames', Len(frames'), parentCond', parentMerge'),
         OwedBy(frames) \subseteq Placed' \union OwedBy(frames') \union dropped,
         t \subseteq Placed' \union OwedBy(frames') \union dropped,
         \A b \in DOMAIN blocks' : Targets(blocks'[b]) \intersect dropped = {}
  PROVE  FlowInv'
<1>1. DOMAIN blocks \subseteq DOMAIN blocks' /\ blocks' \in Codes
  BY DEF Grown
<1>2. /\ LayoutOK' /\ layout' \in Seq(DOMAIN blocks')
      /\ Placed \subseteq Placed' /\ Placed' \subseteq Placed \union {insert'}
      /\ insert' = insert \/ Terminates(blocks'[insert])
  <2>1. CASE layout' = layout /\ insert' = insert
    <3>1. layout' \in Seq(DOMAIN blocks')
      BY <2>1, <1>1 DEF FlowInv, FlowType
    <3>2. LayoutOK' /\ Placed' = Placed
      BY <2>1 DEF FlowInv, LayoutOK, Placed
    <3> QED
      BY <2>1, <3>1, <3>2
  <2>2. CASE /\ insert' \in DOMAIN blocks' \ Placed
             /\ layout' = Append(layout, insert') /\ Terminates(blocks'[insert])
    BY <2>2, <1>1, PlacedNext
  <2> QED
    BY <2>1, <2>2
<1>3. FlowType'
  BY <1>1, <1>2 DEF FlowInv, FlowType
<1>4. CodeFits(blocks', Placed', OwedBy(frames'), insert')
  BY <1>2, FlowFacts, CodeGrown DEF FlowInv
<1> QED
  BY <1>2, <1>3, <1>4 DEF FlowInv, ParentsInnermost

-----------------------------------------------------------------------------
(* The actions.                                                            *)

(* A token read keeps the program one.                                     *)
LEMMA ReadTokens ==
  ASSUME FlowInv, NEW token \in Tokens, Read(token)
  PROVE  program' \in Seq(Tokens)
BY DEF FlowInv, FlowType, Read

(* A call is made that owes new blocks only, and places at most a new one. *)
LEMMA PushStep ==
  ASSUME FlowInv, stage = "emit", program' \in Seq(Tokens), result' \in Values,
         NEW t, Grown(blocks, blocks', insert, t), t \subseteq Placed',
         NEW fr \in Frames, Call(fr), fr.kind \notin {"function", "body", "then"},
         \/ layout' = layout /\ insert' = insert
         \/ /\ insert' \in DOMAIN blocks' \ DOMAIN blocks
            /\ layout' = Append(layout, insert') /\ Terminates(blocks'[insert]),
         Numbers(fr) \subseteq DOMAIN blocks' \union {0},
         Owed(fr) \subseteq DOMAIN blocks' \ (DOMAIN blocks \union {insert'}),
         fr.kind = "left" => fr.alt # fr.merge,
         fr.kind = "until" => fr.cond = insert',
         UNCHANGED <<isVoid, parentCond, parentMerge, stage, warned>>
  PROVE  FlowInv'
<1>1. DOMAIN blocks \subseteq DOMAIN blocks' /\ Placed \subseteq DOMAIN blocks
  BY FlowFacts DEF Grown
<1>2. /\ Placed \subseteq Placed' /\ Placed' \subseteq Placed \union {insert'}
      /\ Placed' \subseteq Placed \union (DOMAIN blocks' \ DOMAIN blocks)
      /\ insert' \in Placed'
      /\ \/ layout' = layout /\ insert' = insert
         \/ /\ insert' \in DOMAIN blocks' \ Placed
            /\ layout' = Append(layout, insert') /\ Terminates(blocks'[insert])
  <2>1. CASE layout' = layout /\ insert' = insert
    BY <2>1, FlowFacts DEF Placed
  <2>2. CASE /\ insert' \in DOMAIN blocks' \ DOMAIN blocks
             /\ layout' = Append(layout, insert') /\ Terminates(blocks'[insert])
    <3>1. insert' \in DOMAIN blocks' \ Placed
      BY <2>2, <1>1
    <3>2. Placed' = Placed \union {insert'}
      BY <2>2, <3>1, <1>1, PlacedNext
    <3> QED
      BY <2>2, <3>1, <3>2
  <2> QED
    BY <2>1, <2>2
<1>3. frames' = Append(frames, fr) /\ frames \in Seq(Frames)
  BY DEF Call, FlowInv, FlowType
<1>4. CallsOK(frames', Placed', DOMAIN blocks') /\ OwedBy(frames') = OwedBy(frames) \union Owed(fr)
  <2> DEFINE q == Placed'
             e == DOMAIN blocks'
             p == Placed
             c == DOMAIN blocks
  <2>1. CallsOK(frames, p, c)
    BY DEF FlowInv
  <2>2. /\ p \subseteq q /\ q \subseteq p \union (e \ c) /\ c \subseteq e
        /\ Numbers(fr) \subseteq e \union {0} /\ Owed(fr) \subseteq e \ (c \union q)
        /\ fr.kind = "until" => fr.cond \in q
        /\ fr.kind # "function" /\ fr.kind # "body" /\ fr.kind # "then"
        /\ fr.kind = "left" => fr.alt # fr.merge
    BY <1>1, <1>2
  <2> HIDE DEF p, q, c, e
  <2>3. CallsOK(Append(frames, fr), q, e) /\ OwedBy(Append(frames, fr)) = OwedBy(frames) \union Owed(fr)
    <3>1. frames \in Seq(Frames)
      BY <1>3
    <3>2. CallsOK(Append(frames, fr), q, e)
      BY <2>1, <2>2, <3>1, CallPushed
    <3>3. OwedBy(Append(frames, fr)) = OwedBy(frames) \union Owed(fr)
      BY <3>1, OwedPushed
    <3> QED
      BY <3>2, <3>3
  <2> QED
    BY <2>3, <1>3 DEF q, e
<1>5. LoopsOK(frames') /\ Innermost(frames', Len(frames'), parentCond', parentMerge')
  <2>1. LoopsOK(frames) /\ Innermost(frames, Len(frames), parentCond, parentMerge)
    BY DEF FlowInv, ParentsInnermost
  <2>2. /\ LoopsOK(Append(frames, fr))
        /\ Innermost(Append(frames, fr), Len(Append(frames, fr)), parentCond, parentMerge)
    BY <2>1, <1>3, LoopPushed
  <2> QED
    BY <2>2, <1>3
<1>6. frames' \in Seq(Frames)
  BY <1>3
<1>7. \A b \in DOMAIN blocks' : Targets(blocks'[b]) \intersect {} = {}
  OBVIOUS
<1>8. /\ OwedBy(frames) \subseteq Placed' \union OwedBy(frames') \union {}
      /\ t \subseteq Placed' \union OwedBy(frames') \union {}
  BY <1>4
<1> QED
  BY <1>2, <1>4, <1>5, <1>6, <1>7, <1>8, FlowStep

(* A call that owes nothing is made; no code is built.                     *)
LEMMA PlainCall ==
  ASSUME FlowInv, stage = "emit", NEW kind \in {"eval", "ret", "if"}, NEW has \in BOOLEAN,
         Call(Frame(kind, has, 0, 0, 0)), program' \in Seq(Tokens),
         UNCHANGED <<isVoid, blocks, layout, insert, parentCond, parentMerge, result, stage,
                     warned>>
  PROVE  FlowInv'
<1> DEFINE fr == Frame(kind, has, 0, 0, 0)
<1>1. /\ fr \in Frames /\ fr.kind = kind /\ Owed(fr) = {}
      /\ Numbers(fr) \subseteq DOMAIN blocks' \union {0}
  <2>1. parentCond \in Nat /\ parentMerge \in Nat
    BY FlowFacts
  <2> QED
    BY <2>1, FlowFacts DEF Frame, Frames, StatementCalls, ExpressionCalls, Owed, Numbers
<1>2. Call(fr)
  OBVIOUS
<1> HIDE DEF fr
<1>3. Grown(blocks, blocks', insert, {})
  BY GrownSame DEF FlowInv, FlowType
<1>4. result' \in Values
  BY DEF FlowInv, FlowType
<1>5. /\ fr.kind \notin {"function", "body", "then", "left", "until"}
      /\ Owed(fr) \subseteq DOMAIN blocks' \ (DOMAIN blocks \union {insert'})
  BY <1>1
<1> QED
  BY <1>1, <1>2, <1>3, <1>4, <1>5, PushStep

(* The code grows and nothing else changes: leaves, stop and restart, a    *)
(* return without a value.                                                 *)
LEMMA PlainCode ==
  ASSUME FlowInv, stage = "emit", program' \in Seq(Tokens), result' \in Values,
         NEW t, Grown(blocks, blocks', insert, t), t \subseteq Placed \union OwedBy(frames),
         UNCHANGED <<isVoid, layout, insert, parentCond, parentMerge, frames, stage, warned>>
  PROVE  FlowInv'
<1>1. Placed' = Placed
  BY DEF Placed
<1>2. DOMAIN blocks \subseteq DOMAIN blocks'
  BY DEF Grown
<1>3. CallsOK(frames', Placed', DOMAIN blocks')
  BY <1>1, <1>2 DEF FlowInv, CallsOK
<1>4. LoopsOK(frames') /\ Innermost(frames', Len(frames'), parentCond', parentMerge')
  BY DEF FlowInv, ParentsInnermost
<1>5. frames' \in Seq(Frames)
  BY DEF FlowInv, FlowType
<1>6. \A b \in DOMAIN blocks' : Targets(blocks'[b]) \intersect {} = {}
  OBVIOUS
<1> QED
  BY <1>1, <1>3, <1>4, <1>5, <1>6, FlowStep

(* The innermost call, which is no body of a loop, goes on to its next     *)
(* part: from its blocks, and those created, one is placed.                *)
LEMMA CallStep ==
  ASSUME FlowInv, stage = "emit", program' \in Seq(Tokens), result' \in Values,
         NEW t, Grown(blocks, blocks', insert, t), Terminates(blocks'[insert]),
         NEW fr \in Frames, Become(fr),
         Top.kind \notin {"function", "body"}, fr.kind # "function",
         layout' = Append(layout, insert'),
         insert' \in Owed(Top) \union (DOMAIN blocks' \ DOMAIN blocks),
         t \subseteq Placed \union Owed(Top) \union Owed(fr) \union {insert'},
         Owed(Top) \subseteq Owed(fr) \union {insert'},
         Owed(fr) \subseteq (Owed(Top) \union (DOMAIN blocks' \ DOMAIN blocks)) \ {insert'},
         Numbers(fr) \subseteq DOMAIN blocks' \union {0},
         fr.kind = "left" => fr.alt # fr.merge,
         fr.kind = "then" => (fr.alt = fr.merge <=> ~fr.has),
         fr.kind \in {"until", "body"} => fr.cond \in Placed \union {insert'},
         IF fr.kind = "body"
         THEN /\ fr.prevCond = parentCond /\ fr.prevMerge = parentMerge
              /\ parentCond' = fr.cond /\ parentMerge' = fr.merge
         ELSE UNCHANGED <<parentCond, parentMerge>>,
         UNCHANGED <<isVoid, stage, warned>>
  PROVE  FlowInv'
<1>1. /\ DOMAIN blocks \subseteq DOMAIN blocks'
      /\ insert' \in DOMAIN blocks' \ Placed
  BY FlowFacts DEF Grown
<1>2. Placed' = Placed \union {insert'}
  BY <1>1, PlacedNext
<1>3. /\ frames' = [frames EXCEPT ![Len(frames)] = fr] /\ frames \in Seq(Frames)
      /\ frames[Len(frames)] = Top /\ Len(frames) > 0
  BY FlowFacts DEF Become, FlowInv, FlowType
<1>4. frames' \in Seq(Frames)
  BY <1>3
<1>5. Owed(fr) \intersect Placed' = {}
  BY <1>2, FlowFacts
<1>6. /\ CallsOK(frames', Placed', DOMAIN blocks')
      /\ OwedBy(frames) \subseteq OwedBy(frames') \union Owed(Top)
      /\ Owed(fr) \subseteq OwedBy(frames')
  <2>1. CallsOK(frames, Placed, DOMAIN blocks)
    BY DEF FlowInv
  <2> QED
    <3> DEFINE q == Placed'
               e == DOMAIN blocks'
    <3>1. /\ Placed \subseteq DOMAIN blocks /\ Placed \subseteq q
          /\ Owed(fr) \subseteq Owed(frames[Len(frames)]) \union (e \ DOMAIN blocks)
          /\ Owed(fr) \intersect q = {}
          /\ q \subseteq Placed \union Owed(frames[Len(frames)]) \union (e \ DOMAIN blocks)
          /\ DOMAIN blocks \subseteq e /\ Numbers(fr) \subseteq e \union {0}
          /\ fr.kind \in {"until", "body"} => fr.cond \in q
          /\ frames[Len(frames)].kind # "function"
      BY <1>1, <1>2, <1>3, <1>5, FlowFacts
    <3> HIDE DEF q, e
    <3>2. /\ CallsOK([frames EXCEPT ![Len(frames)] = fr], q, e)
          /\ OwedBy(frames) \subseteq
               OwedBy([frames EXCEPT ![Len(frames)] = fr]) \union Owed(frames[Len(frames)])
          /\ Owed(fr) \subseteq OwedBy([frames EXCEPT ![Len(frames)] = fr])
      BY <2>1, <3>1, <1>3, CallGoesOn
    <3> QED
      BY <3>2, <1>3 DEF q, e
<1>7. LoopsOK(frames') /\ Innermost(frames', Len(frames'), parentCond', parentMerge')
  <2>1. LoopsOK(frames) /\ Innermost(frames, Len(frames), parentCond, parentMerge)
    BY DEF FlowInv, ParentsInnermost
  <2> /\ frames[Len(frames)].kind # "body"
      /\ fr.kind = "body" => fr.prevCond = parentCond /\ fr.prevMerge = parentMerge
    BY <1>3
  <2>2. /\ LoopsOK([frames EXCEPT ![Len(frames)] = fr])
        /\ IF fr.kind = "body"
           THEN Innermost([frames EXCEPT ![Len(frames)] = fr], Len(frames), fr.cond, fr.merge)
           ELSE Innermost([frames EXCEPT ![Len(frames)] = fr], Len(frames), parentCond, parentMerge)
        /\ Len([frames EXCEPT ![Len(frames)] = fr]) = Len(frames)
    BY <2>1, <1>3, LoopGoesOn
  <2> QED
    BY <2>2, <1>3
<1>8. \A b \in DOMAIN blocks' : Targets(blocks'[b]) \intersect {} = {}
  OBVIOUS
<1>9. /\ OwedBy(frames) \subseteq Placed' \union OwedBy(frames') \union {}
      /\ t \subseteq Placed' \union OwedBy(frames') \union {}
  BY <1>2, <1>6
<1> QED
  BY <1>1, <1>4, <1>6, <1>7, <1>8, <1>9, FlowStep

(* The innermost call returns, and what it owes is placed, or dropped when *)
(* no jump goes to it.                                                     *)
LEMMA ReturnStep ==
  ASSUME FlowInv, stage = "emit", program' \in Seq(Tokens), result' \in Values,
         NEW t, Grown(blocks, blocks', insert, t),
         Top.kind # "function", frames' = Callers,
         NEW dropped, \A b \in DOMAIN blocks' : Targets(blocks'[b]) \intersect dropped = {},
         \/ layout' = layout /\ insert' = insert /\ Owed(Top) \subseteq dropped
         \/ /\ layout' = Append(layout, insert') /\ Terminates(blocks'[insert])
            /\ insert' \in Owed(Top) /\ Owed(Top) \subseteq {insert'} \union dropped,
         t \subseteq Placed \union Owed(Top),
         IF Top.kind = "body"
         THEN parentCond' = Top.prevCond /\ parentMerge' = Top.prevMerge
         ELSE UNCHANGED <<parentCond, parentMerge>>,
         UNCHANGED <<isVoid, stage, warned>>
  PROVE  FlowInv'
<1>1. DOMAIN blocks \subseteq DOMAIN blocks'
  BY DEF Grown
<1>2. /\ Placed \subseteq Placed' /\ Placed' \subseteq Placed \union Owed(Top)
      /\ Owed(Top) \subseteq Placed' \union dropped
      /\ \/ layout' = layout /\ insert' = insert
         \/ /\ insert' \in DOMAIN blocks' \ Placed
            /\ layout' = Append(layout, insert') /\ Terminates(blocks'[insert])
  <2>1. CASE layout' = layout /\ insert' = insert /\ Owed(Top) \subseteq dropped
    BY <2>1 DEF Placed
  <2>2. CASE /\ layout' = Append(layout, insert') /\ Terminates(blocks'[insert])
             /\ insert' \in Owed(Top) /\ Owed(Top) \subseteq {insert'} \union dropped
    <3>1. insert' \in DOMAIN blocks' \ Placed
      BY <2>2, <1>1, FlowFacts
    <3>2. Placed' = Placed \union {insert'}
      BY <2>2, <3>1, <1>1, PlacedNext
    <3> QED
      BY <2>2, <3>1, <3>2
  <2> QED
    BY <2>1, <2>2
<1>3. /\ frames \in Seq(Frames) /\ frames[Len(frames)] = Top /\ Len(frames) > 0
      /\ frames' = SubSeq(frames, 1, Len(frames) - 1)
  BY FlowFacts DEF FlowInv, FlowType, Callers
<1>4. /\ frames' \in Seq(Frames) /\ Len(frames') = Len(frames) - 1
      /\ \A f \in 1..(Len(frames) - 1) : frames'[f] = frames[f]
      /\ CallsOK(frames', Placed', DOMAIN blocks')
      /\ OwedBy(frames) \subseteq OwedBy(frames') \union Owed(Top)
  <2>1. CallsOK(frames, Placed, DOMAIN blocks)
    BY DEF FlowInv
  <2> QED
    <3> DEFINE q == Placed'
               e == DOMAIN blocks'
    <3>1. /\ Placed \subseteq q /\ DOMAIN blocks \subseteq e
          /\ q \subseteq Placed \union Owed(frames[Len(frames)])
          /\ frames[Len(frames)].kind # "function"
      BY <1>1, <1>2, <1>3
    <3> HIDE DEF q, e
    <3>2. CallsOK(SubSeq(frames, 1, Len(frames) - 1), q, e)
      BY <2>1, <3>1, <1>3, CallReturned
    <3>3. /\ SubSeq(frames, 1, Len(frames) - 1) \in Seq(Frames)
          /\ Len(SubSeq(frames, 1, Len(frames) - 1)) = Len(frames) - 1
          /\ \A f \in 1..(Len(frames) - 1) :
               SubSeq(frames, 1, Len(frames) - 1)[f] = frames[f]
          /\ OwedBy(frames) \subseteq
               OwedBy(SubSeq(frames, 1, Len(frames) - 1)) \union Owed(frames[Len(frames)])
      BY <2>1, <3>1, <1>3, CallReturned
    <3> QED
      BY <3>2, <3>3, <1>3 DEF q, e
<1>5. LoopsOK(frames') /\ Innermost(frames', Len(frames'), parentCond', parentMerge')
  BY <1>3, <1>4, LoopReturned DEF FlowInv, ParentsInnermost
<1>6. t \subseteq Placed' \union OwedBy(frames') \union dropped
      /\ OwedBy(frames) \subseteq Placed' \union OwedBy(frames') \union dropped
  BY <1>2, <1>4
<1> QED
  BY <1>2, <1>4, <1>5, <1>6, FlowStep

(* What is known of the innermost call, by its kind.                       *)
LEMMA TopFacts ==
  ASSUME FlowInv
  PROVE  /\ Top.kind = "function" <=> Len(frames) = 1
         /\ Top.kind = "left" => Top.alt # Top.merge
         /\ Top.kind = "then" => (Top.alt = Top.merge <=> ~Top.has)
         /\ Top.kind \in {"until", "body"} => Top.cond \in Placed
         /\ Top.has \in BOOLEAN /\ Top.kind \in StatementCalls \union ExpressionCalls
         /\ {Top.cond, Top.alt, Top.merge, Top.prevCond, Top.prevMerge} \subseteq Nat
         /\ parentCond \in Nat /\ parentMerge \in Nat
<1>1. Len(frames) \in DOMAIN frames /\ Top = frames[Len(frames)] /\ Top \in Frames
  BY FlowFacts
<1>2. /\ Top.has \in BOOLEAN /\ Top.kind \in StatementCalls \union ExpressionCalls
      /\ {Top.cond, Top.alt, Top.merge, Top.prevCond, Top.prevMerge} \subseteq Nat
  BY <1>1 DEF Frames
<1>3. parentCond \in Nat /\ parentMerge \in Nat
  BY FlowFacts
<1> QED
  BY <1>1, <1>2, <1>3 DEF FlowInv, CallsOK

(* The blocks created are no part of what the code had.                    *)
LEMMA FreshBlocks ==
  ASSUME FlowInv, NEW n \in Nat
  PROVE  /\ Grown(blocks, Create(blocks, n), insert, {})
         /\ DOMAIN Create(blocks, n) = 1..(Len(blocks) + n)
         /\ DOMAIN blocks \subseteq 1..(Len(blocks) + n)
         /\ n \in {1, 2, 3} => Fresh \in 1..(Len(blocks) + n)
         /\ n \in {2, 3} => Fresh + 1 \in 1..(Len(blocks) + n)
         /\ n = 3 => Fresh + 2 \in 1..(Len(blocks) + n)
<1>1. blocks \in Codes /\ insert \in DOMAIN blocks
  BY FlowFacts DEF FlowInv, FlowType
<1>2. /\ DOMAIN blocks \subseteq 1..(Len(blocks) + n)
      /\ n \in {1, 2, 3} => Fresh \in 1..(Len(blocks) + n)
      /\ n \in {2, 3} => Fresh + 1 \in 1..(Len(blocks) + n)
      /\ n = 3 => Fresh + 2 \in 1..(Len(blocks) + n)
  BY FlowFacts DEF Fresh
<1>3. Grown(blocks, Create(blocks, n), insert, {})
  <2>1. /\ Create(blocks, n) \in Codes
        /\ DOMAIN blocks \subseteq DOMAIN Create(blocks, n)
        /\ \A b \in DOMAIN blocks : Create(blocks, n)[b] = blocks[b]
        /\ \A b \in DOMAIN Create(blocks, n) \ DOMAIN blocks : Create(blocks, n)[b] = <<>>
    BY <1>1, CreateCode
  <2> QED
    BY <1>1, <2>1 DEF Grown
<1> QED
  BY <1>1, <1>2, <1>3, CreateCode

(* An instruction is built at the insertion point, among the blocks there  *)
(* are or after n more.                                                    *)
LEMMA BuiltHere ==
  ASSUME FlowInv, NEW inst \in Insts, NEW t, Destinations(inst) \subseteq t
  PROVE  /\ Grown(blocks, Build(blocks, insert, inst), insert, t)
         /\ DOMAIN Build(blocks, insert, inst) = DOMAIN blocks
         /\ IsTerminator(inst) => Terminates(Build(blocks, insert, inst)[insert])
         /\ \A n \in Nat :
              /\ Grown(blocks, Build(Create(blocks, n), insert, inst), insert, t)
              /\ DOMAIN Build(Create(blocks, n), insert, inst) = 1..(Len(blocks) + n)
              /\ IsTerminator(inst) => Terminates(Build(Create(blocks, n), insert, inst)[insert])
<1>1. blocks \in Codes /\ insert \in DOMAIN blocks
  BY FlowFacts DEF FlowInv, FlowType
<1>2. /\ Grown(blocks, Build(blocks, insert, inst), insert, Destinations(inst))
      /\ DOMAIN Build(blocks, insert, inst) = DOMAIN blocks
      /\ IsTerminator(inst) => Terminates(Build(blocks, insert, inst)[insert])
  BY <1>1, GrownBuild, 0 \in Nat
<1>3. ASSUME NEW n \in Nat
      PROVE  /\ Grown(blocks, Build(Create(blocks, n), insert, inst), insert, Destinations(inst))
             /\ DOMAIN Build(Create(blocks, n), insert, inst) = 1..(Len(blocks) + n)
             /\ IsTerminator(inst) => Terminates(Build(Create(blocks, n), insert, inst)[insert])
  BY <1>1, GrownBuild
<1> QED
  BY <1>2, <1>3 DEF Grown

(* An expression without a logical operator.                               *)
LEMMA EmitLeafFlow ==
  ASSUME FlowInv, EmitLeaf
  PROVE  FlowInv'
<1>1. /\ stage = "emit" /\ Read("leaf") /\ result' = LeafValue(Len(program) + 1)
      /\ blocks' = Build(blocks, insert, Leaf(Len(program) + 1))
      /\ UNCHANGED <<isVoid, layout, insert, parentCond, parentMerge, frames, stage, warned>>
  BY DEF EmitLeaf, AtExpression
<1>2. Grown(blocks, blocks', insert, {}) /\ result' \in Values
  <2>1. Len(program) + 1 \in Nat
    BY FlowFacts
  <2>2. /\ Leaf(Len(program) + 1) \in Insts /\ Destinations(Leaf(Len(program) + 1)) = {}
        /\ LeafValue(Len(program) + 1) \in Values
    BY <2>1, LeafInst, ValueTypes
  <2> QED
    BY <1>1, <2>2, BuiltHere
<1>3. program' \in Seq(Tokens)
  BY <1>1, ReadTokens DEF Tokens
<1> QED
  BY <1>1, <1>2, <1>3, PlainCode

(* A logical operator: its blocks are owed by the call.                    *)
LEMMA OpenLogicalFlow ==
  ASSUME FlowInv, NEW op \in {"and", "or"}, OpenLogical(op)
  PROVE  FlowInv'
<1> DEFINE fr == Frame("left", op = "and", 0, Fresh, Fresh + 1)
<1>1. /\ stage = "emit" /\ Read(op) /\ blocks' = Create(blocks, 2) /\ Call(fr)
      /\ UNCHANGED <<isVoid, layout, insert, parentCond, parentMerge, result, stage, warned>>
  BY DEF OpenLogical, AtExpression
<1>2. /\ Grown(blocks, blocks', insert, {}) /\ Fresh \in DOMAIN blocks'
      /\ Fresh + 1 \in DOMAIN blocks' /\ DOMAIN blocks \subseteq DOMAIN blocks'
  BY <1>1, FreshBlocks, FlowFacts
<1>3. /\ fr \in Frames /\ fr.kind = "left" /\ Owed(fr) = {Fresh, Fresh + 1}
      /\ fr.alt # fr.merge
      /\ Numbers(fr) = {0, Fresh, Fresh + 1, parentCond, parentMerge}
  BY FlowFacts, TopFacts DEF Frame, Frames, StatementCalls, ExpressionCalls, Owed, Numbers
<1> HIDE DEF fr
<1>4. program' \in Seq(Tokens) /\ result' \in Values
  BY <1>1, ReadTokens DEF Tokens, FlowInv, FlowType
<1>5. /\ Numbers(fr) \subseteq DOMAIN blocks' \union {0}
      /\ Owed(fr) \subseteq DOMAIN blocks' \ (DOMAIN blocks \union {insert'})
  BY <1>1, <1>2, <1>3, FlowFacts
<1> QED
  BY <1>1, <1>2, <1>3, <1>4, <1>5, PushStep

(* The left operand decides.                                               *)
LEMMA LeftDoneFlow ==
  ASSUME FlowInv, LeftDone
  PROVE  FlowInv'
<1> DEFINE jif == IF Top.has
                  THEN Jif(result, Top.alt, NoValue, Top.merge, ConstantValue(FALSE))
                  ELSE Jif(result, Top.merge, ConstantValue(TRUE), Top.alt, NoValue)
           fr == [Top EXCEPT !.kind = "right"]
<1>1. /\ stage = "emit" /\ Top.kind = "left" /\ blocks' = Build(blocks, insert, jif)
      /\ layout' = Append(layout, Top.alt) /\ insert' = Top.alt /\ Become(fr)
      /\ result' = NoValue
      /\ UNCHANGED <<isVoid, program, parentCond, parentMerge, stage, warned>>
  BY DEF LeftDone, Returned
<1>2. /\ jif \in Insts /\ Destinations(jif) = {Top.alt, Top.merge} /\ IsTerminator(jif)
  <2>1. result \in Values /\ Top.alt \in Nat /\ Top.merge \in Nat
    BY TopFacts DEF FlowInv, FlowType
  <2>2. NoValue \in Values /\ ConstantValue(TRUE) \in Values /\ ConstantValue(FALSE) \in Values
    BY ValueTypes
  <2> DEFINE toRight == Jif(result, Top.alt, NoValue, Top.merge, ConstantValue(FALSE))
             toMerge == Jif(result, Top.merge, ConstantValue(TRUE), Top.alt, NoValue)
  <2>5. /\ toRight \in Insts /\ Destinations(toRight) = {Top.alt, Top.merge}
        /\ IsTerminator(toRight)
    BY <2>1, <2>2, JifInst
  <2>6. /\ toMerge \in Insts /\ Destinations(toMerge) = {Top.merge, Top.alt}
        /\ IsTerminator(toMerge)
    BY <2>1, <2>2, JifInst
  <2> HIDE DEF toRight, toMerge
  <2>3. CASE Top.has
    BY <2>3, <2>5 DEF toRight
  <2>4. CASE ~Top.has
    <3>1. {Top.merge, Top.alt} = {Top.alt, Top.merge}
      OBVIOUS
    <3> QED
      BY <2>4, <2>6, <3>1 DEF toMerge
  <2> QED
    BY <2>3, <2>4
<1>3. /\ fr \in Frames /\ fr.kind = "right" /\ Owed(fr) = {Top.merge} /\ Numbers(fr) = Numbers(Top)
      /\ Owed(Top) = {Top.alt, Top.merge} /\ Top.alt # Top.merge
  BY <1>1, FlowFacts, TopFacts DEF Frames, StatementCalls, ExpressionCalls, Owed, Numbers
<1> HIDE DEF jif, fr
<1>4. /\ Grown(blocks, blocks', insert, {Top.alt, Top.merge}) /\ Terminates(blocks'[insert])
      /\ DOMAIN blocks' = DOMAIN blocks
  BY <1>1, <1>2, BuiltHere
<1>5. program' \in Seq(Tokens) /\ result' \in Values
  BY <1>1, ValueTypes DEF FlowInv, FlowType
<1>6. /\ insert' \in Owed(Top) \union (DOMAIN blocks' \ DOMAIN blocks)
      /\ {Top.alt, Top.merge} \subseteq Placed \union Owed(Top) \union Owed(fr) \union {insert'}
      /\ Owed(Top) \subseteq Owed(fr) \union {insert'}
      /\ Owed(fr) \subseteq (Owed(Top) \union (DOMAIN blocks' \ DOMAIN blocks)) \ {insert'}
      /\ Numbers(fr) \subseteq DOMAIN blocks' \union {0}
  BY <1>1, <1>3, <1>4, FlowFacts
<1>7. /\ Top.kind \notin {"function", "body"} /\ fr.kind # "function" /\ fr.kind # "body"
      /\ fr.kind # "left" /\ fr.kind # "then" /\ fr.kind \notin {"until", "body"}
      /\ layout' = Append(layout, insert')
  BY <1>1, <1>3
<1> QED
  BY <1>1, <1>3, <1>4, <1>5, <1>6, <1>7, CallStep

(* The right operand hands its value to the merge block.                   *)
LEMMA RightDoneFlow ==
  ASSUME FlowInv, RightDone
  PROVE  FlowInv'
<1>1. /\ stage = "emit" /\ Top.kind = "right"
      /\ blocks' = Build(blocks, insert, Jmp(Top.merge, result))
      /\ layout' = Append(layout, Top.merge) /\ insert' = Top.merge /\ frames' = Callers
      /\ result' = ArgValue(Top.merge)
      /\ UNCHANGED <<isVoid, program, parentCond, parentMerge, stage, warned>>
  BY DEF RightDone, Returned
<1>2. /\ program' \in Seq(Tokens) /\ result \in Values /\ result' \in Values /\ Top.merge \in Nat
      /\ blocks \in Codes
  BY <1>1, TopFacts, ValueTypes DEF FlowInv, FlowType
<1>3. Grown(blocks, blocks', insert, {Top.merge}) /\ Terminates(blocks'[insert])
  <2>1. /\ Jmp(Top.merge, result) \in Insts /\ IsTerminator(Jmp(Top.merge, result))
        /\ Destinations(Jmp(Top.merge, result)) = {Top.merge}
    BY <1>2, JmpInst
  <2> QED
    BY <1>1, <2>1, BuiltHere
<1>4. Owed(Top) = {Top.merge}
  BY <1>1 DEF Owed
<1>5. \A b \in DOMAIN blocks' : Targets(blocks'[b]) \intersect {} = {}
  OBVIOUS
<1> QED
  BY <1>1, <1>2, <1>3, <1>4, <1>5, ReturnStep

(* A statement that evaluates an expression: the call, and its return.     *)
LEMMA EvalFlow ==
  ASSUME FlowInv, (\E kind \in {"eval", "let"} : OpenEval(kind)) \/ EvalDone
  PROVE  FlowInv'
<1>1. ASSUME NEW kind \in {"eval", "let"}, OpenEval(kind) PROVE FlowInv'
  <2>1. /\ stage = "emit" /\ Read(kind) /\ Call(Frame("eval", FALSE, 0, 0, 0))
        /\ UNCHANGED <<isVoid, blocks, layout, insert, parentCond, parentMerge, result, stage,
                       warned>>
    BY <1>1 DEF OpenEval, AtStatement
  <2>2. program' \in Seq(Tokens)
    BY <2>1, ReadTokens DEF Tokens
  <2> QED
    BY <2>1, <2>2, PlainCall
<1>2. CASE EvalDone
  <2>1. /\ stage = "emit" /\ Top.kind = "eval" /\ frames' = Callers /\ result' = NoValue
        /\ UNCHANGED <<isVoid, program, blocks, layout, insert, parentCond, parentMerge, stage,
                       warned>>
    BY <1>2 DEF EvalDone, Returned
  <2>2. program' \in Seq(Tokens) /\ result' \in Values
    BY <2>1, ValueTypes DEF FlowInv, FlowType
  <2>3. Grown(blocks, blocks', insert, {}) /\ Owed(Top) = {}
    BY <2>1, GrownSame DEF FlowInv, FlowType, Owed
  <2>4. \A b \in DOMAIN blocks' : Targets(blocks'[b]) \intersect {} = {}
    OBVIOUS
  <2> QED
    BY <2>1, <2>2, <2>3, <2>4, ReturnStep
<1> QED
  BY <1>1, <1>2

(* A return, without a value or with one.                                  *)
LEMMA RetFlow ==
  ASSUME FlowInv, OpenRet \/ RetDone
  PROVE  FlowInv'
<1>1. CASE OpenRet
  <2>1. /\ stage = "emit" /\ Read("ret")
        /\ UNCHANGED <<isVoid, layout, insert, parentCond, parentMerge, result, stage, warned>>
    BY <1>1 DEF OpenRet, AtStatement
  <2>2. program' \in Seq(Tokens) /\ result' \in Values
    BY <2>1, ReadTokens DEF Tokens, FlowInv, FlowType
  <2>3. CASE blocks' = Build(blocks, insert, Ret(NoValue)) /\ frames' = frames
    <3>2. Ret(NoValue) \in Insts /\ Destinations(Ret(NoValue)) = {}
      BY ValueTypes, RetInst
    <3>3. Grown(blocks, blocks', insert, {})
      BY <2>3, <3>2, BuiltHere
    <3> QED
      BY <2>1, <2>2, <2>3, <3>3, PlainCode
  <2>4. CASE blocks' = blocks /\ Call(Frame("ret", FALSE, 0, 0, 0))
    BY <2>1, <2>2, <2>4, PlainCall
  <2> QED
    BY <1>1, <2>3, <2>4 DEF OpenRet
<1>2. CASE RetDone
  <2>1. /\ stage = "emit" /\ Top.kind = "ret" /\ blocks' = Build(blocks, insert, Ret(result))
        /\ frames' = Callers /\ result' = NoValue
        /\ UNCHANGED <<isVoid, program, layout, insert, parentCond, parentMerge, stage, warned>>
    BY <1>2 DEF RetDone, Returned
  <2>2. program' \in Seq(Tokens) /\ result' \in Values /\ result \in Values
    BY <2>1, ValueTypes DEF FlowInv, FlowType
  <2>3. Ret(result) \in Insts /\ Destinations(Ret(result)) = {}
    BY <2>2, RetInst
  <2>4. Grown(blocks, blocks', insert, {}) /\ Owed(Top) = {}
    BY <2>1, <2>3, BuiltHere DEF Owed
  <2>5. \A b \in DOMAIN blocks' : Targets(blocks'[b]) \intersect {} = {}
    OBVIOUS
  <2> QED
    BY <2>1, <2>2, <2>4, <2>5, ReturnStep
<1> QED
  BY <1>1, <1>2

(* Where stop and restart go: the merge block of the innermost loop, which *)
(* its body owes, and its condition, which is placed.                      *)
LEMMA LoopTargets ==
  ASSUME FlowInv, InLoop
  PROVE  parentMerge \in OwedBy(frames) /\ parentCond \in Placed
<1>1. \A f \in DOMAIN frames : f \in 1..Len(frames)
  BY FlowFacts
<1>2. PICK f \in 1..Len(frames) : /\ frames[f].kind = "body" /\ frames[f].cond = parentCond
                                  /\ frames[f].merge = parentMerge
  BY <1>1 DEF FlowInv, ParentsInnermost, Innermost, InLoop
<1>3. f \in DOMAIN frames
  BY FlowFacts
<1>4. Owed(frames[f]) = {parentMerge}
  BY <1>2 DEF Owed
<1> QED
  BY <1>2, <1>3, <1>4 DEF FlowInv, CallsOK, OwedBy

(* stop and restart.                                                       *)
LEMMA StopFlow ==
  ASSUME FlowInv, Stop \/ Restart
  PROVE  FlowInv'
<1>1. PICK token \in {"stop", "restart"}, dest \in {parentMerge, parentCond} :
        /\ stage = "emit" /\ InLoop /\ Read(token)
        /\ blocks' = BuildJmpUnlessTerminated(blocks, insert, dest)
        /\ UNCHANGED <<isVoid, layout, insert, parentCond, parentMerge, frames, result, stage,
                       warned>>
  BY DEF Stop, Restart, AtStatement
<1>2. program' \in Seq(Tokens) /\ result' \in Values
  BY <1>1, ReadTokens DEF Tokens, FlowInv, FlowType
<1>3. blocks \in Codes /\ insert \in DOMAIN blocks /\ dest \in Nat
  BY FlowFacts, TopFacts DEF FlowInv, FlowType
<1>4. Grown(blocks, blocks', insert, {dest})
  BY <1>1, <1>3, GrownJmp
<1>5. {dest} \subseteq Placed \union OwedBy(frames)
  BY <1>1, LoopTargets
<1> QED
  BY <1>1, <1>2, <1>4, <1>5, PlainCode

(* if, up to its condition.                                                *)
LEMMA OpenIfFlow ==
  ASSUME FlowInv, NEW hasElse \in BOOLEAN, OpenIf(hasElse)
  PROVE  FlowInv'
<1>1. PICK token \in {"ifelse", "if"} :
        /\ stage = "emit" /\ Read(token) /\ Call(Frame("if", hasElse, 0, 0, 0))
        /\ UNCHANGED <<isVoid, blocks, layout, insert, parentCond, parentMerge, result, stage,
                       warned>>
  BY DEF OpenIf, AtStatement
<1>2. program' \in Seq(Tokens)
  BY <1>1, ReadTokens DEF Tokens
<1> QED
  BY <1>1, <1>2, PlainCall

(* The condition chooses; the then block is placed.                        *)
LEMMA IfDoneFlow ==
  ASSUME FlowInv, IfDone
  PROVE  FlowInv'
<1> DEFINE n == IF Top.has THEN 3 ELSE 2
           merge == Fresh + 1
           els == IF Top.has THEN Fresh + 2 ELSE Fresh + 1
           jif == Jif(result, Fresh, NoValue, els, NoValue)
           fr == Frame("then", Top.has, 0, els, merge)
<1>1. /\ stage = "emit" /\ Top.kind = "if" /\ blocks' = Build(Create(blocks, n), insert, jif)
      /\ layout' = Append(layout, Fresh) /\ insert' = Fresh /\ Become(fr)
      /\ result' = NoValue
      /\ UNCHANGED <<isVoid, program, parentCond, parentMerge, stage, warned>>
  BY DEF IfDone, Returned
<1>2. /\ els \in Nat /\ merge \in Nat /\ Fresh \in Nat /\ els # Fresh /\ merge # Fresh
      /\ els \notin DOMAIN blocks /\ merge \notin DOMAIN blocks /\ Fresh \notin DOMAIN blocks
      /\ (els = merge <=> ~Top.has) /\ n \in Nat
  BY FlowFacts
<1>3. /\ jif \in Insts /\ Destinations(jif) = {Fresh, els} /\ IsTerminator(jif)
  <2>1. result \in Values /\ NoValue \in Values
    BY ValueTypes DEF FlowInv, FlowType
  <2> HIDE DEF els
  <2> QED
    BY <1>2, <2>1, JifInst
<1>4. /\ Grown(blocks, blocks', insert, {Fresh, els}) /\ Terminates(blocks'[insert])
      /\ DOMAIN blocks' = 1..(Len(blocks) + n)
  <2> HIDE DEF n, jif, els
  <2> QED
    BY <1>1, <1>2, <1>3, BuiltHere
<1>5. {Fresh, merge, els} \subseteq DOMAIN blocks'
  <2>1. CASE Top.has
    BY <2>1, <1>4, FlowFacts, FreshBlocks
  <2>2. CASE ~Top.has
    BY <2>2, <1>4, FlowFacts, FreshBlocks
  <2> QED
    BY <2>1, <2>2
<1> HIDE DEF n, jif, els, merge
<1>6. /\ fr \in Frames /\ fr.kind = "then" /\ Owed(fr) = {els, merge} /\ Owed(Top) = {}
      /\ (fr.alt = fr.merge <=> ~fr.has)
      /\ Numbers(fr) = {0, els, merge, parentCond, parentMerge}
  BY <1>1, <1>2, TopFacts DEF Frame, Frames, StatementCalls, ExpressionCalls, Owed, Numbers
<1> HIDE DEF fr
<1>7. program' \in Seq(Tokens) /\ result' \in Values
  BY <1>1, ValueTypes DEF FlowInv, FlowType
<1>8. DOMAIN blocks \subseteq DOMAIN blocks'
  BY <1>4 DEF Grown
<1>9. /\ insert' \in Owed(Top) \union (DOMAIN blocks' \ DOMAIN blocks)
      /\ {Fresh, els} \subseteq Placed \union Owed(Top) \union Owed(fr) \union {insert'}
      /\ Owed(Top) \subseteq Owed(fr) \union {insert'}
      /\ Owed(fr) \subseteq (Owed(Top) \union (DOMAIN blocks' \ DOMAIN blocks)) \ {insert'}
      /\ Numbers(fr) \subseteq DOMAIN blocks' \union {0}
      /\ layout' = Append(layout, insert')
  BY <1>1, <1>2, <1>5, <1>6, <1>8, FlowFacts
<1>10. /\ Top.kind \notin {"function", "body"} /\ fr.kind # "function" /\ fr.kind # "body"
       /\ fr.kind # "left" /\ fr.kind \notin {"until", "body"}
  BY <1>1, <1>6
<1> QED
  BY <1>1, <1>4, <1>6, <1>7, <1>9, <1>10, CallStep

(* The end of an if: the merge block is placed, or nothing jumps to it.    *)
LEMMA JoinStep ==
  ASSUME FlowInv, stage = "emit", Top.kind \in {"then", "else"}, Owed(Top) = {Top.merge},
         blocks' = BuildJmpUnlessTerminated(blocks, insert, Top.merge),
         Join(blocks', Top.merge), Read("end"), frames' = Callers,
         UNCHANGED <<isVoid, parentCond, parentMerge, result, stage, warned>>
  PROVE  FlowInv'
<1>1. /\ program' \in Seq(Tokens) /\ result' \in Values /\ Top.merge \in Nat
      /\ blocks \in Codes /\ insert \in DOMAIN blocks
  BY ReadTokens, TopFacts, FlowFacts DEF Tokens, FlowInv, FlowType
<1>2. Grown(blocks, blocks', insert, {Top.merge}) /\ Terminates(blocks'[insert])
  BY <1>1, GrownJmp
<1>3. Top.kind # "function" /\ Top.kind # "body"
  OBVIOUS
<1>4. CASE HasPreds(blocks', Top.merge)
  <2>1. layout' = Append(layout, Top.merge) /\ insert' = Top.merge
    BY <1>4 DEF Join
  <2>2. \A b \in DOMAIN blocks' : Targets(blocks'[b]) \intersect {} = {}
    OBVIOUS
  <2> QED
    BY <1>1, <1>2, <1>3, <2>1, <2>2, ReturnStep
<1>5. CASE ~HasPreds(blocks', Top.merge)
  <2>1. layout' = layout /\ insert' = insert
    BY <1>5 DEF Join
  <2>2. \A b \in DOMAIN blocks' : Targets(blocks'[b]) \intersect {Top.merge} = {}
    BY <1>5 DEF HasPreds, Targets
  <2> QED
    BY <1>1, <1>2, <1>3, <2>1, <2>2, ReturnStep
<1> QED
  BY <1>4, <1>5

(* The then branch ends, and with it the if that has no else.              *)
LEMMA CloseThenFlow ==
  ASSUME FlowInv, CloseThen
  PROVE  FlowInv'
<1>1. /\ stage = "emit" /\ Top.kind = "then"
      /\ blocks' = BuildJmpUnlessTerminated(blocks, insert, Top.merge)
      /\ UNCHANGED <<isVoid, parentCond, parentMerge, result, stage, warned>>
  BY DEF CloseThen, AtStatement
<1>2. Owed(Top) = {Top.alt, Top.merge} /\ (Top.alt = Top.merge <=> ~Top.has)
  BY <1>1, TopFacts DEF Owed
<1>3. CASE ~Top.has
  <2>1. Read("end") /\ Join(blocks', Top.merge) /\ frames' = Callers
    BY <1>1, <1>3 DEF CloseThen
  <2> QED
    BY <1>1, <1>2, <1>3, <2>1, JoinStep
<1>4. CASE Top.has
  <2> DEFINE fr == [Top EXCEPT !.kind = "else"]
  <2>1. /\ Read("else") /\ layout' = Append(layout, Top.alt) /\ insert' = Top.alt
        /\ Become(fr)
    BY <1>4 DEF CloseThen
  <2>2. /\ fr \in Frames /\ fr.kind = "else" /\ Owed(fr) = {Top.merge} /\ Numbers(fr) = Numbers(Top)
    BY FlowFacts DEF Frames, StatementCalls, ExpressionCalls, Owed, Numbers
  <2> HIDE DEF fr
  <2>3. /\ program' \in Seq(Tokens) /\ result' \in Values /\ Top.merge \in Nat
        /\ blocks \in Codes /\ insert \in DOMAIN blocks
    BY <1>1, <2>1, ReadTokens, TopFacts, FlowFacts DEF Tokens, FlowInv, FlowType
  <2>4. /\ Grown(blocks, blocks', insert, {Top.merge}) /\ Terminates(blocks'[insert])
        /\ DOMAIN blocks' = DOMAIN blocks
    BY <1>1, <2>3, GrownJmp
  <2>5. /\ insert' \in Owed(Top) \union (DOMAIN blocks' \ DOMAIN blocks)
        /\ {Top.merge} \subseteq Placed \union Owed(Top) \union Owed(fr) \union {insert'}
        /\ Owed(Top) \subseteq Owed(fr) \union {insert'}
        /\ Owed(fr) \subseteq (Owed(Top) \union (DOMAIN blocks' \ DOMAIN blocks)) \ {insert'}
        /\ Numbers(fr) \subseteq DOMAIN blocks' \union {0}
    BY <1>2, <1>4, <2>1, <2>2, <2>4, FlowFacts
  <2>6. /\ Top.kind \notin {"function", "body"} /\ fr.kind # "function" /\ fr.kind # "body"
        /\ fr.kind # "left" /\ fr.kind # "then" /\ fr.kind \notin {"until", "body"}
        /\ layout' = Append(layout, insert')
    BY <1>1, <2>1, <2>2
  <2> QED
    BY <1>1, <2>1, <2>2, <2>3, <2>4, <2>5, <2>6, CallStep
<1> QED
  BY <1>3, <1>4

(* The else branch ends.                                                   *)
LEMMA CloseElseFlow ==
  ASSUME FlowInv, CloseElse
  PROVE  FlowInv'
<1>1. /\ stage = "emit" /\ Top.kind = "else"
      /\ blocks' = BuildJmpUnlessTerminated(blocks, insert, Top.merge)
      /\ Join(blocks', Top.merge) /\ Read("end") /\ frames' = Callers
      /\ UNCHANGED <<isVoid, parentCond, parentMerge, result, stage, warned>>
  BY DEF CloseElse, AtStatement
<1>2. Owed(Top) = {Top.merge}
  BY <1>1 DEF Owed
<1> QED
  BY <1>1, <1>2, JoinStep

(* A loop: its condition is placed, its merge block owed.                  *)
LEMMA OpenUntilFlow ==
  ASSUME FlowInv, NEW hasBody \in BOOLEAN, OpenUntil(hasBody)
  PROVE  FlowInv'
<1> DEFINE fr == Frame("until", hasBody, Fresh, 0, Fresh + 1)
           jmp == Jmp(Fresh, NoValue)
<1>1. PICK token \in {"until", "spin"} :
        /\ stage = "emit" /\ Read(token) /\ blocks' = Build(Create(blocks, 2), insert, jmp)
        /\ layout' = Append(layout, Fresh) /\ insert' = Fresh /\ Call(fr)
        /\ UNCHANGED <<isVoid, parentCond, parentMerge, result, stage, warned>>
  BY DEF OpenUntil, AtStatement
<1>2. jmp \in Insts /\ Destinations(jmp) = {Fresh} /\ IsTerminator(jmp)
  BY FlowFacts, ValueTypes, JmpInst
<1>3. /\ fr \in Frames /\ fr.kind = "until" /\ Owed(fr) = {Fresh + 1} /\ fr.cond = Fresh
      /\ Numbers(fr) = {Fresh, 0, Fresh + 1, parentCond, parentMerge}
  BY FlowFacts, TopFacts DEF Frame, Frames, StatementCalls, ExpressionCalls, Owed, Numbers
<1> HIDE DEF fr, jmp
<1>4. /\ Grown(blocks, blocks', insert, {Fresh}) /\ Terminates(blocks'[insert])
      /\ DOMAIN blocks' = 1..(Len(blocks) + 2)
  BY <1>1, <1>2, BuiltHere
<1>5. program' \in Seq(Tokens) /\ result' \in Values
  BY <1>1, ReadTokens DEF Tokens, FlowInv, FlowType
<1>6. /\ Fresh \in DOMAIN blocks' \ DOMAIN blocks
      /\ Fresh + 1 \in DOMAIN blocks' \ DOMAIN blocks /\ Fresh + 1 # Fresh
      /\ DOMAIN blocks \subseteq DOMAIN blocks'
  <2>1. /\ Fresh \in 1..(Len(blocks) + 2) /\ Fresh + 1 \in 1..(Len(blocks) + 2)
        /\ Fresh + 1 # Fresh
    BY FlowFacts DEF Fresh
  <2>2. DOMAIN blocks \subseteq DOMAIN blocks'
    BY <1>4 DEF Grown
  <2> QED
    BY <1>4, <2>1, <2>2, FlowFacts
<1>7. /\ Numbers(fr) \subseteq DOMAIN blocks' \union {0}
      /\ Owed(fr) \subseteq DOMAIN blocks' \ (DOMAIN blocks \union {insert'})
      /\ insert' \in DOMAIN blocks' \ DOMAIN blocks /\ layout' = Append(layout, insert')
      /\ fr.cond = insert'
  BY <1>1, <1>3, <1>6, FlowFacts
<1>8. {Fresh} \subseteq Placed'
  <2>1. insert' \in DOMAIN blocks' \ Placed
    BY <1>7, FlowFacts
  <2> QED
    BY <1>1, <1>6, <1>7, <2>1, PlacedNext
<1>9. fr.kind \notin {"function", "body", "then"} /\ fr.kind # "left"
  BY <1>3
<1> QED
  BY <1>1, <1>3, <1>4, <1>5, <1>7, <1>8, <1>9, PushStep

(* The condition ends the loop or enters its body.                         *)
LEMMA UntilDoneFlow ==
  ASSUME FlowInv, UntilDone
  PROVE  FlowInv'
<1>1. /\ stage = "emit" /\ Top.kind = "until" /\ result' = NoValue
      /\ UNCHANGED <<isVoid, program, stage, warned>>
  BY DEF UntilDone, Returned
<1>2. /\ program' \in Seq(Tokens) /\ result' \in Values /\ result \in Values
      /\ NoValue \in Values /\ Fresh \in Nat /\ Top.merge \in Nat /\ Top.cond \in Nat
  BY <1>1, ValueTypes, TopFacts, FlowFacts DEF FlowInv, FlowType
<1>3. Owed(Top) = {Top.merge} /\ Top.cond \in Placed
  BY <1>1, TopFacts DEF Owed
<1>4. CASE ~Top.has
  <2> DEFINE jif == Jif(result, Top.merge, NoValue, Top.cond, NoValue)
  <2>1. /\ blocks' = Build(blocks, insert, jif)
        /\ layout' = Append(layout, Top.merge) /\ insert' = Top.merge /\ frames' = Callers
        /\ UNCHANGED <<parentCond, parentMerge>>
    BY <1>4 DEF UntilDone
  <2>2. jif \in Insts /\ Destinations(jif) = {Top.merge, Top.cond} /\ IsTerminator(jif)
    BY <1>2, JifInst
  <2> HIDE DEF jif
  <2>3. Grown(blocks, blocks', insert, {Top.merge, Top.cond}) /\ Terminates(blocks'[insert])
    BY <2>1, <2>2, BuiltHere
  <2>4. \A b \in DOMAIN blocks' : Targets(blocks'[b]) \intersect {} = {}
    OBVIOUS
  <2> QED
    BY <1>1, <1>2, <1>3, <2>1, <2>3, <2>4, ReturnStep
<1>5. CASE Top.has
  <2> DEFINE jif == Jif(result, Top.merge, NoValue, Fresh, NoValue)
             fr == Frame("body", TRUE, Top.cond, Fresh, Top.merge)
  <2>1. /\ blocks' = Build(Create(blocks, 1), insert, jif)
        /\ layout' = Append(layout, Fresh) /\ insert' = Fresh /\ Become(fr)
        /\ parentCond' = Top.cond /\ parentMerge' = Top.merge
    BY <1>5 DEF UntilDone
  <2>2. jif \in Insts /\ Destinations(jif) = {Top.merge, Fresh} /\ IsTerminator(jif)
    BY <1>2, JifInst
  <2>3. /\ fr \in Frames /\ fr.kind = "body" /\ Owed(fr) = {Top.merge}
        /\ fr.cond = Top.cond /\ fr.merge = Top.merge
        /\ fr.prevCond = parentCond /\ fr.prevMerge = parentMerge
        /\ Numbers(fr) = {Top.cond, Fresh, Top.merge, parentCond, parentMerge}
    BY <1>2, TopFacts DEF Frame, Frames, StatementCalls, ExpressionCalls, Owed, Numbers
  <2> HIDE DEF jif, fr
  <2>4. /\ Grown(blocks, blocks', insert, {Top.merge, Fresh}) /\ Terminates(blocks'[insert])
        /\ DOMAIN blocks' = 1..(Len(blocks) + 1)
    BY <2>1, <2>2, BuiltHere
  <2>5. Fresh \in DOMAIN blocks' \ DOMAIN blocks /\ DOMAIN blocks \subseteq DOMAIN blocks'
    BY <2>4, FlowFacts, FreshBlocks
  <2>6. /\ insert' \in Owed(Top) \union (DOMAIN blocks' \ DOMAIN blocks)
        /\ {Top.merge, Fresh} \subseteq Placed \union Owed(Top) \union Owed(fr) \union {insert'}
        /\ Owed(Top) \subseteq Owed(fr) \union {insert'}
        /\ Owed(fr) \subseteq (Owed(Top) \union (DOMAIN blocks' \ DOMAIN blocks)) \ {insert'}
        /\ layout' = Append(layout, insert')
        /\ fr.cond \in Placed \union {insert'}
    BY <1>3, <2>1, <2>3, <2>5, FlowFacts
  <2>7. Numbers(fr) \subseteq DOMAIN blocks' \union {0}
    BY <1>3, <2>3, <2>5, FlowFacts
  <2>8. /\ Top.kind \notin {"function", "body"} /\ fr.kind # "function"
        /\ fr.kind # "left" /\ fr.kind # "then"
    BY <1>1, <2>3
  <2>9. parentCond' = fr.cond /\ parentMerge' = fr.merge
    BY <2>1, <2>3
  <2> QED
    BY <1>1, <1>2, <2>1, <2>3, <2>4, <2>6, <2>7, <2>8, <2>9, CallStep
<1> QED
  BY <1>4, <1>5

(* The body goes back to the condition; the loop around is the innermost.  *)
LEMMA CloseBodyFlow ==
  ASSUME FlowInv, CloseBody
  PROVE  FlowInv'
<1>1. /\ stage = "emit" /\ Top.kind = "body" /\ Read("end")
      /\ blocks' = BuildJmpUnlessTerminated(blocks, insert, Top.cond)
      /\ layout' = Append(layout, Top.merge) /\ insert' = Top.merge
      /\ parentCond' = Top.prevCond /\ parentMerge' = Top.prevMerge /\ frames' = Callers
      /\ UNCHANGED <<isVoid, result, stage, warned>>
  BY DEF CloseBody, AtStatement
<1>2. /\ program' \in Seq(Tokens) /\ result' \in Values /\ Top.cond \in Nat
      /\ blocks \in Codes /\ insert \in DOMAIN blocks
  BY <1>1, ReadTokens, TopFacts, FlowFacts DEF Tokens, FlowInv, FlowType
<1>3. Grown(blocks, blocks', insert, {Top.cond}) /\ Terminates(blocks'[insert])
  BY <1>1, <1>2, GrownJmp
<1>4. Owed(Top) = {Top.merge} /\ Top.cond \in Placed
  BY <1>1, TopFacts DEF Owed
<1>5. \A b \in DOMAIN blocks' : Targets(blocks'[b]) \intersect {} = {}
  OBVIOUS
<1> QED
  BY <1>1, <1>2, <1>3, <1>4, <1>5, ReturnStep

(* The function ends, with a return if it is void and none ended it.       *)
LEMMA CloseFunctionFlow ==
  ASSUME FlowInv, CloseFunction
  PROVE  FlowInv'
<1>1. /\ Top.kind = "function" /\ stage' = "done"
      /\ blocks' = IF ~Terminates(blocks[insert]) /\ isVoid
                   THEN Build(blocks, insert, Ret(NoValue)) ELSE blocks
      /\ warned' = (~Terminates(blocks[insert]) /\ ~isVoid)
      /\ UNCHANGED <<isVoid, program, layout, insert, parentCond, parentMerge, frames, result>>
  BY DEF CloseFunction, AtStatement
<1>2. Len(frames) = 1 /\ isVoid \in BOOLEAN
  BY <1>1, TopFacts DEF FlowInv, FlowType
<1>3. Ret(NoValue) \in Insts /\ Destinations(Ret(NoValue)) = {} /\ IsTerminator(Ret(NoValue))
  BY ValueTypes, RetInst
<1>4. /\ Grown(blocks, blocks', insert, {}) /\ DOMAIN blocks' = DOMAIN blocks
      /\ Terminates(blocks'[insert]) \/ warned'
  <2>1. CASE ~Terminates(blocks[insert]) /\ isVoid
    BY <2>1, <1>1, <1>3, BuiltHere
  <2>2. CASE ~(~Terminates(blocks[insert]) /\ isVoid)
    <3>1. blocks' = blocks
      BY <2>2, <1>1
    <3> QED
      BY <2>2, <3>1, <1>1, GrownSame DEF FlowInv, FlowType
  <2> QED
    BY <2>1, <2>2
<1>5. CodeFits(blocks', Placed, OwedBy(frames), insert)
  <2>1. \A b \in DOMAIN blocks' : Targets(blocks'[b]) \intersect {} = {}
    OBVIOUS
  <2>2. /\ Placed \union OwedBy(frames) \subseteq Placed \union OwedBy(frames) \union {}
        /\ {} \subseteq Placed \union OwedBy(frames) \union {}
        /\ Placed \subseteq Placed \union {insert}
    OBVIOUS
  <2> QED
    BY <1>4, <2>1, <2>2, FlowFacts, CodeGrown DEF FlowInv
<1>6. Placed' = Placed /\ OwedBy(frames') = OwedBy(frames)
  BY <1>1 DEF Placed
<1>7. FlowType'
  <2>1. blocks' \in Codes
    BY <1>4 DEF Grown
  <2>2. warned' \in BOOLEAN
    BY <1>1
  <2> QED
    BY <1>1, <1>4, <2>1, <2>2 DEF FlowInv, FlowType
<1>8. LayoutOK' /\ LoopsOK(frames)' /\ ParentsInnermost'
  BY <1>1 DEF FlowInv, LayoutOK, LoopsOK, ParentsInnermost, Innermost
<1>9. CallsOK(frames, Placed, DOMAIN blocks)'
  BY <1>1, <1>4, <1>6 DEF FlowInv
<1> QED
  BY <1>1, <1>2, <1>4, <1>5, <1>6, <1>7, <1>8, <1>9 DEF FlowInv

-----------------------------------------------------------------------------
(* The theorems.                                                           *)

(* The empty function satisfies the invariant.                             *)
LEMMA InitFlow == Init => FlowInv
<1> SUFFICES ASSUME Init PROVE FlowInv
  OBVIOUS
<1>1. /\ blocks = << <<>> >> /\ layout = <<1>> /\ insert = 1 /\ parentCond = 0 /\ parentMerge = 0
      /\ frames = <<[kind |-> "function", has |-> FALSE, cond |-> 0, alt |-> 0,
                     merge |-> 0, prevCond |-> 0, prevMerge |-> 0]>>
      /\ program = <<>> /\ result = NoValue /\ stage = "emit" /\ warned = FALSE
      /\ isVoid \in BOOLEAN
  BY DEF Init
<1>2. FlowType
  <2>1. frames \in Seq(Frames)
    BY <1>1 DEF Frames, StatementCalls, ExpressionCalls
  <2>2. blocks \in Codes
    BY <1>1 DEF Codes
  <2>3. layout \in Seq(DOMAIN blocks)
    BY <1>1
  <2>4. program \in Seq(Tokens) /\ result \in Values
    BY <1>1, ValueTypes
  <2> QED
    BY <1>1, <2>1, <2>2, <2>3, <2>4 DEF FlowType
<1>3. Placed = {1} /\ DOMAIN blocks = {1} /\ blocks[1] = <<>>
  BY <1>1 DEF Placed
<1>4. /\ Len(frames) = 1 /\ DOMAIN frames = {1} /\ frames[1].kind = "function"
      /\ Numbers(frames[1]) = {0} /\ Owed(frames[1]) = {}
  BY <1>1 DEF Numbers, Owed
<1>5. CallsOK(frames, Placed, DOMAIN blocks) /\ LoopsOK(frames) /\ ParentsInnermost
  <2>1. CallsOK(frames, Placed, DOMAIN blocks)
    BY <1>4 DEF CallsOK
  <2>2. frames[1].kind # "body"
    BY <1>4
  <2>3. LoopsOK(frames)
    BY <1>4, <2>2 DEF LoopsOK
  <2>4. ParentsInnermost
    BY <1>1, <1>4, <2>2 DEF ParentsInnermost, Innermost
  <2> QED
    BY <2>1, <2>3, <2>4
<1>6. CodeFits(blocks, Placed, OwedBy(frames), insert) /\ LayoutOK
  BY <1>1, <1>3 DEF CodeFits, LayoutOK, Targets
<1> QED
  BY <1>1, <1>2, <1>5, <1>6 DEF FlowInv

(* Every step of the code generator keeps it.                              *)
LEMMA NextFlow == FlowInv /\ [Next]_vars => FlowInv'
<1> SUFFICES ASSUME FlowInv, [Next]_vars PROVE FlowInv'
  OBVIOUS
<1>1. CASE EmitLeaf
  BY <1>1, EmitLeafFlow
<1>2. CASE \E op \in {"and", "or"} : OpenLogical(op)
  BY <1>2, OpenLogicalFlow
<1>3. CASE (\E kind \in {"eval", "let"} : OpenEval(kind)) \/ EvalDone
  BY <1>3, EvalFlow
<1>4. CASE OpenRet \/ RetDone
  BY <1>4, RetFlow
<1>5. CASE Stop \/ Restart
  BY <1>5, StopFlow
<1>6. CASE \E hasElse \in BOOLEAN : OpenIf(hasElse)
  BY <1>6, OpenIfFlow
<1>7. CASE \E hasBody \in BOOLEAN : OpenUntil(hasBody)
  BY <1>7, OpenUntilFlow
<1>8. CASE CloseThen \/ CloseElse \/ CloseBody \/ CloseFunction
  BY <1>8, CloseThenFlow, CloseElseFlow, CloseBodyFlow, CloseFunctionFlow
<1>9. CASE LeftDone \/ RightDone \/ IfDone \/ UntilDone
  BY <1>9, LeftDoneFlow, RightDoneFlow, IfDoneFlow, UntilDoneFlow
<1>10. CASE UNCHANGED vars
  <2>1. UNCHANGED <<isVoid, program, blocks, layout, insert, parentCond, parentMerge, frames,
                    result, stage, warned>>
    BY <1>10 DEF vars
  <2>2. FlowType' /\ LayoutOK'
    BY <2>1 DEF FlowInv, FlowType, LayoutOK
  <2>3. Placed' = Placed
    BY <2>1 DEF Placed
  <2>4. ParentsInnermost'
    BY <2>1 DEF FlowInv, ParentsInnermost
  <2> QED
    BY <2>1, <2>2, <2>3, <2>4 DEF FlowInv
<1> QED
  BY <1>1, <1>2, <1>3, <1>4, <1>5, <1>6, <1>7, <1>8, <1>9, <1>10
     DEF Next, ReadToken, CallReturns

(* A block is placed or owed by one call, and every jump goes to such a    *)
(* one: the invariant of the code generator.                               *)
THEOREM FlowCorrect == Spec => []FlowInv
<1>1. Init => FlowInv
  BY InitFlow
<1>2. FlowInv /\ [Next]_vars => FlowInv'
  BY NextFlow
<1> QED
  BY <1>1, <1>2, PTL DEF Spec

(* Every number that stands for a block is that of one, or null.           *)
THEOREM CodegenTypeCorrect == Spec => []CodegenTypeOK
<1>1. FlowInv => CodegenTypeOK
  BY FlowTyped
<1> QED
  BY <1>1, FlowCorrect, PTL

(* stop and restart go to the merge block and the condition of the loop    *)
(* whose body is the innermost: parentCond and parentMerge, which          *)
(* codegen_until saves and restores, are those of no other loop.           *)
THEOREM ParentsCorrect == Spec => []ParentsInnermost
<1>1. FlowInv => ParentsInnermost
  BY DEF FlowInv
<1> QED
  BY <1>1, FlowCorrect, PTL

(* A finished function has every block once, and a jump to no other.       *)
THEOREM JumpsPlacedCorrect == Spec => []JumpsPlaced
<1>1. FlowInv => JumpsPlaced
  <2> SUFFICES ASSUME FlowInv, stage = "done" PROVE JumpsPlaced
    BY DEF JumpsPlaced
  <2>1. Len(frames) = 1 /\ frames[1].kind = "function" /\ DOMAIN frames = {1}
    BY FlowFacts DEF FlowInv, CallsOK
  <2>2. OwedBy(frames) = {}
    BY <2>1 DEF OwedBy, Owed
  <2>3. \A b \in DOMAIN blocks : Targets(blocks[b]) \subseteq Placed
    BY <2>2 DEF FlowInv, CodeFits
  <2>4. \A n \in DOMAIN layout : layout[n] \in DOMAIN blocks
    BY DEF FlowInv, FlowType
  <2>5. ASSUME NEW b \in DOMAIN layout, NEW i \in DOMAIN blocks[layout[b]],
               NEW d \in DOMAIN blocks[layout[b]][i].to
        PROVE  \E n \in DOMAIN layout : layout[n] = blocks[layout[b]][i].to[d]
    <3>1. blocks[layout[b]][i].to[d] \in Targets(blocks[layout[b]])
      BY DEF Targets
    <3> QED
      BY <3>1, <2>3, <2>4 DEF Placed
  <2> QED
    BY <2>5 DEF FlowInv, LayoutOK, JumpsPlaced
<1> QED
  BY <1>1, FlowCorrect, PTL

(* Every block of a finished function terminates, but the last of one the  *)
(* code generator warned of.                                               *)
THEOREM BlocksTerminateCorrect == Spec => []BlocksTerminate
<1>1. FlowInv => BlocksTerminate
  <2> SUFFICES ASSUME FlowInv, stage = "done", NEW n \in DOMAIN layout
               PROVE  Terminates(blocks[layout[n]]) \/ (warned /\ layout[n] = insert)
    BY DEF BlocksTerminate
  <2>1. layout[n] \in Placed
    BY DEF Placed
  <2> QED
    BY <2>1 DEF FlowInv, CodeFits
<1> QED
  BY <1>1, FlowCorrect, PTL

=============================================================================
