------------------------------ MODULE LIRGraph ------------------------------
(***************************************************************************)
(* A function of the graph in memory: doubly linked lists of blocks and of *)
(* instructions, whose owners keep both ends; the uses between values and  *)
(* the instructions that they are operands of, which both sides keep; and  *)
(* the destruction of it all, with which every compilation of a file ends. *)
(***************************************************************************)
EXTENDS Naturals, FiniteSets, SequencesExt

CONSTANTS
  Blocks, Insts,
  Globals,        \* The globals of the graph.
  Params,         \* The arguments and locals of the function.
  BlockParams,    \* BlockParams[b]: the arguments of b.
  Constants,      \* The constants, which belong to the whole graph.
  Func,           \* The function,
  None,           \* and the null pointer.
  Shapes,         \* Shapes[i]: the operands that i may be created with.
  MaxDetached, MaxRewired, MaxBroken  \* Bound the removals, the changes of operands
                                      \* and the lists inserted into beyond an end.

Nodes == Blocks \union Insts

Owners == Blocks \union {Func}

Values == Insts \union Globals \union Params \union Constants
            \union UNION {BlockParams[b] : b \in Blocks}

ASSUME GraphAssumption ==
  /\ IsFiniteSet(Nodes)
  /\ Blocks \intersect Values = {}
  /\ Func \notin Nodes /\ None \notin Nodes \union {Func}
  /\ Shapes \in [Insts -> SUBSET Seq(Values \union {None})]
  /\ \A b \in Blocks : BlockParams[b] \intersect Insts = {}
  /\ (Globals \union Params \union Constants) \intersect Insts = {}

VARIABLES
  m_head, m_tail,           \* of the list of an owner
  m_prev, m_next, m_parent, \* of a block or an instruction
  m_operands,               \* m_operands[i]: the values that i uses
  m_uses,                   \* m_uses[v]: the uses of v; <<i, k>> is the k-th operand of i
  created,                  \* the instructions there are
  detached, rewired,        \* how many removals and changes of operands there were
  stage,                    \* "build", or what the destructors are at
  atBlock, atInst,          \* the loops of ~Function and ~BasicBlock
  freed,                    \* what is deleted
  stale,                    \* history: the uses that were deleted after their value
  laidOut,                  \* history: the blocks at the call of ~Function
  broken,                   \* history: the owners whose list was inserted into beyond
                            \* an end, or took up a node of such a list,
  astray                    \* and the nodes that are or were in such a list

listVars == <<m_head, m_tail, m_prev, m_next, m_parent, broken, astray>>
useVars  == <<m_operands, m_uses>>
endVars  == <<stage, atBlock, atInst, freed, stale, laidOut>>
vars     == <<listVars, useVars, created, detached, rewired, endVars>>

Init ==
  /\ m_head = [o \in Owners |-> None]
  /\ m_tail = [o \in Owners |-> None]
  /\ m_prev = [n \in Nodes |-> None]
  /\ m_next = [n \in Nodes |-> None]
  /\ m_parent = [n \in Nodes |-> None]
  /\ m_operands = [i \in Insts |-> << >>]
  /\ m_uses = [v \in Values |-> << >>]
  /\ created = {}
  /\ detached = 0
  /\ rewired = 0
  /\ stage = "build"
  /\ atBlock = None
  /\ atInst = None
  /\ freed = {}
  /\ stale = {}
  /\ laidOut = << >>
  /\ broken = {}
  /\ astray = {}

-----------------------------------------------------------------------------
(* Lists.                                                                  *)

(* A store through n, if n points to anything.                             *)
Set(f, n, value) == [m \in DOMAIN f |-> IF m = n THEN value ELSE f[m]]

(* The nodes from n on.                                                    *)
Chain(n, link) ==
  LET at[k \in 0 .. Cardinality(Nodes)] ==
        IF k = 0 THEN n ELSE LET m == at[k - 1] IN IF m = None THEN None ELSE link[m]
  IN  [k \in {j \in 1 .. (Cardinality(Nodes) + 1) : at[j - 1] # None} |-> at[k - 1]]

(* What becomes of the list of o by an edit of the nodes ns that moves no   *)
(* end although it is beyond one, and by those of a list like that.        *)
Mark(o, ns, beyond) ==
  LET hit == beyond \/ o \in broken \/ ns \intersect astray # {}
      lists == IF hit THEN {o} \ {None} ELSE {}
  IN  /\ broken' = broken \union lists
      /\ astray' = IF hit THEN astray \union ns \union {m \in Nodes : m_parent[m] \in lists}
                  ELSE astray

PrependNode(o, n) ==
  /\ Mark(o, {n}, FALSE)
  /\ m_next' = IF m_head[o] # None THEN Set(m_next, n, m_head[o]) ELSE m_next
  /\ m_prev' = Set(m_prev, m_head[o], n)
  /\ m_tail' = IF m_head[o] # None THEN m_tail ELSE Set(m_tail, o, n)
  /\ m_head' = Set(m_head, o, n)
  /\ m_parent' = Set(m_parent, n, o)

AppendNode(o, n) ==
  /\ Mark(o, {n}, FALSE)
  /\ m_prev' = IF m_tail[o] # None THEN Set(m_prev, n, m_tail[o]) ELSE m_prev
  /\ m_next' = Set(m_next, m_tail[o], n)
  /\ m_head' = IF m_tail[o] # None THEN m_head ELSE Set(m_head, o, n)
  /\ m_tail' = Set(m_tail, o, n)
  /\ m_parent' = Set(m_parent, n, o)

(* Neither moves an end of the list, not even where n is beyond it.        *)
InsertBefore(n, m) ==
  /\ Mark(m_parent[m], {n, m}, m_prev[m] = None)
  /\ m_next' = Set(Set(m_next, m_prev[m], n), n, m)
  /\ m_prev' = Set(Set(m_prev, n, m_prev[m]), m, n)
  /\ m_parent' = Set(m_parent, n, m_parent[m])
  /\ UNCHANGED <<m_head, m_tail>>

(* Mutant: the rest of the list is forgotten.                              *)
InsertAfterDropping(n, m) ==
  /\ Mark(m_parent[m], {n, m}, m_next[m] = None)
  /\ m_prev' = Set(Set(m_prev, m_next[m], n), n, m)
  /\ m_next' = Set(m_next, m, n)
  /\ m_parent' = Set(m_parent, n, m_parent[m])
  /\ UNCHANGED <<m_head, m_tail>>

InsertAfter(n, m) ==
  /\ Mark(m_parent[m], {n, m}, m_next[m] = None)
  /\ m_prev' = Set(Set(m_prev, m_next[m], n), n, m)
  /\ m_next' = Set(Set(m_next, n, m_next[m]), m, n)
  /\ m_parent' = Set(m_parent, n, m_parent[m])
  /\ UNCHANGED <<m_head, m_tail>>

(* At index k, or at the end of a list that is shorter.                    *)
InsertAtIndex(o, n, k) ==
  LET list == Chain(m_head[o], m_next)
  IN  IF k + 1 \in DOMAIN list THEN InsertBefore(n, list[k + 1]) ELSE AppendNode(o, n)

(* Mutant: the tail is not moved when the last node is removed.            *)
RemoveKeepingTail(o, n) ==
  LET p == m_prev[n]
      q == m_next[n]
  IN  /\ Mark(o, {n}, FALSE)
      /\ m_head' = IF p # None THEN m_head ELSE Set(m_head, o, q)
      /\ UNCHANGED m_tail
      /\ m_next' = Set(Set(m_next, p, q), n, None)
      /\ m_prev' = Set(Set(m_prev, q, p), n, None)
      /\ m_parent' = Set(m_parent, n, None)

RemoveNode(o, n) ==
  LET p == m_prev[n]
      q == m_next[n]
  IN  /\ Mark(o, {n}, FALSE)
      /\ m_head' = IF p # None THEN m_head ELSE Set(m_head, o, q)
      /\ m_tail' = IF q # None THEN m_tail ELSE Set(m_tail, o, p)
      /\ m_next' = Set(Set(m_next, p, q), n, None)
      /\ m_prev' = Set(Set(m_prev, q, p), n, None)
      /\ m_parent' = Set(m_parent, n, None)

-----------------------------------------------------------------------------
(* Edits of the lists. Every client passes what is in no list: the asserts *)
(* of the blocks and the comments of the instructions demand it.           *)

Loose(n) == m_parent[n] = None

EditLists == stage = "build" /\ UNCHANGED <<useVars, created, rewired, endVars>>

PrependInst(b, i) == i \in created /\ Loose(i) /\ PrependNode(b, i)

AppendInst(b, i) == i \in created /\ Loose(i) /\ AppendNode(b, i)

InsertInstAt(b, i, k) == i \in created /\ Loose(i) /\ InsertAtIndex(b, i, k)

InsertInstBefore(i, j) ==
  i \in created /\ Loose(i) /\ ~Loose(j) /\ InsertBefore(i, j)

InsertInstAfter(i, j) ==
  i \in created /\ Loose(i) /\ ~Loose(j) /\ InsertAfter(i, j)

DetachInst(i) == i \in created /\ ~Loose(i) /\ RemoveNode(m_parent[i], i)

PrependBlock(b) == Loose(b) /\ PrependNode(Func, b)

AppendBlock(b) == Loose(b) /\ AppendNode(Func, b)

InsertBlockAt(b, k) == Loose(b) /\ InsertAtIndex(Func, b, k)

InsertBlockBefore(b, c) == Loose(b) /\ ~Loose(c) /\ InsertBefore(b, c)

InsertBlockAfter(b, c) == Loose(b) /\ ~Loose(c) /\ InsertAfter(b, c)

DetachBlock(b) == ~Loose(b) /\ RemoveNode(m_parent[b], b)

Place ==
  /\ EditLists
  /\ UNCHANGED detached
  /\ \/ \E b \in Blocks, i \in Insts :
          \/ PrependInst(b, i)
          \/ AppendInst(b, i)
          \/ \E k \in 0 .. Cardinality(Insts) : InsertInstAt(b, i, k)
     \/ \E i, j \in Insts : InsertInstBefore(i, j) \/ InsertInstAfter(i, j)
     \/ \E b \in Blocks :
          \/ PrependBlock(b)
          \/ AppendBlock(b)
          \/ \E k \in 0 .. Cardinality(Blocks) : InsertBlockAt(b, k)
          \/ \E c \in Blocks : InsertBlockBefore(b, c) \/ InsertBlockAfter(b, c)
  /\ Cardinality(broken') <= MaxBroken

Detach ==
  /\ EditLists
  /\ detached < MaxDetached
  /\ detached' = detached + 1
  /\ (\E i \in Insts : DetachInst(i)) \/ (\E b \in Blocks : DetachBlock(b))

-----------------------------------------------------------------------------
(* Uses.                                                                   *)

Exists(v) == v \in Insts => v \in created

(* What is left of the sequence s when the elements of gone are taken out. *)
Without(s, gone) ==
  LET left[k \in 0 .. Len(s)] ==
        IF k = 0 THEN << >>
        ELSE IF s[k] \in gone THEN left[k - 1] ELSE Append(left[k - 1], s[k])
  IN  left[Len(s)]

(* The uses that i makes of the operands ops, of which it is a use of v.   *)
UsesIn(i, ops) == [k \in DOMAIN ops |-> <<i, k>>]

(* What a user of the operands ops adds to the uses of each value.         *)
UsedBy(us, i, ops) ==
  [v \in DOMAIN us |->
     us[v] \o Without(UsesIn(i, ops), {<<i, k>> : k \in {k \in DOMAIN ops : ops[k] # v}})]

NewInst(i, ops) ==
  LET there == Without(ops, {None})
  IN  /\ i \notin created
      /\ \A k \in DOMAIN there : Exists(there[k])
      /\ created' = created \union {i}
      /\ m_operands' = [m_operands EXCEPT ![i] = there]
      /\ m_uses' = UsedBy(m_uses, i, there)

(* With an insertion point the instruction is put at an end of the block.  *)
BuildInst(i, ops) ==
  /\ stage = "build"
  /\ NewInst(i, ops)
  /\ \/ UNCHANGED listVars
     \/ \E b \in Blocks : PrependNode(b, i) \/ AppendNode(b, i)
  /\ UNCHANGED <<detached, rewired, endVars>>

EditUses ==
  /\ stage = "build"
  /\ rewired < MaxRewired
  /\ rewired' = rewired + 1
  /\ UNCHANGED <<listVars, created, detached, endVars>>

AddOperand(i, v) ==
  /\ EditUses
  /\ i \in created /\ Exists(v)
  /\ m_operands' = [m_operands EXCEPT ![i] = Append(@, v)]
  /\ m_uses' = [m_uses EXCEPT ![v] = Append(@, <<i, Len(m_operands[i]) + 1>>)]

(* Mutant: the value that is not used any more keeps the use.              *)
UsesMovedKeeping(us, moved, v, w) == [us EXCEPT ![w] = @ \o moved]

(* The uses in moved, all of v, become uses of w.                          *)
UsesMoved(us, moved, v, w) ==
  IF v = w THEN us
           ELSE [us EXCEPT ![v] = Without(@, ToSet(moved)),
                           ![w] = @ \o moved]

SetValue(moved, v, w) ==
  /\ m_uses' = UsesMoved(m_uses, moved, v, w)
  /\ m_operands' = [i \in Insts |-> [k \in DOMAIN m_operands[i] |->
                      IF Contains(moved, <<i, k>>) THEN w ELSE m_operands[i][k]]]

(* The loop is over a copy of the uses, since m_uses shrinks under it.     *)
ReplaceAllUsesWith(v, w) == SetValue(m_uses[v], v, w)

Rewire ==
  /\ EditUses
  /\ \E v, w \in Values :
       /\ Exists(v) /\ Exists(w) /\ m_uses[v] # << >>
       /\ \/ ReplaceAllUsesWith(v, w)
          \/ \E k \in DOMAIN m_uses[v] : SetValue(<<m_uses[v][k]>>, v, w)

-----------------------------------------------------------------------------
(* Destruction. The graph deletes its globals, the function, and then the  *)
(* constants. To delete twice what two broken lists hold is undefined, and *)
(* not followed any further.                                               *)

DestroyFunction ==
  /\ stage = "build"
  /\ stage' = "blocks"
  /\ freed' = Globals \union Params
  /\ atBlock' = m_head[Func]
  /\ laidOut' = Chain(m_head[Func], m_next)
  /\ UNCHANGED <<listVars, useVars, created, detached, rewired, atInst, stale>>

(* Mutant: the next block is read after the links were cleared.            *)
DestroyOneBlock ==
  /\ stage = "blocks" /\ atBlock \notin freed \union {None} /\ atInst = None
  /\ freed' = freed \union {atBlock} \union BlockParams[atBlock]
  /\ atInst' = m_head[atBlock]
  /\ m_prev' = Set(m_prev, atBlock, None)
  /\ m_next' = Set(m_next, atBlock, None)
  /\ atBlock' = m_next'[atBlock]
  /\ m_head' = Set(m_head, atBlock, None)
  /\ m_tail' = Set(m_tail, atBlock, None)
  /\ UNCHANGED <<m_parent, broken, astray, useVars, created, detached, rewired, stage, stale, laidOut>>

(* ~BasicBlock, as far as its instructions.                                *)
DestroyBlock ==
  /\ stage = "blocks" /\ atBlock \notin freed \union {None} /\ atInst = None
  /\ freed' = freed \union {atBlock} \union BlockParams[atBlock]
  /\ atInst' = m_head[atBlock]
  /\ atBlock' = m_next[atBlock]
  /\ m_prev' = Set(m_prev, atBlock, None)
  /\ m_next' = Set(m_next, atBlock, None)
  /\ m_head' = Set(m_head, atBlock, None)
  /\ m_tail' = Set(m_tail, atBlock, None)
  /\ UNCHANGED <<m_parent, broken, astray, useVars, created, detached, rewired, stage, stale, laidOut>>

(* Each use asks its value to forget it. A value that is freed is not      *)
(* there to answer: what its memory holds is undefined, and kept as it was *)
(* here because nothing reads it again.                                    *)
DestroyInst ==
  LET uses == {atInst} \X DOMAIN m_operands[atInst]
      Value(u) == m_operands[u[1]][u[2]]
  IN  /\ stage = "blocks" /\ atInst \notin freed \union {None}
      /\ m_uses' = [v \in Values |->
                      IF v \in freed THEN m_uses[v]
                      ELSE Without(m_uses[v], uses)]
      /\ stale' = stale \union {u \in uses : Value(u) \in freed}
      /\ freed' = freed \union {atInst}
      /\ atInst' = m_next[atInst]
      /\ UNCHANGED <<listVars, m_operands, created, detached, rewired, stage, atBlock, laidOut>>

DestroyConstants ==
  /\ stage = "blocks" /\ atBlock = None /\ atInst = None
  /\ stage' = "gone"
  /\ freed' = freed \union Constants
  /\ UNCHANGED <<listVars, useVars, created, detached, rewired, atBlock, atInst, stale, laidOut>>

Next ==
  \/ Place
  \/ Detach
  \/ \E i \in Insts, ops \in UNION {Shapes[j] : j \in Insts} :
       ops \in Shapes[i] /\ BuildInst(i, ops)
  \/ \E i \in Insts, v \in Values : AddOperand(i, v)
  \/ Rewire
  \/ DestroyFunction
  \/ DestroyBlock
  \/ DestroyInst
  \/ DestroyConstants

Spec == Init /\ [][Next]_vars

-----------------------------------------------------------------------------
(* Properties.                                                             *)

Walk(o) == Chain(m_head[o], m_next)

WalkBack(o) == Chain(m_tail[o], m_prev)

(* Until the graph is destroyed, the instructions of a block and the       *)
(* blocks of a function are the same sequence from either end, and are     *)
(* those that say they belong there: nothing is reachable in one direction *)
(* only, and nothing is in a list that it was taken from. Only a list that *)
(* was inserted into beyond an end is excepted, and one that a node of     *)
(* such a list was put into: what that does to one list reaches no other.  *)
LinkedBothWays ==
  stage = "build" =>
    \A o \in Owners \ broken :
      /\ WalkBack(o) = Reverse(Walk(o))
      /\ ToSet(Walk(o)) = {n \in Nodes : m_parent[n] = o}

(* What is in a list is found from its head. BasicBlock.hpp:158 says that  *)
(* insert() puts an instruction "into this block at index |i|".            *)
MembersFound ==
  stage = "build" => \A n \in Nodes : ~Loose(n) => Contains(Walk(m_parent[n]), n)

(* Every edit of the links is one change of the sequences: a place for     *)
(* what is new, none any more for what is detached, and everything else    *)
(* stays in its order. A list that is inserted into beyond an end is lost. *)
Whole(o) == IF stage = "build" /\ o \notin broken THEN Walk(o) ELSE << >>

Lists == INSTANCE GraphLists WITH
  order <- Whole(Func),
  body  <- [b \in Blocks |-> Whole(b)],
  lost  <- broken

ImplementsGraphLists == Lists!ListSpec

(* The uses that instructions make of their operands.                      *)
UsesOf(insts) == UNION {{i} \X DOMAIN m_operands[i] : i \in insts}

(* A value that is still there lists each use of it by an instruction that *)
(* is still there once, and nothing else, however operands are added and   *)
(* replaced, and while the graph is being destroyed.                       *)
UsesExact ==
  \A v \in Values \ freed :
    /\ IsInjective(m_uses[v])
    /\ ToSet(m_uses[v]) = {u \in UsesOf(created \ freed) : m_operands[u[1]][u[2]] = v}

(* What comes before x in the sequence s.                                  *)
Ahead(s, x) == {s[k] : k \in {k \in DOMAIN s : \A j \in 1 .. k : s[j] # x}}

(* The values deleted before i is: the globals, those of the function, the *)
(* arguments of the blocks up to its own, and the instructions before it.  *)
DeletedBefore(i) ==
  LET earlier == Ahead(laidOut, m_parent[i])
  IN  Globals \union Params
        \union {j \in Insts : \/ m_parent[j] \in earlier
                              \/ j # i /\ i \in ToSet(Chain(j, m_next))}
        \union UNION {BlockParams[b] : b \in earlier \union {m_parent[i]}}

(* What is in the lists is deleted, once the graph is, and what was        *)
(* detached is not; and the uses of anything but a constant, or of what    *)
(* comes later, are deleted when their value is gone, and ask it to        *)
(* forget them. Lists that were inserted into beyond an end are excepted.  *)
TeardownExact ==
  stage = "gone" /\ broken = {} =>
    LET kept == {i \in Insts : Contains(laidOut, m_parent[i])}
    IN  /\ freed = Globals \union Params \union Constants \union ToSet(laidOut) \union kept
                     \union UNION {BlockParams[b] : b \in ToSet(laidOut)}
        /\ stale = {u \in UsesOf(kept) : m_operands[u[1]][u[2]] \in DeletedBefore(u[1])}
=============================================================================
