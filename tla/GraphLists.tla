----------------------------- MODULE GraphLists -----------------------------
(***************************************************************************)
(* What the lists of a graph promise those who change it: a function is a  *)
(* sequence of blocks, a block a sequence of instructions, and nothing is  *)
(* in two places. A list may be lost: nothing is promised of it any more.  *)
(***************************************************************************)
EXTENDS Naturals, SequencesExt

CONSTANTS Blocks, Insts, Func

VARIABLES
  order,   \* the blocks of the function
  body,    \* body[b]: the instructions of b
  lost     \* the lists that are lost, of the function or of blocks

listVars == <<order, body, lost>>

Nothing == order = << >> /\ body = [b \in Blocks |-> << >>]

ListInit == Nothing /\ lost = {}

IsPlaced(i) == \E b \in Blocks : Contains(body[b], i)

PutBlock(b) ==
  /\ Func \notin lost /\ ~Contains(order, b)
  /\ \E n \in 1 .. (Len(order) + 1) : order' = InsertAt(order, n, b)
  /\ UNCHANGED <<body, lost>>

TakeBlock(b) ==
  /\ \E n \in DOMAIN order : order[n] = b /\ order' = RemoveAt(order, n)
  /\ UNCHANGED <<body, lost>>

PutInst(b, i) ==
  /\ b \notin lost /\ ~IsPlaced(i)
  /\ \E n \in 1 .. (Len(body[b]) + 1) : body' = [body EXCEPT ![b] = InsertAt(@, n, i)]
  /\ UNCHANGED <<order, lost>>

TakeInst(b, i) ==
  /\ \E n \in DOMAIN body[b] :
       body[b][n] = i /\ body' = [body EXCEPT ![b] = RemoveAt(@, n)]
  /\ UNCHANGED <<order, lost>>

LoseBlocks ==
  /\ lost' = lost \union {Func}
  /\ order' = << >>
  /\ UNCHANGED body

LoseInsts(b) ==
  /\ lost' = lost \union {b}
  /\ body' = [body EXCEPT ![b] = << >>]
  /\ UNCHANGED order

Clear == Nothing' /\ UNCHANGED lost

ListNext ==
  \/ Clear
  \/ LoseBlocks
  \/ \E b \in Blocks :
       \/ PutBlock(b)
       \/ TakeBlock(b)
       \/ LoseInsts(b)
       \/ \E i \in Insts : PutInst(b, i) \/ TakeInst(b, i)

ListSpec == ListInit /\ [][ListNext]_listVars
=============================================================================
