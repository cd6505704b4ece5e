--------------------------- MODULE LIRGraphProofs ---------------------------
(***************************************************************************)
(* Theorems about LIRGraph, for functions of any number of blocks and      *)
(* instructions: the links of a list spell one sequence, of which an edit  *)
(* changes one place; values and users agree on the uses there are; and    *)
(* the destructors delete what is attached, in the order of the layout.    *)
(***************************************************************************)
EXTENDS LIRGraph, WellFoundedInduction, FiniteSetTheorems, TLAPS

(* What there is of numbers with a property, there is a first of.          *)
LEMMA Least ==
  ASSUME NEW T \in SUBSET Nat, T # {}
  PROVE  \E m \in T : \A k \in T : m <= k
<1>1. \E m \in T : \A k \in T : ~(<<k, m>> \in OpToRel(<, Nat))
  BY NatLessThanWellFounded, WFMin
<1>2. PICK m \in T : \A k \in T : ~(<<k, m>> \in OpToRel(<, Nat))
  BY <1>1
<1>3. \A k \in T : ~(k < m)
  BY <1>2, Zenon DEF OpToRel
<1> QED BY <1>3

-----------------------------------------------------------------------------
(* What is left of a sequence.                                             *)

(* left[k] is what is left of the first k elements, up to n of them.       *)
LeftOf(s, gone, n, left) ==
  left = [k \in 0 .. n |->
            IF k = 0 THEN << >>
            ELSE IF s[k] \in gone THEN left[k - 1] ELSE Append(left[k - 1], s[k])]

(* What a function that is as Without defines it says of its places.       *)
LEMMA LeftSteps ==
  ASSUME NEW s, NEW gone, NEW n \in Nat, NEW left, LeftOf(s, gone, n, left)
  PROVE  /\ left[0] = << >>
         /\ \A k \in 1 .. n : left[k] = IF s[k] \in gone THEN left[k - 1]
                                        ELSE Append(left[k - 1], s[k])
<1> DEFINE rhs(k) == IF k = 0 THEN << >>
                     ELSE IF s[k] \in gone THEN left[k - 1] ELSE Append(left[k - 1], s[k])
<1>1. left = [k \in 0 .. n |-> rhs(k)]
  BY DEF LeftOf
<1>2. \A k \in 0 .. n : left[k] = rhs(k)
  <2> HIDE DEF rhs
  <2> QED BY <1>1
<1>3. 0 \in 0 .. n /\ \A k \in 1 .. n : k \in 0 .. n /\ k # 0
  OBVIOUS
<1> QED BY <1>2, <1>3

(* There is such a function for every length: each is one longer than      *)
(* another.                                                                *)
LEMMA LeftExists ==
  ASSUME NEW s, NEW gone, NEW n \in Nat
  PROVE  \E left : LeftOf(s, gone, n, left)
<1> DEFINE T == {k \in Nat : ~ \E left : LeftOf(s, gone, k, left)}
<1>1. CASE T = {}
  BY <1>1
<1>2. CASE T # {}
  <2>1. PICK m \in T : \A k \in T : m <= k
    <3> HIDE DEF T
    <3>1. T \in SUBSET Nat
      BY DEF T
    <3> QED BY <1>2, <3>1, Least
  <2>2. CASE m = 0
    <3>1. LeftOf(s, gone, 0, [k \in 0 .. 0 |-> << >>])
      BY DEF LeftOf
    <3> QED BY <2>1, <2>2, <3>1
  <2>3. CASE m # 0
    <3>1. m - 1 \in Nat /\ m - 1 \notin T
      BY <2>1, <2>3
    <3>2. PICK g : LeftOf(s, gone, m - 1, g)
      BY <3>1
    <3> DEFINE last == IF s[m] \in gone THEN g[m - 1] ELSE Append(g[m - 1], s[m])
               f == [k \in 0 .. m |-> IF k = m THEN last ELSE g[k]]
               rhs(k) == IF k = 0 THEN << >>
                         ELSE IF s[k] \in gone THEN f[k - 1] ELSE Append(f[k - 1], s[k])
    <3>3. \A k \in 0 .. m : f[k] = IF k = m THEN last ELSE g[k]
      OBVIOUS
    <3>4. /\ g[0] = << >>
          /\ \A k \in 1 .. (m - 1) : g[k] = IF s[k] \in gone THEN g[k - 1]
                                            ELSE Append(g[k - 1], s[k])
      BY <3>1, <3>2, LeftSteps
    <3>5. \A k \in 0 .. m : f[k] = rhs(k)
      <4> SUFFICES ASSUME NEW k \in 0 .. m PROVE f[k] = rhs(k)
        OBVIOUS
      <4> HIDE DEF f, last
      <4>1. m \in Nat
        BY <2>1
      <4>2. CASE k = 0
        BY <4>1, <4>2, <2>3, <3>3, <3>4
      <4>3. CASE k = m
        <5>1. f[k - 1] = g[m - 1]
          BY <4>1, <4>3, <2>3, <3>3
        <5> QED BY <4>1, <4>3, <2>3, <3>3, <5>1 DEF last
      <4>4. CASE k # 0 /\ k # m
        <5>1. k \in 1 .. (m - 1) /\ k - 1 \in 0 .. m /\ k - 1 # m
          BY <4>1, <4>4
        <5>2. f[k - 1] = g[k - 1] /\ f[k] = g[k]
          BY <5>1, <3>3, <4>4
        <5> QED BY <5>1, <5>2, <3>4, <4>4
      <4> QED BY <4>2, <4>3, <4>4
    <3>6. f = [k \in 0 .. m |-> rhs(k)]
      <4> HIDE DEF rhs
      <4>1. f = [k \in 0 .. m |-> f[k]]
        OBVIOUS
      <4> HIDE DEF f
      <4> QED BY <3>5, <4>1
    <3>7. LeftOf(s, gone, m, f)
      <4> HIDE DEF f
      <4> QED BY <3>6 DEF LeftOf
    <3> QED BY <3>7, <2>1
  <2> QED BY <2>2, <2>3
<1> QED BY <1>1, <1>2

(* Without keeps the elements that are not gone, and their order: nothing  *)
(* is in the rest twice that was not in the sequence twice.                *)
LEMMA WithoutIs ==
  ASSUME NEW S, NEW s \in Seq(S), NEW gone
  PROVE  /\ Without(s, gone) \in Seq(S)
         /\ ToSet(Without(s, gone)) = ToSet(s) \ gone
         /\ IsInjective(s) => IsInjective(Without(s, gone))
<1> DEFINE left == CHOOSE left : LeftOf(s, gone, Len(s), left)
           n == Len(s)
<1>1. n \in Nat /\ DOMAIN s = 1 .. n /\ \A k \in 1 .. n : s[k] \in S
  OBVIOUS
<1>2. LeftOf(s, gone, n, left)
  BY <1>1, LeftExists
<1>3. Without(s, gone) = left[n]
  BY Zenon DEF Without, LeftOf
<1> HIDE DEF left, n
<1>4. /\ left[0] = << >>
      /\ \A k \in 1 .. n : left[k] = IF s[k] \in gone THEN left[k - 1]
                                     ELSE Append(left[k - 1], s[k])
  BY <1>1, <1>2, LeftSteps
<1> DEFINE P(k) == /\ left[k] \in Seq(S)
                   /\ ToSet(left[k]) = {s[j] : j \in 1 .. k} \ gone
                   /\ IsInjective(s) => IsInjective(left[k])
           T == {k \in 0 .. n : ~P(k)}
<1>5. P(0)
  BY <1>4 DEF ToSet, IsInjective
<1>6. ASSUME NEW k \in 1 .. n, P(k - 1) PROVE P(k)
  <2> DEFINE before == left[k - 1]
  <2>1. before \in Seq(S) /\ ToSet(before) = {s[j] : j \in 1 .. (k - 1)} \ gone
        /\ (IsInjective(s) => IsInjective(before))
    BY <1>6
  <2>2. left[k] = IF s[k] \in gone THEN before ELSE Append(before, s[k])
    BY <1>4
  <2>3. {s[j] : j \in 1 .. k} = {s[j] : j \in 1 .. (k - 1)} \union {s[k]}
    BY <1>1
  <2> HIDE DEF before
  <2>4. CASE s[k] \in gone
    BY <2>1, <2>2, <2>3, <2>4
  <2>5. CASE s[k] \notin gone
    <3> DEFINE e == s[k]
               new == Append(before, e)
    <3>1. e \in S /\ new \in Seq(S) /\ Len(new) = Len(before) + 1 /\ Len(before) \in Nat
          /\ DOMAIN new = 1 .. (Len(before) + 1) /\ DOMAIN before = 1 .. Len(before)
          /\ (\A j \in 1 .. Len(before) : new[j] = before[j])
          /\ new[Len(before) + 1] = e
      BY <1>1, <2>1
    <3>2. left[k] = new
      BY <2>2, <2>5
    <3> HIDE DEF new
    <3>3. ToSet(new) = ToSet(before) \union {e}
      BY <3>1 DEF ToSet
    <3>4. ASSUME IsInjective(s) PROVE IsInjective(new)
      <4>1. e \notin ToSet(before)
        BY <3>4, <2>1, <1>1 DEF IsInjective
      <4>2. \A j \in 1 .. Len(before) : before[j] # e
        BY <4>1, <3>1 DEF ToSet
      <4>3. \A i, j \in 1 .. Len(before) : before[i] = before[j] => i = j
        BY <3>4, <2>1, <3>1 DEF IsInjective
      <4> HIDE DEF e
      <4> QED BY <3>1, <4>2, <4>3 DEF IsInjective
    <3>5. ToSet(new) = {s[j] : j \in 1 .. k} \ gone
      BY <2>1, <2>3, <2>5, <3>3
    <3> QED BY <3>1, <3>2, <3>4, <3>5
  <2> QED BY <2>4, <2>5
<1>7. T = {}
  <2> SUFFICES ASSUME T # {} PROVE FALSE
    OBVIOUS
  <2> HIDE DEF P
  <2>1. T \in SUBSET Nat
    OBVIOUS
  <2>2. PICK m \in T : \A k \in T : m <= k
    <3> HIDE DEF T
    <3> QED BY <2>1, Least
  <2>3. m # 0 /\ m \in 1 .. n
    BY <1>5, <1>1 DEF n
  <2>4. P(m - 1)
    BY <2>2, <2>3, <1>1 DEF n
  <2> QED BY <1>6, <2>2, <2>3, <2>4
<1>8. P(n)
  <2> HIDE DEF P
  <2> QED BY <1>1, <1>7 DEF n
<1>9. ToSet(s) = {s[j] : j \in 1 .. n}
  BY <1>1 DEF ToSet, n
<1> QED BY <1>3, <1>8, <1>9

-----------------------------------------------------------------------------
(* The sequence that links spell.                                          *)

(* The element at position k of L, or null before and after it.            *)
At(L, k) == IF k \in DOMAIN L THEN L[k] ELSE None

(* link leads from each element of L to the next.                          *)
Follows(link, L) ==
  /\ L \in Seq(Nodes) /\ IsInjective(L)
  /\ \A k \in DOMAIN L : link[L[k]] = At(L, k + 1)

(* No more nodes are in a list than there are.                             *)
LEMMA ListFits ==
  ASSUME NEW L \in Seq(Nodes), IsInjective(L)
  PROVE  Len(L) \in Nat /\ Cardinality(Nodes) \in Nat /\ Len(L) <= Cardinality(Nodes)
<1>1. IsFiniteSet(Nodes)
  BY GraphAssumption
<1>2. L \in Injection(1 .. Len(L), Nodes) /\ Len(L) \in Nat
  BY DEF Injection, IsInjective
<1>3. Cardinality(1 .. Len(L)) = Len(L)
  <2> DEFINE n == Len(L)
  <2>1. n \in Nat /\ n \in Int /\ 1 \in Int
    BY <1>2
  <2> HIDE DEF n
  <2>2. Cardinality(1 .. n) = IF 1 > n THEN 0 ELSE n - 1 + 1
    BY <2>1, FS_Interval
  <2>3. (IF 1 > n THEN 0 ELSE n - 1 + 1) = n
    BY <2>1
  <2> QED BY <2>2, <2>3 DEF n
<1>4. Cardinality(1 .. Len(L)) <= Cardinality(Nodes)
  BY <1>1, <1>2, FS_Injection
<1>5. Cardinality(Nodes) \in Nat
  BY <1>1, FS_CardinalityType
<1> QED BY <1>2, <1>3, <1>4, <1>5

(* The node k links on from the one at, for k up to how many there are.    *)
Steps(n, link, at) ==
  at = [k \in 0 .. Cardinality(Nodes) |->
          IF k = 0 THEN n ELSE LET m == at[k - 1] IN IF m = None THEN None ELSE link[m]]

(* Links that follow L lead to its elements, and past the last to null.    *)
LEMMA StepsAre ==
  ASSUME NEW link, NEW L, Follows(link, L), NEW at, Steps(At(L, 1), link, at)
  PROVE  \A k \in 0 .. Cardinality(Nodes) : at[k] = At(L, k + 1)
<1> DEFINE N == Cardinality(Nodes)
           T == {k \in 0 .. N : at[k] # At(L, k + 1)}
           rhs(k) == IF k = 0 THEN At(L, 1)
                     ELSE LET m == at[k - 1] IN IF m = None THEN None ELSE link[m]
<1>1. N \in Nat /\ Len(L) \in Nat /\ DOMAIN L = 1 .. Len(L) /\ \A k \in DOMAIN L : L[k] \in Nodes
  BY ListFits DEF Follows
<1>2. at = [k \in 0 .. N |-> rhs(k)]
  BY DEF Steps
<1>3. \A k \in 0 .. N : at[k] = rhs(k)
  <2> HIDE DEF rhs
  <2> QED BY <1>2
<1>4. SUFFICES ASSUME T # {} PROVE FALSE
  OBVIOUS
<1>5. PICK m \in T : \A k \in T : m <= k
  <2>1. T \in SUBSET Nat
    BY <1>1
  <2> HIDE DEF T
  <2> QED BY <1>4, <2>1, Least
<1>6. m \in 0 .. N /\ at[m] # At(L, m + 1)
  BY <1>5
<1>7. m # 0
  BY <1>3, <1>6, <1>1
<1>8. m - 1 \in 0 .. N /\ at[m - 1] = At(L, m)
  BY <1>5, <1>6, <1>7, <1>1
<1>9. at[m] = IF At(L, m) = None THEN None ELSE link[At(L, m)]
  BY <1>3, <1>6, <1>7, <1>8
<1>10. CASE m \in DOMAIN L
  BY <1>6, <1>9, <1>10, <1>1, GraphAssumption DEF At, Follows
<1>11. CASE m \notin DOMAIN L
  BY <1>6, <1>7, <1>9, <1>11, <1>1 DEF At
<1> QED BY <1>10, <1>11

(* There is a walk along such links, and so Chain reads L.                 *)
LEMMA ChainIs ==
  ASSUME NEW link, NEW L, Follows(link, L)
  PROVE  Chain(At(L, 1), link) = L
<1> DEFINE n == At(L, 1)
           N == Cardinality(Nodes)
           at == CHOOSE at : Steps(n, link, at)
           f == [k \in 0 .. N |-> At(L, k + 1)]
           rhs(k) == IF k = 0 THEN n
                     ELSE LET m == f[k - 1] IN IF m = None THEN None ELSE link[m]
<1>1. /\ N \in Nat /\ Len(L) \in Nat /\ Len(L) <= N
      /\ DOMAIN L = 1 .. Len(L) /\ \A k \in DOMAIN L : L[k] \in Nodes /\ L[k] # None
  BY ListFits, GraphAssumption DEF Follows
<1>2. \A k \in 0 .. N : f[k] = At(L, k + 1)
  OBVIOUS
<1>3. \A k \in 0 .. N : f[k] = rhs(k)
  <2> SUFFICES ASSUME NEW k \in 0 .. N PROVE f[k] = rhs(k)
    OBVIOUS
  <2> HIDE DEF f
  <2>1. CASE k = 0
    BY <1>1, <1>2, <2>1
  <2>2. CASE k # 0
    <3>1. k - 1 \in 0 .. N /\ f[k - 1] = At(L, k) /\ f[k] = At(L, k + 1)
      BY <1>1, <1>2, <2>2
    <3>2. CASE k \in DOMAIN L
      BY <1>1, <2>2, <3>1, <3>2 DEF At, Follows
    <3>3. CASE k \notin DOMAIN L
      BY <1>1, <2>2, <3>1, <3>3 DEF At
    <3> QED BY <3>2, <3>3
  <2> QED BY <2>1, <2>2
<1>4. f = [k \in 0 .. N |-> rhs(k)]
  <2>1. f = [k \in 0 .. N |-> f[k]]
    OBVIOUS
  <2> HIDE DEF f, rhs
  <2> QED BY <1>3, <2>1
<1>5. Steps(n, link, f)
  <2> HIDE DEF f
  <2> QED BY <1>4 DEF Steps
<1>6. Steps(n, link, at)
  <2> HIDE DEF f, n
  <2> QED BY <1>5
<1>7. Chain(n, link) = [k \in {j \in 1 .. (N + 1) : at[j - 1] # None} |-> at[k - 1]]
  <2> HIDE DEF n
  <2> QED BY Zenon DEF Chain, Steps
<1> HIDE DEF at, f
<1>8. \A k \in 0 .. N : at[k] = At(L, k + 1)
  BY <1>6, StepsAre
<1> HIDE DEF n, N
<1>9. \A k \in 1 .. (N + 1) : k - 1 \in 0 .. N /\ at[k - 1] = At(L, k)
  BY <1>1, <1>8
<1>10. {j \in 1 .. (N + 1) : at[j - 1] # None} = DOMAIN L
  BY <1>1, <1>9 DEF At
<1>11. \A k \in DOMAIN L : at[k - 1] = L[k]
  BY <1>1, <1>9 DEF At
<1>12. L = [k \in DOMAIN L |-> L[k]]
  BY DEF Follows
<1> QED BY <1>7, <1>10, <1>11, <1>12 DEF n

(* Read backwards, the sequence is reversed.                               *)
LEMMA ReverseIs ==
  ASSUME NEW link, NEW L \in Seq(Nodes), IsInjective(L),
         \A k \in DOMAIN L : link[L[k]] = At(L, k - 1)
  PROVE  Chain(At(L, Len(L)), link) = Reverse(L)
<1> DEFINE R == Reverse(L)
           n == Len(L)
<1>1. /\ n \in Nat /\ DOMAIN L = 1 .. n /\ R \in Seq(Nodes) /\ Len(R) = n /\ DOMAIN R = 1 .. n
      /\ \A k \in 1 .. n : R[k] = L[(n - k) + 1] /\ (n - k) + 1 \in 1 .. n
  BY DEF Reverse
<1> HIDE DEF R, n
<1>2. IsInjective(R)
  BY <1>1 DEF IsInjective
<1>3. ASSUME NEW k \in DOMAIN R PROVE link[R[k]] = At(R, k + 1)
  <2> DEFINE j == (n - k) + 1
  <2>1. j \in DOMAIN L /\ R[k] = L[j] /\ link[R[k]] = At(L, j - 1)
    BY <1>1
  <2>2. CASE k = n
    <3>1. j - 1 \notin DOMAIN L /\ k + 1 \notin DOMAIN R
      BY <1>1, <2>2
    <3> QED BY <2>1, <3>1 DEF At
  <2>3. CASE k # n
    <3>1. k + 1 \in 1 .. n /\ j - 1 = (n - (k + 1)) + 1 /\ j - 1 \in 1 .. n
      BY <1>1, <2>3
    <3>2. R[k + 1] = L[j - 1]
      BY <1>1, <3>1
    <3> QED BY <1>1, <2>1, <3>1, <3>2 DEF At
  <2> QED BY <2>2, <2>3
<1>4. Chain(At(R, 1), link) = R
  BY <1>1, <1>2, <1>3, ChainIs DEF Follows
<1>5. At(R, 1) = At(L, n)
  BY <1>1 DEF At
<1> QED BY <1>4, <1>5 DEF R, n

-----------------------------------------------------------------------------
(* The lists.                                                              *)

Members(o) == IF o = Func THEN Blocks ELSE Insts

(* L is the list of o, by every pointer there is.                          *)
Spells(L, o) ==
  /\ L \in Seq(Members(o)) /\ IsInjective(L)
  /\ m_head[o] = At(L, 1) /\ m_tail[o] = At(L, Len(L))
  /\ \A k \in DOMAIN L : m_prev[L[k]] = At(L, k - 1) /\ m_next[L[k]] = At(L, k + 1)
  /\ \A n \in Nodes : m_parent[n] = o <=> n \in ToSet(L)

LinkType ==
  /\ m_head \in [Owners -> Nodes \union {None}]
  /\ m_tail \in [Owners -> Nodes \union {None}]
  /\ m_prev \in [Nodes -> Nodes \union {None}]
  /\ m_next \in [Nodes -> Nodes \union {None}]
  /\ m_parent \in [Nodes -> Owners \union {None}]

(* No link leads from the nodes A, and no end of the owners B, elsewhere.  *)
Closed(A, B) ==
  /\ \A m \in A : m_prev[m] \in A \union {None} /\ m_next[m] \in A \union {None}
  /\ \A x \in B : m_head[x] \in A \union {None} /\ m_tail[x] \in A \union {None}

(* Blocks are with blocks and instructions with instructions.              *)
Kinds ==
  /\ Closed(Blocks, {Func})
  /\ Closed(Insts, Blocks)
  /\ \A n \in Nodes : Loose(n) \/ n \in Members(m_parent[n])

(* A is closed, with all that says it belongs to B, and nothing that       *)
(* belongs to another owner.                                               *)
Shut(A, B) ==
  /\ A \in SUBSET Nodes /\ B \in SUBSET Owners
  /\ Closed(A, B)
  /\ \A n \in Nodes : m_parent[n] \in B => n \in A
  /\ \A n \in A : m_parent[n] \in B \union {None}

(* Every other owner has a list, and what is in none has no neighbour;     *)
(* what is astray stays apart from them.                                   *)
ListInv ==
  /\ LinkType
  /\ Kinds
  /\ Shut(astray, broken)
  /\ broken = {} => astray = {}
  /\ \A o \in Owners \ broken : \E L : Spells(L, o)
  /\ \A n \in Nodes \ astray : Loose(n) => m_prev[n] = None /\ m_next[n] = None

(* The constants that the proofs go by.                                    *)
LEMMA NodesAre ==
  /\ None \notin Nodes /\ None \notin Owners /\ Func \in Owners
  /\ Blocks \subseteq Owners /\ Nodes = Blocks \union Insts
  /\ \A o \in Owners : Members(o) \subseteq Nodes
  /\ \A b \in Blocks : b # Func /\ Members(b) = Insts
  /\ Members(Func) = Blocks /\ Blocks \intersect Insts = {}
BY GraphAssumption DEF Nodes, Owners, Members, Values

(* What it is to be the list of an owner.                                  *)
LEMMA SpellsFacts ==
  ASSUME NEW o \in Owners, NEW L, Spells(L, o)
  PROVE  /\ L \in Seq(Nodes) /\ Len(L) \in Nat /\ DOMAIN L = 1 .. Len(L)
         /\ \A k \in DOMAIN L : L[k] \in Members(o) /\ L[k] \in Nodes /\ L[k] # None
         /\ \A j, k \in DOMAIN L : L[j] = L[k] => j = k
         /\ \A n \in Nodes : m_parent[n] = o <=> \E k \in DOMAIN L : L[k] = n
<1>1. L \in Seq(Members(o)) /\ Members(o) \subseteq Nodes
  BY NodesAre DEF Spells
<1>2. L \in Seq(Nodes)
  BY <1>1
<1>3. /\ Len(L) \in Nat /\ DOMAIN L = 1 .. Len(L)
      /\ \A k \in DOMAIN L : L[k] \in Members(o) /\ L[k] \in Nodes /\ L[k] # None
  BY <1>1, NodesAre
<1>4. \A j, k \in DOMAIN L : L[j] = L[k] => j = k
  BY DEF Spells, IsInjective
<1>5. \A n \in Nodes : m_parent[n] = o <=> \E k \in DOMAIN L : L[k] = n
  BY DEF Spells, ToSet
<1> QED BY <1>2, <1>3, <1>4, <1>5

(* The list of an owner is what a walk over the links reads, both ways.    *)
LEMMA WalkIs ==
  ASSUME NEW o \in Owners, NEW L, Spells(L, o)
  PROVE  Walk(o) = L /\ WalkBack(o) = Reverse(L)
<1>1. L \in Seq(Nodes) /\ IsInjective(L)
  BY SpellsFacts DEF Spells
<1>2. \A k \in DOMAIN L : m_prev[L[k]] = At(L, k - 1) /\ m_next[L[k]] = At(L, k + 1)
  BY DEF Spells
<1>3. m_head[o] = At(L, 1) /\ m_tail[o] = At(L, Len(L))
  BY DEF Spells
<1>4. Chain(At(L, 1), m_next) = L
  BY <1>1, <1>2, ChainIs DEF Follows
<1>5. Chain(At(L, Len(L)), m_prev) = Reverse(L)
  BY <1>1, <1>2, ReverseIs
<1> QED BY <1>3, <1>4, <1>5 DEF Walk, WalkBack

(* The same after a step.                                                  *)
LEMMA WalkNext ==
  ASSUME NEW o \in Owners, NEW L, Spells(L, o)'
  PROVE  Walk(o)' = L
<1>1. L \in Seq(Nodes) /\ IsInjective(L)
  <2>1. L \in Seq(Members(o)) /\ IsInjective(L)
    BY DEF Spells
  <2> QED BY <2>1, NodesAre
<1>2. \A k \in DOMAIN L : m_next'[L[k]] = At(L, k + 1)
  BY DEF Spells
<1>3. m_head'[o] = At(L, 1)
  BY DEF Spells
<1>4. Chain(At(L, 1), m_next') = L
  BY <1>1, <1>2, ChainIs DEF Follows
<1> QED BY <1>3, <1>4 DEF Walk

-----------------------------------------------------------------------------
(* Edits of sequences.                                                     *)

(* One sequence after another.                                             *)
LEMMA Joined ==
  ASSUME NEW S, NEW s \in Seq(S), NEW t \in Seq(S)
  PROVE  /\ s \o t \in Seq(S) /\ Len(s \o t) = Len(s) + Len(t)
         /\ \A j \in 1 .. (Len(s) + Len(t)) :
              (s \o t)[j] = IF j <= Len(s) THEN s[j] ELSE t[j - Len(s)]
OBVIOUS

(* With n put at position k, what was there and after it moves on by one.  *)
LEMMA InsertedAt ==
  ASSUME NEW S, NEW L \in Seq(S), NEW n \in S, NEW k \in 1 .. (Len(L) + 1)
  PROVE  /\ InsertAt(L, k, n) \in Seq(S) /\ Len(InsertAt(L, k, n)) = Len(L) + 1
         /\ \A j \in 1 .. (Len(L) + 1) :
              InsertAt(L, k, n)[j] = IF j < k THEN L[j] ELSE IF j = k THEN n ELSE L[j - 1]
<1> DEFINE pre == SubSeq(L, 1, k - 1)
           post == SubSeq(L, k, Len(L))
           mid == pre \o <<n>>
<1>1. Len(L) \in Nat /\ k \in Nat /\ 1 <= k /\ k <= Len(L) + 1 /\ DOMAIN L = 1 .. Len(L)
  OBVIOUS
<1>2. pre \in Seq(S) /\ Len(pre) = k - 1 /\ \A j \in 1 .. (k - 1) : pre[j] = L[j]
  BY <1>1
<1>3. post \in Seq(S) /\ Len(post) = Len(L) + 1 - k
      /\ \A j \in 1 .. (Len(L) + 1 - k) : post[j] = L[k + j - 1]
  BY <1>1
<1>4. InsertAt(L, k, n) = mid \o post
  BY DEF InsertAt
<1> HIDE DEF pre, post
<1>5. mid \in Seq(S) /\ Len(mid) = k /\ mid[k] = n /\ \A j \in 1 .. (k - 1) : mid[j] = L[j]
  BY <1>1, <1>2
<1> HIDE DEF mid
<1> DEFINE new == mid \o post
<1>6. /\ new \in Seq(S) /\ Len(new) = Len(L) + 1
      /\ \A j \in 1 .. k : new[j] = mid[j]
      /\ \A j \in (k + 1) .. (Len(L) + 1) : new[j] = post[j - k]
  <2>1. /\ new \in Seq(S) /\ Len(new) = Len(mid) + Len(post)
        /\ \A j \in 1 .. (Len(mid) + Len(post)) :
             new[j] = IF j <= Len(mid) THEN mid[j] ELSE post[j - Len(mid)]
    BY <1>3, <1>5, Joined
  <2> HIDE DEF new
  <2> QED BY <1>1, <1>3, <1>5, <2>1
<1> HIDE DEF new
<1>7. ASSUME NEW j \in 1 .. (Len(L) + 1)
      PROVE  new[j] = IF j < k THEN L[j] ELSE IF j = k THEN n ELSE L[j - 1]
  <2>1. CASE j <= k
    BY <1>1, <1>5, <1>6, <2>1
  <2>2. CASE j > k
    <3>1. j - k \in 1 .. (Len(L) + 1 - k) /\ k + (j - k) - 1 = j - 1
      BY <1>1, <2>2
    <3> QED BY <1>1, <1>3, <1>6, <2>2, <3>1
  <2> QED BY <2>1, <2>2, <1>1
<1> QED BY <1>4, <1>6, <1>7 DEF new

(* With the element at k taken out, what was after it moves back by one.   *)
LEMMA RemovedAt ==
  ASSUME NEW S, NEW L \in Seq(S), NEW k \in DOMAIN L
  PROVE  /\ RemoveAt(L, k) \in Seq(S) /\ Len(RemoveAt(L, k)) = Len(L) - 1
         /\ \A j \in 1 .. (Len(L) - 1) :
              RemoveAt(L, k)[j] = IF j < k THEN L[j] ELSE L[j + 1]
<1> DEFINE pre == SubSeq(L, 1, k - 1)
           post == SubSeq(L, k + 1, Len(L))
<1>1. Len(L) \in Nat /\ k \in Nat /\ 1 <= k /\ k <= Len(L) /\ DOMAIN L = 1 .. Len(L)
  OBVIOUS
<1>2. pre \in Seq(S) /\ Len(pre) = k - 1 /\ \A j \in 1 .. (k - 1) : pre[j] = L[j]
  BY <1>1
<1>3. post \in Seq(S) /\ Len(post) = Len(L) - k
      /\ \A j \in 1 .. (Len(L) - k) : post[j] = L[k + j]
  BY <1>1
<1>4. RemoveAt(L, k) = pre \o post
  BY DEF RemoveAt
<1> HIDE DEF pre, post
<1> DEFINE new == pre \o post
<1>6. /\ new \in Seq(S) /\ Len(new) = Len(L) - 1
      /\ \A j \in 1 .. (k - 1) : new[j] = pre[j]
      /\ \A j \in k .. (Len(L) - 1) : new[j] = post[j - (k - 1)]
  <2>1. /\ new \in Seq(S) /\ Len(new) = Len(pre) + Len(post)
        /\ \A j \in 1 .. (Len(pre) + Len(post)) :
             new[j] = IF j <= Len(pre) THEN pre[j] ELSE post[j - Len(pre)]
    BY <1>2, <1>3, Joined
  <2> HIDE DEF new
  <2> QED BY <1>1, <1>2, <1>3, <2>1
<1> HIDE DEF new
<1>7. ASSUME NEW j \in 1 .. (Len(L) - 1)
      PROVE  new[j] = IF j < k THEN L[j] ELSE L[j + 1]
  <2>1. CASE j < k
    BY <1>1, <1>2, <1>6, <2>1
  <2>2. CASE j >= k
    <3> DEFINE i == j - (k - 1)
    <3>1. i \in 1 .. (Len(L) - k) /\ k + i = j + 1 /\ j \in k .. (Len(L) - 1)
      BY <1>1, <2>2
    <3>2. new[j] = post[i]
      BY <1>6, <3>1
    <3> HIDE DEF i
    <3>3. post[i] = L[k + i]
      BY <1>3, <3>1
    <3> QED BY <1>1, <2>2, <3>1, <3>2, <3>3
  <2> QED BY <2>1, <2>2, <1>1
<1> QED BY <1>4, <1>6, <1>7 DEF new

-----------------------------------------------------------------------------
(* Edits of the links.                                                     *)

(* n is put into the list of o between p and q.                            *)
Linked(o, n, p, q) ==
  /\ m_next' = [m \in Nodes |-> IF m = n THEN q ELSE IF m = p THEN n ELSE m_next[m]]
  /\ m_prev' = [m \in Nodes |-> IF m = n THEN p ELSE IF m = q THEN n ELSE m_prev[m]]
  /\ m_head' = [x \in Owners |-> IF x = o /\ p = None THEN n ELSE m_head[x]]
  /\ m_tail' = [x \in Owners |-> IF x = o /\ q = None THEN n ELSE m_tail[x]]
  /\ m_parent' = [m \in Nodes |-> IF m = n THEN o ELSE m_parent[m]]

(* n is taken out of the list of o, where it is between p and q.           *)
Unlinked(o, n, p, q) ==
  /\ m_next' = [m \in Nodes |-> IF m = n THEN None ELSE IF m = p THEN q ELSE m_next[m]]
  /\ m_prev' = [m \in Nodes |-> IF m = n THEN None ELSE IF m = q THEN p ELSE m_prev[m]]
  /\ m_head' = [x \in Owners |-> IF x = o /\ p = None THEN q ELSE m_head[x]]
  /\ m_tail' = [x \in Owners |-> IF x = o /\ q = None THEN p ELSE m_tail[x]]
  /\ m_parent' = [m \in Nodes |-> IF m = n THEN None ELSE m_parent[m]]

(* The list with a node more is spelled by the new links.                  *)
LEMMA LinkedSpells ==
  ASSUME LinkType, NEW o \in Owners, NEW L, Spells(L, o), NEW n \in Members(o), Loose(n),
         NEW k \in 1 .. (Len(L) + 1), Linked(o, n, At(L, k - 1), At(L, k))
  PROVE  Spells(InsertAt(L, k, n), o)'
<1> DEFINE p == At(L, k - 1)
           q == At(L, k)
           new == InsertAt(L, k, n)
           size == Len(L)
<1>1. /\ L \in Seq(Members(o)) /\ size \in Nat /\ DOMAIN L = 1 .. size
      /\ \A j \in DOMAIN L : L[j] \in Members(o) /\ L[j] \in Nodes /\ L[j] # None
      /\ \A i, j \in DOMAIN L : L[i] = L[j] => i = j
      /\ \A m \in Nodes : m_parent[m] = o <=> \E j \in DOMAIN L : L[j] = m
  BY SpellsFacts DEF Spells
<1>2. n \in Nodes /\ n # None /\ m_parent[n] = None /\ o # None
  BY NodesAre DEF Loose
<1>3. \A j \in DOMAIN L : L[j] # n
  BY <1>1, <1>2
<1>4. /\ new \in Seq(Members(o)) /\ Len(new) = size + 1 /\ DOMAIN new = 1 .. (size + 1)
      /\ \A j \in 1 .. (size + 1) :
           new[j] = IF j < k THEN L[j] ELSE IF j = k THEN n ELSE L[j - 1]
  <2>1. new \in Seq(Members(o)) /\ Len(new) = size + 1
        /\ \A j \in 1 .. (size + 1) :
             new[j] = IF j < k THEN L[j] ELSE IF j = k THEN n ELSE L[j - 1]
    BY <1>1, InsertedAt
  <2> HIDE DEF new, size
  <2> QED BY <2>1
<1>5. k \in Nat /\ 1 <= k /\ k <= size + 1
  BY <1>1
<1>6. (p = None <=> k = 1) /\ (q = None <=> k = size + 1)
  BY <1>1, <1>5 DEF At
<1>7. /\ \A m \in Nodes : m_next'[m] = IF m = n THEN q ELSE IF m = p THEN n ELSE m_next[m]
      /\ \A m \in Nodes : m_prev'[m] = IF m = n THEN p ELSE IF m = q THEN n ELSE m_prev[m]
      /\ m_head'[o] = IF p = None THEN n ELSE m_head[o]
      /\ m_tail'[o] = IF q = None THEN n ELSE m_tail[o]
      /\ \A m \in Nodes : m_parent'[m] = IF m = n THEN o ELSE m_parent[m]
  BY DEF Linked
<1>8. /\ m_head[o] = At(L, 1) /\ m_tail[o] = At(L, size)
      /\ \A j \in DOMAIN L : m_prev[L[j]] = At(L, j - 1) /\ m_next[L[j]] = At(L, j + 1)
  BY DEF Spells
<1>9. p = At(L, k - 1) /\ q = At(L, k)
  OBVIOUS
<1> HIDE DEF p, q, new, size
<1>10. /\ \A j \in DOMAIN L : L[j] = p <=> j = k - 1
       /\ \A j \in DOMAIN L : L[j] = q <=> j = k
  <2>1. (p = None \/ (k - 1 \in DOMAIN L /\ p = L[k - 1])) /\ (k - 1 \in DOMAIN L => p = L[k - 1])
    BY <1>9 DEF At
  <2>2. (q = None \/ (k \in DOMAIN L /\ q = L[k])) /\ (k \in DOMAIN L => q = L[k])
    BY <1>9 DEF At
  <2>3. \A j \in DOMAIN L : L[j] = p <=> j = k - 1
    BY <2>1, <1>1
  <2>4. \A j \in DOMAIN L : L[j] = q <=> j = k
    BY <2>2, <1>1
  <2> QED BY <2>3, <2>4
<1>11. IsInjective(new)
  <2> SUFFICES ASSUME NEW i \in 1 .. (size + 1), NEW j \in 1 .. (size + 1), new[i] = new[j]
               PROVE  i = j
    BY <1>4 DEF IsInjective
  <2> DEFINE Old(x) == IF x < k THEN x ELSE x - 1
  <2>1. \A x \in 1 .. (size + 1) : x # k => Old(x) \in DOMAIN L /\ new[x] = L[Old(x)]
    BY <1>1, <1>4, <1>5
  <2>2. new[k] = n
    BY <1>4, <1>5
  <2>3. CASE i = k \/ j = k
    BY <2>1, <2>2, <2>3, <1>3
  <2>4. CASE i # k /\ j # k
    <3>1. Old(i) = Old(j)
      <4> HIDE DEF Old
      <4> QED BY <2>1, <2>4, <1>1
    <3> QED BY <3>1, <2>4, <1>5, <1>1
  <2> QED BY <2>3, <2>4
<1>12. m_head'[o] = At(new, 1)
  BY <1>1, <1>4, <1>5, <1>6, <1>7, <1>8 DEF At
<1>13. m_tail'[o] = At(new, Len(new))
  BY <1>1, <1>4, <1>5, <1>6, <1>7, <1>8 DEF At
<1>14. ASSUME NEW j \in DOMAIN new
       PROVE  m_prev'[new[j]] = At(new, j - 1) /\ m_next'[new[j]] = At(new, j + 1)
  <2>1. CASE j = k
    <3>1. new[j] = n /\ m_prev'[n] = p /\ m_next'[n] = q
      BY <1>2, <1>4, <1>5, <1>7, <2>1
    <3>2. p = At(new, k - 1)
      BY <1>1, <1>4, <1>5, <1>9 DEF At
    <3>3. q = At(new, k + 1)
      BY <1>1, <1>4, <1>5, <1>9 DEF At
    <3> QED BY <2>1, <3>1, <3>2, <3>3
  <2>2. CASE j < k
    <3>1. /\ new[j] = L[j] /\ j \in DOMAIN L /\ L[j] \in Nodes /\ L[j] # n
          /\ L[j] # q /\ (L[j] = p <=> j = k - 1)
      <4>1. new[j] = L[j] /\ j \in DOMAIN L /\ j # k
        BY <1>1, <1>4, <1>5, <2>2
      <4> QED BY <4>1, <1>1, <1>3, <1>10
    <3>2. m_prev'[L[j]] = At(L, j - 1)
      BY <3>1, <1>7, <1>8
    <3>3. At(L, j - 1) = At(new, j - 1)
      BY <1>1, <1>4, <1>5, <2>2 DEF At
    <3>4. CASE j = k - 1
      <4>1. m_next'[L[j]] = n
        BY <3>1, <3>4, <1>7
      <4>2. At(new, j + 1) = n
        BY <1>1, <1>4, <1>5, <3>4 DEF At
      <4> QED BY <3>1, <3>2, <3>3, <4>1, <4>2
    <3>5. CASE j # k - 1
      <4>1. m_next'[L[j]] = At(L, j + 1)
        BY <3>1, <3>5, <1>7, <1>8
      <4>2. At(new, j + 1) = At(L, j + 1)
        BY <1>1, <1>4, <1>5, <2>2, <3>5 DEF At
      <4> QED BY <3>1, <3>2, <3>3, <4>1, <4>2
    <3> QED BY <3>4, <3>5
  <2>3. CASE j > k
    <3> DEFINE i == j - 1
    <3>1. /\ new[j] = L[i] /\ i \in DOMAIN L /\ L[i] \in Nodes /\ L[i] # n
          /\ L[i] # p /\ (L[i] = q <=> i = k)
      <4>1. new[j] = L[i] /\ i \in DOMAIN L /\ i # k - 1
        BY <1>1, <1>4, <1>5, <2>3
      <4> QED BY <4>1, <1>1, <1>3, <1>10
    <3>2. m_next'[L[i]] = At(L, i + 1)
      BY <3>1, <1>7, <1>8
    <3>3. At(L, i + 1) = At(new, j + 1)
      BY <1>1, <1>4, <1>5, <2>3 DEF At
    <3>4. CASE i = k
      <4>1. m_prev'[L[i]] = n
        BY <3>1, <3>4, <1>7
      <4>2. At(new, j - 1) = n
        BY <1>1, <1>4, <1>5, <3>4 DEF At
      <4> QED BY <3>1, <3>2, <3>3, <4>1, <4>2
    <3>5. CASE i # k
      <4>1. m_prev'[L[i]] = At(L, i - 1)
        BY <3>1, <3>5, <1>7, <1>8
      <4>2. At(new, j - 1) = At(L, i - 1)
        BY <1>1, <1>4, <1>5, <2>3, <3>5 DEF At
      <4> QED BY <3>1, <3>2, <3>3, <4>1, <4>2
    <3> QED BY <3>4, <3>5
  <2> QED BY <2>1, <2>2, <2>3, <1>4, <1>5
<1>15. ASSUME NEW m \in Nodes PROVE m_parent'[m] = o <=> m \in ToSet(new)
  <2>1. m \in ToSet(new) <=> \E j \in DOMAIN new : new[j] = m
    BY DEF ToSet
  <2>2. CASE m = n
    BY <1>4, <1>5, <1>7, <2>1, <2>2
  <2>3. CASE m # n
    <3>1. ASSUME NEW j \in DOMAIN L, L[j] = m PROVE \E i \in DOMAIN new : new[i] = m
      <4>1. CASE j < k
        <5>1. j \in DOMAIN new /\ new[j] = L[j]
          BY <1>1, <1>4, <1>5, <4>1
        <5> QED BY <5>1, <3>1
      <4>2. CASE j >= k
        <5>1. j + 1 \in DOMAIN new /\ new[j + 1] = L[j]
          BY <1>1, <1>4, <1>5, <4>2
        <5> QED BY <5>1, <3>1
      <4> QED BY <4>1, <4>2, <1>1, <1>5
    <3>2. ASSUME NEW j \in DOMAIN new, new[j] = m PROVE \E i \in DOMAIN L : L[i] = m
      <4>1. CASE j < k
        <5>1. j \in DOMAIN L /\ new[j] = L[j]
          BY <1>1, <1>4, <1>5, <4>1
        <5> QED BY <5>1, <3>2
      <4>2. CASE j > k
        <5>1. j - 1 \in DOMAIN L /\ new[j] = L[j - 1]
          BY <1>1, <1>4, <1>5, <4>2
        <5> QED BY <5>1, <3>2
      <4>3. j # k
        BY <1>4, <1>5, <2>3, <3>2
      <4> QED BY <4>1, <4>2, <4>3, <1>4, <1>5
    <3> QED BY <1>1, <1>7, <2>1, <2>3, <3>1, <3>2
  <2> QED BY <2>2, <2>3
<1>16. Spells(new, o)'
  BY <1>4, <1>11, <1>12, <1>13, <1>14, <1>15 DEF Spells
<1> QED BY <1>16 DEF new

(* The other lists are spelled as they were.                               *)
LEMMA LinkedKeeps ==
  ASSUME LinkType, NEW o \in Owners, NEW L, Spells(L, o), NEW n \in Members(o), Loose(n),
         NEW k \in 1 .. (Len(L) + 1), Linked(o, n, At(L, k - 1), At(L, k)),
         NEW x \in Owners, x # o, NEW M, Spells(M, x)
  PROVE  Spells(M, x)'
<1> DEFINE p == At(L, k - 1)
           q == At(L, k)
<1>1. /\ M \in Seq(Members(x)) /\ IsInjective(M)
      /\ \A j \in DOMAIN M : M[j] \in Nodes /\ M[j] # None /\ m_parent[M[j]] = x
      /\ m_head[x] = At(M, 1) /\ m_tail[x] = At(M, Len(M))
      /\ \A j \in DOMAIN M : m_prev[M[j]] = At(M, j - 1) /\ m_next[M[j]] = At(M, j + 1)
      /\ \A m \in Nodes : m_parent[m] = x <=> m \in ToSet(M)
  BY SpellsFacts DEF Spells
<1>2. n \in Nodes /\ m_parent[n] = None /\ x # None
  BY NodesAre DEF Loose
<1>3. \A j \in DOMAIN L : m_parent[L[j]] = o
  BY SpellsFacts
<1>4. (p = None \/ m_parent[p] = o) /\ (q = None \/ m_parent[q] = o)
  BY <1>3 DEF At
<1>5. \A j \in DOMAIN M : M[j] # n /\ M[j] # p /\ M[j] # q
  BY <1>1, <1>2, <1>4
<1> HIDE DEF p, q
<1>6. /\ \A m \in Nodes : m_next'[m] = IF m = n THEN q ELSE IF m = p THEN n ELSE m_next[m]
      /\ \A m \in Nodes : m_prev'[m] = IF m = n THEN p ELSE IF m = q THEN n ELSE m_prev[m]
      /\ m_head'[x] = m_head[x] /\ m_tail'[x] = m_tail[x]
      /\ \A m \in Nodes : m_parent'[m] = IF m = n THEN o ELSE m_parent[m]
  BY DEF Linked, p, q
<1>7. \A j \in DOMAIN M : m_prev'[M[j]] = At(M, j - 1) /\ m_next'[M[j]] = At(M, j + 1)
  BY <1>1, <1>5, <1>6
<1>8. \A m \in Nodes : m_parent'[m] = x <=> m \in ToSet(M)
  BY <1>1, <1>2, <1>6
<1> QED BY <1>1, <1>6, <1>7, <1>8 DEF Spells

(* The list with a node less is spelled by the new links.                  *)
LEMMA UnlinkedSpells ==
  ASSUME LinkType, NEW o \in Owners, NEW L, Spells(L, o), NEW k \in DOMAIN L,
         Unlinked(o, L[k], At(L, k - 1), At(L, k + 1))
  PROVE  Spells(RemoveAt(L, k), o)'
<1> DEFINE p == At(L, k - 1)
           q == At(L, k + 1)
           n == L[k]
           new == RemoveAt(L, k)
           size == Len(L)
<1>1. /\ L \in Seq(Members(o)) /\ size \in Nat /\ DOMAIN L = 1 .. size
      /\ \A j \in DOMAIN L : L[j] \in Members(o) /\ L[j] \in Nodes /\ L[j] # None
      /\ \A i, j \in DOMAIN L : L[i] = L[j] => i = j
      /\ \A m \in Nodes : m_parent[m] = o <=> \E j \in DOMAIN L : L[j] = m
  BY SpellsFacts DEF Spells
<1>2. n \in Nodes /\ n # None /\ o # None /\ n = L[k]
  BY <1>1, NodesAre
<1>3. k \in Nat /\ 1 <= k /\ k <= size
  BY <1>1
<1>4. /\ new \in Seq(Members(o)) /\ Len(new) = size - 1 /\ DOMAIN new = 1 .. (size - 1)
      /\ \A j \in 1 .. (size - 1) : new[j] = IF j < k THEN L[j] ELSE L[j + 1]
  <2>1. L \in Seq(Members(o))
    BY DEF Spells
  <2>2. new \in Seq(Members(o)) /\ Len(new) = size - 1
        /\ \A j \in 1 .. (size - 1) : new[j] = IF j < k THEN L[j] ELSE L[j + 1]
    BY <2>1, RemovedAt
  <2>3. size \in Nat
    BY <1>1
  <2> HIDE DEF new, size
  <2> QED BY <2>2, <2>3
<1>5. /\ \A m \in Nodes : m_next'[m] = IF m = n THEN None ELSE IF m = p THEN q ELSE m_next[m]
      /\ \A m \in Nodes : m_prev'[m] = IF m = n THEN None ELSE IF m = q THEN p ELSE m_prev[m]
      /\ m_head'[o] = IF p = None THEN q ELSE m_head[o]
      /\ m_tail'[o] = IF q = None THEN p ELSE m_tail[o]
      /\ \A m \in Nodes : m_parent'[m] = IF m = n THEN None ELSE m_parent[m]
  BY DEF Unlinked
<1>6. /\ m_head[o] = At(L, 1) /\ m_tail[o] = At(L, size)
      /\ \A j \in DOMAIN L : m_prev[L[j]] = At(L, j - 1) /\ m_next[L[j]] = At(L, j + 1)
  BY DEF Spells
<1>7. p = At(L, k - 1) /\ q = At(L, k + 1)
  OBVIOUS
<1> HIDE DEF p, q, n, new, size
<1>8. (p = None <=> k = 1) /\ (q = None <=> k = size)
  BY <1>1, <1>3, <1>7 DEF At
<1>9. /\ \A j \in DOMAIN L : L[j] = p <=> j = k - 1
      /\ \A j \in DOMAIN L : L[j] = q <=> j = k + 1
      /\ \A j \in DOMAIN L : L[j] = n <=> j = k
  <2>1. (p = None \/ (k - 1 \in DOMAIN L /\ p = L[k - 1])) /\ (k - 1 \in DOMAIN L => p = L[k - 1])
    BY <1>7 DEF At
  <2>2. (q = None \/ (k + 1 \in DOMAIN L /\ q = L[k + 1])) /\ (k + 1 \in DOMAIN L => q = L[k + 1])
    BY <1>7 DEF At
  <2>3. \A j \in DOMAIN L : L[j] = p <=> j = k - 1
    BY <2>1, <1>1
  <2>4. \A j \in DOMAIN L : L[j] = q <=> j = k + 1
    BY <2>2, <1>1
  <2>5. \A j \in DOMAIN L : L[j] = n <=> j = k
    BY <1>1, <1>2
  <2> QED BY <2>3, <2>4, <2>5
<1> DEFINE Old(j) == IF j < k THEN j ELSE j + 1
<1>10. \A j \in DOMAIN new : Old(j) \in DOMAIN L /\ Old(j) # k /\ new[j] = L[Old(j)]
  BY <1>1, <1>3, <1>4
<1>11. IsInjective(new)
  <2> SUFFICES ASSUME NEW i \in DOMAIN new, NEW j \in DOMAIN new, new[i] = new[j]
               PROVE  i = j
    BY DEF IsInjective
  <2>1. Old(i) = Old(j)
    <3> HIDE DEF Old
    <3> QED BY <1>1, <1>10
  <2> QED BY <2>1, <1>3, <1>4
<1>12. m_head'[o] = At(new, 1)
  BY <1>1, <1>3, <1>4, <1>5, <1>6, <1>7, <1>8 DEF At
<1>13. m_tail'[o] = At(new, Len(new))
  BY <1>1, <1>3, <1>4, <1>5, <1>6, <1>7, <1>8 DEF At
<1>14. ASSUME NEW j \in DOMAIN new
       PROVE  m_prev'[new[j]] = At(new, j - 1) /\ m_next'[new[j]] = At(new, j + 1)
  <2> DEFINE i == Old(j)
  <2>1. /\ i \in DOMAIN L /\ i # k /\ new[j] = L[i] /\ L[i] \in Nodes /\ L[i] # n
    BY <1>1, <1>9, <1>10
  <2>2. m_next'[L[i]] = At(new, j + 1)
    <3>1. CASE i = k - 1
      <4>1. m_next'[L[i]] = q
        <5> HIDE DEF i
        <5> QED BY <2>1, <3>1, <1>5, <1>9
      <4>2. j = k - 1
        BY <3>1, <1>3, <1>4
      <4>3. At(new, j + 1) = q
        BY <4>2, <1>1, <1>3, <1>4, <1>7 DEF At
      <4> QED BY <4>1, <4>3
    <3>2. CASE i # k - 1
      <4>1. m_next'[L[i]] = At(L, i + 1)
        <5> HIDE DEF i
        <5> QED BY <2>1, <3>2, <1>5, <1>6, <1>9
      <4>2. At(new, j + 1) = At(L, i + 1)
        BY <2>1, <3>2, <1>1, <1>3, <1>4 DEF At
      <4> QED BY <4>1, <4>2
    <3> QED BY <3>1, <3>2
  <2>3. m_prev'[L[i]] = At(new, j - 1)
    <3>1. CASE i = k + 1
      <4>1. m_prev'[L[i]] = p
        <5> HIDE DEF i
        <5> QED BY <2>1, <3>1, <1>5, <1>9
      <4>2. j = k
        BY <3>1, <1>3, <1>4
      <4>3. At(new, j - 1) = p
        BY <4>2, <1>1, <1>3, <1>4, <1>7 DEF At
      <4> QED BY <4>1, <4>3
    <3>2. CASE i # k + 1
      <4>1. m_prev'[L[i]] = At(L, i - 1)
        <5> HIDE DEF i
        <5> QED BY <2>1, <3>2, <1>5, <1>6, <1>9
      <4>2. At(new, j - 1) = At(L, i - 1)
        BY <2>1, <3>2, <1>1, <1>3, <1>4 DEF At
      <4> QED BY <4>1, <4>2
    <3> QED BY <3>1, <3>2
  <2> HIDE DEF i
  <2> QED BY <2>1, <2>2, <2>3
<1>15. ASSUME NEW m \in Nodes PROVE m_parent'[m] = o <=> m \in ToSet(new)
  <2>1. m \in ToSet(new) <=> \E j \in DOMAIN new : new[j] = m
    BY DEF ToSet
  <2>2. CASE m = n
    <3>1. \A j \in DOMAIN new : new[j] # m
      <4> HIDE DEF Old
      <4> QED BY <2>2, <1>9, <1>10
    <3> QED BY <2>1, <2>2, <3>1, <1>2, <1>5
  <2>3. CASE m # n
    <3>1. ASSUME NEW j \in DOMAIN L, L[j] = m PROVE \E i \in DOMAIN new : new[i] = m
      <4>1. j # k
        BY <2>3, <3>1, <1>2
      <4>2. CASE j < k
        <5>1. j \in DOMAIN new /\ new[j] = L[j]
          BY <1>1, <1>3, <1>4, <4>2
        <5> QED BY <5>1, <3>1
      <4>3. CASE j > k
        <5>1. j - 1 \in DOMAIN new /\ new[j - 1] = L[j]
          BY <1>1, <1>3, <1>4, <4>3
        <5> QED BY <5>1, <3>1
      <4> QED BY <4>1, <4>2, <4>3, <1>1, <1>3
    <3>2. ASSUME NEW j \in DOMAIN new, new[j] = m PROVE \E i \in DOMAIN L : L[i] = m
      <4> HIDE DEF Old
      <4> QED BY <3>2, <1>10
    <3> QED BY <1>1, <1>5, <2>1, <2>3, <3>1, <3>2
  <2> QED BY <2>2, <2>3
<1>16. Spells(new, o)'
  BY <1>4, <1>11, <1>12, <1>13, <1>14, <1>15 DEF Spells
<1> QED BY <1>16 DEF new

(* The other lists are spelled as they were.                               *)
LEMMA UnlinkedKeeps ==
  ASSUME LinkType, NEW o \in Owners, NEW L, Spells(L, o), NEW k \in DOMAIN L,
         Unlinked(o, L[k], At(L, k - 1), At(L, k + 1)),
         NEW x \in Owners, x # o, NEW M, Spells(M, x)
  PROVE  Spells(M, x)'
<1> DEFINE p == At(L, k - 1)
           q == At(L, k + 1)
           n == L[k]
<1>1. /\ M \in Seq(Members(x)) /\ IsInjective(M)
      /\ \A j \in DOMAIN M : M[j] \in Nodes /\ M[j] # None /\ m_parent[M[j]] = x
      /\ m_head[x] = At(M, 1) /\ m_tail[x] = At(M, Len(M))
      /\ \A j \in DOMAIN M : m_prev[M[j]] = At(M, j - 1) /\ m_next[M[j]] = At(M, j + 1)
      /\ \A m \in Nodes : m_parent[m] = x <=> m \in ToSet(M)
  <2>1. \A j \in DOMAIN M : M[j] \in Nodes /\ M[j] # None /\ m_parent[M[j]] = x
    BY SpellsFacts
  <2> QED BY <2>1 DEF Spells
<1>2. n \in Nodes /\ m_parent[n] = o /\ x # None
  BY SpellsFacts, NodesAre
<1>3. \A j \in DOMAIN L : m_parent[L[j]] = o
  BY SpellsFacts
<1>4. (p = None \/ m_parent[p] = o) /\ (q = None \/ m_parent[q] = o)
  BY <1>3 DEF At
<1>5. \A j \in DOMAIN M : M[j] # n /\ M[j] # p /\ M[j] # q
  BY <1>1, <1>2, <1>4
<1> HIDE DEF p, q, n
<1>6. /\ \A m \in Nodes : m_next'[m] = IF m = n THEN None ELSE IF m = p THEN q ELSE m_next[m]
      /\ \A m \in Nodes : m_prev'[m] = IF m = n THEN None ELSE IF m = q THEN p ELSE m_prev[m]
      /\ m_head'[x] = m_head[x] /\ m_tail'[x] = m_tail[x]
      /\ \A m \in Nodes : m_parent'[m] = IF m = n THEN None ELSE m_parent[m]
  BY DEF Unlinked, p, q, n
<1>7. \A j \in DOMAIN M : m_prev'[M[j]] = At(M, j - 1) /\ m_next'[M[j]] = At(M, j + 1)
  BY <1>1, <1>5, <1>6
<1>8. \A m \in Nodes : m_parent'[m] = x <=> m \in ToSet(M)
  BY <1>1, <1>2, <1>6
<1> QED BY <1>1, <1>6, <1>7, <1>8 DEF Spells

(* n goes to p, and no links but those of A and B change, nor do they lead *)
(* out of there.                                                           *)
Moves(A, B, n, p) ==
  /\ LinkType'
  /\ Closed(A, B)'
  /\ \A m \in Nodes \ A : m_prev'[m] = m_prev[m] /\ m_next'[m] = m_next[m]
  /\ \A x \in Owners \ B : m_head'[x] = m_head[x] /\ m_tail'[x] = m_tail[x]
  /\ \A m \in Nodes : m_parent'[m] = IF m = n THEN p ELSE m_parent[m]

(* The owners that what n may be with can have.                            *)
MovesAmongKind(n, p) ==
  IF n \in Insts THEN Moves(Insts, Blocks, n, p) ELSE Moves(Blocks, {Func}, n, p)

(* So the kinds stay apart.                                                *)
LEMMA KindsKept ==
  ASSUME Kinds, NEW n \in Nodes, NEW p, p = None \/ n \in Members(p), MovesAmongKind(n, p)
  PROVE  Kinds'
<1>1. \A m \in Nodes : Loose(m) \/ m \in Members(m_parent[m])
  BY DEF Kinds
<1>2. \A m \in Nodes : m_parent'[m] = IF m = n THEN p ELSE m_parent[m]
  BY DEF MovesAmongKind, Moves
<1>3. \A m \in Nodes : Loose(m)' \/ m \in Members(m_parent[m])'
  BY <1>1, <1>2 DEF Loose, Members
<1>4. CASE n \in Insts
  <2>1. Closed(Insts, Blocks)'
    BY <1>4 DEF MovesAmongKind, Moves
  <2>2. Closed(Blocks, {Func})'
    BY <1>4, NodesAre DEF MovesAmongKind, Moves, Kinds, Closed
  <2> QED BY <1>3, <2>1, <2>2 DEF Kinds
<1>5. CASE n \notin Insts
  <2>1. Closed(Blocks, {Func})'
    BY <1>5 DEF MovesAmongKind, Moves
  <2>2. Closed(Insts, Blocks)'
    BY <1>5, NodesAre DEF MovesAmongKind, Moves, Kinds, Closed
  <2> QED BY <1>3, <2>1, <2>2 DEF Kinds
<1> QED BY <1>4, <1>5

(* Either edit of a list is a move among its nodes.                        *)
LEMMA LinkedMoves ==
  ASSUME LinkType, NEW o \in Owners, NEW n \in Nodes,
         NEW p \in Nodes \union {None}, NEW q \in Nodes \union {None}, Linked(o, n, p, q),
         NEW A \in SUBSET Nodes, NEW B \in SUBSET Owners, Closed(A, B),
         o \in B, n \in A, p \in A \union {None}, q \in A \union {None}
  PROVE  Moves(A, B, n, o)
<1>1. LinkType'
  BY Zenon DEF LinkType, Linked
<1>2. Closed(A, B)'
  BY DEF Closed, Linked
<1> QED BY <1>1, <1>2, NodesAre DEF Moves, Linked

LEMMA UnlinkedMoves ==
  ASSUME LinkType, NEW o \in Owners, NEW n \in Nodes,
         NEW p \in Nodes \union {None}, NEW q \in Nodes \union {None}, Unlinked(o, n, p, q),
         NEW A \in SUBSET Nodes, NEW B \in SUBSET Owners, Closed(A, B),
         o \in B, n \in A, p \in A \union {None}, q \in A \union {None}
  PROVE  Moves(A, B, n, None)
<1>1. LinkType'
  BY Zenon DEF LinkType, Unlinked
<1>2. Closed(A, B)'
  BY DEF Closed, Unlinked
<1> QED BY <1>1, <1>2, NodesAre DEF Moves, Unlinked

(* What is around a place of a list is of its kind.                        *)
LEMMA KindIs ==
  ASSUME Kinds, NEW o \in Owners, NEW n \in Members(o)
  PROVE  \E A \in SUBSET Nodes, B \in SUBSET Owners :
           /\ Closed(A, B) /\ o \in B /\ n \in A /\ Members(o) = A
           /\ \A p : Moves(A, B, n, p) => MovesAmongKind(n, p)
<1>1. CASE o = Func
  <2>1. n \in Blocks /\ n \notin Insts /\ Members(o) = Blocks
    BY <1>1, NodesAre
  <2>2. \A p : Moves(Blocks, {Func}, n, p) => MovesAmongKind(n, p)
    BY <2>1 DEF MovesAmongKind
  <2>3. Closed(Blocks, {Func}) /\ Blocks \in SUBSET Nodes /\ {Func} \in SUBSET Owners
    BY NodesAre DEF Kinds
  <2> QED BY <1>1, <2>1, <2>2, <2>3
<1>2. CASE o # Func
  <2>1. n \in Insts /\ o \in Blocks /\ Members(o) = Insts
    BY <1>2, NodesAre DEF Owners
  <2>2. \A p : Moves(Insts, Blocks, n, p) => MovesAmongKind(n, p)
    BY <2>1 DEF MovesAmongKind
  <2>3. Closed(Insts, Blocks) /\ Insts \in SUBSET Nodes /\ Blocks \in SUBSET Owners
    BY NodesAre DEF Kinds
  <2> QED BY <1>2, <2>1, <2>2, <2>3
<1> QED BY <1>1, <1>2

(* What is astray stays apart when neither it nor its owners change.       *)
LEMMA ApartKept ==
  ASSUME Shut(astray, broken), UNCHANGED <<broken, astray>>, NEW n \in Nodes \ astray,
         NEW p \in (Owners \ broken) \union {None},
         \A m \in astray : m_prev'[m] = m_prev[m] /\ m_next'[m] = m_next[m],
         \A x \in broken : m_head'[x] = m_head[x] /\ m_tail'[x] = m_tail[x],
         \A m \in Nodes : m_parent'[m] = IF m = n THEN p ELSE m_parent[m]
  PROVE  Shut(astray, broken)'
<1>1. Closed(astray, broken)'
  BY DEF Shut, Closed
<1>2. None \notin broken
  BY NodesAre DEF Shut
<1>3. \A m \in Nodes : m_parent'[m] \in broken' => m \in astray'
  BY <1>2 DEF Shut
<1>4. \A m \in astray' : m_parent'[m] \in broken' \union {None}
  BY DEF Shut
<1> QED BY <1>1, <1>3, <1>4 DEF Shut

(* What is in a list that is not broken is not astray.                     *)
LEMMA ListApart ==
  ASSUME Shut(astray, broken), NEW o \in Owners \ broken, NEW L, Spells(L, o)
  PROVE  \A k \in DOMAIN L : L[k] \in Nodes \ astray
<1>1. \A k \in DOMAIN L : L[k] \in Nodes /\ m_parent[L[k]] = o /\ o # None
  BY SpellsFacts, NodesAre
<1> QED BY <1>1 DEF Shut

(* So all lists are in order after either edit of one that is whole.       *)
LEMMA LinkedInv ==
  ASSUME ListInv, UNCHANGED <<broken, astray>>,
         NEW o \in Owners \ broken, NEW L, Spells(L, o),
         NEW n \in Members(o) \ astray, Loose(n),
         NEW k \in 1 .. (Len(L) + 1), Linked(o, n, At(L, k - 1), At(L, k))
  PROVE  ListInv'
<1> DEFINE p == At(L, k - 1)
           q == At(L, k)
<1>1. /\ p \in Members(o) \union {None} /\ q \in Members(o) \union {None}
      /\ p \in (Nodes \ astray) \union {None} /\ q \in (Nodes \ astray) \union {None}
      /\ n \in Nodes
  BY SpellsFacts, ListApart, NodesAre DEF At, ListInv
<1> HIDE DEF p, q
<1>2. LinkType' /\ Kinds'
  <2>1. PICK A \in SUBSET Nodes, B \in SUBSET Owners :
          /\ Closed(A, B) /\ o \in B /\ n \in A /\ Members(o) = A
          /\ \A x : Moves(A, B, n, x) => MovesAmongKind(n, x)
    BY KindIs DEF ListInv
  <2>2. Moves(A, B, n, o)
    BY <1>1, <2>1, LinkedMoves DEF ListInv, p, q
  <2>3. Kinds'
    BY <1>1, <2>1, <2>2, KindsKept DEF ListInv
  <2> QED BY <2>2, <2>3 DEF Moves
<1>3. ASSUME NEW x \in Owners \ broken PROVE \E M : Spells(M, x)'
  <2>1. CASE x = o
    BY <2>1, LinkedSpells DEF ListInv
  <2>2. CASE x # o
    <3>1. PICK M : Spells(M, x)
      BY DEF ListInv
    <3>2. Spells(M, x)'
      BY <2>2, <3>1, LinkedKeeps DEF ListInv
    <3> QED BY <3>2
  <2> QED BY <2>1, <2>2
<1>4. ASSUME NEW m \in Nodes \ astray, Loose(m)' PROVE m_prev'[m] = None /\ m_next'[m] = None
  <2>1. m # n /\ m_parent[m] = None
    BY <1>4, NodesAre DEF Loose, Linked
  <2>2. m # p /\ m # q
    BY <2>1, SpellsFacts, NodesAre DEF At, p, q
  <2>3. m_prev[m] = None /\ m_next[m] = None
    BY <2>1 DEF ListInv, Loose
  <2> QED BY <2>1, <2>2, <2>3 DEF Linked, p, q
<1>5. Shut(astray, broken)'
  <2>1. \A m \in astray : m_prev'[m] = m_prev[m] /\ m_next'[m] = m_next[m]
    BY <1>1, NodesAre DEF Linked, ListInv, Shut, p, q
  <2>2. \A x \in broken : m_head'[x] = m_head[x] /\ m_tail'[x] = m_tail[x]
    BY DEF Linked, ListInv, Shut
  <2>3. \A m \in Nodes : m_parent'[m] = IF m = n THEN o ELSE m_parent[m]
    BY DEF Linked
  <2> QED BY <1>1, <2>1, <2>2, <2>3, ApartKept DEF ListInv
<1> QED BY <1>2, <1>3, <1>4, <1>5 DEF ListInv

(* The same of an edit that takes a node out.                              *)
LEMMA UnlinkedInv ==
  ASSUME ListInv, UNCHANGED <<broken, astray>>,
         NEW o \in Owners \ broken, NEW L, Spells(L, o), NEW k \in DOMAIN L,
         Unlinked(o, L[k], At(L, k - 1), At(L, k + 1))
  PROVE  ListInv'
<1> DEFINE p == At(L, k - 1)
           q == At(L, k + 1)
           n == L[k]
<1>1. /\ p \in Members(o) \union {None} /\ q \in Members(o) \union {None}
      /\ p \in (Nodes \ astray) \union {None} /\ q \in (Nodes \ astray) \union {None}
      /\ n \in Members(o) /\ n \in Nodes \ astray
  BY SpellsFacts, ListApart, NodesAre DEF At, ListInv
<1> HIDE DEF p, q, n
<1>2. LinkType' /\ Kinds'
  <2>1. PICK A \in SUBSET Nodes, B \in SUBSET Owners :
          /\ Closed(A, B) /\ o \in B /\ n \in A /\ Members(o) = A
          /\ \A x : Moves(A, B, n, x) => MovesAmongKind(n, x)
    BY <1>1, KindIs DEF ListInv
  <2>2. Moves(A, B, n, None)
    BY <1>1, <2>1, UnlinkedMoves DEF ListInv, p, q, n
  <2>3. Kinds'
    BY <1>1, <2>1, <2>2, KindsKept DEF ListInv
  <2> QED BY <2>2, <2>3 DEF Moves
<1>3. ASSUME NEW x \in Owners \ broken PROVE \E M : Spells(M, x)'
  <2>1. CASE x = o
    BY <2>1, UnlinkedSpells DEF ListInv
  <2>2. CASE x # o
    <3>1. PICK M : Spells(M, x)
      BY DEF ListInv
    <3>2. Spells(M, x)'
      BY <2>2, <3>1, UnlinkedKeeps DEF ListInv
    <3> QED BY <3>2
  <2> QED BY <2>1, <2>2
<1>4. ASSUME NEW m \in Nodes \ astray, Loose(m)' PROVE m_prev'[m] = None /\ m_next'[m] = None
  <2>1. CASE m = n
    BY <1>1, <2>1 DEF Unlinked, n
  <2>2. CASE m # n
    <3>1. m_parent[m] = None
      BY <1>4, <2>2 DEF Loose, Unlinked, n
    <3>2. m # p /\ m # q
      BY <3>1, SpellsFacts, NodesAre DEF At, p, q
    <3>3. m_prev[m] = None /\ m_next[m] = None
      BY <3>1 DEF ListInv, Loose
    <3> QED BY <2>2, <3>2, <3>3 DEF Unlinked, p, q, n
  <2> QED BY <2>1, <2>2
<1>5. Shut(astray, broken)'
  <2>1. \A m \in astray : m_prev'[m] = m_prev[m] /\ m_next'[m] = m_next[m]
    BY <1>1, NodesAre DEF Unlinked, ListInv, Shut, p, q, n
  <2>2. \A x \in broken : m_head'[x] = m_head[x] /\ m_tail'[x] = m_tail[x]
    BY DEF Unlinked, ListInv, Shut
  <2>3. \A m \in Nodes : m_parent'[m] = IF m = n THEN None ELSE m_parent[m]
    BY DEF Unlinked, n
  <2> QED BY <1>1, <2>1, <2>2, <2>3, ApartKept DEF ListInv
<1> QED BY <1>2, <1>3, <1>4, <1>5 DEF ListInv

-----------------------------------------------------------------------------
(* What the operations do to the links.                                    *)

(* A store through a pointer to a node, or through null.                   *)
LEMMA SetIs ==
  ASSUME LinkType
  PROVE  /\ \A n, v : Set(m_head, n, v) = [x \in Owners |-> IF x = n THEN v ELSE m_head[x]]
         /\ \A n, v : Set(m_tail, n, v) = [x \in Owners |-> IF x = n THEN v ELSE m_tail[x]]
         /\ \A n, v : Set(m_next, n, v) = [m \in Nodes |-> IF m = n THEN v ELSE m_next[m]]
         /\ \A n, v : Set(m_prev, n, v) = [m \in Nodes |-> IF m = n THEN v ELSE m_prev[m]]
         /\ \A n, v : Set(m_parent, n, v) = [m \in Nodes |-> IF m = n THEN v ELSE m_parent[m]]
BY DEF LinkType, Set

(* A second store after the first.                                         *)
LEMMA SetTwice ==
  ASSUME LinkType
  PROVE  /\ \A n, v, p, u :
              Set(Set(m_next, p, u), n, v) =
                [m \in Nodes |-> IF m = n THEN v ELSE IF m = p THEN u ELSE m_next[m]]
         /\ \A n, v, p, u :
              Set(Set(m_prev, p, u), n, v) =
                [m \in Nodes |-> IF m = n THEN v ELSE IF m = p THEN u ELSE m_prev[m]]
BY SetIs DEF Set

(* prepend() puts the node before the first.                               *)
LEMMA PrependIs ==
  ASSUME ListInv, NEW o \in Owners, NEW L, Spells(L, o),
         NEW n \in Members(o) \ astray, Loose(n), PrependNode(o, n)
  PROVE  Linked(o, n, At(L, 0), At(L, 1))
<1>1. LinkType /\ n \in Nodes /\ n # None /\ m_next[n] = None /\ m_prev[n] = None
  BY NodesAre DEF ListInv
<1>2. m_head[o] = At(L, 1) /\ m_tail[o] = At(L, Len(L)) /\ At(L, 0) = None
  BY SpellsFacts DEF Spells, At
<1>3. n # m_head[o] /\ (m_head[o] = None => m_tail[o] = None)
  BY <1>1, <1>2, SpellsFacts, NodesAre DEF Loose, At
<1>4. m_next' = [m \in Nodes |-> IF m = n THEN At(L, 1) ELSE IF m = None THEN n ELSE m_next[m]]
  <2>1. CASE m_head[o] # None
    <3>1. m_next' = [m \in Nodes |-> IF m = n THEN m_head[o] ELSE m_next[m]]
      BY <2>1, <1>1, SetIs DEF PrependNode, LinkType
    <3> QED BY <3>1, <1>2, NodesAre
  <2>2. CASE m_head[o] = None
    <3>1. m_next' = m_next /\ m_next = [m \in Nodes |-> m_next[m]]
      BY <2>2, <1>1 DEF PrependNode, LinkType
    <3>2. \A m \in Nodes :
            m_next[m] = IF m = n THEN At(L, 1) ELSE IF m = None THEN n ELSE m_next[m]
      BY <2>2, <1>1, <1>2, NodesAre
    <3> QED BY <3>1, <3>2
  <2> QED BY <2>1, <2>2
<1>5. m_prev' = [m \in Nodes |-> IF m = n THEN None ELSE IF m = At(L, 1) THEN n ELSE m_prev[m]]
  <2>1. m_prev' = [m \in Nodes |-> IF m = m_head[o] THEN n ELSE m_prev[m]]
    BY <1>1, SetIs DEF PrependNode, LinkType
  <2> QED BY <2>1, <1>1, <1>2, <1>3
<1>6. m_head' = [x \in Owners |-> IF x = o /\ None = None THEN n ELSE m_head[x]]
  BY <1>1, SetIs DEF PrependNode, LinkType
<1>7. m_tail' = [x \in Owners |-> IF x = o /\ At(L, 1) = None THEN n ELSE m_tail[x]]
  <2>1. CASE m_head[o] # None
    <3>1. m_tail' = m_tail /\ m_tail = [x \in Owners |-> m_tail[x]]
      BY <2>1, <1>1 DEF PrependNode, LinkType
    <3> QED BY <3>1, <2>1, <1>2
  <2>2. CASE m_head[o] = None
    <3>1. m_tail' = [x \in Owners |-> IF x = o THEN n ELSE m_tail[x]]
      BY <2>2, <1>1, SetIs DEF PrependNode, LinkType
    <3> QED BY <3>1, <2>2, <1>2
  <2> QED BY <2>1, <2>2
<1>8. m_parent' = [m \in Nodes |-> IF m = n THEN o ELSE m_parent[m]]
  BY <1>1, SetIs DEF PrependNode, LinkType
<1> QED BY <1>2, <1>4, <1>5, <1>6, <1>7, <1>8 DEF Linked

(* append() puts it after the last.                                        *)
LEMMA AppendIs ==
  ASSUME ListInv, NEW o \in Owners, NEW L, Spells(L, o),
         NEW n \in Members(o) \ astray, Loose(n), AppendNode(o, n)
  PROVE  Linked(o, n, At(L, Len(L)), At(L, Len(L) + 1))
<1>1. LinkType /\ n \in Nodes /\ n # None /\ m_next[n] = None /\ m_prev[n] = None
  BY NodesAre DEF ListInv
<1> DEFINE p == At(L, Len(L))
<1>2. m_head[o] = At(L, 1) /\ m_tail[o] = p /\ At(L, Len(L) + 1) = None
  BY SpellsFacts DEF Spells, At
<1>3. n # p /\ (p = None => m_head[o] = None)
  BY <1>1, <1>2, SpellsFacts, NodesAre DEF Loose, At
<1> HIDE DEF p
<1>4. m_prev' = [m \in Nodes |-> IF m = n THEN p ELSE IF m = None THEN n ELSE m_prev[m]]
  <2>1. CASE p # None
    <3>1. m_prev' = [m \in Nodes |-> IF m = n THEN p ELSE m_prev[m]]
      BY <2>1, <1>1, <1>2, SetIs DEF AppendNode, LinkType
    <3> QED BY <3>1, NodesAre
  <2>2. CASE p = None
    <3>1. m_prev' = m_prev /\ m_prev = [m \in Nodes |-> m_prev[m]]
      BY <2>2, <1>1, <1>2 DEF AppendNode, LinkType
    <3>2. \A m \in Nodes :
            m_prev[m] = IF m = n THEN p ELSE IF m = None THEN n ELSE m_prev[m]
      BY <2>2, <1>1, NodesAre
    <3> QED BY <3>1, <3>2
  <2> QED BY <2>1, <2>2
<1>5. m_next' = [m \in Nodes |-> IF m = n THEN None ELSE IF m = p THEN n ELSE m_next[m]]
  <2>1. m_next' = [m \in Nodes |-> IF m = p THEN n ELSE m_next[m]]
    BY <1>1, <1>2, SetIs DEF AppendNode, LinkType
  <2> QED BY <2>1, <1>1, <1>3
<1>6. m_tail' = [x \in Owners |-> IF x = o /\ None = None THEN n ELSE m_tail[x]]
  BY <1>1, SetIs DEF AppendNode, LinkType
<1>7. m_head' = [x \in Owners |-> IF x = o /\ p = None THEN n ELSE m_head[x]]
  <2>1. CASE p # None
    <3>1. m_head' = m_head /\ m_head = [x \in Owners |-> m_head[x]]
      BY <2>1, <1>1, <1>2 DEF AppendNode, LinkType
    <3> QED BY <3>1, <2>1
  <2>2. CASE p = None
    <3>1. m_head' = [x \in Owners |-> IF x = o THEN n ELSE m_head[x]]
      BY <2>2, <1>1, <1>2, SetIs DEF AppendNode, LinkType
    <3> QED BY <3>1, <2>2
  <2> QED BY <2>1, <2>2
<1>8. m_parent' = [m \in Nodes |-> IF m = n THEN o ELSE m_parent[m]]
  BY <1>1, SetIs DEF AppendNode, LinkType
<1> QED BY <1>2, <1>4, <1>5, <1>6, <1>7, <1>8 DEF Linked, p

(* insert_before() of a node that is not the first.                        *)
LEMMA BeforeIs ==
  ASSUME LinkType, NEW o \in Owners, NEW L, Spells(L, o), NEW n \in Members(o), Loose(n),
         NEW k \in DOMAIN L, m_prev[L[k]] # None, InsertBefore(n, L[k])
  PROVE  Linked(o, n, At(L, k - 1), At(L, k))
<1> DEFINE p == At(L, k - 1)
           q == At(L, k)
<1>1. LinkType /\ n \in Nodes /\ n # None
  BY NodesAre
<1>2. L[k] = q /\ m_prev[q] = p /\ m_parent[q] = o /\ q # None /\ q \in Nodes
  <2>1. L[k] = q /\ m_prev[L[k]] = p
    BY DEF Spells, At
  <2>2. m_parent[L[k]] = o /\ L[k] # None /\ L[k] \in Nodes
    BY SpellsFacts
  <2> HIDE DEF p, q
  <2> QED BY <2>1, <2>2
<1>3. p # None
  BY <1>2
<1>4. n # q /\ n # p
  <2>1. p = None \/ m_parent[p] = o
    BY SpellsFacts DEF At
  <2> HIDE DEF p, q
  <2> QED BY <2>1, <1>2, <1>3, NodesAre DEF Loose
<1> HIDE DEF p, q
<1>5. m_next' = [m \in Nodes |-> IF m = n THEN q ELSE IF m = p THEN n ELSE m_next[m]]
  BY <1>1, <1>2, SetTwice DEF InsertBefore, LinkType
<1>6. m_prev' = [m \in Nodes |-> IF m = q THEN n ELSE IF m = n THEN p ELSE m_prev[m]]
  BY <1>1, <1>2, SetTwice DEF InsertBefore, LinkType
<1>7. m_prev' = [m \in Nodes |-> IF m = n THEN p ELSE IF m = q THEN n ELSE m_prev[m]]
  BY <1>4, <1>6
<1>8. m_parent' = [m \in Nodes |-> IF m = n THEN o ELSE m_parent[m]]
  BY <1>1, <1>2, SetIs DEF InsertBefore, LinkType
<1>9. /\ m_head' = [x \in Owners |-> m_head[x]]
      /\ m_tail' = [x \in Owners |-> m_tail[x]]
  BY <1>1 DEF InsertBefore, LinkType
<1> QED BY <1>2, <1>3, <1>5, <1>7, <1>8, <1>9 DEF Linked, p, q

(* insert_after() of a node that is not the last.                          *)
LEMMA AfterIs ==
  ASSUME LinkType, NEW o \in Owners, NEW L, Spells(L, o), NEW n \in Members(o), Loose(n),
         NEW k \in DOMAIN L, m_next[L[k]] # None, InsertAfter(n, L[k])
  PROVE  Linked(o, n, At(L, k), At(L, k + 1))
<1> DEFINE p == At(L, k)
           q == At(L, k + 1)
<1>1. LinkType /\ n \in Nodes /\ n # None
  BY NodesAre
<1>2. L[k] = p /\ m_next[p] = q /\ m_parent[p] = o /\ p # None /\ p \in Nodes
  <2>1. L[k] = p /\ m_next[L[k]] = q
    BY DEF Spells, At
  <2>2. m_parent[L[k]] = o /\ L[k] # None /\ L[k] \in Nodes
    BY SpellsFacts
  <2> HIDE DEF p, q
  <2> QED BY <2>1, <2>2
<1>3. q # None
  BY <1>2
<1>4. n # q /\ n # p
  <2>1. q = None \/ m_parent[q] = o
    BY SpellsFacts DEF At
  <2> HIDE DEF p, q
  <2> QED BY <2>1, <1>2, <1>3, NodesAre DEF Loose
<1> HIDE DEF p, q
<1>5. m_prev' = [m \in Nodes |-> IF m = n THEN p ELSE IF m = q THEN n ELSE m_prev[m]]
  BY <1>1, <1>2, SetTwice DEF InsertAfter, LinkType
<1>6. m_next' = [m \in Nodes |-> IF m = p THEN n ELSE IF m = n THEN q ELSE m_next[m]]
  BY <1>1, <1>2, SetTwice DEF InsertAfter, LinkType
<1>7. m_next' = [m \in Nodes |-> IF m = n THEN q ELSE IF m = p THEN n ELSE m_next[m]]
  BY <1>4, <1>6
<1>8. m_parent' = [m \in Nodes |-> IF m = n THEN o ELSE m_parent[m]]
  BY <1>1, <1>2, SetIs DEF InsertAfter, LinkType
<1>9. /\ m_head' = [x \in Owners |-> m_head[x]]
      /\ m_tail' = [x \in Owners |-> m_tail[x]]
  BY <1>1 DEF InsertAfter, LinkType
<1> QED BY <1>2, <1>3, <1>5, <1>7, <1>8, <1>9 DEF Linked, p, q

(* remove() of a node of the list.                                         *)
LEMMA RemoveIs ==
  ASSUME ListInv, NEW o \in Owners, NEW L, Spells(L, o), NEW k \in DOMAIN L,
         RemoveNode(o, L[k])
  PROVE  Unlinked(o, L[k], At(L, k - 1), At(L, k + 1))
<1> DEFINE p == At(L, k - 1)
           q == At(L, k + 1)
           n == L[k]
<1>1. LinkType /\ n \in Nodes /\ n # None /\ m_prev[n] = p /\ m_next[n] = q
  BY SpellsFacts DEF ListInv, Spells
<1> HIDE DEF p, q, n
<1>2. m_next' = [m \in Nodes |-> IF m = n THEN None ELSE IF m = p THEN q ELSE m_next[m]]
  BY <1>1, SetTwice DEF RemoveNode, LinkType, n
<1>3. m_prev' = [m \in Nodes |-> IF m = n THEN None ELSE IF m = q THEN p ELSE m_prev[m]]
  BY <1>1, SetTwice DEF RemoveNode, LinkType, n
<1>4. m_parent' = [m \in Nodes |-> IF m = n THEN None ELSE m_parent[m]]
  BY <1>1, SetIs DEF RemoveNode, LinkType, n
<1>5. m_head' = [x \in Owners |-> IF x = o /\ p = None THEN q ELSE m_head[x]]
  <2>1. m_head' = IF p # None THEN m_head ELSE Set(m_head, o, q)
    BY <1>1 DEF RemoveNode, n
  <2>2. Set(m_head, o, q) = [x \in Owners |-> IF x = o THEN q ELSE m_head[x]]
    BY <1>1, SetIs DEF LinkType
  <2>3. m_head = [x \in Owners |-> m_head[x]]
    BY <1>1 DEF LinkType
  <2>4. CASE p = None
    BY <2>1, <2>2, <2>4
  <2>5. CASE p # None
    BY <2>1, <2>3, <2>5
  <2> QED BY <2>4, <2>5
<1>6. m_tail' = [x \in Owners |-> IF x = o /\ q = None THEN p ELSE m_tail[x]]
  <2>1. m_tail' = IF q # None THEN m_tail ELSE Set(m_tail, o, p)
    BY <1>1 DEF RemoveNode, n
  <2>2. Set(m_tail, o, p) = [x \in Owners |-> IF x = o THEN p ELSE m_tail[x]]
    BY <1>1, SetIs DEF LinkType
  <2>3. m_tail = [x \in Owners |-> m_tail[x]]
    BY <1>1 DEF LinkType
  <2>4. CASE q = None
    BY <2>1, <2>2, <2>4
  <2>5. CASE q # None
    BY <2>1, <2>3, <2>5
  <2> QED BY <2>4, <2>5
<1> QED BY <1>2, <1>3, <1>4, <1>5, <1>6 DEF Unlinked, p, q, n

-----------------------------------------------------------------------------
(* What they do to the links within a closed set.                          *)

(* A store of a pointer to a node, or of null.                             *)
LEMMA SetType ==
  ASSUME NEW D, NEW T, NEW f \in [D -> T], NEW n, NEW v \in T
  PROVE  /\ Set(f, n, v) \in [D -> T]
         /\ \A m \in D : Set(f, n, v)[m] = IF m = n THEN v ELSE f[m]
BY DEF Set

(* prepend() and append().                                                 *)
LEMMA EndMoves ==
  ASSUME LinkType, NEW A \in SUBSET Nodes, NEW B \in SUBSET Owners, Closed(A, B),
         NEW o \in B, NEW n \in A, PrependNode(o, n) \/ AppendNode(o, n)
  PROVE  Moves(A, B, n, o)
<1>1. /\ m_head[o] \in A \union {None} /\ m_tail[o] \in A \union {None}
      /\ None \notin Nodes /\ n # None
  BY NodesAre DEF Closed
<1>2. CASE PrependNode(o, n)
  <2>1. /\ m_next' = IF m_head[o] # None THEN Set(m_next, n, m_head[o]) ELSE m_next
        /\ m_prev' = Set(m_prev, m_head[o], n)
        /\ m_tail' = IF m_head[o] # None THEN m_tail ELSE Set(m_tail, o, n)
        /\ m_head' = Set(m_head, o, n)
        /\ m_parent' = Set(m_parent, n, o)
    BY <1>2 DEF PrependNode
  <2>2. LinkType'
    BY <1>1, <2>1, SetType DEF LinkType
  <2>3. /\ \A m \in Nodes : m_next'[m] = IF m = n /\ m_head[o] # None THEN m_head[o] ELSE m_next[m]
        /\ \A m \in Nodes : m_prev'[m] = IF m = m_head[o] THEN n ELSE m_prev[m]
        /\ \A x \in Owners : m_head'[x] = IF x = o THEN n ELSE m_head[x]
        /\ \A x \in Owners : m_tail'[x] = IF x = o /\ m_head[o] = None THEN n ELSE m_tail[x]
        /\ \A m \in Nodes : m_parent'[m] = IF m = n THEN o ELSE m_parent[m]
    BY <2>1, SetIs
  <2>4. Closed(A, B)'
    BY <1>1, <2>3 DEF Closed
  <2>5. /\ \A m \in Nodes \ A : m_prev'[m] = m_prev[m] /\ m_next'[m] = m_next[m]
        /\ \A x \in Owners \ B : m_head'[x] = m_head[x] /\ m_tail'[x] = m_tail[x]
    BY <1>1, <2>3
  <2> QED BY <2>2, <2>3, <2>4, <2>5 DEF Moves
<1>3. CASE AppendNode(o, n)
  <2>1. /\ m_prev' = IF m_tail[o] # None THEN Set(m_prev, n, m_tail[o]) ELSE m_prev
        /\ m_next' = Set(m_next, m_tail[o], n)
        /\ m_head' = IF m_tail[o] # None THEN m_head ELSE Set(m_head, o, n)
        /\ m_tail' = Set(m_tail, o, n)
        /\ m_parent' = Set(m_parent, n, o)
    BY <1>3 DEF AppendNode
  <2>2. LinkType'
    BY <1>1, <2>1, SetType DEF LinkType
  <2>3. /\ \A m \in Nodes : m_prev'[m] = IF m = n /\ m_tail[o] # None THEN m_tail[o] ELSE m_prev[m]
        /\ \A m \in Nodes : m_next'[m] = IF m = m_tail[o] THEN n ELSE m_next[m]
        /\ \A x \in Owners : m_tail'[x] = IF x = o THEN n ELSE m_tail[x]
        /\ \A x \in Owners : m_head'[x] = IF x = o /\ m_tail[o] = None THEN n ELSE m_head[x]
        /\ \A m \in Nodes : m_parent'[m] = IF m = n THEN o ELSE m_parent[m]
    BY <2>1, SetIs
  <2>4. Closed(A, B)'
    BY <1>1, <2>3 DEF Closed
  <2>5. /\ \A m \in Nodes \ A : m_prev'[m] = m_prev[m] /\ m_next'[m] = m_next[m]
        /\ \A x \in Owners \ B : m_head'[x] = m_head[x] /\ m_tail'[x] = m_tail[x]
    BY <1>1, <2>3
  <2> QED BY <2>2, <2>3, <2>4, <2>5 DEF Moves
<1> QED BY <1>2, <1>3

(* insert_before() and insert_after(), at an end or not.                   *)
LEMMA BesideMoves ==
  ASSUME LinkType, NEW A \in SUBSET Nodes, NEW B \in SUBSET Owners, Closed(A, B),
         NEW n \in A, NEW m \in A, InsertBefore(n, m) \/ InsertAfter(n, m)
  PROVE  Moves(A, B, n, m_parent[m])
<1>1. /\ m_prev[m] \in A \union {None} /\ m_next[m] \in A \union {None}
      /\ m_parent[m] \in Owners \union {None}
      /\ None \notin Nodes /\ n \in Nodes /\ m \in Nodes
  BY NodesAre DEF Closed, LinkType
<1>2. UNCHANGED <<m_head, m_tail>> /\ m_parent' = Set(m_parent, n, m_parent[m])
  BY DEF InsertBefore, InsertAfter
<1>3. \A x \in Nodes : m_parent'[x] = IF x = n THEN m_parent[m] ELSE m_parent[x]
  BY <1>2, SetIs
<1>4. /\ m_head' \in [Owners -> Nodes \union {None}] /\ m_tail' \in [Owners -> Nodes \union {None}]
      /\ m_parent' \in [Nodes -> Owners \union {None}]
  BY <1>1, <1>2, SetType DEF LinkType
<1>5. CASE InsertBefore(n, m)
  <2>1. /\ m_next' = Set(Set(m_next, m_prev[m], n), n, m)
        /\ m_prev' = Set(Set(m_prev, n, m_prev[m]), m, n)
    BY <1>5 DEF InsertBefore
  <2>2. LinkType'
    <3>1. m_next \in [Nodes -> Nodes \union {None}] /\ m_prev \in [Nodes -> Nodes \union {None}]
      BY DEF LinkType
    <3>2. /\ Set(m_next, m_prev[m], n) \in [Nodes -> Nodes \union {None}]
          /\ Set(m_prev, n, m_prev[m]) \in [Nodes -> Nodes \union {None}]
      BY <1>1, <3>1, SetType
    <3> QED BY <1>1, <1>4, <2>1, <3>2, SetType DEF LinkType
  <2>3. /\ \A x \in Nodes : m_next'[x] = IF x = n THEN m ELSE IF x = m_prev[m] THEN n ELSE m_next[x]
        /\ \A x \in Nodes : m_prev'[x] = IF x = m THEN n ELSE IF x = n THEN m_prev[m] ELSE m_prev[x]
    BY <2>1, SetTwice
  <2>4. Closed(A, B)'
    BY <1>1, <1>2, <2>3 DEF Closed
  <2>5. \A x \in Nodes \ A : m_prev'[x] = m_prev[x] /\ m_next'[x] = m_next[x]
    BY <1>1, <2>3
  <2> QED BY <1>2, <1>3, <2>2, <2>4, <2>5 DEF Moves
<1>6. CASE InsertAfter(n, m)
  <2>1. /\ m_prev' = Set(Set(m_prev, m_next[m], n), n, m)
        /\ m_next' = Set(Set(m_next, n, m_next[m]), m, n)
    BY <1>6 DEF InsertAfter
  <2>2. LinkType'
    <3>1. m_next \in [Nodes -> Nodes \union {None}] /\ m_prev \in [Nodes -> Nodes \union {None}]
      BY DEF LinkType
    <3>2. /\ Set(m_prev, m_next[m], n) \in [Nodes -> Nodes \union {None}]
          /\ Set(m_next, n, m_next[m]) \in [Nodes -> Nodes \union {None}]
      BY <1>1, <3>1, SetType
    <3> QED BY <1>1, <1>4, <2>1, <3>2, SetType DEF LinkType
  <2>3. /\ \A x \in Nodes : m_prev'[x] = IF x = n THEN m ELSE IF x = m_next[m] THEN n ELSE m_prev[x]
        /\ \A x \in Nodes : m_next'[x] = IF x = m THEN n ELSE IF x = n THEN m_next[m] ELSE m_next[x]
    BY <2>1, SetTwice
  <2>4. Closed(A, B)'
    BY <1>1, <1>2, <2>3 DEF Closed
  <2>5. \A x \in Nodes \ A : m_prev'[x] = m_prev[x] /\ m_next'[x] = m_next[x]
    BY <1>1, <2>3
  <2> QED BY <1>2, <1>3, <2>2, <2>4, <2>5 DEF Moves
<1> QED BY <1>5, <1>6

(* remove().                                                               *)
LEMMA RemoveMoves ==
  ASSUME LinkType, NEW A \in SUBSET Nodes, NEW B \in SUBSET Owners, Closed(A, B),
         NEW o \in B, NEW n \in A, RemoveNode(o, n)
  PROVE  Moves(A, B, n, None)
<1> DEFINE p == m_prev[n]
           q == m_next[n]
<1>1. p \in A \union {None} /\ q \in A \union {None} /\ None \notin Nodes
  BY NodesAre DEF Closed
<1>2. /\ m_head' = IF p # None THEN m_head ELSE Set(m_head, o, q)
      /\ m_tail' = IF q # None THEN m_tail ELSE Set(m_tail, o, p)
      /\ m_next' = Set(Set(m_next, p, q), n, None)
      /\ m_prev' = Set(Set(m_prev, q, p), n, None)
      /\ m_parent' = Set(m_parent, n, None)
  BY DEF RemoveNode
<1> HIDE DEF p, q
<1>3. LinkType'
  <2>1. m_next \in [Nodes -> Nodes \union {None}] /\ m_prev \in [Nodes -> Nodes \union {None}]
    BY DEF LinkType
  <2>2. /\ Set(m_next, p, q) \in [Nodes -> Nodes \union {None}]
        /\ Set(m_prev, q, p) \in [Nodes -> Nodes \union {None}]
    BY <1>1, <2>1, SetType
  <2>3. /\ m_next' \in [Nodes -> Nodes \union {None}] /\ m_prev' \in [Nodes -> Nodes \union {None}]
    BY <1>1, <1>2, <2>2, SetType
  <2> QED BY <1>1, <1>2, <2>3, SetType DEF LinkType
<1>4. /\ \A x \in Nodes : m_next'[x] = IF x = n THEN None ELSE IF x = p THEN q ELSE m_next[x]
      /\ \A x \in Nodes : m_prev'[x] = IF x = n THEN None ELSE IF x = q THEN p ELSE m_prev[x]
      /\ \A x \in Owners : m_head'[x] = IF x = o /\ p = None THEN q ELSE m_head[x]
      /\ \A x \in Owners : m_tail'[x] = IF x = o /\ q = None THEN p ELSE m_tail[x]
      /\ \A x \in Nodes : m_parent'[x] = IF x = n THEN None ELSE m_parent[x]
  BY <1>2, SetIs, SetTwice
<1>5. Closed(A, B)'
  BY <1>1, <1>4 DEF Closed
<1>6. /\ \A x \in Nodes \ A : m_prev'[x] = m_prev[x] /\ m_next'[x] = m_next[x]
      /\ \A x \in Owners \ B : m_head'[x] = m_head[x] /\ m_tail'[x] = m_tail[x]
  BY <1>1, <1>4
<1> QED BY <1>3, <1>4, <1>5, <1>6 DEF Moves

(* The nodes that a walk comes by, for any links.                          *)
StepsTo(n, link, N, at) ==
  at = [k \in 0 .. N |->
          IF k = 0 THEN n ELSE LET m == at[k - 1] IN IF m = None THEN None ELSE link[m]]

(* What such a function says of its places.                                *)
Leads(n, link, N, at) ==
  /\ at[0] = n
  /\ \A k \in 1 .. N : at[k] = IF at[k - 1] = None THEN None ELSE link[at[k - 1]]

LEMMA StepsSay ==
  ASSUME NEW n, NEW link, NEW N \in Nat, NEW at, StepsTo(n, link, N, at)
  PROVE  Leads(n, link, N, at)
<1> DEFINE rhs(k) == IF k = 0 THEN n
                     ELSE LET m == at[k - 1] IN IF m = None THEN None ELSE link[m]
<1>1. at = [k \in 0 .. N |-> rhs(k)]
  BY DEF StepsTo
<1>2. \A k \in 0 .. N : at[k] = rhs(k)
  <2> HIDE DEF rhs
  <2> QED BY <1>1
<1>3. 0 \in 0 .. N /\ \A k \in 1 .. N : k \in 0 .. N /\ k # 0
  OBVIOUS
<1> QED BY <1>2, <1>3 DEF Leads

(* There is such a function of every length.                               *)
LEMMA StepsExist ==
  ASSUME NEW n, NEW link, NEW N \in Nat
  PROVE  \E at : StepsTo(n, link, N, at)
<1> DEFINE T == {k \in Nat : ~ \E at : StepsTo(n, link, k, at)}
<1>1. CASE T = {}
  BY <1>1
<1>2. CASE T # {}
  <2>1. PICK m \in T : \A k \in T : m <= k
    <3> HIDE DEF T
    <3>1. T \in SUBSET Nat
      BY DEF T
    <3> QED BY <1>2, <3>1, Least
  <2>2. CASE m = 0
    <3>1. StepsTo(n, link, 0, [k \in 0 .. 0 |-> n])
      BY DEF StepsTo
    <3> QED BY <2>1, <2>2, <3>1
  <2>3. CASE m # 0
    <3>1. m - 1 \in Nat /\ m - 1 \notin T /\ m \in Nat
      BY <2>1, <2>3
    <3>2. PICK g : StepsTo(n, link, m - 1, g)
      BY <3>1
    <3> DEFINE last == IF g[m - 1] = None THEN None ELSE link[g[m - 1]]
               f == [k \in 0 .. m |-> IF k = m THEN last ELSE g[k]]
               rhs(k) == IF k = 0 THEN n
                         ELSE LET j == f[k - 1] IN IF j = None THEN None ELSE link[j]
    <3>3. \A k \in 0 .. m : f[k] = IF k = m THEN last ELSE g[k]
      OBVIOUS
    <3>4. /\ g[0] = n
          /\ \A k \in 1 .. (m - 1) : g[k] = IF g[k - 1] = None THEN None ELSE link[g[k - 1]]
      <4>1. Leads(n, link, m - 1, g)
        BY <3>1, <3>2, StepsSay
      <4> QED BY <4>1 DEF Leads
    <3>5. \A k \in 0 .. m : f[k] = rhs(k)
      <4> SUFFICES ASSUME NEW k \in 0 .. m PROVE f[k] = rhs(k)
        OBVIOUS
      <4> HIDE DEF f, last
      <4>1. CASE k = 0
        BY <3>1, <4>1, <2>3, <3>3, <3>4
      <4>2. CASE k = m
        <5>1. f[k - 1] = g[m - 1]
          BY <3>1, <4>2, <2>3, <3>3
        <5> QED BY <3>1, <4>2, <2>3, <3>3, <5>1 DEF last
      <4>3. CASE k # 0 /\ k # m
        <5>1. k \in 1 .. (m - 1) /\ k - 1 \in 0 .. m /\ k - 1 # m
          BY <3>1, <4>3
        <5>2. f[k - 1] = g[k - 1] /\ f[k] = g[k]
          BY <5>1, <3>3, <4>3
        <5> QED BY <5>1, <5>2, <3>4, <4>3
      <4> QED BY <4>1, <4>2, <4>3
    <3>6. f = [k \in 0 .. m |-> rhs(k)]
      <4> HIDE DEF rhs
      <4>1. f = [k \in 0 .. m |-> f[k]]
        OBVIOUS
      <4> HIDE DEF f
      <4> QED BY <3>5, <4>1
    <3>7. StepsTo(n, link, m, f)
      <4> HIDE DEF f
      <4> QED BY <3>6 DEF StepsTo
    <3> QED BY <3>7, <2>1
  <2> QED BY <2>2, <2>3
<1> QED BY <1>1, <1>2

(* A walk over links that stay in a set does.                              *)
LEMMA ChainWithin ==
  ASSUME NEW A, NEW n \in A \union {None}, NEW link, \A m \in A : link[m] \in A \union {None}
  PROVE  \A k \in DOMAIN Chain(n, link) : Chain(n, link)[k] \in A
<1> DEFINE N == Cardinality(Nodes)
           at == CHOOSE at : StepsTo(n, link, N, at)
           T == {k \in 0 .. N : at[k] \notin A \union {None}}
<1>1. N \in Nat
  BY GraphAssumption, FS_CardinalityType
<1>2. Chain(n, link) = [k \in {j \in 1 .. (N + 1) : at[j - 1] # None} |-> at[k - 1]]
  BY Zenon DEF Chain, StepsTo
<1> HIDE DEF N
<1>3. StepsTo(n, link, N, at)
  BY <1>1, StepsExist
<1> HIDE DEF at
<1>4. /\ at[0] = n
      /\ \A k \in 1 .. N : at[k] = IF at[k - 1] = None THEN None ELSE link[at[k - 1]]
  <2>1. Leads(n, link, N, at)
    BY <1>1, <1>3, StepsSay
  <2> QED BY <2>1 DEF Leads
<1>5. T = {}
  <2> SUFFICES ASSUME T # {} PROVE FALSE
    OBVIOUS
  <2>1. PICK m \in T : \A k \in T : m <= k
    <3>1. T \in SUBSET Nat
      BY <1>1
    <3> HIDE DEF T
    <3> QED BY <3>1, Least
  <2>2. m # 0
    BY <1>4, <2>1
  <2>3. m - 1 \in 0 .. N /\ m - 1 \notin T /\ m \in 1 .. N
    BY <1>1, <2>1, <2>2
  <2> QED BY <1>4, <2>1, <2>3
<1>6. \A k \in 1 .. (N + 1) : k - 1 \in 0 .. N
  BY <1>1
<1> QED BY <1>2, <1>5, <1>6

-----------------------------------------------------------------------------
(* The steps that edit lists put one node somewhere, or take one out, or   *)
(* lose a list.                                                            *)

Puts(o, n) ==
  /\ o \in Owners \ broken /\ n \in Members(o) \ astray
  /\ UNCHANGED <<broken, astray>>
  /\ \E L : /\ Spells(L, o)
            /\ \E k \in 1 .. (Len(L) + 1) : Linked(o, n, At(L, k - 1), At(L, k))

Takes(o, n) ==
  /\ o \in Owners \ broken /\ n \in Members(o)
  /\ UNCHANGED <<broken, astray>>
  /\ \E L : /\ Spells(L, o)
            /\ \E k \in DOMAIN L : L[k] = n /\ Unlinked(o, n, At(L, k - 1), At(L, k + 1))

(* n goes to p while the list of o is lost, with all that is in it.        *)
Spoils(o, n, p) ==
  /\ o \in Owners \union {None} /\ p \in {o, None} /\ (p = None \/ n \in Members(p))
  /\ broken' = broken \union ({o} \ {None}) /\ broken' # {}
  /\ MovesAmongKind(n, p)
  /\ \E A, B : /\ A = astray' /\ B = broken' /\ Shut(A, B) /\ astray \subseteq A
               /\ n \in A /\ Moves(A, B, n, p)

(* What is lost with the list of o is shut, together with loose nodes.     *)
LEMMA LostIsShut ==
  ASSUME ListInv, NEW o \in Owners \union {None}, NEW ns \in SUBSET Nodes,
         \A n \in ns : Loose(n) \/ m_parent[n] = o
  PROVE  Shut(astray \union ns \union {m \in Nodes : m_parent[m] \in {o} \ {None}},
              broken \union ({o} \ {None}))
<1> DEFINE A == astray \union ns \union {m \in Nodes : m_parent[m] \in {o} \ {None}}
           B == broken \union ({o} \ {None})
<1>1. Shut(astray, broken) /\ LinkType /\ None \notin Owners
  BY NodesAre DEF ListInv
<1>2. A \in SUBSET Nodes /\ B \in SUBSET Owners
  BY <1>1 DEF Shut
<1>3. \A n \in Nodes : m_parent[n] \in B => n \in A
  BY <1>1 DEF Shut
<1>4. \A n \in A : m_parent[n] \in B \union {None}
  BY <1>1, <1>2 DEF Shut, Loose
<1>5. CASE o \in Owners \ broken
  <2>1. PICK L : Spells(L, o)
    BY <1>5 DEF ListInv
  <2>2. \A k : At(L, k) \in A \union {None}
    <3>1. \A k \in DOMAIN L : L[k] \in Nodes /\ m_parent[L[k]] = o
      BY <1>5, <2>1, SpellsFacts
    <3> QED BY <1>1, <1>5, <3>1 DEF At
  <2>3. m_head[o] \in A \union {None} /\ m_tail[o] \in A \union {None}
    <3> HIDE DEF A
    <3> QED BY <2>1, <2>2 DEF Spells
  <2>4. ASSUME NEW n \in Nodes, m_parent[n] = o
        PROVE  m_prev[n] \in A \union {None} /\ m_next[n] \in A \union {None}
    <3>1. PICK k \in DOMAIN L : L[k] = n
      BY <1>5, <2>1, <2>4, SpellsFacts
    <3> HIDE DEF A
    <3> QED BY <2>1, <2>2, <3>1 DEF Spells
  <2>5. ASSUME NEW n \in A PROVE m_prev[n] \in A \union {None} /\ m_next[n] \in A \union {None}
    <3>1. CASE n \in astray
      BY <1>1, <3>1 DEF Shut, Closed
    <3>2. CASE n \notin astray /\ Loose(n)
      BY <1>2, <3>2 DEF ListInv
    <3>3. CASE n \notin astray /\ ~Loose(n)
      <4>1. m_parent[n] = o /\ n \in Nodes
        BY <1>2, <3>3
      <4> HIDE DEF A
      <4> QED BY <2>4, <4>1
    <3> QED BY <3>1, <3>2, <3>3
  <2>6. Closed(A, B)
    <3>1. \A x \in broken : m_head[x] \in A \union {None} /\ m_tail[x] \in A \union {None}
      BY <1>1 DEF Shut, Closed
    <3> HIDE DEF A
    <3> QED BY <2>3, <2>5, <3>1 DEF Closed
  <2> HIDE DEF A, B
  <2>7. Shut(A, B)
    BY <1>2, <1>3, <1>4, <2>6 DEF Shut
  <2> QED BY <2>7 DEF A, B
<1>6. CASE o \notin Owners \ broken
  <2>1. ASSUME NEW n \in A PROVE m_prev[n] \in A \union {None} /\ m_next[n] \in A \union {None}
    <3>1. CASE n \in astray
      BY <1>1, <3>1 DEF Shut, Closed
    <3>2. CASE n \notin astray
      <4>1. Loose(n)
        BY <1>1, <1>2, <1>6, <3>2 DEF Shut, Loose
      <4> QED BY <1>2, <3>2, <4>1 DEF ListInv
    <3> QED BY <3>1, <3>2
  <2>2. Closed(A, B)
    <3>1. \A x \in B : m_head[x] \in A \union {None} /\ m_tail[x] \in A \union {None}
      BY <1>1, <1>6 DEF Shut, Closed
    <3> HIDE DEF A, B
    <3> QED BY <2>1, <3>1 DEF Closed
  <2> HIDE DEF A, B
  <2>3. Shut(A, B)
    BY <1>2, <1>3, <1>4, <2>2 DEF Shut
  <2> QED BY <2>3 DEF A, B
<1> QED BY <1>5, <1>6

(* Whatever happens to a lost list, the others are as they were.           *)
LEMMA SpoilsKeeps ==
  ASSUME ListInv, NEW o, NEW n \in Nodes, NEW p, Spoils(o, n, p)
  PROVE  /\ ListInv'
         /\ \A x \in Owners \ broken' : Walk(x)' = Walk(x)
         /\ \A i \in Nodes : Loose(i) /\ i # n => Loose(i)'
<1>1. PICK A, B : /\ A = astray' /\ B = broken' /\ Shut(A, B) /\ astray \subseteq A
                  /\ n \in A /\ Moves(A, B, n, p)
  BY DEF Spoils
<1>2. /\ o \in Owners \union {None} /\ p \in {o, None} /\ (p = None \/ n \in Members(p))
      /\ B = broken \union ({o} \ {None}) /\ B # {} /\ MovesAmongKind(n, p)
  BY <1>1 DEF Spoils
<1>3. /\ \A m \in Nodes \ A : m_prev'[m] = m_prev[m] /\ m_next'[m] = m_next[m]
      /\ \A x \in Owners \ B : m_head'[x] = m_head[x] /\ m_tail'[x] = m_tail[x]
      /\ \A m \in Nodes : m_parent'[m] = IF m = n THEN p ELSE m_parent[m]
      /\ LinkType' /\ Closed(A, B)'
  BY <1>1 DEF Moves
<1>4. /\ A \in SUBSET Nodes /\ B \in SUBSET Owners /\ None \notin Owners
      /\ \A m \in Nodes : m_parent[m] \in B => m \in A
      /\ \A m \in A : m_parent[m] \in B \union {None}
  BY <1>1, NodesAre DEF Shut
<1>5. p \in B \union {None}
  BY <1>2
<1>6. Kinds'
  BY <1>2, KindsKept DEF ListInv
<1>7. Shut(astray, broken)'
  <2>1. \A m \in Nodes : m_parent'[m] \in B => m \in A
    BY <1>1, <1>3, <1>4
  <2>2. \A m \in A : m_parent'[m] \in B \union {None}
    BY <1>3, <1>4, <1>5
  <2>3. Closed(astray, broken)'
    BY <1>1, <1>3 DEF Closed
  <2> QED BY <1>1, <1>4, <2>1, <2>2, <2>3 DEF Shut
<1>8. ASSUME NEW x \in Owners \ B, NEW L, Spells(L, x) PROVE Spells(L, x)'
  <2>1. /\ L \in Seq(Members(x)) /\ IsInjective(L)
        /\ m_head[x] = At(L, 1) /\ m_tail[x] = At(L, Len(L))
        /\ \A k \in DOMAIN L : m_prev[L[k]] = At(L, k - 1) /\ m_next[L[k]] = At(L, k + 1)
        /\ \A m \in Nodes : m_parent[m] = x <=> m \in ToSet(L)
    BY <1>8 DEF Spells
  <2>2. \A k \in DOMAIN L : L[k] \in Nodes \ A
    <3>1. \A k \in DOMAIN L : L[k] \in Nodes /\ m_parent[L[k]] = x
      BY <1>8, SpellsFacts
    <3> QED BY <1>4, <3>1
  <2>3. \A k \in DOMAIN L : m_prev'[L[k]] = At(L, k - 1) /\ m_next'[L[k]] = At(L, k + 1)
    BY <1>3, <2>1, <2>2
  <2>4. \A m \in Nodes : m_parent'[m] = x <=> m \in ToSet(L)
    <3>1. p # x /\ m_parent[n] # x
      BY <1>1, <1>4, <1>5
    <3> QED BY <1>3, <2>1, <3>1
  <2> QED BY <1>3, <2>1, <2>3, <2>4 DEF Spells
<1>9. ASSUME NEW x \in Owners \ B PROVE (\E L : Spells(L, x)') /\ Walk(x)' = Walk(x)
  <2>1. PICK L : Spells(L, x)
    BY <1>2 DEF ListInv
  <2>2. Spells(L, x)'
    BY <1>8, <2>1
  <2> QED BY <2>1, <2>2, WalkIs, WalkNext
<1>10. ASSUME NEW m \in Nodes \ A, Loose(m)' PROVE m_prev'[m] = None /\ m_next'[m] = None
  <2>1. m # n /\ m_parent[m] = None
    BY <1>1, <1>3, <1>10 DEF Loose
  <2> QED BY <1>1, <1>3, <2>1 DEF ListInv, Loose
<1>11. ListInv'
  BY <1>1, <1>2, <1>3, <1>6, <1>7, <1>9, <1>10 DEF ListInv
<1>12. \A i \in Nodes : Loose(i) /\ i # n => Loose(i)'
  BY <1>3 DEF Loose
<1> QED BY <1>1, <1>9, <1>11, <1>12

(* What is in a list that is whole is at a place of it.                    *)
LEMMA ParentIs ==
  ASSUME ListInv, NEW n \in Nodes, ~Loose(n)
  PROVE  /\ m_parent[n] \in Owners /\ n \in Members(m_parent[n])
         /\ m_parent[n] \notin broken =>
              \E L : Spells(L, m_parent[n]) /\ \E k \in DOMAIN L : L[k] = n
         /\ n \in Insts => m_parent[n] \in Blocks
         /\ n \in Blocks => m_parent[n] = Func
<1>1. m_parent[n] \in Owners /\ n \in Members(m_parent[n])
  BY DEF ListInv, LinkType, Loose, Kinds
<1>2. ASSUME m_parent[n] \notin broken
      PROVE  \E L : Spells(L, m_parent[n]) /\ \E k \in DOMAIN L : L[k] = n
  <2>1. PICK L : Spells(L, m_parent[n])
    BY <1>1, <1>2 DEF ListInv
  <2>2. \E k \in DOMAIN L : L[k] = n
    BY <1>1, <2>1, SpellsFacts
  <2> QED BY <2>1, <2>2
<1>3. (n \in Insts => m_parent[n] \in Blocks) /\ (n \in Blocks => m_parent[n] = Func)
  BY <1>1, NodesAre DEF Members, Owners
<1> QED BY <1>1, <1>2, <1>3

(* n is put into a list that is whole, or where one is lost.               *)
Adds(n) == \E o \in Owners \union {None} : Puts(o, n) \/ Spoils(o, n, o)

(* prepend() and append() put a node.                                      *)
LEMMA EndAdds ==
  ASSUME ListInv, NEW o \in Owners, NEW n \in Members(o), Loose(n),
         PrependNode(o, n) \/ AppendNode(o, n)
  PROVE  Adds(n)
<1>1. o # None /\ n \in Nodes
  BY NodesAre
<1>2. CASE o \notin broken /\ n \notin astray
  <2>1. PICK L : Spells(L, o)
    BY <1>2 DEF ListInv
  <2>2. Len(L) \in Nat
    BY <2>1, SpellsFacts
  <2>3. UNCHANGED <<broken, astray>>
    BY <1>2 DEF PrependNode, AppendNode, Mark
  <2>4. CASE PrependNode(o, n)
    <3>1. Linked(o, n, At(L, 1 - 1), At(L, 1))
      BY <1>2, <2>1, <2>4, PrependIs
    <3>2. 1 \in 1 .. (Len(L) + 1)
      BY <2>2
    <3> QED BY <1>2, <2>1, <2>3, <3>1, <3>2 DEF Puts, Adds
  <2>5. CASE AppendNode(o, n)
    <3> DEFINE k == Len(L) + 1
    <3>1. k - 1 = Len(L) /\ k \in 1 .. (Len(L) + 1)
      BY <2>2
    <3>2. Linked(o, n, At(L, k - 1), At(L, k))
      BY <1>2, <2>1, <2>5, <3>1, AppendIs
    <3> QED BY <1>2, <2>1, <2>3, <3>1, <3>2 DEF Puts, Adds
  <2> QED BY <2>4, <2>5
<1>3. CASE o \in broken \/ n \in astray
  <2> DEFINE A == astray \union {n} \union {m \in Nodes : m_parent[m] \in {o} \ {None}}
             B == broken \union ({o} \ {None})
  <2>1. astray' = A /\ broken' = B
    BY <1>3 DEF PrependNode, AppendNode, Mark
  <2>2. Shut(A, B)
    BY <1>1, LostIsShut
  <2>3. n \in A /\ o \in B /\ astray \subseteq A
    BY <1>1
  <2> HIDE DEF A, B
  <2>4. PICK a, b : a = A /\ b = B
    OBVIOUS
  <2>5. Moves(a, b, n, o)
    BY <2>2, <2>3, <2>4, EndMoves DEF ListInv, Shut
  <2>6. MovesAmongKind(n, o)
    <3>1. PICK K \in SUBSET Nodes, H \in SUBSET Owners :
            /\ Closed(K, H) /\ o \in H /\ n \in K /\ Members(o) = K
            /\ \A x : Moves(K, H, n, x) => MovesAmongKind(n, x)
      BY KindIs DEF ListInv
    <3> QED BY <3>1, EndMoves DEF ListInv
  <2>7. Spoils(o, n, o)
    BY <2>1, <2>2, <2>3, <2>4, <2>5, <2>6 DEF Spoils, B
  <2> QED BY <2>7 DEF Adds
<1> QED BY <1>2, <1>3

(* So do the insertions by a neighbour, which may be adrift.               *)
LEMMA BesideAdds ==
  ASSUME ListInv, NEW m \in Nodes, NEW n \in Nodes, Loose(n), ~Loose(m) \/ m \in astray,
         n \in Insts <=> m \in Insts, InsertBefore(n, m) \/ InsertAfter(n, m)
  PROVE  Adds(n)
<1>1. PICK o \in Owners \union {None} : o = m_parent[m]
  BY DEF ListInv, LinkType
<1>2. o = None \/ (m \in Members(o) /\ n \in Members(o))
  <2>1. o # None => m \in Members(o)
    BY <1>1 DEF ListInv, Kinds, Loose
  <2> QED BY <1>1, <2>1, NodesAre DEF Members
<1> DEFINE whole == /\ o \notin broken /\ {n, m} \intersect astray = {}
                    /\ \/ InsertBefore(n, m) /\ m_prev[m] # None
                       \/ InsertAfter(n, m) /\ m_next[m] # None
<1>3. CASE whole
  <2>1. o \in Owners \ broken /\ ~Loose(m) /\ n \in Members(o) \ astray /\ LinkType
    BY <1>1, <1>2, <1>3 DEF Loose, ListInv
  <2>2. PICK L : Spells(L, o) /\ \E k \in DOMAIN L : L[k] = m
    BY <1>1, <1>3, <2>1, ParentIs
  <2>3. PICK k \in DOMAIN L : L[k] = m
    BY <2>2
  <2>4. k \in 1 .. (Len(L) + 1) /\ k + 1 \in 1 .. (Len(L) + 1) /\ (k + 1) - 1 = k
    BY <2>1, <2>2, SpellsFacts
  <2>5. CASE InsertBefore(n, m) /\ m_prev[m] # None
    <3>1. Linked(o, n, At(L, k - 1), At(L, k))
      BY <2>1, <2>2, <2>3, <2>5, BeforeIs
    <3>2. UNCHANGED <<broken, astray>>
      BY <1>1, <1>3, <2>5 DEF InsertBefore, Mark
    <3> QED BY <2>1, <2>2, <2>4, <3>1, <3>2 DEF Puts, Adds
  <2>6. CASE InsertAfter(n, m) /\ m_next[m] # None
    <3>1. Linked(o, n, At(L, (k + 1) - 1), At(L, k + 1))
      BY <2>1, <2>2, <2>3, <2>4, <2>6, AfterIs
    <3>2. UNCHANGED <<broken, astray>>
      BY <1>1, <1>3, <2>6 DEF InsertAfter, Mark
    <3> QED BY <2>1, <2>2, <2>4, <3>1, <3>2 DEF Puts, Adds
  <2> QED BY <1>3, <2>5, <2>6
<1>4. CASE ~whole
  <2> DEFINE A == astray \union {n, m} \union {x \in Nodes : m_parent[x] \in {o} \ {None}}
             B == broken \union ({o} \ {None})
  <2>1. astray' = A /\ broken' = B
    <3>1. CASE InsertBefore(n, m)
      BY <1>1, <1>4, <3>1 DEF InsertBefore, Mark
    <3>2. CASE InsertAfter(n, m)
      BY <1>1, <1>4, <3>2 DEF InsertAfter, Mark
    <3> QED BY <3>1, <3>2
  <2>2. Shut(A, B)
    BY <1>1, LostIsShut
  <2>3. n \in A /\ m \in A /\ astray \subseteq A
    OBVIOUS
  <2>4. B # {}
    BY <1>1, NodesAre DEF ListInv, Loose
  <2> HIDE DEF A, B
  <2>5. PICK a, b : a = A /\ b = B
    OBVIOUS
  <2>6. Moves(a, b, n, m_parent[m])
    BY <2>2, <2>3, <2>5, BesideMoves DEF ListInv, Shut
  <2>7. MovesAmongKind(n, m_parent[m])
    <3>1. CASE n \in Insts
      <4>1. Closed(Insts, Blocks) /\ Insts \in SUBSET Nodes /\ Blocks \in SUBSET Owners
        BY NodesAre DEF ListInv, Kinds
      <4> QED BY <3>1, <4>1, BesideMoves DEF MovesAmongKind, ListInv
    <3>2. CASE n \notin Insts
      <4>1. Closed(Blocks, {Func}) /\ Blocks \in SUBSET Nodes /\ {Func} \in SUBSET Owners
            /\ n \in Blocks /\ m \in Blocks
        BY <3>2, NodesAre DEF ListInv, Kinds
      <4> QED BY <3>2, <4>1, BesideMoves DEF MovesAmongKind, ListInv
    <3> QED BY <3>1, <3>2
  <2>8. Spoils(o, n, o)
    BY <1>1, <1>2, <2>1, <2>2, <2>3, <2>4, <2>5, <2>6, <2>7 DEF Spoils, B
  <2> QED BY <2>8 DEF Adds
<1> QED BY <1>3, <1>4

(* And by an index, where a list that is lost may lead to what is in none. *)
LEMMA IndexAdds ==
  ASSUME ListInv, NEW o \in Owners, NEW n \in Members(o), Loose(n),
         NEW k \in Nat, InsertAtIndex(o, n, k)
  PROVE  Adds(n)
<1> DEFINE list == Chain(m_head[o], m_next)
<1>1. IF k + 1 \in DOMAIN list THEN InsertBefore(n, list[k + 1]) ELSE AppendNode(o, n)
  BY DEF InsertAtIndex
<1> HIDE DEF list
<1>2. CASE k + 1 \in DOMAIN list
  <2> DEFINE m == list[k + 1]
  <2>1. PICK K \in SUBSET Nodes, H \in SUBSET Owners :
          /\ Closed(K, H) /\ o \in H /\ n \in K /\ Members(o) = K
    BY KindIs DEF ListInv
  <2>2. m \in K
    <3>1. m_head[o] \in K \union {None} /\ \A x \in K : m_next[x] \in K \union {None}
      BY <2>1 DEF Closed
    <3> QED BY <1>2, <3>1, ChainWithin DEF list
  <2>3. n \in Insts <=> m \in Insts
    BY <2>1, <2>2, NodesAre DEF Members
  <2>4. ~Loose(m) \/ m \in astray
    <3>1. CASE o \in broken
      <4>1. /\ m_head[o] \in astray \union {None}
            /\ \A x \in astray : m_next[x] \in astray \union {None}
        BY <3>1 DEF ListInv, Shut, Closed
      <4> QED BY <1>2, <4>1, ChainWithin DEF list
    <3>2. CASE o \notin broken
      <4>1. PICK L : Spells(L, o)
        BY <3>2 DEF ListInv
      <4>2. list = L
        BY <4>1, WalkIs DEF Walk, list
      <4>3. m_parent[m] = o
        BY <1>2, <4>1, <4>2, SpellsFacts
      <4> QED BY <4>3, NodesAre DEF Loose
    <3> QED BY <3>1, <3>2
  <2>5. InsertBefore(n, m)
    BY <1>1, <1>2
  <2> HIDE DEF m
  <2> QED BY <2>1, <2>2, <2>3, <2>4, <2>5, BesideAdds
<1>3. CASE k + 1 \notin DOMAIN list
  BY <1>1, <1>3, EndAdds
<1> QED BY <1>2, <1>3

(* Place puts one node somewhere, which was in no list.                    *)
LEMMA PlaceIs ==
  ASSUME ListInv, Place
  PROVE  \E n \in Nodes : Loose(n) /\ (n \in Insts => n \in created) /\ Adds(n)
<1> DEFINE Goal == \E n \in Nodes : Loose(n) /\ (n \in Insts => n \in created) /\ Adds(n)
<1> USE NodesAre
<1>1. ASSUME NEW b \in Blocks, NEW i \in Insts, PrependInst(b, i) \/ AppendInst(b, i) PROVE Goal
  BY <1>1, EndAdds DEF PrependInst, AppendInst
<1>2. ASSUME NEW b \in Blocks, NEW i \in Insts, NEW k \in 0 .. Cardinality(Insts),
             InsertInstAt(b, i, k)
      PROVE  Goal
  BY <1>2, IndexAdds DEF InsertInstAt
<1>3. ASSUME NEW i \in Insts, NEW j \in Insts, InsertInstBefore(i, j) \/ InsertInstAfter(i, j)
      PROVE  Goal
  BY <1>3, BesideAdds DEF InsertInstBefore, InsertInstAfter
<1>4. ASSUME NEW b \in Blocks, PrependBlock(b) \/ AppendBlock(b) PROVE Goal
  BY <1>4, EndAdds DEF PrependBlock, AppendBlock
<1>5. ASSUME NEW b \in Blocks, NEW k \in 0 .. Cardinality(Blocks), InsertBlockAt(b, k) PROVE Goal
  BY <1>5, IndexAdds DEF InsertBlockAt
<1>6. ASSUME NEW b \in Blocks, NEW c \in Blocks, InsertBlockBefore(b, c) \/ InsertBlockAfter(b, c)
      PROVE  Goal
  BY <1>6, BesideAdds DEF InsertBlockBefore, InsertBlockAfter
<1> HIDE DEF Goal
<1>7. Goal
  BY <1>1, <1>2, <1>3, <1>4, <1>5, <1>6 DEF Place
<1> QED BY <1>7 DEF Goal

(* Detach takes one out.                                                   *)
LEMMA DetachIs ==
  ASSUME ListInv, Detach
  PROVE  \E o \in Owners : \E n \in Nodes : Takes(o, n) \/ Spoils(o, n, None)
<1>1. ASSUME NEW n \in Nodes, ~Loose(n), RemoveNode(m_parent[n], n)
      PROVE  \E o \in Owners : \E m \in Nodes : Takes(o, m) \/ Spoils(o, m, None)
  <2>1. PICK o \in Owners : o = m_parent[n]
    BY <1>1, ParentIs
  <2>2. n \in Members(o) /\ o # None
    BY <1>1, <2>1, ParentIs, NodesAre
  <2>3. CASE o \notin broken
    <3>1. PICK L : Spells(L, o) /\ \E k \in DOMAIN L : L[k] = n
      BY <1>1, <2>1, <2>3, ParentIs
    <3>2. PICK k \in DOMAIN L : L[k] = n
      BY <3>1
    <3>3. Unlinked(o, n, At(L, k - 1), At(L, k + 1))
      BY <1>1, <2>1, <3>1, <3>2, RemoveIs
    <3>4. n \notin astray
      BY <2>1, <2>2, <2>3 DEF ListInv, Shut
    <3>5. UNCHANGED <<broken, astray>>
      BY <1>1, <2>1, <2>3, <3>4 DEF RemoveNode, Mark
    <3> QED BY <2>2, <2>3, <3>1, <3>2, <3>3, <3>5 DEF Takes
  <2>4. CASE o \in broken
    <3> DEFINE A == astray \union {n} \union {m \in Nodes : m_parent[m] \in {o} \ {None}}
               B == broken \union ({o} \ {None})
    <3>1. astray' = A /\ broken' = B
      BY <1>1, <2>1, <2>4 DEF RemoveNode, Mark
    <3>2. Shut(A, B)
      BY <2>1, LostIsShut
    <3>3. n \in A /\ o \in B /\ astray \subseteq A
      BY <2>2
    <3> HIDE DEF A, B
    <3>4. PICK a, b : a = A /\ b = B
      OBVIOUS
    <3>5. Moves(a, b, n, None)
      BY <1>1, <2>1, <3>2, <3>3, <3>4, RemoveMoves DEF ListInv, Shut
    <3>6. MovesAmongKind(n, None)
      <4>1. PICK K \in SUBSET Nodes, H \in SUBSET Owners :
              /\ Closed(K, H) /\ o \in H /\ n \in K /\ Members(o) = K
              /\ \A x : Moves(K, H, n, x) => MovesAmongKind(n, x)
        BY <2>2, KindIs DEF ListInv
      <4> QED BY <1>1, <2>1, <4>1, RemoveMoves DEF ListInv
    <3>7. Spoils(o, n, None)
      BY <3>1, <3>2, <3>3, <3>4, <3>5, <3>6 DEF Spoils, B
    <3> QED BY <3>7
  <2> QED BY <2>3, <2>4
<1>2. ASSUME NEW i \in Insts, DetachInst(i)
      PROVE  \E o \in Owners : \E m \in Nodes : Takes(o, m) \/ Spoils(o, m, None)
  BY <1>1, <1>2, NodesAre DEF DetachInst
<1>3. ASSUME NEW b \in Blocks, DetachBlock(b)
      PROVE  \E o \in Owners : \E m \in Nodes : Takes(o, m) \/ Spoils(o, m, None)
  BY <1>1, <1>3, NodesAre DEF DetachBlock
<1> QED BY <1>2, <1>3 DEF Detach

(* Putting a node into a list keeps the lists in order.                    *)
LEMMA PutsKeeps ==
  ASSUME ListInv, NEW o, NEW n, Loose(n), Puts(o, n)
  PROVE  /\ ListInv'
         /\ \E k \in 1 .. (Len(Walk(o)) + 1) : Walk(o)' = InsertAt(Walk(o), k, n)
         /\ \A x \in Owners \ broken : x # o => Walk(x)' = Walk(x)
         /\ \A i \in Nodes : Loose(i) /\ i # n => Loose(i)'
<1>1. PICK L : /\ Spells(L, o)
               /\ \E k \in 1 .. (Len(L) + 1) : Linked(o, n, At(L, k - 1), At(L, k))
  BY DEF Puts
<1>2. PICK k \in 1 .. (Len(L) + 1) : Linked(o, n, At(L, k - 1), At(L, k))
  BY <1>1
<1>3. LinkType /\ o \in Owners \ broken /\ n \in Members(o) \ astray /\ UNCHANGED <<broken, astray>>
  BY DEF ListInv, Puts
<1>4. ListInv'
  BY <1>1, <1>2, <1>3, LinkedInv
<1>5. Walk(o) = L
  BY <1>1, <1>3, WalkIs
<1>6. Spells(InsertAt(L, k, n), o)'
  BY <1>1, <1>2, <1>3, LinkedSpells
<1>7. Walk(o)' = InsertAt(L, k, n)
  BY <1>3, <1>6, WalkNext
<1>8. ASSUME NEW x \in Owners \ broken, x # o PROVE Walk(x)' = Walk(x)
  <2>1. PICK M : Spells(M, x)
    BY DEF ListInv
  <2>2. Spells(M, x)'
    BY <1>1, <1>2, <1>3, <1>8, <2>1, LinkedKeeps
  <2>3. Walk(x) = M
    BY <2>1, WalkIs
  <2> QED BY <2>2, <2>3, WalkNext
<1>9. \A i \in Nodes : Loose(i) /\ i # n => Loose(i)'
  BY <1>2 DEF Linked, Loose
<1> QED BY <1>1, <1>4, <1>5, <1>7, <1>8, <1>9

(* The same of what is taken out.                                          *)
LEMMA TakesKeeps ==
  ASSUME ListInv, NEW o, NEW n, Takes(o, n)
  PROVE  /\ ListInv'
         /\ \E k \in DOMAIN Walk(o) : Walk(o)[k] = n /\ Walk(o)' = RemoveAt(Walk(o), k)
         /\ \A x \in Owners \ broken : x # o => Walk(x)' = Walk(x)
         /\ \A i \in Nodes : Loose(i) => Loose(i)'
<1>1. PICK L : /\ Spells(L, o)
               /\ \E k \in DOMAIN L : L[k] = n /\ Unlinked(o, n, At(L, k - 1), At(L, k + 1))
  BY DEF Takes
<1>2. PICK k \in DOMAIN L : L[k] = n /\ Unlinked(o, n, At(L, k - 1), At(L, k + 1))
  BY <1>1
<1>3. /\ LinkType /\ Unlinked(o, L[k], At(L, k - 1), At(L, k + 1))
      /\ o \in Owners \ broken /\ UNCHANGED <<broken, astray>>
  BY <1>2 DEF ListInv, Takes
<1>4. ListInv'
  BY <1>1, <1>3, UnlinkedInv
<1>5. Walk(o) = L
  BY <1>1, <1>3, WalkIs
<1>6. Spells(RemoveAt(L, k), o)'
  BY <1>1, <1>3, UnlinkedSpells
<1>7. Walk(o)' = RemoveAt(L, k)
  BY <1>3, <1>6, WalkNext
<1>8. ASSUME NEW x \in Owners \ broken, x # o PROVE Walk(x)' = Walk(x)
  <2>1. PICK M : Spells(M, x)
    BY DEF ListInv
  <2>2. Spells(M, x)'
    BY <1>1, <1>3, <1>8, <2>1, UnlinkedKeeps
  <2>3. Walk(x) = M
    BY <2>1, WalkIs
  <2> QED BY <2>2, <2>3, WalkNext
<1>9. \A i \in Nodes : Loose(i) => Loose(i)'
  BY <1>2 DEF Unlinked, Loose
<1> QED BY <1>2, <1>4, <1>5, <1>7, <1>8, <1>9

-----------------------------------------------------------------------------
(* The links while the graph is built and edited.                          *)

BuildInv ==
  stage = "build" =>
    /\ ListInv
    /\ created \subseteq Insts
    /\ \A i \in Insts \ created : Loose(i)

(* A graph starts out empty.                                               *)
LEMMA InitBuild == Init => BuildInv
<1> SUFFICES ASSUME Init PROVE BuildInv
  OBVIOUS
<1>1. /\ LinkType /\ created = {} /\ broken = {} /\ astray = {}
      /\ \A n \in Nodes : Loose(n) /\ m_prev[n] = None /\ m_next[n] = None
      /\ \A o \in Owners : m_head[o] = None /\ m_tail[o] = None
  BY DEF Init, LinkType, Loose
<1>2. ASSUME NEW o \in Owners PROVE Spells(<< >>, o)
  <2>1. << >> \in Seq(Members(o)) /\ DOMAIN << >> = {} /\ Len(<< >>) = 0
    OBVIOUS
  <2>2. \A n \in Nodes : m_parent[n] # o
    BY <1>1, NodesAre DEF Loose
  <2> QED BY <1>1, <2>1, <2>2 DEF Spells, At, ToSet, IsInjective
<1>3. Kinds
  BY <1>1, NodesAre DEF Kinds, Closed
<1>4. Shut(astray, broken)
  BY <1>1 DEF Shut, Closed
<1> QED BY <1>1, <1>2, <1>3, <1>4, NodesAre DEF BuildInv, ListInv

(* What a step does to the lists: nothing, or it puts a node that was in   *)
(* none, or takes one out.                                                 *)
Edits ==
  \/ UNCHANGED listVars
  \/ \E n \in Nodes : Loose(n) /\ (n \in Insts => n \in created') /\ Adds(n)
  \/ \E o \in Owners : \E n \in Nodes : Takes(o, n) \/ Spoils(o, n, None)

(* Every step that does not begin the destruction is such an edit.         *)
LEMMA NextEdits ==
  ASSUME BuildInv, stage = "build", [Next]_vars, stage' = "build"
  PROVE  Edits /\ created \subseteq created' /\ created' \subseteq Insts
<1>1. ListInv /\ created \subseteq Insts /\ \A i \in Insts \ created : Loose(i)
  BY DEF BuildInv
<1>2. CASE Place
  BY <1>1, <1>2, PlaceIs DEF Edits, Place, EditLists
<1>3. CASE Detach
  BY <1>1, <1>3, DetachIs DEF Edits, Detach, EditLists
<1>4. ASSUME NEW i \in Insts, NEW ops, BuildInst(i, ops) PROVE Edits /\ created' = created \union {i}
  <2>1. i \notin created /\ created' = created \union {i} /\ Loose(i)
    BY <1>1, <1>4 DEF BuildInst, NewInst
  <2>2. CASE UNCHANGED listVars
    BY <2>1, <2>2 DEF Edits
  <2>3. ASSUME NEW b \in Blocks, PrependNode(b, i) \/ AppendNode(b, i) PROVE Edits
    <3>1. b \in Owners /\ i \in Members(b)
      BY NodesAre
    <3>2. Adds(i)
      BY <1>1, <2>1, <2>3, <3>1, EndAdds
    <3> QED BY <2>1, <3>2, NodesAre DEF Edits
  <2> QED BY <1>4, <2>1, <2>2, <2>3 DEF BuildInst
<1>5. ASSUME NEW i \in Insts, NEW v \in Values, AddOperand(i, v)
      PROVE  UNCHANGED <<listVars, created>>
  BY <1>5 DEF AddOperand, EditUses
<1>6. CASE Rewire
  BY <1>1, <1>6 DEF Rewire, EditUses, Edits
<1>7. ASSUME DestroyFunction \/ DestroyBlock \/ DestroyInst \/ DestroyConstants PROVE FALSE
  BY <1>7 DEF DestroyFunction, DestroyBlock, DestroyInst, DestroyConstants
<1>8. CASE UNCHANGED vars
  BY <1>1, <1>8 DEF vars, Edits
<1> QED BY <1>1, <1>2, <1>3, <1>4, <1>5, <1>6, <1>7, <1>8 DEF Next, Edits

(* The destruction does not go back to building.                           *)
LEMMA StageStays ==
  ASSUME [Next]_vars, stage # "build" PROVE stage' # "build"
<1>1. ASSUME NEW i, NEW ops, BuildInst(i, ops) PROVE FALSE
  BY <1>1 DEF BuildInst
<1>2. ASSUME NEW i, NEW v, AddOperand(i, v) PROVE FALSE
  BY <1>2 DEF AddOperand, EditUses
<1>3. ~Place /\ ~Detach /\ ~Rewire /\ ~DestroyFunction
  BY DEF Place, Detach, EditLists, Rewire, EditUses, DestroyFunction
<1>4. ASSUME DestroyBlock \/ DestroyInst \/ DestroyConstants PROVE stage' # "build"
  BY <1>4 DEF DestroyBlock, DestroyInst, DestroyConstants
<1>5. CASE UNCHANGED vars
  BY <1>5 DEF vars, endVars
<1> QED BY <1>1, <1>2, <1>3, <1>4, <1>5 DEF Next

(* Nothing breaks when the destruction begins, nor after that.             *)
LEMMA BrokenStays ==
  ASSUME [Next]_vars, stage' # "build" PROVE UNCHANGED <<broken, astray>>
<1>1. ASSUME NEW i, NEW ops, BuildInst(i, ops) PROVE stage' = "build"
  BY <1>1 DEF BuildInst, endVars
<1>2. ASSUME NEW i, NEW v, AddOperand(i, v) PROVE stage' = "build"
  BY <1>2 DEF AddOperand, EditUses, endVars
<1>3. Place \/ Detach \/ Rewire => stage' = "build"
  BY DEF Place, Detach, EditLists, Rewire, EditUses, endVars
<1>4. ASSUME DestroyFunction \/ DestroyBlock \/ DestroyInst \/ DestroyConstants
      PROVE  UNCHANGED <<broken, astray>>
  BY <1>4 DEF DestroyFunction, DestroyBlock, DestroyInst, DestroyConstants, listVars
<1>5. CASE UNCHANGED vars
  BY <1>5 DEF vars, listVars
<1> QED BY <1>1, <1>2, <1>3, <1>4, <1>5 DEF Next

(* What an edit does to the sequences, and that they stay ones.            *)
LEMMA EditsKeep ==
  ASSUME ListInv, Edits
  PROVE  /\ ListInv'
         /\ \A i \in Insts : Loose(i) => Loose(i)' \/ i \in created'
<1>1. CASE UNCHANGED listVars
  <2>1. ListInv'
    BY <1>1 DEF ListInv, LinkType, Kinds, Shut, Closed, Spells, Loose, listVars
  <2> QED BY <1>1, <2>1 DEF listVars, Loose
<1>2. ASSUME NEW n \in Nodes, Loose(n), n \in Insts => n \in created', Adds(n)
      PROVE  ListInv' /\ \A i \in Insts : Loose(i) => Loose(i)' \/ i \in created'
  <2>1. ListInv' /\ \A i \in Nodes : Loose(i) /\ i # n => Loose(i)'
    BY <1>2, PutsKeeps, SpoilsKeeps DEF Adds
  <2> QED BY <1>2, <2>1, NodesAre
<1>3. ASSUME NEW o \in Owners, NEW n \in Nodes, Takes(o, n)
      PROVE  ListInv' /\ \A i \in Insts : Loose(i) => Loose(i)'
  BY <1>3, TakesKeeps, NodesAre
<1>4. ASSUME NEW o \in Owners, NEW n \in Nodes, Spoils(o, n, None)
      PROVE  ListInv' /\ \A i \in Insts : Loose(i) => Loose(i)'
  <2>1. ListInv' /\ \A i \in Nodes : Loose(i) /\ i # n => Loose(i)'
    BY <1>4, SpoilsKeeps
  <2>2. Loose(n)'
    BY <1>4 DEF Spoils, Moves, Loose
  <2> QED BY <2>1, <2>2, NodesAre
<1> QED BY <1>1, <1>2, <1>3, <1>4 DEF Edits

(* The links stay in order.                                                *)
LEMMA NextBuild ==
  ASSUME BuildInv, [Next]_vars PROVE BuildInv'
<1> SUFFICES ASSUME stage' = "build" PROVE BuildInv'
  BY DEF BuildInv
<1>1. stage = "build"
  BY StageStays
<1>2. Edits /\ created \subseteq created' /\ created' \subseteq Insts
  BY <1>1, NextEdits
<1>3. ListInv /\ \A i \in Insts \ created : Loose(i)
  BY <1>1 DEF BuildInv
<1>4. ListInv' /\ \A i \in Insts : Loose(i) => Loose(i)' \/ i \in created'
  BY <1>2, <1>3, EditsKeep
<1> QED BY <1>2, <1>3, <1>4 DEF BuildInv

(* While a graph is built, every owner has a list that all pointers agree  *)
(* on, but for those that are broken; no link leads from what is astray to *)
(* anything else, nor back.                                                *)
THEOREM BuildCorrect == Spec => []BuildInv
<1>1. BuildInv /\ [Next]_vars => BuildInv'
  BY NextBuild
<1> QED BY <1>1, InitBuild, PTL DEF Spec

(* The instructions of a block and the blocks of a function are one        *)
(* sequence from either end, of those that say they belong there, unless   *)
(* the list was inserted into beyond an end or took up from one that was.  *)
THEOREM LinkedBothWaysCorrect == Spec => []LinkedBothWays
<1>1. BuildInv => LinkedBothWays
  <2> SUFFICES ASSUME BuildInv, stage = "build", NEW o \in Owners \ broken
               PROVE  /\ WalkBack(o) = Reverse(Walk(o))
                      /\ ToSet(Walk(o)) = {n \in Nodes : m_parent[n] = o}
    BY DEF LinkedBothWays
  <2>1. PICK L : Spells(L, o)
    BY DEF BuildInv, ListInv
  <2>2. Walk(o) = L /\ WalkBack(o) = Reverse(L)
    BY <2>1, WalkIs
  <2>3. \A n \in Nodes : m_parent[n] = o <=> n \in ToSet(L)
    BY <2>1 DEF Spells
  <2>4. ToSet(L) \subseteq Nodes
    BY <2>1, SpellsFacts DEF ToSet
  <2> QED BY <2>2, <2>3, <2>4
<1> QED BY <1>1, BuildCorrect, PTL

-----------------------------------------------------------------------------
(* The refinement.                                                         *)

Order == Whole(Func)

Body == [b \in Blocks |-> Whole(b)]

(* A node that is in no list is in no sequence.                            *)
LEMMA LooseAbsent ==
  ASSUME ListInv, NEW n \in Nodes, Loose(n), NEW o \in Owners
  PROVE  ~Contains(Whole(o), n)
<1>1. CASE o \in broken \/ stage # "build"
  <2>1. Whole(o) = << >>
    BY <1>1 DEF Whole
  <2> QED BY <2>1 DEF Contains
<1>2. CASE o \notin broken /\ stage = "build"
  <2>1. PICK L : Spells(L, o)
    BY <1>2 DEF ListInv
  <2>2. Whole(o) = L
    BY <1>2, <2>1, WalkIs DEF Whole
  <2>3. m_parent[n] # o
    BY NodesAre DEF Loose
  <2> QED BY <2>1, <2>2, <2>3, SpellsFacts DEF Contains
<1> QED BY <1>1, <1>2

(* A graph starts out as empty sequences.                                  *)
LEMMA InitLists == Init => Lists!ListInit
<1> SUFFICES ASSUME Init PROVE Lists!ListInit
  OBVIOUS
<1>1. ListInv
  BY InitBuild DEF BuildInv, Init
<1>2. ASSUME NEW o \in Owners PROVE Whole(o) = << >>
  <2>1. PICK L : Spells(L, o)
    BY <1>1 DEF ListInv, Init
  <2>2. \A n \in Nodes : m_parent[n] # o
    BY NodesAre DEF Init
  <2>3. L = << >>
    BY <2>1, <2>2, SpellsFacts
  <2> QED BY <2>1, <2>3, WalkIs DEF Whole
<1>3. broken = {}
  BY DEF Init
<1> QED BY <1>2, <1>3, NodesAre DEF Lists!ListInit, Lists!Nothing

(* The lists' operators on sequences are those of the graph.               *)
LEMMA SameOperators ==
  /\ \A s, k, e : Lists!InsertAt(s, k, e) = InsertAt(s, k, e)
  /\ \A s, k : Lists!RemoveAt(s, k) = RemoveAt(s, k)
  /\ \A s, e : Lists!Contains(s, e) <=> Contains(s, e)
BY DEF InsertAt, RemoveAt, Contains, Lists!InsertAt, Lists!RemoveAt, Lists!Contains

(* What a step that edits one list does to what the others spell.          *)
LEMMA WholeKept ==
  ASSUME stage = "build", stage' = "build", NEW x \in Owners,
         x \in broken' <=> x \in broken, x \notin broken => Walk(x)' = Walk(x)
  PROVE  Whole(x)' = Whole(x)
BY DEF Whole

(* A node is put into one sequence.                                        *)
LEMMA PutsImplement ==
  ASSUME ListInv, stage = "build", stage' = "build", NEW o, NEW n, Loose(n), Puts(o, n)
  PROVE  Lists!ListNext
<1>1. /\ o \in Owners /\ o \notin broken /\ n \in Members(o) /\ n \in Nodes
      /\ broken' = broken
  BY NodesAre DEF Puts
<1>2. /\ \E k \in 1 .. (Len(Whole(o)) + 1) : Whole(o)' = InsertAt(Whole(o), k, n)
      /\ \A x \in Owners : x # o => Whole(x)' = Whole(x)
  <2>1. Whole(o) = Walk(o) /\ Whole(o)' = Walk(o)'
    BY <1>1 DEF Whole
  <2> QED BY <1>1, <2>1, PutsKeeps, WholeKept
<1>3. PICK k \in 1 .. (Len(Whole(o)) + 1) : Whole(o)' = InsertAt(Whole(o), k, n)
  BY <1>2
<1>4. \A x \in Owners : ~Contains(Whole(x), n)
  BY <1>1, LooseAbsent
<1>5. CASE o = Func
  <2>1. Body' = Body /\ n \in Blocks
    BY <1>1, <1>2, <1>5, NodesAre DEF Body
  <2>2. Lists!PutBlock(n)
    BY <1>1, <1>3, <1>4, <1>5, <2>1, SameOperators DEF Lists!PutBlock, Order, Body
  <2> QED BY <2>1, <2>2 DEF Lists!ListNext
<1>6. CASE o # Func
  <2>1. Order' = Order /\ n \in Insts /\ o \in Blocks
    BY <1>1, <1>2, <1>6, NodesAre DEF Order, Owners, Members
  <2>2. Body[o] = Whole(o) /\ Body' = [Body EXCEPT ![o] = InsertAt(@, k, n)]
    BY <1>2, <1>3, <2>1, NodesAre DEF Body
  <2>3. \A c \in Blocks : ~Contains(Body[c], n)
    BY <1>4, NodesAre DEF Body
  <2>4. Lists!PutInst(o, n)
    BY <1>1, <2>1, <2>2, <2>3, SameOperators DEF Lists!PutInst, Lists!IsPlaced, Order, Body
  <2> QED BY <2>1, <2>4 DEF Lists!ListNext
<1> QED BY <1>5, <1>6

(* A node is taken out of one.                                             *)
LEMMA TakesImplement ==
  ASSUME ListInv, stage = "build", stage' = "build", NEW o, NEW n, Takes(o, n)
  PROVE  Lists!ListNext
<1>1. o \in Owners /\ o \notin broken /\ n \in Members(o) /\ broken' = broken
  BY DEF Takes
<1>2. /\ \E k \in DOMAIN Whole(o) : Whole(o)[k] = n /\ Whole(o)' = RemoveAt(Whole(o), k)
      /\ \A x \in Owners : x # o => Whole(x)' = Whole(x)
  <2>1. Whole(o) = Walk(o) /\ Whole(o)' = Walk(o)'
    BY <1>1 DEF Whole
  <2> QED BY <1>1, <2>1, TakesKeeps, WholeKept
<1>3. PICK k \in DOMAIN Whole(o) : Whole(o)[k] = n /\ Whole(o)' = RemoveAt(Whole(o), k)
  BY <1>2
<1>4. CASE o = Func
  <2>1. Body' = Body /\ n \in Blocks
    BY <1>1, <1>2, <1>4, NodesAre DEF Body
  <2>2. Lists!TakeBlock(n)
    BY <1>1, <1>3, <1>4, <2>1, SameOperators DEF Lists!TakeBlock, Order, Body
  <2> QED BY <2>1, <2>2 DEF Lists!ListNext
<1>5. CASE o # Func
  <2>1. Order' = Order /\ n \in Insts /\ o \in Blocks
    BY <1>1, <1>2, <1>5, NodesAre DEF Order, Owners, Members
  <2>2. Body[o] = Whole(o) /\ Body' = [Body EXCEPT ![o] = RemoveAt(@, k)]
    BY <1>2, <1>3, <2>1, NodesAre DEF Body
  <2>3. Lists!TakeInst(o, n)
    BY <1>1, <1>3, <2>1, <2>2, SameOperators DEF Lists!TakeInst, Order, Body
  <2> QED BY <2>1, <2>3 DEF Lists!ListNext
<1> QED BY <1>4, <1>5

(* Or one is lost, if it was not already.                                  *)
LEMMA SpoilsImplement ==
  ASSUME ListInv, stage = "build", stage' = "build",
         NEW o, NEW n \in Nodes, NEW p, Spoils(o, n, p)
  PROVE  Lists!ListNext \/ UNCHANGED <<Order, Body, broken>>
<1>1. o \in Owners \union {None} /\ broken' = broken \union ({o} \ {None}) /\ None \notin Owners
  BY NodesAre DEF Spoils
<1>2. \A x \in Owners : x # o => Whole(x)' = Whole(x)
  <2> SUFFICES ASSUME NEW x \in Owners, x # o PROVE Whole(x)' = Whole(x)
    OBVIOUS
  <2>1. x \in broken' <=> x \in broken
    BY <1>1
  <2>2. x \notin broken => Walk(x)' = Walk(x)
    BY <2>1, SpoilsKeeps
  <2> QED BY <2>1, <2>2, WholeKept
<1>3. o \in broken' => Whole(o)' = << >>
  BY DEF Whole
<1>4. CASE o = None \/ o \in broken
  <2>1. broken' = broken
    BY <1>1, <1>4
  <2>2. \A x \in Owners : Whole(x)' = Whole(x)
    <3>1. o \in broken => Whole(o) = << >>
      BY DEF Whole
    <3> QED BY <1>1, <1>2, <1>3, <1>4, <2>1, <3>1
  <2> QED BY <2>1, <2>2, NodesAre DEF Order, Body
<1>5. CASE o = Func
  <2>1. Whole(Func)' = << >> /\ broken' = broken \union {Func}
    BY <1>1, <1>3, <1>5, NodesAre
  <2>2. Body' = Body
    BY <1>2, <1>5, NodesAre DEF Body
  <2>3. Lists!LoseBlocks
    BY <2>1, <2>2 DEF Lists!LoseBlocks, Body
  <2> QED BY <2>3 DEF Lists!ListNext
<1>6. CASE o \in Blocks
  <2>1. Whole(o)' = << >> /\ broken' = broken \union {o}
    BY <1>1, <1>3, <1>6, NodesAre
  <2>2. Order' = Order
    BY <1>2, <1>6, NodesAre DEF Order
  <2>3. Body' = [Body EXCEPT ![o] = << >>]
    BY <1>2, <1>6, <2>1, NodesAre DEF Body
  <2>4. Lists!LoseInsts(o)
    BY <2>1, <2>2, <2>3 DEF Lists!LoseInsts, Order, Body
  <2> QED BY <1>6, <2>4 DEF Lists!ListNext
<1> QED BY <1>1, <1>4, <1>5, <1>6 DEF Owners

(* An edit is one change of one sequence, or of none.                      *)
LEMMA EditsImplement ==
  ASSUME ListInv, Edits, stage = "build", stage' = "build"
  PROVE  [Lists!ListNext]_<<Order, Body, broken>>
<1>1. CASE UNCHANGED listVars
  <2>1. \A o \in Owners : Whole(o)' = Whole(o)
    BY <1>1 DEF Whole, Walk, listVars
  <2> QED BY <1>1, <2>1, NodesAre DEF Order, Body, listVars
<1> QED BY <1>1, PutsImplement, TakesImplement, SpoilsImplement DEF Edits, Adds

(* Every step is one of the lists', or none.                               *)
LEMMA NextLists ==
  ASSUME BuildInv, [Next]_vars
  PROVE  [Lists!ListNext]_<<Order, Body, broken>>
<1>1. CASE stage = "build" /\ stage' = "build"
  BY <1>1, NextEdits, EditsImplement DEF BuildInv
<1>2. CASE stage' # "build"
  <2>1. Order' = << >> /\ Body' = [b \in Blocks |-> << >>]
    BY <1>2 DEF Order, Body, Whole
  <2>2. broken' = broken
    BY <1>2, BrokenStays
  <2>3. Lists!Clear
    BY <2>1, <2>2 DEF Lists!Clear, Lists!Nothing, Order, Body
  <2> QED BY <2>3 DEF Lists!ListNext
<1>3. CASE stage # "build"
  BY <1>2, <1>3, StageStays
<1> QED BY <1>1, <1>2, <1>3

(* The links implement sequences in which every edit has one place, until  *)
(* the destruction empties them, or the sequence is lost.                  *)
THEOREM GraphImplementsLists == Spec => ImplementsGraphLists
<1>1. BuildInv /\ [Next]_vars => [Lists!ListNext]_<<Order, Body, broken>>
  BY NextLists
<1>2. BuildInv /\ [Next]_vars => [Lists!ListNext]_(Lists!listVars)
  BY <1>1 DEF Lists!listVars, Order, Body
<1> QED
  BY <1>2, InitLists, BuildCorrect, PTL DEF Spec, ImplementsGraphLists, Lists!ListSpec

-----------------------------------------------------------------------------
(* Uses.                                                                   *)

(* The pair <<i, k>> is a use by an instruction that is there of v.        *)
IsUse(i, k, v) ==
  /\ i \in created \ freed
  /\ k \in DOMAIN m_operands[i]
  /\ m_operands[i][k] = v

UseType ==
  /\ m_operands \in [Insts -> Seq(Values)]
  /\ m_uses \in [Values -> Seq(Insts \X Nat)]
  /\ created \subseteq Insts

(* UsesExact, by pairs.                                                    *)
UsesListed ==
  \A v \in Values \ freed :
    /\ IsInjective(m_uses[v])
    /\ \A i \in Insts, k \in Nat : <<i, k>> \in ToSet(m_uses[v]) <=> IsUse(i, k, v)

(* The loop of the destructor is at a block, if at anything.               *)
AtBlocks ==
  stage # "build" =>
    /\ atBlock \in Blocks \union {None}
    /\ DOMAIN m_next = Nodes
    /\ \A b \in Blocks : m_next[b] \in Blocks \union {None}

UsesInv ==
  /\ UseType
  /\ UsesListed
  /\ AtBlocks
  /\ stage = "build" => freed = {}

(* What is listed by pairs is listed.                                      *)
LEMMA ListedExact == UseType /\ UsesListed => UsesExact
<1> SUFFICES ASSUME UseType, UsesListed, NEW v \in Values \ freed
             PROVE  ToSet(m_uses[v]) = {u \in UsesOf(created \ freed) : m_operands[u[1]][u[2]] = v}
  BY DEF UsesExact, UsesListed
<1> DEFINE exact == {u \in UsesOf(created \ freed) : m_operands[u[1]][u[2]] = v}
<1>1. \A i \in Insts : DOMAIN m_operands[i] \subseteq Nat
  BY DEF UseType
<1>2. \A u : u \in exact <=> \E i \in Insts, k \in Nat : u = <<i, k>> /\ IsUse(i, k, v)
  BY <1>1 DEF UsesOf, IsUse, UseType
<1>3. \A u \in ToSet(m_uses[v]) : \E i \in Insts, k \in Nat : u = <<i, k>>
  BY DEF ToSet, UseType
<1> HIDE DEF exact
<1>4. ToSet(m_uses[v]) = exact
  BY <1>2, <1>3 DEF UsesListed
<1> QED BY <1>4 DEF exact

(* Two lists of different things, one after the other.                     *)
LEMMA ConcatIs ==
  ASSUME NEW S, NEW s \in Seq(S), NEW t \in Seq(S), ToSet(s) \intersect ToSet(t) = {}
  PROVE  /\ s \o t \in Seq(S)
         /\ ToSet(s \o t) = ToSet(s) \union ToSet(t)
         /\ IsInjective(s) /\ IsInjective(t) => IsInjective(s \o t)
<1> DEFINE m == Len(s)
           n == Len(t)
           st == s \o t
<1>1. /\ m \in Nat /\ n \in Nat /\ DOMAIN s = 1 .. m /\ DOMAIN t = 1 .. n
      /\ st \in Seq(S) /\ DOMAIN st = 1 .. (m + n)
      /\ \A k \in 1 .. (m + n) : st[k] = IF k <= m THEN s[k] ELSE t[k - m]
  OBVIOUS
<1> HIDE DEF m, n, st
<1>2. \A k \in 1 .. n : k + m \in 1 .. (m + n) /\ st[k + m] = t[k]
  BY <1>1
<1>3. \A k \in 1 .. m : k \in 1 .. (m + n) /\ st[k] = s[k]
  BY <1>1
<1>4. \A k \in 1 .. (m + n) : k \in 1 .. m \/ k - m \in 1 .. n
  BY <1>1
<1>5. ToSet(st) = ToSet(s) \union ToSet(t)
  <2>1. ASSUME NEW k \in 1 .. (m + n) PROVE st[k] \in ToSet(s) \union ToSet(t)
    <3>1. CASE k \in 1 .. m
      BY <1>1, <1>3, <3>1 DEF ToSet
    <3>2. CASE k - m \in 1 .. n
      <4>1. st[(k - m) + m] = t[k - m] /\ (k - m) + m = k
        BY <1>1, <1>2, <3>2
      <4> QED BY <1>1, <3>2, <4>1 DEF ToSet
    <3> QED BY <1>4, <3>1, <3>2
  <2>2. ToSet(st) \subseteq ToSet(s) \union ToSet(t)
    BY <1>1, <2>1 DEF ToSet
  <2>3. ToSet(s) \subseteq ToSet(st)
    BY <1>1, <1>3 DEF ToSet
  <2>4. ToSet(t) \subseteq ToSet(st)
    BY <1>1, <1>2 DEF ToSet
  <2> QED BY <2>2, <2>3, <2>4
<1>6. ASSUME IsInjective(s), IsInjective(t), NEW j \in 1 .. (m + n), NEW k \in 1 .. (m + n),
             st[j] = st[k]
      PROVE  j = k
  <2>1. CASE j <= m /\ k <= m
    BY <1>1, <1>6, <2>1 DEF IsInjective
  <2>2. CASE ~(j <= m) /\ ~(k <= m)
    <3>1. j - m \in 1 .. n /\ k - m \in 1 .. n /\ t[j - m] = t[k - m]
      BY <1>1, <1>6, <2>2
    <3>2. j - m = k - m
      BY <1>1, <1>6, <3>1 DEF IsInjective
    <3> QED BY <1>1, <3>2
  <2>3. \A a \in 1 .. m, c \in 1 .. n : s[a] # t[c]
    BY <1>1 DEF ToSet
  <2>4. CASE j <= m /\ ~(k <= m)
    <3>1. j \in 1 .. m /\ k - m \in 1 .. n /\ s[j] = t[k - m]
      BY <1>1, <1>6, <2>4
    <3> QED BY <2>3, <3>1
  <2>5. CASE ~(j <= m) /\ k <= m
    <3>1. k \in 1 .. m /\ j - m \in 1 .. n /\ s[k] = t[j - m]
      BY <1>1, <1>6, <2>5
    <3> QED BY <2>3, <3>1
  <2>6. (j <= m \/ ~(j <= m)) /\ (k <= m \/ ~(k <= m))
    OBVIOUS
  <2> QED BY <2>1, <2>2, <2>4, <2>5, <2>6
<1>7. IsInjective(s) /\ IsInjective(t) => IsInjective(st)
  BY <1>1, <1>6 DEF IsInjective
<1> QED BY <1>1, <1>5, <1>7 DEF st

(* The uses that a new user adds to those of a value.                      *)
LEMMA UsesInIs ==
  ASSUME NEW i \in Insts, NEW ops \in Seq(Values), NEW v
  PROVE  LET new == Without(UsesIn(i, ops), {<<i, k>> : k \in {k \in DOMAIN ops : ops[k] # v}})
         IN  /\ new \in Seq(Insts \X Nat)
             /\ IsInjective(new)
             /\ ToSet(new) = {<<i, k>> : k \in {k \in DOMAIN ops : ops[k] = v}}
<1> DEFINE all == UsesIn(i, ops)
           gone == {<<i, k>> : k \in {k \in DOMAIN ops : ops[k] # v}}
<1>1. all \in Seq(Insts \X Nat) /\ Len(all) = Len(ops) /\ DOMAIN ops = 1 .. Len(ops)
  BY DEF UsesIn
<1>2. \A k \in DOMAIN ops : all[k] = <<i, k>>
  BY DEF UsesIn
<1>3. DOMAIN all = DOMAIN ops
  BY DEF UsesIn
<1>4. ToSet(all) = {<<i, k>> : k \in DOMAIN ops} /\ IsInjective(all)
  <2> HIDE DEF all
  <2>1. ToSet(all) = {<<i, k>> : k \in DOMAIN ops}
    BY <1>2, <1>3 DEF ToSet
  <2>2. ASSUME NEW j \in DOMAIN ops, NEW k \in DOMAIN ops, all[j] = all[k] PROVE j = k
    BY <1>2, <2>2
  <2>3. IsInjective(all)
    BY <1>3, <2>2 DEF IsInjective
  <2> QED BY <2>1, <2>3
<1>5. ToSet(all) \ gone = {<<i, k>> : k \in {k \in DOMAIN ops : ops[k] = v}}
  <2> HIDE DEF all
  <2> QED BY <1>4
<1>6. /\ Without(all, gone) \in Seq(Insts \X Nat)
      /\ ToSet(Without(all, gone)) = ToSet(all) \ gone
      /\ IsInjective(Without(all, gone))
  <2> HIDE DEF all, gone
  <2> QED BY <1>1, <1>4, WithoutIs
<1> QED BY <1>5, <1>6

(* One thing more at the end of a list.                                    *)
LEMMA ExtendIs ==
  ASSUME NEW S, NEW s \in Seq(S), NEW e \in S, e \notin ToSet(s)
  PROVE  /\ Append(s, e) \in Seq(S)
         /\ ToSet(Append(s, e)) = ToSet(s) \union {e}
         /\ IsInjective(s) => IsInjective(Append(s, e))
<1>1. Append(s, e) = s \o <<e>>
  OBVIOUS
<1>2. <<e>> \in Seq(S) /\ ToSet(<<e>>) = {e} /\ IsInjective(<<e>>)
  BY DEF ToSet, IsInjective
<1>3. ToSet(s) \intersect ToSet(<<e>>) = {}
  BY <1>2
<1> DEFINE one == <<e>>
<1>4. one \in Seq(S) /\ ToSet(one) = {e} /\ IsInjective(one) /\ Append(s, e) = s \o one
  BY <1>1, <1>2
<1> HIDE DEF one
<1> QED BY <1>3, <1>4, ConcatIs

(* A new instruction is a user of its operands.                            *)
LEMMA NewListed ==
  ASSUME UseType, UsesListed, freed = {}, NEW i \in Insts, NEW ops \in Shapes[i],
         NewInst(i, ops), UNCHANGED freed
  PROVE  UseType' /\ UsesListed'
<1> DEFINE there == Without(ops, {None})
           new(v) == Without(UsesIn(i, there),
                             {<<i, k>> : k \in {k \in DOMAIN there : there[k] # v}})
<1>1. there \in Seq(Values)
  <2>1. ops \in Seq(Values \union {None})
    BY GraphAssumption
  <2>2. there \in Seq(Values \union {None}) /\ ToSet(there) = ToSet(ops) \ {None}
    BY <2>1, WithoutIs
  <2>3. ToSet(ops) \ {None} \subseteq Values
    BY <2>1 DEF ToSet
  <2> HIDE DEF there
  <2>4. \A k \in 1 .. Len(there) : there[k] \in Values
    BY <2>2, <2>3 DEF ToSet
  <2> QED BY <2>2, <2>4
<1>2. /\ i \notin created /\ created' = created \union {i}
      /\ m_operands' = [m_operands EXCEPT ![i] = there]
      /\ m_uses' = UsedBy(m_uses, i, there)
  BY DEF NewInst
<1>3. m_uses' = [v \in Values |-> m_uses[v] \o new(v)]
  BY <1>2 DEF UsedBy, UseType
<1> HIDE DEF there
<1>4. ASSUME NEW v \in Values
      PROVE  /\ new(v) \in Seq(Insts \X Nat) /\ IsInjective(new(v))
             /\ ToSet(new(v)) = {<<i, k>> : k \in {k \in DOMAIN there : there[k] = v}}
  BY <1>1, UsesInIs
<1> HIDE DEF new
<1>5. ASSUME NEW v \in Values
      PROVE  /\ m_uses'[v] \in Seq(Insts \X Nat) /\ IsInjective(m_uses'[v])
             /\ ToSet(m_uses'[v]) = ToSet(m_uses[v]) \union ToSet(new(v))
  <2>1. m_uses[v] \in Seq(Insts \X Nat) /\ IsInjective(m_uses[v])
    BY DEF UseType, UsesListed
  <2>2. \A k \in Nat : <<i, k>> \notin ToSet(m_uses[v])
    BY <1>2 DEF UsesListed, IsUse
  <2>3. DOMAIN there \subseteq Nat
    BY <1>1
  <2>4. ToSet(m_uses[v]) \intersect ToSet(new(v)) = {}
    BY <1>4, <2>2, <2>3
  <2>5. m_uses'[v] = m_uses[v] \o new(v)
    BY <1>3
  <2> QED BY <1>4, <2>1, <2>4, <2>5, ConcatIs
<1>6. UseType'
  <2>1. m_uses' \in [Values -> Seq(Insts \X Nat)]
    BY <1>3, <1>5
  <2> QED BY <1>1, <1>2, <2>1 DEF UseType
<1>7. ASSUME NEW v \in Values, NEW j \in Insts, NEW k \in Nat
      PROVE  <<j, k>> \in ToSet(m_uses'[v]) <=> IsUse(j, k, v)'
  <2>1. <<j, k>> \in ToSet(m_uses[v]) <=> IsUse(j, k, v)
    BY DEF UsesListed
  <2>2. <<j, k>> \in ToSet(new(v)) <=> j = i /\ k \in DOMAIN there /\ there[k] = v
    BY <1>4
  <2>3. CASE j = i
    <3>1. IsUse(j, k, v)' <=> k \in DOMAIN there /\ there[k] = v
      BY <1>2, <2>3 DEF IsUse, UseType
    <3>2. ~IsUse(j, k, v)
      BY <1>2, <2>3 DEF IsUse
    <3> QED BY <1>5, <2>1, <2>2, <2>3, <3>1, <3>2
  <2>4. CASE j # i
    <3>1. IsUse(j, k, v)' <=> IsUse(j, k, v)
      BY <1>2, <2>4 DEF IsUse, UseType
    <3> QED BY <1>5, <2>1, <2>2, <2>4, <3>1
  <2> QED BY <2>3, <2>4
<1> QED BY <1>5, <1>6, <1>7 DEF UsesListed

(* One operand more is one use more.                                       *)
LEMMA AddListed ==
  ASSUME UseType, UsesListed, freed = {}, NEW i \in Insts, NEW v \in Values, AddOperand(i, v)
  PROVE  UseType' /\ UsesListed'
<1> DEFINE n == Len(m_operands[i])
           u == <<i, n + 1>>
<1>1. /\ i \in created /\ UNCHANGED <<created, freed>>
      /\ m_operands' = [m_operands EXCEPT ![i] = Append(@, v)]
      /\ m_uses' = [m_uses EXCEPT ![v] = Append(@, u)]
  BY DEF AddOperand, EditUses, endVars
<1>2. m_operands[i] \in Seq(Values) /\ n \in Nat /\ DOMAIN m_operands[i] = 1 .. n
  BY DEF UseType
<1>3. m_operands'[i] = Append(m_operands[i], v)
  BY <1>1 DEF UseType
<1> HIDE DEF n
<1>4. u \in Insts \X Nat /\ u \notin ToSet(m_uses[v])
  BY <1>2 DEF UsesListed, IsUse
<1>5. DOMAIN m_operands'[i] = 1 .. (n + 1)
      /\ \A k \in 1 .. (n + 1) : m_operands'[i][k] = IF k = n + 1 THEN v ELSE m_operands[i][k]
  BY <1>2, <1>3 DEF n
<1>6. m_uses[v] \in Seq(Insts \X Nat) /\ IsInjective(m_uses[v])
  BY DEF UseType, UsesListed
<1>7. /\ Append(m_uses[v], u) \in Seq(Insts \X Nat)
      /\ ToSet(Append(m_uses[v], u)) = ToSet(m_uses[v]) \union {u}
      /\ IsInjective(Append(m_uses[v], u))
  BY <1>4, <1>6, ExtendIs
<1>8. /\ m_uses'[v] = Append(m_uses[v], u)
      /\ \A x \in Values : x # v => m_uses'[x] = m_uses[x]
  BY <1>1 DEF UseType
<1>9. UseType'
  <2>1. m_uses' \in [Values -> Seq(Insts \X Nat)]
    BY <1>1, <1>7 DEF UseType
  <2>2. m_operands' \in [Insts -> Seq(Values)]
    BY <1>1, <1>2 DEF UseType
  <2> QED BY <1>1, <2>1, <2>2 DEF UseType
<1>10. ASSUME NEW x \in Values, NEW j \in Insts, NEW k \in Nat
       PROVE  <<j, k>> \in ToSet(m_uses'[x]) <=> IsUse(j, k, x)'
  <2>1. <<j, k>> \in ToSet(m_uses[x]) <=> IsUse(j, k, x)
    BY DEF UsesListed
  <2>2. <<j, k>> \in ToSet(m_uses'[x]) <=> IsUse(j, k, x) \/ (x = v /\ j = i /\ k = n + 1)
    <3>1. <<j, k>> = u <=> j = i /\ k = n + 1
      OBVIOUS
    <3>2. CASE x = v
      <4> HIDE DEF u
      <4> QED BY <1>7, <1>8, <2>1, <3>1, <3>2
    <3>3. CASE x # v
      BY <1>8, <2>1, <3>3
    <3> QED BY <3>2, <3>3
  <2>3. CASE j # i
    <3>1. m_operands'[j] = m_operands[j]
      BY <1>1, <2>3 DEF UseType
    <3>2. IsUse(j, k, x)' <=> IsUse(j, k, x)
      BY <1>1, <3>1 DEF IsUse
    <3> QED BY <2>2, <2>3, <3>2
  <2>4. CASE j = i
    <3>1. IsUse(j, k, x)' <=> k \in 1 .. (n + 1) /\ m_operands'[i][k] = x
      BY <1>1, <1>5, <2>4 DEF IsUse
    <3>2. IsUse(j, k, x) <=> k \in 1 .. n /\ m_operands[i][k] = x
      BY <1>1, <1>2, <2>4 DEF IsUse
    <3> QED BY <1>2, <1>5, <2>2, <2>4, <3>1, <3>2
  <2> QED BY <2>3, <2>4
<1> QED BY <1>1, <1>6, <1>7, <1>8, <1>9, <1>10 DEF UsesListed

(* A use that is moved from v to w is a use of w, and not of v any more.   *)
LEMMA MoveListed ==
  ASSUME UseType, UsesListed, freed = {}, NEW v \in Values, NEW w \in Values, NEW moved,
         moved \in Seq(Insts \X Nat), IsInjective(moved), ToSet(moved) \subseteq ToSet(m_uses[v]),
         SetValue(moved, v, w), UNCHANGED <<created, freed>>
  PROVE  UseType' /\ UsesListed'
<1>1. m_uses' = UsesMoved(m_uses, moved, v, w)
  BY DEF SetValue
<1>2. ASSUME NEW i \in Insts
      PROVE  /\ DOMAIN m_operands'[i] = DOMAIN m_operands[i]
             /\ \A k \in DOMAIN m_operands[i] :
                  m_operands'[i][k] = IF <<i, k>> \in ToSet(moved) THEN w ELSE m_operands[i][k]
  <2>1. m_operands'[i] = [k \in DOMAIN m_operands[i] |->
                            IF Contains(moved, <<i, k>>) THEN w ELSE m_operands[i][k]]
    BY DEF SetValue
  <2>2. \A u : Contains(moved, u) <=> u \in ToSet(moved)
    BY DEF Contains, ToSet
  <2> QED BY <2>1, <2>2
<1>3. m_operands' \in [Insts -> Seq(Values)]
  <2>1. ASSUME NEW i \in Insts PROVE m_operands'[i] \in Seq(Values)
    <3> DEFINE f == [k \in DOMAIN m_operands[i] |->
                       IF Contains(moved, <<i, k>>) THEN w ELSE m_operands[i][k]]
               n == Len(m_operands[i])
    <3>1. m_operands'[i] = f
      BY DEF SetValue
    <3>2. /\ n \in Nat /\ DOMAIN m_operands[i] = 1 .. n
          /\ \A k \in 1 .. n : m_operands[i][k] \in Values
      BY DEF UseType
    <3> HIDE DEF n
    <3>3. f \in [1 .. n -> Values]
      BY <3>2
    <3> HIDE DEF f
    <3> QED BY <3>1, <3>2, <3>3
  <2>2. m_operands' = [i \in Insts |-> m_operands'[i]]
    BY DEF SetValue
  <2> QED BY <2>1, <2>2
<1>4. \A u \in ToSet(moved) : \E i \in Insts, k \in Nat : u = <<i, k>> /\ IsUse(i, k, v)
  <2>1. \A u \in ToSet(moved) : u \in Insts \X Nat
    BY DEF ToSet
  <2> QED BY <2>1 DEF UsesListed
<1>5. \A x \in Values : m_uses[x] \in Seq(Insts \X Nat) /\ IsInjective(m_uses[x])
  BY DEF UseType, UsesListed
<1>6. \A x \in Values, i \in Insts, k \in Nat :
        <<i, k>> \in ToSet(m_uses[x]) <=> IsUse(i, k, x)
  BY DEF UsesListed
<1>7. \A x \in Values, i \in Insts, k \in Nat :
        IsUse(i, k, x)' <=> IF <<i, k>> \in ToSet(moved) THEN x = w ELSE IsUse(i, k, x)
  <2> SUFFICES ASSUME NEW x \in Values, NEW i \in Insts, NEW k \in Nat
               PROVE  IsUse(i, k, x)' <=> IF <<i, k>> \in ToSet(moved) THEN x = w
                                          ELSE IsUse(i, k, x)
    OBVIOUS
  <2>1. CASE <<i, k>> \in ToSet(moved)
    <3>1. IsUse(i, k, v)
      BY <1>4, <2>1
    <3> QED BY <1>2, <2>1, <3>1 DEF IsUse
  <2>2. CASE <<i, k>> \notin ToSet(moved)
    BY <1>2, <2>2 DEF IsUse
  <2> QED BY <2>1, <2>2
<1>8. CASE v = w
  <2>1. m_uses' = m_uses
    BY <1>1, <1>8 DEF UsesMoved
  <2>2. \A x \in Values, i \in Insts, k \in Nat : IsUse(i, k, x)' <=> IsUse(i, k, x)
    <3> SUFFICES ASSUME NEW x \in Values, NEW i \in Insts, NEW k \in Nat,
                        <<i, k>> \in ToSet(moved)
                 PROVE  IsUse(i, k, x) <=> x = w
      BY <1>7
    <3> QED BY <1>4, <1>8 DEF IsUse
  <2> QED BY <1>3, <1>5, <1>6, <2>1, <2>2 DEF UseType, UsesListed
<1>9. CASE v # w
  <2> DEFINE less == Without(m_uses[v], ToSet(moved))
             more == m_uses[w] \o moved
  <2>1. m_uses' = [m_uses EXCEPT ![v] = less, ![w] = more]
    BY <1>1, <1>9 DEF UsesMoved
  <2>2. /\ less \in Seq(Insts \X Nat) /\ IsInjective(less)
        /\ ToSet(less) = ToSet(m_uses[v]) \ ToSet(moved)
    BY <1>5, WithoutIs
  <2>3. ToSet(m_uses[w]) \intersect ToSet(moved) = {}
    BY <1>4, <1>6, <1>9 DEF IsUse
  <2>4. /\ more \in Seq(Insts \X Nat) /\ IsInjective(more)
        /\ ToSet(more) = ToSet(m_uses[w]) \union ToSet(moved)
    BY <1>5, <2>3, ConcatIs
  <2> HIDE DEF less, more
  <2>5. /\ m_uses'[v] = less /\ m_uses'[w] = more
        /\ \A x \in Values : x # v /\ x # w => m_uses'[x] = m_uses[x]
    BY <1>9, <2>1 DEF UseType
  <2>6. UseType'
    <3>1. m_uses' \in [Values -> Seq(Insts \X Nat)]
      BY <2>1, <2>2, <2>4 DEF UseType
    <3> QED BY <1>3, <3>1 DEF UseType
  <2>7. ASSUME NEW x \in Values, NEW i \in Insts, NEW k \in Nat
        PROVE  <<i, k>> \in ToSet(m_uses'[x]) <=> IsUse(i, k, x)'
    <3>1. IsUse(i, k, x)' <=> IF <<i, k>> \in ToSet(moved) THEN x = w ELSE IsUse(i, k, x)
      BY <1>7
    <3>2. <<i, k>> \in ToSet(m_uses[x]) <=> IsUse(i, k, x)
      BY <1>6
    <3>3. <<i, k>> \in ToSet(moved) => IsUse(i, k, v)
      BY <1>4
    <3>4. CASE x = v
      BY <1>9, <2>2, <2>5, <3>1, <3>2, <3>4
    <3>5. CASE x = w
      BY <1>9, <2>4, <2>5, <3>1, <3>2, <3>5
    <3>6. CASE x # v /\ x # w
      BY <2>5, <3>1, <3>2, <3>3, <3>6 DEF IsUse
    <3> QED BY <3>4, <3>5, <3>6
  <2>8. \A x \in Values : IsInjective(m_uses'[x])
    BY <1>5, <2>2, <2>4, <2>5
  <2> QED BY <2>6, <2>7, <2>8 DEF UsesListed
<1> QED BY <1>8, <1>9

(* What is freed is no use's user, unless the instruction itself was.      *)
LEMMA FreedListed ==
  ASSUME UseType, UsesListed, UNCHANGED <<m_operands, m_uses, created>>,
         freed \subseteq freed', created \intersect (freed' \ freed) = {}
  PROVE  UseType' /\ UsesListed'
<1>1. \A v : \A i \in Insts, k \in Nat : IsUse(i, k, v)' <=> IsUse(i, k, v)
  BY DEF IsUse
<1> QED BY <1>1 DEF UseType, UsesListed

(* An instruction that is destroyed takes its uses with it.                *)
LEMMA DestroyListed ==
  ASSUME UseType, UsesListed, DestroyInst
  PROVE  UseType' /\ UsesListed'
<1> DEFINE uses == {atInst} \X DOMAIN m_operands[atInst]
<1>1. /\ m_uses' = [v \in Values |-> IF v \in freed THEN m_uses[v] ELSE Without(m_uses[v], uses)]
      /\ freed' = freed \union {atInst}
      /\ UNCHANGED <<m_operands, created>>
  BY DEF DestroyInst
<1> HIDE DEF uses
<1>2. ASSUME NEW v \in Values
      PROVE  /\ Without(m_uses[v], uses) \in Seq(Insts \X Nat)
             /\ ToSet(Without(m_uses[v], uses)) = ToSet(m_uses[v]) \ uses
             /\ IsInjective(m_uses[v]) => IsInjective(Without(m_uses[v], uses))
  <2>1. m_uses[v] \in Seq(Insts \X Nat)
    BY DEF UseType
  <2> QED BY <2>1, WithoutIs
<1>3. UseType'
  <2>1. m_uses' \in [Values -> Seq(Insts \X Nat)]
    BY <1>1, <1>2 DEF UseType
  <2> QED BY <1>1, <2>1 DEF UseType
<1>4. ASSUME NEW v \in Values \ freed'
      PROVE  /\ v \in Values \ freed
             /\ m_uses'[v] = Without(m_uses[v], uses)
  BY <1>1
<1>5. ASSUME NEW v \in Values \ freed', NEW i \in Insts, NEW k \in Nat
      PROVE  <<i, k>> \in ToSet(m_uses'[v]) <=> IsUse(i, k, v)'
  <2>1. <<i, k>> \in ToSet(m_uses[v]) <=> IsUse(i, k, v)
    BY <1>4 DEF UsesListed
  <2>2. <<i, k>> \in ToSet(m_uses'[v]) <=> IsUse(i, k, v) /\ <<i, k>> \notin uses
    BY <1>2, <1>4, <2>1
  <2>3. <<i, k>> \in uses <=> i = atInst /\ k \in DOMAIN m_operands[i]
    BY DEF uses
  <2>4. IsUse(i, k, v)' <=> IsUse(i, k, v) /\ i # atInst
    BY <1>1 DEF IsUse
  <2> QED BY <2>2, <2>3, <2>4 DEF IsUse
<1>6. \A v \in Values \ freed' : IsInjective(m_uses'[v])
  BY <1>2, <1>4 DEF UsesListed
<1> QED BY <1>3, <1>5, <1>6 DEF UsesListed

(* The links of the blocks lead to blocks, from the function on.           *)
LEMMA BlocksLinked ==
  ASSUME ListInv
  PROVE  /\ m_head[Func] \in Blocks \union {None}
         /\ DOMAIN m_next = Nodes
         /\ \A b \in Blocks : m_next[b] \in Blocks \union {None}
BY DEF ListInv, LinkType, Kinds, Closed

(* There are no uses to begin with.                                        *)
LEMMA InitUses == Init => UsesInv
<1> SUFFICES ASSUME Init PROVE UsesInv
  OBVIOUS
<1>1. UseType /\ AtBlocks /\ freed = {}
  BY DEF Init, UseType, AtBlocks
<1>2. \A v \in Values : ToSet(m_uses[v]) = {} /\ IsInjective(m_uses[v])
  BY DEF Init, ToSet, IsInjective
<1>3. \A v : \A i \in Insts, k \in Nat : ~IsUse(i, k, v)
  BY DEF Init, IsUse
<1> QED BY <1>1, <1>2, <1>3 DEF UsesInv, UsesListed

(* Values and users agree after every step.                                *)
LEMMA NextUses ==
  ASSUME UsesInv, BuildInv, [Next]_vars PROVE UsesInv'
<1>1. UseType /\ UsesListed /\ AtBlocks /\ (stage = "build" => freed = {})
  BY DEF UsesInv
<1>2. CASE Place \/ Detach
  <2>1. stage = "build" /\ UNCHANGED <<m_operands, m_uses, created, stage, freed>>
    BY <1>2 DEF Place, Detach, EditLists, useVars, endVars
  <2>2. UseType' /\ UsesListed'
    BY <1>1, <2>1, FreedListed
  <2> QED BY <1>1, <2>1, <2>2 DEF UsesInv, AtBlocks
<1>3. ASSUME NEW i \in Insts, NEW ops \in Shapes[i], BuildInst(i, ops) PROVE UsesInv'
  <2>1. stage = "build" /\ NewInst(i, ops) /\ UNCHANGED <<stage, freed>>
    BY <1>3 DEF BuildInst, endVars
  <2>2. UseType' /\ UsesListed'
    BY <1>1, <2>1, NewListed
  <2> QED BY <1>1, <2>1, <2>2 DEF UsesInv, AtBlocks
<1>4. ASSUME NEW i \in Insts, NEW v \in Values, AddOperand(i, v) PROVE UsesInv'
  <2>1. stage = "build" /\ UNCHANGED <<stage, freed>>
    BY <1>4 DEF AddOperand, EditUses, endVars
  <2>2. UseType' /\ UsesListed'
    BY <1>1, <1>4, <2>1, AddListed
  <2> QED BY <1>1, <2>1, <2>2 DEF UsesInv, AtBlocks
<1>5. CASE Rewire
  <2>1. stage = "build" /\ UNCHANGED <<stage, freed, created>>
    BY <1>5 DEF Rewire, EditUses, endVars
  <2>2. PICK v \in Values, w \in Values :
          \/ ReplaceAllUsesWith(v, w)
          \/ \E k \in DOMAIN m_uses[v] : SetValue(<<m_uses[v][k]>>, v, w)
    BY <1>5 DEF Rewire
  <2>3. m_uses[v] \in Seq(Insts \X Nat) /\ IsInjective(m_uses[v])
    BY <1>1, <2>1 DEF UseType, UsesListed
  <2>4. CASE ReplaceAllUsesWith(v, w)
    <3>1. SetValue(m_uses[v], v, w)
      BY <2>4 DEF ReplaceAllUsesWith
    <3> QED BY <1>1, <2>1, <2>3, <3>1, MoveListed DEF UsesInv, AtBlocks
  <2>5. ASSUME NEW k \in DOMAIN m_uses[v], SetValue(<<m_uses[v][k]>>, v, w) PROVE UsesInv'
    <3> DEFINE one == <<m_uses[v][k]>>
    <3>1. one \in Seq(Insts \X Nat) /\ IsInjective(one) /\ ToSet(one) \subseteq ToSet(m_uses[v])
      BY <2>3 DEF IsInjective, ToSet
    <3>2. SetValue(one, v, w)
      BY <2>5
    <3> HIDE DEF one
    <3> QED BY <1>1, <2>1, <3>1, <3>2, MoveListed DEF UsesInv, AtBlocks
  <2> QED BY <2>2, <2>4, <2>5
<1>6. CASE DestroyFunction
  <2>1. /\ stage = "build" /\ stage' = "blocks" /\ freed' = Globals \union Params
        /\ atBlock' = m_head[Func] /\ UNCHANGED <<m_operands, m_uses, created, m_next>>
    BY <1>6 DEF DestroyFunction, useVars, listVars
  <2>2. created \intersect (Globals \union Params) = {}
    BY <1>1, GraphAssumption DEF UseType
  <2>3. UseType' /\ UsesListed'
    BY <1>1, <2>1, <2>2, FreedListed
  <2>4. AtBlocks'
    BY <2>1, BlocksLinked DEF BuildInv, AtBlocks
  <2> QED BY <2>1, <2>3, <2>4 DEF UsesInv
<1>7. CASE DestroyBlock
  <2>1. /\ stage = "blocks" /\ UNCHANGED stage /\ atBlock # None
        /\ freed' = freed \union {atBlock} \union BlockParams[atBlock]
        /\ atBlock' = m_next[atBlock] /\ m_next' = Set(m_next, atBlock, None)
        /\ UNCHANGED <<m_operands, m_uses, created>>
    BY <1>7 DEF DestroyBlock, useVars
  <2>2. atBlock \in Blocks /\ \A b \in Blocks : m_next[b] \in Blocks \union {None}
    BY <1>1, <2>1 DEF AtBlocks
  <2>3. created \intersect ({atBlock} \union BlockParams[atBlock]) = {}
    BY <1>1, <2>2, GraphAssumption DEF UseType, Values
  <2>4. UseType' /\ UsesListed'
    BY <1>1, <2>1, <2>3, FreedListed
  <2>5. AtBlocks'
    <3>1. DOMAIN m_next = Nodes /\ Blocks \subseteq Nodes
      BY <1>1, <2>1, NodesAre DEF AtBlocks
    <3>2. DOMAIN m_next' = Nodes
      BY <2>1, <3>1 DEF Set
    <3>3. ASSUME NEW b \in Blocks PROVE m_next'[b] \in Blocks \union {None}
      BY <2>1, <2>2, <3>1 DEF Set
    <3> QED BY <2>1, <2>2, <3>2, <3>3 DEF AtBlocks
  <2> QED BY <2>1, <2>4, <2>5 DEF UsesInv
<1>8. CASE DestroyInst
  <2>1. stage = "blocks" /\ UNCHANGED <<stage, atBlock, m_next>>
    BY <1>8 DEF DestroyInst, listVars
  <2>2. UseType' /\ UsesListed'
    BY <1>1, <1>8, DestroyListed
  <2> QED BY <1>1, <2>1, <2>2 DEF UsesInv, AtBlocks
<1>9. CASE DestroyConstants
  <2>1. /\ stage = "blocks" /\ stage' = "gone" /\ freed' = freed \union Constants
        /\ UNCHANGED <<m_operands, m_uses, created, atBlock, m_next>>
    BY <1>9 DEF DestroyConstants, useVars, listVars
  <2>2. created \intersect Constants = {}
    BY <1>1, GraphAssumption DEF UseType
  <2>3. UseType' /\ UsesListed'
    BY <1>1, <2>1, <2>2, FreedListed
  <2> QED BY <1>1, <2>1, <2>3 DEF UsesInv, AtBlocks
<1>10. CASE UNCHANGED vars
  <2>1. UNCHANGED <<m_operands, m_uses, created, stage, freed, atBlock, m_next>>
    BY <1>10 DEF vars, useVars, listVars, endVars
  <2>2. UseType' /\ UsesListed'
    BY <1>1, <2>1, FreedListed
  <2> QED BY <1>1, <2>1, <2>2 DEF UsesInv, AtBlocks
<1> QED BY <1>2, <1>3, <1>4, <1>5, <1>6, <1>7, <1>8, <1>9, <1>10 DEF Next

(* A value that is still there lists every use of it once, and nothing     *)
(* else, while operands are added and replaced and while the graph dies.   *)
THEOREM UsesExactCorrect == Spec => []UsesExact
<1>1. UsesInv /\ BuildInv /\ [Next]_vars => UsesInv'
  BY NextUses
<1>2. UsesInv => UsesExact
  BY ListedExact DEF UsesInv
<1> QED BY <1>1, <1>2, InitUses, BuildCorrect, PTL DEF Spec

-----------------------------------------------------------------------------
(* The destruction.                                                        *)

(* What the lists of instructions were when it began, and still say.       *)
BodyIs(body) ==
  /\ body \in [Blocks -> Seq(Insts)]
  /\ \A b \in Blocks : /\ IsInjective(body[b])
                       /\ \A k \in DOMAIN body[b] : m_next[body[b][k]] = At(body[b], k + 1)
  /\ \A i \in Insts : \/ m_parent[i] \in Blocks /\ i \in ToSet(body[m_parent[i]])
                      \/ m_parent[i] = None /\ m_next[i] = None
  /\ \A b \in Blocks : \A i \in ToSet(body[b]) : m_parent[i] = b

(* The n-th block, whose instructions are the last that were looked at.    *)
BodyAt(body, n) == IF n \in DOMAIN laidOut THEN body[laidOut[n]] ELSE << >>

(* What is left ahead: the blocks after the n-th, as they were.            *)
AheadIs(body, n) ==
  \A j \in (n + 1) .. Len(laidOut) :
    /\ m_next[laidOut[j]] = At(laidOut, j + 1)
    /\ m_head[laidOut[j]] = At(body[laidOut[j]], 1)

FirstBlocks(n) == {laidOut[j] : j \in 1 .. n}

(* What went with the first n blocks, but for their instructions.          *)
FirstFreed(n) ==
  Globals \union Params \union FirstBlocks(n)
    \union UNION {BlockParams[b] : b \in FirstBlocks(n)}

(* The instructions that are gone at the k-th one of the n-th block.       *)
Gone(body, n, k) ==
  {i \in Insts : m_parent[i] \in FirstBlocks(n - 1)}
    \union {BodyAt(body, n)[j] : j \in 1 .. (k - 1)}

(* DeletedBefore, by the lists.                                            *)
DeletedAhead(body, i) ==
  LET earlier == Ahead(laidOut, m_parent[i])
  IN  Globals \union Params \union {j \in Insts : m_parent[j] \in earlier}
        \union Ahead(body[m_parent[i]], i)
        \union UNION {BlockParams[b] : b \in earlier \union {m_parent[i]}}

StaleOf(body, insts) ==
  {u \in UsesOf(insts) : m_operands[u[1]][u[2]] \in DeletedAhead(body, u[1])}

(* The loops are at the k-th instruction of the n-th block.                *)
Torn(body, n, k) ==
  /\ BodyIs(body)
  /\ DOMAIN m_head = Owners /\ DOMAIN m_next = Nodes
  /\ laidOut \in Seq(Blocks) /\ IsInjective(laidOut)
  /\ n \in 0 .. Len(laidOut) /\ AheadIs(body, n)
  /\ atBlock = At(laidOut, n + 1)
  /\ k \in 1 .. (Len(BodyAt(body, n)) + 1) /\ atInst = At(BodyAt(body, n), k)
  /\ freed = FirstFreed(n) \union Gone(body, n, k) \union (IF stage = "gone" THEN Constants ELSE {})
  /\ stale = StaleOf(body, Gone(body, n, k))
  /\ stage = "gone" => atBlock = None /\ atInst = None

TearInv ==
  /\ stage = "build" => atInst = None /\ stale = {}
  /\ stage # "build" /\ broken = {} => \E body, n, k : Torn(body, n, k)

(* What comes before the k-th element are the first k - 1.                 *)
LEMMA AheadOf ==
  ASSUME NEW S, NEW s \in Seq(S), IsInjective(s), NEW k \in DOMAIN s
  PROVE  Ahead(s, s[k]) = {s[j] : j \in 1 .. (k - 1)}
<1>1. DOMAIN s = 1 .. Len(s) /\ Len(s) \in Nat
  OBVIOUS
<1>2. ASSUME NEW q \in DOMAIN s PROVE (\A j \in 1 .. q : s[j] # s[k]) <=> q \in 1 .. (k - 1)
  <2>1. CASE k <= q
    BY <1>1, <2>1
  <2>2. CASE q < k
    <3>1. \A j \in 1 .. q : j \in DOMAIN s /\ j # k
      BY <1>1, <2>2
    <3> QED BY <1>1, <2>2, <3>1 DEF IsInjective
  <2> QED BY <1>1, <2>1, <2>2
<1>3. {q \in DOMAIN s : \A j \in 1 .. q : s[j] # s[k]} = 1 .. (k - 1)
  BY <1>1, <1>2
<1> QED BY <1>3 DEF Ahead

(* The first blocks are one more.                                          *)
LEMMA FirstBlocksIs ==
  ASSUME laidOut \in Seq(Blocks), NEW n \in 0 .. Len(laidOut)
  PROVE  /\ FirstBlocks(n) \subseteq Blocks
         /\ n # 0 => /\ laidOut[n] \in Blocks
                     /\ FirstBlocks(n) = FirstBlocks(n - 1) \union {laidOut[n]}
<1>1. DOMAIN laidOut = 1 .. Len(laidOut) /\ Len(laidOut) \in Nat
      /\ \A j \in 1 .. Len(laidOut) : laidOut[j] \in Blocks
  OBVIOUS
<1>2. FirstBlocks(n) \subseteq Blocks
  BY <1>1 DEF FirstBlocks
<1>3. n # 0 => 1 .. n = 1 .. (n - 1) \union {n}
  BY <1>1
<1>4. n # 0 => FirstBlocks(n) = FirstBlocks(n - 1) \union {laidOut[n]}
  BY <1>3 DEF FirstBlocks
<1> QED BY <1>1, <1>2, <1>4

(* At the end of the n-th block all that is in the first n is gone.        *)
LEMMA GoneAtEnd ==
  ASSUME NEW body, BodyIs(body), laidOut \in Seq(Blocks), NEW n \in 0 .. Len(laidOut),
         NEW k \in 1 .. (Len(BodyAt(body, n)) + 1), At(BodyAt(body, n), k) = None
  PROVE  Gone(body, n, k) = {i \in Insts : m_parent[i] \in FirstBlocks(n)}
<1>1. DOMAIN laidOut = 1 .. Len(laidOut) /\ Len(laidOut) \in Nat
  OBVIOUS
<1>2. CASE n = 0
  <2>1. BodyAt(body, n) = << >> /\ FirstBlocks(n) = {} /\ FirstBlocks(n - 1) = {}
    BY <1>1, <1>2 DEF BodyAt, FirstBlocks
  <2>2. k = 1
    BY <2>1
  <2> QED BY <2>1, <2>2 DEF Gone
<1>3. CASE n # 0
  <2> DEFINE b == laidOut[n]
  <2>1. b \in Blocks /\ FirstBlocks(n) = FirstBlocks(n - 1) \union {b}
    BY <1>3, FirstBlocksIs
  <2>2. BodyAt(body, n) = body[b] /\ body[b] \in Seq(Insts)
    BY <1>1, <1>3, <2>1 DEF BodyAt, BodyIs
  <2> HIDE DEF b
  <2>3. Len(body[b]) \in Nat /\ DOMAIN body[b] = 1 .. Len(body[b])
        /\ \A j \in 1 .. Len(body[b]) : body[b][j] \in Insts
    BY <2>2
  <2>4. k \notin DOMAIN body[b]
    BY <2>2, <2>3, NodesAre DEF At
  <2>5. k - 1 = Len(body[b])
    BY <2>2, <2>3, <2>4
  <2>6. {BodyAt(body, n)[j] : j \in 1 .. (k - 1)} = ToSet(body[b])
    BY <2>2, <2>3, <2>5 DEF ToSet
  <2>7. ToSet(body[b]) = {i \in Insts : m_parent[i] = b}
    <3>1. ToSet(body[b]) \subseteq Insts
      BY <2>3 DEF ToSet
    <3> QED BY <2>1, <3>1, NodesAre DEF BodyIs
  <2> QED BY <2>1, <2>6, <2>7 DEF Gone
<1> QED BY <1>2, <1>3

(* The destruction of a function begins at its first block.                *)
LEMMA BeginTorn ==
  ASSUME BuildInv, TearInv, freed = {}, broken = {}, DestroyFunction
  PROVE  TearInv'
<1>1. /\ stage = "build" /\ stage' = "blocks" /\ freed' = Globals \union Params
      /\ atBlock' = m_head[Func]
      /\ laidOut' = Chain(m_head[Func], m_next)
      /\ UNCHANGED <<m_head, m_next, m_parent, m_operands, atInst, stale>>
  BY DEF DestroyFunction, listVars, useVars
<1>2. ListInv /\ astray = {} /\ atInst = None /\ stale = {}
  BY <1>1 DEF BuildInv, TearInv, ListInv
<1>3. PICK body : body = [b \in Blocks |-> body[b]] /\ \A b \in Blocks : Spells(body[b], b)
  <2> DEFINE f == [b \in Blocks |-> CHOOSE L : Spells(L, b)]
  <2>1. \A b \in Blocks : Spells(f[b], b)
    BY <1>2, NodesAre DEF ListInv
  <2>2. f = [b \in Blocks |-> f[b]]
    OBVIOUS
  <2> HIDE DEF f
  <2> QED BY <2>1, <2>2
<1>4. body \in [Blocks -> Seq(Insts)]
  <2>1. \A b \in Blocks : body[b] \in Seq(Insts)
    BY <1>3, NodesAre DEF Spells
  <2> QED BY <1>3, <2>1
<1>5. BodyIs(body)
  <2>1. \A b \in Blocks : /\ IsInjective(body[b])
                          /\ \A k \in DOMAIN body[b] : m_next[body[b][k]] = At(body[b], k + 1)
    BY <1>3 DEF Spells
  <2>2. ASSUME NEW i \in Insts
        PROVE  \/ m_parent[i] \in Blocks /\ i \in ToSet(body[m_parent[i]])
               \/ m_parent[i] = None /\ m_next[i] = None
    <3>1. CASE Loose(i)
      BY <1>2, <3>1, NodesAre DEF ListInv, Loose
    <3>2. CASE ~Loose(i)
      <4>1. m_parent[i] \in Owners
        BY <1>2, <3>2, NodesAre DEF ListInv, LinkType, Loose
      <4>2. m_parent[i] # Func
        BY <1>2, <3>2, NodesAre DEF ListInv, Kinds
      <4>3. m_parent[i] \in Blocks
        BY <4>1, <4>2 DEF Owners
      <4> QED BY <1>3, <4>3, NodesAre DEF Spells
    <3> QED BY <3>1, <3>2
  <2>3. ASSUME NEW b \in Blocks, NEW i \in ToSet(body[b]) PROVE m_parent[i] = b
    <3>1. i \in Nodes
      BY <1>4, NodesAre DEF ToSet
    <3> QED BY <1>3, <3>1 DEF Spells
  <2> QED BY <1>4, <2>1, <2>2, <2>3 DEF BodyIs
<1>6. PICK L : Spells(L, Func)
  BY <1>2, NodesAre DEF ListInv
<1>7. laidOut' = L /\ L \in Seq(Blocks) /\ IsInjective(L)
  <2>1. Walk(Func) = L
    BY <1>6, NodesAre, WalkIs
  <2> QED BY <1>1, <1>6, <2>1, NodesAre DEF Walk, Spells
<1>8. DOMAIN L = 1 .. Len(L) /\ Len(L) \in Nat /\ \A j \in 1 .. Len(L) : L[j] \in Blocks
  BY <1>7
<1>9. BodyIs(body)'
  BY <1>1, <1>5 DEF BodyIs
<1>10. AheadIs(body, 0)'
  <2>1. \A j \in 1 .. Len(L) : m_next[L[j]] = At(L, j + 1) /\ m_head[L[j]] = At(body[L[j]], 1)
    BY <1>3, <1>6, <1>8 DEF Spells
  <2> QED BY <1>1, <1>7, <1>8, <2>1 DEF AheadIs
<1>11. BodyAt(body, 0)' = << >> /\ FirstBlocks(0)' = {} /\ FirstBlocks(0 - 1)' = {}
  BY <1>7, <1>8 DEF BodyAt, FirstBlocks
<1>12. Gone(body, 0, 1)' = {}
  BY <1>11 DEF Gone
<1>12a. FirstFreed(0)' = Globals \union Params
  BY <1>11 DEF FirstFreed
<1>13. StaleOf(body, Gone(body, 0, 1))' = {}
  BY <1>12 DEF StaleOf, UsesOf
<1>14. atBlock' = At(L, 0 + 1) /\ atInst' = At(<< >>, 1)
  BY <1>1, <1>2, <1>6 DEF Spells, At
<1>15. Torn(body, 0, 1)'
  <2>1. DOMAIN m_head' = Owners /\ DOMAIN m_next' = Nodes
    BY <1>1, <1>2 DEF ListInv, LinkType
  <2> QED BY <2>1, <1>1, <1>2, <1>7, <1>8, <1>9, <1>10, <1>11, <1>12, <1>12a, <1>13, <1>14 DEF Torn
<1> QED BY <1>1, <1>15 DEF TearInv

(* The next block follows the last instruction of the one before.          *)
LEMMA BlockTorn ==
  ASSUME NEW body, NEW n, NEW k, Torn(body, n, k), DestroyBlock
  PROVE  Torn(body, n + 1, 1)'
<1> DEFINE c == atBlock
<1>1. /\ stage = "blocks" /\ stage' = "blocks" /\ c # None /\ atInst = None
      /\ freed' = freed \union {c} \union BlockParams[c]
      /\ atInst' = m_head[c] /\ atBlock' = m_next[c]
      /\ m_next' = Set(m_next, c, None) /\ m_head' = Set(m_head, c, None)
      /\ UNCHANGED <<m_parent, m_operands, stale, laidOut>>
  BY DEF DestroyBlock, useVars
<1>2. /\ BodyIs(body) /\ DOMAIN m_head = Owners /\ DOMAIN m_next = Nodes
      /\ laidOut \in Seq(Blocks) /\ IsInjective(laidOut)
      /\ n \in 0 .. Len(laidOut) /\ AheadIs(body, n)
      /\ c = At(laidOut, n + 1)
      /\ k \in 1 .. (Len(BodyAt(body, n)) + 1) /\ At(BodyAt(body, n), k) = None
      /\ freed = FirstFreed(n) \union Gone(body, n, k)
      /\ stale = StaleOf(body, Gone(body, n, k))
  BY <1>1 DEF Torn
<1>3. Len(laidOut) \in Nat /\ DOMAIN laidOut = 1 .. Len(laidOut)
      /\ \A j \in 1 .. Len(laidOut) : laidOut[j] \in Blocks
  BY <1>2
<1>4. n + 1 \in 1 .. Len(laidOut) /\ c = laidOut[n + 1] /\ c \in Blocks
  BY <1>1, <1>2, <1>3 DEF At
<1> HIDE DEF c
<1>5. /\ \A m \in Nodes : m # c => m_next'[m] = m_next[m]
      /\ \A b \in Blocks : b # c => m_head'[b] = m_head[b]
      /\ DOMAIN m_head' = Owners /\ DOMAIN m_next' = Nodes
  BY <1>1, <1>2, NodesAre DEF Set
<1>6. BodyIs(body)'
  <2>1. \A i \in Insts : m_next'[i] = m_next[i]
    BY <1>4, <1>5, NodesAre
  <2>2. \A b \in Blocks : \A j \in DOMAIN body[b] : body[b][j] \in Insts
    BY <1>2 DEF BodyIs
  <2> QED BY <1>1, <1>2, <2>1, <2>2 DEF BodyIs
<1>7. AheadIs(body, n + 1)'
  <2>1. ASSUME NEW j \in (n + 2) .. Len(laidOut)
        PROVE  m_next'[laidOut[j]] = At(laidOut, j + 1) /\ m_head'[laidOut[j]] = At(body[laidOut[j]], 1)
    <3>1. j \in 1 .. Len(laidOut) /\ j \in (n + 1) .. Len(laidOut) /\ j # n + 1
      BY <1>2, <1>3
    <3>2. laidOut[j] \in Blocks /\ laidOut[j] # c
      BY <1>2, <1>3, <1>4, <3>1 DEF IsInjective
    <3>3. m_next[laidOut[j]] = At(laidOut, j + 1) /\ m_head[laidOut[j]] = At(body[laidOut[j]], 1)
      BY <1>2, <3>1 DEF AheadIs
    <3> QED BY <1>5, <3>2, <3>3, NodesAre
  <2>2. (n + 1) + 1 = n + 2
    BY <1>2
  <2> QED BY <1>1, <2>1, <2>2 DEF AheadIs
<1>8. m_next[c] = At(laidOut, (n + 1) + 1) /\ m_head[c] = At(body[c], 1)
  <2>1. n + 1 \in (n + 1) .. Len(laidOut)
    BY <1>2, <1>4
  <2> QED BY <1>2, <1>4, <2>1 DEF AheadIs
<1>9. BodyAt(body, n + 1)' = body[c] /\ body[c] \in Seq(Insts)
  BY <1>1, <1>2, <1>3, <1>4 DEF BodyAt, BodyIs
<1>10. Gone(body, n + 1, 1)' = Gone(body, n, k)
  <2>1. Gone(body, n, k) = {i \in Insts : m_parent[i] \in FirstBlocks(n)}
    BY <1>2, GoneAtEnd
  <2>2. (n + 1) - 1 = n /\ 1 .. (1 - 1) = {}
    BY <1>2
  <2>3. {BodyAt(body, n + 1)'[j] : j \in 1 .. (1 - 1)} = {}
    BY <2>2
  <2>4. FirstBlocks((n + 1) - 1)' = FirstBlocks(n)
    BY <1>1, <2>2 DEF FirstBlocks
  <2> QED BY <1>1, <2>1, <2>3, <2>4 DEF Gone
<1>11. FirstBlocks(n + 1)' = FirstBlocks(n) \union {c}
  <2>1. FirstBlocks(n + 1) = FirstBlocks((n + 1) - 1) \union {laidOut[n + 1]}
    BY <1>2, <1>4, FirstBlocksIs
  <2>2. (n + 1) - 1 = n
    BY <1>2
  <2> QED BY <1>1, <1>4, <2>1, <2>2 DEF FirstBlocks
<1>12. freed' = FirstFreed(n + 1)' \union Gone(body, n + 1, 1)'
  <2>1. FirstFreed(n + 1)' = FirstFreed(n) \union {c} \union BlockParams[c]
    BY <1>11 DEF FirstFreed
  <2> QED BY <1>1, <1>2, <1>10, <2>1
<1>13. stale' = StaleOf(body, Gone(body, n + 1, 1))'
  <2>1. StaleOf(body, Gone(body, n + 1, 1))' = StaleOf(body, Gone(body, n, k))
    BY <1>1, <1>10 DEF StaleOf, UsesOf, DeletedAhead
  <2> QED BY <1>1, <1>2, <2>1
<1>14. n + 1 \in 0 .. Len(laidOut') /\ 1 \in 1 .. (Len(BodyAt(body, n + 1)') + 1)
  BY <1>1, <1>4, <1>9
<1>15. atBlock' = At(laidOut', (n + 1) + 1) /\ atInst' = At(BodyAt(body, n + 1)', 1)
  BY <1>1, <1>8, <1>9
<1>16. laidOut' \in Seq(Blocks) /\ IsInjective(laidOut') /\ stage' # "gone"
  BY <1>1, <1>2
<1> QED BY <1>5, <1>6, <1>7, <1>12, <1>13, <1>14, <1>15, <1>16 DEF Torn

(* What is freed when an instruction is destroyed is what DeletedAhead     *)
(* says of it.                                                             *)
LEMMA FreedAhead ==
  ASSUME NEW body, NEW n, NEW k, Torn(body, n, k), stage = "blocks", atInst # None,
         NEW v \in Values
  PROVE  v \in freed <=> v \in DeletedAhead(body, atInst)
<1>1. /\ BodyIs(body) /\ laidOut \in Seq(Blocks) /\ IsInjective(laidOut)
      /\ n \in 0 .. Len(laidOut) /\ k \in DOMAIN BodyAt(body, n)
      /\ atInst = BodyAt(body, n)[k]
      /\ freed = FirstFreed(n) \union Gone(body, n, k)
  BY DEF Torn, At
<1>2. n \in DOMAIN laidOut /\ n # 0
  BY <1>1 DEF BodyAt
<1> DEFINE b == laidOut[n]
<1>3. b \in Blocks /\ FirstBlocks(n) = FirstBlocks(n - 1) \union {b} /\ FirstBlocks(n) \subseteq Blocks
  BY <1>1, <1>2, FirstBlocksIs
<1>4. Ahead(laidOut, b) = FirstBlocks(n - 1)
  BY <1>1, <1>2, AheadOf DEF FirstBlocks
<1> HIDE DEF b
<1>5. BodyAt(body, n) = body[b] /\ body[b] \in Seq(Insts) /\ IsInjective(body[b])
  BY <1>1, <1>2, <1>3 DEF BodyAt, BodyIs, b
<1>6. Ahead(body[b], atInst) = {body[b][j] : j \in 1 .. (k - 1)}
  BY <1>1, <1>5, AheadOf
<1>7. m_parent[atInst] = b
  <2>1. atInst \in ToSet(body[b])
    BY <1>1, <1>5 DEF ToSet
  <2> QED BY <1>1, <1>3, <2>1 DEF BodyIs
<1>8. v \notin FirstBlocks(n)
  BY <1>3, GraphAssumption
<1>9. Gone(body, n, k) = {i \in Insts : m_parent[i] \in FirstBlocks(n - 1)} \union Ahead(body[b], atInst)
  BY <1>5, <1>6 DEF Gone
<1> DEFINE earlier == FirstBlocks(n - 1)
           inEarlier == \E c \in earlier : v \in BlockParams[c]
<1>10. v \in DeletedAhead(body, atInst) <=>
         \/ v \in Globals \/ v \in Params \/ inEarlier \/ v \in BlockParams[b]
         \/ (v \in Insts /\ m_parent[v] \in earlier) \/ v \in Ahead(body[b], atInst)
  <2>1. Ahead(laidOut, m_parent[atInst]) = earlier
    BY <1>4, <1>7
  <2> HIDE DEF earlier
  <2> QED BY <1>7, <2>1 DEF DeletedAhead
<1>11. v \in FirstFreed(n) <=>
         v \in Globals \/ v \in Params \/ inEarlier \/ v \in BlockParams[b]
  <2> HIDE DEF earlier
  <2> QED BY <1>3, <1>8 DEF FirstFreed, earlier
<1>12. v \in Gone(body, n, k) <=>
         (v \in Insts /\ m_parent[v] \in earlier) \/ v \in Ahead(body[b], atInst)
  BY <1>9
<1> HIDE DEF earlier, inEarlier
<1> QED BY <1>1, <1>10, <1>11, <1>12

(* An instruction follows the one that its link leads from.                *)
LEMMA InstTorn ==
  ASSUME NEW body, NEW n, NEW k, Torn(body, n, k), UseType, DestroyInst
  PROVE  Torn(body, n, k + 1)'
<1> DEFINE i == atInst
           uses == {i} \X DOMAIN m_operands[i]
<1>1. /\ stage = "blocks" /\ stage' = "blocks" /\ i # None
      /\ stale' = stale \union {u \in uses : m_operands[u[1]][u[2]] \in freed}
      /\ freed' = freed \union {i} /\ atInst' = m_next[i]
      /\ UNCHANGED <<m_head, m_next, m_parent, m_operands, atBlock, laidOut>>
  BY DEF DestroyInst, listVars
<1>2. /\ BodyIs(body) /\ laidOut \in Seq(Blocks) /\ n \in 0 .. Len(laidOut)
      /\ k \in 1 .. (Len(BodyAt(body, n)) + 1)
      /\ i = At(BodyAt(body, n), k)
      /\ freed = FirstFreed(n) \union Gone(body, n, k)
      /\ stale = StaleOf(body, Gone(body, n, k))
  BY <1>1 DEF Torn
<1>3. k \in DOMAIN BodyAt(body, n) /\ i = BodyAt(body, n)[k]
  BY <1>1, <1>2 DEF At
<1>4. n \in DOMAIN laidOut
  BY <1>3 DEF BodyAt
<1> DEFINE b == laidOut[n]
<1>5. b \in Blocks /\ BodyAt(body, n) = body[b] /\ body[b] \in Seq(Insts)
  BY <1>2, <1>4 DEF BodyAt, BodyIs
<1> HIDE DEF b, i
<1>6. Len(body[b]) \in Nat /\ DOMAIN body[b] = 1 .. Len(body[b]) /\ k \in 1 .. Len(body[b])
      /\ i = body[b][k] /\ i \in Insts
  BY <1>3, <1>5
<1>7. m_next[i] = At(body[b], k + 1)
  BY <1>2, <1>5, <1>6 DEF BodyIs
<1>8. Gone(body, n, k + 1) = Gone(body, n, k) \union {i}
  <2>1. 1 .. ((k + 1) - 1) = 1 .. (k - 1) \union {k}
    BY <1>6
  <2> QED BY <1>3, <2>1 DEF Gone
<1>9. \A u \in uses : m_operands[u[1]][u[2]] \in freed
                        <=> m_operands[u[1]][u[2]] \in DeletedAhead(body, u[1])
  <2> SUFFICES ASSUME NEW x \in DOMAIN m_operands[i]
               PROVE  m_operands[i][x] \in freed <=> m_operands[i][x] \in DeletedAhead(body, i)
    OBVIOUS
  <2>1. m_operands[i][x] \in Values
    BY <1>6 DEF UseType
  <2> QED BY <1>1, <2>1, FreedAhead DEF i
<1>10. UsesOf(Gone(body, n, k) \union {i}) = UsesOf(Gone(body, n, k)) \union uses
  BY DEF UsesOf
<1> HIDE DEF uses
<1>11. stale' = StaleOf(body, Gone(body, n, k + 1))
  BY <1>1, <1>2, <1>8, <1>9, <1>10 DEF StaleOf
<1>12. freed' = FirstFreed(n) \union Gone(body, n, k + 1)
  BY <1>1, <1>2, <1>8
<1>13. /\ UNCHANGED <<BodyIs(body), AheadIs(body, n), BodyAt(body, n), FirstFreed(n)>>
       /\ Gone(body, n, k + 1)' = Gone(body, n, k + 1)
       /\ StaleOf(body, Gone(body, n, k + 1))' = StaleOf(body, Gone(body, n, k + 1))
  BY <1>1 DEF BodyIs, AheadIs, BodyAt, FirstBlocks, FirstFreed, Gone, StaleOf, UsesOf, DeletedAhead
<1>14. k + 1 \in 1 .. (Len(BodyAt(body, n)) + 1) /\ atInst' = At(BodyAt(body, n), k + 1)
  BY <1>1, <1>5, <1>6, <1>7
<1> QED BY <1>1, <1>2, <1>11, <1>12, <1>13, <1>14 DEF Torn

(* Nothing is destroyed to begin with.                                     *)
LEMMA InitTear == Init => TearInv
BY DEF Init, TearInv

(* The loops of the destructors stay in the lists.                         *)
LEMMA NextTear ==
  ASSUME BuildInv, UsesInv, TearInv, [Next]_vars PROVE TearInv'
<1>0. ASSUME DestroyFunction \/ DestroyBlock \/ DestroyInst \/ DestroyConstants, broken # {}
      PROVE  TearInv'
  <2>1. stage' # "build" /\ UNCHANGED broken
    BY <1>0 DEF DestroyFunction, DestroyBlock, DestroyInst, DestroyConstants, listVars
  <2> QED BY <1>0, <2>1 DEF TearInv
<1>1. CASE DestroyFunction /\ broken = {}
  <2>1. freed = {}
    BY <1>1 DEF UsesInv, DestroyFunction
  <2> QED BY <1>1, <2>1, BeginTorn
<1>2. CASE DestroyBlock /\ broken = {}
  <2>1. stage = "blocks" /\ stage' = "blocks"
    BY <1>2 DEF DestroyBlock
  <2>2. PICK body, n, k : Torn(body, n, k)
    BY <1>2, <2>1 DEF TearInv
  <2>3. Torn(body, n + 1, 1)'
    BY <1>2, <2>2, BlockTorn
  <2> QED BY <2>1, <2>3 DEF TearInv
<1>3. CASE DestroyInst /\ broken = {}
  <2>1. stage = "blocks" /\ stage' = "blocks"
    BY <1>3 DEF DestroyInst
  <2>2. PICK body, n, k : Torn(body, n, k)
    BY <1>3, <2>1 DEF TearInv
  <2>3. Torn(body, n, k + 1)'
    BY <1>3, <2>2, InstTorn DEF UsesInv
  <2> QED BY <2>1, <2>3 DEF TearInv
<1>4. CASE DestroyConstants /\ broken = {}
  <2>1. /\ stage = "blocks" /\ stage' = "gone" /\ freed' = freed \union Constants
        /\ atBlock = None /\ atInst = None
        /\ UNCHANGED <<m_head, m_next, m_parent, m_operands, atBlock, atInst, stale, laidOut>>
    BY <1>4 DEF DestroyConstants, listVars, useVars
  <2>2. PICK body, n, k : Torn(body, n, k)
    BY <1>4, <2>1 DEF TearInv
  <2>3. /\ UNCHANGED <<BodyIs(body), AheadIs(body, n), BodyAt(body, n), FirstFreed(n), Gone(body, n, k)>>
        /\ StaleOf(body, Gone(body, n, k))' = StaleOf(body, Gone(body, n, k))
    BY <2>1 DEF BodyIs, AheadIs, BodyAt, FirstBlocks, FirstFreed, Gone, StaleOf, UsesOf, DeletedAhead
  <2>4. Torn(body, n, k)'
    BY <2>1, <2>2, <2>3 DEF Torn
  <2> QED BY <2>1, <2>4 DEF TearInv
<1>5. ASSUME stage = "build", UNCHANGED <<stage, atInst, stale>> PROVE TearInv'
  BY <1>5 DEF TearInv
<1>6. CASE Place \/ Detach
  BY <1>5, <1>6 DEF Place, Detach, EditLists, endVars
<1>7. ASSUME NEW i \in Insts, NEW ops, BuildInst(i, ops) PROVE TearInv'
  BY <1>5, <1>7 DEF BuildInst, endVars
<1>8. ASSUME NEW i \in Insts, NEW v \in Values, AddOperand(i, v) PROVE TearInv'
  BY <1>5, <1>8 DEF AddOperand, EditUses, endVars
<1>9. CASE Rewire
  BY <1>5, <1>9 DEF Rewire, EditUses, endVars
<1>10. CASE UNCHANGED vars
  <2>1. UNCHANGED <<m_head, m_next, m_parent, m_operands, stage, freed, atBlock, atInst, stale,
                    laidOut, broken>>
    BY <1>10 DEF vars, listVars, useVars, endVars
  <2>2. ASSUME NEW body, NEW n, NEW k, Torn(body, n, k) PROVE Torn(body, n, k)'
    <3>1. /\ UNCHANGED <<BodyIs(body), AheadIs(body, n), BodyAt(body, n), FirstFreed(n), Gone(body, n, k)>>
          /\ StaleOf(body, Gone(body, n, k))' = StaleOf(body, Gone(body, n, k))
      BY <2>1 DEF BodyIs, AheadIs, BodyAt, FirstBlocks, FirstFreed, Gone, StaleOf, UsesOf, DeletedAhead
    <3> QED BY <2>1, <2>2, <3>1 DEF Torn
  <2> QED BY <2>1, <2>2 DEF TearInv
<1> QED BY <1>0, <1>1, <1>2, <1>3, <1>4, <1>6, <1>7, <1>8, <1>9, <1>10 DEF Next

(* The links from an element of a sequence lead to those from it on.       *)
LEMMA ReachedFrom ==
  ASSUME NEW link, NEW s \in Seq(Insts), IsInjective(s), NEW q \in DOMAIN s,
         \A r \in DOMAIN s : link[s[r]] = At(s, r + 1)
  PROVE  ToSet(Chain(s[q], link)) = {s[r] : r \in q .. Len(s)}
<1> DEFINE n == Len(s)
           t == SubSeq(s, q, n)
<1>1. n \in Nat /\ DOMAIN s = 1 .. n /\ q \in 1 .. n /\ \A r \in 1 .. n : s[r] \in Insts
  OBVIOUS
<1>2. IsInjective(s) /\ \A r \in DOMAIN s : link[s[r]] = At(s, r + 1)
  OBVIOUS
<1>3. /\ t \in Seq(Insts) /\ Len(t) = n - q + 1 /\ DOMAIN t = 1 .. (n - q + 1)
      /\ \A r \in 1 .. (n - q + 1) : t[r] = s[q + r - 1]
  BY <1>1
<1> HIDE DEF t, n
<1>4. Follows(link, t)
  <2>1. t \in Seq(Nodes)
    <3>1. \A r \in 1 .. Len(t) : t[r] \in Nodes
      BY <1>3, NodesAre
    <3> QED BY <1>3, <3>1
  <2>2. IsInjective(t)
    <3>1. ASSUME NEW r \in 1 .. (n - q + 1), NEW z \in 1 .. (n - q + 1), t[r] = t[z] PROVE r = z
      <4>1. q + r - 1 \in DOMAIN s /\ q + z - 1 \in DOMAIN s
        BY <1>1
      <4>2. q + r - 1 = q + z - 1
        BY <1>2, <1>3, <3>1, <4>1 DEF IsInjective
      <4> QED BY <1>1, <4>2
    <3> QED BY <1>3, <3>1 DEF IsInjective
  <2>3. ASSUME NEW r \in DOMAIN t PROVE link[t[r]] = At(t, r + 1)
    <3>1. q + r - 1 \in DOMAIN s /\ t[r] = s[q + r - 1]
      BY <1>1, <1>3
    <3>2. link[t[r]] = At(s, (q + r - 1) + 1)
      BY <1>2, <3>1
    <3>3. CASE r = n - q + 1
      BY <1>1, <1>3, <3>2, <3>3 DEF At
    <3>4. CASE r # n - q + 1
      <4>1. r + 1 \in 1 .. (n - q + 1) /\ q + (r + 1) - 1 = (q + r - 1) + 1
            /\ (q + r - 1) + 1 \in 1 .. n
        BY <1>1, <1>3, <3>4
      <4> QED BY <1>1, <1>3, <3>2, <4>1 DEF At
    <3> QED BY <3>3, <3>4
  <2> QED BY <2>1, <2>2, <2>3 DEF Follows
<1>5. At(t, 1) = s[q]
  BY <1>1, <1>3 DEF At
<1>6. Chain(s[q], link) = t
  BY <1>4, <1>5, ChainIs
<1>7. ToSet(t) = {s[r] : r \in q .. n}
  <2>1. ToSet(t) \subseteq {s[r] : r \in q .. n}
    BY <1>1, <1>3 DEF ToSet
  <2>2. ASSUME NEW r \in q .. n PROVE s[r] \in ToSet(t)
    <3>1. r - q + 1 \in DOMAIN t /\ t[r - q + 1] = s[r]
      <4>1. r - q + 1 \in 1 .. (n - q + 1) /\ q + (r - q + 1) - 1 = r
        BY <1>1
      <4> QED BY <1>3, <4>1
    <3> QED BY <3>1 DEF ToSet
  <2> QED BY <2>1, <2>2
<1> QED BY <1>6, <1>7 DEF n

(* The instructions from which i is reached are those before it.           *)
LEMMA ReachedIs ==
  ASSUME NEW body, BodyIs(body), NEW i \in Insts, m_parent[i] \in Blocks
  PROVE  {j \in Insts : j # i /\ i \in ToSet(Chain(j, m_next))} = Ahead(body[m_parent[i]], i)
<1> DEFINE b == m_parent[i]
<1>1. b \in Blocks /\ body[b] \in Seq(Insts) /\ IsInjective(body[b]) /\ i \in ToSet(body[b])
  BY NodesAre DEF BodyIs
<1>2. PICK p \in DOMAIN body[b] : body[b][p] = i
  BY <1>1 DEF ToSet
<1> HIDE DEF b
<1>3. Ahead(body[b], i) = {body[b][r] : r \in 1 .. (p - 1)}
  BY <1>1, <1>2, AheadOf
<1>4. DOMAIN body[b] = 1 .. Len(body[b]) /\ Len(body[b]) \in Nat
      /\ \A r \in 1 .. Len(body[b]) : body[b][r] \in Insts
  BY <1>1
<1>5. ASSUME NEW j \in Insts PROVE j # i /\ i \in ToSet(Chain(j, m_next)) <=> j \in Ahead(body[b], i)
  <2>1. CASE m_parent[j] = None
    <3>1. m_next[j] = None
      BY <2>1, NodesAre DEF BodyIs
    <3>2. Follows(m_next, <<j>>) /\ At(<<j>>, 1) = j
      <4>1. <<j>> \in Seq(Nodes) /\ IsInjective(<<j>>) /\ DOMAIN <<j>> = {1}
            /\ At(<<j>>, 1) = j /\ At(<<j>>, 1 + 1) = None
        BY NodesAre DEF IsInjective, At
      <4> QED BY <3>1, <4>1 DEF Follows
    <3>3. Chain(j, m_next) = <<j>>
      BY <3>2, ChainIs
    <3>4. ToSet(Chain(j, m_next)) = {j}
      BY <3>3 DEF ToSet
    <3>5. \A r \in 1 .. (p - 1) : m_parent[body[b][r]] = b
      BY <1>1, <1>2, <1>4 DEF BodyIs, ToSet
    <3>6. b # None
      BY <1>1, NodesAre
    <3> QED BY <1>3, <2>1, <3>4, <3>5, <3>6
  <2>2. CASE m_parent[j] # None
    <3>1. m_parent[j] \in Blocks /\ j \in ToSet(body[m_parent[j]])
      BY <2>2 DEF BodyIs
    <3>2. PICK c \in Blocks : c = m_parent[j]
      BY <3>1
    <3>3. PICK q \in DOMAIN body[c] : body[c][q] = j
      BY <3>1, <3>2 DEF ToSet
    <3>4. ToSet(Chain(j, m_next)) = {body[c][r] : r \in q .. Len(body[c])}
      <4> DEFINE s == body[c]
      <4>1. /\ s \in Seq(Insts) /\ IsInjective(s) /\ q \in DOMAIN s /\ s[q] = j
            /\ \A r \in DOMAIN s : m_next[s[r]] = At(s, r + 1)
        BY <3>3 DEF BodyIs
      <4> HIDE DEF s
      <4>2. ToSet(Chain(s[q], m_next)) = {s[r] : r \in q .. Len(s)}
        BY <4>1, ReachedFrom
      <4> QED BY <4>1, <4>2 DEF s
    <3>5. body[c] \in Seq(Insts) /\ DOMAIN body[c] = 1 .. Len(body[c]) /\ Len(body[c]) \in Nat
      BY <3>1 DEF BodyIs
    <3>6. CASE c = b
      <4>1. q \in 1 .. Len(body[b]) /\ body[b][q] = j
        BY <3>3, <3>5, <3>6
      <4>2. \A r \in 1 .. Len(body[b]) : (body[b][r] = i <=> r = p) /\ (body[b][r] = j <=> r = q)
        BY <1>1, <1>2, <1>4, <4>1 DEF IsInjective
      <4>3. i \in ToSet(Chain(j, m_next)) <=> p \in q .. Len(body[b])
        BY <1>2, <1>4, <3>4, <3>6, <4>1, <4>2
      <4>4. j \in Ahead(body[b], i) <=> q \in 1 .. (p - 1)
        BY <1>2, <1>3, <1>4, <4>1, <4>2
      <4>5. j # i <=> q # p
        BY <1>2, <1>4, <4>1, <4>2
      <4> QED BY <1>2, <1>4, <4>1, <4>3, <4>4, <4>5
    <3>7. CASE c # b
      <4>1. \A r \in 1 .. Len(body[c]) : m_parent[body[c][r]] = c
        BY <3>5 DEF BodyIs, ToSet
      <4>2. i \notin ToSet(Chain(j, m_next))
        BY <3>4, <3>3, <3>5, <3>7, <4>1 DEF b
      <4>3. \A r \in 1 .. (p - 1) : m_parent[body[b][r]] = b
        BY <1>1, <1>2, <1>4 DEF BodyIs, ToSet
      <4> QED BY <1>3, <3>2, <3>7, <4>2, <4>3
    <3> QED BY <3>6, <3>7
  <2> QED BY <2>1, <2>2
<1>6. Ahead(body[b], i) \subseteq Insts
  BY <1>2, <1>3, <1>4
<1> QED BY <1>5, <1>6 DEF b

(* What is attached is deleted and nothing else, and the uses that ask a   *)
(* deleted value to forget them are those of what is deleted before.       *)
THEOREM TeardownExactCorrect == Spec => []TeardownExact
<1>1. TearInv => TeardownExact
  <2> SUFFICES ASSUME TearInv, stage = "gone", broken = {} PROVE TeardownExact
    BY DEF TeardownExact
  <2> DEFINE kept == {i \in Insts : Contains(laidOut, m_parent[i])}
  <2>1. PICK body, n, k : Torn(body, n, k)
    BY DEF TearInv
  <2>2. /\ BodyIs(body) /\ laidOut \in Seq(Blocks) /\ n \in 0 .. Len(laidOut)
        /\ At(laidOut, n + 1) = None
        /\ k \in 1 .. (Len(BodyAt(body, n)) + 1) /\ At(BodyAt(body, n), k) = None
        /\ freed = FirstFreed(n) \union Gone(body, n, k) \union Constants
        /\ stale = StaleOf(body, Gone(body, n, k))
    BY <2>1 DEF Torn
  <2>3. DOMAIN laidOut = 1 .. Len(laidOut) /\ Len(laidOut) \in Nat
        /\ \A j \in 1 .. Len(laidOut) : laidOut[j] \in Blocks
    BY <2>2
  <2>4. n = Len(laidOut)
    <3>1. n + 1 \notin DOMAIN laidOut
      <4>1. n + 1 \in DOMAIN laidOut => laidOut[n + 1] = None
        BY <2>2 DEF At
      <4> QED BY <2>3, <4>1, NodesAre
    <3>2. n \in 0 .. Len(laidOut) /\ Len(laidOut) \in Nat /\ n + 1 \notin 1 .. Len(laidOut)
      BY <2>2, <2>3, <3>1
    <3> QED BY <3>2
  <2>5. FirstBlocks(n) = ToSet(laidOut) /\ ToSet(laidOut) \subseteq Blocks
    <3>1. 1 .. n = DOMAIN laidOut
      BY <2>3, <2>4
    <3> QED BY <2>3, <3>1 DEF FirstBlocks, ToSet
  <2>6. \A b : Contains(laidOut, b) <=> b \in ToSet(laidOut)
    BY <2>3 DEF Contains, ToSet
  <2>7. Gone(body, n, k) = kept
    BY <2>2, <2>5, <2>6, GoneAtEnd
  <2>8. freed = Globals \union Params \union Constants \union ToSet(laidOut) \union kept
                  \union UNION {BlockParams[b] : b \in ToSet(laidOut)}
    <3>1. FirstFreed(n) = Globals \union Params \union ToSet(laidOut)
                            \union UNION {BlockParams[b] : b \in ToSet(laidOut)}
      BY <2>5 DEF FirstFreed
    <3> HIDE DEF kept
    <3> QED BY <2>2, <2>7, <3>1
  <2>9. ASSUME NEW i \in kept PROVE DeletedAhead(body, i) = DeletedBefore(i)
    <3>1. i \in Insts /\ m_parent[i] \in Blocks
      BY <2>5, <2>6
    <3>2. {j \in Insts : j # i /\ i \in ToSet(Chain(j, m_next))} = Ahead(body[m_parent[i]], i)
      BY <2>2, <3>1, ReachedIs
    <3> DEFINE earlier == Ahead(laidOut, m_parent[i])
               before == {j \in Insts : j # i /\ i \in ToSet(Chain(j, m_next))}
    <3>3. DeletedBefore(i) =
            Globals \union Params \union {j \in Insts : m_parent[j] \in earlier} \union before
              \union UNION {BlockParams[b] : b \in earlier \union {m_parent[i]}}
      BY DEF DeletedBefore
    <3> QED BY <3>2, <3>3 DEF DeletedAhead
  <2>10. \A u \in UsesOf(kept) : u[1] \in kept
    BY DEF UsesOf
  <2>11. stale = {u \in UsesOf(kept) : m_operands[u[1]][u[2]] \in DeletedBefore(u[1])}
    <3> HIDE DEF kept
    <3> QED BY <2>2, <2>7, <2>9, <2>10 DEF StaleOf
  <2> QED BY <2>8, <2>11 DEF TeardownExact
<1>2. TearInv /\ UsesInv /\ BuildInv /\ [Next]_vars => TearInv'
  BY NextTear
<1>3. UsesInv /\ BuildInv /\ [Next]_vars => UsesInv'
  BY NextUses
<1> QED BY <1>1, <1>2, <1>3, InitTear, InitUses, BuildCorrect, PTL DEF Spec
=============================================================================
