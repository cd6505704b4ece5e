----------------------------- MODULE NamesProofs -----------------------------
(***************************************************************************)
(* Proofs about Names: in every file that compiles, whatever its tokens    *)
(* and however many, a reference is generated as the definition it denotes *)
(* and denotes what lexical scoping says, and a file that does not compile *)
(* has an error to be found in it.                                         *)
(***************************************************************************)
EXTENDS Names, WellFoundedInduction, TLAPS

(* What there is of numbers with a property, there is a first of.          *)
LEMMA Least ==
  ASSUME NEW T \in SUBSET Nat, T # {}
  PROVE  \E m \in T : \A k \in T : m <= k
<1>1. \E m \in T : \A k \in T : ~(<<k, m>> \in OpToRel(<, Nat))
  BY NatLessThanWellFounded, WFMin
<1>2. PICK m \in T : \A k \in T : ~(<<k, m>> \in OpToRel(<, Nat))
  BY <1>1
<1>3. \A k \in T : ~(k < m)
  BY <1>2, Zenon DEF OpToRel
<1> QED BY <1>3

(* And of numbers up to n, a last.                                         *)
LEMMA Greatest ==
  ASSUME NEW n \in Nat, NEW T \in SUBSET (0..n), T # {}
  PROVE  \E m \in T : \A k \in T : k <= m
<1> DEFINE U == {k \in Nat : \A t \in T : t <= k}
<1>1. U \in SUBSET Nat /\ n \in U
  OBVIOUS
<1>2. PICK m \in U : \A k \in U : m <= k
  <2>1. U # {}
    BY <1>1
  <2> HIDE DEF U
  <2> QED BY <1>1, <2>1, Least
<1>3. m \in Nat /\ \A t \in T : t <= m
  BY <1>2
<1>4. ASSUME m \notin T PROVE FALSE
  <2>1. PICK t \in T : TRUE
    OBVIOUS
  <2>2. \A x \in T : x <= m /\ x # m /\ x \in Nat
    BY <1>3, <1>4
  <2>3. m - 1 \in U
    BY <2>1, <2>2, <1>3
  <2> QED BY <2>3, <1>2, <1>3
<1> QED BY <1>3, <1>4

AllNames == Idents \union {Unnamed}

Kinds == FileKinds \union LocalKinds \union RefKinds \union Closers \union {"open"}

TokenType == [kind : Kinds, name : AllNames, scope : Nat, own : Nat]

ScopeType == [path : Seq(Nat), table : [Idents -> Nat]]

Stages == {"parse", "load", "analyse", "declare", "lower", "done",
           "conflict", "unresolved", "invalid", "aborted"}

NamesTypeOK ==
  /\ text \in Seq(TokenType)
  /\ scopes \in Seq(ScopeType)
  /\ m_scope \in DOMAIN scopes
  /\ at \in Nat \ {0}
  /\ denotes \in Seq(Nat) /\ slot \in Seq(Nat)
  /\ declared \in [{"symbol", "type"} -> [Idents -> Nat]]
  /\ locals \in [AllNames -> Nat]
  /\ stage \in Stages

-----------------------------------------------------------------------------
(* The scopes are a tree: a path leads from the file's scope through the   *)
(* scopes around a scope, whose paths are its beginnings, to the scope.    *)
Path(s) == scopes[s].path

ScopesOK ==
  /\ 1 \in DOMAIN scopes /\ Depth(1) = 1
  /\ \A s \in DOMAIN scopes :
       /\ Depth(s) >= 1 /\ Path(s)[1] = 1 /\ Path(s)[Depth(s)] = s
       /\ \A k \in 1..Depth(s) :
            /\ Path(s)[k] \in DOMAIN scopes
            /\ Depth(Path(s)[k]) = k
            /\ \A j \in 1..k : Path(Path(s)[k])[j] = Path(s)[j]

Openers == {"function", "open"}

(* Where each kind of token stands.                                        *)
TokenOK(i) ==
  LET t == text[i]
  IN /\ t.scope \in DOMAIN scopes
     /\ t.kind \in FileKinds <=> Depth(t.scope) = 1
     /\ t.kind \in {"param", "end"} => Depth(t.scope) = 2
     /\ t.kind \in {"let", "close"} \union RefKinds => Depth(t.scope) > 2
     /\ t.kind \in FileKinds \union RefKinds \union {"let"} => t.name \in Idents
     /\ t.kind \in Openers =>
          /\ t.own \in DOMAIN scopes
          /\ Depth(t.own) = Depth(t.scope) + 1
          /\ Parent(t.own) = t.scope

OwnsDiffer ==
  \A f, g \in DOMAIN text :
    f # g /\ text[f].kind = "function" /\ text[g].kind = "function" => text[f].own # text[g].own

(* The scope after token i.                                                *)
After(i) ==
  CASE text[i].kind \in Openers -> text[i].own
    [] text[i].kind \in Closers -> Parent(text[i].scope)
    [] OTHER                    -> text[i].scope

FlowOK ==
  /\ text # <<>> => text[1].scope = 1
  /\ \A i \in DOMAIN text : i + 1 \in DOMAIN text => text[i + 1].scope = After(i)
  /\ stage = "parse" => m_scope = IF text = <<>> THEN 1 ELSE After(Len(text))
  /\ stage = "load" => m_scope = 1 /\ After(Len(text)) = 1
  /\ stage = "analyse" => m_scope = text[at].scope

(* The function f has the scope s, and is that of token i: all tokens from *)
(* f to i are within it.                                                   *)
Within(f, s) == Depth(s) >= 2 /\ Path(s)[2] = text[f].own

Holds(f, i) ==
  /\ f \in 1..(i - 1)
  /\ text[f].kind = "function"
  /\ \A g \in (f + 1)..i : Within(f, text[g].scope)

(* The parser is in function f.                                            *)
Parsing(f) ==
  /\ f \in DOMAIN text
  /\ text[f].kind = "function"
  /\ \A g \in (f + 1)..Len(text) : Within(f, text[g].scope)
  /\ Within(f, m_scope)

FunctionsOK ==
  /\ \A i \in DOMAIN text : Depth(text[i].scope) >= 2 => \E f \in DOMAIN text : Holds(f, i)
  /\ stage = "parse" /\ Depth(m_scope) >= 2 => \E f \in DOMAIN text : Parsing(f)

(* Only parameters come between a function and one of its parameters, or   *)
(* its body.                                                               *)
Heads(i) == text[i].kind = "param" \/ (text[i].kind = "open" /\ Depth(text[i].scope) = 2)

HeadersOK ==
  \A i \in DOMAIN text : Heads(i) =>
    \E f \in 1..(i - 1) : /\ text[f].kind = "function"
                          /\ \A e \in (f + 1)..(i - 1) : text[e].kind = "param"

-----------------------------------------------------------------------------
(* What the tables of the scopes have is a definition of the scope; of the *)
(* definitions of the file with one name, they have the first; and for a   *)
(* local, it or what was visible in its place, which was not the function. *)
EntriesOK ==
  \A s \in DOMAIN scopes : \A n \in Idents :
    LET d == scopes[s].table[n]
    IN  d # 0 => /\ d \in DOMAIN text
                 /\ text[d].kind \in FileKinds \union LocalKinds
                 /\ text[d].name = n /\ text[d].scope = s

FileEntry(i) == scopes[1].table[text[i].name] \in 1..i

(* The function that the parser is in has no entry yet.                    *)
Entered(i) ==
  ~ (stage = "parse" /\ text[i].kind = "function" /\ Within(i, m_scope))

LocalEntry(i) ==
  \E k \in 1..Depth(text[i].scope) :
    LET e == scopes[Path(text[i].scope)[k]].table[text[i].name]
    IN  e \in 1..i /\ (k = 1 => e < FunctionOf(i))

TablesOK ==
  /\ EntriesOK
  /\ \A i \in DOMAIN text : Entered(i) \/ \A n \in Idents : scopes[1].table[n] # i
  /\ \A i \in DOMAIN text : text[i].kind \in FileKinds /\ Entered(i) => FileEntry(i)
  /\ \A i \in DOMAIN text :
       text[i].kind \in LocalKinds /\ text[i].name # Unnamed => LocalEntry(i)

-----------------------------------------------------------------------------
(* The passes.                                                             *)

BoundsOK ==
  /\ stage \in {"parse", "load"} => at = 1
  /\ stage \notin {"parse", "conflict"} => text # <<>>
  /\ stage \in {"analyse", "declare", "lower"} => at \in DOMAIN text
  /\ stage \notin {"parse", "load", "conflict"} =>
       Len(denotes) = Len(text) /\ Len(slot) = Len(text)

(* The tokens before this one were visited by the pass.                    *)
Limit(pass, later) ==
  IF stage = pass THEN at ELSE IF stage \in later THEN Len(text) + 1 ELSE 1

Analysed(r) ==
  /\ denotes[r] = Get(text[r].scope, text[r].name)
  /\ denotes[r] # 0
  /\ text[denotes[r]].kind # "type"

DenotesOK ==
  \A r \in DOMAIN text :
    text[r].kind \in RefKinds /\ r < Limit("analyse", {"declare", "lower", "done"}) => Analysed(r)

Space(i) == IF text[i].kind = "type" THEN "type" ELSE "symbol"

DeclaredOK ==
  /\ \A i \in DOMAIN text :
       text[i].kind \in FileKinds /\ i < Limit("declare", {"lower", "done"})
         => declared[Space(i)][text[i].name] = i
  /\ \A space \in {"symbol", "type"}, n \in Idents :
       LET i == declared[space][n]
       IN  i # 0 /\ stage \in {"parse", "load", "analyse", "declare"} =>
             /\ stage = "declare" /\ i \in DOMAIN text /\ i < at
             /\ text[i].kind \in FileKinds /\ Space(i) = space /\ text[i].name = n

(* In a body, the table of locals has the parameters and the variables     *)
(* generated so far, each under its name, and nothing else.                *)
LocalsOK ==
  stage = "lower" /\ Depth(text[at].scope) > 2 =>
    /\ \A n \in AllNames :
         LET e == locals[n]
         IN  e # 0 => /\ e \in DOMAIN text /\ e < at
                      /\ text[e].kind \in LocalKinds /\ text[e].name = n
                      /\ FunctionOf(e) = FunctionOf(at)
    /\ \A e \in DOMAIN text :
         e < at /\ text[e].kind \in LocalKinds /\ FunctionOf(e) = FunctionOf(at)
           => locals[text[e].name] = e

(* A reference is generated as what it denotes, or else that comes later   *)
(* in the body, and its name is taken.                                     *)
Matches(r) ==
  slot[r] = denotes[r] /\ (text[slot[r]].kind \in LocalKinds => slot[r] < r)

Taken(r) ==
  LET d == denotes[r]
  IN  /\ stage = "lower"
      /\ at <= d /\ d \in DOMAIN text /\ text[d].kind = "let" /\ text[d].name = text[r].name
      /\ FunctionOf(d) = FunctionOf(at)
      /\ Depth(text[at].scope) > 2
      /\ locals[text[r].name] # 0

SlotsOK ==
  \A r \in DOMAIN text :
    text[r].kind \in RefKinds /\ r < Limit("lower", {"done"}) =>
      /\ Matches(r) \/ Taken(r)
      /\ \A d, e \in 1..(r - 1) :
           /\ text[d].kind \in LocalKinds /\ text[e].kind \in LocalKinds
           /\ FunctionOf(d) = FunctionOf(r) /\ FunctionOf(e) = FunctionOf(r)
           /\ text[d].name = text[e].name
           => d = e

TreeInv == ScopesOK /\ (\A i \in DOMAIN text : TokenOK(i)) /\ OwnsDiffer

ParseInv == FlowOK /\ FunctionsOK /\ HeadersOK /\ TablesOK

PassInv == BoundsOK /\ DenotesOK /\ DeclaredOK /\ LocalsOK /\ SlotsOK /\ FailuresJustified

NamesInv == NamesTypeOK /\ TreeInv /\ ParseInv /\ PassInv

-----------------------------------------------------------------------------
(* The sequences have the positions 1 to their length, and hold tokens and *)
(* scopes there.                                                           *)
LEMMA TextIs ==
  ASSUME NamesTypeOK
  PROVE  /\ DOMAIN text = 1..Len(text) /\ Len(text) \in Nat
         /\ \A i \in DOMAIN text : /\ text[i] \in TokenType
                                   /\ text[i].kind \in Kinds
                                   /\ text[i].name \in AllNames
<1>1. text \in Seq(TokenType)
  BY DEF NamesTypeOK
<1>2. DOMAIN text = 1..Len(text) /\ Len(text) \in Nat
  BY <1>1
<1>3. \A i \in DOMAIN text : text[i] \in TokenType
  BY <1>1
<1>4. \A t \in TokenType : t.kind \in Kinds /\ t.name \in AllNames
  BY DEF TokenType
<1> QED BY <1>2, <1>3, <1>4

(* The scopes have paths, and tables for every identifier.                 *)
LEMMA ScopeIs ==
  ASSUME NamesTypeOK
  PROVE  /\ DOMAIN scopes = 1..Len(scopes) /\ Len(scopes) \in Nat
         /\ \A s \in DOMAIN scopes :
              /\ scopes[s] \in ScopeType
              /\ Path(s) \in Seq(Nat) /\ Depth(s) \in Nat /\ DOMAIN Path(s) = 1..Depth(s)
              /\ scopes[s].table \in [Idents -> Nat]
<1>1. scopes \in Seq(ScopeType)
  BY DEF NamesTypeOK
<1>2. DOMAIN scopes = 1..Len(scopes) /\ Len(scopes) \in Nat
  BY <1>1
<1>3. \A s \in DOMAIN scopes : scopes[s] \in ScopeType
  BY <1>1
<1>4. \A x \in ScopeType : x.path \in Seq(Nat) /\ x.table \in [Idents -> Nat]
  BY DEF ScopeType
<1>5. \A s \in DOMAIN scopes : Path(s) \in Seq(Nat) /\ Depth(s) = Len(Path(s))
  BY <1>3, <1>4 DEF Path, Depth
<1>6. \A p \in Seq(Nat) : Len(p) \in Nat /\ DOMAIN p = 1..Len(p)
  OBVIOUS
<1> QED BY <1>2, <1>3, <1>4, <1>5, <1>6

(* The tokens of a function after it are not functions: FunctionOf finds   *)
(* the one token that Holds.                                               *)
FunctionIn(tx, i) ==
  CHOOSE f \in 1..i : /\ tx[f].kind = "function"
                      /\ \A g \in (f + 1)..i : tx[g].kind # "function"

(* The last function before a token, with none after it, is its function.  *)
LEMMA FunctionIs ==
  ASSUME NEW tx, NEW i \in Nat, NEW f \in 1..i, tx[f].kind = "function",
         \A g \in (f + 1)..i : tx[g].kind # "function"
  PROVE  FunctionIn(tx, i) = f
<1>1. ASSUME NEW h \in 1..i, tx[h].kind = "function",
             \A g \in (h + 1)..i : tx[g].kind # "function"
      PROVE  h = f
  <2>1. ~(h < f)
    BY <1>1
  <2>2. ~(f < h)
    BY <1>1
  <2> QED BY <2>1, <2>2
<1> QED BY <1>1 DEF FunctionIn

(* What Holds token i does, by the kinds of the tokens from there to i.    *)
LEMMA HoldsKinds ==
  ASSUME NamesTypeOK, TreeInv, NEW i \in DOMAIN text, NEW f, Holds(f, i)
  PROVE  /\ f \in DOMAIN text /\ f < i /\ text[f].kind = "function"
         /\ \A g \in (f + 1)..i : /\ g \in DOMAIN text
                                  /\ text[g].kind \notin FileKinds
                                  /\ Depth(text[g].scope) >= 2
<1>1. DOMAIN text = 1..Len(text) /\ Len(text) \in Nat
  BY TextIs
<1>2. f \in 1..(i - 1) /\ text[f].kind = "function"
      /\ \A g \in (f + 1)..i : Depth(text[g].scope) >= 2
  BY DEF Holds, Within
<1>3. ASSUME NEW g \in (f + 1)..i
      PROVE  g \in DOMAIN text /\ text[g].kind \notin FileKinds
  <2>1. g \in DOMAIN text
    BY <1>1, <1>2
  <2>2. Depth(text[g].scope) >= 2 /\ TokenOK(g)
    BY <1>2, <2>1 DEF TreeInv
  <2>3. Depth(text[g].scope) # 1
    BY <2>2
  <2> QED BY <2>1, <2>2, <2>3 DEF TokenOK
<1> QED BY <1>1, <1>2, <1>3

(* The function that Holds a token is the one FunctionOf finds.            *)
LEMMA HoldsIs ==
  ASSUME NamesTypeOK, TreeInv, NEW i \in DOMAIN text, NEW f, Holds(f, i)
  PROVE  FunctionOf(i) = f /\ FunctionIn(text, i) = f
<1>1. i \in Nat /\ f \in 1..i /\ text[f].kind = "function"
  BY TextIs, HoldsKinds DEF Holds
<1>2. \A g \in (f + 1)..i : text[g].kind # "function"
  BY HoldsKinds DEF FileKinds
<1>3. FunctionIn(text, i) = f
  BY <1>1, <1>2, FunctionIs
<1> QED BY <1>3 DEF FunctionOf, FunctionIn

(* Tokens of one function in the table of owners are of one function.      *)
LEMMA OneFunction ==
  ASSUME NamesTypeOK, TreeInv, FunctionsOK, NEW i \in DOMAIN text, NEW j \in DOMAIN text,
         Depth(text[i].scope) >= 2, Depth(text[j].scope) >= 2,
         Path(text[i].scope)[2] = Path(text[j].scope)[2]
  PROVE  /\ FunctionOf(i) = FunctionOf(j)
         /\ Holds(FunctionOf(i), i) /\ Holds(FunctionOf(i), j)
<1>1. PICK f \in DOMAIN text : Holds(f, i)
  BY DEF FunctionsOK
<1>2. PICK g \in DOMAIN text : Holds(g, j)
  BY DEF FunctionsOK
<1>3. i \in Nat /\ j \in Nat /\ f \in 1..(i - 1) /\ g \in 1..(j - 1)
  BY <1>1, <1>2, TextIs DEF Holds
<1>4. Path(text[i].scope)[2] = text[f].own /\ Path(text[j].scope)[2] = text[g].own
  BY <1>1, <1>2, <1>3 DEF Holds, Within
<1>5. f = g
  BY <1>1, <1>2, <1>4 DEF TreeInv, OwnsDiffer, Holds
<1> QED BY <1>1, <1>2, <1>5, HoldsIs

(* A token that is not at the top of the file is held by its function.     *)
LEMMA FunctionHolds ==
  ASSUME NamesTypeOK, TreeInv, FunctionsOK, NEW i \in DOMAIN text,
         Depth(text[i].scope) >= 2
  PROVE  Holds(FunctionOf(i), i)
  BY OneFunction

(* Scope::get finds the innermost entry.                                   *)
Entry(s, k, n) == scopes[Path(s)[k]].table[n]

(* Scope::get has the entry of the innermost scope, or there is none.      *)
LEMMA GetIs ==
  ASSUME NamesTypeOK, ScopesOK, NEW s \in DOMAIN scopes, NEW n \in Idents
  PROVE  \/ Get(s, n) = 0 /\ \A k \in 1..Depth(s) : Entry(s, k, n) = 0
         \/ \E k \in 1..Depth(s) :
              /\ Get(s, n) = Entry(s, k, n) /\ Get(s, n) # 0
              /\ \A h \in (k + 1)..Depth(s) : Entry(s, h, n) = 0
<1> DEFINE having == {k \in DOMAIN Path(s) : Entry(s, k, n) # 0}
<1>1. DOMAIN Path(s) = 1..Depth(s) /\ Depth(s) \in Nat
  BY ScopeIs
<1>2. Get(s, n) = IF having = {} THEN 0
                  ELSE Entry(s, CHOOSE k \in having : \A h \in having : h <= k, n)
  BY DEF Get, Entry, Path
<1>3. CASE having = {}
  BY <1>1, <1>2, <1>3
<1>4. CASE having # {}
  <2>1. having \in SUBSET (0..Depth(s))
    BY <1>1
  <2>2. \E m \in having : \A h \in having : h <= m
    <3> HIDE DEF having
    <3> QED BY <1>1, <1>4, <2>1, Greatest
  <2> DEFINE m == CHOOSE k \in having : \A h \in having : h <= k
  <2>3. m \in having /\ \A h \in having : h <= m
    BY <2>2
  <2>4. Get(s, n) = Entry(s, m, n)
    BY <1>2, <1>4
  <2> HIDE DEF m
  <2>5. m \in 1..Depth(s) /\ Entry(s, m, n) # 0
    BY <2>3, <1>1
  <2>6. \A h \in (m + 1)..Depth(s) : Entry(s, h, n) = 0
    <3> SUFFICES ASSUME NEW h \in (m + 1)..Depth(s), Entry(s, h, n) # 0 PROVE FALSE
      OBVIOUS
    <3>1. h \in having
      BY <1>1, <2>5
    <3> QED BY <3>1, <2>3, <2>5
  <2> QED BY <2>4, <2>5, <2>6
<1> QED BY <1>3, <1>4

-----------------------------------------------------------------------------
(* What the parser puts down stays: tokens, scopes and entries are added.  *)
Kept ==
  /\ \A i \in DOMAIN text : i \in DOMAIN text' /\ text'[i] = text[i]
  /\ \A s \in DOMAIN scopes : s \in DOMAIN scopes' /\ scopes'[s].path = scopes[s].path
  /\ \A s \in DOMAIN scopes, n \in Idents :
       scopes[s].table[n] # 0 => scopes'[s].table[n] = scopes[s].table[n]

(* An entry of a table is set, and nothing else.                           *)
LEMMA SetEntry ==
  ASSUME NEW x \in ScopeType, NEW n \in Idents, NEW d \in Nat
  PROVE  /\ [x EXCEPT !.table[n] = d] \in ScopeType
         /\ [x EXCEPT !.table[n] = d].path = x.path
         /\ \A m \in Idents :
              [x EXCEPT !.table[n] = d].table[m] = IF m = n THEN d ELSE x.table[m]
<1> DEFINE t == [x.table EXCEPT ![n] = d]
<1>1. x.table \in [Idents -> Nat] /\ x.path \in Seq(Nat)
  BY DEF ScopeType
<1>2. t \in [Idents -> Nat] /\ \A m \in Idents : t[m] = IF m = n THEN d ELSE x.table[m]
  BY <1>1
<1>3. [x EXCEPT !.table[n] = d] = [x EXCEPT !.table = t]
  OBVIOUS
<1> HIDE DEF t
<1>4. [x EXCEPT !.table = t] \in ScopeType
      /\ [x EXCEPT !.table = t].path = x.path /\ [x EXCEPT !.table = t].table = t
  BY <1>1, <1>2 DEF ScopeType
<1> QED BY <1>2, <1>3, <1>4

(* Scope::add sets at most the entry it is asked for, which there was not. *)
LEMMA AddKeeps ==
  ASSUME NamesTypeOK, ScopesOK, NEW s \in DOMAIN scopes, NEW n \in Idents,
         NEW d \in Nat \ {0}, scopes' = Add(s, n, d)
  PROVE  /\ scopes' \in Seq(ScopeType) /\ DOMAIN scopes' = DOMAIN scopes
         /\ \A x \in DOMAIN scopes : scopes'[x].path = scopes[x].path
         /\ \A x \in DOMAIN scopes, m \in Idents :
              scopes'[x].table[m] = IF Get(s, n) = 0 /\ x = s /\ m = n THEN d
                                    ELSE scopes[x].table[m]
         /\ Get(s, n) = 0 => scopes[s].table[n] = 0
<1>1. scopes \in Seq(ScopeType)
  BY DEF NamesTypeOK
<1>2. \A x \in DOMAIN scopes :
        /\ scopes[x] \in ScopeType /\ scopes[x].table \in [Idents -> Nat]
        /\ scopes[x].path \in Seq(Nat)
  BY ScopeIs DEF Path
<1>3. Get(s, n) = 0 => scopes[s].table[n] = 0
  <2>1. ASSUME \A k \in 1..Depth(s) : Entry(s, k, n) = 0 PROVE scopes[s].table[n] = 0
    <3>1. Depth(s) \in 1..Depth(s) /\ Path(s)[Depth(s)] = s
      BY ScopeIs DEF ScopesOK
    <3> QED BY <3>1, <2>1 DEF Entry
  <2> QED BY <2>1, GetIs
<1>4. CASE Get(s, n) # 0
  <2>1. scopes' = scopes
    BY <1>4 DEF Add
  <2> QED BY <2>1, <1>1, <1>4
<1>5. CASE Get(s, n) = 0
  <2> DEFINE new == [scopes[s] EXCEPT !.table[n] = d]
  <2>1. scopes' = [scopes EXCEPT ![s] = new]
    BY <1>5 DEF Add
  <2>4. new \in ScopeType /\ new.path = scopes[s].path
        /\ \A m \in Idents : new.table[m] = IF m = n THEN d ELSE scopes[s].table[m]
    BY <1>2, SetEntry
  <2> HIDE DEF new
  <2>5. scopes' \in Seq(ScopeType) /\ DOMAIN scopes' = DOMAIN scopes
    BY <2>1, <2>4, <1>1
  <2>6. \A x \in DOMAIN scopes : scopes'[x] = IF x = s THEN new ELSE scopes[x]
    BY <2>1, <1>1
  <2>7. \A x \in DOMAIN scopes : scopes'[x].path = scopes[x].path
    BY <2>4, <2>6
  <2>8. \A x \in DOMAIN scopes, m \in Idents :
          scopes'[x].table[m] = IF Get(s, n) = 0 /\ x = s /\ m = n THEN d
                                ELSE scopes[x].table[m]
    BY <2>4, <2>6, <1>5
  <2> QED BY <2>5, <2>7, <2>8, <1>3
<1> QED BY <1>4, <1>5

(* Scopes whose paths stay are a tree as they were.                        *)
LEMMA SamePaths ==
  ASSUME ScopesOK, DOMAIN scopes' = DOMAIN scopes,
         \A x \in DOMAIN scopes : scopes'[x].path = scopes[x].path
  PROVE  ScopesOK'
<1>1. \A x \in DOMAIN scopes : Path(x)' = Path(x) /\ Depth(x)' = Depth(x)
  BY DEF Path, Depth
<1> QED BY <1>1 DEF ScopesOK

(* A new scope is within the one it is made in, and has nothing yet.       *)
LEMMA NewKeeps ==
  ASSUME NamesTypeOK, ScopesOK, scopes' = Append(scopes, NewScope(m_scope))
  PROVE  LET new == Len(scopes) + 1 IN
         /\ scopes' \in Seq(ScopeType)
         /\ DOMAIN scopes' = DOMAIN scopes \union {new} /\ new \notin DOMAIN scopes
         /\ \A x \in DOMAIN scopes : scopes'[x] = scopes[x]
         /\ scopes'[new].path = Append(Path(m_scope), new)
         /\ \A n \in Idents : scopes'[new].table[n] = 0
         /\ ScopesOK'
<1> DEFINE new == Len(scopes) + 1
<1>1. /\ scopes \in Seq(ScopeType) /\ m_scope \in DOMAIN scopes
      /\ DOMAIN scopes = 1..Len(scopes) /\ Len(scopes) \in Nat
  BY ScopeIs DEF NamesTypeOK
<1>2. Path(m_scope) \in Seq(Nat) /\ Depth(m_scope) = Len(Path(m_scope)) /\ Depth(m_scope) \in Nat
  BY <1>1, ScopeIs DEF Depth, Path
<1>3. NewScope(m_scope) = [path |-> Append(Path(m_scope), new), table |-> [n \in Idents |-> 0]]
  BY DEF NewScope, Path
<1>4. Append(Path(m_scope), new) \in Seq(Nat)
  BY <1>1, <1>2
<1>5. NewScope(m_scope) \in ScopeType
  BY <1>3, <1>4 DEF ScopeType
<1>6. scopes' \in Seq(ScopeType) /\ DOMAIN scopes' = DOMAIN scopes \union {new} /\ new \notin DOMAIN scopes
  BY <1>1, <1>5
<1>7. (\A x \in DOMAIN scopes : scopes'[x] = scopes[x]) /\ scopes'[new] = NewScope(m_scope)
  BY <1>1
<1>8. scopes'[new].path = Append(Path(m_scope), new) /\ \A n \in Idents : scopes'[new].table[n] = 0
  BY <1>3, <1>7
<1>9. ScopesOK'
  <2>1. \A x \in DOMAIN scopes : Path(x)' = Path(x) /\ Depth(x)' = Depth(x)
    BY <1>7 DEF Path, Depth
  <2>2. scopes'[new].path = Append(Path(m_scope), new) /\ Len(scopes'[new].path) = Depth(m_scope) + 1
    BY <1>8, <1>2, <1>4 DEF Path, Depth
  <2>3. /\ scopes'[new].path[Depth(m_scope) + 1] = new
        /\ \A k \in 1..Depth(m_scope) : scopes'[new].path[k] = Path(m_scope)[k]
    BY <2>2, <1>2
  <2>4. 1 \in DOMAIN scopes' /\ Depth(1)' = 1
    BY <1>6, <2>1 DEF ScopesOK
  <2>5. ASSUME NEW x \in DOMAIN scopes
        PROVE  /\ Len(scopes'[x].path) >= 1 /\ scopes'[x].path[1] = 1
               /\ scopes'[x].path[Len(scopes'[x].path)] = x
               /\ \A k \in 1..Len(scopes'[x].path) :
                    /\ scopes'[x].path[k] \in DOMAIN scopes'
                    /\ Len(scopes'[scopes'[x].path[k]].path) = k
                    /\ \A j \in 1..k : scopes'[scopes'[x].path[k]].path[j] = scopes'[x].path[j]
    <3>1. \A y \in DOMAIN scopes : y \in DOMAIN scopes' /\ scopes'[y].path = Path(y)
      BY <1>6, <1>7 DEF Path
    <3>2. \A y : Depth(y) = Len(Path(y))
      BY DEF Path, Depth
    <3>3. /\ Len(Path(x)) >= 1 /\ Path(x)[1] = 1 /\ Path(x)[Len(Path(x))] = x
          /\ \A k \in 1..Len(Path(x)) :
               /\ Path(x)[k] \in DOMAIN scopes
               /\ Len(Path(Path(x)[k])) = k
               /\ \A j \in 1..k : Path(Path(x)[k])[j] = Path(x)[j]
      BY <3>2 DEF ScopesOK
    <3> QED BY <3>1, <3>3
  <2>6. ASSUME NEW k \in 1..(Depth(m_scope) + 1)
        PROVE  /\ scopes'[new].path[k] \in DOMAIN scopes'
               /\ Len(scopes'[scopes'[new].path[k]].path) = k
               /\ \A j \in 1..k : scopes'[scopes'[new].path[k]].path[j] = scopes'[new].path[j]
    <3>1. CASE k = Depth(m_scope) + 1
      BY <3>1, <2>2, <2>3, <1>6 DEF Path, Depth
    <3>2. CASE k # Depth(m_scope) + 1
      <4>1. k \in 1..Depth(m_scope)
        BY <3>2, <1>2
      <4>2. /\ Path(m_scope)[k] \in DOMAIN scopes /\ Depth(Path(m_scope)[k]) = k
            /\ \A j \in 1..k : Path(Path(m_scope)[k])[j] = Path(m_scope)[j]
        BY <4>1, <1>1 DEF ScopesOK
      <4>3. \A j \in 1..k : j \in 1..Depth(m_scope)
        BY <4>1, <1>2
      <4> QED BY <4>1, <4>2, <4>3, <2>3, <1>6, <1>7 DEF Path, Depth
    <3> QED BY <3>1, <3>2
  <2>7. Len(scopes'[new].path) >= 1 /\ scopes'[new].path[1] = 1 /\ scopes'[new].path[Len(scopes'[new].path)] = new
    <3>1. Depth(m_scope) >= 1 /\ Path(m_scope)[1] = 1
      BY <1>1 DEF ScopesOK
    <3> QED BY <3>1, <2>2, <2>3, <1>2
  <2>8. \A x \in DOMAIN scopes' : x \in DOMAIN scopes \/ x = new
    BY <1>6
  <2> HIDE DEF new
  <2>9. ASSUME NEW x \in DOMAIN scopes'
        PROVE  /\ Len(scopes'[x].path) >= 1 /\ scopes'[x].path[1] = 1
               /\ scopes'[x].path[Len(scopes'[x].path)] = x
               /\ \A k \in 1..Len(scopes'[x].path) :
                    /\ scopes'[x].path[k] \in DOMAIN scopes'
                    /\ Len(scopes'[scopes'[x].path[k]].path) = k
                    /\ \A j \in 1..k : scopes'[scopes'[x].path[k]].path[j] = scopes'[x].path[j]
    <3>1. CASE x \in DOMAIN scopes
      BY <3>1, <2>5
    <3>2. CASE x = new
      BY <3>2, <2>2, <2>6, <2>7
    <3> QED BY <3>1, <3>2, <2>8
  <2> QED BY <2>4, <2>9 DEF ScopesOK, Path, Depth
<1> QED BY <1>6, <1>7, <1>8, <1>9

(* A step of the parser, or a name that is loaded, puts token t down at the*)
(* end.                                                                    *)
Puts(t) ==
  /\ stage \in {"parse", "load"} /\ stage' = stage
  /\ t \in TokenType /\ t.scope = m_scope /\ text' = Append(text, t)
  /\ Kept

(* A token that is put down is the last; the others stay.                  *)
LEMMA PutIs ==
  ASSUME NamesTypeOK, NEW t, Puts(t), NEW new, new = Len(text) + 1
  PROVE  /\ text' \in Seq(TokenType)
         /\ DOMAIN text' = 1..new /\ Len(text') = new /\ new \notin DOMAIN text
         /\ DOMAIN text' = DOMAIN text \union {new}
         /\ text'[new] = t /\ \A i \in DOMAIN text : text'[i] = text[i]
         /\ text' # <<>>
<1>1. text \in Seq(TokenType) /\ t \in TokenType /\ text' = Append(text, t)
  BY DEF Puts, NamesTypeOK
<1> QED BY <1>1

(* Paths stay, so scopes are where they were.                              *)
LEMMA KeptPaths ==
  ASSUME NamesTypeOK, ScopesOK, Kept, NEW s \in DOMAIN scopes
  PROVE  /\ s \in DOMAIN scopes'
         /\ Path(s)' = Path(s) /\ Depth(s)' = Depth(s) /\ Parent(s)' = Parent(s)
  BY DEF Kept, Path, Depth, Parent

(* A token stays where it may stand, and leads to the same scope.          *)
LEMMA KeptToken ==
  ASSUME NamesTypeOK, TreeInv, Kept, NEW i \in DOMAIN text
  PROVE  /\ TokenOK(i)' /\ After(i)' = After(i)
         /\ Depth(text[i].scope)' = Depth(text[i].scope)
<1>1. text'[i] = text[i] /\ TokenOK(i)
  BY DEF Kept, TreeInv
<1>2. text[i].scope \in DOMAIN scopes
  BY <1>1 DEF TokenOK
<1>3. /\ text[i].scope \in DOMAIN scopes'
      /\ Len(scopes'[text[i].scope].path) = Depth(text[i].scope)
      /\ scopes'[text[i].scope].path = Path(text[i].scope)
  BY <1>2 DEF Kept, Path, Depth
<1>4. text[i].own \in DOMAIN scopes =>
      /\ text[i].own \in DOMAIN scopes'
      /\ Len(scopes'[text[i].own].path) = Depth(text[i].own)
      /\ scopes'[text[i].own].path = Path(text[i].own)
  BY DEF Kept, Path, Depth
<1>5. TokenOK(i)'
  BY <1>1, <1>3, <1>4 DEF TokenOK, Depth, Parent, Path, Openers
<1>6. After(i)' = After(i)
  BY <1>1, <1>3 DEF After, Parent, Depth, Path
<1>7. Depth(text[i].scope)' = Depth(text[i].scope)
  BY <1>1, <1>3 DEF Depth
<1> QED BY <1>5, <1>6, <1>7

(* A scope stays within its function.                                      *)
LEMMA KeptWithin ==
  ASSUME NamesTypeOK, TreeInv, Kept, NEW i \in DOMAIN text, NEW s \in DOMAIN scopes
  PROVE  Within(i, s)' <=> Within(i, s)
<1>1. text'[i] = text[i] /\ scopes'[s].path = scopes[s].path
  BY DEF Kept
<1> QED BY <1>1 DEF Within, Depth, Path

(* A function holds what it held, and is found for it as before.           *)
LEMMA KeptHolds ==
  ASSUME NamesTypeOK, TreeInv, Kept, NEW i \in DOMAIN text, NEW f, Holds(f, i)
  PROVE  Holds(f, i)' /\ FunctionOf(i)' = f
<1>1. /\ f \in DOMAIN text /\ f \in 1..(i - 1) /\ text[f].kind = "function"
      /\ \A g \in (f + 1)..i : g \in DOMAIN text /\ Within(f, text[g].scope)
      /\ \A g \in (f + 1)..i : text[g].kind # "function"
  BY HoldsKinds DEF Holds, FileKinds
<1>2. text'[f] = text[f] /\ \A g \in (f + 1)..i : text'[g] = text[g]
  BY <1>1 DEF Kept
<1>3. ASSUME NEW g \in (f + 1)..i PROVE Within(f, text[g].scope)'
  <2>1. g \in DOMAIN text /\ text'[g] = text[g] /\ Within(f, text[g].scope)
    BY <1>1, <1>2
  <2>2. text[g].scope \in DOMAIN scopes
    BY <2>1 DEF TreeInv, TokenOK
  <2>3. scopes'[text[g].scope].path = scopes[text[g].scope].path
    BY <2>2 DEF Kept
  <2> QED BY <2>1, <2>3, <1>2 DEF Within, Depth, Path
<1>4. Holds(f, i)'
  BY <1>1, <1>2, <1>3 DEF Holds
<1>5. i \in Nat /\ f \in 1..i
  BY <1>1, TextIs
<1>6. FunctionIn(text', i) = f
  <2>1. text'[f].kind = "function" /\ \A g \in (f + 1)..i : text'[g].kind # "function"
    BY <1>1, <1>2
  <2> QED BY <2>1, <1>5, FunctionIs
<1>7. FunctionOf(i)' = f
  BY <1>6 DEF FunctionOf, FunctionIn
<1> QED BY <1>4, <1>7

(* The tree after a step that puts a token where it may stand.             *)
LEMMA PutTree ==
  ASSUME NamesTypeOK, TreeInv, NEW t, Puts(t), ScopesOK', TokenOK(Len(text))',
         t.kind = "function" => t.own \notin DOMAIN scopes
  PROVE  TreeInv'
<1> DEFINE new == Len(text) + 1
<1>1. /\ DOMAIN text' = DOMAIN text \union {new} /\ new \notin DOMAIN text
      /\ text'[new] = t /\ (\A i \in DOMAIN text : text'[i] = text[i])
      /\ Len(text') = new
  BY PutIs
<1>2. \A i \in DOMAIN text : TokenOK(i)'
  BY KeptToken DEF Puts
<1>3. \A i \in DOMAIN text' : TokenOK(i)'
  <2> SUFFICES ASSUME NEW i \in DOMAIN text' PROVE TokenOK(i)'
    OBVIOUS
  <2>1. CASE i \in DOMAIN text
    BY <2>1, <1>2
  <2>2. CASE i = Len(text')
    BY <2>2
  <2> QED BY <2>1, <2>2, <1>1
<1>4. \A i \in DOMAIN text : text[i].kind = "function" => text[i].own \in DOMAIN scopes
  BY DEF TreeInv, TokenOK, Openers
<1>5. OwnsDiffer'
  BY <1>1, <1>4 DEF TreeInv, OwnsDiffer
<1> QED BY <1>3, <1>5 DEF TreeInv

(* A token that is put down stands where the parser was.                   *)
LEMMA PutFlow ==
  ASSUME NamesTypeOK, TreeInv, FlowOK, BoundsOK, NEW t, Puts(t), m_scope' = After(Len(text))',
         stage = "load" => m_scope' = 1
  PROVE  FlowOK'
<1> DEFINE new == Len(text) + 1
<1>1. /\ DOMAIN text' = 1..new /\ Len(text') = new
      /\ text'[new] = t /\ \A i \in DOMAIN text : text'[i] = text[i]
      /\ DOMAIN text = 1..Len(text) /\ Len(text) \in Nat
  BY PutIs, TextIs
<1>2. \A i \in DOMAIN text : After(i)' = After(i)
  BY KeptToken DEF Puts
<1>3. stage' = stage /\ t.scope = m_scope
      /\ m_scope = IF text = <<>> THEN 1 ELSE After(Len(text))
  <2>1. stage = "load" => text # <<>>
    BY DEF BoundsOK
  <2> QED BY <2>1 DEF Puts, FlowOK
<1>4. text'[1].scope = 1
  <2>1. CASE text = <<>>
    <3>1. Len(text) = 0
      BY <2>1
    <3> QED BY <3>1, <2>1, <1>1, <1>3 DEF FlowOK
  <2>2. CASE text # <<>>
    <3>1. 1 \in DOMAIN text
      <4>1. Len(text) # 0
        BY <2>2 DEF NamesTypeOK
      <4> QED BY <4>1, <1>1
    <3> QED BY <3>1, <2>2, <1>1 DEF FlowOK
  <2> QED BY <2>1, <2>2
<1>5. ASSUME NEW i \in DOMAIN text', i + 1 \in DOMAIN text'
      PROVE  text'[i + 1].scope = After(i)'
  <2>1. i \in DOMAIN text
    BY <1>5, <1>1
  <2>2. CASE i + 1 \in DOMAIN text
    BY <2>1, <2>2, <1>1, <1>2 DEF FlowOK
  <2>3. CASE i + 1 = new
    <3>1. i = Len(text) /\ text # <<>>
      BY <2>1, <2>3, <1>1
    <3>2. m_scope = After(Len(text))
      BY <3>1, <1>3 DEF FlowOK
    <3> QED BY <3>1, <3>2, <2>1, <2>3, <1>1, <1>2, <1>3
  <2> QED BY <2>2, <2>3, <1>5, <1>1
<1>6. text' # <<>> /\ stage' \in {"parse", "load"} /\ stage' = stage
  BY PutIs DEF Puts
<1>7. stage' = "load" => m_scope' = 1 /\ After(Len(text))' = 1
  BY <1>6
<1> QED BY <1>4, <1>5, <1>6, <1>7 DEF FlowOK

(* The parser stays in its function until it is closed.                    *)
LEMMA PutFunctions ==
  ASSUME NamesTypeOK, TreeInv, FlowOK, FunctionsOK, NEW t, Puts(t), m_scope' \in DOMAIN scopes',
         Depth(m_scope)' >= 2 =>
           \/ t.kind = "function" /\ Within(Len(text), m_scope)'
           \/ Depth(m_scope) >= 2 /\ Path(m_scope)'[2] = Path(m_scope)[2]
  PROVE  FunctionsOK'
<1> DEFINE new == Len(text) + 1
<1>1. /\ DOMAIN text' = 1..new /\ Len(text') = new
      /\ text'[new] = t /\ \A i \in DOMAIN text : text'[i] = text[i]
      /\ DOMAIN text = 1..Len(text) /\ Len(text) \in Nat
  BY PutIs, TextIs
<1>2. m_scope \in DOMAIN scopes /\ t.scope = m_scope /\ Kept
      /\ (stage = "parse" \/ Depth(m_scope) = 1)
  BY DEF NamesTypeOK, Puts, FlowOK, TreeInv, ScopesOK
<1>3. ASSUME NEW i \in DOMAIN text, Depth(text[i].scope)' >= 2
      PROVE  \E f \in DOMAIN text' : Holds(f, i)'
  <2>1. Depth(text[i].scope) >= 2
    BY <1>2, <1>3, KeptToken
  <2>2. PICK f \in DOMAIN text : Holds(f, i)
    BY <2>1 DEF FunctionsOK
  <2> QED BY <2>2, <1>1, <1>2, KeptHolds
<1>4. ASSUME Depth(m_scope) >= 2
      PROVE  \E f \in DOMAIN text : Parsing(f) /\ f \in DOMAIN text' /\ text'[f].kind = "function"
               /\ \A g \in (f + 1)..new : /\ g \in DOMAIN text'
                                          /\ Len(scopes'[text'[g].scope].path) >= 2
                                          /\ scopes'[text'[g].scope].path[2] = text'[f].own
  <2>1. PICK f \in DOMAIN text : Parsing(f)
    BY <1>2, <1>4 DEF FunctionsOK
  <2>2. text'[f] = text[f] /\ text[f].kind = "function" /\ f \in DOMAIN text'
    BY <2>1, <1>1 DEF Parsing
  <2>3. ASSUME NEW g \in (f + 1)..new
        PROVE  /\ g \in DOMAIN text' /\ text'[g].scope \in DOMAIN scopes
               /\ Within(f, text'[g].scope)
    <3>1. CASE g \in DOMAIN text
      BY <3>1, <2>1, <1>1 DEF Parsing, TreeInv, TokenOK
    <3>2. CASE g = new
      BY <3>2, <2>1, <1>1, <1>2 DEF Parsing
    <3> QED BY <3>1, <3>2, <1>1
  <2>4. ASSUME NEW g \in (f + 1)..new
        PROVE  /\ Len(scopes'[text'[g].scope].path) >= 2
               /\ scopes'[text'[g].scope].path[2] = text'[f].own
    BY <2>2, <2>3, <1>2 DEF Within, Depth, Path, Kept
  <2> QED BY <2>1, <2>2, <2>3, <2>4
<1>5. ASSUME Depth(t.scope)' >= 2 PROVE \E f \in DOMAIN text' : Holds(f, Len(text))'
  <2>1. Depth(m_scope) >= 2
    BY <1>5, <1>2 DEF Kept, Depth
  <2>2. PICK f \in DOMAIN text : f \in DOMAIN text' /\ text'[f].kind = "function"
               /\ \A g \in (f + 1)..new : /\ Len(scopes'[text'[g].scope].path) >= 2
                                          /\ scopes'[text'[g].scope].path[2] = text'[f].own
    BY <2>1, <1>4
  <2>3. f \in 1..(new - 1)
    BY <1>1, <2>2
  <2>4. \A g \in (f + 1)..Len(text') :
          Len(scopes'[text'[g].scope].path) >= 2 /\ scopes'[text'[g].scope].path[2] = text'[f].own
    BY <2>2, <1>1
  <2>5. Holds(f, Len(text))'
    BY <2>2, <2>3, <2>4, <1>1 DEF Holds, Within, Depth, Path
  <2> QED BY <2>2, <2>5, <1>1
<1>6. ASSUME Depth(m_scope)' >= 2 PROVE \E f \in DOMAIN text' : Parsing(f)'
  <2>1. CASE t.kind = "function" /\ Within(Len(text), m_scope)'
    <3>1. Parsing(Len(text))'
      BY <2>1, <1>1 DEF Parsing
    <3> QED BY <3>1, <1>1
  <2>2. CASE Depth(m_scope) >= 2 /\ Path(m_scope)'[2] = Path(m_scope)[2]
    <3>1. PICK f \in DOMAIN text : Parsing(f) /\ f \in DOMAIN text' /\ text'[f].kind = "function"
               /\ \A g \in (f + 1)..new : /\ Len(scopes'[text'[g].scope].path) >= 2
                                          /\ scopes'[text'[g].scope].path[2] = text'[f].own
      BY <2>2, <1>4
    <3>2. Path(m_scope)[2] = text[f].own /\ text'[f] = text[f]
      BY <3>1, <1>1 DEF Parsing, Within
    <3>3. Within(f, m_scope)'
      BY <3>2, <2>2, <1>6 DEF Within
    <3>4. \A g \in (f + 1)..Len(text') :
            Len(scopes'[text'[g].scope].path) >= 2 /\ scopes'[text'[g].scope].path[2] = text'[f].own
      BY <3>1, <1>1
    <3>5. Parsing(f)'
      BY <3>1, <3>3, <3>4 DEF Parsing, Within, Depth, Path
    <3> QED BY <3>1, <3>5
  <2> QED BY <2>1, <2>2, <1>6
<1>7. ASSUME NEW i \in DOMAIN text', Depth(text[i].scope)' >= 2
      PROVE  \E f \in DOMAIN text' : Holds(f, i)'
  <2>1. CASE i \in DOMAIN text
    BY <2>1, <1>3, <1>7
  <2>2. CASE i = Len(text')
    <3>1. Depth(t.scope)' >= 2
      BY <2>2, <1>1, <1>7
    <3> QED BY <2>2, <3>1, <1>5
  <2> QED BY <2>1, <2>2, <1>1
<1> QED BY <1>6, <1>7 DEF FunctionsOK

(* A parameter or a body that is put down follows its function.            *)
LEMMA PutHeaders ==
  ASSUME NamesTypeOK, TreeInv, HeadersOK, NEW t, Puts(t),
         Heads(Len(text))' => LastKind \in {"function", "param"}
  PROVE  HeadersOK'
<1> DEFINE new == Len(text) + 1
<1>1. /\ DOMAIN text' = 1..new /\ Len(text') = new
      /\ text'[new] = t /\ \A i \in DOMAIN text : text'[i] = text[i]
      /\ DOMAIN text = 1..Len(text) /\ Len(text) \in Nat
  BY PutIs, TextIs
<1>2. ASSUME NEW i \in DOMAIN text, Heads(i)'
      PROVE  \E f \in 1..(i - 1) : /\ text'[f].kind = "function"
                                   /\ \A e \in (f + 1)..(i - 1) : text'[e].kind = "param"
  <2>1. Heads(i)
    BY <1>1, <1>2, KeptToken DEF Heads, Puts
  <2> QED BY <2>1, <1>1 DEF HeadersOK
<1>3. ASSUME LastKind \in {"function", "param"}
      PROVE  \E f \in 1..(new - 1) : /\ text'[f].kind = "function"
                                     /\ \A e \in (f + 1)..(new - 1) : text'[e].kind = "param"
  <2>1. text # <<>> /\ text[Len(text)].kind \in {"function", "param"}
    BY <1>3 DEF LastKind
  <2>2. Len(text) \in DOMAIN text
    BY <2>1, <1>1 DEF NamesTypeOK
  <2>3. CASE text[Len(text)].kind = "function"
    BY <2>2, <2>3, <1>1
  <2>4. CASE text[Len(text)].kind = "param"
    <3>1. PICK f \in 1..(Len(text) - 1) :
             /\ text[f].kind = "function"
             /\ \A e \in (f + 1)..(Len(text) - 1) : text[e].kind = "param"
      BY <2>2, <2>4 DEF HeadersOK, Heads
    <3>2. \A e \in (f + 1)..(new - 1) : text'[e].kind = "param"
      BY <3>1, <2>2, <2>4, <1>1
    <3> QED BY <3>1, <3>2, <1>1
  <2> QED BY <2>1, <2>3, <2>4
<1>4. ASSUME NEW i \in DOMAIN text', Heads(i)'
      PROVE  \E f \in 1..(i - 1) : /\ text'[f].kind = "function"
                                   /\ \A e \in (f + 1)..(i - 1) : text'[e].kind = "param"
  <2>1. CASE i \in DOMAIN text
    BY <2>1, <1>2, <1>4
  <2>2. CASE i = new
    <3>1. Heads(Len(text))'
      BY <2>2, <1>1, <1>4 DEF Heads
    <3> QED BY <2>2, <3>1, <1>3
  <2> QED BY <2>1, <2>2, <1>1
<1> QED BY <1>4 DEF HeadersOK

(* Entries stay, so what has one keeps it.                                 *)
LEMMA KeptEntries ==
  ASSUME NamesTypeOK, TreeInv, FunctionsOK, Kept, NEW i \in DOMAIN text
  PROVE  /\ text[i].kind \in FileKinds /\ FileEntry(i) => FileEntry(i)'
         /\ text[i].kind \in LocalKinds /\ text[i].name # Unnamed /\ LocalEntry(i)
              => LocalEntry(i)'
<1>1. text'[i] = text[i] /\ TokenOK(i) /\ text[i].scope \in DOMAIN scopes /\ i \in Nat
      /\ i \in DOMAIN text'
  BY TextIs DEF Kept, TreeInv, TokenOK
<1>2. ASSUME text[i].kind \in FileKinds, FileEntry(i) PROVE FileEntry(i)'
  <2>1. text[i].name \in Idents /\ 1 \in DOMAIN scopes
    BY <1>1, <1>2 DEF TokenOK, TreeInv, ScopesOK
  <2>2. scopes'[1].table[text[i].name] = scopes[1].table[text[i].name]
    BY <2>1, <1>1, <1>2 DEF FileEntry, Kept
  <2> QED BY <2>2, <1>1, <1>2 DEF FileEntry
<1>3. ASSUME text[i].kind \in LocalKinds, text[i].name # Unnamed, LocalEntry(i)
      PROVE  LocalEntry(i)'
  <2> DEFINE p == Path(text[i].scope)
             n == text[i].name
  <2>1. n \in Idents
    BY <1>3, TextIs DEF AllNames
  <2>2. PICK k \in 1..Depth(text[i].scope) :
           /\ scopes[p[k]].table[n] \in 1..i
           /\ k = 1 => scopes[p[k]].table[n] < FunctionOf(i)
    BY <1>3 DEF LocalEntry
  <2>3. p[k] \in DOMAIN scopes
    BY <1>1, <2>2 DEF TreeInv, ScopesOK
  <2>4. scopes'[p[k]].table[n] = scopes[p[k]].table[n]
    BY <1>1, <2>1, <2>2, <2>3 DEF Kept
  <2>5. FunctionOf(i)' = FunctionOf(i)
    <3>1. ScopesOK /\ Depth(text[i].scope) # 1 /\ Depth(text[i].scope) \in Nat
      BY <1>1, <1>3, ScopeIs DEF TokenOK, FileKinds, LocalKinds, TreeInv
    <3>2. Depth(text[i].scope) >= 2
      BY <3>1, <1>1 DEF ScopesOK
    <3>3. Holds(FunctionOf(i), i)
      BY <3>2, FunctionHolds
    <3> QED BY <3>3, KeptHolds
  <2>6. Path(text[i].scope)' = p /\ Depth(text[i].scope)' = Depth(text[i].scope)
    BY <1>1, KeptToken DEF Kept, Path
  <2> QED BY <1>1, <2>2, <2>4, <2>5, <2>6 DEF LocalEntry
<1> QED BY <1>2, <1>3

(* The tables after a step, from what it adds to them.                     *)
LEMMA PutTables ==
  ASSUME NamesTypeOK, TreeInv, FunctionsOK, TablesOK, NEW t, Puts(t), EntriesOK',
         \A i \in DOMAIN text :
           text[i].kind \in FileKinds /\ Entered(i)' => Entered(i) \/ FileEntry(i)',
         t.kind \in FileKinds /\ Entered(Len(text))' => FileEntry(Len(text))',
         t.kind \in LocalKinds /\ t.name # Unnamed => LocalEntry(Len(text))',
         \A i \in DOMAIN text' : Entered(i)' \/ \A n \in Idents : scopes'[1].table[n] # i
  PROVE  TablesOK'
<1> DEFINE new == Len(text) + 1
<1>1. /\ DOMAIN text' = 1..new /\ Len(text') = new
      /\ text'[new] = t /\ \A i \in DOMAIN text : text'[i] = text[i]
      /\ DOMAIN text = 1..Len(text) /\ Len(text) \in Nat
  BY PutIs, TextIs
<1>2. Kept
  BY DEF Puts
<1>3. ASSUME NEW i \in DOMAIN text', text'[i].kind \in FileKinds, Entered(i)'
      PROVE  FileEntry(i)'
  <2>1. CASE i \in DOMAIN text
    BY <2>1, <1>1, <1>2, <1>3, KeptEntries DEF TablesOK
  <2>2. CASE i = Len(text')
    BY <2>2, <1>1, <1>3
  <2> QED BY <2>1, <2>2, <1>1
<1>4. ASSUME NEW i \in DOMAIN text', text'[i].kind \in LocalKinds, text'[i].name # Unnamed
      PROVE  LocalEntry(i)'
  <2>1. CASE i \in DOMAIN text
    BY <2>1, <1>1, <1>2, <1>4, KeptEntries DEF TablesOK
  <2>2. CASE i = Len(text')
    BY <2>2, <1>1, <1>4
  <2> QED BY <2>1, <2>2, <1>1
<1> QED BY <1>3, <1>4 DEF TablesOK

(* The passes have not begun.                                              *)
LEMMA WaitingPass ==
  ASSUME PassInv, stage \in {"parse", "load"}, stage' \in {"parse", "load", "conflict"},
         UNCHANGED <<at, denotes, declared, locals, slot>>, text' \in Seq(TokenType),
         stage' = "load" => text' # <<>>
  PROVE  PassInv'
<1>1. /\ at' = at /\ denotes' = denotes /\ declared' = declared /\ locals' = locals /\ slot' = slot
      /\ at = 1
  BY DEF PassInv, BoundsOK
<1>2. BoundsOK'
  BY <1>1 DEF BoundsOK
<1>3. \A r \in DOMAIN text' : ~(r < 1)
  OBVIOUS
<1>4. /\ Limit("analyse", {"declare", "lower", "done"})' = 1
      /\ Limit("declare", {"lower", "done"})' = 1
      /\ Limit("lower", {"done"})' = 1
  BY DEF Limit
<1>5. DenotesOK' /\ SlotsOK'
  BY <1>3, <1>4 DEF DenotesOK, SlotsOK
<1>6. DeclaredOK'
  <2>1. \A space \in {"symbol", "type"}, n \in Idents : declared[space][n] = 0
    BY DEF PassInv, DeclaredOK
  <2> QED BY <2>1, <1>1, <1>3, <1>4 DEF DeclaredOK
<1>7. LocalsOK' /\ FailuresJustified'
  BY DEF LocalsOK, FailuresJustified
<1> QED BY <1>2, <1>5, <1>6, <1>7 DEF PassInv

(* The whole of it: what a step of the parser has to show.                 *)
LEMMA PutInv ==
  ASSUME NamesInv, NEW t, Puts(t), UNCHANGED <<at, denotes, declared, locals, slot>>,
         stage = "load" => m_scope' = 1,
         scopes' \in Seq(ScopeType), m_scope' \in DOMAIN scopes', ScopesOK',
         TokenOK(Len(text))', t.kind = "function" => t.own \notin DOMAIN scopes,
         m_scope' = After(Len(text))',
         Depth(m_scope)' >= 2 =>
           \/ t.kind = "function" /\ Within(Len(text), m_scope)'
           \/ Depth(m_scope) >= 2 /\ Path(m_scope)'[2] = Path(m_scope)[2],
         Heads(Len(text))' => LastKind \in {"function", "param"},
         EntriesOK',
         \A i \in DOMAIN text :
           text[i].kind \in FileKinds /\ Entered(i)' => Entered(i) \/ FileEntry(i)',
         t.kind \in FileKinds /\ Entered(Len(text))' => FileEntry(Len(text))',
         t.kind \in LocalKinds /\ t.name # Unnamed => LocalEntry(Len(text))',
         \A i \in DOMAIN text' : Entered(i)' \/ \A n \in Idents : scopes'[1].table[n] # i
  PROVE  NamesInv'
<1> USE DEF NamesInv, ParseInv
<1>1. text' \in Seq(TokenType)
  BY PutIs
<1>2. NamesTypeOK'
  BY <1>1 DEF NamesTypeOK, Puts
<1>3. TreeInv'
  BY PutTree
<1>4. FlowOK'
  BY PutFlow DEF PassInv
<1>5. FunctionsOK'
  BY PutFunctions
<1>6. HeadersOK'
  BY PutHeaders
<1>7. TablesOK'
  BY PutTables
<1>8. PassInv'
  <2>1. text' # <<>>
    BY PutIs
  <2> QED BY <1>1, <2>1, WaitingPass DEF Puts
<1> QED BY <1>2, <1>3, <1>4, <1>5, <1>6, <1>7, <1>8

(* A scope other than the file's is in the one before it on its path.      *)
LEMMA Ends ==
  ASSUME NamesTypeOK, ScopesOK, NEW s \in DOMAIN scopes
  PROVE  /\ Depth(s) \in Nat \ {0} /\ (Depth(s) = 1 <=> s = 1)
         /\ Depth(s) >= 2 => /\ Parent(s) \in DOMAIN scopes
                             /\ Depth(Parent(s)) = Depth(s) - 1
                             /\ Parent(s) = Path(s)[Depth(s) - 1]
         /\ Depth(s) > 2 => Path(Parent(s))[2] = Path(s)[2]
<1>1. /\ Depth(s) \in Nat /\ Depth(s) >= 1 /\ Path(s)[1] = 1 /\ Path(s)[Depth(s)] = s
      /\ Depth(1) = 1
      /\ \A k \in 1..Depth(s) :
            /\ Path(s)[k] \in DOMAIN scopes
            /\ Depth(Path(s)[k]) = k
            /\ \A j \in 1..k : Path(Path(s)[k])[j] = Path(s)[j]
  BY ScopeIs DEF ScopesOK
<1>2. Depth(s) = 1 => s = 1
  BY <1>1
<1>3. Parent(s) = Path(s)[Depth(s) - 1]
  BY DEF Parent, Path
<1>4. Depth(s) >= 2 => Depth(s) - 1 \in 1..Depth(s)
  BY <1>1
<1>5. Depth(s) > 2 => 2 \in 1..(Depth(s) - 1)
  BY <1>1
<1> QED BY <1>1, <1>2, <1>3, <1>4, <1>5

(* A definition that is added to the scope it stands in.                   *)
LEMMA AddedDefinition ==
  ASSUME NamesInv, NEW kind, NEW n \in Idents, UNCHANGED <<at, denotes, declared, locals, slot, stage>>,
         text' = Append(text, Token(kind, n, 0)),
         scopes' = Add(m_scope, n, Here), m_scope' = m_scope,
         stage = "parse" \/ (stage = "load" /\ kind = "loaded"),
         \/ kind \in {"global", "type", "loaded"} /\ Depth(m_scope) = 1
         \/ kind = "param" /\ Depth(m_scope) = 2 /\ LastKind \in {"function", "param"}
         \/ kind = "let" /\ Depth(m_scope) > 2
  PROVE  NamesInv'
<1> USE DEF NamesInv, ParseInv, TreeInv
<1> DEFINE t == Token(kind, n, 0)
           new == Len(text) + 1
           s == m_scope
<1>1. /\ t.kind = kind /\ t.name = n /\ t.scope = m_scope /\ t.own = 0
      /\ kind \in {"global", "type", "loaded", "param", "let"}
  BY DEF Token
<1>2. t \in TokenType
  <2>1. m_scope \in Nat
    BY ScopeIs DEF NamesTypeOK
  <2> QED BY <1>1, <2>1 DEF Token, TokenType, Kinds, FileKinds, LocalKinds, AllNames
<1>3. stage \in {"parse", "load"} /\ stage' = stage /\ s \in DOMAIN scopes /\ new \in Nat \ {0}
      /\ (kind \in LocalKinds => stage = "parse")
  BY TextIs DEF NamesTypeOK, LocalKinds
<1>4. /\ scopes' \in Seq(ScopeType) /\ DOMAIN scopes' = DOMAIN scopes
      /\ \A x \in DOMAIN scopes : scopes'[x].path = scopes[x].path
      /\ \A x \in DOMAIN scopes, m \in Idents :
           scopes'[x].table[m] = IF Get(s, n) = 0 /\ x = s /\ m = n THEN new
                                 ELSE scopes[x].table[m]
      /\ Get(s, n) = 0 => scopes[s].table[n] = 0
  BY <1>3, AddKeeps DEF Here
<1> HIDE DEF t
<1>5. text \in Seq(TokenType) /\ text' = Append(text, t)
  BY DEF NamesTypeOK, t
<1>6. /\ \A i \in DOMAIN text : i \in DOMAIN text' /\ text'[i] = text[i]
      /\ DOMAIN text' = DOMAIN text \union {new} /\ new \notin DOMAIN text /\ Len(text') = new
      /\ text'[new] = t /\ DOMAIN text = 1..Len(text) /\ Len(text) \in Nat
  BY <1>2, <1>5
<1>7. Kept
  BY <1>4, <1>6 DEF Kept
<1>8. Puts(t)
  BY <1>1, <1>2, <1>3, <1>5, <1>7 DEF Puts
<1>9. ScopesOK'
  BY <1>4, SamePaths
<1>10. Depth(m_scope)' = Depth(m_scope) /\ Path(m_scope)' = Path(m_scope)
  BY <1>3, <1>4 DEF Depth, Path
<1>11. Depth(m_scope) \in Nat \ {0} /\ (Depth(m_scope) = 1 <=> m_scope = 1)
  BY <1>3, Ends
<1>12. Len(scopes'[t.scope].path) = Depth(m_scope)
  BY <1>1, <1>3, <1>4 DEF Depth
<1>13. TokenOK(Len(text))'
  <2> DEFINE depth == Depth(m_scope)
  <2>1. depth \in Nat /\ Len(scopes'[t.scope].path) = depth /\ t.scope \in DOMAIN scopes'
        /\ text'[Len(text')] = t
    BY <1>1, <1>3, <1>4, <1>6, <1>11, <1>12
  <2>2. /\ t.kind \in FileKinds <=> depth = 1
        /\ t.kind \in {"param", "end"} => depth = 2
        /\ t.kind \in {"let", "close"} \union RefKinds => depth > 2
        /\ t.kind \notin Openers /\ t.name \in Idents
    BY <1>1, <2>1 DEF FileKinds, RefKinds, Openers
  <2> HIDE DEF depth
  <2> QED BY <2>1, <2>2 DEF TokenOK, Depth
<1>14. m_scope' = After(Len(text))'
  BY <1>1, <1>6 DEF After, Openers, Closers
<1>15. Heads(Len(text))' => LastKind \in {"function", "param"}
  BY <1>1, <1>6, <1>11 DEF Heads
<1>16. EntriesOK'
  <2> SUFFICES ASSUME NEW x \in DOMAIN scopes', NEW m \in Idents, scopes'[x].table[m] # 0
               PROVE  LET d == scopes'[x].table[m] IN
                      /\ d \in DOMAIN text'
                      /\ text'[d].kind \in FileKinds \union LocalKinds
                      /\ text'[d].name = m /\ text'[d].scope = x
    BY DEF EntriesOK
  <2>1. CASE scopes'[x].table[m] = scopes[x].table[m]
    <3> DEFINE d == scopes[x].table[m]
    <3>1. /\ d \in DOMAIN text /\ text[d].kind \in FileKinds \union LocalKinds
          /\ text[d].name = m /\ text[d].scope = x
      BY <2>1, <1>4 DEF TablesOK, EntriesOK
    <3> QED BY <3>1, <2>1, <1>6
  <2>2. CASE scopes'[x].table[m] = new /\ x = s /\ m = n
    BY <2>2, <1>1, <1>6 DEF FileKinds, LocalKinds
  <2> QED BY <2>1, <2>2, <1>4
<1>17. \A i \in DOMAIN text : Within(i, m_scope)' <=> Within(i, m_scope)
  BY <1>6, <1>10 DEF Within
<1>18. \A i \in DOMAIN text : Entered(i)' <=> Entered(i)
  BY <1>3, <1>6, <1>17 DEF Entered
<1>19. Entered(Len(text))'
  BY <1>1, <1>6 DEF Entered
<1>20. \A i \in DOMAIN text' : Entered(i)' \/ \A m \in Idents : scopes'[1].table[m] # i
  <2> SUFFICES ASSUME NEW i \in DOMAIN text', ~Entered(i)', NEW m \in Idents
               PROVE  scopes'[1].table[m] # i
    OBVIOUS
  <2>1. i \in DOMAIN text
    <3>1. i = new => i = Len(text')
      BY <1>6
    <3> QED BY <3>1, <1>6, <1>19
  <2>2. scopes[1].table[m] # i
    BY <2>1, <1>18 DEF TablesOK
  <2>3. 1 \in DOMAIN scopes /\ i # new
    BY <2>1, <1>6 DEF ScopesOK
  <2> QED BY <2>2, <2>3, <1>4
(* It has an entry, or another one of its name was visible.                *)
<1>21. \E k \in 1..Depth(m_scope) :
         LET e == scopes'[Path(m_scope)[k]].table[n]
         IN  e \in 1..new /\ (e = new \/ e \in DOMAIN text)
             /\ (e = new => k = Depth(m_scope))
  <2>1. CASE Get(s, n) = 0
    <3>1. scopes'[Path(m_scope)[Depth(m_scope)]].table[n] = new
      BY <2>1, <1>3, <1>4 DEF ScopesOK
    <3> QED BY <3>1, <1>3, <1>11
  <2>2. CASE Get(s, n) # 0
    <3>1. PICK k \in 1..Depth(s) : Get(s, n) = Entry(s, k, n)
      BY <2>2, <1>3, GetIs
    <3>2. Path(s)[k] \in DOMAIN scopes
      BY <1>3 DEF ScopesOK
    <3>3. Entry(s, k, n) \in DOMAIN text
      BY <2>2, <3>1, <3>2 DEF Entry, TablesOK, EntriesOK
    <3>4. scopes'[Path(s)[k]].table[n] = Entry(s, k, n)
      BY <2>2, <3>2, <1>4 DEF Entry
    <3>5. Entry(s, k, n) \in 1..new /\ Entry(s, k, n) # new
      BY <3>3, <1>6
    <3> QED BY <3>3, <3>4, <3>5
  <2> QED BY <2>1, <2>2
<1>22. t.kind \in FileKinds => FileEntry(Len(text))'
  <2>1. ASSUME Depth(m_scope) = 1 PROVE FileEntry(Len(text))'
    <3>1. Path(m_scope)[1] = 1
      BY <1>3 DEF ScopesOK
    <3> QED BY <3>1, <2>1, <1>1, <1>6, <1>21 DEF FileEntry
  <2> QED BY <2>1, <1>1, <1>11 DEF FileKinds
<1>23. t.kind \in LocalKinds /\ t.name # Unnamed => LocalEntry(Len(text))'
  <2> SUFFICES ASSUME t.kind \in LocalKinds PROVE LocalEntry(Len(text))'
    OBVIOUS
  <2>1. Depth(m_scope) >= 2 /\ stage = "parse"
    BY <1>1, <1>3, <1>11 DEF LocalKinds
  <2>2. PICK f \in DOMAIN text : Parsing(f)
    BY <2>1, <1>3 DEF FunctionsOK
  <2>3. FunctionOf(Len(text))' = f
    <3>1. f \in 1..new /\ text'[f].kind = "function"
      BY <2>2, <1>6 DEF Parsing
    <3>2. \A g \in (f + 1)..new : text'[g].kind # "function"
      <4> SUFFICES ASSUME NEW g \in (f + 1)..new PROVE text'[g].kind # "function"
        OBVIOUS
      <4>1. CASE g = new
        BY <4>1, <1>1, <1>6
      <4>2. CASE g # new
        <5>1. g \in DOMAIN text /\ Within(f, text[g].scope)
          BY <4>2, <2>2, <1>6 DEF Parsing
        <5>2. TokenOK(g) /\ Depth(text[g].scope) >= 2
          BY <5>1 DEF Within
        <5>3. text[g].kind \notin FileKinds
          BY <5>2, <2>1, <1>11 DEF TokenOK
        <5> QED BY <5>1, <5>3, <1>6 DEF FileKinds
      <4> QED BY <4>1, <4>2
    <3>3. FunctionIn(text', new) = f
      BY <3>1, <3>2, <1>3, FunctionIs
    <3> QED BY <3>3, <1>6 DEF FunctionOf, FunctionIn
  <2>4. \A m \in Idents : scopes[1].table[m] \in DOMAIN text => scopes[1].table[m] < f
    <3> SUFFICES ASSUME NEW m \in Idents, scopes[1].table[m] \in DOMAIN text
                 PROVE  scopes[1].table[m] < f
      OBVIOUS
    <3> DEFINE d == scopes[1].table[m]
    <3>1. d # 0 /\ 1 \in DOMAIN scopes
      BY <1>6 DEF ScopesOK
    <3>2. text[d].scope = 1
      BY <3>1 DEF TablesOK, EntriesOK
    <3>3. d # f
      <4>1. ~Entered(f)
        BY <2>1, <2>2 DEF Parsing, Entered
      <4> QED BY <4>1, <2>2 DEF TablesOK
    <3>4. ~(d \in (f + 1)..Len(text))
      <4>1. d \in (f + 1)..Len(text) => Depth(text[d].scope) >= 2
        BY <2>2 DEF Parsing, Within
      <4> QED BY <4>1, <3>2 DEF ScopesOK
    <3> QED BY <3>3, <3>4, <2>2, <1>6
  <2>5. PICK k \in 1..Depth(m_scope) :
          LET e == scopes'[Path(m_scope)[k]].table[n]
          IN  e \in 1..new /\ (e = new \/ e \in DOMAIN text) /\ (e = new => k = Depth(m_scope))
    BY <1>21
  <2>6. k = 1 => scopes'[Path(m_scope)[k]].table[n] < f
    <3> SUFFICES ASSUME k = 1 PROVE scopes'[1].table[n] < f
      BY <1>3 DEF ScopesOK
    <3>1. scopes'[1].table[n] \in DOMAIN text
      BY <2>1, <2>5, <1>3 DEF ScopesOK
    <3>2. scopes'[1].table[n] = scopes[1].table[n]
      BY <2>1, <1>4, <1>11 DEF ScopesOK
    <3> QED BY <3>1, <3>2, <2>4
  <2>7. Path(m_scope)' = Path(m_scope) /\ text'[Len(text')].scope = m_scope /\ text'[Len(text')].name = n
        /\ Len(scopes'[m_scope].path) = Depth(m_scope) /\ scopes'[m_scope].path = Path(m_scope)
    BY <1>1, <1>3, <1>4, <1>6, <1>10 DEF Depth, Path
  <2> QED BY <2>3, <2>5, <2>6, <2>7, <1>6 DEF LocalEntry, Path, Depth
<1>24. m_scope' \in DOMAIN scopes'
  BY <1>3, <1>4
<1>25. t.kind # "function" /\ (stage = "load" => m_scope' = 1) /\ (Depth(m_scope)' >= 2 =>
          Depth(m_scope) >= 2 /\ Path(m_scope)'[2] = Path(m_scope)[2])
  BY <1>1, <1>10 DEF FlowOK
<1> QED
  BY <1>4, <1>8, <1>9, <1>13, <1>14, <1>15, <1>16, <1>18, <1>19, <1>20, <1>22, <1>23, <1>24, <1>25,
     PutInv

(* A token that leaves the scopes as they are.                             *)
LEMMA PlainToken ==
  ASSUME NamesInv, NEW kind, NEW n \in AllNames, stage = "parse", Parsed,
         text' = Append(text, Token(kind, n, 0)), scopes' = scopes,
         \/ /\ kind = "param" /\ n = Unnamed /\ Depth(m_scope) = 2
            /\ LastKind \in {"function", "param"} /\ m_scope' = m_scope
         \/ kind = "close" /\ Depth(m_scope) > 2 /\ m_scope' = Parent(m_scope)
         \/ kind \in RefKinds /\ n \in Idents /\ Depth(m_scope) > 2 /\ m_scope' = m_scope
  PROVE  NamesInv'
<1> USE DEF NamesInv, ParseInv, TreeInv
<1> DEFINE t == Token(kind, n, 0)
           new == Len(text) + 1
<1>1. /\ t.kind = kind /\ t.name = n /\ t.scope = m_scope /\ t.own = 0
      /\ kind \in {"param", "close", "ref", "init"}
  BY DEF Token, RefKinds
<1>2. t \in TokenType
  <2>1. m_scope \in Nat
    BY ScopeIs DEF NamesTypeOK
  <2> QED BY <1>1, <2>1 DEF Token, TokenType, Kinds, LocalKinds, RefKinds, Closers
<1>3. stage' = "parse" /\ m_scope \in DOMAIN scopes
  BY DEF Parsed, NamesTypeOK
<1> HIDE DEF t
<1>4. text \in Seq(TokenType) /\ text' = Append(text, t)
  BY DEF NamesTypeOK, t
<1>5. /\ \A i \in DOMAIN text : i \in DOMAIN text' /\ text'[i] = text[i]
      /\ DOMAIN text' = DOMAIN text \union {new} /\ new \notin DOMAIN text /\ Len(text') = new
      /\ text'[new] = t
  BY <1>2, <1>4
<1>6. Puts(t)
  BY <1>1, <1>2, <1>3, <1>4, <1>5 DEF Puts, Kept
<1>7. ScopesOK'
  BY SamePaths
<1>8. Depth(m_scope) \in Nat /\ (Depth(m_scope) >= 2 => Parent(m_scope) \in DOMAIN scopes)
      /\ (Depth(m_scope) > 2 => /\ Depth(Parent(m_scope)) >= 2
                                /\ Path(Parent(m_scope))[2] = Path(m_scope)[2])
  BY <1>3, Ends
<1>9. TokenOK(Len(text))'
  <2> DEFINE depth == Depth(m_scope)
  <2>1. depth \in Nat /\ Len(scopes'[t.scope].path) = depth /\ t.scope \in DOMAIN scopes'
        /\ text'[Len(text')] = t
    BY <1>1, <1>3, <1>5, <1>8 DEF Depth
  <2>2. /\ t.kind \notin FileKinds /\ depth # 1
        /\ t.kind \in {"param", "end"} => depth = 2
        /\ t.kind \in {"let", "close"} \union RefKinds => depth > 2
        /\ t.kind \in RefKinds \union {"let"} => t.name \in Idents
        /\ t.kind \notin Openers
    BY <1>1, <2>1 DEF FileKinds, RefKinds, Openers
  <2> HIDE DEF depth
  <2> QED BY <2>1, <2>2 DEF TokenOK, Depth
<1>10. m_scope' = After(Len(text))'
  <2>1. text'[Len(text')] = t
    BY <1>5
  <2>2. kind = "close" => m_scope' = Parent(m_scope)
    BY DEF RefKinds
  <2>3. kind # "close" => m_scope' = m_scope
    OBVIOUS
  <2>4. kind # "end" /\ kind \notin Openers
    BY <1>1 DEF Openers
  <2> QED BY <1>1, <2>1, <2>2, <2>3, <2>4 DEF After, Closers, Parent, Depth
<1>11. Heads(Len(text))' => LastKind \in {"function", "param"}
  <2>1. kind = "param" => LastKind \in {"function", "param"}
    BY DEF RefKinds
  <2> QED BY <1>1, <1>5, <2>1 DEF Heads
<1>12. EntriesOK'
  <2> SUFFICES ASSUME NEW x \in DOMAIN scopes, NEW m \in Idents, scopes[x].table[m] # 0
               PROVE  LET d == scopes[x].table[m] IN
                      /\ d \in DOMAIN text'
                      /\ text'[d].kind \in FileKinds \union LocalKinds
                      /\ text'[d].name = m /\ text'[d].scope = x
    BY DEF EntriesOK
  <2> DEFINE d == scopes[x].table[m]
  <2>1. /\ d \in DOMAIN text /\ text[d].kind \in FileKinds \union LocalKinds
        /\ text[d].name = m /\ text[d].scope = x
    BY DEF TablesOK, EntriesOK
  <2> QED BY <2>1, <1>5
<1>13. m_scope' \in DOMAIN scopes' /\ Depth(m_scope)' = Depth(m_scope')
       /\ Path(m_scope)' = Path(m_scope')
       /\ Depth(m_scope') >= 2 /\ Depth(m_scope) >= 2 /\ Path(m_scope')[2] = Path(m_scope)[2]
  BY <1>3, <1>8 DEF Depth, Path
<1>14. \A i \in DOMAIN text : Within(i, m_scope)' <=> Within(i, m_scope)
  BY <1>5, <1>13 DEF Within
<1>15. \A i \in DOMAIN text : Entered(i)' <=> Entered(i)
  BY <1>3, <1>5, <1>14 DEF Entered
<1>16. Entered(Len(text))'
  BY <1>1, <1>5 DEF Entered
<1>17. \A i \in DOMAIN text' : Entered(i)' \/ \A m \in Idents : scopes'[1].table[m] # i
  <2> SUFFICES ASSUME NEW i \in DOMAIN text', ~Entered(i)', NEW m \in Idents
               PROVE  scopes'[1].table[m] # i
    OBVIOUS
  <2>1. i \in DOMAIN text
    <3>1. i = new => i = Len(text')
      BY <1>5
    <3> QED BY <3>1, <1>5, <1>16
  <2> QED BY <2>1, <1>15 DEF TablesOK
<1>18. t.kind \notin FileKinds /\ (t.kind \in LocalKinds => t.name = Unnamed)
  BY <1>1 DEF FileKinds, LocalKinds, RefKinds
<1>19. t.kind # "function" /\ scopes' \in Seq(ScopeType) /\ stage # "load"
      /\ UNCHANGED <<at, denotes, declared, locals, slot>>
  BY <1>1 DEF NamesTypeOK, Parsed
<1> QED
  BY <1>6, <1>7, <1>9, <1>10, <1>11, <1>12, <1>13, <1>15, <1>17, <1>18, <1>19, PutInv

(* A function or a block that has a scope of its own.                      *)
LEMMA OpenedScope ==
  ASSUME NamesInv, NEW kind, NEW n \in AllNames, stage = "parse", Parsed,
         text' = Append(text, Token(kind, n, Len(scopes) + 1)),
         scopes' = Append(scopes, NewScope(m_scope)), m_scope' = Len(scopes) + 1,
         \/ kind = "function" /\ Depth(m_scope) = 1 /\ n \in Idents
         \/ /\ kind = "open" /\ Depth(m_scope) >= 2
            /\ Depth(m_scope) > 2 \/ LastKind \in {"function", "param"}
  PROVE  NamesInv'
<1> USE DEF NamesInv, ParseInv, TreeInv
<1> DEFINE own == Len(scopes) + 1
           t == Token(kind, n, own)
           new == Len(text) + 1
<1>1. /\ t.kind = kind /\ t.name = n /\ t.scope = m_scope /\ t.own = own
      /\ kind \in Openers
  BY DEF Token, Openers
<1>2. stage' = "parse" /\ m_scope \in DOMAIN scopes /\ m_scope \in Nat /\ own \in Nat
  BY ScopeIs DEF Parsed, NamesTypeOK
<1>3. t \in TokenType
  BY <1>1, <1>2 DEF Token, TokenType, Kinds, FileKinds, Openers
<1>4. /\ scopes' \in Seq(ScopeType)
      /\ DOMAIN scopes' = DOMAIN scopes \union {own} /\ own \notin DOMAIN scopes
      /\ \A x \in DOMAIN scopes : scopes'[x] = scopes[x]
      /\ scopes'[own].path = Append(Path(m_scope), own)
      /\ \A m \in Idents : scopes'[own].table[m] = 0
      /\ ScopesOK'
  BY NewKeeps
<1>5. text \in Seq(TokenType) /\ text' = Append(text, t)
  BY DEF NamesTypeOK
<1> HIDE DEF t, own
<1>6. /\ \A i \in DOMAIN text : i \in DOMAIN text' /\ text'[i] = text[i]
      /\ DOMAIN text' = DOMAIN text \union {new} /\ new \notin DOMAIN text /\ Len(text') = new
      /\ text'[new] = t
  BY <1>3, <1>5
<1>7. Puts(t)
  BY <1>1, <1>2, <1>3, <1>4, <1>5, <1>6 DEF Puts, Kept
<1>8. Depth(m_scope) \in Nat \ {0} /\ Path(m_scope) \in Seq(Nat) /\ Depth(m_scope) = Len(Path(m_scope))
  BY <1>2, Ends, ScopeIs DEF Depth, Path
<1>9. /\ Len(scopes'[own].path) = Depth(m_scope) + 1
      /\ scopes'[own].path[Depth(m_scope)] = m_scope
      /\ Depth(m_scope) >= 2 => scopes'[own].path[2] = Path(m_scope)[2]
      /\ Depth(m_scope) = 1 => scopes'[own].path[2] = own
  <2>1. Path(m_scope)[Depth(m_scope)] = m_scope
    BY <1>2 DEF ScopesOK
  <2> QED BY <2>1, <1>2, <1>4, <1>8
<1>10. m_scope' = own
  BY DEF own
<1>11. TokenOK(Len(text))'
  <2> DEFINE depth == Depth(m_scope)
  <2>1. depth \in Nat /\ Len(scopes'[t.scope].path) = depth /\ t.scope \in DOMAIN scopes'
        /\ text'[Len(text')] = t
    BY <1>1, <1>2, <1>4, <1>6, <1>8 DEF Depth
  <2>2. /\ t.kind \in FileKinds <=> depth = 1
        /\ t.kind \notin {"param", "end", "let", "close"} \union RefKinds
        /\ t.kind \in FileKinds => t.name \in Idents
    BY <1>1, <2>1 DEF FileKinds, RefKinds, Openers
  <2>3. /\ t.own \in DOMAIN scopes' /\ Len(scopes'[t.own].path) = depth + 1
        /\ scopes'[t.own].path[Len(scopes'[t.own].path) - 1] = t.scope
    BY <1>1, <1>4, <1>9, <2>1
  <2> HIDE DEF depth
  <2> QED BY <2>1, <2>2, <2>3 DEF TokenOK, Depth, Parent
<1>12. m_scope' = After(Len(text))'
  <2>1. text'[Len(text')] = t
    BY <1>6
  <2> QED BY <2>1, <1>1, <1>10 DEF After, Openers, Closers
<1>13. Heads(Len(text))' => LastKind \in {"function", "param"}
  <2>1. text'[Len(text')] = t /\ Len(scopes'[t.scope].path) = Depth(m_scope)
    BY <1>1, <1>2, <1>4, <1>6 DEF Depth
  <2>2. t.kind # "param"
    BY <1>1 DEF Openers
  <2>3. t.kind = "open" /\ Depth(m_scope) = 2 => LastKind \in {"function", "param"}
    BY <1>1, <1>8
  <2>4. Heads(Len(text))' => t.kind = "open" /\ Depth(m_scope) = 2
    BY <2>1, <2>2 DEF Heads, Depth
  <2> QED BY <2>3, <2>4
<1>14. EntriesOK'
  <2> SUFFICES ASSUME NEW x \in DOMAIN scopes', NEW m \in Idents, scopes'[x].table[m] # 0
               PROVE  LET d == scopes'[x].table[m] IN
                      /\ d \in DOMAIN text'
                      /\ text'[d].kind \in FileKinds \union LocalKinds
                      /\ text'[d].name = m /\ text'[d].scope = x
    BY DEF EntriesOK
  <2>1. x \in DOMAIN scopes /\ scopes'[x].table[m] = scopes[x].table[m]
    BY <1>4
  <2> DEFINE d == scopes[x].table[m]
  <2>2. /\ d \in DOMAIN text /\ text[d].kind \in FileKinds \union LocalKinds
        /\ text[d].name = m /\ text[d].scope = x
    BY <2>1 DEF TablesOK, EntriesOK
  <2> QED BY <2>1, <2>2, <1>6
<1>15. /\ m_scope' \in DOMAIN scopes' /\ Depth(m_scope)' >= 2
       /\ kind = "function" => Within(Len(text), m_scope)'
       /\ kind = "open" => Depth(m_scope) >= 2 /\ Path(m_scope)'[2] = Path(m_scope)[2]
  <2>1. text'[Len(text')].own = own
    BY <1>1, <1>6
  <2>2. /\ Depth(m_scope)' = Depth(m_scope) + 1
        /\ Path(m_scope)' = scopes'[own].path
    BY <1>9, <1>10 DEF Depth, Path
  <2>3. kind = "function" => Depth(m_scope) = 1
    OBVIOUS
  <2>4. kind = "open" => Depth(m_scope) >= 2
    OBVIOUS
  <2>5. m_scope' \in DOMAIN scopes'
    BY <1>4, <1>10
  <2>6. Depth(m_scope)' >= 2
    BY <2>2, <1>8
  <2>7. Within(Len(text), m_scope)' <=> Depth(m_scope)' >= 2 /\ Path(m_scope)'[2] = own
    BY <2>1 DEF Within
  <2> QED BY <2>2, <2>3, <2>4, <2>5, <2>6, <2>7, <1>9
<1>16. ASSUME NEW i \in DOMAIN text PROVE Entered(i)' <=> Entered(i)
  <2>1. CASE kind = "open"
    <3>1. Within(i, m_scope)' <=> Within(i, m_scope)
      BY <2>1, <1>6, <1>15 DEF Within
    <3> QED BY <3>1, <1>2, <1>6 DEF Entered
  <2>2. CASE kind = "function"
    <3>1. ~Within(i, m_scope)
      BY <2>2, <1>8 DEF Within
    <3>2. text[i].kind = "function" => text[i].own \in DOMAIN scopes
      BY DEF TokenOK, Openers
    <3>3. text[i].kind = "function" => ~Within(i, m_scope)'
      BY <3>2, <2>2, <1>1, <1>4, <1>6, <1>8, <1>9, <1>10 DEF Within, Path
    <3> QED BY <3>1, <3>3, <1>6 DEF Entered
  <2> QED BY <2>1, <2>2
<1>17. \A i \in DOMAIN text' : Entered(i)' \/ \A m \in Idents : scopes'[1].table[m] # i
  <2> SUFFICES ASSUME NEW i \in DOMAIN text', ~Entered(i)', NEW m \in Idents
               PROVE  scopes'[1].table[m] # i
    OBVIOUS
  <2>1. 1 \in DOMAIN scopes /\ scopes'[1] = scopes[1]
    BY <1>4 DEF ScopesOK
  <2>2. CASE i \in DOMAIN text
    BY <2>1, <2>2, <1>16 DEF TablesOK
  <2>3. CASE i = new
    <3>1. scopes[1].table[m] # 0 => scopes[1].table[m] \in DOMAIN text
      BY <2>1 DEF TablesOK, EntriesOK
    <3>2. new # 0
      BY TextIs
    <3> QED BY <2>1, <2>3, <3>1, <3>2, <1>6
  <2> QED BY <2>2, <2>3, <1>6
<1>18. t.kind \in FileKinds => ~Entered(Len(text))'
  <2>1. t.kind \in FileKinds => t.kind = "function"
    BY <1>1 DEF FileKinds, Openers
  <2> QED BY <2>1, <1>1, <1>2, <1>6, <1>15 DEF Entered
<1>19. t.kind \notin LocalKinds /\ t.own \notin DOMAIN scopes /\ stage # "load"
      /\ UNCHANGED <<at, denotes, declared, locals, slot>>
  BY <1>1, <1>4 DEF LocalKinds, Openers, Parsed
<1>20. Depth(m_scope)' >= 2 =>
         \/ t.kind = "function" /\ Within(Len(text), m_scope)'
         \/ Depth(m_scope) >= 2 /\ Path(m_scope)'[2] = Path(m_scope)[2]
  BY <1>1, <1>15
<1> QED
  BY <1>4, <1>7, <1>11, <1>12, <1>13, <1>14, <1>15, <1>16, <1>17, <1>18, <1>19, <1>20, PutInv

(* The function that the parser is in: all tokens after it are within it.  *)
LEMMA ParsingIs ==
  ASSUME NamesTypeOK, TreeInv, TablesOK, stage = "parse", NEW f, Parsing(f)
  PROVE  /\ f \in DOMAIN text /\ text[f].kind = "function" /\ FunctionOf(Len(text)) = f
         /\ \A g \in (f + 1)..Len(text) : text[g].kind \notin FileKinds /\ text[g].scope # 1
         /\ \A m \in Idents : scopes[1].table[m] # 0 => scopes[1].table[m] \in 1..(f - 1)
<1> USE DEF TreeInv
<1>1. /\ f \in DOMAIN text /\ text[f].kind = "function" /\ Within(f, m_scope)
      /\ DOMAIN text = 1..Len(text) /\ Len(text) \in Nat
  BY TextIs DEF Parsing
<1>2. ASSUME NEW g \in (f + 1)..Len(text)
      PROVE  text[g].kind \notin FileKinds /\ text[g].scope # 1
  <2>1. g \in DOMAIN text /\ Depth(text[g].scope) >= 2
    BY <1>1 DEF Parsing, Within
  <2>2. Depth(text[g].scope) # 1
    BY <2>1
  <2> QED BY <2>1, <2>2 DEF TokenOK, ScopesOK
<1>3. FunctionOf(Len(text)) = f
  <2>1. f \in 1..Len(text) /\ \A g \in (f + 1)..Len(text) : text[g].kind # "function"
    BY <1>1, <1>2 DEF FileKinds
  <2>2. FunctionIn(text, Len(text)) = f
    BY <2>1, <1>1, FunctionIs
  <2> QED BY <2>2 DEF FunctionOf, FunctionIn
<1>4. ASSUME NEW m \in Idents, scopes[1].table[m] # 0 PROVE scopes[1].table[m] \in 1..(f - 1)
  <2> DEFINE d == scopes[1].table[m]
  <2>1. d \in DOMAIN text /\ text[d].scope = 1
    BY <1>4 DEF TablesOK, EntriesOK, ScopesOK
  <2>2. ~Entered(f)
    BY <1>1 DEF Entered
  <2>3. d # f
    BY <2>2, <1>1 DEF TablesOK
  <2>4. d \notin (f + 1)..Len(text)
    BY <2>1, <1>2
  <2> HIDE DEF d
  <2>5. d \in 1..(f - 1)
    BY <2>1, <2>3, <2>4, <1>1
  <2> QED BY <2>5 DEF d
<1> QED BY <1>1, <1>2, <1>3, <1>4

(* The name of a function is added after its body.                         *)
LEMMA ClosedFunction == ASSUME NamesInv, CloseFunction PROVE NamesInv'
<1> USE DEF NamesInv, ParseInv, TreeInv
<1> DEFINE t == Token("end", Unnamed, 0)
           new == Len(text) + 1
<1>1. t.kind = "end" /\ t.name = Unnamed /\ t.scope = m_scope /\ t.own = 0
  BY DEF Token
<1>2. stage = "parse" /\ stage' = "parse" /\ m_scope \in DOMAIN scopes /\ m_scope \in Nat
      /\ Depth(m_scope) = 2 /\ m_scope' = Parent(m_scope) /\ Parsed
  BY ScopeIs DEF CloseFunction, Parsed, NamesTypeOK
<1>3. t \in TokenType
  BY <1>1, <1>2 DEF Token, TokenType, Kinds, Closers, AllNames
<1>4. text \in Seq(TokenType) /\ text' = Append(text, t)
  BY DEF NamesTypeOK, CloseFunction
<1> HIDE DEF t
<1>5. /\ \A i \in DOMAIN text : i \in DOMAIN text' /\ text'[i] = text[i]
      /\ DOMAIN text' = DOMAIN text \union {new} /\ new \notin DOMAIN text /\ Len(text') = new
      /\ text'[new] = t /\ DOMAIN text = 1..Len(text) /\ Len(text) \in Nat
  BY <1>3, <1>4
<1>6. PICK f \in DOMAIN text : Parsing(f)
  BY <1>2 DEF FunctionsOK
<1>7. /\ text[f].kind = "function" /\ FunctionOf(Len(text)) = f
      /\ \A m \in Idents : scopes[1].table[m] # 0 => scopes[1].table[m] \in 1..(f - 1)
  BY <1>2, <1>6, ParsingIs
<1> DEFINE n == text[f].name
<1>8. n \in Idents /\ text[f].scope = 1 /\ f \in Nat \ {0} /\ 1 \in DOMAIN scopes
      /\ text[f].own \in DOMAIN scopes
  <2>1. TokenOK(f) /\ text[f].kind \in FileKinds
    BY <1>7 DEF FileKinds
  <2>2. n \in Idents /\ Depth(text[f].scope) = 1 /\ text[f].scope \in DOMAIN scopes
    BY <2>1 DEF TokenOK
  <2>3. text[f].scope = 1
    BY <2>2, Ends
  <2> QED BY <2>1, <2>2, <2>3, <1>5, <1>7 DEF ScopesOK, TokenOK, Openers
<1>9. scopes' = Add(1, n, f)
  BY <1>7 DEF CloseFunction
<1> HIDE DEF n
<1>10. /\ scopes' \in Seq(ScopeType) /\ DOMAIN scopes' = DOMAIN scopes
       /\ \A x \in DOMAIN scopes : scopes'[x].path = scopes[x].path
       /\ \A x \in DOMAIN scopes, m \in Idents :
            scopes'[x].table[m] = IF Get(1, n) = 0 /\ x = 1 /\ m = n THEN f
                                  ELSE scopes[x].table[m]
       /\ Get(1, n) = 0 => scopes[1].table[n] = 0
  BY <1>8, <1>9, AddKeeps
<1>11. Kept
  BY <1>5, <1>10 DEF Kept
<1>12. Puts(t)
  BY <1>1, <1>2, <1>3, <1>4, <1>11 DEF Puts
<1>13. ScopesOK'
  BY <1>10, SamePaths
<1>14. Depth(Parent(m_scope)) = 1 /\ Parent(m_scope) \in DOMAIN scopes
  BY <1>2, Ends
<1>15. m_scope' \in DOMAIN scopes' /\ ~(Depth(m_scope)' >= 2)
  <2>1. Depth(m_scope)' = Depth(m_scope')
    BY <1>2, <1>10, <1>14 DEF Depth
  <2> QED BY <2>1, <1>2, <1>10, <1>14
<1>16. TokenOK(Len(text))'
  <2>1. Len(scopes'[t.scope].path) = 2 /\ t.scope \in DOMAIN scopes'
        /\ text'[Len(text')] = t
    BY <1>1, <1>2, <1>5, <1>10 DEF Depth
  <2>2. /\ t.kind \notin FileKinds \union RefKinds \union {"let", "close"} \union Openers
    BY <1>1 DEF FileKinds, RefKinds, Openers
  <2> QED BY <2>1, <2>2 DEF TokenOK, Depth
<1>17. m_scope' = After(Len(text))'
  <2>1. text'[Len(text')] = t
    BY <1>5
  <2>2. Parent(m_scope) = scopes'[t.scope].path[Len(scopes'[t.scope].path) - 1]
    BY <1>1, <1>2, <1>10 DEF Parent, Depth
  <2> QED BY <2>1, <2>2, <1>1, <1>2 DEF After, Openers, Closers, Parent, Depth
<1>18. ~Heads(Len(text))'
  BY <1>1, <1>5 DEF Heads
<1>19. EntriesOK'
  <2> SUFFICES ASSUME NEW x \in DOMAIN scopes, NEW m \in Idents, scopes'[x].table[m] # 0
               PROVE  LET d == scopes'[x].table[m] IN
                      /\ d \in DOMAIN text'
                      /\ text'[d].kind \in FileKinds \union LocalKinds
                      /\ text'[d].name = m /\ text'[d].scope = x
    BY <1>10 DEF EntriesOK
  <2>1. CASE scopes'[x].table[m] = scopes[x].table[m]
    <3> DEFINE d == scopes[x].table[m]
    <3>1. /\ d \in DOMAIN text /\ text[d].kind \in FileKinds \union LocalKinds
          /\ text[d].name = m /\ text[d].scope = x
      BY <2>1 DEF TablesOK, EntriesOK
    <3> QED BY <3>1, <2>1, <1>5
  <2>2. CASE scopes'[x].table[m] = f /\ x = 1 /\ m = n
    BY <2>2, <1>5, <1>7, <1>8 DEF FileKinds, LocalKinds, n
  <2> QED BY <2>1, <2>2, <1>10
<1>20. \A i \in DOMAIN text' : Entered(i)'
  BY <1>15 DEF Entered, Within
<1>21. FileEntry(f)'
  <2>1. CASE Get(1, n) = 0
    <3>1. scopes'[1].table[n] = f
      BY <2>1, <1>8, <1>10
    <3> QED BY <3>1, <1>5, <1>8 DEF FileEntry, n
  <2>2. CASE Get(1, n) # 0
    <3>1. scopes[1].table[n] # 0
      <4>1. \E k \in 1..Depth(1) : Get(1, n) = Entry(1, k, n)
        BY <2>2, <1>8, GetIs
      <4>2. Depth(1) = 1 /\ Path(1)[1] = 1
        BY <1>8 DEF ScopesOK
      <4> QED BY <4>1, <4>2, <2>2 DEF Entry
    <3>2. scopes'[1].table[n] \in 1..(f - 1)
      BY <3>1, <2>2, <1>7, <1>8, <1>10
    <3> QED BY <3>2, <1>5, <1>8 DEF FileEntry, n
  <2> QED BY <2>1, <2>2
<1>22. ASSUME NEW i \in DOMAIN text, text[i].kind \in FileKinds PROVE Entered(i) \/ FileEntry(i)'
  <2> SUFFICES ASSUME ~Entered(i) PROVE i = f
    BY <1>21
  <2>1. text[i].kind = "function" /\ text[i].own = Path(m_scope)[2]
    BY DEF Entered, Within
  <2>2. text[f].own = Path(m_scope)[2]
    BY <1>6 DEF Parsing, Within
  <2> QED BY <2>1, <2>2, <1>7 DEF OwnsDiffer
<1>23. t.kind \notin FileKinds \union LocalKinds /\ t.kind # "function" /\ stage # "load"
      /\ UNCHANGED <<at, denotes, declared, locals, slot>>
  BY <1>1, <1>2 DEF FileKinds, LocalKinds, Parsed
<1> QED
  BY <1>2, <1>10, <1>12, <1>13, <1>15, <1>16, <1>17, <1>18, <1>19, <1>20, <1>22, <1>23, PutInv

(* The steps of the parser.                                                *)
LEMMA ParseStep == ASSUME NamesInv, Parse PROVE NamesInv'
<1> USE DEF NamesInv, ParseInv, TreeInv
<1>1. /\ m_scope \in DOMAIN scopes /\ Depth(m_scope) \in Nat \ {0}
      /\ (Depth(m_scope) = 1 <=> m_scope = 1)
  BY Ends DEF NamesTypeOK
<1>2. ASSUME stage = "parse", LastKind \in {"function", "param"} PROVE Depth(m_scope) = 2
  <2>1. text # <<>> /\ Len(text) \in DOMAIN text /\ m_scope = After(Len(text))
    <3>1. text # <<>> /\ text \in Seq(TokenType)
      BY <1>2 DEF LastKind, NamesTypeOK
    <3> QED BY <3>1, <1>2 DEF FlowOK
  <2>2. CASE text[Len(text)].kind = "function"
    <3>1. TokenOK(Len(text)) /\ After(Len(text)) = text[Len(text)].own
      BY <2>1, <2>2 DEF After, Openers, Closers
    <3>2. Depth(text[Len(text)].scope) = 1 /\ Depth(m_scope) = Depth(text[Len(text)].scope) + 1
      BY <3>1, <2>1, <2>2 DEF TokenOK, FileKinds, Openers
    <3> QED BY <3>2
  <2>3. CASE text[Len(text)].kind = "param"
    BY <2>1, <2>3 DEF After, Openers, Closers, TokenOK
  <2> QED BY <2>1, <2>2, <2>3, <1>2 DEF LastKind
<1>3. ASSUME NEW n \in Idents, NEW kind \in {"global", "type"}, Define(kind, n) PROVE NamesInv'
  BY <1>1, <1>3, AddedDefinition DEF Define, AtFile, Room, Parsed
<1>4. ASSUME NEW n \in Idents, OpenFunction(n) PROVE NamesInv'
  BY <1>4, OpenedScope DEF OpenFunction, AtFile, Room, AllNames
<1>5. ASSUME NEW n \in Idents, Let(n) PROVE NamesInv'
  BY <1>5, AddedDefinition DEF Let, InBody, Room, Parsed
<1>6. ASSUME NEW n \in Idents \union {Unnamed}, Param(n) PROVE NamesInv'
  <2>1. Room /\ stage = "parse" /\ LastKind \in {"function", "param"} /\ Parsed /\ m_scope' = m_scope
        /\ text' = Append(text, Token("param", n, 0))
    BY <1>6 DEF Param, Room
  <2>2. Depth(m_scope) = 2
    BY <2>1, <1>2
  <2>3. CASE n = Unnamed
    <3>1. scopes' = scopes
      BY <2>3, <1>6 DEF Param
    <3> QED BY <3>1, <2>1, <2>2, <2>3, PlainToken DEF AllNames
  <2>4. CASE n # Unnamed
    <3>1. n \in Idents /\ scopes' = Add(m_scope, n, Here)
      BY <2>4, <1>6 DEF Param
    <3> QED BY <3>1, <2>1, <2>2, AddedDefinition DEF Parsed
  <2> QED BY <2>3, <2>4
<1>7. ASSUME NEW n \in Idents, NEW kind \in RefKinds, Refer(n, kind) PROVE NamesInv'
  BY <1>7, PlainToken DEF Refer, InBody, Room, AllNames
<1>8. ASSUME OpenBlock PROVE NamesInv'
  <2>1. stage = "parse" /\ (Depth(m_scope) > 2 \/ LastKind \in {"function", "param"}) /\ Parsed
        /\ text' = Append(text, Token("open", Unnamed, Len(scopes) + 1))
        /\ scopes' = Append(scopes, NewScope(m_scope)) /\ m_scope' = Len(scopes) + 1
    BY <1>8 DEF OpenBlock, InBody, Room
  <2>2. Depth(m_scope) >= 2
    BY <2>1, <1>1, <1>2
  <2> QED BY <2>1, <2>2, OpenedScope DEF AllNames
<1>9. ASSUME CloseBlock PROVE NamesInv'
  BY <1>9, PlainToken DEF CloseBlock, InBody, AllNames
<1>10. ASSUME CloseFunction PROVE NamesInv'
  BY <1>10, ClosedFunction
<1> QED BY <1>3, <1>4, <1>5, <1>6, <1>7, <1>8, <1>9, <1>10 DEF Parse

-----------------------------------------------------------------------------
(* After the parser and the loads, the tokens and the scopes stay.         *)
LEMMA SameTree ==
  ASSUME NamesInv, UNCHANGED <<text, scopes>>, stage' # "parse",
         stage = "parse" => Depth(m_scope) = 1
  PROVE  /\ TreeInv' /\ FunctionsOK' /\ HeadersOK' /\ TablesOK'
         /\ text # <<>> => text[1].scope = 1
         /\ \A i \in DOMAIN text : i + 1 \in DOMAIN text => text[i + 1].scope = After(i)
         /\ \A i \in DOMAIN text : After(i)' = After(i)
<1> USE DEF NamesInv, ParseInv
<1>1. TreeInv'
  <2>1. ScopesOK'
    BY SamePaths DEF TreeInv
  <2>2. \A i \in DOMAIN text : TokenOK(i) => TokenOK(i)'
    BY DEF TokenOK, Depth, Parent
  <2>3. OwnsDiffer'
    BY DEF TreeInv, OwnsDiffer
  <2> QED BY <2>1, <2>2, <2>3 DEF TreeInv
<1>2. FunctionsOK'
  <2>1. \A i, f : Holds(f, i) => Holds(f, i)'
    BY DEF Holds, Within, Depth, Path
  <2> QED BY <2>1 DEF FunctionsOK, Depth
<1>3. HeadersOK'
  BY DEF HeadersOK, Heads, Depth
<1>4. TablesOK'
  <2>1. \A i : Entered(i)' /\ Entered(i)
    <3>1. stage = "parse" => ~(Depth(m_scope) >= 2)
      OBVIOUS
    <3> QED BY <3>1 DEF Entered, Within
  <2>2. EntriesOK'
    BY DEF TablesOK, EntriesOK
  <2>3. \A i : (FileEntry(i) => FileEntry(i)') /\ (LocalEntry(i) => LocalEntry(i)')
    BY DEF FileEntry, LocalEntry, FunctionOf, Path, Depth
  <2> QED BY <2>1, <2>2, <2>3 DEF TablesOK
<1>5. \A i \in DOMAIN text : After(i)' = After(i)
  BY DEF After, Parent, Depth
<1> QED BY <1>1, <1>2, <1>3, <1>4, <1>5 DEF FlowOK

(* The parser is done when it is back in the file's scope.                 *)
LEMMA FinishParseStep == ASSUME NamesInv, FinishParse PROVE NamesInv'
<1> USE DEF NamesInv
<1>1. /\ UNCHANGED <<text, scopes, m_scope, at, denotes, declared, locals, slot>>
      /\ stage = "parse" /\ stage' = "load" /\ Depth(m_scope) = 1 /\ text # <<>>
  BY DEF FinishParse, AtFile
<1>2. m_scope = 1
  BY <1>1, Ends DEF NamesTypeOK, TreeInv
<1>3. After(Len(text)) = 1
  BY <1>1, <1>2 DEF ParseInv, FlowOK
<1>4. TreeInv' /\ FunctionsOK' /\ HeadersOK' /\ TablesOK'
  BY <1>1, SameTree
<1>5. FlowOK'
  <2>1. \A i \in DOMAIN text : After(i)' = After(i)
    BY <1>1, SameTree
  <2>2. After(Len(text))' = After(Len(text))
    BY <1>1 DEF After, Parent, Depth
  <2> QED BY <1>1, <1>2, <1>3, <2>1, <2>2 DEF ParseInv, FlowOK
<1>6. NamesTypeOK'
  BY <1>1 DEF NamesTypeOK, Stages
<1>7. PassInv'
  BY <1>1, WaitingPass DEF NamesTypeOK
<1> QED BY <1>4, <1>5, <1>6, <1>7 DEF ParseInv

(* A name that is loaded is new in the file's scope, or nothing follows.   *)
LEMMA LoadStep == ASSUME NamesInv, NEW n \in Idents, Load(n) PROVE NamesInv'
<1> USE DEF NamesInv
<1>1. UNCHANGED <<m_scope, at, denotes, declared, locals, slot>> /\ stage = "load"
  BY DEF Load
<1>2. m_scope = 1 /\ Depth(m_scope) = 1
  BY <1>1 DEF ParseInv, FlowOK, TreeInv, ScopesOK
<1>3. CASE Get(1, n) # 0
  <2>1. stage' = "conflict" /\ UNCHANGED <<text, scopes>>
    BY <1>3 DEF Load
  <2>2. TreeInv' /\ FunctionsOK' /\ HeadersOK' /\ TablesOK'
    BY <1>1, <2>1, SameTree
  <2>3. FlowOK'
    <3>1. \A i \in DOMAIN text : After(i)' = After(i)
      BY <1>1, <2>1, SameTree
    <3> QED BY <3>1, <2>1 DEF ParseInv, FlowOK
  <2>4. NamesTypeOK'
    BY <1>1, <2>1 DEF NamesTypeOK, Stages
  <2>5. PassInv'
    BY <1>1, <2>1, WaitingPass DEF NamesTypeOK
  <2> QED BY <2>2, <2>3, <2>4, <2>5 DEF ParseInv
<1>4. CASE Get(1, n) = 0
  <2>1. stage' = stage /\ text' = Append(text, Token("loaded", n, 0)) /\ scopes' = Add(m_scope, n, Here)
    BY <1>2, <1>4 DEF Load
  <2> QED BY <1>1, <1>2, <2>1, AddedDefinition
<1> QED BY <1>3, <1>4

(* The symbol analysis begins at the first token, in the file's scope.     *)
LEMMA FinishLoadStep == ASSUME NamesInv, FinishLoad PROVE NamesInv'
<1> USE DEF NamesInv
<1>1. /\ UNCHANGED <<text, scopes, m_scope, at, declared, locals>>
      /\ stage = "load" /\ stage' = "analyse"
      /\ denotes' = [i \in DOMAIN text |-> 0] /\ slot' = [i \in DOMAIN text |-> 0]
  BY DEF FinishLoad
<1>2. DOMAIN text = 1..Len(text) /\ Len(text) \in Nat /\ text # <<>> /\ at = 1 /\ text \in Seq(TokenType)
  BY <1>1, TextIs DEF PassInv, BoundsOK, NamesTypeOK
<1>3. 1 \in DOMAIN text
  <2>1. Len(text) # 0
    BY <1>2
  <2> QED BY <2>1, <1>2
<1>4. /\ denotes' \in Seq(Nat) /\ slot' \in Seq(Nat)
      /\ Len(denotes') = Len(text) /\ Len(slot') = Len(text)
  BY <1>1, <1>2
<1>5. TreeInv' /\ FunctionsOK' /\ HeadersOK' /\ TablesOK'
  BY <1>1, SameTree
<1>6. FlowOK'
  <2>1. \A i \in DOMAIN text : After(i)' = After(i)
    BY <1>1, SameTree
  <2>2. m_scope = 1 /\ text[1].scope = 1
    BY <1>1, <1>2 DEF ParseInv, FlowOK
  <2> QED BY <1>1, <1>2, <2>1, <2>2 DEF ParseInv, FlowOK
<1>7. NamesTypeOK'
  BY <1>1, <1>4 DEF NamesTypeOK, Stages
<1>8. /\ Limit("analyse", {"declare", "lower", "done"})' = 1
      /\ Limit("declare", {"lower", "done"})' = 1
      /\ Limit("lower", {"done"})' = 1
  BY <1>1, <1>2 DEF Limit
<1>9. \A r \in DOMAIN text : ~(r < 1)
  BY <1>2
<1>10. BoundsOK' /\ LocalsOK' /\ FailuresJustified'
  BY <1>1, <1>2, <1>3, <1>4 DEF BoundsOK, LocalsOK, FailuresJustified
<1>11. DenotesOK' /\ SlotsOK'
  BY <1>1, <1>8, <1>9 DEF DenotesOK, SlotsOK
<1>12. DeclaredOK'
  <2>1. \A space \in {"symbol", "type"}, m \in Idents : declared[space][m] = 0
    BY <1>1 DEF PassInv, DeclaredOK
  <2> QED BY <2>1, <1>1, <1>8, <1>9 DEF DeclaredOK
<1> QED BY <1>5, <1>6, <1>7, <1>10, <1>11, <1>12 DEF ParseInv, PassInv

-----------------------------------------------------------------------------
(* What the analysis finds for a reference is a definition around it, and  *)
(* where it finds nothing there is none.                                   *)
LEMMA GotIs ==
  ASSUME NamesTypeOK, TreeInv, TablesOK, stage # "parse",
         NEW r \in DOMAIN text, text[r].kind \in RefKinds,
         NEW d, d = Get(text[r].scope, text[r].name)
  PROVE  /\ d = 0 => Around(r) = {}
         /\ d # 0 => /\ d \in DOMAIN text /\ text[d].kind \in FileKinds \union LocalKinds
                     /\ text[d].name = text[r].name
                     /\ \E k \in 1..Depth(text[r].scope) :
                          /\ Path(text[r].scope)[k] = text[d].scope
                          /\ \A h \in (k + 1)..Depth(text[r].scope) :
                               Entry(text[r].scope, h, text[r].name) = 0
<1> USE DEF TreeInv
<1> DEFINE s == text[r].scope
           n == text[r].name
<1>1. s \in DOMAIN scopes /\ n \in Idents /\ n # Unnamed
  BY NamesAssumption DEF TokenOK
<1>2. \A k \in 1..Depth(s) : /\ Path(s)[k] \in DOMAIN scopes /\ Depth(Path(s)[k]) = k
                             /\ \A j \in 1..k : Path(Path(s)[k])[j] = Path(s)[j]
  BY <1>1 DEF ScopesOK
<1>3. ASSUME d = 0 PROVE Around(r) = {}
  <2>1. \A k \in 1..Depth(s) : Entry(s, k, n) = 0
    BY <1>1, <1>3, GetIs
  <2> SUFFICES ASSUME NEW e \in Around(r) PROVE FALSE
    OBVIOUS
  <2>2. /\ e \in DOMAIN text /\ text[e].kind \in FileKinds \union LocalKinds /\ text[e].name = n
    BY DEF Around
  <2>3. PICK k \in 1..Depth(s) : Path(s)[k] = text[e].scope
    BY DEF Around, Path
  <2>4. e \in Nat /\ k \in Nat /\ Depth(text[e].scope) = k /\ TokenOK(e)
    BY <2>2, <2>3, <1>2, TextIs
  <2>5. CASE text[e].kind \in FileKinds
    <3>1. k = 1 /\ Path(s)[1] = 1
      BY <2>2, <2>4, <2>5, <1>1 DEF TokenOK, ScopesOK
    <3>2. scopes[1].table[n] \in 1..e
      BY <2>2, <2>5 DEF TablesOK, Entered, FileEntry
    <3> QED BY <3>1, <3>2, <2>1, <2>3, <2>4 DEF Entry
  <2>6. CASE text[e].kind \in LocalKinds
    <3>1. PICK j \in 1..k : scopes[Path(text[e].scope)[j]].table[n] \in 1..e
      BY <2>2, <2>4, <2>6, <1>1 DEF TablesOK, LocalEntry
    <3>2. Path(text[e].scope)[j] = Path(s)[j] /\ j \in 1..Depth(s)
      BY <2>3, <2>4, <1>1, <1>2, ScopeIs
    <3> QED BY <3>1, <3>2, <2>1, <2>4 DEF Entry
  <2> QED BY <2>2, <2>5, <2>6
<1>4. ASSUME d # 0
      PROVE  /\ d \in DOMAIN text /\ text[d].kind \in FileKinds \union LocalKinds /\ text[d].name = n
             /\ \E k \in 1..Depth(s) : /\ Path(s)[k] = text[d].scope
                                       /\ \A h \in (k + 1)..Depth(s) : Entry(s, h, n) = 0
  <2>1. PICK k \in 1..Depth(s) : d = Entry(s, k, n) /\ \A h \in (k + 1)..Depth(s) : Entry(s, h, n) = 0
    BY <1>1, <1>4, GetIs
  <2>2. Path(s)[k] \in DOMAIN scopes
    BY <1>2
  <2> QED BY <2>1, <2>2, <1>1, <1>4 DEF Entry, TablesOK, EntriesOK
<1> QED BY <1>3, <1>4

(* The definitions of the file are in its scope, the others are not.       *)
LEMMA FileScope ==
  ASSUME NamesTypeOK, TreeInv, NEW i \in DOMAIN text
  PROVE  /\ text[i].scope \in DOMAIN scopes /\ Depth(text[i].scope) \in Nat \ {0}
         /\ (text[i].kind \in FileKinds <=> text[i].scope = 1)
         /\ (text[i].kind \notin FileKinds <=> Depth(text[i].scope) >= 2)
<1>1. TokenOK(i) /\ text[i].scope \in DOMAIN scopes
  BY DEF TreeInv, TokenOK
<1>2. Depth(text[i].scope) \in Nat \ {0} /\ (Depth(text[i].scope) = 1 <=> text[i].scope = 1)
  BY <1>1, Ends DEF TreeInv
<1>3. text[i].kind \in FileKinds <=> Depth(text[i].scope) = 1
  BY <1>1 DEF TokenOK
<1> QED BY <1>1, <1>2, <1>3

(* A token leads to a scope.                                               *)
LEMMA AfterIs ==
  ASSUME NamesTypeOK, TreeInv, NEW i \in DOMAIN text
  PROVE  After(i) \in DOMAIN scopes
<1>1. TokenOK(i) /\ text[i].scope \in DOMAIN scopes
  BY DEF TreeInv, TokenOK
<1>2. CASE text[i].kind \in Openers
  BY <1>1, <1>2 DEF After, TokenOK, Openers, Closers
<1>3. CASE text[i].kind \in Closers
  <2>1. text[i].kind \in {"close", "end"}
    BY <1>3 DEF Closers
  <2>2. Depth(text[i].scope) >= 2
    BY <1>1, <2>1, FileScope DEF FileKinds
  <2>3. Parent(text[i].scope) \in DOMAIN scopes
    BY <1>1, <2>2, Ends DEF TreeInv
  <2> QED BY <1>3, <2>1, <2>3 DEF After, Openers
<1>4. CASE text[i].kind \notin Openers \union Closers
  BY <1>1, <1>4 DEF After
<1> QED BY <1>2, <1>3, <1>4

(* A visit leaves one more token behind.                                   *)
LEMMA VisitIs ==
  ASSUME NamesTypeOK, at \in DOMAIN text, NEW pass, NEW following, pass # following,
         Visit(pass, following)
  PROVE  /\ at' \in DOMAIN text /\ at' \in Nat \ {0}
         /\ \/ stage' = pass /\ at' = at + 1
            \/ stage' = following /\ at = Len(text) /\ at' = 1
         /\ \A i \in DOMAIN text :
              i < (IF stage' = pass THEN at' ELSE Len(text) + 1) <=> i <= at
  BY TextIs DEF Visit

(* A step of the symbol analysis.                                          *)
LEMMA AnalyseStep == ASSUME NamesInv, Analyse PROVE NamesInv'
<1> USE DEF NamesInv
<1>1. /\ UNCHANGED <<text, scopes, declared, locals, slot>> /\ stage = "analyse"
      /\ text' = text /\ scopes' = scopes
  BY DEF Analyse
<1>2. /\ at \in DOMAIN text /\ text # <<>> /\ m_scope = text[at].scope
      /\ Len(denotes) = Len(text) /\ Len(slot) = Len(text)
      /\ DOMAIN text = 1..Len(text) /\ Len(text) \in Nat
  BY <1>1, TextIs DEF PassInv, BoundsOK, ParseInv, FlowOK
<1> DEFINE d == Get(m_scope, text[at].name)
           isRef == text[at].kind \in RefKinds
<1>3. /\ stage' \in {"analyse", "declare", "unresolved", "invalid"}
      /\ stage' = "declare" => at' = 1
  BY <1>1 DEF Analyse, Visit, Fails
<1>4. /\ TreeInv' /\ FunctionsOK' /\ HeadersOK' /\ TablesOK'
      /\ text[1].scope = 1
      /\ \A i \in DOMAIN text : i + 1 \in DOMAIN text => text[i + 1].scope = After(i)
      /\ \A i \in DOMAIN text : After(i)' = After(i)
  BY <1>1, <1>2, <1>3, SameTree
<1>5. \A s, n : Get(s, n)' = Get(s, n)
  BY <1>1 DEF Get
<1>6. \A i \in DOMAIN text : Analysed(i) /\ denotes'[i] = denotes[i] => Analysed(i)'
  BY <1>1, <1>5 DEF Analysed
<1>7. \A i \in DOMAIN text : text[i].kind \in RefKinds /\ i < at => Analysed(i)
  BY <1>1 DEF PassInv, DenotesOK, Limit
<1>8. /\ LocalsOK' /\ SlotsOK' /\ DeclaredOK'
  <2>1. /\ Limit("lower", {"done"})' = 1
        /\ Limit("declare", {"lower", "done"})' = 1
    BY <1>3 DEF Limit
  <2>2. \A space \in {"symbol", "type"}, m \in Idents : declared[space][m] = 0
    BY <1>1 DEF PassInv, DeclaredOK
  <2>3. \A r \in DOMAIN text : ~(r < 1)
    BY <1>2
  <2>4. DeclaredOK'
    BY <2>1, <2>2, <2>3, <1>1 DEF DeclaredOK
  <2> QED BY <2>1, <2>3, <2>4, <1>1, <1>3 DEF LocalsOK, SlotsOK
<1>9. Around(at)' = Around(at) \/ at' # at
  BY <1>1 DEF Around, Depth
(* The analysis goes on, having set at most the reference it visits.       *)
<1>10. ASSUME Visit("analyse", "declare"), m_scope' = After(at),
              denotes' \in Seq(Nat), Len(denotes') = Len(denotes),
              \A i \in DOMAIN text : i # at => denotes'[i] = denotes[i],
              \A i \in DOMAIN text : i = at /\ isRef => Analysed(i)'
       PROVE  NamesInv'
  <2>1. /\ at' \in DOMAIN text /\ at' \in Nat \ {0}
        /\ (stage' = "analyse" /\ at' = at + 1) \/ stage' = "declare"
        /\ \A i \in DOMAIN text :
             i < (IF stage' = "analyse" THEN at' ELSE Len(text) + 1) <=> i <= at
    BY <1>2, <1>10, VisitIs
  <2>2. NamesTypeOK'
    BY <1>1, <1>2, <1>3, <1>10, <2>1, AfterIs DEF NamesTypeOK, Stages
  <2>3. FlowOK'
    BY <1>1, <1>2, <1>4, <1>10, <2>1 DEF FlowOK
  <2>4. BoundsOK' /\ FailuresJustified'
    BY <1>1, <1>2, <1>10, <2>1 DEF BoundsOK, FailuresJustified
  <2>5. DenotesOK'
    <3>1. Limit("analyse", {"declare", "lower", "done"})'
            = IF stage' = "analyse" THEN at' ELSE Len(text) + 1
      BY <1>1, <2>1 DEF Limit
    <3>2. \A i \in DOMAIN text : i <= at => i < at \/ i = at
      BY <1>2
    <3>3. \A i \in DOMAIN text : text[i].kind \in RefKinds /\ i <= at => Analysed(i)'
      BY <1>6, <1>7, <1>10, <3>2
    <3> QED BY <1>1, <2>1, <3>1, <3>3 DEF DenotesOK
  <2> QED BY <1>4, <1>8, <2>2, <2>3, <2>4, <2>5 DEF PassInv, ParseInv
(* The analysis fails.                                                     *)
<1>11. ASSUME at' = at, m_scope' = m_scope, denotes' = denotes,
              stage' \in {"unresolved", "invalid"}, FailuresJustified'
       PROVE  NamesInv'
  <2>1. NamesTypeOK'
    BY <1>1, <1>11 DEF NamesTypeOK, Stages
  <2>2. FlowOK' /\ BoundsOK' /\ DenotesOK'
    <3>1. Limit("analyse", {"declare", "lower", "done"})' = 1
      BY <1>11 DEF Limit
    <3>2. \A r \in DOMAIN text : ~(r < 1)
      BY <1>2
    <3> QED BY <1>1, <1>2, <1>4, <1>11, <3>1, <3>2 DEF FlowOK, BoundsOK, DenotesOK
  <2> QED BY <1>4, <1>8, <1>11, <2>1, <2>2 DEF PassInv, ParseInv
<1>12. CASE ~isRef
  <2>1. Visit("analyse", "declare") /\ Walk /\ denotes' = denotes
    BY <1>12 DEF Analyse
  <2>2. m_scope' = After(at)
    BY <1>2, <2>1 DEF Walk, After, Openers
  <2> QED BY <1>10, <1>12, <2>1, <2>2 DEF NamesTypeOK
<1>13. CASE isRef
  <2>1. m_scope' = m_scope
    BY <1>13 DEF Analyse
  <2>2. After(at) = m_scope
    BY <1>2, <1>13 DEF After, Openers, Closers, RefKinds
  <2>3. /\ d = 0 => Around(at) = {}
        /\ d # 0 => /\ d \in DOMAIN text
                    /\ text[d].name = text[at].name
                    /\ \E k \in 1..Depth(text[at].scope) : Path(text[at].scope)[k] = text[d].scope
    BY <1>1, <1>2, <1>13, GotIs DEF ParseInv
  <2>4. CASE d = 0
    <3>1. stage' = "unresolved" /\ at' = at /\ denotes' = denotes
      BY <1>13, <2>4 DEF Analyse, Fails
    <3>2. FailuresJustified'
      BY <1>9, <2>3, <2>4, <3>1 DEF FailuresJustified
    <3> QED BY <1>11, <2>1, <3>1, <3>2
  <2>5. CASE d # 0 /\ text[d].kind = "type"
    <3>1. stage' = "invalid" /\ at' = at /\ denotes' = denotes
      BY <1>13, <2>5 DEF Analyse, Fails
    <3>2. text[d].scope = 1
      BY <2>3, <2>5, FileScope DEF FileKinds
    <3>3. d \in Around(at)
      BY <2>3, <2>5, <3>2 DEF Around, FileKinds, Path
    <3>4. FailuresJustified'
      BY <1>1, <1>9, <2>5, <3>1, <3>3 DEF FailuresJustified
    <3> QED BY <1>11, <2>1, <3>1, <3>4
  <2>6. CASE d # 0 /\ text[d].kind # "type"
    <3>1. Visit("analyse", "declare") /\ denotes' = [denotes EXCEPT ![at] = d]
      BY <1>13, <2>6 DEF Analyse
    <3>2. d \in Nat /\ denotes \in Seq(Nat) /\ at \in DOMAIN denotes
      BY <1>2, <2>3, <2>6 DEF NamesTypeOK
    <3>3. /\ denotes' \in Seq(Nat) /\ Len(denotes') = Len(denotes) /\ denotes'[at] = d
          /\ \A i \in DOMAIN denotes : i # at => denotes'[i] = denotes[i]
      BY <3>1, <3>2
    <3>4. DOMAIN denotes = DOMAIN text
      BY <1>2, <3>2
    <3>5. ASSUME NEW i \in DOMAIN text, i = at PROVE Analysed(i)'
      <4>1. Get(text[i].scope, text[i].name)' = Get(m_scope, text[i].name)
        BY <1>1, <1>2, <3>5 DEF Get
      <4>2. denotes'[i] = Get(m_scope, text[i].name)
        BY <3>3, <3>5
      <4>3. denotes'[i] # 0 /\ text'[denotes'[i]].kind # "type"
        BY <1>1, <2>6, <3>3, <3>5
      <4> QED BY <1>1, <4>1, <4>2, <4>3 DEF Analysed
    <3> QED BY <1>10, <2>1, <2>2, <3>1, <3>3, <3>4, <3>5
  <2> QED BY <2>4, <2>5, <2>6
<1> QED BY <1>12, <1>13

(* The passes after the analysis leave the tree and what it found alone.   *)
LEMMA LaterPass ==
  ASSUME NamesInv, stage \in {"declare", "lower"},
         stage' \in {"declare", "lower", "done", "aborted"},
         UNCHANGED <<text, scopes, m_scope, denotes>>,
         Len(slot') = Len(slot), at' \in DOMAIN text
  PROVE  TreeInv' /\ ParseInv' /\ BoundsOK' /\ DenotesOK'
<1> USE DEF NamesInv
<1>1. /\ TreeInv' /\ FunctionsOK' /\ HeadersOK' /\ TablesOK'
      /\ text # <<>> => text[1].scope = 1
      /\ \A i \in DOMAIN text : i + 1 \in DOMAIN text => text[i + 1].scope = After(i)
      /\ \A i \in DOMAIN text : After(i)' = After(i)
  BY SameTree
<1>2. FlowOK'
  BY <1>1 DEF FlowOK
<1>3. BoundsOK'
  BY DEF PassInv, BoundsOK
<1>4. DOMAIN text = 1..Len(text) /\ Len(text) \in Nat
  BY TextIs
<1>5. DenotesOK'
  <2>1. \A i : Analysed(i) => Analysed(i)'
    BY DEF Analysed, Get
  <2>2. Limit("analyse", {"declare", "lower", "done"}) = Len(text) + 1
    BY DEF Limit
  <2>3. Limit("analyse", {"declare", "lower", "done"})' \in {1, Len(text) + 1}
    BY DEF Limit
  <2>4. \A i \in DOMAIN text : i < Len(text) + 1 /\ ~(i < 1)
    BY <1>4
  <2> QED BY <2>1, <2>2, <2>3, <2>4 DEF PassInv, DenotesOK
<1> QED BY <1>1, <1>2, <1>3, <1>5 DEF ParseInv

(* A step of the declarations.                                             *)
LEMMA DeclareStep == ASSUME NamesInv, Declare PROVE NamesInv'
<1> USE DEF NamesInv
<1> DEFINE n == text[at].name
           space == Space(at)
<1>1. /\ UNCHANGED <<text, scopes, m_scope, denotes, locals, slot>> /\ stage = "declare"
      /\ text' = text
  BY DEF Declare
<1>2. /\ at \in DOMAIN text /\ at \in Nat /\ text # <<>>
      /\ DOMAIN text = 1..Len(text) /\ Len(text) \in Nat
  BY <1>1, TextIs DEF PassInv, BoundsOK
<1>3. /\ stage' \in {"declare", "lower", "aborted"} /\ at' \in DOMAIN text /\ at' \in Nat \ {0}
      /\ stage' = "lower" => at' = 1
  <2>1. ASSUME Visit("declare", "lower")
        PROVE  /\ stage' \in {"declare", "lower", "aborted"} /\ at' \in DOMAIN text
               /\ at' \in Nat \ {0} /\ (stage' = "lower" => at' = 1)
    BY <1>2, <2>1, VisitIs
  <2> QED BY <2>1, <1>1, <1>2 DEF Declare, Fails
<1>4. TreeInv' /\ ParseInv' /\ BoundsOK' /\ DenotesOK'
  BY <1>1, <1>3, LaterPass
<1>5. LocalsOK' /\ SlotsOK'
  <2>1. Limit("lower", {"done"})' = 1
    BY <1>3 DEF Limit
  <2>2. \A r \in DOMAIN text : ~(r < 1)
    BY <1>2
  <2>3. Depth(1)' = 1 /\ text[1].scope = 1
    BY <1>1, <1>2 DEF TreeInv, ScopesOK, Depth, ParseInv, FlowOK
  <2>4. stage' = "lower" => Depth(text[at].scope)' = 1
    BY <1>1, <1>3, <2>3
  <2> QED BY <1>1, <2>1, <2>2, <2>4 DEF LocalsOK, SlotsOK
<1>6. \A m \in Idents, x \in {"symbol", "type"} :
        LET i == declared[x][m]
        IN  i # 0 => /\ i \in DOMAIN text /\ i < at
                     /\ text[i].kind \in FileKinds /\ Space(i) = x /\ text[i].name = m
  BY <1>1 DEF PassInv, DeclaredOK
<1>7. \A i \in DOMAIN text : text[i].kind \in FileKinds /\ i < at =>
        declared[Space(i)][text[i].name] = i
  BY <1>1 DEF PassInv, DeclaredOK, Limit
<1>8. \A i \in DOMAIN text : Space(i)' = Space(i) /\ Space(i) \in {"symbol", "type"}
  BY <1>1 DEF Space
<1>9. text[at].kind \in FileKinds => n \in Idents
  BY <1>2 DEF TreeInv, TokenOK
<1>10. \A i \in DOMAIN text : text[i].kind \in FileKinds => text[i].name \in Idents
  BY DEF TreeInv, TokenOK
(* The declarations go on.                                                 *)
<1>11. ASSUME Visit("declare", "lower"), declared' \in [{"symbol", "type"} -> [Idents -> Nat]],
              \A i \in DOMAIN text : text[i].kind \in FileKinds /\ i <= at =>
                declared'[Space(i)][text[i].name] = i,
              \A m \in Idents, x \in {"symbol", "type"} :
                LET i == declared'[x][m]
                IN  i # 0 => /\ i \in DOMAIN text /\ i <= at
                             /\ text[i].kind \in FileKinds /\ Space(i) = x /\ text[i].name = m
       PROVE  NamesInv'
  <2>1. /\ (stage' = "declare" /\ at' = at + 1) \/ stage' = "lower"
        /\ \A i \in DOMAIN text :
             i < (IF stage' = "declare" THEN at' ELSE Len(text) + 1) <=> i <= at
    BY <1>2, <1>11, VisitIs
  <2>2. NamesTypeOK'
    BY <1>1, <1>3, <1>11 DEF NamesTypeOK, Stages
  <2>3. DeclaredOK'
    <3>1. Limit("declare", {"lower", "done"})'
            = IF stage' = "declare" THEN at' ELSE Len(text) + 1
      BY <1>1, <2>1 DEF Limit
    <3>2. \A i \in DOMAIN text' :
            text'[i].kind \in FileKinds /\ i < Limit("declare", {"lower", "done"})'
              => declared'[Space(i)'][text'[i].name] = i
      BY <1>1, <1>8, <1>11, <2>1, <3>1
    <3>3. ASSUME NEW m \in Idents, NEW x \in {"symbol", "type"}, declared'[x][m] # 0,
                 stage' \in {"parse", "load", "analyse", "declare"}
          PROVE  /\ stage' = "declare" /\ declared'[x][m] \in DOMAIN text /\ declared'[x][m] < at'
                 /\ text[declared'[x][m]].kind \in FileKinds
                 /\ text[declared'[x][m]].name = m /\ Space(declared[x][m])' = x
      <4> DEFINE i == declared'[x][m]
      <4>1. /\ i \in DOMAIN text /\ i <= at
            /\ text[i].kind \in FileKinds /\ Space(i) = x /\ text[i].name = m
        BY <1>11, <3>3
      <4>2. stage' = "declare" /\ i < at'
        BY <3>3, <4>1, <1>2, <2>1
      <4>3. Space(declared[x][m])' = x
        BY <4>1, <1>1 DEF Space
      <4> QED BY <4>1, <4>2, <4>3
    <3> QED BY <1>1, <3>2, <3>3 DEF DeclaredOK
  <2>4. FailuresJustified'
    BY <2>1 DEF FailuresJustified
  <2> QED BY <1>4, <1>5, <2>2, <2>3, <2>4 DEF PassInv
<1>12. CASE text[at].kind \notin FileKinds
  <2>1. Visit("declare", "lower") /\ declared' = declared
    BY <1>12 DEF Declare
  <2>2. \A i \in DOMAIN text : text[i].kind \in FileKinds /\ i <= at =>
          declared'[Space(i)][text[i].name] = i
    <3>1. \A i \in DOMAIN text : i <= at => i < at \/ i = at
      BY <1>2
    <3> QED BY <3>1, <2>1, <1>7, <1>12
  <2>3. \A m \in Idents, x \in {"symbol", "type"} :
          LET i == declared'[x][m]
          IN  i # 0 => /\ i \in DOMAIN text /\ i <= at
                       /\ text[i].kind \in FileKinds /\ Space(i) = x /\ text[i].name = m
    BY <2>1, <1>2, <1>6
  <2>4. declared' \in [{"symbol", "type"} -> [Idents -> Nat]]
    BY <2>1 DEF NamesTypeOK
  <2> QED BY <1>11, <2>1, <2>2, <2>3, <2>4
<1>13. CASE text[at].kind \in FileKinds /\ declared[space][n] # 0
  <2>1. stage' = "aborted" /\ at' = at /\ declared' = declared
    BY <1>13 DEF Declare, Fails, Space
  <2>2. PICK i \in DOMAIN text : /\ i < at /\ text[i].kind \in FileKinds
                                 /\ Space(i) = space /\ text[i].name = n
    BY <1>6, <1>8, <1>9, <1>13, <1>2
  <2>3. i # at
    BY <1>2, <2>2
  <2>4. \/ SameName({j \in DOMAIN text : text[j].kind \in FileKinds \ {"type"}})
        \/ SameName({j \in DOMAIN text : text[j].kind = "type"})
    <3>1. CASE text[at].kind = "type"
      <4>1. text[i].kind = "type"
        BY <2>2, <3>1 DEF Space
      <4> QED BY <4>1, <3>1, <2>2, <2>3, <1>2 DEF SameName
    <3>2. CASE text[at].kind # "type"
      <4>1. text[i].kind # "type"
        BY <2>2, <3>2 DEF Space
      <4> QED BY <4>1, <3>2, <2>2, <2>3, <1>2, <1>13 DEF SameName
    <3> QED BY <3>1, <3>2
  <2>5. FailuresJustified'
    <3>1. \A S : SameName(S)' <=> SameName(S)
      BY <1>1 DEF SameName
    <3> QED BY <1>1, <2>1, <2>4, <3>1 DEF FailuresJustified
  <2>6. NamesTypeOK' /\ DeclaredOK'
    <3>1. Limit("declare", {"lower", "done"})' = 1
      BY <2>1 DEF Limit
    <3>2. \A r \in DOMAIN text : ~(r < 1)
      BY <1>2
    <3> QED BY <1>1, <1>3, <2>1, <3>1, <3>2 DEF NamesTypeOK, Stages, DeclaredOK
  <2> QED BY <1>4, <1>5, <2>5, <2>6 DEF PassInv
<1>14. CASE text[at].kind \in FileKinds /\ declared[space][n] = 0
  <2>1. Visit("declare", "lower") /\ declared' = [declared EXCEPT ![space][n] = at]
    BY <1>14 DEF Declare, Space
  <2>2. declared \in [{"symbol", "type"} -> [Idents -> Nat]] /\ space \in {"symbol", "type"}
        /\ n \in Idents
    BY <1>2, <1>8, <1>9, <1>14 DEF NamesTypeOK
  <2> HIDE DEF space, n
  <2>3. /\ declared' \in [{"symbol", "type"} -> [Idents -> Nat]]
        /\ \A x \in {"symbol", "type"}, m \in Idents :
             declared'[x][m] = IF x = space /\ m = n THEN at ELSE declared[x][m]
    BY <2>1, <2>2, <1>2
  <2>4. ASSUME NEW i \in DOMAIN text, text[i].kind \in FileKinds, i <= at
        PROVE  declared'[Space(i)][text[i].name] = i
    <3>1. Space(i) \in {"symbol", "type"} /\ text[i].name \in Idents
      BY <2>4, <1>8, <1>10
    <3>2. CASE i = at
      BY <3>1, <3>2, <2>3 DEF space, n
    <3>3. CASE i # at
      <4>1. declared[Space(i)][text[i].name] = i /\ i # 0
        BY <3>3, <2>4, <1>2, <1>7
      <4> QED BY <4>1, <3>1, <2>3, <1>14
    <3> QED BY <3>2, <3>3
  <2>5. ASSUME NEW m \in Idents, NEW x \in {"symbol", "type"}, declared'[x][m] # 0
        PROVE  LET i == declared'[x][m] IN
               /\ i \in DOMAIN text /\ i <= at
               /\ text[i].kind \in FileKinds /\ Space(i) = x /\ text[i].name = m
    <3>1. CASE x = space /\ m = n
      BY <3>1, <2>3, <1>2, <1>14 DEF space, n
    <3>2. CASE ~(x = space /\ m = n)
      BY <3>2, <2>3, <2>5, <1>2, <1>6
    <3> QED BY <3>1, <3>2
  <2> QED BY <1>11, <2>1, <2>3, <2>4, <2>5
<1> QED BY <1>12, <1>13, <1>14

-----------------------------------------------------------------------------
(* Only parameters stand between a parameter, or a body, and its function. *)
LEMMA HeadIs ==
  ASSUME NamesTypeOK, TreeInv, HeadersOK, NEW i \in DOMAIN text, Heads(i)
  PROVE  /\ FunctionOf(i) \in 1..(i - 1) /\ FunctionOf(i) \in DOMAIN text
         /\ text[FunctionOf(i)].kind = "function"
         /\ \A e \in (FunctionOf(i) + 1)..(i - 1) : text[e].kind = "param"
         /\ \A e \in (FunctionOf(i) + 1)..i : FunctionOf(e) = FunctionOf(i)
<1>1. PICK f \in 1..(i - 1) : /\ text[f].kind = "function"
                              /\ \A e \in (f + 1)..(i - 1) : text[e].kind = "param"
  BY DEF HeadersOK
<1>2. i \in Nat /\ DOMAIN text = 1..Len(text) /\ Len(text) \in Nat /\ text[i].kind # "function"
  BY TextIs DEF Heads
<1>3. ASSUME NEW e \in (f + 1)..i PROVE FunctionOf(e) = f
  <2>1. e \in Nat /\ f \in 1..e /\ \A g \in (f + 1)..e : text[g].kind # "function"
    BY <1>1, <1>2
  <2>2. FunctionIn(text, e) = f
    BY <2>1, <1>1, FunctionIs
  <2> QED BY <2>2 DEF FunctionOf, FunctionIn
<1>4. FunctionOf(i) = f
  BY <1>1, <1>2, <1>3
<1>5. f \in DOMAIN text
  BY <1>1, <1>2
<1> QED BY <1>1, <1>3, <1>4, <1>5

(* The token after one of a function is of the same function, or of none.  *)
LEMMA NextToken ==
  ASSUME NamesTypeOK, TreeInv, FlowOK, FunctionsOK, NEW i \in DOMAIN text, i + 1 \in DOMAIN text,
         Depth(text[i].scope) >= 2, Depth(text[i + 1].scope) >= 2
  PROVE  FunctionOf(i + 1) = FunctionOf(i)
<1> DEFINE s == text[i].scope
           next == text[i + 1].scope
<1>1. s \in DOMAIN scopes /\ next \in DOMAIN scopes /\ next = After(i) /\ TokenOK(i)
      /\ Depth(s) \in Nat
  BY FileScope DEF FlowOK, TreeInv
<1>2. Path(next)[2] = Path(s)[2]
  <2>1. CASE text[i].kind \in Openers
    <3>1. next = text[i].own /\ Depth(next) = Depth(s) + 1 /\ Parent(next) = s
      BY <2>1, <1>1 DEF After, TokenOK, Openers, Closers
    <3> QED BY <3>1, <1>1, Ends DEF TreeInv
  <2>2. CASE text[i].kind \in Closers
    <3>1. next = Parent(s)
      BY <2>2, <1>1 DEF After, Openers, Closers
    <3>2. Depth(next) = Depth(s) - 1
      BY <3>1, <1>1, Ends DEF TreeInv
    <3>3. Depth(s) > 2 /\ ScopesOK
      BY <3>2, <1>1 DEF TreeInv
    <3> HIDE DEF s, next
    <3>4. Path(Parent(s))[2] = Path(s)[2]
      BY <3>3, <1>1, Ends
    <3> QED BY <3>1, <3>4
  <2>3. CASE text[i].kind \notin Openers \union Closers
    BY <2>3, <1>1 DEF After
  <2> QED BY <2>1, <2>2, <2>3
<1> QED BY <1>2, OneFunction

(* A body goes on as long as variables of its function follow.             *)
LEMMA Ahead ==
  ASSUME NamesTypeOK, TreeInv, FlowOK, FunctionsOK, HeadersOK, NEW i \in DOMAIN text,
         Depth(text[i].scope) > 2, NEW d \in DOMAIN text, i < d, text[d].kind = "let",
         FunctionOf(d) = FunctionOf(i)
  PROVE  /\ i + 1 \in DOMAIN text /\ i + 1 <= d
         /\ FunctionOf(i + 1) = FunctionOf(i) /\ Depth(text[i + 1].scope) > 2
<1> DEFINE f == FunctionOf(i)
<1>1. DOMAIN text = 1..Len(text) /\ Len(text) \in Nat /\ i \in Nat /\ d \in Nat
  BY TextIs
<1>2. i + 1 \in DOMAIN text /\ i + 1 <= d
  BY <1>1
<1>3. Depth(text[i].scope) >= 2 /\ Depth(text[d].scope) > 2 /\ Depth(text[d].scope) >= 2
  BY FileScope DEF TreeInv, TokenOK
<1>4. Holds(f, i) /\ Holds(f, d)
  BY <1>3, FunctionHolds
<1>5. \A g \in (f + 1)..d : g \in DOMAIN text /\ Depth(text[g].scope) >= 2 /\ text[g].kind \notin FileKinds
  BY <1>4, HoldsKinds
<1>6. f \in 1..(i - 1)
  BY <1>4 DEF Holds
<1> HIDE DEF f
<1>7. i + 1 \in (f + 1)..d
  BY <1>1, <1>2, <1>6
<1>8. Depth(text[i + 1].scope) >= 2 /\ text[i + 1].kind \notin FileKinds
  BY <1>5, <1>7
<1>9. ASSUME ~(Depth(text[i + 1].scope) > 2) PROVE FALSE
  <2>1. Depth(text[i + 1].scope) = 2
    BY <1>2, <1>8, <1>9, FileScope
  <2>2. text[i + 1].kind \in {"param", "end", "open"}
    <3>1. TokenOK(i + 1) /\ text[i + 1].kind \in Kinds
      BY <1>2, TextIs DEF TreeInv
    <3>2. text[i + 1].kind \notin {"let", "close"} \union RefKinds
      BY <3>1, <1>9 DEF TokenOK
    <3> QED BY <3>1, <3>2, <1>8 DEF Kinds, LocalKinds, Closers
  <2>3. CASE Heads(i + 1)
    <3> DEFINE h == FunctionOf(i + 1)
    <3>1. h \in 1..i /\ text[h].kind = "function" /\ \A e \in (h + 1)..i : text[e].kind = "param"
      BY <2>3, <1>1, <1>2, HeadIs
    <3> HIDE DEF h
    <3>2. h = i \/ i \in (h + 1)..i
      BY <3>1, <1>1
    <3>3. text[i].kind \in {"function", "param"}
      BY <3>1, <3>2
    <3>4. TokenOK(i) /\ Depth(text[i].scope) # 1 /\ Depth(text[i].scope) # 2
      BY DEF TreeInv
    <3> QED BY <3>3, <3>4 DEF TokenOK, FileKinds
  <2>4. CASE text[i + 1].kind = "end"
    <3>1. i + 1 # d
      BY <2>4
    <3>2. i + 2 \in (f + 1)..d /\ i + 2 \in DOMAIN text /\ i + 2 = (i + 1) + 1
      BY <3>1, <1>1, <1>2, <1>6
    <3>3. text[i + 2].scope = After(i + 1)
      BY <3>2, <1>2 DEF FlowOK
    <3>4. After(i + 1) = Parent(text[i + 1].scope)
      BY <2>4 DEF After, Openers, Closers
    <3>5. Depth(Parent(text[i + 1].scope)) = 1
      BY <2>1, <1>2, FileScope, Ends DEF TreeInv
    <3> QED BY <3>2, <3>3, <3>4, <3>5, <1>5
  <2> QED BY <2>1, <2>2, <2>3, <2>4 DEF Heads
<1>10. FunctionOf(i + 1) = FunctionOf(i)
  BY <1>2, <1>3, <1>8, NextToken
<1> QED BY <1>2, <1>9, <1>10

(* What the lowering knows of a token in a body.                           *)
LEMMA BodyToken ==
  ASSUME NamesInv, stage = "lower"
  PROVE  /\ at \in DOMAIN text /\ at \in Nat \ {0} /\ text # <<>>
         /\ DOMAIN text = 1..Len(text) /\ Len(text) \in Nat
         /\ TokenOK(at) /\ text[at].scope \in DOMAIN scopes /\ Depth(text[at].scope) \in Nat \ {0}
         /\ text[at].kind \in {"let"} \union RefKinds => Depth(text[at].scope) > 2
         /\ Len(slot) = Len(text) /\ Len(denotes) = Len(text)
  BY TextIs, FileScope DEF NamesInv, TreeInv, PassInv, BoundsOK, TokenOK

(* The lowering stops at an assertion: the file has what it says.          *)
Clash ==
  \/ \E f \in DOMAIN text :
       /\ text[f].kind = "function"
       /\ SameName({i \in DOMAIN text : i > f /\ text[i].kind \in LocalKinds
                                              /\ FunctionOf(i) = f})
  \/ \E r \in References :
       \E d \in DOMAIN text : d > r /\ text[d].kind = "let" /\ text[d].name = text[r].name
                              /\ FunctionOf(d) = FunctionOf(r)

(* An assertion that fails leaves the rest as it was.                      *)
LEMMA LowerAborts ==
  ASSUME NamesInv, UNCHANGED <<text, scopes, m_scope, at, denotes, declared, locals, slot>>,
         stage = "lower", stage' = "aborted", Clash
  PROVE  NamesInv'
<1> USE DEF NamesInv
<1>1. TreeInv' /\ ParseInv' /\ BoundsOK' /\ DenotesOK'
  BY BodyToken, LaterPass
<1>2. NamesTypeOK'
  BY DEF NamesTypeOK, Stages
<1>3. Clash'
  BY DEF Clash, SameName, References, FunctionOf
<1>4. FailuresJustified'
  BY <1>3 DEF Clash, FailuresJustified
<1>5. /\ Limit("declare", {"lower", "done"})' = 1
      /\ Limit("lower", {"done"})' = 1
  BY DEF Limit
<1>6. \A r \in DOMAIN text : ~(r < 1)
  BY BodyToken
<1>7. DeclaredOK' /\ LocalsOK' /\ SlotsOK'
  BY <1>5, <1>6 DEF DeclaredOK, LocalsOK, SlotsOK
<1> QED BY <1>1, <1>2, <1>4, <1>7 DEF PassInv

(* A reference that comes before the variable it denotes, whose name is    *)
(* taken already.                                                          *)
Early(r) ==
  /\ denotes[r] \in DOMAIN text /\ r < denotes[r]
  /\ text[denotes[r]].kind = "let" /\ text[denotes[r]].name = text[r].name
  /\ FunctionOf(denotes[r]) = FunctionOf(r)
  /\ locals[text[r].name] # 0

(* The lowering goes on.                                                   *)
LEMMA LowerGoesOn ==
  ASSUME NamesInv, UNCHANGED <<text, scopes, m_scope, denotes, declared>>,
         Visit("lower", "done"), locals' \in [AllNames -> Nat], LocalsOK',
         slot' \in Seq(Nat), Len(slot') = Len(slot),
         \A r \in DOMAIN text : r # at => slot'[r] = slot[r],
         Depth(text[at].scope) > 2 => \A n \in AllNames : locals[n] # 0 => locals'[n] # 0,
         text[at].kind = "let" => locals[text[at].name] = 0,
         text[at].kind \in RefKinds =>
           \/ /\ slot'[at] = denotes[at]
              /\ text[denotes[at]].kind \in LocalKinds => denotes[at] < at
           \/ Early(at)
  PROVE  NamesInv'
<1> USE DEF NamesInv
<1>1. stage = "lower" /\ text' = text /\ denotes' = denotes
  BY DEF Visit
<1>2. /\ at \in DOMAIN text /\ at \in Nat \ {0} /\ text # <<>>
      /\ DOMAIN text = 1..Len(text) /\ Len(text) \in Nat
  BY <1>1, BodyToken
<1>3. /\ at' \in DOMAIN text /\ at' \in Nat \ {0}
      /\ (stage' = "lower" /\ at' = at + 1) \/ (stage' = "done" /\ at = Len(text) /\ at' = 1)
      /\ \A i \in DOMAIN text : i < (IF stage' = "lower" THEN at' ELSE Len(text) + 1) <=> i <= at
  BY <1>2, VisitIs
<1>4. TreeInv' /\ ParseInv' /\ BoundsOK' /\ DenotesOK'
  BY <1>1, <1>3, LaterPass
<1>5. NamesTypeOK'
  BY <1>1, <1>3 DEF NamesTypeOK, Stages
<1>6. FailuresJustified'
  BY <1>3 DEF FailuresJustified
<1>7. DeclaredOK'
  <2>1. \A i : Space(i)' = Space(i)
    BY <1>1 DEF Space
  <2>2. Limit("declare", {"lower", "done"}) = Len(text) + 1
        /\ Limit("declare", {"lower", "done"})' = Len(text) + 1
    BY <1>1, <1>3 DEF Limit
  <2>3. stage' \notin {"parse", "load", "analyse", "declare"}
    BY <1>3
  <2> QED BY <1>1, <2>1, <2>2, <2>3 DEF PassInv, DeclaredOK
<1>8. Limit("lower", {"done"}) = at
      /\ Limit("lower", {"done"})' = IF stage' = "lower" THEN at' ELSE Len(text) + 1
  BY <1>1, <1>3 DEF Limit
<1>9. \A i : FunctionOf(i)' = FunctionOf(i)
  BY <1>1 DEF FunctionOf
<1>10. \A r \in DOMAIN text : text[r].kind \in RefKinds => text[r].name \in AllNames
  BY TextIs
(* What is taken before the step is taken after it.                        *)
<1>11. ASSUME NEW r \in DOMAIN text, NEW d \in DOMAIN text, d = denotes[r], at < d,
              text[r].name \in AllNames,
              text[d].kind = "let", text[d].name = text[r].name,
              FunctionOf(d) = FunctionOf(at), Depth(text[at].scope) > 2,
              locals[text[r].name] # 0
       PROVE  Taken(r)'
  <2>1. /\ at + 1 \in DOMAIN text /\ at + 1 <= d
        /\ FunctionOf(at + 1) = FunctionOf(at) /\ Depth(text[at + 1].scope) > 2
    BY <1>2, <1>11, Ahead DEF ParseInv
  <2>2. stage' = "lower" /\ at' = at + 1
    BY <2>1, <1>2, <1>3
  <2>3. locals'[text[r].name] # 0
    BY <1>11
  <2>4. FunctionOf(at)' = FunctionOf(at + 1)
    <3>1. FunctionOf(at)' = FunctionIn(text', at') /\ FunctionOf(at + 1) = FunctionIn(text, at + 1)
      BY DEF FunctionOf, FunctionIn
    <3> QED BY <3>1, <2>2, <1>1
  <2>5. FunctionOf(denotes[r])' = FunctionOf(d)
    <3>1. FunctionOf(denotes[r])' = FunctionIn(text', denotes'[r]) /\ FunctionOf(d) = FunctionIn(text, d)
      BY DEF FunctionOf, FunctionIn
    <3> QED BY <3>1, <1>1, <1>11
  <2>6. Depth(text[at].scope)' = Depth(text[at + 1].scope)
    BY <2>2, <1>1 DEF Depth
  <2> QED BY <1>1, <1>11, <2>1, <2>2, <2>3, <2>4, <2>5, <2>6 DEF Taken
<1>12. ASSUME NEW r \in DOMAIN text, text[r].kind \in RefKinds, r <= at
       PROVE  Matches(r)' \/ Taken(r)'
  <2>1. CASE r < at /\ Matches(r)
    <3>1. slot'[r] = slot[r]
      BY <2>1, <1>2
    <3> QED BY <3>1, <2>1, <1>1 DEF Matches
  <2>2. CASE r < at /\ Taken(r)
    <3> DEFINE d == denotes[r]
    <3>1. /\ at <= d /\ d \in DOMAIN text /\ text[d].kind = "let" /\ text[d].name = text[r].name
          /\ FunctionOf(d) = FunctionOf(at) /\ Depth(text[at].scope) > 2
          /\ locals[text[r].name] # 0
      BY <2>2 DEF Taken
    <3>2. d # at
      BY <3>1
    <3>3. at < d
      BY <3>1, <3>2, <1>2
    <3> QED BY <3>1, <3>3, <1>10, <1>11, <1>12
  <2>3. CASE r = at /\ slot'[at] = denotes[at] /\ (text[denotes[at]].kind \in LocalKinds => denotes[at] < at)
    BY <2>3, <1>1 DEF Matches
  <2>4. CASE r = at /\ Early(at)
    <3>1. Depth(text[at].scope) > 2
      BY <2>4, <1>1, <1>12, BodyToken
    <3> QED BY <3>1, <2>4, <1>2, <1>10, <1>11, <1>12 DEF Early
  <2>5. r < at => Matches(r) \/ Taken(r)
    BY <1>8, <1>12 DEF PassInv, SlotsOK
  <2> QED BY <2>1, <2>2, <2>3, <2>4, <2>5, <1>2, <1>12
<1>13. ASSUME NEW r \in DOMAIN text, text[r].kind \in RefKinds, r <= at,
              NEW d \in 1..(r - 1), NEW e \in 1..(r - 1),
              text[d].kind \in LocalKinds, text[e].kind \in LocalKinds,
              FunctionOf(d) = FunctionOf(r), FunctionOf(e) = FunctionOf(r),
              text[d].name = text[e].name
       PROVE  d = e
  <2>1. CASE r < at
    BY <2>1, <1>8, <1>13 DEF PassInv, SlotsOK
  <2>2. CASE r = at
    <3>1. Depth(text[at].scope) > 2
      BY <2>2, <1>1, <1>13, BodyToken
    <3>2. d \in DOMAIN text /\ e \in DOMAIN text /\ d < at /\ e < at
      BY <2>2, <1>2
    <3>3. locals[text[d].name] = d /\ locals[text[e].name] = e
      BY <3>1, <3>2, <2>2, <1>1, <1>13 DEF PassInv, LocalsOK
    <3> QED BY <3>3, <1>13
  <2> QED BY <2>1, <2>2, <1>2, <1>13
<1>14. SlotsOK'
  <2>1. ASSUME NEW r \in DOMAIN text', text'[r].kind \in RefKinds,
               r < Limit("lower", {"done"})'
        PROVE  /\ Matches(r)' \/ Taken(r)'
               /\ \A d, e \in 1..(r - 1) :
                    /\ text'[d].kind \in LocalKinds /\ text'[e].kind \in LocalKinds
                    /\ FunctionOf(d)' = FunctionOf(r)' /\ FunctionOf(e)' = FunctionOf(r)'
                    /\ text'[d].name = text'[e].name
                    => d = e
    <3>1. r \in DOMAIN text /\ text[r].kind \in RefKinds /\ r <= at
      BY <2>1, <1>1, <1>3, <1>8
    <3>2. Matches(r)' \/ Taken(r)'
      BY <3>1, <1>12
    <3>3. \A d, e \in 1..(r - 1) :
            /\ text[d].kind \in LocalKinds /\ text[e].kind \in LocalKinds
            /\ FunctionOf(d) = FunctionOf(r) /\ FunctionOf(e) = FunctionOf(r)
            /\ text[d].name = text[e].name
            => d = e
      BY <3>1, <1>13
    <3> QED BY <3>2, <3>3, <1>1, <1>9
  <2> QED BY <2>1 DEF SlotsOK
<1> QED BY <1>4, <1>5, <1>6, <1>7, <1>14 DEF PassInv

(* The table of locals for the next token, in terms of this one.           *)
LocalsFor(table, i) ==
  /\ \A n \in AllNames :
       LET e == table[n]
       IN  e # 0 => /\ e \in DOMAIN text /\ e < i
                    /\ text[e].kind \in LocalKinds /\ text[e].name = n
                    /\ FunctionOf(e) = FunctionOf(i)
  /\ \A e \in DOMAIN text :
       e < i /\ text[e].kind \in LocalKinds /\ FunctionOf(e) = FunctionOf(i)
         => table[text[e].name] = e

(* The table is the one the next token needs.                              *)
LEMMA LocalsNext ==
  ASSUME NamesInv, UNCHANGED <<text, scopes>>, Visit("lower", "done"),
         at + 1 \in DOMAIN text /\ Depth(text[at + 1].scope) > 2 => LocalsFor(locals', at + 1)
  PROVE  LocalsOK'
<1> USE DEF NamesInv
<1>1. /\ at \in DOMAIN text /\ at \in Nat \ {0} /\ stage = "lower" /\ text' = text
  BY BodyToken DEF Visit
<1>2. /\ at' \in DOMAIN text
      /\ (stage' = "lower" /\ at' = at + 1) \/ (stage' = "done" /\ at' = 1)
  BY <1>1, VisitIs
<1> SUFFICES ASSUME stage' = "lower", Depth(text[at].scope)' > 2 PROVE LocalsOK'
  BY DEF LocalsOK
<1>3. at' = at + 1 /\ at + 1 \in DOMAIN text
  BY <1>2
<1>4. Depth(text[at + 1].scope) > 2
  BY <1>1, <1>3 DEF Depth
<1>5. LocalsFor(locals', at + 1)
  BY <1>3, <1>4
<1>6. \A i : FunctionOf(i)' = FunctionOf(i)
  BY <1>1 DEF FunctionOf
<1>7. FunctionOf(at)' = FunctionOf(at + 1)
  <2>1. FunctionOf(at)' = FunctionIn(text', at') /\ FunctionOf(at + 1) = FunctionIn(text, at + 1)
    BY DEF FunctionOf, FunctionIn
  <2> QED BY <2>1, <1>1, <1>3
<1>8. ASSUME NEW n \in AllNames, locals'[n] # 0
      PROVE  /\ locals'[n] \in DOMAIN text' /\ locals'[n] < at'
             /\ text'[locals'[n]].kind \in LocalKinds /\ text'[locals'[n]].name = n
             /\ FunctionOf(locals[n])' = FunctionOf(at)'
  <2>1. FunctionOf(locals[n])' = FunctionOf(locals'[n])
    <3>1. FunctionOf(locals[n])' = FunctionIn(text', locals'[n])
          /\ FunctionOf(locals'[n]) = FunctionIn(text, locals'[n])
      BY DEF FunctionOf, FunctionIn
    <3> QED BY <3>1, <1>1
  <2> QED BY <2>1, <1>1, <1>3, <1>5, <1>7, <1>8 DEF LocalsFor
<1>9. ASSUME NEW e \in DOMAIN text, e < at + 1, text[e].kind \in LocalKinds,
             FunctionOf(e) = FunctionOf(at + 1)
      PROVE  locals'[text[e].name] = e
  BY <1>5, <1>9 DEF LocalsFor
<1> QED BY <1>1, <1>3, <1>6, <1>7, <1>8, <1>9 DEF LocalsOK

(* In a body, a variable joins the table and every other token leaves it.  *)
LEMMA LocalsKept ==
  ASSUME NamesInv, stage = "lower", Depth(text[at].scope) > 2, at + 1 \in DOMAIN text,
         Depth(text[at + 1].scope) > 2, NEW table,
         IF text[at].kind = "let"
         THEN locals[text[at].name] = 0 /\ table = [locals EXCEPT ![text[at].name] = at]
         ELSE table = locals
  PROVE  LocalsFor(table, at + 1)
<1> USE DEF NamesInv
<1>1. /\ at \in DOMAIN text /\ at \in Nat \ {0} /\ DOMAIN text = 1..Len(text) /\ Len(text) \in Nat
      /\ TokenOK(at) /\ Depth(text[at].scope) \in Nat
  BY BodyToken
<1>2. FunctionOf(at + 1) = FunctionOf(at)
  <2>1. Depth(text[at].scope) >= 2 /\ Depth(text[at + 1].scope) >= 2
    BY <1>1, FileScope
  <2> QED BY <2>1, <1>1, NextToken DEF ParseInv
<1>3. LocalsFor(locals, at)
  BY DEF PassInv, LocalsOK, LocalsFor
<1>4. locals \in [AllNames -> Nat] /\ text[at].name \in AllNames
  BY <1>1, TextIs DEF NamesTypeOK
<1>5. \A e \in DOMAIN text : e < at + 1 => e < at \/ e = at
  BY <1>1
<1>6. \A e \in DOMAIN text : e < at => e < at + 1
  BY <1>1
<1>7. CASE text[at].kind = "let"
  <2>1. /\ locals[text[at].name] = 0
        /\ \A n \in AllNames : table[n] = IF n = text[at].name THEN at ELSE locals[n]
    BY <1>4, <1>7
  <2>2. ASSUME NEW n \in AllNames, table[n] # 0
        PROVE  /\ table[n] \in DOMAIN text /\ table[n] < at + 1
               /\ text[table[n]].kind \in LocalKinds /\ text[table[n]].name = n
               /\ FunctionOf(table[n]) = FunctionOf(at + 1)
    <3>1. CASE n = text[at].name
      BY <3>1, <2>1, <1>1, <1>2, <1>7 DEF LocalKinds
    <3>2. CASE n # text[at].name
      BY <3>2, <2>1, <2>2, <1>2, <1>3, <1>6 DEF LocalsFor
    <3> QED BY <3>1, <3>2
  <2>3. ASSUME NEW e \in DOMAIN text, e < at + 1, text[e].kind \in LocalKinds,
               FunctionOf(e) = FunctionOf(at + 1)
        PROVE  table[text[e].name] = e
    <3>1. text[e].name \in AllNames /\ e # 0
      BY TextIs, <1>1
    <3>2. CASE e = at
      BY <3>1, <3>2, <2>1
    <3>3. CASE e < at
      <4>1. locals[text[e].name] = e
        BY <3>3, <2>3, <1>2, <1>3 DEF LocalsFor
      <4> QED BY <4>1, <3>1, <2>1
    <3> QED BY <3>2, <3>3, <2>3, <1>5
  <2> QED BY <2>2, <2>3 DEF LocalsFor
<1>8. CASE text[at].kind # "let"
  <2>1. text[at].kind \notin LocalKinds
    <3>1. text[at].kind # "param"
      BY <1>1 DEF TokenOK
    <3> QED BY <3>1, <1>8 DEF LocalKinds
  <2>2. table = locals
    BY <1>8
  <2>3. \A n \in AllNames : locals[n] # 0 =>
          /\ locals[n] \in DOMAIN text /\ locals[n] < at + 1
          /\ text[locals[n]].kind \in LocalKinds /\ text[locals[n]].name = n
          /\ FunctionOf(locals[n]) = FunctionOf(at + 1)
    BY <1>2, <1>3, <1>6 DEF LocalsFor
  <2>4. \A e \in DOMAIN text :
          e < at + 1 /\ text[e].kind \in LocalKinds /\ FunctionOf(e) = FunctionOf(at + 1)
            => locals[text[e].name] = e
    BY <2>1, <1>2, <1>3, <1>5 DEF LocalsFor
  <2> QED BY <2>2, <2>3, <2>4 DEF LocalsFor
<1> QED BY <1>7, <1>8

(* The steps of the lowering.                                              *)
LEMMA LowerLetStep == ASSUME NamesInv, LowerLet PROVE NamesInv'
<1> USE DEF NamesInv
<1> DEFINE n == text[at].name
<1>1. UNCHANGED <<text, scopes, m_scope, denotes, declared, slot>> /\ stage = "lower"
      /\ text[at].kind = "let"
  BY DEF LowerLet
<1>2. /\ at \in DOMAIN text /\ at \in Nat \ {0} /\ Depth(text[at].scope) > 2 /\ n \in AllNames
  BY <1>1, BodyToken, TextIs
<1>3. locals \in [AllNames -> Nat] /\ slot \in Seq(Nat)
  BY DEF NamesTypeOK
<1>4. CASE locals[n] # 0
  <2>1. UNCHANGED <<text, scopes, m_scope, at, denotes, declared, locals, slot>> /\ stage' = "aborted"
    BY <1>1, <1>4 DEF LowerLet, Fails
  <2> DEFINE e == locals[n]
  <2>2. /\ e \in DOMAIN text /\ e < at /\ text[e].kind \in LocalKinds /\ text[e].name = n
        /\ FunctionOf(e) = FunctionOf(at)
    BY <1>1, <1>2, <1>4 DEF PassInv, LocalsOK
  <2> HIDE DEF e
  <2> DEFINE f == FunctionOf(at)
  <2>3. Depth(text[at].scope) >= 2 /\ Depth(text[e].scope) >= 2
    <3>1. text[e].kind \notin FileKinds /\ text[at].kind \notin FileKinds
      BY <1>1, <2>2 DEF LocalKinds, FileKinds
    <3> QED BY <3>1, <1>2, <2>2, FileScope
  <2>4. f \in DOMAIN text /\ text[f].kind = "function" /\ f < at /\ f < e
    <3>1. Holds(f, at)
      BY <1>2, <2>3, FunctionHolds DEF ParseInv
    <3>2. Holds(f, e)
      BY <2>2, <2>3, FunctionHolds DEF ParseInv
    <3> QED BY <3>1, <3>2, <1>2, <2>2, HoldsKinds
  <2>5. Clash
    <3> DEFINE S == {i \in DOMAIN text : i > f /\ text[i].kind \in LocalKinds /\ FunctionOf(i) = f}
    <3>1. e \in S /\ at \in S
      BY <1>1, <1>2, <2>2, <2>4 DEF LocalKinds
    <3>2. e # at /\ text[e].name = text[at].name
      BY <1>2, <2>2
    <3>3. SameName(S)
      BY <3>1, <3>2 DEF SameName
    <3> QED BY <3>3, <2>4 DEF Clash
  <2> QED BY <1>1, <2>1, <2>5, LowerAborts
<1>5. CASE locals[n] = 0
  <2>1. Visit("lower", "done") /\ locals' = [locals EXCEPT ![n] = at]
    BY <1>1, <1>5 DEF LowerLet
  <2>2. /\ locals' \in [AllNames -> Nat]
        /\ \A m \in AllNames : locals'[m] = IF m = n THEN at ELSE locals[m]
    BY <2>1, <1>2, <1>3
  <2>3. LocalsOK'
    <3>1. at + 1 \in DOMAIN text /\ Depth(text[at + 1].scope) > 2 => LocalsFor(locals', at + 1)
      BY <1>1, <1>2, <1>5, <2>1, LocalsKept
    <3> QED BY <3>1, <1>1, <2>1, LocalsNext
  <2>4. \A m \in AllNames : locals[m] # 0 => locals'[m] # 0
    BY <2>2, <1>2
  <2>5. text[at].kind \notin RefKinds /\ slot' = slot
    BY <1>1 DEF RefKinds
  <2> QED BY <1>1, <1>3, <1>5, <2>1, <2>2, <2>3, <2>4, <2>5, LowerGoesOn
<1> QED BY <1>4, <1>5

(* What is neither a body, a variable nor a reference.                     *)
LEMMA LowerOtherStep == ASSUME NamesInv, LowerOther PROVE NamesInv'
<1> USE DEF NamesInv
<1>1. /\ UNCHANGED <<text, scopes, m_scope, denotes, declared, locals, slot>> /\ stage = "lower"
      /\ ~OpensBody /\ text[at].kind \notin RefKinds \union {"let"} /\ Visit("lower", "done")
  BY DEF LowerOther
<1>2. /\ at \in DOMAIN text /\ at \in Nat \ {0} /\ TokenOK(at)
      /\ text[at].scope \in DOMAIN scopes /\ Depth(text[at].scope) \in Nat \ {0}
  BY <1>1, BodyToken
<1>3. ASSUME at + 1 \in DOMAIN text, Depth(text[at + 1].scope) > 2 PROVE Depth(text[at].scope) > 2
  <2>1. text[at + 1].scope = After(at)
    BY <1>2, <1>3 DEF ParseInv, FlowOK
  <2>2. CASE text[at].kind \in Openers
    <3>1. After(at) = text[at].own /\ Depth(text[at].own) = Depth(text[at].scope) + 1
      BY <1>2, <2>2 DEF After, TokenOK, Openers, Closers
    <3>2. Depth(text[at].scope) # 1
      BY <3>1, <2>1, <1>3
    <3>3. text[at].kind = "open"
      BY <3>2, <2>2, <1>2 DEF TokenOK, Openers, FileKinds
    <3>4. Depth(text[at].own) # 3
      BY <3>3, <1>1 DEF OpensBody
    <3> QED BY <3>1, <3>2, <3>4, <1>2
  <2>3. CASE text[at].kind \in Closers
    <3>1. After(at) = Parent(text[at].scope)
      BY <2>3 DEF After, Openers, Closers
    <3>2. Depth(text[at].scope) >= 2
      BY <1>2, <2>3, FileScope DEF Closers, FileKinds
    <3>3. Depth(Parent(text[at].scope)) = Depth(text[at].scope) - 1
      BY <3>2, <1>2, Ends DEF TreeInv
    <3> QED BY <3>1, <3>3, <2>1, <1>2, <1>3
  <2>4. CASE text[at].kind \notin Openers \union Closers
    BY <2>1, <2>4, <1>3 DEF After
  <2> QED BY <2>2, <2>3, <2>4
<1>4. LocalsOK'
  <2>1. at + 1 \in DOMAIN text /\ Depth(text[at + 1].scope) > 2 => LocalsFor(locals', at + 1)
    BY <1>1, <1>3, LocalsKept
  <2> QED BY <2>1, <1>1, LocalsNext
<1>5. locals' \in [AllNames -> Nat] /\ slot' \in Seq(Nat)
  BY <1>1 DEF NamesTypeOK
<1>6. text[at].kind # "let" /\ text[at].kind \notin RefKinds
  BY <1>1
<1> QED BY <1>1, <1>4, <1>5, <1>6, LowerGoesOn

(* A reference to a parameter or a variable comes after it, or before a    *)
(* variable of its function; the symbols are all declared.                 *)
LEMMA LowerRefStep == ASSUME NamesInv, LowerRef PROVE NamesInv'
<1> USE DEF NamesInv
<1> DEFINE n == text[at].name
           d == denotes[at]
           found == IF text[d].kind \in LocalKinds THEN locals[n] ELSE declared["symbol"][n]
<1>1. UNCHANGED <<text, scopes, m_scope, denotes, declared, locals>> /\ stage = "lower"
      /\ text[at].kind \in RefKinds
  BY DEF LowerRef
<1>2. /\ at \in DOMAIN text /\ at \in Nat \ {0} /\ Depth(text[at].scope) > 2
      /\ Depth(text[at].scope) \in Nat /\ text[at].scope \in DOMAIN scopes /\ TokenOK(at)
      /\ DOMAIN text = 1..Len(text) /\ Len(text) \in Nat
      /\ Len(slot) = Len(text)
  BY <1>1, BodyToken
<1>3. n \in Idents /\ n \in AllNames
  BY <1>1, <1>2 DEF TokenOK, AllNames
<1>4. d = Get(text[at].scope, n) /\ d # 0 /\ text[d].kind # "type"
  <2>1. Limit("analyse", {"declare", "lower", "done"}) = Len(text) + 1
    BY <1>1 DEF Limit
  <2>2. Analysed(at)
    BY <2>1, <1>1, <1>2 DEF PassInv, DenotesOK
  <2> QED BY <2>2 DEF Analysed
<1>5. /\ d \in DOMAIN text /\ text[d].kind \in FileKinds \union LocalKinds /\ text[d].name = n
      /\ \E k \in 1..Depth(text[at].scope) : Path(text[at].scope)[k] = text[d].scope
  BY <1>1, <1>2, <1>4, GotIs DEF ParseInv
<1> HIDE DEF d, n
<1>6. locals \in [AllNames -> Nat] /\ slot \in Seq(Nat)
      /\ declared \in [{"symbol", "type"} -> [Idents -> Nat]]
  BY DEF NamesTypeOK
<1>7. found \in Nat
  BY <1>3, <1>6
(* A symbol.                                                               *)
<1>8. ASSUME text[d].kind \in FileKinds, text[d].kind \notin LocalKinds PROVE found = d /\ found # 0
  <2>1. Limit("declare", {"lower", "done"}) = Len(text) + 1
    BY <1>1 DEF Limit
  <2>2. declared[Space(d)][text[d].name] = d
    BY <2>1, <1>2, <1>5, <1>8 DEF PassInv, DeclaredOK
  <2>3. Space(d) = "symbol"
    BY <1>4 DEF Space
  <2> QED BY <2>2, <2>3, <1>4, <1>5, <1>8
(* A local of this very function.                                          *)
<1>9. ASSUME text[d].kind \in LocalKinds
      PROVE  /\ FunctionOf(d) = FunctionOf(at)
             /\ d < at => found = d
             /\ d < at \/ (at < d /\ text[d].kind = "let")
  <2>1. PICK k \in 1..Depth(text[at].scope) : Path(text[at].scope)[k] = text[d].scope
    BY <1>5
  <2>2. k \in Nat /\ Depth(text[d].scope) = k /\ \A j \in 1..k : Path(text[d].scope)[j] = Path(text[at].scope)[j]
    BY <2>1, <1>2 DEF TreeInv, ScopesOK
  <2>3. k >= 2
    BY <2>2, <1>5, <1>9, FileScope DEF LocalKinds, FileKinds
  <2>4. Path(text[d].scope)[2] = Path(text[at].scope)[2]
    BY <2>2, <2>3
  <2>5. FunctionOf(d) = FunctionOf(at) /\ Holds(FunctionOf(at), at)
    BY <2>2, <2>3, <2>4, <1>2, <1>5, OneFunction DEF ParseInv
  <2>6. d < at => found = d
    BY <2>5, <1>1, <1>2, <1>5, <1>9 DEF PassInv, LocalsOK
  <2>7. d # at /\ d \in Nat
    BY <1>1, <1>2, <1>5, <1>9 DEF LocalKinds, RefKinds
  <2>8. ASSUME at < d, text[d].kind # "let" PROVE FALSE
    <3>1. Heads(d)
      BY <2>8, <1>9 DEF LocalKinds, Heads
    <3> DEFINE f == FunctionOf(d)
    <3>2. \A e \in (f + 1)..(d - 1) : text[e].kind = "param"
      BY <3>1, <1>5, HeadIs DEF ParseInv
    <3>3. f \in 1..(at - 1)
      BY <2>5 DEF Holds
    <3> HIDE DEF f
    <3>4. at \in (f + 1)..(d - 1)
      BY <3>3, <2>7, <2>8, <1>2
    <3> QED BY <3>2, <3>4, <1>1 DEF RefKinds
  <2> QED BY <2>5, <2>6, <2>7, <2>8, <1>2
<1>10. CASE found = 0
  <2>1. UNCHANGED <<text, scopes, m_scope, at, denotes, declared, locals, slot>> /\ stage' = "aborted"
    BY <1>1, <1>10 DEF LowerRef, Fails, d, n
  <2>2. text[d].kind \in LocalKinds
    BY <1>5, <1>8, <1>10
  <2>3. at < d /\ text[d].kind = "let" /\ FunctionOf(d) = FunctionOf(at)
    BY <2>2, <1>4, <1>9, <1>10
  <2>4. Clash
    BY <2>3, <1>1, <1>2, <1>5 DEF Clash, References, n
  <2> QED BY <1>1, <2>1, <2>4, LowerAborts
<1>11. CASE found # 0
  <2>1. Visit("lower", "done") /\ slot' = [slot EXCEPT ![at] = found]
    BY <1>1, <1>11 DEF LowerRef, d, n
  <2>2. /\ slot' \in Seq(Nat) /\ Len(slot') = Len(slot) /\ slot'[at] = found
        /\ \A r \in DOMAIN text : r # at => slot'[r] = slot[r]
    <3> HIDE DEF found
    <3>1. at \in DOMAIN slot /\ DOMAIN slot = DOMAIN text
      BY <1>2, <1>6
    <3> QED BY <3>1, <2>1, <1>6, <1>7
  <2>3. LocalsOK'
    <3>1. at + 1 \in DOMAIN text /\ Depth(text[at + 1].scope) > 2 => LocalsFor(locals', at + 1)
      BY <1>1, <1>2, LocalsKept DEF RefKinds
    <3> QED BY <3>1, <1>1, <2>1, LocalsNext
  <2>4. \/ /\ slot'[at] = denotes[at]
           /\ text[denotes[at]].kind \in LocalKinds => denotes[at] < at
        \/ Early(at)
    <3>1. CASE text[d].kind \in LocalKinds /\ d < at
      BY <3>1, <2>2, <1>9 DEF d
    <3>2. CASE text[d].kind \in LocalKinds /\ ~(d < at)
      <4>1. locals[text[at].name] # 0
        BY <3>2, <1>11 DEF n
      <4> QED BY <4>1, <3>2, <1>5, <1>9 DEF Early, d, n
    <3>3. CASE text[d].kind \notin LocalKinds
      BY <3>3, <2>2, <1>5, <1>8 DEF d
    <3> QED BY <3>1, <3>2, <3>3
  <2>5. text[at].kind # "let"
    BY <1>1 DEF RefKinds
  <2>6. locals' = locals
    BY <1>1
  <2> QED BY <1>1, <1>6, <2>1, <2>2, <2>3, <2>4, <2>5, <2>6, LowerGoesOn
<1> QED BY <1>10, <1>11

(* A body begins with the parameters, and with nothing of another function.*)
LEMMA LowerBodyStep == ASSUME NamesInv, LowerBody PROVE NamesInv'
<1> USE DEF NamesInv
<1> DEFINE f == FunctionOf(at)
           params == Params(f)
<1>1. UNCHANGED <<text, scopes, m_scope, denotes, declared, slot>> /\ stage = "lower"
      /\ text[at].kind = "open" /\ Depth(text[at].own) = 3
  BY DEF LowerBody, OpensBody
<1>2. /\ at \in DOMAIN text /\ at \in Nat \ {0} /\ TokenOK(at)
      /\ Depth(text[at].scope) \in Nat /\ DOMAIN text = 1..Len(text) /\ Len(text) \in Nat
  BY <1>1, BodyToken
<1>3. Depth(text[at].scope) = 2
  BY <1>1, <1>2 DEF TokenOK, Openers
<1>4. /\ f \in 1..(at - 1) /\ f \in DOMAIN text /\ text[f].kind = "function"
      /\ \A e \in (f + 1)..(at - 1) : text[e].kind = "param"
      /\ \A e \in (f + 1)..at : FunctionOf(e) = f
  BY <1>1, <1>2, <1>3, HeadIs DEF ParseInv, Heads
<1>5. \A i : i \in params <=> i \in (f + 1)..(at - 1)
  <2>1. \A i : i \in params <=> i \in (f + 1)..at /\ text[i].kind = "param" /\ FunctionOf(i) = f
    BY DEF Params
  <2>2. \A i \in (f + 1)..at : i \in (f + 1)..(at - 1) \/ i = at
    BY <1>2, <1>4
  <2>3. \A i \in (f + 1)..(at - 1) : i \in (f + 1)..at
    BY <1>2, <1>4
  <2> QED BY <2>1, <2>2, <2>3, <1>1, <1>4
<1>6. DOMAIN locals = AllNames
  BY DEF NamesTypeOK
<1> HIDE DEF f, params
<1>7. \A i \in params : i \in DOMAIN text /\ i > f /\ i < at /\ i \in Nat \ {0}
                        /\ text[i].kind = "param" /\ FunctionOf(i) = f /\ text[i].name \in AllNames
  <2> SUFFICES ASSUME NEW i \in params
               PROVE  /\ i \in DOMAIN text /\ i > f /\ i < at /\ i \in Nat \ {0}
                      /\ text[i].kind = "param" /\ FunctionOf(i) = f /\ text[i].name \in AllNames
    OBVIOUS
  <2>1. i \in (f + 1)..(at - 1) /\ i \in (f + 1)..at
    BY <1>2, <1>4, <1>5
  <2>2. i \in DOMAIN text /\ i > f /\ i < at /\ i \in Nat \ {0}
    BY <2>1, <1>2, <1>4
  <2> QED BY <2>1, <2>2, <1>4, TextIs
<1>8. CASE SameName(params)
  <2>1. UNCHANGED <<text, scopes, m_scope, at, denotes, declared, locals, slot>> /\ stage' = "aborted"
    BY <1>1, <1>8 DEF LowerBody, Fails, f, params
  <2>2. Clash
    <3> DEFINE S == {i \in DOMAIN text : i > f /\ text[i].kind \in LocalKinds /\ FunctionOf(i) = f}
    <3>1. \A i \in params : i \in S
      BY <1>7 DEF LocalKinds
    <3>2. SameName(S)
      BY <3>1, <1>8 DEF SameName
    <3> QED BY <3>2, <1>4 DEF Clash
  <2> QED BY <1>1, <2>1, <2>2, LowerAborts
<1>9. CASE ~SameName(params)
  <2>1. /\ Visit("lower", "done")
        /\ locals' = [n \in AllNames |-> IF \E i \in params : text[i].name = n
                                         THEN CHOOSE i \in params : text[i].name = n ELSE 0]
    BY <1>1, <1>6, <1>9 DEF LowerBody, f, params
  <2>2. \A n \in AllNames :
          \/ locals'[n] \in params /\ text[locals'[n]].name = n
          \/ locals'[n] = 0 /\ ~ \E i \in params : text[i].name = n
    <3> SUFFICES ASSUME NEW n \in AllNames
                 PROVE  \/ locals'[n] \in params /\ text[locals'[n]].name = n
                        \/ locals'[n] = 0 /\ ~ \E i \in params : text[i].name = n
      OBVIOUS
    <3> DEFINE c == CHOOSE i \in params : text[i].name = n
    <3>1. locals'[n] = IF \E i \in params : text[i].name = n THEN c ELSE 0
      BY <2>1
    <3>2. (\E i \in params : text[i].name = n) => c \in params /\ text[c].name = n
      OBVIOUS
    <3> HIDE DEF c
    <3> QED BY <3>1, <3>2
  <2>3. \A i \in params : locals'[text[i].name] = i
    <3> SUFFICES ASSUME NEW i \in params PROVE locals'[text[i].name] = i
      OBVIOUS
    <3>1. text[i].name \in AllNames
      BY <1>7
    <3>2. locals'[text[i].name] \in params /\ text[locals'[text[i].name]].name = text[i].name
      BY <3>1, <2>2
    <3> QED BY <3>2, <1>9 DEF SameName
  <2>4. locals' \in [AllNames -> Nat]
    <3>1. \A n \in AllNames : locals'[n] \in Nat
      BY <2>2, <1>7
    <3> QED BY <3>1, <2>1
  <2>5. LocalsOK'
    <3>1. ASSUME at + 1 \in DOMAIN text, Depth(text[at + 1].scope) > 2
          PROVE  LocalsFor(locals', at + 1)
      <4>1. FunctionOf(at + 1) = f
        <5>1. Depth(text[at].scope) >= 2 /\ Depth(text[at + 1].scope) >= 2
          BY <1>3, <3>1, FileScope
        <5> QED BY <5>1, <3>1, <1>2, NextToken DEF ParseInv, f
      <4>2. ASSUME NEW n \in AllNames, locals'[n] # 0
            PROVE  /\ locals'[n] \in DOMAIN text /\ locals'[n] < at + 1
                   /\ text[locals'[n]].kind \in LocalKinds /\ text[locals'[n]].name = n
                   /\ FunctionOf(locals'[n]) = FunctionOf(at + 1)
        <5>1. locals'[n] \in params /\ text[locals'[n]].name = n
          BY <4>2, <2>2
        <5>2. locals'[n] < at => locals'[n] < at + 1
          BY <5>1, <1>2, <1>7
        <5> QED BY <5>1, <5>2, <4>1, <1>7 DEF LocalKinds
      <4>3. ASSUME NEW e \in DOMAIN text, e < at + 1, text[e].kind \in LocalKinds,
                   FunctionOf(e) = FunctionOf(at + 1)
            PROVE  locals'[text[e].name] = e
        <5>1. Depth(text[e].scope) >= 2
          BY <4>3, FileScope DEF LocalKinds, FileKinds
        <5>2. Holds(f, e)
          BY <5>1, <4>1, <4>3, FunctionHolds DEF ParseInv
        <5>3. f < e /\ e # at /\ e \in Nat
          BY <5>2, <4>3, <1>1, <1>2, HoldsKinds DEF LocalKinds
        <5>4. e \in (f + 1)..(at - 1)
          BY <5>3, <4>3, <1>2, <1>4
        <5> QED BY <5>4, <1>5, <2>3
      <4> QED BY <4>2, <4>3 DEF LocalsFor
    <3> QED BY <3>1, <1>1, <2>1, LocalsNext
  <2>6. text[at].kind \notin RefKinds \union {"let"} /\ ~(Depth(text[at].scope) > 2) /\ slot' = slot
        /\ slot \in Seq(Nat)
    BY <1>1, <1>3 DEF RefKinds, NamesTypeOK
  <2> QED BY <1>1, <2>1, <2>4, <2>5, <2>6, LowerGoesOn
<1> QED BY <1>8, <1>9

-----------------------------------------------------------------------------
(* The compiler begins in the invariant.                                   *)
LEMMA InitInv == ASSUME Init PROVE NamesInv
<1>1. /\ text = <<>> /\ m_scope = 1 /\ at = 1 /\ denotes = <<>> /\ slot = <<>> /\ stage = "parse"
      /\ scopes = <<[path |-> <<1>>, table |-> [n \in Idents |-> 0]]>>
      /\ declared = [space \in {"symbol", "type"} |-> [n \in Idents |-> 0]]
      /\ locals = [n \in AllNames |-> 0]
  BY DEF Init, AllNames
<1>2. /\ DOMAIN scopes = {1} /\ scopes[1].path = <<1>> /\ \A n \in Idents : scopes[1].table[n] = 0
      /\ DOMAIN text = {}
  BY <1>1
<1>3. NamesTypeOK
  <2>1. <<1>> \in Seq(Nat) /\ [n \in Idents |-> 0] \in [Idents -> Nat]
    OBVIOUS
  <2>2. scopes \in Seq(ScopeType)
    BY <1>1, <2>1 DEF ScopeType
  <2> QED BY <1>1, <1>2, <2>2 DEF NamesTypeOK, Stages
<1>4. TreeInv
  <2>1. Depth(1) = 1 /\ Path(1)[1] = 1
    BY <1>2 DEF Depth, Path
  <2>2. ScopesOK
    BY <1>2, <2>1 DEF ScopesOK
  <2> QED BY <1>2, <2>2 DEF TreeInv, OwnsDiffer
<1>5. ParseInv
  <2>1. Depth(m_scope) = 1
    BY <1>1, <1>2 DEF Depth
  <2> QED BY <1>1, <1>2, <2>1 DEF ParseInv, FlowOK, FunctionsOK, HeadersOK, TablesOK, EntriesOK
<1>6. PassInv
  <2>1. DeclaredOK
    BY <1>1, <1>2 DEF DeclaredOK
  <2> QED BY <1>1, <1>2, <2>1 DEF PassInv, BoundsOK, DenotesOK, LocalsOK, SlotsOK, FailuresJustified
<1> QED BY <1>3, <1>4, <1>5, <1>6 DEF NamesInv

(* The invariant is about the variables only.                              *)
LEMMA StutterInv == ASSUME NamesInv, UNCHANGED vars PROVE NamesInv'
<1>1. UNCHANGED <<text, scopes, m_scope, at, denotes, declared, locals, slot, stage>>
  BY DEF vars
<1>2. NamesTypeOK' /\ TreeInv'
  BY <1>1 DEF NamesInv, NamesTypeOK, TreeInv, ScopesOK, TokenOK, OwnsDiffer, Depth, Path, Parent
<1> USE DEF NamesInv, ParseInv, PassInv
<1>3. FlowOK' /\ HeadersOK'
  BY <1>1 DEF FlowOK, HeadersOK, After, Heads, Depth, Parent
<1>4. FunctionsOK'
  <2>1. \A i, f : (Holds(f, i) => Holds(f, i)') /\ (Parsing(f) => Parsing(f)')
    BY <1>1 DEF Holds, Parsing, Within, Depth, Path
  <2>2. \A s : Depth(s)' = Depth(s)
    BY <1>1 DEF Depth
  <2> QED BY <2>1, <1>1 DEF FunctionsOK, Depth
<1>5. TablesOK'
  <2>1. EntriesOK'
    BY <1>1 DEF TablesOK, EntriesOK
  <2>2. \A i : Entered(i)' <=> Entered(i)
    BY <1>1 DEF Entered, Within, Depth, Path
  <2>3. \A i : (FileEntry(i) => FileEntry(i)') /\ (LocalEntry(i) => LocalEntry(i)')
    BY <1>1 DEF FileEntry, LocalEntry, FunctionOf, Path, Depth
  <2> QED BY <1>1, <2>1, <2>2, <2>3 DEF TablesOK
<1>6. BoundsOK' /\ DeclaredOK'
  BY <1>1 DEF BoundsOK, DeclaredOK, Limit, Space
<1>7. DenotesOK'
  <2>1. \A r : Analysed(r) => Analysed(r)'
    BY <1>1 DEF Analysed, Get
  <2> QED BY <2>1, <1>1 DEF DenotesOK, Limit
<1>8. LocalsOK'
  <2>1. \A i : FunctionOf(i)' = FunctionOf(i)
    BY <1>1 DEF FunctionOf
  <2>2. FunctionOf(at)' = FunctionOf(at)
    <3>1. FunctionOf(at)' = FunctionIn(text', at') /\ FunctionOf(at) = FunctionIn(text, at)
      BY DEF FunctionOf, FunctionIn
    <3> QED BY <3>1, <1>1
  <2>3. ASSUME NEW n \in AllNames PROVE FunctionOf(locals[n])' = FunctionOf(locals[n])
    <3>1. /\ FunctionOf(locals[n])' = FunctionIn(text', locals'[n])
          /\ FunctionOf(locals[n]) = FunctionIn(text, locals[n])
      BY DEF FunctionOf, FunctionIn
    <3> QED BY <3>1, <1>1
  <2>4. Depth(text[at].scope)' = Depth(text[at].scope)
    BY <1>1 DEF Depth
  <2> QED BY <2>1, <2>2, <2>3, <2>4, <1>1 DEF LocalsOK
<1>9. SlotsOK'
  <2>1. \A i : FunctionOf(i)' = FunctionOf(i)
    BY <1>1 DEF FunctionOf
  <2>2. \A r : (Matches(r) => Matches(r)') /\ (Taken(r) => Taken(r)')
    BY <1>1 DEF Matches, Taken, FunctionOf, Depth
  <2> QED BY <2>1, <2>2, <1>1 DEF SlotsOK, Limit
<1>10. FailuresJustified'
  <2>1. Around(at)' = Around(at)
    BY <1>1 DEF Around, Depth
  <2>2. Clash => Clash'
    BY <1>1 DEF Clash, SameName, References, FunctionOf
  <2>3. /\ SameName({i \in DOMAIN text : text[i].kind \in FileKinds \ {"type"}})
             => SameName({i \in DOMAIN text : text[i].kind \in FileKinds \ {"type"}})'
        /\ SameName({i \in DOMAIN text : text[i].kind = "type"})
             => SameName({i \in DOMAIN text : text[i].kind = "type"})'
    BY <1>1 DEF SameName
  <2> QED BY <2>1, <2>2, <2>3, <1>1 DEF FailuresJustified, Clash
<1> QED BY <1>2, <1>3, <1>4, <1>5, <1>6, <1>7, <1>8, <1>9, <1>10

(* The tree of scopes, the tables and the passes are as NamesInv says in   *)
(* every file and at every step of the compiler.                           *)
THEOREM NamesCorrect == Spec => []NamesInv
<1>1. Init => NamesInv
  BY InitInv
<1>2. NamesInv /\ [Next]_vars => NamesInv'
  <2> SUFFICES ASSUME NamesInv, [Next]_vars PROVE NamesInv'
    OBVIOUS
  <2>1. CASE Parse
    BY <2>1, ParseStep
  <2>2. CASE FinishParse
    BY <2>2, FinishParseStep
  <2>3. ASSUME NEW n \in Idents, Load(n) PROVE NamesInv'
    BY <2>3, LoadStep
  <2>4. CASE FinishLoad
    BY <2>4, FinishLoadStep
  <2>5. CASE Analyse
    BY <2>5, AnalyseStep
  <2>6. CASE Declare
    BY <2>6, DeclareStep
  <2>7. CASE Lower
    BY <2>7, LowerBodyStep, LowerLetStep, LowerRefStep, LowerOtherStep DEF Lower
  <2>8. CASE UNCHANGED vars
    BY <2>8, StutterInv
  <2> QED BY <2>1, <2>2, <2>3, <2>4, <2>5, <2>6, <2>7, <2>8 DEF Next
<1> QED BY <1>1, <1>2, PTL DEF Spec

(* What stops the compiler is in the file.                                 *)
THEOREM FailuresJustifiedCorrect == Spec => []FailuresJustified
<1>1. NamesInv => FailuresJustified
  BY DEF NamesInv, PassInv
<1> QED BY <1>1, NamesCorrect, PTL

(* In a file that compiles, the symbol a reference is generated as is that *)
(* of the definition the analysis set it to, whatever the file is.         *)
THEOREM SlotsMatchCorrect == Spec => []SlotsMatch
<1>1. NamesInv => SlotsMatch
  <2> SUFFICES ASSUME NamesInv, stage = "done", NEW r \in References PROVE slot[r] = denotes[r]
    BY DEF SlotsMatch
  <2>1. r \in DOMAIN text /\ text[r].kind \in RefKinds
    BY DEF References
  <2>2. Limit("lower", {"done"}) = Len(text) + 1
    BY DEF Limit
  <2>3. r < Len(text) + 1
    BY <2>1, TextIs DEF NamesInv
  <2>4. Matches(r) \/ Taken(r)
    BY <2>1, <2>2, <2>3 DEF NamesInv, PassInv, SlotsOK
  <2> QED BY <2>4 DEF Matches, Taken
<1> QED BY <1>1, NamesCorrect, PTL

(* A reader finds one definition for a name that has any around it: of the *)
(* innermost scope, the first.                                             *)
LEMMA LexicalIs ==
  ASSUME NamesTypeOK, TreeInv, NEW r \in DOMAIN text, Around(r) # {}
  PROVE  /\ Lexical(r) \in Around(r)
         /\ \A e \in Around(r) :
              \/ Depth(text[e].scope) < Depth(text[Lexical(r)].scope)
              \/ text[e].scope = text[Lexical(r)].scope /\ Lexical(r) <= e
<1> DEFINE s == text[r].scope
           A == Around(r)
           D == {Depth(text[e].scope) : e \in A}
<1>1. s \in DOMAIN scopes /\ Depth(s) \in Nat
  BY FileScope
<1>2. ASSUME NEW e \in A
      PROVE  /\ e \in DOMAIN text /\ e \in Nat
             /\ Depth(text[e].scope) \in 1..Depth(s) /\ text[e].scope = Path(s)[Depth(text[e].scope)]
  <2>1. e \in DOMAIN text /\ \E k \in 1..Depth(s) : Path(s)[k] = text[e].scope
    BY DEF Around, Path
  <2>2. PICK k \in 1..Depth(s) : Path(s)[k] = text[e].scope
    BY <2>1
  <2>3. Depth(text[e].scope) = k
    BY <1>1, <2>2 DEF TreeInv, ScopesOK
  <2> QED BY <2>1, <2>2, <2>3, TextIs
<1> HIDE DEF A, s
<1>3. D \in SUBSET (0..Depth(s)) /\ D # {}
  <2>1. \A e \in A : Depth(text[e].scope) \in 0..Depth(s)
    BY <1>1, <1>2
  <2> QED BY <2>1 DEF A
<1>4. PICK m \in D : \A h \in D : h <= m
  <2> HIDE DEF D
  <2> QED BY <1>1, <1>3, Greatest
<1> DEFINE P == {e \in A : Depth(text[e].scope) = m}
<1>5. P \in SUBSET Nat /\ P # {}
  BY <1>2, <1>4
<1>6. PICK d \in P : \A e \in P : d <= e
  <2> HIDE DEF P
  <2> QED BY <1>5, Least
<1>7. d \in A /\ \A e \in A : \/ Depth(text[e].scope) < Depth(text[d].scope)
                              \/ text[e].scope = text[d].scope /\ d <= e
  <2> SUFFICES ASSUME NEW e \in A
               PROVE  \/ Depth(text[e].scope) < Depth(text[d].scope)
                      \/ text[e].scope = text[d].scope /\ d <= e
    BY <1>6
  <2>1. Depth(text[e].scope) \in D /\ Depth(text[d].scope) = m /\ d \in A
    BY <1>6
  <2>2. Depth(text[e].scope) <= m
    BY <2>1, <1>4
  <2>3. Depth(text[e].scope) \in Nat /\ m \in Nat
    BY <2>1, <1>1, <1>2
  <2>4. CASE Depth(text[e].scope) = m
    BY <2>1, <2>4, <1>2, <1>6
  <2>5. CASE Depth(text[e].scope) < m
    BY <2>1, <2>5
  <2> QED BY <2>2, <2>3, <2>4, <2>5
<1> QED BY <1>7 DEF Lexical, A

(* In a file that compiles, a reference denotes what lexical scoping gives *)
(* it, or an earlier definition of the file that has taken the name.       *)
THEOREM LexicalOrLostCorrect == Spec => []LexicalOrLost
<1>1. NamesInv => LexicalOrLost
  <2> SUFFICES ASSUME NamesInv, stage = "done", NEW r \in References
               PROVE  \/ denotes[r] = Lexical(r)
                      \/ /\ text[Lexical(r)].kind \in LocalKinds
                         /\ text[denotes[r]].scope = 1 /\ denotes[r] < Lexical(r)
    BY DEF LexicalOrLost
  <2> USE DEF NamesInv, ParseInv
  <2> DEFINE s == text[r].scope
             n == text[r].name
             d == denotes[r]
             l == Lexical(r)
  <2>1. /\ r \in DOMAIN text /\ text[r].kind \in RefKinds /\ r \in Nat /\ r < Len(text) + 1
        /\ s \in DOMAIN scopes /\ Depth(s) \in Nat /\ n \in Idents
        /\ DOMAIN text = 1..Len(text) /\ Len(text) \in Nat /\ n # Unnamed
    <3>1. r \in DOMAIN text /\ text[r].kind \in RefKinds
      BY DEF References
    <3>2. n \in Idents /\ n # Unnamed
      BY <3>1, NamesAssumption DEF TreeInv, TokenOK
    <3> QED BY <3>1, <3>2, TextIs, FileScope
  <2>2. d = Get(s, n) /\ d # 0
    <3>1. Limit("analyse", {"declare", "lower", "done"}) = Len(text) + 1
      BY DEF Limit
    <3> QED BY <3>1, <2>1 DEF PassInv, DenotesOK, Analysed
  <2>3. /\ Matches(r)
        /\ \A x, y \in 1..(r - 1) :
             /\ text[x].kind \in LocalKinds /\ text[y].kind \in LocalKinds
             /\ FunctionOf(x) = FunctionOf(r) /\ FunctionOf(y) = FunctionOf(r)
             /\ text[x].name = text[y].name
             => x = y
    <3>1. Limit("lower", {"done"}) = Len(text) + 1
      BY DEF Limit
    <3> QED BY <3>1, <2>1 DEF PassInv, SlotsOK, Taken
  <2>4. /\ d \in DOMAIN text /\ text[d].kind \in FileKinds \union LocalKinds
        /\ text[d].name = n
        /\ \E k \in 1..Depth(s) : /\ Path(s)[k] = text[d].scope
                                  /\ \A h \in (k + 1)..Depth(s) : Entry(s, h, n) = 0
    BY <2>1, <2>2, GotIs
  <2>5. text[d].kind \in LocalKinds => d \in 1..(r - 1)
    BY <2>1, <2>3, <2>4 DEF Matches
  <2>6. d \in Around(r)
    <3>1. text[d].scope = 1 \/ d < r
      BY <2>1, <2>4, <2>5, FileScope
    <3> QED BY <3>1, <2>4 DEF Around, Path
  <2>7. /\ l \in Around(r)
        /\ \/ Depth(text[d].scope) < Depth(text[l].scope)
           \/ text[d].scope = text[l].scope /\ l <= d
    BY <2>1, <2>6, LexicalIs
  <2>8. /\ l \in DOMAIN text /\ text[l].kind \in FileKinds \union LocalKinds /\ text[l].name = n
        /\ (text[l].scope = 1 \/ l < r)
        /\ \E k \in 1..Depth(s) : Path(s)[k] = text[l].scope
    BY <2>7 DEF Around, Path
  <2> HIDE DEF s, n, d, l
  <2>9. \A i \in DOMAIN text : (\E k \in 1..Depth(s) : Path(s)[k] = text[i].scope) =>
          /\ Depth(text[i].scope) \in 1..Depth(s)
          /\ \A j \in 1..Depth(text[i].scope) : Path(text[i].scope)[j] = Path(s)[j]
    BY <2>1 DEF TreeInv, ScopesOK
(* A definition of the file.                                               *)
  <2>10. CASE text[l].kind \in FileKinds
    <3>1. text[l].scope = 1 /\ Depth(text[l].scope) = 1
      BY <2>8, <2>10, FileScope DEF TreeInv, ScopesOK
    <3>2. text[d].scope = 1 /\ l <= d
      <4>1. Depth(text[d].scope) >= 1 /\ Depth(text[d].scope) \in Nat
        BY <2>4, FileScope
      <4> QED BY <4>1, <3>1, <2>7
    <3>3. d = Entry(s, 1, n)
      <4>1. PICK k \in 1..Depth(s) : Path(s)[k] = text[d].scope /\ \A h \in (k + 1)..Depth(s) : Entry(s, h, n) = 0
        BY <2>4
      <4>2. k = 1
        BY <4>1, <3>2, <2>1 DEF TreeInv, ScopesOK
      <4>3. PICK h \in 1..Depth(s) : d = Entry(s, h, n)
        BY <2>1, <2>2, GetIs DEF TreeInv
      <4>4. ASSUME h # 1 PROVE FALSE
        <5>1. h \in (k + 1)..Depth(s)
          BY <4>2, <4>3, <4>4, <2>1
        <5>2. Entry(s, h, n) = 0
          BY <4>1, <5>1
        <5> QED BY <4>3, <5>2, <2>2
      <4> QED BY <4>3, <4>4
    <3>4. Entry(s, 1, n) = scopes[1].table[n]
      BY <2>1 DEF Entry, TreeInv, ScopesOK
    <3>5. scopes[1].table[n] \in 1..l
      BY <2>8, <2>10 DEF TablesOK, FileEntry, Entered
    <3>6. d = l
      BY <3>2, <3>3, <3>4, <3>5, <2>1, <2>4, <2>8
    <3> QED BY <3>6 DEF d, l
(* A local: another local of its name would be one of the function.        *)
  <2>11. CASE text[l].kind \in LocalKinds
    <3>1. text[l].scope # 1 /\ l \in 1..(r - 1) /\ Depth(text[l].scope) >= 2
      <4>1. text[l].kind \notin FileKinds
        BY <2>11 DEF FileKinds, LocalKinds
      <4>2. text[l].scope # 1 /\ Depth(text[l].scope) >= 2
        BY <4>1, <2>8, FileScope
      <4> QED BY <4>2, <2>1, <2>8
    <3>2. Depth(s) >= 2
      BY <3>1, <2>1, <2>8, <2>9
    <3>3. \A i \in DOMAIN text :
            Depth(text[i].scope) >= 2 /\ (\E k \in 1..Depth(s) : Path(s)[k] = text[i].scope) =>
              FunctionOf(i) = FunctionOf(r) /\ Holds(FunctionOf(i), i)
      <4> SUFFICES ASSUME NEW i \in DOMAIN text, Depth(text[i].scope) >= 2,
                          \E k \in 1..Depth(s) : Path(s)[k] = text[i].scope
                   PROVE  FunctionOf(i) = FunctionOf(r) /\ Holds(FunctionOf(i), i)
        OBVIOUS
      <4>1. 2 \in 1..Depth(text[i].scope)
        BY <2>9, <2>1
      <4>2. Path(text[i].scope)[2] = Path(text[r].scope)[2]
        BY <4>1, <2>9 DEF s
      <4> QED BY <4>2, <3>2, <2>1, OneFunction DEF s
    <3>4. CASE text[d].kind \in LocalKinds
      <4>1. Depth(text[d].scope) >= 2
        BY <3>4, <2>4, FileScope DEF FileKinds, LocalKinds
      <4>2. FunctionOf(d) = FunctionOf(r) /\ FunctionOf(l) = FunctionOf(r)
        BY <4>1, <3>1, <3>3, <2>4, <2>8
      <4>3. d = l
        BY <4>2, <3>1, <3>4, <2>3, <2>4, <2>5, <2>8, <2>11
      <4> QED BY <4>3 DEF d, l
    <3>5. CASE text[d].kind \in FileKinds
      <4>1. text[d].scope = 1
        BY <3>5, <2>4, FileScope
      <4>2. \A h \in 2..Depth(s) : Entry(s, h, n) = 0
        <5>1. PICK k \in 1..Depth(s) : Path(s)[k] = text[d].scope /\ \A h \in (k + 1)..Depth(s) : Entry(s, h, n) = 0
          BY <2>4
        <5>2. k = 1
          BY <5>1, <4>1, <2>1 DEF TreeInv, ScopesOK
        <5> QED BY <5>1, <5>2
      <4>3. PICK k \in 1..Depth(text[l].scope) :
               LET e == scopes[Path(text[l].scope)[k]].table[n]
               IN  e \in 1..l /\ (k = 1 => e < FunctionOf(l))
        BY <2>8, <2>11, <2>1 DEF TablesOK, LocalEntry
      <4>4. Path(text[l].scope)[k] = Path(s)[k] /\ k \in 1..Depth(s)
        BY <4>3, <2>8, <2>9, <2>1
      <4>5. Entry(s, k, n) \in 1..l /\ (k = 1 => Entry(s, k, n) < FunctionOf(l))
        BY <4>3, <4>4 DEF Entry
      <4>6. k = 1
        BY <4>2, <4>4, <4>5, <2>1, <2>8
      <4>7. d = Entry(s, 1, n)
        <5>1. PICK h \in 1..Depth(s) : d = Entry(s, h, n)
          BY <2>1, <2>2, GetIs DEF TreeInv
        <5>2. ASSUME h # 1 PROVE FALSE
          <6>1. h \in 2..Depth(s)
            BY <5>1, <5>2, <2>1
          <6>2. Entry(s, h, n) = 0
            BY <4>2, <6>1
          <6> QED BY <5>1, <6>2, <2>2
        <5> QED BY <5>1, <5>2
      <4>8. FunctionOf(l) \in 1..(l - 1)
        BY <3>1, <3>3, <2>8 DEF Holds
      <4>9. d < l
        BY <4>5, <4>6, <4>7, <4>8, <2>1, <2>4, <2>8
      <4> QED BY <4>1, <4>9, <2>11 DEF d, l
    <3> QED BY <3>4, <3>5, <2>4
  <2> QED BY <2>8, <2>10, <2>11
<1> QED BY <1>1, NamesCorrect, PTL
=============================================================================
