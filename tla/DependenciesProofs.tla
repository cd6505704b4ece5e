-------------------------- MODULE DependenciesProofs --------------------------
(***************************************************************************)
(* Theorems about Dependencies, for any number of files and every content  *)
(* they can have.  The search is correct because its stack is a path in    *)
(* the graph of the loads, and the files it has left are closed under them *)
(* and hold no knot: both are inductive, so no order has to be found.      *)
(***************************************************************************)
EXTENDS Dependencies, TLAPS

Calls == [ast : Asts, todo : SUBSET Asts]

Ordering == {"resolve", "done", "conflict", "type"}

Active(calls) == {calls[i].ast : i \in DOMAIN calls}

Resolved(a) == \A p \in Loads(a) : g_files[p] # None

TypeInv ==
  /\ path \in [Asts -> Paths] /\ canonical \in [Asts -> BOOLEAN]
  /\ contents \in [Paths -> Content]
  /\ unread \subseteq Asts /\ roots \subseteq Asts
  /\ deps \in [Asts -> SUBSET Asts]
  /\ stack \in Seq(Calls)
  /\ visited \subseteq Asts /\ ordering \subseteq visited
  /\ inserted \in Seq(Asts)
  /\ DOMAIN scope = Asts
  /\ stage \in {"table", "read", "visit", "unresolved", "cyclic"} \union Ordering

(* The table holds a tree for the paths listed, and only for them.         *)
TableInv ==
  /\ stage # "table" =>
       /\ g_files \in [Paths -> Asts \union {None}]
       /\ \A p \in Paths : g_files[p] # None <=> Listed(p)
       /\ \A p \in Paths : g_files[p] # None => path[g_files[p]] = p
  /\ stage = "table" => unread = Asts
  /\ stage = "unresolved" => \E a \in Asts : \E p \in Loads(a) : ~Listed(p)
  /\ stage \notin {"table", "read", "unresolved"} => unread = {}
  /\ stage # "unresolved" =>
       \A a \in Asts \ unread : Resolved(a) /\ deps[a] = {g_files[p] : p \in Loads(a)}
  /\ stage \in {"table", "read", "unresolved"} =>
       roots = Asts /\ stack = <<>> /\ visited = {} /\ visiting = {}

(* Each call visits a file that its caller loads, and has seen the loads   *)
(* that are not left to do, the one its callee visits included.            *)
PathOf(calls, ds, seen) ==
  /\ \A i, k \in DOMAIN calls : calls[i].ast = calls[k].ast => i = k
  /\ \A i \in DOMAIN calls : calls[i].todo \subseteq ds[calls[i].ast]
  /\ \A i \in DOMAIN calls : i + 1 \in DOMAIN calls => calls[i + 1].ast \in ds[calls[i].ast]
  /\ \A i \in DOMAIN calls : \A d \in ds[calls[i].ast] \ calls[i].todo :
       d \in seen \/ (i + 1 \in DOMAIN calls /\ d = calls[i + 1].ast)

Closed(files) == \A a \in files : deps[a] \subseteq files

SearchInv ==
  /\ stage = "cyclic" => \E g \in SUBSET Asts : Knot(g)
  /\ stage # "cyclic" =>
       /\ visiting = Active(stack) /\ visiting \intersect visited = {}
       /\ PathOf(stack, deps, visited)
       /\ Asts = roots \union visiting \union visited
       /\ Closed(visited) /\ \A g \in SUBSET visited : ~Knot(g)

InsertedInv ==
  /\ visited = {inserted[i] : i \in DOMAIN inserted}
  /\ \A i, k \in DOMAIN inserted : inserted[i] = inserted[k] => i = k
  /\ \A i \in DOMAIN inserted : deps[inserted[i]] \subseteq {inserted[k] : k \in 1..(i - 1)}

(* What resolve_dependencies has let pass.                                 *)
Passed(a) == ~Conflict(a) /\ TypesResolve(a, ScopeOf(Own(a) \union Loaded(a)))

ResolveInv ==
  /\ stage \in Ordering => visited = Asts
  /\ \A a \in visited \ ordering : Passed(a)
  /\ stage = "done" => ordering = {}
  /\ stage = "conflict" => \E a \in Asts : Conflict(a)
  /\ stage = "type" =>
       \E a \in Asts : ~Conflict(a) /\ ~TypesResolve(a, ScopeOf(Own(a) \union Loaded(a)))

DependenciesInv == TypeInv /\ TableInv /\ SearchInv /\ InsertedInv /\ ResolveInv

-----------------------------------------------------------------------------
(* The stack of calls.                                                     *)

(* The files being visited are those of the calls.                         *)
LEMMA ActiveIs ==
  ASSUME NEW calls
  PROVE  \A x : x \in Active(calls) <=> \E i \in DOMAIN calls : x = calls[i].ast
BY DEF Active

(* The calls are new, with a no more left to the innermost of them.        *)
ReadBy(calls, new, a) ==
  /\ new \in Seq(Calls) /\ Len(new) = Len(calls) /\ Len(calls) \in Nat \ {0}
  /\ DOMAIN new = DOMAIN calls /\ DOMAIN calls = 1..Len(calls)
  /\ \A i \in DOMAIN calls : new[i].ast = calls[i].ast
  /\ \A i \in DOMAIN calls : i # Len(calls) => new[i].todo = calls[i].todo
  /\ new[Len(calls)].todo = calls[Len(calls)].todo \ {a}

(* The innermost call looks at one of the loads left to it.                *)
LEMMA CallRead ==
  ASSUME NEW calls \in Seq(Calls), calls # <<>>, NEW a
  PROVE  ReadBy(calls, Append(SubSeq(calls, 1, Len(calls) - 1),
                              [calls[Len(calls)] EXCEPT !.todo = @ \ {a}]), a)
<1> DEFINE n == Len(calls)
           top == calls[n]
           below == SubSeq(calls, 1, n - 1)
           read == [top EXCEPT !.todo = @ \ {a}]
           new == Append(below, read)
<1>1. n \in Nat \ {0} /\ DOMAIN calls = 1..n /\ top \in Calls
  OBVIOUS
<1>2. read \in Calls /\ read.ast = top.ast /\ read.todo = top.todo \ {a}
  BY <1>1 DEF Calls
<1>3. /\ below \in Seq(Calls) /\ Len(below) = n - 1
      /\ \A i \in 1..(n - 1) : below[i] = calls[i]
  BY <1>1
<1> HIDE DEF n, top, below, read
<1>5. /\ new \in Seq(Calls) /\ Len(new) = n /\ DOMAIN new = 1..n
      /\ \A i \in 1..(n - 1) : new[i] = calls[i]
      /\ new[n] = read
  BY <1>1, <1>2, <1>3
<1> HIDE DEF new
<1>6. \A i \in 1..n : i # n => i \in 1..(n - 1)
  BY <1>1
<1>7. /\ \A i \in 1..n : new[i].ast = calls[i].ast
      /\ \A i \in 1..n : i # n => new[i].todo = calls[i].todo
      /\ new[n].todo = calls[n].todo \ {a}
  BY <1>2, <1>5, <1>6 DEF top
<1>8. ReadBy(calls, new, a)
  BY <1>1, <1>5, <1>7 DEF n, ReadBy
<1> QED
  BY <1>8 DEF new, below, read, top, n

(* What it looked at had been visited: its path stays one.                 *)
LEMMA PathRead ==
  ASSUME NEW calls \in Seq(Calls), calls # <<>>, NEW ds, NEW seen, PathOf(calls, ds, seen),
         NEW a, NEW new, ReadBy(calls, new, a)
  PROVE  /\ Active(new) = Active(calls)
         /\ a \in seen => PathOf(new, ds, seen)
<1>1. /\ DOMAIN new = DOMAIN calls
      /\ \A i \in DOMAIN calls : new[i].ast = calls[i].ast
      /\ \A i \in DOMAIN calls : new[i].todo \subseteq calls[i].todo
      /\ \A i \in DOMAIN calls : calls[i].todo \subseteq new[i].todo \union {a}
  BY DEF ReadBy
<1>2. ASSUME a \in seen PROVE PathOf(new, ds, seen)
  BY <1>1, <1>2 DEF PathOf
<1>3. Active(new) = Active(calls)
  <2>1. \A x : x \in Active(new) <=> \E i \in DOMAIN new : x = new[i].ast
    BY ActiveIs
  <2>2. \A x : x \in Active(calls) <=> \E i \in DOMAIN calls : x = calls[i].ast
    BY ActiveIs
  <2> QED
    <3>1. /\ DOMAIN new = DOMAIN calls
          /\ \A i \in DOMAIN calls : new[i].ast = calls[i].ast
      BY <1>1
    <3>2. \A x : x \in Active(new) <=> x \in Active(calls)
      BY ONLY <2>1, <2>2, <3>1
    <3> QED
      BY ONLY <3>2
<1> QED
  BY <1>2, <1>3

(* It is visited now, in a call of its own.                                *)
LEMMA PathPushed ==
  ASSUME NEW calls \in Seq(Calls), calls # <<>>, NEW ds, NEW seen, PathOf(calls, ds, seen),
         NEW a \in Asts, a \in calls[Len(calls)].todo, a \notin Active(calls),
         ds[a] \in SUBSET Asts,
         NEW new, ReadBy(calls, new, a)
  PROVE  /\ Append(new, [ast |-> a, todo |-> ds[a]]) \in Seq(Calls)
         /\ Active(Append(new, [ast |-> a, todo |-> ds[a]])) = Active(calls) \union {a}
         /\ PathOf(Append(new, [ast |-> a, todo |-> ds[a]]), ds, seen)
<1> DEFINE n == Len(calls)
           call == [ast |-> a, todo |-> ds[a]]
           more == Append(new, call)
<1>1. /\ new \in Seq(Calls) /\ Len(new) = n /\ n \in Nat \ {0}
      /\ DOMAIN new = DOMAIN calls /\ DOMAIN calls = 1..n
      /\ \A i \in DOMAIN calls : new[i].ast = calls[i].ast
      /\ \A i \in DOMAIN calls : i # n => new[i].todo = calls[i].todo
      /\ new[n].todo = calls[n].todo \ {a}
  BY DEF ReadBy
<1>2. call \in Calls /\ call.ast = a /\ call.todo = ds[a]
  BY DEF Calls
<1> HIDE DEF call
<1>3. /\ more \in Seq(Calls) /\ DOMAIN more = 1..(n + 1)
      /\ \A i \in 1..n : more[i] = new[i]
      /\ more[n + 1] = call
  BY <1>1, <1>2
<1> HIDE DEF more
<1>4. /\ DOMAIN more = DOMAIN calls \union {n + 1} /\ n + 1 \notin DOMAIN calls /\ n \in DOMAIN calls
  BY <1>1, <1>3
<1> HIDE DEF n
<1>5. Active(more) = Active(calls) \union {a}
  <2>1. \A x : x \in Active(more) <=> \E i \in DOMAIN more : x = more[i].ast
    BY ActiveIs
  <2>2. \A x : x \in Active(calls) <=> \E i \in DOMAIN calls : x = calls[i].ast
    BY ActiveIs
  <2> QED
    BY <2>1, <2>2, <1>1, <1>2, <1>3, <1>4
<1>6. PathOf(more, ds, seen)
  <2>1. \A i \in DOMAIN calls : calls[i].ast # a
    BY DEF Active
  <2>2. \A i, k \in DOMAIN more : more[i].ast = more[k].ast => i = k
    BY <2>1, <1>1, <1>2, <1>3, <1>4 DEF PathOf
  <2>3. \A i \in DOMAIN more : more[i].todo \subseteq ds[more[i].ast]
    BY <1>1, <1>2, <1>3, <1>4 DEF PathOf
  <2>4. calls[n].todo \subseteq ds[calls[n].ast]
    BY <1>4 DEF PathOf
  <2>5. \A i \in DOMAIN more : i + 1 \in DOMAIN more => more[i + 1].ast \in ds[more[i].ast]
    <3> SUFFICES ASSUME NEW i \in 1..(n + 1), i + 1 \in 1..(n + 1)
                 PROVE  more[i + 1].ast \in ds[more[i].ast]
      BY <1>3
    <3>1. CASE i = n
      BY <3>1, <2>4, <1>1, <1>2, <1>3, <1>4 DEF n
    <3>2. CASE i # n
      <4>1. i \in DOMAIN calls /\ i + 1 \in DOMAIN calls /\ i \in 1..n /\ i + 1 \in 1..n
        BY <3>2, <1>1
      <4> QED
        BY <4>1, <1>1, <1>3 DEF PathOf
    <3> QED
      BY <3>1, <3>2
  <2>6. ASSUME NEW i \in DOMAIN more, NEW d \in ds[more[i].ast] \ more[i].todo
        PROVE  d \in seen \/ (i + 1 \in DOMAIN more /\ d = more[i + 1].ast)
    <3>1. CASE i = n + 1
      BY <3>1, <2>6, <1>2, <1>3
    <3>2. CASE i # n + 1
      <4>1. /\ i \in DOMAIN calls /\ more[i] = new[i] /\ more[i].ast = calls[i].ast
            /\ i + 1 \in DOMAIN more
        BY <3>2, <1>1, <1>3, <1>4
      <4>2. CASE i = n
        <5>1. n + 1 \notin DOMAIN calls
          BY <1>4
        <5> QED
          BY <4>1, <4>2, <5>1, <1>1, <1>2, <1>3 DEF PathOf
      <4>3. CASE i # n
        <5>1. i + 1 \in 1..n
          BY <4>1, <4>3, <1>1
        <5>2. more[i + 1].ast = calls[i + 1].ast
          BY <5>1, <1>1, <1>3
        <5> QED
          BY <4>1, <4>3, <5>2, <1>1 DEF PathOf
      <4> QED
        BY <4>2, <4>3
    <3> QED
      BY <3>1, <3>2
  <2> QED
    BY <2>2, <2>3, <2>5, <2>6 DEF PathOf
<1> QED
  BY <1>3, <1>5, <1>6 DEF more, call

(* The innermost call, with nothing left to do, returns.                   *)
LEMMA PathPopped ==
  ASSUME NEW calls \in Seq(Calls), calls # <<>>, NEW ds, NEW seen, PathOf(calls, ds, seen),
         calls[Len(calls)].todo = {},
         NEW a, a = calls[Len(calls)].ast
  PROVE  /\ SubSeq(calls, 1, Len(calls) - 1) \in Seq(Calls) /\ a \in Asts
         /\ Active(SubSeq(calls, 1, Len(calls) - 1)) = Active(calls) \ {a}
         /\ a \in Active(calls)
         /\ PathOf(SubSeq(calls, 1, Len(calls) - 1), ds, seen \union {a})
         /\ ds[a] \subseteq seen
<1> DEFINE n == Len(calls)
           below == SubSeq(calls, 1, n - 1)
<1>1. /\ n \in Nat \ {0} /\ DOMAIN calls = 1..n /\ n \in DOMAIN calls
      /\ below \in Seq(Calls) /\ DOMAIN below = 1..(n - 1)
      /\ \A i \in 1..(n - 1) : below[i] = calls[i]
  OBVIOUS
<1>2. /\ DOMAIN calls = DOMAIN below \union {n} /\ n \notin DOMAIN below /\ n + 1 \notin DOMAIN calls
      /\ \A i \in DOMAIN below : below[i] = calls[i] /\ i \in DOMAIN calls /\ i + 1 \in DOMAIN calls
      /\ \A i \in DOMAIN below : i + 1 \in DOMAIN below \/ i + 1 = n
  BY <1>1
<1>3. a \in Asts
  <2>1. calls[n] \in Calls
    BY <1>1
  <2> QED
    BY <2>1 DEF Calls
<1>0. a = calls[n].ast /\ calls[n].todo = {}
  OBVIOUS
<1> HIDE DEF n, below
<1>4. \A i \in DOMAIN below : calls[i].ast # a
  BY <1>0, <1>1, <1>2 DEF PathOf
<1>5. Active(below) = Active(calls) \ {a} /\ a \in Active(calls)
  <2>1. \A x : x \in Active(below) <=> \E i \in DOMAIN below : x = below[i].ast
    BY ActiveIs
  <2>2. \A x : x \in Active(calls) <=> \E i \in DOMAIN calls : x = calls[i].ast
    BY ActiveIs
  <2> QED
    BY <2>1, <2>2, <1>0, <1>1, <1>2, <1>4
<1>6. ds[a] \subseteq seen
  BY <1>0, <1>1, <1>2 DEF PathOf
<1>7. PathOf(below, ds, seen \union {a})
  <2>1. ASSUME NEW i \in DOMAIN below, NEW d \in ds[below[i].ast] \ below[i].todo
        PROVE  d \in seen \union {a} \/ (i + 1 \in DOMAIN below /\ d = below[i + 1].ast)
    BY <2>1, <1>0, <1>2 DEF PathOf
  <2>2. \A i, k \in DOMAIN below : below[i].ast = below[k].ast => i = k
    BY <1>2 DEF PathOf
  <2>3. \A i \in DOMAIN below : /\ below[i].todo \subseteq ds[below[i].ast]
                                /\ i + 1 \in DOMAIN below => below[i + 1].ast \in ds[below[i].ast]
    BY <1>2 DEF PathOf
  <2> QED
    BY <2>1, <2>2, <2>3 DEF PathOf
<1> QED
  BY <1>1, <1>3, <1>5, <1>6, <1>7 DEF below, n

-----------------------------------------------------------------------------
(* Knots.                                                                  *)

(* The files on the stack are a knot when the innermost loads one of them. *)
LEMMA StackKnot ==
  ASSUME NEW calls \in Seq(Calls), calls # <<>>, NEW seen, PathOf(calls, deps, seen),
         NEW a \in Active(calls), a \in deps[calls[Len(calls)].ast]
  PROVE  Active(calls) \in SUBSET Asts /\ Knot(Active(calls))
<1>1. Len(calls) \in Nat \ {0} /\ DOMAIN calls = 1..Len(calls)
  OBVIOUS
<1>2. Active(calls) \in SUBSET Asts
  <2>1. \A i \in DOMAIN calls : calls[i] \in Calls
    OBVIOUS
  <2> QED
    BY <2>1, ActiveIs DEF Calls
<1>3. ASSUME NEW i \in DOMAIN calls PROVE deps[calls[i].ast] \intersect Active(calls) # {}
  <2>1. CASE i = Len(calls)
    BY <2>1
  <2>2. CASE i # Len(calls)
    <3>1. i + 1 \in DOMAIN calls
      BY <2>2, <1>1
    <3> QED
      BY <3>1 DEF PathOf, Active
  <2> QED
    BY <2>1, <2>2
<1> QED
  BY <1>2, <1>3 DEF Knot, Active

(* A file whose loads are left closes no knot among the files left.        *)
LEMMA NoKnotAdded ==
  ASSUME NEW seen, NEW a, a \notin seen, Closed(seen), deps[a] \subseteq seen,
         \A g \in SUBSET seen : ~Knot(g)
  PROVE  Closed(seen \union {a}) /\ \A g \in SUBSET (seen \union {a}) : ~Knot(g)
<1>1. Closed(seen \union {a})
  BY DEF Closed
<1>2. ASSUME NEW g \in SUBSET (seen \union {a}), Knot(g) PROVE FALSE
  <2> DEFINE rest == g \ {a}
  <2>1. rest \in SUBSET seen
    OBVIOUS
  <2>2. rest # {}
    BY <1>2 DEF Knot
  <2>3. \A b \in rest : deps[b] \intersect rest # {}
    BY <1>2, <2>1 DEF Knot, Closed
  <2> QED
    BY <2>1, <2>2, <2>3 DEF Knot
<1> QED
  BY <1>1, <1>2

-----------------------------------------------------------------------------
(* The steps.                                                              *)

(* No call is under way before the search.                                 *)
LEMMA EmptyPath ==
  ASSUME NEW ds, NEW seen
  PROVE  Active(<<>>) = {} /\ PathOf(<<>>, ds, seen)
BY DEF Active, PathOf

(* What the resolution asks of a file depends on the loads alone.          *)
LEMMA SameNames ==
  ASSUME UNCHANGED <<path, contents, deps>>
  PROVE  /\ \A b : Passed(b)' <=> Passed(b)
         /\ \A b : Conflict(b)' <=> Conflict(b)
         /\ \A b : TypesResolve(b, ScopeOf(Own(b) \union Loaded(b)))' <=>
                     TypesResolve(b, ScopeOf(Own(b) \union Loaded(b)))
BY DEF Passed, Conflict, TypesResolve, ScopeOf, Needs, Own, Loaded, Kept, Public, Defn

(* The table of files is set up.                                           *)
LEMMA SetupFileTableStep ==
  ASSUME DependenciesInv, SetupFileTable
  PROVE  DependenciesInv'
<1>1. /\ stage = "table" /\ stage' = "read" /\ g_files' \in [Paths -> Asts \union {None}]
      /\ UNCHANGED <<path, canonical, contents, unread, deps, roots, stack, visited, visiting,
                     ordering, inserted, scope>>
  BY DEF SetupFileTable, inputVars
<1>2. TypeInv'
  BY <1>1 DEF DependenciesInv, TypeInv
<1>3. TableInv'
  <2>1. ASSUME NEW p \in Paths
        PROVE  /\ g_files'[p] # None <=> Listed(p)
               /\ g_files'[p] # None => path[g_files'[p]] = p
    <3> DEFINE listed == {a \in Asts : path[a] = p /\ canonical[a]}
    <3>1. IF listed = {} THEN g_files'[p] = None ELSE g_files'[p] \in listed
      BY DEF SetupFileTable
    <3> QED
      BY <3>1, DependenciesAssumption DEF Listed
  <2>2. unread = Asts /\ roots = Asts /\ stack = <<>> /\ visited = {} /\ visiting = {}
    BY <1>1 DEF DependenciesInv, TableInv
  <2> QED
    BY <1>1, <2>1, <2>2 DEF TableInv, Listed
<1>4. SearchInv' /\ InsertedInv'
  BY <1>1 DEF DependenciesInv, SearchInv, InsertedInv, Closed, Knot
<1>5. ResolveInv'
  <2>1. visited = {}
    BY <1>1 DEF DependenciesInv, TableInv
  <2> QED
    BY <1>1, <2>1 DEF ResolveInv, Ordering
<1> QED
  BY <1>2, <1>3, <1>4, <1>5 DEF DependenciesInv

(* The loads of one file are read.                                         *)
LEMMA ReadLoadsStep ==
  ASSUME DependenciesInv, NEW a \in Asts, ReadLoads(a)
  PROVE  DependenciesInv'
<1>1. /\ stage = "read" /\ a \in unread /\ unread' = unread \ {a}
      /\ UNCHANGED <<path, canonical, contents, g_files, roots, stack, visited, visiting,
                     ordering, inserted, scope>>
      /\ stage' \in {"read", "visit", "unresolved"}
  BY DEF ReadLoads, inputVars
<1>2. /\ g_files \in [Paths -> Asts \union {None}] /\ Loads(a) \subseteq Paths
      /\ \A p \in Paths : g_files[p] # None <=> Listed(p)
      /\ roots = Asts /\ stack = <<>> /\ visited = {} /\ visiting = {} /\ ordering = {}
      /\ deps \in [Asts -> SUBSET Asts]
  BY <1>1 DEF DependenciesInv, TypeInv, TableInv, Loads, Content
<1>3. CASE Resolved(a)
  <2>1. /\ deps' = [deps EXCEPT ![a] = {g_files[p] : p \in Loads(a)}]
        /\ stage' = IF unread' = {} THEN "visit" ELSE "read"
    BY <1>3 DEF ReadLoads, Resolved
  <2>2. {g_files[p] : p \in Loads(a)} \subseteq Asts
    BY <1>2, <1>3 DEF Resolved
  <2>3. deps' \in [Asts -> SUBSET Asts] /\ deps'[a] = {g_files[p] : p \in Loads(a)}
        /\ \A b \in Asts : b # a => deps'[b] = deps[b]
    BY <1>2, <2>1, <2>2
  <2>4. TypeInv'
    BY <1>1, <2>3 DEF DependenciesInv, TypeInv
  <2>5. TableInv'
    <3>1. \A b \in Asts \ unread' :
             Resolved(b) /\ deps'[b] = {g_files[p] : p \in Loads(b)}
      BY <1>1, <1>3, <2>3 DEF DependenciesInv, TableInv
    <3>2. stage' \notin {"table", "read", "unresolved"} => unread' = {}
      BY <2>1
    <3> QED
      BY <1>1, <1>2, <3>1, <3>2, <2>1
         DEF DependenciesInv, TableInv, Listed, Resolved, Loads
  <2>6. SearchInv'
    BY <1>1, <1>2, EmptyPath DEF SearchInv, Closed, Knot
  <2>7. InsertedInv' /\ ResolveInv'
    <3>1. visited = {inserted[i] : i \in DOMAIN inserted}
      BY DEF DependenciesInv, InsertedInv
    <3>2. \A i \in DOMAIN inserted : FALSE
      BY <1>2, <3>1
    <3> QED
      BY <1>1, <1>2, <3>1, <3>2 DEF InsertedInv, ResolveInv, Ordering
  <2> QED
    BY <2>4, <2>5, <2>6, <2>7 DEF DependenciesInv
<1>4. CASE ~Resolved(a)
  <2>1. stage' = "unresolved" /\ deps' = deps
    BY <1>4 DEF ReadLoads, Resolved
  <2>2. TypeInv'
    BY <1>1, <2>1 DEF DependenciesInv, TypeInv
  <2>3. \E b \in Asts : \E p \in Loads(b) : ~Listed(p)
    BY <1>2, <1>4 DEF Resolved
  <2>4. TableInv'
    BY <1>1, <1>2, <2>1, <2>3 DEF DependenciesInv, TableInv, Listed, Loads
  <2>5. SearchInv' /\ InsertedInv'
    BY <1>1, <2>1 DEF DependenciesInv, SearchInv, InsertedInv, Closed, Knot
  <2>6. ResolveInv'
    BY <1>1, <1>2, <2>1 DEF ResolveInv, Ordering
  <2> QED
    BY <2>2, <2>4, <2>5, <2>6 DEF DependenciesInv
<1> QED
  BY <1>3, <1>4

(* What a step of the search leaves alone, and what it starts from.        *)
LEMMA SearchFacts ==
  ASSUME DependenciesInv, stage = "visit"
  PROVE  /\ visiting = Active(stack) /\ visiting \intersect visited = {}
         /\ PathOf(stack, deps, visited)
         /\ Asts = roots \union visiting \union visited
         /\ Closed(visited) /\ \A g \in SUBSET visited : ~Knot(g)
         /\ stack \in Seq(Calls) /\ deps \in [Asts -> SUBSET Asts]
         /\ unread = {} /\ visited \subseteq Asts
BY DEF DependenciesInv, SearchInv, TypeInv, TableInv

(* A step of the search that neither finds a cycle nor leaves a file.      *)
LEMMA SearchGoesOn ==
  ASSUME DependenciesInv, stage = "visit", stage' = "visit", roots' \subseteq Asts,
         stack' \in Seq(Calls), visiting' = Active(stack'), visiting' \intersect visited = {},
         PathOf(stack', deps, visited), Asts = roots' \union visiting' \union visited,
         UNCHANGED <<inputVars, g_files, unread, deps, visited, ordering, inserted, scope>>
  PROVE  DependenciesInv'
<1>1. UNCHANGED <<path, canonical, contents, g_files, unread, deps, visited, ordering, inserted,
                  scope>>
  BY DEF inputVars
<1>2. TypeInv' /\ TableInv' /\ SearchInv'
  <2>1. TypeInv'
    BY <1>1 DEF DependenciesInv, TypeInv
  <2>2. TableInv'
    BY <1>1 DEF DependenciesInv, TableInv, Listed, Loads, Resolved
  <2>3. SearchInv'
    BY <1>1 DEF DependenciesInv, SearchInv, Closed, Knot
  <2> QED
    BY <2>1, <2>2, <2>3
<1>3. InsertedInv'
  BY <1>1 DEF DependenciesInv, InsertedInv
<1>4. ResolveInv'
  <2>1. \A b \in visited' \ ordering' : Passed(b)'
    BY <1>1, SameNames DEF DependenciesInv, ResolveInv
  <2>2. stage' \notin Ordering /\ stage' \notin {"done", "conflict", "type"}
    BY DEF Ordering
  <2> QED
    BY <2>1, <2>2 DEF ResolveInv
<1> QED
  BY <1>2, <1>3, <1>4 DEF DependenciesInv

(* dfs() is called for the next tree.                                      *)
LEMMA VisitRootStep ==
  ASSUME DependenciesInv, NEW a \in Asts, VisitRoot(a)
  PROVE  DependenciesInv'
<1>1. /\ stage = "visit" /\ stack = <<>> /\ roots' = roots \ {a} /\ Call(a, <<>>)
      /\ UNCHANGED <<inputVars, g_files, unread, deps, visited, ordering, inserted, scope>>
  BY DEF VisitRoot
<1>2. visiting = {} /\ roots' \subseteq Asts
  BY <1>1, SearchFacts, EmptyPath DEF DependenciesInv, TypeInv
<1>3. CASE a \in visited
  <2>1. stack' = <<>> /\ UNCHANGED <<visiting, stage>>
    BY <1>1, <1>3 DEF Call
  <2> QED
    BY <1>1, <1>2, <1>3, <2>1, SearchFacts, SearchGoesOn, EmptyPath
<1>4. CASE a \notin visited
  <2> DEFINE call == [ast |-> a, todo |-> deps[a]]
  <2>1. visiting' = {a} /\ stack' = <<call>> /\ stage' = stage
    BY <1>1, <1>2, <1>4 DEF Call
  <2>2. call \in Calls /\ call.ast = a /\ call.todo = deps[a]
    BY <1>1, SearchFacts DEF Calls
  <2> HIDE DEF call
  <2>3. stack' \in Seq(Calls) /\ DOMAIN stack' = {1} /\ stack'[1] = call
    BY <2>1, <2>2
  <2>4. Active(stack') = {a} /\ PathOf(stack', deps, visited)
    BY <2>2, <2>3 DEF Active, PathOf
  <2> QED
    BY <1>1, <1>2, <1>4, <2>1, <2>3, <2>4, SearchFacts, SearchGoesOn
<1> QED
  BY <1>3, <1>4

(* dfs() is called for a tree that the innermost call loads.               *)
LEMMA VisitDepStep ==
  ASSUME DependenciesInv, NEW a \in Asts, VisitDep(a)
  PROVE  DependenciesInv'
<1> DEFINE read == Append(SubSeq(stack, 1, Len(stack) - 1),
                          [stack[Len(stack)] EXCEPT !.todo = @ \ {a}])
<1>1. /\ stage = "visit" /\ stack # <<>> /\ a \in stack[Len(stack)].todo
      /\ Call(a, read)
      /\ UNCHANGED <<inputVars, g_files, unread, deps, roots, visited, ordering, inserted, scope>>
  BY DEF VisitDep, Top, Callers
<1>2. ReadBy(stack, read, a) /\ stack \in Seq(Calls) /\ PathOf(stack, deps, visited)
  BY <1>1, SearchFacts, CallRead
<1> HIDE DEF read
<1>3. Active(read) = Active(stack) /\ read \in Seq(Calls)
  <2>1. read \in Seq(Calls)
    BY <1>2 DEF ReadBy
  <2>2. Active(read) = Active(stack)
    BY <1>1, <1>2, PathRead
  <2> QED
    BY <2>1, <2>2
<1>4. roots \subseteq Asts
  BY DEF DependenciesInv, TypeInv
<1>5. CASE a \in visited
  <2>1. stack' = read /\ UNCHANGED <<visiting, stage>>
    BY <1>1, <1>5 DEF Call
  <2>2. PathOf(read, deps, visited)
    BY <1>1, <1>2, <1>5, PathRead
  <2> QED
    BY <1>1, <1>3, <1>4, <2>1, <2>2, SearchFacts, SearchGoesOn
<1>6. CASE a \notin visited /\ a \in visiting
  <2>1. stage' = "cyclic" /\ visiting' = visiting /\ stack' = read
    BY <1>1, <1>6 DEF Call
  <2>2. a \in deps[stack[Len(stack)].ast]
    <3>1. Len(stack) \in DOMAIN stack
      BY <1>1, <1>2
    <3> QED
      BY <1>1, <1>2, <3>1 DEF PathOf
  <2>3. \E g \in SUBSET Asts : Knot(g)
    BY <1>1, <1>2, <1>6, <2>2, SearchFacts, StackKnot
  <2>4. UNCHANGED <<path, canonical, contents, g_files, unread, deps, roots, visited, ordering,
                    inserted, scope>>
    BY <1>1 DEF inputVars
  <2>5. TypeInv'
    BY <2>1, <2>4, <1>3 DEF DependenciesInv, TypeInv
  <2>6. TableInv'
    BY <1>1, <2>1, <2>4 DEF DependenciesInv, TableInv, Listed, Loads, Resolved
  <2>7. SearchInv'
    BY <2>1, <2>3, <2>4 DEF SearchInv, Knot
  <2>8. InsertedInv'
    BY <1>1, <2>1, <2>4 DEF DependenciesInv, InsertedInv
  <2>9. ResolveInv'
    <3>1. \A b \in visited' \ ordering' : Passed(b)'
      BY <1>1, <2>1, <2>4, SameNames DEF DependenciesInv, ResolveInv
    <3>2. stage' \notin Ordering
      BY <1>1, <2>1 DEF Ordering
    <3> QED
      BY <3>1, <3>2 DEF ResolveInv, Ordering
  <2> QED
    BY <2>5, <2>6, <2>7, <2>8, <2>9 DEF DependenciesInv
<1>7. CASE a \notin visited /\ a \notin visiting
  <2> DEFINE more == Append(read, [ast |-> a, todo |-> deps[a]])
  <2>1. /\ visiting' = visiting \union {a} /\ stage' = stage /\ stack' = more
    BY <1>1, <1>7 DEF Call
  <2>2. /\ more \in Seq(Calls) /\ Active(more) = Active(stack) \union {a}
        /\ PathOf(more, deps, visited)
    <3>1. a \notin Active(stack) /\ deps[a] \in SUBSET Asts
      BY <1>1, <1>7, SearchFacts
    <3> QED
      BY <1>1, <1>2, <3>1, PathPushed
  <2> HIDE DEF more
  <2> QED
    BY <1>1, <1>4, <1>7, <2>1, <2>2, SearchFacts, SearchGoesOn
<1> QED
  BY <1>5, <1>6, <1>7

(* The innermost call has seen all its loads: its tree is inserted.        *)
LEMMA LeaveStep ==
  ASSUME DependenciesInv, Leave
  PROVE  DependenciesInv'
<1> DEFINE a == stack[Len(stack)].ast
           below == SubSeq(stack, 1, Len(stack) - 1)
<1>1. /\ stage = "visit" /\ stage' = stage /\ stack # <<>> /\ stack[Len(stack)].todo = {}
      /\ stack' = below /\ visiting' = visiting \ {a} /\ visited' = visited \union {a}
      /\ ordering' = ordering \union {a} /\ inserted' = Append(inserted, a)
      /\ UNCHANGED <<path, canonical, contents, g_files, unread, deps, roots, scope>>
  BY DEF Leave, Top, Callers, inputVars
<1>2. /\ below \in Seq(Calls) /\ a \in Asts /\ Active(below) = Active(stack) \ {a}
      /\ a \in Active(stack) /\ PathOf(below, deps, visited \union {a})
      /\ deps[a] \subseteq visited
  <2>1. stack \in Seq(Calls) /\ PathOf(stack, deps, visited)
    BY <1>1, SearchFacts
  <2> QED
    BY <1>1, <2>1, PathPopped
<1> HIDE DEF a, below
<1>3. a \notin visited
  BY <1>1, <1>2, SearchFacts
<1>4. /\ inserted \in Seq(Asts) /\ inserted' \in Seq(Asts)
      /\ Len(inserted) \in Nat /\ DOMAIN inserted = 1..Len(inserted)
      /\ DOMAIN inserted' = 1..(Len(inserted) + 1)
      /\ \A i \in DOMAIN inserted : inserted'[i] = inserted[i]
      /\ inserted'[Len(inserted) + 1] = a
  BY <1>1, <1>2 DEF DependenciesInv, TypeInv
<1>5. /\ DOMAIN inserted' = DOMAIN inserted \union {Len(inserted) + 1}
      /\ Len(inserted) + 1 \notin DOMAIN inserted
  BY <1>4
<1>6. TypeInv'
  BY <1>1, <1>2, <1>4 DEF DependenciesInv, TypeInv
<1>7. TableInv'
  BY <1>1 DEF DependenciesInv, TableInv, Listed, Loads, Resolved
<1>8. SearchInv'
  <2>1. Closed(visited \union {a}) /\ \A g \in SUBSET (visited \union {a}) : ~Knot(g)
    BY <1>1, <1>2, <1>3, SearchFacts, NoKnotAdded
  <2> QED
    BY <1>1, <1>2, <2>1, SearchFacts DEF SearchInv, Closed, Knot
<1>9. InsertedInv'
  <2>1. \A i \in DOMAIN inserted : inserted[i] # a
    BY <1>3 DEF DependenciesInv, InsertedInv
  <2>2. visited = {inserted[i] : i \in 1..Len(inserted)}
    BY <1>4 DEF DependenciesInv, InsertedInv
  <2>3. visited' = {inserted'[i] : i \in DOMAIN inserted'}
    BY <1>1, <1>4, <1>5, <2>2
  <2>4. \A i, k \in DOMAIN inserted' : inserted'[i] = inserted'[k] => i = k
    BY <1>4, <1>5, <2>1 DEF DependenciesInv, InsertedInv
  <2>5. ASSUME NEW i \in DOMAIN inserted'
        PROVE  deps[inserted'[i]] \subseteq {inserted'[k] : k \in 1..(i - 1)}
    <3>1. CASE i = Len(inserted) + 1
      <4>1. (Len(inserted) + 1) - 1 = Len(inserted)
        BY <1>4
      <4>2. {inserted'[k] : k \in 1..Len(inserted)} = {inserted[k] : k \in 1..Len(inserted)}
        BY <1>4
      <4> QED
        BY <3>1, <4>1, <4>2, <1>2, <1>4, <2>2
    <3>2. CASE i # Len(inserted) + 1
      <4>1. i \in DOMAIN inserted /\ \A k \in 1..(i - 1) : k \in DOMAIN inserted
        BY <3>2, <1>4, <1>5
      <4>2. {inserted'[k] : k \in 1..(i - 1)} = {inserted[k] : k \in 1..(i - 1)}
        BY <4>1, <1>4
      <4> QED
        BY <4>1, <4>2, <1>4 DEF DependenciesInv, InsertedInv
    <3> QED
      BY <3>1, <3>2
  <2> QED
    BY <2>3, <2>4, <2>5, <1>1 DEF InsertedInv
<1>10. ResolveInv'
  BY <1>1, SameNames DEF DependenciesInv, ResolveInv, Ordering, TypeInv
<1> QED
  BY <1>6, <1>7, <1>8, <1>9, <1>10 DEF DependenciesInv

(* The search is over: every file has been visited.                        *)
LEMMA OrderedStep ==
  ASSUME DependenciesInv, Ordered
  PROVE  DependenciesInv'
<1>1. /\ stage = "visit" /\ stack = <<>> /\ roots = {} /\ stage' = "resolve"
      /\ UNCHANGED <<path, canonical, contents, g_files, unread, deps, roots, stack, visited,
                     visiting, ordering, inserted, scope>>
  BY DEF Ordered, inputVars
<1>2. visited = Asts
  BY <1>1, SearchFacts, EmptyPath
<1>3. TypeInv' /\ TableInv'
  BY <1>1 DEF DependenciesInv, TypeInv, TableInv, Listed, Loads, Resolved, Ordering
<1>4. SearchInv' /\ InsertedInv'
  BY <1>1 DEF DependenciesInv, SearchInv, InsertedInv, Closed, Knot
<1>5. ResolveInv'
  BY <1>1, <1>2, SameNames DEF DependenciesInv, ResolveInv, Ordering, TypeInv
<1> QED
  BY <1>3, <1>4, <1>5 DEF DependenciesInv

(* The names a file loads are added to its scope, and its types resolved.  *)
LEMMA ResolveStep ==
  ASSUME DependenciesInv, NEW a \in Asts, Resolve(a)
  PROVE  DependenciesInv'
<1>1. /\ stage = "resolve" /\ a \in ordering
      /\ UNCHANGED <<path, canonical, contents, g_files, unread, deps, roots, stack, visited,
                     visiting, inserted>>
  BY DEF Resolve, inputVars
<1>2. /\ visited = Asts /\ ordering \subseteq Asts /\ DOMAIN scope = Asts
  BY <1>1 DEF DependenciesInv, ResolveInv, TypeInv, Ordering
<1> DEFINE loaded == ScopeOf(Own(a) \union Loaded(a))
<1>3. /\ DOMAIN scope' = Asts
      /\ \/ stage' = "conflict" /\ Conflict(a) /\ ordering' = ordering
         \/ stage' = "type" /\ ~Conflict(a) /\ ~TypesResolve(a, loaded) /\ ordering' = ordering
         \/ /\ Passed(a) /\ ordering' = ordering \ {a}
            /\ stage' = IF ordering' = {} THEN "done" ELSE "resolve"
  <2>1. CASE Conflict(a)
    BY <1>2, <2>1 DEF Resolve
  <2>2. CASE ~Conflict(a)
    <3>1. scope' = [scope EXCEPT ![a] = loaded]
      BY <2>2 DEF Resolve
    <3>2. IF TypesResolve(a, scope'[a])
          THEN /\ ordering' = ordering \ {a}
               /\ stage' = IF ordering' = {} THEN "done" ELSE "resolve"
          ELSE stage' = "type" /\ ordering' = ordering
      BY <2>2 DEF Resolve
    <3>3. TypesResolve(a, loaded) <=> Passed(a)
      BY <2>2 DEF Passed
    <3> HIDE DEF loaded
    <3>4. DOMAIN scope' = Asts /\ scope'[a] = loaded
      BY <3>1, <1>2
    <3> QED
      BY <2>2, <3>2, <3>3, <3>4
  <2> QED
    BY <2>1, <2>2
<1>4. stage' \in Ordering /\ stage' # "cyclic"
  BY <1>3 DEF Ordering
<1>5. TypeInv' /\ TableInv'
  <2>1. ordering' \subseteq visited
    BY <1>2, <1>3
  <2>2. TypeInv'
    BY <1>1, <1>3, <1>4, <2>1 DEF DependenciesInv, TypeInv
  <2>3. TableInv'
    BY <1>1, <1>4 DEF DependenciesInv, TableInv, Listed, Loads, Resolved, Ordering
  <2> QED
    BY <2>2, <2>3
<1>6. SearchInv' /\ InsertedInv'
  BY <1>1, <1>4 DEF DependenciesInv, SearchInv, InsertedInv, Closed, Knot
<1>7. ResolveInv'
  <2>1. /\ \A b : Passed(b)' <=> Passed(b)
        /\ \A b : Conflict(b)' <=> Conflict(b)
        /\ \A b : TypesResolve(b, ScopeOf(Own(b) \union Loaded(b)))' <=>
                    TypesResolve(b, ScopeOf(Own(b) \union Loaded(b)))
    BY <1>1, SameNames
  <2>2. \A b \in visited' \ ordering' : Passed(b)
    BY <1>1, <1>2, <1>3 DEF DependenciesInv, ResolveInv
  <2> QED
    BY <1>1, <1>2, <1>3, <2>1, <2>2 DEF ResolveInv
<1> QED
  BY <1>5, <1>6, <1>7 DEF DependenciesInv

-----------------------------------------------------------------------------
(* The theorems.                                                           *)

(* The stages begin with the invariant.                                    *)
LEMMA InitDependencies == Init => DependenciesInv
<1> SUFFICES ASSUME Init PROVE DependenciesInv
  OBVIOUS
<1>1. /\ path \in [Asts -> Paths] /\ canonical \in [Asts -> BOOLEAN]
      /\ contents \in [Paths -> Content] /\ unread = Asts /\ deps = [a \in Asts |-> {}]
      /\ roots = Asts /\ stack = <<>> /\ visited = {} /\ visiting = {} /\ ordering = {}
      /\ inserted = <<>> /\ scope = [a \in Asts |-> ScopeOf(Own(a))] /\ stage = "table"
  BY DEF Init, InputInit
<1>2. TypeInv
  BY <1>1 DEF TypeInv
<1>3. TableInv
  BY <1>1 DEF TableInv
<1>4. SearchInv
  BY <1>1, EmptyPath DEF SearchInv, Closed, Knot
<1>5. InsertedInv /\ ResolveInv
  BY <1>1 DEF InsertedInv, ResolveInv, Ordering
<1> QED
  BY <1>2, <1>3, <1>4, <1>5 DEF DependenciesInv

(* Every step keeps it.                                                    *)
LEMMA NextDependencies == DependenciesInv /\ [Next]_vars => DependenciesInv'
<1> SUFFICES ASSUME DependenciesInv, [Next]_vars PROVE DependenciesInv'
  OBVIOUS
<1>1. CASE SetupFileTable
  BY <1>1, SetupFileTableStep
<1>2. CASE \E a \in Asts : ReadLoads(a)
  BY <1>2, ReadLoadsStep
<1>3. CASE \E a \in Asts : VisitRoot(a)
  BY <1>3, VisitRootStep
<1>4. CASE \E a \in Asts : VisitDep(a)
  BY <1>4, VisitDepStep
<1>5. CASE Leave
  BY <1>5, LeaveStep
<1>6. CASE Ordered
  BY <1>6, OrderedStep
<1>7. CASE \E a \in Asts : Resolve(a)
  BY <1>7, ResolveStep
<1>8. CASE UNCHANGED vars
  <2>1. UNCHANGED <<path, canonical, contents, g_files, unread, deps, roots, stack, visited,
                    visiting, ordering, inserted, scope, stage>>
    BY <1>8 DEF vars
  <2>2. TypeInv' /\ TableInv'
    BY <2>1 DEF DependenciesInv, TypeInv, TableInv, Listed, Loads, Resolved
  <2>3. SearchInv' /\ InsertedInv'
    BY <2>1 DEF DependenciesInv, SearchInv, InsertedInv, Closed, Knot
  <2>4. ResolveInv'
    BY <2>1, SameNames DEF DependenciesInv, ResolveInv, TypeInv
  <2> QED
    BY <2>2, <2>3, <2>4 DEF DependenciesInv
<1> QED
  BY <1>1, <1>2, <1>3, <1>4, <1>5, <1>6, <1>7, <1>8 DEF Next

(* The stack is a path, and what the search has left is closed and holds   *)
(* no knot: the invariant of the stages.                                   *)
THEOREM DependenciesCorrect == Spec => []DependenciesInv
<1>1. Init => DependenciesInv
  BY InitDependencies
<1>2. DependenciesInv /\ [Next]_vars => DependenciesInv'
  BY NextDependencies
<1> QED
  BY <1>1, <1>2, PTL DEF Spec

(* dfs() inserts every file once, and after everything it loads.           *)
THEOREM InsertedInOrderCorrect == Spec => []InsertedInOrder
<1>1. DependenciesInv => InsertedInOrder
  <2> SUFFICES ASSUME DependenciesInv PROVE InsertedInOrder
    OBVIOUS
  <2>1. DOMAIN inserted = 1..Len(inserted)
    BY DEF DependenciesInv, TypeInv
  <2>2. stage \in {"resolve", "done", "conflict", "type"} =>
          Asts = {inserted[i] : i \in 1..Len(inserted)}
    BY <2>1 DEF DependenciesInv, InsertedInv, ResolveInv, Ordering
  <2> QED
    BY <2>1, <2>2 DEF DependenciesInv, InsertedInv, InsertedInOrder
<1> QED
  BY <1>1, DependenciesCorrect, PTL

(* The search refuses exactly the inputs with a cycle.                     *)
LEMMA CycleFound == DependenciesInv => CycleExact
<1> SUFFICES ASSUME DependenciesInv PROVE CycleExact
  OBVIOUS
<1>1. ASSUME stage \in Ordering PROVE ~ \E g \in SUBSET Asts : Knot(g)
  <2>1. visited = Asts
    BY <1>1 DEF DependenciesInv, ResolveInv
  <2>2. stage # "cyclic"
    BY <1>1 DEF Ordering
  <2> QED
    BY <2>1, <2>2 DEF DependenciesInv, SearchInv
<1> QED
  BY <1>1 DEF DependenciesInv, SearchInv, CycleExact, Ordering

(* The search refuses exactly the inputs with a cycle, in whatever order   *)
(* it meets the files.                                                     *)
THEOREM CycleExactCorrect == Spec => []CycleExact
BY CycleFound, DependenciesCorrect, PTL

-----------------------------------------------------------------------------
(* The verdict.                                                            *)

(* The trees a file loads and the paths it names are each others' images.  *)
LEMMA LoadsAndTrees ==
  ASSUME DependenciesInv, stage \in Ordering \union {"cyclic"}, NEW a \in Asts
  PROVE  /\ Loads(a) \subseteq Paths /\ path[a] \in Paths
         /\ \A p \in Loads(a) : /\ g_files[p] \in deps[a] /\ path[g_files[p]] = p /\ Listed(p)
                                /\ g_files[p] \in Asts
         /\ \A d \in deps[a] : path[d] \in Loads(a) /\ g_files[path[d]] = d /\ d \in Asts
<1>1. path[a] \in Paths /\ Loads(a) \subseteq Paths
  BY DEF DependenciesInv, TypeInv, Loads, Content
<1>2. /\ stage \notin {"table", "read", "unresolved"}
  BY DEF Ordering
<1>3. /\ Resolved(a) /\ deps[a] = {g_files[p] : p \in Loads(a)}
      /\ g_files \in [Paths -> Asts \union {None}]
      /\ \A p \in Paths : g_files[p] # None => path[g_files[p]] = p /\ Listed(p)
  BY <1>2 DEF DependenciesInv, TableInv
<1>4. \A p \in Loads(a) : /\ g_files[p] \in Asts /\ path[g_files[p]] = p /\ Listed(p)
                          /\ g_files[p] \in deps[a]
  BY <1>1, <1>3 DEF Resolved
<1> QED
  BY <1>1, <1>3, <1>4

(* A group of paths each of which loads another.                           *)
PathKnot ==
  \E g \in SUBSET Paths :
    /\ \E p \in g : \E a \in Asts : path[a] = p
    /\ \A p \in g : contents[p].loads \intersect g # {}

(* The trees hold a knot if the files do.                                  *)
LEMMA KnotsAgree ==
  ASSUME DependenciesInv, stage \in Ordering \union {"cyclic"}
  PROVE  PathKnot <=> \E g \in SUBSET Asts : Knot(g)
<1>1. ASSUME NEW g \in SUBSET Asts, Knot(g) PROVE PathKnot
  <2> DEFINE h == {path[a] : a \in g}
  <2>1. h \in SUBSET Paths
    BY DEF DependenciesInv, TypeInv
  <2>2. \E p \in h : \E a \in Asts : path[a] = p
    BY <1>1 DEF Knot
  <2>3. ASSUME NEW a \in g PROVE contents[path[a]].loads \intersect h # {}
    <3>1. PICK d \in deps[a] : d \in g
      BY <1>1 DEF Knot
    <3>2. path[d] \in Loads(a)
      BY LoadsAndTrees
    <3> QED
      BY <3>1, <3>2 DEF Loads
  <2>4. \A p \in h : contents[p].loads \intersect h # {}
    BY <2>3
  <2> HIDE DEF h
  <2> QED
    BY <2>1, <2>2, <2>4 DEF PathKnot
<1>2. ASSUME PathKnot PROVE \E g \in SUBSET Asts : Knot(g)
  <2>1. PICK h \in SUBSET Paths : /\ \E p \in h : \E a \in Asts : path[a] = p
                                  /\ \A p \in h : contents[p].loads \intersect h # {}
    BY <1>2 DEF PathKnot
  <2> DEFINE g == {a \in Asts : path[a] \in h}
  <2>2. g # {}
    BY <2>1
  <2>3. ASSUME NEW a \in g PROVE deps[a] \intersect g # {}
    <3>1. PICK p \in Loads(a) : p \in h
      BY <2>1 DEF Loads
    <3>2. g_files[p] \in deps[a] /\ path[g_files[p]] = p /\ g_files[p] \in Asts
      BY LoadsAndTrees
    <3> QED
      BY <3>1, <3>2
  <2> QED
    BY <2>2, <2>3 DEF Knot
<1> QED
  BY <1>1, <1>2

(* The symbols of a file, by their trees, are those visible in it, by their*)
(* paths; the same one has the same definition.                            *)
LEMMA SymbolsVisible ==
  ASSUME DependenciesInv, stage \in Ordering, NEW a \in Asts
  PROVE  /\ \A s \in Own(a) \union Loaded(a) :
              /\ s = <<s[1], s[2]>> /\ <<path[s[1]], s[2]>> \in VisibleIn(a)
              /\ Written(<<path[s[1]], s[2]>>) = Defn(s)
         /\ \A v \in VisibleIn(a) : \E s \in Own(a) \union Loaded(a) :
              v = <<path[s[1]], s[2]>>
         /\ \A s, t \in Own(a) \union Loaded(a) : path[s[1]] = path[t[1]] => s[1] = t[1]
<1>1. path[a] \notin Loads(a)
  <2> SUFFICES ASSUME path[a] \in Loads(a) PROVE FALSE
    OBVIOUS
  <2> DEFINE t == g_files[path[a]]
  <2>1. t \in Asts /\ path[t] = path[a]
    BY LoadsAndTrees
  <2>2. Loads(t) = Loads(a)
    BY <2>1 DEF Loads
  <2>3. t \in deps[t]
    BY <2>1, <2>2, LoadsAndTrees
  <2>4. Knot({t})
    BY <2>3 DEF Knot
  <2>5. ~ \E g \in SUBSET Asts : Knot(g)
    BY CycleFound DEF CycleExact, Ordering
  <2> QED
    BY <2>1, <2>4, <2>5
<1>2. /\ \A p \in Loads(a) : g_files[p] \in deps[a] /\ path[g_files[p]] = p
      /\ \A d \in deps[a] : path[d] \in Loads(a) /\ g_files[path[d]] = d
  BY LoadsAndTrees
<1>3. \A s : s \in Own(a) <=> \E i \in Kept(path[a]) : s = <<a, i>>
  BY DEF Own
<1>4. \A s : s \in Loaded(a) <=> \E d \in deps[a] : \E i \in Public(path[d]) : s = <<d, i>>
  BY DEF Loaded
<1>5. \A v : v \in VisibleIn(a) <=>
        \/ \E i \in Kept(path[a]) : v = <<path[a], i>>
        \/ \E p \in Loads(a) : \E i \in Public(p) : v = <<p, i>>
  BY DEF VisibleIn
<1>6. ASSUME NEW s \in Own(a) \union Loaded(a)
      PROVE  /\ s = <<s[1], s[2]>> /\ <<path[s[1]], s[2]>> \in VisibleIn(a)
             /\ Written(<<path[s[1]], s[2]>>) = Defn(s)
             /\ s[1] = a \/ s[1] \in deps[a]
  <2>1. /\ s = <<s[1], s[2]>>
        /\ \/ s[1] = a /\ s[2] \in Kept(path[a])
           \/ s[1] \in deps[a] /\ s[2] \in Public(path[s[1]])
    BY <1>3, <1>4
  <2> QED
    BY <2>1, <1>2, <1>5 DEF Written, Defn
<1>7. ASSUME NEW v \in VisibleIn(a)
      PROVE  \E s \in Own(a) \union Loaded(a) : v = <<path[s[1]], s[2]>>
  <2>1. CASE \E i \in Kept(path[a]) : v = <<path[a], i>>
    <3>1. PICK i \in Kept(path[a]) : v = <<path[a], i>>
      BY <2>1
    <3>2. <<a, i>> \in Own(a)
      BY <1>3
    <3> QED
      BY <3>1, <3>2
  <2>2. CASE \E p \in Loads(a) : \E i \in Public(p) : v = <<p, i>>
    <3>1. PICK p \in Loads(a) : \E i \in Public(p) : v = <<p, i>>
      BY <2>2
    <3>2. PICK i \in Public(p) : v = <<p, i>>
      BY <3>1
    <3>3. <<g_files[p], i>> \in Loaded(a)
      BY <1>2, <1>4
    <3> QED
      BY <3>2, <3>3, <1>2
  <2> QED
    BY <2>1, <2>2, <1>5
<1>8. ASSUME NEW s \in Own(a) \union Loaded(a), NEW t \in Own(a) \union Loaded(a),
             path[s[1]] = path[t[1]]
      PROVE  s[1] = t[1]
  BY <1>1, <1>2, <1>6, <1>8
<1> QED
  BY <1>6, <1>7, <1>8

(* The parser keeps one definition of a name.                              *)
LEMMA OwnNamesOnce ==
  ASSUME NEW a, DOMAIN contents[path[a]].defns \subseteq Nat,
         NEW s \in Own(a), NEW t \in Own(a), Defn(s).name = Defn(t).name,
         \A i, k \in DOMAIN contents[path[a]].defns : i < k => i \in 1..(k - 1)
  PROVE  s = t
<1>1. PICK i \in Kept(path[a]) : s = <<a, i>>
  BY DEF Own
<1>2. PICK k \in Kept(path[a]) : t = <<a, k>>
  BY DEF Own
<1>3. /\ i \in DOMAIN contents[path[a]].defns /\ k \in DOMAIN contents[path[a]].defns
      /\ contents[path[a]].defns[i].name = contents[path[a]].defns[k].name
  BY <1>1, <1>2 DEF Kept, Defn
<1>4. ~(i < k) /\ ~(k < i)
  BY <1>3 DEF Kept
<1>5. i = k
  BY <1>3, <1>4
<1> QED
  BY <1>1, <1>2, <1>5

(* A load conflicts when two definitions visible in a file share a name.   *)
LEMMA ConflictMeansTwo ==
  ASSUME DependenciesInv, stage \in Ordering, NEW a \in Asts
  PROVE  Conflict(a) <=>
           \E v, w \in VisibleIn(a) : Written(v).name = Written(w).name /\ v # w
<1> DEFINE symbols == Own(a) \union Loaded(a)
<1>1. ASSUME Conflict(a)
      PROVE  \E v, w \in VisibleIn(a) : Written(v).name = Written(w).name /\ v # w
  <2>1. PICK s \in symbols, t \in symbols : s # t /\ Defn(s).name = Defn(t).name
    BY <1>1 DEF Conflict
  <2>2. /\ s = <<s[1], s[2]>> /\ <<path[s[1]], s[2]>> \in VisibleIn(a)
        /\ Written(<<path[s[1]], s[2]>>) = Defn(s)
    BY SymbolsVisible
  <2>3. /\ t = <<t[1], t[2]>> /\ <<path[t[1]], t[2]>> \in VisibleIn(a)
        /\ Written(<<path[t[1]], t[2]>>) = Defn(t)
    BY SymbolsVisible
  <2>4. path[s[1]] = path[t[1]] => s[1] = t[1]
    BY SymbolsVisible
  <2>5. <<path[s[1]], s[2]>> # <<path[t[1]], t[2]>>
    BY <2>1, <2>2, <2>3, <2>4
  <2> QED
    BY <2>1, <2>2, <2>3, <2>5
<1>2. ASSUME NEW v \in VisibleIn(a), NEW w \in VisibleIn(a),
             Written(v).name = Written(w).name, v # w
      PROVE  Conflict(a)
  <2>1. PICK s \in symbols : v = <<path[s[1]], s[2]>>
    BY SymbolsVisible
  <2>2. PICK t \in symbols : w = <<path[t[1]], t[2]>>
    BY SymbolsVisible
  <2>3. Defn(s).name = Defn(t).name /\ s # t
    BY <1>2, <2>1, <2>2, SymbolsVisible
  <2>4. s \in Loaded(a) \/ t \in Loaded(a)
    <3> SUFFICES ASSUME s \in Own(a), t \in Own(a) PROVE FALSE
      OBVIOUS
    <3>1. contents[path[a]].defns \in Seq(Definition)
      BY DEF DependenciesInv, TypeInv, Content
    <3>2. /\ DOMAIN contents[path[a]].defns \subseteq Nat
          /\ \A i, k \in DOMAIN contents[path[a]].defns : i < k => i \in 1..(k - 1)
      BY <3>1
    <3> QED
      BY <2>3, <3>2, OwnNamesOnce
  <2> QED
    BY <2>3, <2>4 DEF Conflict
<1> QED
  BY <1>1, <1>2

(* Without a conflict, a type resolves when one visible defines it.        *)
LEMMA TypesMeanVisible ==
  ASSUME DependenciesInv, stage \in Ordering, NEW a \in Asts, ~Conflict(a)
  PROVE  TypesResolve(a, ScopeOf(Own(a) \union Loaded(a))) <=>
           \A n \in Needs(a) : \E v \in VisibleIn(a) : Written(v).name = n /\ Written(v).type
<1> DEFINE symbols == Own(a) \union Loaded(a)
           names == ScopeOf(symbols)
<1>1. DOMAIN names = {Defn(s).name : s \in symbols}
  BY DEF ScopeOf
<1>2. ASSUME NEW s \in symbols
      PROVE  names[Defn(s).name] = s
  <2> DEFINE n == Defn(s).name
             c == CHOOSE t \in symbols : Defn(t).name = n
  <2>1. names[n] = c
    BY DEF ScopeOf
  <2>2. c \in symbols /\ Defn(c).name = n
    OBVIOUS
  <2> HIDE DEF c
  <2>3. PICK v \in VisibleIn(a) : v = <<path[s[1]], s[2]>> /\ Written(v) = Defn(s)
    BY SymbolsVisible
  <2>4. PICK w \in VisibleIn(a) : w = <<path[c[1]], c[2]>> /\ Written(w) = Defn(c)
    BY <2>2, SymbolsVisible
  <2>5. v = w
    BY <2>2, <2>3, <2>4, ConflictMeansTwo
  <2>6. s[2] = c[2] /\ path[s[1]] = path[c[1]]
    BY <2>3, <2>4, <2>5
  <2>7. s[1] = c[1]
    BY <2>2, <2>6, SymbolsVisible
  <2>8. s = <<s[1], s[2]>> /\ c = <<c[1], c[2]>>
    BY <2>2, SymbolsVisible
  <2> QED
    BY <2>1, <2>6, <2>7, <2>8
<1>3. ASSUME NEW n PROVE n \in DOMAIN names /\ Defn(names[n]).type <=>
                           \E v \in VisibleIn(a) : Written(v).name = n /\ Written(v).type
  <2>1. ASSUME n \in DOMAIN names, Defn(names[n]).type
        PROVE  \E v \in VisibleIn(a) : Written(v).name = n /\ Written(v).type
    <3>1. PICK s \in symbols : n = Defn(s).name
      BY <1>1, <2>1
    <3>2. /\ <<path[s[1]], s[2]>> \in VisibleIn(a)
          /\ Written(<<path[s[1]], s[2]>>) = Defn(s)
      BY SymbolsVisible
    <3>3. names[n] = s
      BY <1>2, <3>1
    <3> HIDE DEF names
    <3> QED
      BY <2>1, <3>1, <3>2, <3>3
  <2>2. ASSUME NEW v \in VisibleIn(a), Written(v).name = n, Written(v).type
        PROVE  n \in DOMAIN names /\ Defn(names[n]).type
    <3>1. PICK s \in symbols : v = <<path[s[1]], s[2]>>
      BY SymbolsVisible
    <3>2. Defn(s) = Written(v)
      BY <3>1, SymbolsVisible
    <3> QED
      BY <1>1, <1>2, <2>2, <3>2
  <2> QED
    BY <2>1, <2>2
<1> QED
  BY <1>3 DEF TypesResolve

(* The verdict depends on the files alone, whatever the order of the hash  *)
(* tables: done means that they are well formed, a failure that they are   *)
(* not.                                                                    *)
THEOREM VerdictExactCorrect == Spec => []VerdictExact
<1>1. DependenciesInv => VerdictExact
  <2> SUFFICES ASSUME DependenciesInv PROVE VerdictExact
    OBVIOUS
  <2>1. WellFormed <=> /\ \A a \in Asts : \A p \in Loads(a) : Listed(p)
                       /\ ~PathKnot
                       /\ \A a \in Asts : \A v, w \in VisibleIn(a) :
                            Written(v).name = Written(w).name => v = w
                       /\ \A a \in Asts : \A n \in Needs(a) :
                            \E v \in VisibleIn(a) : Written(v).name = n /\ Written(v).type
    BY DEF WellFormed, PathKnot
  <2>2. ASSUME stage = "done" PROVE WellFormed
    <3>1. stage \in Ordering
      BY <2>2 DEF Ordering
    <3>2. \A a \in Asts : Passed(a)
      BY <2>2, <3>1 DEF DependenciesInv, ResolveInv
    <3>3. \A a \in Asts : \A p \in Loads(a) : Listed(p)
      BY <3>1, LoadsAndTrees
    <3>4. ~PathKnot
      BY <2>2, <3>1, KnotsAgree, CycleFound DEF CycleExact
    <3>5. \A a \in Asts : \A v, w \in VisibleIn(a) : Written(v).name = Written(w).name => v = w
      BY <3>1, <3>2, ConflictMeansTwo DEF Passed
    <3>6. \A a \in Asts : \A n \in Needs(a) :
            \E v \in VisibleIn(a) : Written(v).name = n /\ Written(v).type
      BY <3>1, <3>2, TypesMeanVisible DEF Passed
    <3> QED
      BY <2>1, <3>3, <3>4, <3>5, <3>6
  <2>3. ASSUME stage = "unresolved" PROVE ~WellFormed
    BY <2>1, <2>3 DEF DependenciesInv, TableInv
  <2>4. ASSUME stage = "cyclic" PROVE ~WellFormed
    BY <2>1, <2>4, KnotsAgree, CycleFound DEF CycleExact
  <2>5. ASSUME stage = "conflict" PROVE ~WellFormed
    <3>1. stage \in Ordering
      BY <2>5 DEF Ordering
    <3>2. PICK a \in Asts : Conflict(a)
      BY <2>5 DEF DependenciesInv, ResolveInv
    <3> QED
      BY <2>1, <3>1, <3>2, ConflictMeansTwo
  <2>6. ASSUME stage = "type" PROVE ~WellFormed
    <3>1. stage \in Ordering
      BY <2>6 DEF Ordering
    <3>2. PICK a \in Asts : ~Conflict(a) /\ ~TypesResolve(a, ScopeOf(Own(a) \union Loaded(a)))
      BY <2>6 DEF DependenciesInv, ResolveInv
    <3> QED
      BY <2>1, <3>1, <3>2, TypesMeanVisible
  <2> QED
    BY <2>2, <2>3, <2>4, <2>5, <2>6 DEF VerdictExact, Failed
<1> QED
  BY <1>1, DependenciesCorrect, PTL

=============================================================================
