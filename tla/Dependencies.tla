---------------------------- MODULE Dependencies ----------------------------
(***************************************************************************)
(* What main() does with the parsed files before it checks them (lace.cpp):*)
(* the table from paths to trees, the loads of each file resolved to trees,*)
(* a depth-first search that refuses cycles and orders the files, and, file*)
(* by file, the public names of the loaded files added to a file's scope   *)
(* before its own deferred types are resolved in it.                       *)
(*                                                                         *)
(* The recursion of dfs() is an explicit stack of frames.  Asts is an      *)
(* unordered_set: every iteration over one is in any order.                *)
(***************************************************************************)
EXTENDS Naturals, Sequences

CONSTANTS Asts,   \* the input files, as they are listed on the command line
          Paths,  \* the canonical paths of files, given as input or not
          Names,  \* the names files define
          None    \* "no tree"

ASSUME DependenciesAssumption == None \notin Asts

VARIABLES
  path,       \* path[a]: the file that a was parsed from
  canonical,  \* canonical[a]: it was listed by its canonical path
  contents,   \* contents[p]: what the file loads, defines and refers to
  g_files,    \* the table: path to tree
  unread,     \* the trees whose load definitions are not looked at yet
  deps,       \* deps[a]: the trees that a loads
  roots,      \* the trees dfs() is still to be called for
  stack,      \* the active calls of dfs()
  visited, visiting,
  ordering,   \* the trees still to resolve: a set, without the order of insertion
  inserted,   \* history: ordering as a sequence
  scope,      \* scope[a]: name to the symbol it denotes
  stage

inputVars == <<path, canonical, contents>>

vars == <<path, canonical, contents, g_files, unread, deps, roots, stack,
          visited, visiting, ordering, inserted, scope, stage>>

(* A definition: its name, whether it has the rune `public`, and whether it *)
(* is a TypeDefn (a structure, an enumeration) or a value (a function, a   *)
(* variable, a variant of an enumeration).  needs are the deferred types.  *)
Definition == [name : Names, public : BOOLEAN, type : BOOLEAN]

Content == [loads : SUBSET Paths, defns : Seq(Definition), needs : SUBSET Names]

Loads(a) == contents[path[a]].loads

Needs(a) == contents[path[a]].needs

(* The definitions in the scope the parser made for a file: Scope::add     *)
(* refuses a second one of the same name, and its answer is dropped, so    *)
(* that one is in the list of the file and in no scope.                    *)
Kept(p) ==
  {i \in DOMAIN contents[p].defns :
     \A k \in 1..(i - 1) : contents[p].defns[k].name # contents[p].defns[i].name}

(* The definitions with the rune, in the scope or not.                     *)
Public(p) == {i \in DOMAIN contents[p].defns : contents[p].defns[i].public}

(* A symbol is a tree and the place of a definition in it.                 *)
Defn(s) == contents[path[s[1]]].defns[s[2]]

Own(a) == {<<a, i>> : i \in Kept(path[a])}

Loaded(a) == UNION {{<<d, i>> : i \in Public(path[d])} : d \in deps[a]}

(* A scope from symbols, of which each name has one.                       *)
ScopeOf(symbols) ==
  [n \in {Defn(s).name : s \in symbols} |-> CHOOSE s \in symbols : Defn(s).name = n]

Failed == {"unresolved", "cyclic", "conflict", "type"}

-----------------------------------------------------------------------------
(* The stages begin with some command line and some contents of the files. *)
InputInit(commandLines, spellings, files) ==
  /\ path \in commandLines
  /\ canonical \in spellings
  /\ contents \in files
  /\ g_files = [p \in Paths |-> None]
  /\ unread = Asts
  /\ deps = [a \in Asts |-> {}]
  /\ roots = Asts
  /\ stack = <<>>
  /\ visited = {}
  /\ visiting = {}
  /\ ordering = {}
  /\ inserted = <<>>
  /\ scope = [a \in Asts |-> ScopeOf(Own(a))]
  /\ stage = "table"

Init == InputInit([Asts -> Paths], [Asts -> BOOLEAN], [Paths -> Content])

(* setup_file_table: emplace keeps the first of two trees of the same file,*)
(* and the key is the path as it was listed.                               *)
SetupFileTable ==
  /\ stage = "table"
  /\ g_files' \in [Paths -> Asts \union {None}]
  /\ \A p \in Paths :
       LET listed == {a \in Asts : path[a] = p /\ canonical[a]}
       IN  IF listed = {} THEN g_files'[p] = None ELSE g_files'[p] \in listed
  /\ stage' = "read"
  /\ UNCHANGED <<inputVars, unread, deps, roots, stack, visited, visiting,
                 ordering, inserted, scope>>

(* compute_dependencies, first loop: one tree with all its loads.          *)
ReadLoads(a) ==
  /\ stage = "read"
  /\ a \in unread
  /\ unread' = unread \ {a}
  /\ IF \A p \in Loads(a) : g_files[p] # None
     THEN /\ deps' = [deps EXCEPT ![a] = {g_files[p] : p \in Loads(a)}]
          /\ stage' = IF unread' = {} THEN "visit" ELSE "read"
     ELSE stage' = "unresolved" /\ UNCHANGED deps
  /\ UNCHANGED <<inputVars, g_files, roots, stack, visited, visiting, ordering,
                 inserted, scope>>

-----------------------------------------------------------------------------
(* Mutant of Call: a tree that is being visited counts as visited.         *)
CallMerged(a, callers) ==
  IF a \in visited \union visiting
  THEN /\ stack' = callers
       /\ UNCHANGED <<visiting, stage>>
  ELSE /\ visiting' = visiting \union {a}
       /\ stack' = Append(callers, [ast |-> a, todo |-> deps[a]])
       /\ UNCHANGED stage

(* A call dfs(a) on top of the frames in callers.                          *)
Call(a, callers) ==
  IF a \in visited
  THEN /\ stack' = callers
       /\ UNCHANGED <<visiting, stage>>
  ELSE IF a \in visiting
  THEN /\ stage' = "cyclic"
       /\ stack' = callers
       /\ UNCHANGED visiting
  ELSE /\ visiting' = visiting \union {a}
       /\ stack' = Append(callers, [ast |-> a, todo |-> deps[a]])
       /\ UNCHANGED stage

Top == stack[Len(stack)]

Callers == SubSeq(stack, 1, Len(stack) - 1)

(* Mutant of VisitRoot: does not advance to the next tree.                 *)
VisitRootAgain(a) ==
  /\ stage = "visit"
  /\ stack = <<>>
  /\ a \in roots
  /\ UNCHANGED roots
  /\ Call(a, <<>>)
  /\ UNCHANGED <<inputVars, g_files, unread, deps, visited, ordering, inserted,
                 scope>>

VisitRoot(a) ==
  /\ stage = "visit"
  /\ stack = <<>>
  /\ a \in roots
  /\ roots' = roots \ {a}
  /\ Call(a, <<>>)
  /\ UNCHANGED <<inputVars, g_files, unread, deps, visited, ordering, inserted,
                 scope>>

VisitDep(a) ==
  /\ stage = "visit"
  /\ stack # <<>>
  /\ a \in Top.todo
  /\ Call(a, Append(Callers, [Top EXCEPT !.todo = @ \ {a}]))
  /\ UNCHANGED <<inputVars, g_files, unread, deps, roots, visited, ordering,
                 inserted, scope>>

(* Mutant of Leave: inserts the tree before it has seen all dependencies.  *)
LeaveEarly ==
  /\ stage = "visit"
  /\ stack # <<>>
  /\ stack' = Callers
  /\ visiting' = visiting \ {Top.ast}
  /\ visited' = visited \union {Top.ast}
  /\ ordering' = ordering \union {Top.ast}
  /\ inserted' = Append(inserted, Top.ast)
  /\ UNCHANGED <<inputVars, g_files, unread, deps, roots, scope, stage>>

Leave ==
  /\ stage = "visit"
  /\ stack # <<>>
  /\ Top.todo = {}
  /\ stack' = Callers
  /\ visiting' = visiting \ {Top.ast}
  /\ visited' = visited \union {Top.ast}
  /\ ordering' = ordering \union {Top.ast}
  /\ inserted' = Append(inserted, Top.ast)
  /\ UNCHANGED <<inputVars, g_files, unread, deps, roots, scope, stage>>

Ordered ==
  /\ stage = "visit"
  /\ stack = <<>>
  /\ roots = {}
  /\ stage' = "resolve"
  /\ UNCHANGED <<inputVars, g_files, unread, deps, roots, stack, visited, visiting,
                 ordering, inserted, scope>>

-----------------------------------------------------------------------------
(* Scope::add for every public definition of every dependency: false, which*)
(* is fatal, when the name is there already, be it the file's own, another *)
(* dependency's or the same dependency's.                                  *)
Conflict(a) ==
  \E s \in Loaded(a) : \E t \in Own(a) \union Loaded(a) :
    s # t /\ Defn(s).name = Defn(t).name

(* Mutant of TypesResolve: any definition of the name will do.             *)
NamesResolve(a, names) == Needs(a) \subseteq DOMAIN names

(* resolve_type for the deferred types of a file: what the name denotes    *)
(* must be the definition of a type.                                       *)
TypesResolve(a, names) ==
  \A n \in Needs(a) : n \in DOMAIN names /\ Defn(names[n]).type

(* resolve_dependencies for one tree: load the names, then resolve the     *)
(* deferred types of its own definitions.  A type that is not found is an  *)
(* error or fatal: either way the file does not get past the next flush.   *)
Resolve(a) ==
  /\ stage = "resolve"
  /\ a \in ordering
  /\ IF Conflict(a)
     THEN stage' = "conflict" /\ UNCHANGED <<ordering, scope>>
     ELSE /\ scope' = [scope EXCEPT ![a] = ScopeOf(Own(a) \union Loaded(a))]
          /\ IF TypesResolve(a, scope'[a])
             THEN /\ ordering' = ordering \ {a}
                  /\ stage' = IF ordering' = {} THEN "done" ELSE "resolve"
             ELSE stage' = "type" /\ UNCHANGED ordering
  /\ UNCHANGED <<inputVars, g_files, unread, deps, roots, stack, visited, visiting,
                 inserted>>

Next ==
  \/ SetupFileTable
  \/ \E a \in Asts : ReadLoads(a)
  \/ \E a \in Asts : VisitRoot(a)
  \/ \E a \in Asts : VisitDep(a)
  \/ Leave
  \/ Ordered
  \/ \E a \in Asts : Resolve(a)

Spec == Init /\ [][Next]_vars

(* One thread runs the stages to their end.                                *)
FairSpec == Spec /\ WF_vars(Next)

-----------------------------------------------------------------------------
(* A file of the command line that loads can refer to.                     *)
Listed(p) == \E a \in Asts : path[a] = p /\ canonical[a]

(* A group of files each of which loads another of the group, or itself.   *)
Knot(g) == g # {} /\ \A a \in g : deps[a] \intersect g # {}

(* The search refuses exactly the inputs with a cycle, whatever the order  *)
(* in which it meets the files: when it says so there is one, and when it  *)
(* ends there is none.                                                     *)
CycleExact ==
  /\ stage = "cyclic" => \E g \in SUBSET Asts : Knot(g)
  /\ stage \in {"resolve", "done", "conflict", "type"} =>
       ~ \E g \in SUBSET Asts : Knot(g)

(* dfs() inserts every file once, and after everything it loads.           *)
InsertedInOrder ==
  /\ \A i, k \in 1..Len(inserted) : inserted[i] = inserted[k] => i = k
  /\ \A i \in 1..Len(inserted) :
       deps[inserted[i]] \subseteq {inserted[k] : k \in 1..(i - 1)}
  /\ stage \in {"resolve", "done", "conflict", "type"} =>
       Asts = {inserted[i] : i \in 1..Len(inserted)}

(* The verdict depends on the files alone, not on the order of hash tables:*)
(* a set of files is accepted if and only if every load names a file listed*)
(* by its canonical path, nothing is cyclic, no two definitions of a name  *)
(* reach one file (its own first one, and every public one of a file it    *)
(* loads directly), and every type a file needs is among those and a type. *)
VisibleIn(a) ==
  {<<path[a], i>> : i \in Kept(path[a])} \union
    UNION {{<<p, i>> : i \in Public(p)} : p \in Loads(a)}

Written(s) == contents[s[1]].defns[s[2]]

WellFormed ==
  /\ \A a \in Asts : \A p \in Loads(a) : Listed(p)
  /\ ~ \E g \in SUBSET Paths :
         /\ \E p \in g : \E a \in Asts : path[a] = p
         /\ \A p \in g : contents[p].loads \intersect g # {}
  /\ \A a \in Asts : \A s, t \in VisibleIn(a) : Written(s).name = Written(t).name => s = t
  /\ \A a \in Asts : \A n \in Needs(a) :
       \E s \in VisibleIn(a) : Written(s).name = n /\ Written(s).type

VerdictExact ==
  /\ stage = "done" => WellFormed
  /\ stage \in Failed => ~WellFormed

(* The search ends.                                                        *)
VerdictReached == <>(stage \in Failed \union {"done"})

=============================================================================
