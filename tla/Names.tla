-------------------------------- MODULE Names --------------------------------
(***************************************************************************)
(* From the names of a file to what they stand for in the generated code:  *)
(* the parser puts definitions into a tree of scopes, the public names of  *)
(* loaded files join the file's scope, the symbol analysis looks every     *)
(* reference up once the whole file is parsed, and the code generator finds*)
(* the variable again by its name in its function, and the other symbols by*)
(* their names in the graph.                                               *)
(*                                                                         *)
(* The tree is a sequence of tokens in the order in which the passes visit *)
(* it.  Statements that neither define, refer to nor nest are left out, as *)
(* are enums: their variants are constants that the file's scope holds as  *)
(* it does globals.                                                        *)
(***************************************************************************)
EXTENDS Naturals, Sequences, FiniteSets

CONSTANTS
  Idents,    \* the identifiers; "_" may be one, but for a parameter
  Unnamed,   \* "", which a parameter "_" is called in the graph
  MaxNodes,  \* bound on definitions, references and blocks
  MaxLoads   \* bound on the names loaded from other files

ASSUME NamesAssumption ==
  /\ Unnamed \notin Idents
  /\ MaxNodes \in Nat /\ MaxLoads \in Nat

VARIABLES
  text,      \* the tokens
  scopes,    \* the Scope objects, the file's first
  m_scope,   \* the scope the parser or the symbol analysis is in
  at,        \* the token the pass at work visits next
  denotes,   \* the definition a reference is set to, by their positions; or 0
  declared,  \* the graph's tables of symbols and of struct types
  locals,    \* the table of locals of m_func
  slot,      \* the definition whose symbol or local a reference is generated as
  stage

vars == <<text, scopes, m_scope, at, denotes, declared, locals, slot, stage>>

-----------------------------------------------------------------------------
(* Scopes.  path leads from the file's scope to the scope itself; table    *)
(* has the position of the definition of a name, 0 for none.               *)

NewScope(parent) ==
  [path |-> Append(scopes[parent].path, Len(scopes) + 1),
   table |-> [n \in Idents |-> 0]]

Depth(s) == Len(scopes[s].path)

Parent(s) == scopes[s].path[Depth(s) - 1]

(* Scope::get climbs to the innermost scope that has the name.             *)
Get(s, n) ==
  LET path == scopes[s].path
      having == {k \in DOMAIN path : scopes[path[k]].table[n] # 0}
  IN  IF having = {} THEN 0
      ELSE scopes[path[CHOOSE k \in having : \A h \in having : h <= k]].table[n]

(* Mutant of Add: looks at the scope itself, and replaces what it has.     *)
AddOver(s, n, d) == [scopes EXCEPT ![s].table[n] = d]

(* Scope::add.  It refuses a name that is visible, from this scope or from *)
(* one around it; the parser drops the answer.                             *)
Add(s, n, d) ==
  IF Get(s, n) # 0 THEN scopes ELSE [scopes EXCEPT ![s].table[n] = d]

-----------------------------------------------------------------------------
(* Tokens: scope is where a definition or a reference stands, own is the   *)
(* scope that a function or a block has.                                   *)

Token(kind, name, own) == [kind |-> kind, name |-> name, scope |-> m_scope, own |-> own]

FileKinds == {"global", "function", "type", "loaded"}

LocalKinds == {"param", "let"}

RefKinds == {"ref", "init"}

Closers == {"close", "end"}

IsNode(token) == token.kind \notin Closers

Room == stage = "parse" /\ Len(SelectSeq(text, IsNode)) < MaxNodes

Here == Len(text) + 1

LastKind == IF text = <<>> THEN "none" ELSE text[Len(text)].kind

(* The function that token i stands in, or is.                             *)
FunctionOf(i) ==
  CHOOSE f \in 1..i : /\ text[f].kind = "function"
                      /\ \A g \in (f + 1)..i : text[g].kind # "function"

AtFile == Depth(m_scope) = 1

InBody == Depth(m_scope) > 2

Init ==
  /\ text = <<>>
  /\ scopes = <<[path |-> <<1>>, table |-> [n \in Idents |-> 0]]>>
  /\ m_scope = 1
  /\ at = 1
  /\ denotes = <<>> /\ slot = <<>>
  /\ declared = [space \in {"symbol", "type"} |-> [n \in Idents |-> 0]]
  /\ locals = [n \in Idents \union {Unnamed} |-> 0]
  /\ stage = "parse"

Parsed == UNCHANGED <<at, denotes, declared, locals, slot, stage>>

-----------------------------------------------------------------------------
(* Parser: a global variable or a struct.                                  *)
Define(kind, n) ==
  /\ Room /\ AtFile
  /\ text' = Append(text, Token(kind, n, 0))
  /\ scopes' = Add(1, n, Here)
  /\ UNCHANGED m_scope /\ Parsed

(* A function has a scope for its parameters ...                           *)
OpenFunction(n) ==
  /\ Room /\ AtFile
  /\ text' = Append(text, Token("function", n, Len(scopes) + 1))
  /\ scopes' = Append(scopes, NewScope(m_scope))
  /\ m_scope' = Len(scopes) + 1
  /\ Parsed

(* A parameter "_" is in no scope.                                         *)
Param(n) ==
  /\ Room /\ LastKind \in {"function", "param"}
  /\ text' = Append(text, Token("param", n, 0))
  /\ scopes' = IF n = Unnamed THEN scopes ELSE Add(m_scope, n, Here)
  /\ UNCHANGED m_scope /\ Parsed

(* ... and a block is its body, or there is none.                          *)
OpenBlock ==
  /\ Room
  /\ InBody \/ LastKind \in {"function", "param"}
  /\ text' = Append(text, Token("open", Unnamed, Len(scopes) + 1))
  /\ scopes' = Append(scopes, NewScope(m_scope))
  /\ m_scope' = Len(scopes) + 1
  /\ Parsed

CloseBlock ==
  /\ stage = "parse" /\ InBody
  /\ text' = Append(text, Token("close", Unnamed, 0))
  /\ m_scope' = Parent(m_scope)
  /\ UNCHANGED scopes /\ Parsed

(* The function's name joins the file's scope after its body.              *)
CloseFunction ==
  /\ stage = "parse" /\ Depth(m_scope) = 2
  /\ text' = Append(text, Token("end", Unnamed, 0))
  /\ scopes' = LET f == FunctionOf(Len(text)) IN Add(1, text[f].name, f)
  /\ m_scope' = Parent(m_scope)
  /\ Parsed

(* `let`, wherever a statement may stand.  Its initializer is parsed       *)
(* before it is added, but as nothing is looked up yet it comes after it,  *)
(* where the later passes visit it.                                        *)
Let(n) ==
  /\ Room /\ InBody
  /\ text' = Append(text, Token("let", n, 0))
  /\ scopes' = Add(m_scope, n, Here)
  /\ UNCHANGED m_scope /\ Parsed

Refer(n, kind) ==
  /\ Room /\ InBody
  /\ kind = "init" => LastKind = "let"
  /\ text' = Append(text, Token(kind, n, 0))
  /\ UNCHANGED <<scopes, m_scope>> /\ Parsed

FinishParse ==
  /\ stage = "parse" /\ AtFile
  /\ text # <<>>
  /\ stage' = "load"
  /\ UNCHANGED <<text, scopes, m_scope, at, denotes, declared, locals, slot>>

-----------------------------------------------------------------------------
(* resolve_dependencies: a public function of a file that this one loads.  *)
Load(n) ==
  /\ stage = "load"
  /\ Cardinality({i \in DOMAIN text : text[i].kind = "loaded"}) < MaxLoads
  /\ IF Get(1, n) # 0
     THEN stage' = "conflict" /\ UNCHANGED <<text, scopes>>
     ELSE /\ text' = Append(text, Token("loaded", n, 0))
          /\ scopes' = Add(1, n, Here)
          /\ UNCHANGED stage
  /\ UNCHANGED <<m_scope, at, denotes, declared, locals, slot>>

FinishLoad ==
  /\ stage = "load"
  /\ stage' = "analyse"
  /\ denotes' = [i \in DOMAIN text |-> 0]
  /\ slot' = [i \in DOMAIN text |-> 0]
  /\ UNCHANGED <<text, scopes, m_scope, at, declared, locals>>

-----------------------------------------------------------------------------
(* A pass visits the next token, and the next pass begins after the last.  *)
Visit(pass, following) ==
  /\ stage = pass
  /\ IF at = Len(text) THEN at' = 1 /\ stage' = following
     ELSE at' = at + 1 /\ UNCHANGED stage

Fails(pass, outcome) ==
  stage = pass /\ stage' = outcome /\ UNCHANGED at

(* SymbolAnalysis moves through the scopes of functions and blocks.        *)
Walk ==
  m_scope' = CASE text[at].kind \in {"function", "open"} -> text[at].own
               [] text[at].kind \in Closers -> Parent(m_scope)
               [] OTHER -> m_scope

(* Mutant of Analyse: a reference is looked up in the scopes of the file   *)
(* and of the function only.                                               *)
AnalyseFromFunction ==
  /\ stage = "analyse"
  /\ IF text[at].kind \notin RefKinds
     THEN Visit("analyse", "declare") /\ Walk /\ UNCHANGED denotes
     ELSE LET d == Get(Parent(m_scope), text[at].name)
          IN /\ IF d = 0 THEN Fails("analyse", "unresolved") /\ UNCHANGED denotes
                ELSE IF text[d].kind = "type"
                     THEN Fails("analyse", "invalid") /\ UNCHANGED denotes
                     ELSE Visit("analyse", "declare") /\ denotes' = [denotes EXCEPT ![at] = d]
             /\ UNCHANGED m_scope
  /\ UNCHANGED <<text, scopes, declared, locals, slot>>

(* visit(RefExpr): the name must be known, and be a value's.               *)
Analyse ==
  /\ stage = "analyse"
  /\ IF text[at].kind \notin RefKinds
     THEN Visit("analyse", "declare") /\ Walk /\ UNCHANGED denotes
     ELSE LET d == Get(m_scope, text[at].name)
          IN /\ IF d = 0 THEN Fails("analyse", "unresolved") /\ UNCHANGED denotes
                ELSE IF text[d].kind = "type"
                     THEN Fails("analyse", "invalid") /\ UNCHANGED denotes
                     ELSE Visit("analyse", "declare") /\ denotes' = [denotes EXCEPT ![at] = d]
             /\ UNCHANGED m_scope
  /\ UNCHANGED <<text, scopes, declared, locals, slot>>

(* codegen_initial_definition: functions and globals share one table of    *)
(* the graph, struct types have another; each asserts that the name is new.*)
Declare ==
  /\ stage = "declare"
  /\ LET n == text[at].name
         space == IF text[at].kind = "type" THEN "type" ELSE "symbol"
     IN IF text[at].kind \notin FileKinds
        THEN Visit("declare", "lower") /\ UNCHANGED declared
        ELSE IF declared[space][n] # 0
        THEN Fails("declare", "aborted") /\ UNCHANGED declared
        ELSE /\ Visit("declare", "lower")
             /\ declared' = [declared EXCEPT ![space][n] = at]
  /\ UNCHANGED <<text, scopes, m_scope, denotes, locals, slot>>

-----------------------------------------------------------------------------
(* codegen_lowered_function makes a local of every parameter when there is *)
(* a body.  Two that are called "_" have one name there too, the empty one.*)
Params(f) ==
  {i \in (f + 1)..at : text[i].kind = "param" /\ FunctionOf(i) = f}

SameName(S) == \E i, k \in S : i # k /\ text[i].name = text[k].name

OpensBody == text[at].kind = "open" /\ Depth(text[at].own) = 3

LowerBody ==
  LET params == Params(FunctionOf(at))
  IN /\ stage = "lower" /\ OpensBody
     /\ IF SameName(params) THEN Fails("lower", "aborted") /\ UNCHANGED locals
        ELSE /\ Visit("lower", "done")
             /\ locals' = [n \in DOMAIN locals |->
                  IF \E i \in params : text[i].name = n
                  THEN CHOOSE i \in params : text[i].name = n ELSE 0]
     /\ UNCHANGED <<text, scopes, m_scope, denotes, declared, slot>>

(* Mutant of LowerLet: the first local of a name keeps it, as emplace would*)
(* do if nothing were asserted.                                            *)
LowerLetUnasserted ==
  LET n == text[at].name
  IN /\ stage = "lower" /\ text[at].kind = "let"
     /\ Visit("lower", "done")
     /\ locals' = [locals EXCEPT ![n] = IF @ = 0 THEN at ELSE @]
     /\ UNCHANGED <<text, scopes, m_scope, denotes, declared, slot>>

(* codegen_local_variable: add_local asserts that the name is new to the   *)
(* function.  The initializer is generated after that.                     *)
LowerLet ==
  LET n == text[at].name
  IN /\ stage = "lower" /\ text[at].kind = "let"
     /\ IF locals[n] # 0 THEN Fails("lower", "aborted") /\ UNCHANGED locals
        ELSE Visit("lower", "done") /\ locals' = [locals EXCEPT ![n] = at]
     /\ UNCHANGED <<text, scopes, m_scope, denotes, declared, slot>>

(* codegen_addressed_reference: by the kind of the definition, by name.  A *)
(* reference to a function is the callee of a call.                        *)
LowerRef ==
  LET n == text[at].name
      found == IF text[denotes[at]].kind \in LocalKinds
               THEN locals[n] ELSE declared["symbol"][n]
  IN /\ stage = "lower" /\ text[at].kind \in RefKinds
     /\ IF found = 0 THEN Fails("lower", "aborted") /\ UNCHANGED slot
        ELSE Visit("lower", "done") /\ slot' = [slot EXCEPT ![at] = found]
     /\ UNCHANGED <<text, scopes, m_scope, denotes, declared, locals>>

(* Everything else leaves the tables alone.                                *)
LowerOther ==
  /\ stage = "lower"
  /\ ~OpensBody /\ text[at].kind \notin RefKinds \union {"let"}
  /\ Visit("lower", "done")
  /\ UNCHANGED <<text, scopes, m_scope, denotes, declared, locals, slot>>

Parse ==
  \/ \E n \in Idents : \E kind \in {"global", "type"} : Define(kind, n)
  \/ \E n \in Idents : OpenFunction(n) \/ Let(n)
  \/ \E n \in Idents \union {Unnamed} : Param(n)
  \/ \E n \in Idents : \E kind \in RefKinds : Refer(n, kind)
  \/ OpenBlock \/ CloseBlock \/ CloseFunction

Lower == LowerBody \/ LowerLet \/ LowerRef \/ LowerOther

Next ==
  \/ Parse \/ FinishParse
  \/ \E n \in Idents : Load(n)
  \/ FinishLoad
  \/ Analyse \/ Declare \/ Lower

Spec == Init /\ [][Next]_vars

-----------------------------------------------------------------------------
References == {i \in DOMAIN text : text[i].kind \in RefKinds}

(* The definitions with the name of the reference r whose scope is around  *)
(* it: those of the file wherever they stand, the others where they come   *)
(* before it.  A variable is visible in its own initializer.               *)
Around(r) ==
  {d \in DOMAIN text :
     /\ text[d].kind \in FileKinds \union LocalKinds
     /\ text[d].name = text[r].name
     /\ \E k \in 1..Depth(text[r].scope) : scopes[text[r].scope].path[k] = text[d].scope
     /\ text[d].scope = 1 \/ d < r}

(* The one a reader takes it for: of the innermost scope, its first.       *)
Lexical(r) ==
  CHOOSE d \in Around(r) : \A e \in Around(r) :
    \/ Depth(text[e].scope) < Depth(text[d].scope)
    \/ text[e].scope = text[d].scope /\ d <= e

(* In a file that compiles, the symbol a reference is generated as, found  *)
(* by name alone, is that of the very definition the analysis set it to:   *)
(* of its own function, and of no other block of it.  It may be another's  *)
(* for a while, when a variable is used before it is defined and a block   *)
(* that is closed had one of its name: the definition aborts then.         *)
SlotsMatch == stage = "done" => \A r \in References : slot[r] = denotes[r]

(* In a file that compiles, a reference denotes the definition lexical     *)
(* scoping gives it, unless an earlier definition of the file has its name:*)
(* then Scope::add has refused the variable, and the reference goes to the *)
(* file's definition instead.                                              *)
LexicalOrLost ==
  stage = "done" =>
    \A r \in References :
      \/ denotes[r] = Lexical(r)
      \/ /\ text[Lexical(r)].kind \in LocalKinds
         /\ text[denotes[r]].scope = 1 /\ denotes[r] < Lexical(r)

(* What stops the compiler is in the file, not in an order of passes: a    *)
(* name with no definition around it, the name of a type, two variables of *)
(* one function or two symbols of the file with one name, or a variable    *)
(* that is used before it is defined.                                      *)
FailuresJustified ==
  /\ stage = "unresolved" => Around(at) = {}
  /\ stage = "invalid" => \E d \in Around(at) : text[d].kind = "type"
  /\ stage = "aborted" =>
       \/ SameName({i \in DOMAIN text : text[i].kind \in FileKinds \ {"type"}})
       \/ SameName({i \in DOMAIN text : text[i].kind = "type"})
       \/ \E f \in DOMAIN text :
            /\ text[f].kind = "function"
            /\ SameName({i \in DOMAIN text : i > f /\ text[i].kind \in LocalKinds
                                                   /\ FunctionOf(i) = f})
       \/ \E r \in References :
            \E d \in DOMAIN text : d > r /\ text[d].kind = "let" /\ text[d].name = text[r].name
                                   /\ FunctionOf(d) = FunctionOf(r)

(* The assertion of Function::add_local, for a variable the scopes have    *)
(* accepted: no local of the function has its name.                        *)
AcceptedLocalsNew ==
  (stage = "lower" /\ text[at].kind = "let"
     /\ scopes[text[at].scope].table[text[at].name] = at)
  => locals[text[at].name] = 0

=============================================================================
