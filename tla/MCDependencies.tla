--------------------------- MODULE MCDependencies ---------------------------
(* A small instance of Dependencies for TLC: four files, one name.         *)
EXTENDS Dependencies, FiniteSets, TLC

CONSTANTS a1, a2, a3, a4

Bare(loads) == [loads |-> loads, defns |-> <<>>, needs |-> {}]

(* One definition, by its rune and kind.                                   *)
Singly(public, type) ==
  {<<d>> : d \in [name : Names, public : public, type : type]}

(* One file per path, listed by its canonical name.                        *)
Plain(files) == InputInit({[a \in Asts |-> a]}, {[a \in Asts |-> TRUE]}, files)

(* Every graph of four files, up to the names of the files: the files are  *)
(* named in the order of how much they load.                               *)
GraphInit ==
  Plain({f \in [Paths -> {Bare(loads) : loads \in SUBSET Paths}] :
           LET n(a) == Cardinality(f[a].loads)
           IN  n(a1) >= n(a2) /\ n(a2) >= n(a3) /\ n(a3) >= n(a4)})

(* Command lines that list a file twice, under another name or not at all: *)
(* what nothing lists is a3.  The name, if there is one, is public and      *)
(* nobody needs it: that is for the next case.                              *)
Repeated(listed) == {f \in [Asts -> listed] : f[a3] = f[a2] /\ f[a4] = f[a1]}

TableInit ==
  InputInit(Repeated({a1, a2}), Repeated(BOOLEAN),
            {(a1 :> c) @@ (a2 :> d) @@ (a3 :> Bare({})) @@ (a4 :> Bare({})) :
               c, d \in [loads : SUBSET {a1, a2, a3}, defns : {<<>>} \union Singly({TRUE}, {TRUE}),
                          needs : {{}}]})

(* Three files of which a1 may load a2 and a3, and a2 may load a3: every   *)
(* graph without a cycle, up to the names of the files.  Nothing loads a1, *)
(* so that its runes do not matter; a3 may define a name twice, the second *)
(* time with the rune (without it that definition is never seen).          *)
Files(loads, definitions, needs) ==
  [loads : SUBSET loads, defns : {<<>>} \union definitions, needs : needs]

Twice == {e \o f : e \in Singly(BOOLEAN, BOOLEAN), f \in Singly({TRUE}, BOOLEAN)}

NamesInit ==
  Plain({(a1 :> c1) @@ (a2 :> c2) @@ (a3 :> c3) @@ (a4 :> Bare({})) :
           c1 \in Files({a2, a3}, Singly({FALSE}, BOOLEAN), SUBSET Names),
           c2 \in Files({a3}, Singly(BOOLEAN, BOOLEAN), SUBSET Names),
           c3 \in Files({}, Singly(BOOLEAN, BOOLEAN) \union Twice, {{}})})

MCSpec == (GraphInit \/ TableInit \/ NamesInit) /\ [][Next]_vars /\ WF_vars(Next)
=============================================================================
