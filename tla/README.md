# A TLA+ model of lace and LIR

lace compiles `.lace` files: `main()` (lace/source/lace.cpp) parses every input
file on a pool of threads, orders the files by what they load from each other,
resolves names, checks types, and hands each tree to a backend. The default
backend is the repository's own: LIR, a block-argument SSA graph
(lir/source/graph), lowered to x86-64 machine instructions
(lir/source/machine), given registers (linear scan, lir/source/machine/Register*)
and written as assembly.

## Components

| Component | State it keeps | Operations | What makes it correct |
|---|---|---|---|
| Worker pool (ThreadPool.hpp) | job queue, pending count, a mutex, two condition variables, stop tokens | push, wait, the worker loop, the destructor | every job runs once, in order; wait() returns when all are done and always does; no lost wake-up |
| Driver and logger (lace.cpp, Diagnostics.cpp) | input files and their trees, g_mutex, g_errors, the stage of main() | the stages, note/warn/error/fatal/flush | no stage sees a missing tree or goes on after an error; the process ends |
| Dependencies (lace.cpp) | file table, dependency table, DFS marks, ordering | compute_dependencies, resolve_dependencies | cycles and only cycles are refused, files are analysed after what they load, only public names cross |
| Lexer, parser | token cursor, scope cursor, tree | one token of lookahead with saved positions | a tree for every program of the grammar |
| Scopes and name/symbol/semantic analysis (lace/source/tree) | scope tree, deferred types, current function/loop | add, get, resolve, check | a name resolves to the innermost visible definition, no deferred type survives |
| LIR graph (lir/source/graph) | doubly linked lists of functions' blocks and blocks' instructions, use lists, uniqued types and constants | append, insert, remove, replace, add/remove use, get | lists are consistent in both directions, each use is listed once by its value |
| Control flow codegen (lace/source/codegen/LIRCodegenStmt.cpp, the && and \|\| of LIRCodegenOp.cpp) | insertion block, m_parent_cond, m_parent_merge, the blocks of the function | one codegen_* per statement and logical operator | every block ends in one terminator, every jump stays in the function, the blocks do what the statements mean |
| Expressions: parser (ParseExpr.cpp), types (Type.cpp), symbol and semantic analysis | token position; the types of nodes | one function per precedence level, one visitor per node | a tree groups as the precedences say and keeps every token; an accepted tree has all its types |
| LIR codegen of expressions, LIR builder, constants | insertion point, vars map, the pools of types and constants | one builder call per operation, folding | generated code does what the expression means; no accepted expression fails an assertion |
| Lowering and instruction selection (lir/source/machine/InstSelector.cpp) | machine blocks, virtual registers, stack slots | select per instruction | machine code computes what the graph does |
| Register allocation (RegisterAnalysis.cpp, RegisterAllocator.cpp) | live ranges, active set, register pool | linear scan, call-site spills | no two values that are live together share a register; a value survives calls |
| Layout (Machine.cpp, MachFunction.hpp) | - | get_size, get_align, get_field_offset, stack frames | fields and slots are aligned and disjoint |
| Assembly writer, printers | output stream | one line per instruction | text form only |
| LLVM backend (lace/source/codegen/LLVM*) | LLVM module | calls of the LLVM API | as for LIR, and a module that the verifier accepts |
| Runtime (std/) | arena of formatted strings | print, format, alloc | numbers print as they are, no pointer goes stale |

How they interact: main() is the pool's only client and its parse jobs write
one `InputFile` each; the workers and main() share the logger's mutex and error
flag; after wait() everything is sequential, and the stages communicate through
the trees, then the LIR graph, then the machine code of one file at a time.

The hard parts are: the two condition variables and the stop tokens of the pool;
fatal exits on any thread while the others run; the logger's mutex, which is
taken again while it is held; the order of files; the blocks an `if` may delete and the
insertion point that conditions move; lists whose ends are kept
twice (parent and links); live ranges over loops and calls; and boundary values
in layouts and number printing. PROJECT.json lists the hazards line by line.


## Modules

| Module | Models | Composed from |
|---|---|---|
| JobPool | what a pool promises its clients (abstract) | - |
| ThreadPool | the pool of ThreadPool.hpp | refines JobPool |
| Driver | main(), the parse jobs and the logger | EXTENDS ThreadPool |
| Dependencies | file table, load graph, search, name loading | - |
| InstSelector | machine instructions of one operation (operators only) | - |
| RegisterAllocation | live ranges, assignment, call-site spills | - |
| Backend | code generation of expressions, allocation, execution | EXTENDS InstSelector, RegisterAllocation |
| GraphLists | what the lists of a function promise those who edit them (abstract) | - |
| LIRGraph | linked lists, uses and destruction of a function's graph | refines GraphLists |
| TypeSystem, SyntaxTree | types with their casts; the nodes of expressions (operators only) | SyntaxTree EXTENDS TypeSystem |
| ExprParser | recursive descent over the tokens of an expression | EXTENDS SyntaxTree |
| ExprAnalysis | symbol and semantic analysis of expressions | EXTENDS SyntaxTree |
| IRCode, Layout, LIRBuilder | code that generators build; sizes and offsets; the graph's types, constants and builder | each EXTENDS the one before |
| LIRExprCodegen, LLVMExprCodegen | the two code generators of expressions | EXTENDS LIRBuilder, Layout |
| IRMachine, ExprMeaning | what generated code does; what an expression means (reference definitions) | EXTENDS Layout |
| Expressions | an expression from tokens to code | EXTENDS ExprParser, INSTANCEs the others |
| LIRCodegen | blocks and jumps of a function body | - |
| CodegenPaths | those blocks run beside the statements | EXTENDS LIRCodegen |
| LLVMStmtCodegen | blocks and jumps the LLVM backend gives a body (operators only) | - |
| BothCodegens | the blocks of the two backends compared | EXTENDS CodegenPaths, INSTANCEs LLVMStmtCodegen |
| Names | scopes, references, symbols and locals of a file | - |
| ThreadPoolProofs, BackendProofs, DependenciesProofs, LIRCodegenProofs, NamesProofs, LIRGraphProofs | theorems | EXTENDS the module of the name |
| DriverProofs | theorems | EXTENDS Driver, ThreadPoolProofs |
| ComputationProofs | the theorem that the machine computes what the graph says | EXTENDS BackendProofs |
| MC* | instances for TLC | EXTENDS the module they instantiate |

Definitions whose comment begins with "Mutant" are broken variants that nothing
uses: for each property, PROJECT.json names the variant with which that property
fails, so no property holds whatever the code does.

### ThreadPool and JobPool

A condition variable is the set of threads blocked on it. `m_cv` and `m_done`
hold the sleepers of `m_cv` and `m_done`; a notify takes members out, and a
thread that was taken out must lock `m_mutex` again and test its predicate
again. What happens under the mutex alone is one step. The stop flags are not
guarded: `request_stop()` sets them while a worker is anywhere, so a worker's
loop condition (`CheckStop`), predicate (`Enter`), going to sleep (`Sleep`),
second look (`Take`) and taking the job (`Pop`) are separate steps, with `mutex` held
between the last four. `push()` is `Push` under the mutex and `Notify` after it, `wait()` is
`CallWait` and `TestPending`, the destructor `Destroy`, one `RequestStop` per
worker, `NotifyStop`, `Dismantle` and `Join`: `m_threads` is the first member
(ThreadPool.hpp:21), so everything else is destroyed before the threads are joined. A worker
that has seen no stop request by then takes its job from a queue that is gone
(`PopFreed`, after which nothing is known of it); other uses of a destroyed member find
what was there before. Workers may wake spuriously. `pushed` and
`finished` are history for the refinement and the properties.

JobPool has no threads: a submitted job starts, in order, then finishes, and a
client's wait ends only when nothing submitted is unfinished. ThreadPool
implements it with `started = Len(pushed) - Len(m_jobs)`.

Clients outside the destructor may all push and wait at any time; nobody calls
in once a client destroys the pool, as C++ requires of every object.

### Driver

One client thread, `Main`. `main` is the stage; `phase[t]` is how far a thread is
with the file it parses, on a worker or inline with `-st`; `ast[f]` is the entry
of InputFile that the job fills in. The logger is `g_mutex`, whose value is the
thread that will never unlock it, and `g_errors`. A log call is one step because
only output happens under the lock, except where the code keeps the lock for good:
`fatal()` exits with it, `flush()` calls `fatal()` with it, and an excerpt of the
source is read with it. `Faults` selects what may go wrong: a bad argument (an
error, a fatal error, or an exception that nobody catches), a
file that cannot be opened, an unknown rune (an error), a parse error with a
location or with a span (fatal in two ways), a source that cannot be read again,
an error in an analysis, fatal or not, with a span or not. The machine may have any number
of threads in `Hardware`, where 0 is "not known". `std::exit` takes time: `status` is "exiting" while
other threads go on. The pool's actions occur in `Worker` and in main's stages
unchanged; main() never destroys it.

`CompilationEnds` says that the process exits in the end, or one of two things happened: a thread
has really locked `g_mutex` a second time (`BlocksItself`: in flush(), or for an excerpt
that cannot be read), or `-j` made a pool of no workers. An error that was only logged excuses nothing.

### Dependencies

Sequential. A file is what it loads, the deferred types it needs, and its list of definitions,
each with a name, whether it is public and whether it is a type. The parser drops the
answer of Scope::add, so a second definition of a name is in the list and in no scope (`Kept`),
while a file that loads this one gets both if they are public. `SetupFileTable` is `emplace` (first of two files with one path, in any
order), `ReadLoads` resolves the loads of one file, `VisitRoot`, `VisitDep` and
`Leave` are the recursive `dfs()` with its frames in `stack`, `Resolve` does one
file of `resolve_dependencies`: the names, where any two symbols of one name are a conflict
(`Conflict`), then the deferred types, each of which must be the name of a type
(`TypesResolve`). Every loop over
an `unordered_set` takes its elements in any order. The four failure stages are
the fatal errors.

### InstSelector, RegisterAllocation, Backend

`Select(kind, v, a)` gives the instructions for one operation of the graph as the
selector emits them, operands in order and with their kill flags, and `Term` what
the operation means. RegisterAllocation is `RegisterAnalysis::run`: `ScanOperand`
is one turn of `process_inst` (extend the open range of the register or begin one),
`KeepRegister`, `AssignRegister` and `AssignFails` one turn of the allocator,
`AssignEnds` the register table (a later range of a register overwrites an
earlier one), `PlaceSpills` the pushes and pops around calls. Backend generates any
expression whose operations are in `Selected` (operands left to right on `temps`,
each value used once, as the code generator walks a tree), with assignments and
`&&` and `||`; allocates; then executes the code on a processor whose registers hold terms,
following both ways of each JNE, and keeps the graph's value of each operation in
`env`. A physical register keeps what the last instruction left in it, a call
replaces all caller-saved ones with junk.

### LIRGraph and GraphLists

The pointers of the code are functions: `m_head` and `m_tail` of an owner (the function
for blocks, a block for instructions), `m_prev`, `m_next` and `m_parent` of a node. One
action is one public operation with all its stores. Templates of the two kinds of lists
are the same code twice in the source, so `PrependNode`, `AppendNode`, `InsertBefore`,
`InsertAfter` and `RemoveNode` are shared. A use `<<i, k>>` is the k-th operand of i, and
is in `m_uses` of its value. Clients keep to what the asserts and comments demand: a node
that is inserted is in no list. They insert anywhere, at index 0 too.

`insert_before` of the first node and `insert_after` of the last leave the ends of the list
behind (run graph_ends, MembersFound). What such a list does next is what the pointers say, like any
other; `Mark` only records it. The history variable `broken` has the owners whose list was inserted
into beyond an end, or took up a node from such a list (which may still be linked to its
old neighbours), and `astray` the nodes that are or were in one. LinkedBothWays and
the refinement except those lists and no others, and thereby say that what is done to one list
reaches no other.

Destruction is `DestroyFunction` (the globals of the graph go before the function, CFG.cpp:28),
then one `DestroyBlock` per block and one `DestroyInst` per instruction in the order of the
loops, then `DestroyConstants`; `stale` collects the uses that ask a value to forget them after it
is freed. `TeardownExact` states which these are (all but those of constants and of
values that come later), and that exactly what is attached is freed, where no list is broken.
To delete a node of two broken lists twice is undefined, and not followed.

GraphLists is a sequence of blocks and a sequence of instructions for each: put anywhere,
take out; a sequence may be lost, and nothing is promised of it after that. LIRGraph
implements it with `order` and `body` read along `m_next` and `lost` = `broken`.

### Expressions and its operators

`stage` goes from "tokens" by `Parse` to "parsed", by `Analyse` to "analysed", and by
`LowerLIR` or `LowerLLVM` to "lowered"; `tree` is a node or the failure that stopped
the program ("Fatal" for log::fatal, "Crash" for a null dereference). `unit` is the definition
or statement that the expression is the whole of: a global, a local, an expression
statement, a condition or a return, which use its value in different ways.
Everything in these steps is sequential and functional, so a parse function, a visitor or
a generator is an operator: `ParseX(ts, p)` gives the node and the next position, a
visitor gives the tree that it leaves, a generator maps a state of the
generation to a value and the next state. A failed assertion sets `aborted`.

The two generators build the code of IRCode, a sequence of instructions and
labels. The constants and array types of LIRBuilder come from the pools of the graph with their
keys, so that an equal key gives the older object. LLVM's IRBuilder is external: it folds
constants, and asserts the types of operands as LLVM does.

ExprMeaning says what an analysed tree means, by the types of its nodes, as C does
(README.md calls the language most similar to C; docs/lace has runes only), with
operands from left to right. IRMachine runs generated code on a memory of cells. LIRComputes and LLVMComputes
compare the two: value, memory and calls. They except the gaps in `LIRDiffers` and
`LLVMDiffers`, each a named operator on trees, listed under Findings; wherever an
expression has none of them, the code must be right.

### LIRCodegen and CodegenPaths

A function body is read in preorder, one token at a time, so every body the
grammar and the semantic analysis accept comes up, dead code included. A frame of
`frames` is a `codegen_*` call under way, with the blocks it has made and the
`m_parent_cond` and `m_parent_merge` it will put back; one action opens a statement
or an operator, one action continues it when an operand or a branch is done.
`blocks` are the instructions of each block made, `layout` the function's list of
blocks: a block that has been made is in no list until the code appends it, and the
merge block of an `if` may be dropped.

CodegenPaths runs the finished function twice: `pos` walks over the tokens by the
rules of the language, `block` and `inst` over the emitted blocks. Jumps and
statement moves are steps of one side; a leaf is evaluated by both at once with
either outcome.

LLVMStmtCodegen generates the same tokens the way of the LLVM backend, as operators, since
nothing is observed between its steps: `FillFunction` is a function with its statements, its
end and LLVM's verification of it. `BackendsAgree` compares the two when a function is finished. LIR asks everywhere
whether a block terminates; LLVM asserts it in `stop` and `restart`, asks `getTerminator`
(the last instruction only) elsewhere, and leaves the rest to the verifier. The property says
where the two differ, and that they do nowhere else:

- LLVM fails at statements that control cannot get to, at every one that has code (a `let` or
  an expression without `&&` and `||` may have none), and at a function that does not always return,
  unless a `let` with a `&&` is what keeps LIR's block open.
- It fails at a return that does not match the function: of a void call in a void
  function, which SemanticAnalysis.cpp:214-226 accepts, and of an i1 (a comparison, `&&`, `||`) in
  a function that returns a bool, which is an i8 (LLVMCodegenStmt.cpp:93-95).
- It never generates the initial value of a local (LLVMCodegenDefn.cpp:170-179), so its function has two
  blocks less for each `&&` and `||` in one.
- Every other function has the blocks of LIR, with a phi for each block argument.

What the tokens leave open is in `Kinds`: whether the function returns a bool, whether a leaf in a
block that has ended is an instruction (a constant is none), and whether a returned one compares.

### Names

One file through three passes. `text` is the tree in preorder, which the parser's
actions write token by token: `Define` a global or a struct, `OpenFunction`, `Param`,
`OpenBlock`, `Let`, `Refer` (a parameter "_" is in no scope, and its local in the graph is named
"", `Unnamed`), and the two closers, each with what it does to `scopes` and
the cursor `m_scope`. Two orders matter and are the code's: a function's name is added
after its body (ParseDefn.cpp:110), and references are looked up only when the whole
file is parsed and the loaded names are added (`Load`), so a variable is found that
comes later in its block. `Analyse` walks over the tokens with the cursor of
SymbolAnalysis; `Declare` and `Lower` are the two loops of LIRCodegen::run: symbols and
struct types in the graph's tables, then locals in the table of each function and
references found again by name. Each assertion that may fail ends in the stage
"aborted", as the fatal errors end in theirs.

`Lexical(r)` is the reference definition, computed from positions and scopes alone.
What the code does differs from it in two ways: a variable with the name of an earlier
definition of the file is refused by Scope::add, the parser drops the answer, and its references
go to the file's definition (the exception in LexicalOrLost); and a function has one table
of locals for all its blocks (names_locals).

## Runs

| Run | Instance | Shows |
|---|---|---|
| pool | 2 workers, 2 clients, 3 jobs, 1 spurious wake-up | the count is exact, no waiter is left without a waker, no job waits behind a busy worker while another sleeps; implements JobPool; pushed jobs run; wait() returns |
| driver_jobs | 3 files, up to 2 workers or inline, 0 to 2 hardware threads, every fault | no stage sees a missing tree, a fatal error holds main(), exit status 0 means no error, the compilation ends unless a thread locks the logger twice or `-j` leaves no worker |
| driver_flush | 2 files, unknown runes | **violated**: an error followed by flush() does not end the compiler |
| deps | every load graph of 4 files; repeated, respelled and missing files; 3 files with definitions of one name, public or not, types or not, one file with two | cycles and only cycles are refused, insertion follows the loads, the verdict is the one the files deserve in every order, and there is one |
| backend | 13 kinds of arithmetic with up to 6 values, and calls of up to 2 arguments, && and \|\| with up to 5; 4 registers | machine code computes the graph unless a call spills two values; registers disjoint; kills end ranges; the stack is empty but around calls; one range per virtual register |
| backend_swap | calls, 5 values | **violated**: two values spilled around a call come back exchanged |
| codegen_paths | every body of up to 4 statements and operators | emitted blocks and statements evaluate the same leaves and return alike; jumps, terminators, values, no silent loop; LLVM's blocks are the same less those of initializers, or it fails for a dead statement, a missing return or one of another type |
| names | 2 identifiers, up to 6 definitions, references and blocks, 1 loaded name | a reference is generated as the definition it was resolved to, the lexical one or a hiding global; failures have their cause in the file |
| names_locals | the same | **violated**: a variable the scopes accept is refused by its function |
| graph | 2 blocks (one with an argument), 3 instructions, a parameter, a constant, a global; insertions anywhere, 1 removal, 1 change of operands or up to 3 broken lists | links, ends and parents of every list agree and every edit is one of a sequence, but for the lists inserted into beyond an end; values and users agree on every use; destruction frees what is attached, and which uses outlive their value |
| graph_ends | as graph | **violated**: what is inserted before the first node is not found from the head |
| expressions | 9,153 units: 18 operands around every operator, every cast, 24 places assigned 16 values, chains of 3 operators of 13 kinds | trees read back; groups follow the precedences unless they rise; crashes only at an untyped base; LIR's and LLVM's code computes the expression outside the gaps |

### Bounds

- Pool: two workers are enough for a wake-up to go to the wrong one and for one
  worker to sleep while another is busy; three jobs fill the queue beyond the
  workers; two clients let one wait while another pushes. One spurious wake-up
  is enough to steal a notify.
- Driver: three files on at most two workers leave one in the queue when a worker dies.
  `MaxJ` = 3 exceeds both the machine and the files. `Hardware` = {0, 1, 2}: not known, no
  parallelism, and all the workers.
- Dependencies: a cycle of four files contains every shape of back edge the search
  tells apart (self, parent, ancestor) with a file outside; a name conflict needs
  three files (two that define, one that loads) or one that defines twice and one that
  loads, a stale table entry two entries for one file. Conflicts and resolution are by single
  names, so one name is enough.
- Backend: `MaxCode` is above what the values allow, so `Values` is the real
  bound; MCBackend lets a function be of arithmetic or of calls and branches. Six values give two operands that are alive across a division or a shift,
  the longest chain of clashes between fixed registers; four distinct registers make the pool
  run out. Five values let two be alive around a call with arguments.
- LIRCodegen: `MaxNodes` = 4 nests an `if` with a `stop` in a loop in a loop, and
  an `if`/`else` that terminates on both sides before dead code.
- Graph: three instructions have a first, a middle and a last, so every case of insertion and
  removal comes up, and two blocks let an operand cross from one to the other in either
  order of destruction. One removal followed by any number of insertions moves a
  node from anywhere to anywhere, out of a broken list and into one too; one change of operands
  makes each operand count and each value. `MaxBroken` = 3 is both blocks and the function,
  so it cuts nothing. A behaviour changes operands or breaks lists (`MCNext`): links and
  operands do not depend on each other until the destruction, where nothing is asked of
  broken lists but UsesExact, of the operands as they were created; the theorems have no
  such bound.
- Expressions: operands are of every class of type (both signs, three widths, bool, both
  floats, pointer, array, nested array, struct, enum, alias, function), variable and
  constant, and meet under every operator. Trees have up to four operators: a generator treats
  a node by the types of its children and whether they are constants, so depth matters to
  grouping, which the chains cover, and to evaluation order, which the calls that count in `g` cover.
  Integers of 1, 8, 16, 32 and 64 bits have 1, 8, 9, 10 and 12 bits in the model
  (`IRCode!Bits`): all different, so that every extension and truncation changes
  something, and TLC's own integers do not overflow. Floats are whole numbers of quarters.
- Names: six nodes are a function with two nested blocks, a variable in each and a
  reference, or a global, a parameter that it hides and a reference. Two identifiers
  make an equal and a different name; the formulas do not tell one identifier
  from the other, so they are symmetric.

### Fairness

Pool and driver: weak fairness of each worker's loop, of a client's pending notify,
of its test in wait(), and of main(): operating-system threads that can run do run,
and a mutex that is free again and again is taken in the end (what a client holds it
for is one step, so weak fairness is enough). Nothing obliges a client to push, a
fault to occur or a wake-up to be spurious. `ExitEnds` is fair: std::exit returns
from its handlers. Dependencies: one thread runs the stages, so weak fairness of
`Next`. The other modules have no liveness property: their steps are loops over finite
lists and trees.

## Findings

1. log::flush() calls fatal() with g_mutex held (Diagnostics.cpp:96): the compiler
   hangs after any error, where Diagnostics.hpp:64 says that it ends (driver_flush).
   `CompilationEnds` therefore excepts a thread that has locked `g_mutex` twice.
2. The pops after a call come in the order of the pushes (RegisterAnalysis.cpp:152):
   two spilled values are exchanged (backend_swap).
3. A function has one table of locals by name (Function.cpp:103): two blocks with a variable
   of one name, which the scopes accept, fail its assertion (names_locals).
4. insert_before of the first node and insert_after of the last, and so insertion at index 0
   (BasicBlock.hpp:158), leave `m_head` and `m_tail` behind (Instruction.cpp:27-51,
   BasicBlock.cpp:74-100), so the new node is not found from the head (graph_ends).

What the passing runs state as it is:

- The dependency order is kept in an unordered_set, so resolve_dependencies does not follow
  it as lace.cpp:89-92 says. The verdict does not depend on it: `VerdictExact` holds
  for every order.
- `-j` on a machine that does not tell its number of threads makes a pool without workers
  (lace.cpp:451), and wait() never returns: the second exception of `CompilationEnds`.
- The comments of Instruction.hpp:164-170 say that insert_before and insert_after fail for an
  attached instruction; nothing tests it, and clients are taken to keep to it.
- Destroying a graph visits the blocks from the front, so an ordinary use, whose value is
  defined before its user, asks a freed value to forget it (BasicBlock.cpp:37,
  Function.cpp:37): `TeardownExact`.
- LIR, in the order of `LIRDiffers`: a pointer to void is implicitly cast to anything; a bool
  is an i1 after a comparison and an i8 elsewhere, and mixing the two aborts; an enum or
  alias of a signed type is extended and divided as unsigned; constants fold in 64
  bits without wrapping, and `>>` of two folds to `|`; a cast of an array to a pointer
  and `[n][n]` arrays do not work; a dynamic index of less than 64 bits is not
  extended; comparing values of an enum or alias aborts, as do `|` and `^`
  (LIRCodegen.hpp:108-109) and `%` of floats; constants of one width and different signs share a
  pool; the result of a comparison is stored or returned as it is where a wider value is declared.
- LLVM, in the order of `LLVMDiffers`: the initial value of a local is never stored; a
  comparison that is passed or returned fails the verifier; `!` does not negate
  (LLVMCodegenOp.cpp:285-300); a cast takes the sign of its destination, so true becomes -1;
  pointers step by 8 whatever they point to; an unsigned index is sign-extended; the same
  enums and aliases, arrays, void pointers and bools as in LIR; a float becomes an integer as if that
  were signed, whatever it is (LLVMCodegenValued.cpp:239-241), so one that does not fit the signed
  type is poison; `sizeof` of a struct with a
  64-bit integer is asked before the layout of the machine is set.
- The LLVM backend aborts or rejects a function with a statement after one that never
  completes, and one that returns a void call or, from a bool function, an i1, all of which LIR
  compiles; it asks for a return where LIR warns, and drops initial values (`BackendsAgree`).
- After a tighter operator the right operand goes on at the level of the call under way
  (ParseExpr.cpp:261), so `a - b * c - d` is `a - (b * c - d)`, against the table of
  precedences (ParseExpr.cpp:79-114), where `*` is 11 and `-` is 10. `GroupedUnlessRising` states
  exactly which chains are grouped wrongly.
- A public name that a file defines twice is accepted there and fatal in the files that load it
  (lace.cpp:154-166): `VerdictExact` counts it as their conflict.
- The parser takes a comma after the last argument of a call, and the analysis accepts operators on
  operands that no backend has them for (`ReadsBack`; the meaning of such a tree is undefined, and
  nothing is asked of its code).

## Proofs

Each theorem holds for every value of the constants that satisfies the module's
named assumption: PoolAssumption (finite, disjoint sets of workers and clients),
DriverAssumption (input files are distinct jobs, main() is the only client),
RegistersAssumption and BackendAssumption (the pool and the argument registers
are physical registers, which are not virtual ones; RAX is neither RCX nor RDX and carries
no argument, and no two arguments share a register; the pool of RegisterAllocator.cpp:46 is
within what Machine.cpp:123 calls caller-saved; each value of the graph gets a virtual
register of its own, InstSelector.cpp:279), and what Dependencies, LIRCodegen
and Names assume of theirs (that "no tree" is no tree, bounds that are natural numbers, the empty
name not an identifier), and GraphAssumption (finite sets of blocks and instructions, which differ from each
other, from the function, from the null pointer and from arguments, locals and constants; an
instruction is created with operands that are values or null). A bound such as `MaxNodes` is a constant like any other, so a theorem of
LIRCodegen or Names is about bodies and files of every length. TLC has checked each
inductive invariant below as an invariant of the run of its module, except those of
ComputesWithoutSwap that say that there are types for the code (SelectionInv, CompleteInv,
RunInv): of those it checks the property they end in.

**ThreadPoolProofs**, of PoolSpec:

- `ControlCorrect`: ControlInv, the types and the control points. TypeOK and
  PendingExact are not inductive by themselves: that Take finds a job needs "a worker
  in the critical section holds the mutex, and has seen a queue that is still
  non-empty", and that a worker can sleep needs "the queue was empty".
- `PendingExactCorrect`, then `TypeCorrect` (m_pending is a natural number only because
  it is exact), then `WaiterHasWakerCorrect`.
- `WorkConservingCorrect`: by cases of what each step does to the workers that are
  coming, the clients that will notify and the queue.
- `QueueCorrect`: QueueInv relates the queue, the workers' jobs and the history: the
  queue is the rest of `pushed`, no job is pushed twice, and a taken job is finished
  or in the hands of exactly one worker.
- `PoolImplementsJobPool`: each step maps to a step of JobPool or a stutter. EndWait
  needs DrainedMeansFinished, from PendingExact and QueueInv.

**BackendProofs**, of Backend's Spec, so for all code the selector emits:

- `AllocTypeCorrect`: AllocTypeOK with the types of the code and of the selector's
  state, from one lemma per selection on the operands it emits.
- `AllocDisjointCorrect`: no register is in two overlapping ranges. For virtual ranges
  this is the availability test; for two ranges of one physical register, nobody
  tests anything, and it holds because the scan begins a range only after the one
  before was killed (`Split`). AllocInv is Split, AllocDisjoint and what it takes that
  ranges only grow at the position of the scan.
- `OneRangeEachCorrect`: the selector kills physical registers only, so a virtual
  register has one range and its table entry is never overwritten.
- `KillsSplitCorrect`: when an instruction kills a physical register, no range of it
  reaches further. KillInv says which operands the scan has seen, and that a killed
  register has no open range left among them (`Spares`).
- `StackBalancedCorrect`: the stack is empty wherever the machine is but at a call and the spills
  around it, and no pop finds it empty; which value a pop brings back is not part of it (it is of
  ComputesWithoutSwap). The property speaks of the execution; the invariant has to speak of the
  code. CodeInv keeps, while blocks are selected, that a jump goes to a block that has
  instructions or is still awaited. StackInv gives each place of the final code a depth, and the
  stack of the execution has the depth of the place it is at: 0 at all instructions but pushes,
  calls and pops, and where a block begins. The pushes and pops around one call end at the depth they began at
  (`SurroundIs`), and such groups can be put together (`DepthsJoin`), which is all the
  lowered code consists of (`PlaceDepths`).
- `JumpsLandCorrect`: from the same invariant, every jump of a finished function has a block with
  instructions to go to.

**ComputationProofs**, of Backend's Spec: `ComputesWithoutSwapCorrect`, that in the lowered
code of every function the operands of an operation, the arguments of a call and what is
returned are the values the graph names, unless a call spills two registers or more
(`SwapAtCall`; then it is false, and run backend_swap shows the counterexample). It is in four
parts, of which the second and third end BackendProofs:

- Selected code is typed. A fact is that a register holds a value, or part of an operation on
  the way to one, or that the flags hold a comparison. `Follow` says which facts an instruction
  needs and leaves: one is carried on only if its register is open (used before, and not killed)
  and not written, and a jump has the facts its block begins with. `SelectionInv` says that
  the function under construction leaves the values of its stack (`Leaves`), that the
  block each && and || waits for gets what was below, with its argument (`Waits`), and that names
  and blocks are fresh. There is one lemma per kind of operation on the
  instructions it emits; they end in `CompleteInv`, that the whole code is `Typed`.
- The ranges are apart. `ScanInv` and `AssignInv` relate the table of ranges to the code: a
  register that carries a fact across an instruction is in a range that reaches across it. With
  AllocDisjoint, two that carry facts there have different physical registers (`CarriedApart`),
  so to write one leaves the other alone.
- Code stays typed when registers are named and spills placed (`PlaceReal`: `Typed` to
  `RealTyped`). Around a call the caller-saved registers in use are pushed and popped; one alone
  comes back where it was.
- Typed code executes as the graph does. `RunInv`: what the registers and the flags hold fits the facts
  of the place the machine is at (`Fits`), step by step (`ExecuteReal`).

**DriverProofs**, of DriverSpec. A step of the driver is a step of the pool or leaves it
alone, so the invariants of ThreadPoolProofs are carried over, with no worker spawned
(`-st`) as with many:

- `StagesCorrect`: StageInv ties main()'s stage to the pool and the trees. TreesReady is
  not inductive: that each tree is there after wait() takes that a finished job has
  left its tree, that a worker in a file has that file as its job, and that everything
  was pushed; and that nothing is pending outside "push" and "wait".
- `TreesReadyCorrect`, `FatalHoldsMainCorrect` (a thread that died in a job is still counted by
  m_pending, by PendingExact, so wait() does not return), `SuccessMeansCleanCorrect`,
  and `DriverImplementsJobPool`, the refinement with the driver as the client.

**DependenciesProofs**, of Dependencies' Spec, for any number of files:

- `DependenciesCorrect`: the stack is a path of the load graph whose calls have seen all
  loads but those left to them (`PathOf`), and the visited files are closed under loads
  and hold no `Knot`. A cycle is stated as a knot (a set in which every file is loaded by
  one of it), so that neither direction of exactness needs an induction.
- `InsertedInOrderCorrect`, `CycleExactCorrect`, and `VerdictExactCorrect`, which needs that the
  symbols a file gets are the public ones of the files it loads, in every order of the table, and
  that without a conflict a name has one of them, so that a scope does not depend on the order.

**LIRCodegenProofs**, of LIRCodegen's Spec, for bodies of any size:

- `FlowCorrect`: a block that exists is in the layout, or it is owed by one call under
  way, which will place it, or it is an unused merge block. JumpsPlaced says something of finished
  functions only, and so needs at every step that a jump goes to a placed block or
  to one that is owed.
- `CodegenTypeCorrect`, `JumpsPlacedCorrect`, `BlocksTerminateCorrect`, and `ParentsCorrect`:
  what codegen_until saves and restores is at every point the innermost loop's.

**NamesProofs**, of Names' Spec, for files of any length:

- `NamesCorrect`: NamesInv has three parts. TreeInv: the scopes are a tree and every
  token stands in one. ParseInv: the tokens follow the cursor (FlowOK), each token inside a
  function is held by one function (FunctionsOK), and what the tables hold is the first
  definition of the file with that name, or what was visible from there (TablesOK). PassInv: what
  each pass has set for the tokens that it has visited; it is in terms of the tables of the
  pass, since SlotsMatch itself is not kept: while a function is being generated, a
  reference may have got a variable with the name of a later one, and it is the
  assertion on that later one that ends the file (`Taken`).
- `SlotsMatchCorrect`, `FailuresJustifiedCorrect`, and `LexicalOrLostCorrect`, which compares the
  entries on the path of a scope with the positions that `Lexical` goes by.

A scope or a position is found as the last with some property. The library's
induction takes an operator as a parameter, but that `<` is well-founded on Nat is a
theorem about sets: `Least` draws from it (here, in LIRGraphProofs and in BackendProofs) that a set of numbers has a least element, and a
bounded one a greatest, which is all the induction these proofs need.

**LIRGraphProofs**, of LIRGraph's Spec, for all clients, those that insert at the ends of lists
too:

- `BuildCorrect`: BuildInv is that every owner that is not broken has a list L which `Spells` what all
  pointers say: the ends are L's ends, the links of L[k] are L[k - 1] and L[k + 1], the parent is the
  owner for the members of L and for nobody else; and what is loose and not astray has no
  neighbours. LinkedBothWays is not inductive: it is about what can be walked to from the ends,
  and an edit goes by the links of one node, loose ones too. Nor can it be kept for the other lists
  without saying where a broken one may reach: `Shut` has that the links of an astray node
  and the ends of a broken list stay among the astray, and that a node in a
  broken list is astray, and `Kinds` that blocks are linked to blocks and instructions to instructions.
  Each list operation is then shown to do one of three things: `Puts` one node between two
  neighbours of an L (`Linked`), `Takes` one out (`Unlinked`), or `Spoils` broken lists only.
- `LinkedBothWaysCorrect`: Chain along links that follow L is L, and backwards its reversal.
- `GraphImplementsLists`: an edit maps to PutBlock, TakeBlock, PutInst or TakeInst at the place it has
  in L, or to LoseBlocks or LoseInsts, the start of the destruction to Clear, and everything else
  to a stutter.
- `UsesExactCorrect`: UsesInv states UsesExact by pairs of an instruction and an index, and that the
  loop of the destructor is at a block, so that what it frees there is no user. A set that
  the code takes out of a list with `del_use` is taken out by `Without`, of which
  `WithoutIs` says that it keeps the rest, once each.
- `TeardownExactCorrect`: TearInv says where the destructors are: at the k-th instruction of the n-th
  block of the layout (`Torn`), with the lists of the instructions as they were when it began and
  the blocks from there on still linked; what is freed are the parts of the first n blocks and their
  instructions up to there, so that at every use DeletedBefore of its user is what is freed. The
  order of the loops (a block is taken off the list, then its instructions) is what
  this rests on.

Only model-checked: liveness (JobsFinish, WaitReturns, CompilationEnds,
VerdictReached), which is out of the prover's reach; the properties of Expressions, whose
parser, analysis and generators are RECURSIVE operators, which is out of it too, and
BackendsAgree, which rests on such operators; and what CodegenPaths says of the two runs
of a function, which takes a measure that falls from block to block.

## Not modelled

PROJECT.json has the reason for each component. Wholly left out: the lexer (one position
over characters), the printers and the assembly writer (text without state; the assembly
they print is the code Backend executes), the SSA rewrite pass (not built: its interface
is gone from the graph), file helpers, and the runtime in std/ (freestanding C that is linked
to compiled programs and never calls the compiler; its two hazards are boundary values in
number printing and the reuse of its arena, both functions of one input).

Within the modelled ones: the contents of jobs, messages and excerpts; in machine code,
floats and the second register class, immediates, operand sizes and subregisters, casts,
stack slots, and branches of statements (Backend's blocks come from && and ||; loops are in
LIRCodegen); m_active, which nothing reads; runes, and the text of strings; the
definitions of the LLVM backend (its map of slots, LLVMCodegenDefn.cpp:177, keeps the first of
two variables of one name, where LIR's table asserts); constants of aggregates,
which nothing builds; stack frames.

## Plan

Done, in this order: JobPool and ThreadPool, Driver, Dependencies, RegisterAllocation
with InstSelector and Backend, LIRCodegen with CodegenPaths, Names, Expressions with its
operators, LLVMStmtCodegen with BothCodegens, LIRGraph with GraphLists.

Next theorems: what CodegenPaths says.
