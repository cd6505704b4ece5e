------------------------------- MODULE Driver -------------------------------
(***************************************************************************)
(* The stages of the compiler as main() in lace.cpp runs them: read the    *)
(* arguments, parse every input file on the worker pool (or inline, with   *)
(* -st), then analyse, check and generate code, with a log::flush() between*)
(* the stages.  The pool is ThreadPool, whose actions occur here unchanged;*)
(* the logger of Diagnostics.cpp is its mutex g_mutex and its flag         *)
(* g_errors.                                                               *)
(*                                                                         *)
(* A call of the logger is one step, because nothing happens under g_mutex *)
(* but the output, with three exceptions that keep the mutex for good:     *)
(* fatal() exits while it holds it; flush() calls fatal() while it holds   *)
(* it; and an excerpt of the source is read under it by read_file(), which *)
(* calls fatal() when the file can no longer be read.  A std::mutex locked *)
(* again by its owner blocks here, as it does in the build.                *)
(*                                                                         *)
(* std::exit() takes a while, and the other threads run on until it ends.  *)
(***************************************************************************)
EXTENDS ThreadPool

CONSTANTS Main,      \* the thread of main(), the pool's only client
          Files,     \* the input files, in the order of the command line
          Hardware,  \* what hardware_concurrency() may return
          MaxJ,      \* the largest -j considered; 0 stands for no -j
          Faults     \* what may go wrong, see the uses below

ASSUME DriverAssumption ==
  /\ Clients = {Main}
  /\ Files \in Seq(Jobs)
  /\ Jobs = {Files[i] : i \in 1..Len(Files)}
  /\ \A i, k \in 1..Len(Files) : Files[i] = Files[k] => i = k
  /\ Hardware \subseteq Nat /\ MaxJ \in Nat

VARIABLES
  jflag,        \* the number given with -j
  multithread,  \* options.multithread
  main,         \* the stage main() is in
  next,         \* index of the next file to push, or to parse inline
  phase,        \* how far each thread is with the file it parses
  ast,          \* ast[f]: the tree main() can read from InputFile f
  g_mutex,      \* the thread that will never release the logger, or None
  g_errors,     \* an error was logged
  status        \* of the process

driverVars ==
  <<jflag, multithread, main, next, phase, ast, g_mutex, g_errors, status>>

vars == <<poolVars, driverVars>>

Threads == Workers \union {Main}

Analysing == {"analyse", "check", "backend"}

-----------------------------------------------------------------------------
(* The number of workers for -j and the machine's own count.               *)
ThreadCount(hardware, j) ==
  LET smaller(a, b) == IF a < b THEN a ELSE b
      threads == IF j = 0 THEN 1 ELSE j
      wanted == IF threads = 1 THEN (IF hardware = 0 THEN 1 ELSE hardware)
                ELSE smaller(threads, hardware)
  IN  smaller(wanted, Len(Files))

(* The pool is built when the arguments are known; its threads find no job *)
(* before that, so they are there from the start.                          *)
DriverInit ==
  /\ jflag \in 0..MaxJ
  /\ multithread \in BOOLEAN
  /\ \E hardware \in Hardware, spawned \in SUBSET Workers :
       /\ Cardinality(spawned) =
            IF multithread THEN ThreadCount(hardware, jflag) ELSE 0
       /\ InitWith(spawned)
  /\ main = "args"
  /\ next = 1
  /\ phase = [t \in Threads |-> "idle"]
  /\ ast = [f \in Jobs |-> "null"]
  /\ g_mutex = None
  /\ g_errors = FALSE
  /\ status = "running"

-----------------------------------------------------------------------------
(* log::note, log::warn, and the start of every other call.                *)
CanLog == g_mutex = None /\ UNCHANGED status

(* log::error.                                                             *)
LogError == CanLog /\ g_errors' = TRUE /\ UNCHANGED g_mutex

(* log::fatal with a message or a location: exits with the mutex held.     *)
LogFatal(t) ==
  /\ g_mutex = None
  /\ g_mutex' = t
  /\ status' = "exiting"
  /\ UNCHANGED g_errors

(* log::flush, with what main() does when it returns.  fatal() needs the   *)
(* mutex that flush() holds: with an error logged, nobody gets on.         *)
Flush(to) ==
  /\ CanLog
  /\ IF g_errors THEN g_mutex' = Main /\ main' = "stuck"
     ELSE main' = to /\ UNCHANGED g_mutex
  /\ UNCHANGED <<g_errors, jflag, multithread, next, phase, ast, poolVars>>

-----------------------------------------------------------------------------
(* The file a thread is to parse: workers take theirs from the queue.      *)
Parses(t, f) ==
  \/ t \in Workers /\ pc[t] = "run" /\ job[t] = f
  \/ /\ t = Main /\ main = "inline" /\ next <= Len(Files)
     /\ f = Files[next]

Goto(t, from, to) ==
  /\ phase[t] = from
  /\ phase' = [phase EXCEPT ![t] = to]
  /\ UNCHANGED <<jflag, multithread, main, next, poolVars>>

BeginNote(t) ==
  /\ Goto(t, "idle", "open")
  /\ CanLog
  /\ UNCHANGED <<ast, g_mutex, g_errors>>

(* read_file: opening or reading may fail, which is fatal.                 *)
ReadFile(t) ==
  \/ Goto(t, "open", "parse") /\ UNCHANGED <<ast, g_mutex, g_errors, status>>
  \/ "open" \in Faults /\ Goto(t, "open", "exit") /\ LogFatal(t) /\ UNCHANGED ast

(* print_source: the file cannot be read again for the excerpt of an error *)
(* with a span, and the fatal() for that waits for the mutex error() holds.*)
ExcerptFails(t) ==
  /\ "source" \in Faults
  /\ Goto(t, "parse", "stuck")
  /\ CanLog
  /\ g_mutex' = t
  /\ UNCHANGED <<ast, g_errors>>

(* Parser::parse: an unknown rune is an error it goes on from; everything  *)
(* else is fatal.  With a location, fatal() exits at once; with a span it  *)
(* logs an error, which releases the mutex, and then exits.                *)
Parse(t, f) ==
  \/ /\ Goto(t, "parse", "parsed")
     /\ ast' = [ast EXCEPT ![f] = "tree"]
     /\ UNCHANGED <<g_mutex, g_errors, status>>
  \/ "rune" \in Faults /\ Goto(t, "parse", "parse") /\ LogError /\ UNCHANGED ast
  \/ "location" \in Faults /\ Goto(t, "parse", "exit") /\ LogFatal(t) /\ UNCHANGED ast
  \/ "span" \in Faults /\ Goto(t, "parse", "fatal") /\ LogError /\ UNCHANGED ast
  \/ ExcerptFails(t)

(* std::exit after fatal() with a span, without the mutex.                 *)
ExitAfterSpan(t) ==
  /\ Goto(t, "fatal", "exit")
  /\ status' = "exiting"
  /\ UNCHANGED <<ast, g_mutex, g_errors>>

FinishNote(t) ==
  /\ Goto(t, "parsed", "returned")
  /\ CanLog
  /\ UNCHANGED <<ast, g_mutex, g_errors>>

JobStep(t) ==
  \E f \in Jobs :
    /\ Parses(t, f)
    /\ BeginNote(t) \/ ReadFile(t) \/ Parse(t, f) \/ ExitAfterSpan(t) \/ FinishNote(t)

-----------------------------------------------------------------------------
(* Mutant of Return: a job that called fatal() counts as returned.         *)
ReturnDespiteFatal(w) ==
  /\ phase[w] \in {"returned", "fatal", "exit"}
  /\ RunJob(w)
  /\ phase' = [phase EXCEPT ![w] = IF @ = "returned" THEN "idle" ELSE @]
  /\ UNCHANGED <<jflag, multithread, main, next, ast, g_mutex, g_errors, status>>

(* The pool's job() returns when the lambda is through.                    *)
Return(w) ==
  /\ phase[w] = "returned"
  /\ RunJob(w)
  /\ phase' = [phase EXCEPT ![w] = "idle"]
  /\ UNCHANGED <<jflag, multithread, main, next, ast, g_mutex, g_errors, status>>

(* Everything else a worker does is the pool's own business.               *)
PoolStep(w) ==
  /\ CheckStop(w) \/ Enter(w) \/ Sleep(w) \/ Take(w) \/ Pop(w) \/ Report(w)
  /\ UNCHANGED driverVars

Worker(w) == JobStep(w) \/ Return(w) \/ PoolStep(w)

-----------------------------------------------------------------------------
(* main(): an argument that is not a source file is an error.              *)
ArgError ==
  /\ main = "args"
  /\ "args" \in Faults
  /\ LogError
  /\ UNCHANGED <<jflag, multithread, main, next, phase, ast, poolVars>>

(* A flag without its value, a thread count that is not positive, no input *)
(* files: fatal before there is a pool.                                    *)
ArgFatal ==
  /\ main = "args"
  /\ "args" \in Faults
  /\ LogFatal(Main)
  /\ main' = "exit"
  /\ UNCHANGED <<jflag, multithread, next, phase, ast, poolVars>>

(* std::stoi throws for a thread count that is no number, substr for an    *)
(* argument of four characters, and nobody catches it.                     *)
ArgThrows ==
  /\ main = "args"
  /\ "args" \in Faults
  /\ main' = "exit"
  /\ status' = "failed"
  /\ UNCHANGED <<jflag, multithread, next, phase, ast, g_mutex, g_errors, poolVars>>

FlushArgs == main = "args" /\ Flush(IF multithread THEN "push" ELSE "inline")

PushFile ==
  /\ main = "push"
  /\ next <= Len(Files)
  /\ Push(Main, Files[next])
  /\ next' = next + 1
  /\ UNCHANGED <<jflag, multithread, main, phase, ast, g_mutex, g_errors, status>>

NotifyWorker == Notify(Main) /\ UNCHANGED driverVars

(* Mutant of WaitForPool: goes on when the last file is pushed.            *)
SkipWait ==
  /\ main = "push"
  /\ next > Len(Files)
  /\ pc[Main] = "ready"
  /\ main' = "wait"
  /\ UNCHANGED <<jflag, multithread, next, phase, ast, g_mutex, g_errors, status,
                 poolVars>>

WaitForPool ==
  /\ main = "push"
  /\ next > Len(Files)
  /\ CallWait(Main)
  /\ main' = "wait"
  /\ UNCHANGED <<jflag, multithread, next, phase, ast, g_mutex, g_errors, status>>

TestWait == TestPending(Main) /\ UNCHANGED driverVars

FlushWait == main = "wait" /\ pc[Main] = "ready" /\ Flush("analyse")

(* With -st, main() parses the files itself, one after the other.          *)
NextInline ==
  /\ main = "inline"
  /\ phase[Main] = "returned"
  /\ next' = next + 1
  /\ phase' = [phase EXCEPT ![Main] = "idle"]
  /\ UNCHANGED <<jflag, multithread, main, ast, g_mutex, g_errors, status, poolVars>>

FlushInline == main = "inline" /\ next > Len(Files) /\ Flush("analyse")

(* Dependencies, names, symbols, types: errors and fatal errors.           *)
AnalysisError ==
  /\ main \in {"analyse", "check"}
  /\ "analysis" \in Faults
  /\ LogError
  /\ UNCHANGED <<jflag, multithread, main, next, phase, ast, poolVars>>

(* The generators have fatal errors too, and a warning.  The excerpt for   *)
(* what has a span may fail, as in a parsing thread.                       *)
AnalysisExcerptFails ==
  /\ main \in Analysing
  /\ {"analysis", "source"} \subseteq Faults
  /\ CanLog
  /\ g_mutex' = Main
  /\ main' = "stuck"
  /\ UNCHANGED <<jflag, multithread, next, phase, ast, g_errors, poolVars>>

(* With a message or a location, fatal() exits at once ...                 *)
AnalysisFatal ==
  /\ main \in Analysing
  /\ "analysis" \in Faults
  /\ LogFatal(Main)
  /\ main' = "exit"
  /\ UNCHANGED <<jflag, multithread, next, phase, ast, poolVars>>

(* ... and with a span it logs an error first.                             *)
AnalysisSpanFatal ==
  /\ main \in Analysing
  /\ "analysis" \in Faults
  /\ LogError
  /\ main' = "fatal"
  /\ UNCHANGED <<jflag, multithread, next, phase, ast, poolVars>>

MainExits ==
  /\ main = "fatal"
  /\ main' = "exit"
  /\ status' = "exiting"
  /\ UNCHANGED <<jflag, multithread, next, phase, ast, g_mutex, g_errors, poolVars>>

FlushAnalyse == main = "analyse" /\ Flush("check")

(* Mutant of FlushCheck: the backend starts on whatever was found.         *)
SkipFlushCheck ==
  /\ main = "check"
  /\ main' = "backend"
  /\ UNCHANGED <<jflag, multithread, next, phase, ast, g_mutex, g_errors, status,
                 poolVars>>

FlushCheck == main = "check" /\ Flush("backend")

(* main() returns 0; the pool is never destroyed.                          *)
ReturnZero ==
  /\ main = "backend"
  /\ main' = "done"
  /\ status' = "succeeded"
  /\ UNCHANGED <<jflag, multithread, next, phase, ast, g_mutex, g_errors, poolVars>>

MainStep ==
  \/ ArgError \/ ArgFatal \/ ArgThrows \/ FlushArgs
  \/ PushFile \/ NotifyWorker \/ WaitForPool \/ TestWait \/ FlushWait
  \/ JobStep(Main) \/ NextInline \/ FlushInline
  \/ AnalysisError \/ AnalysisExcerptFails \/ AnalysisFatal \/ AnalysisSpanFatal
  \/ MainExits \/ FlushAnalyse \/ FlushCheck \/ ReturnZero

(* std::exit(1) ends.                                                      *)
ExitEnds ==
  /\ status = "exiting"
  /\ status' = "failed"
  /\ UNCHANGED <<jflag, multithread, main, next, phase, ast, g_mutex, g_errors,
                 poolVars>>

Alive == status \in {"running", "exiting"}

DriverNext ==
  /\ Alive
  /\ \/ \E w \in Workers : Worker(w)
     \/ \E w \in Workers : SpuriousWake(w) /\ UNCHANGED driverVars
     \/ MainStep
     \/ ExitEnds

DriverSpec == DriverInit /\ [][DriverNext]_vars

(* Threads are scheduled, and exit() ends.                                 *)
DriverFairness ==
  /\ \A w \in Workers : WF_vars(Alive /\ Worker(w))
  /\ WF_vars(Alive /\ MainStep)
  /\ WF_vars(ExitEnds)

FairDriverSpec == DriverSpec /\ DriverFairness

-----------------------------------------------------------------------------
(* main() reads the InputFile entries without a lock.  When it does, every *)
(* one of them has its tree and no worker is inside a job any more: wait() *)
(* orders the workers' writes before the analyses.                         *)
TreesReady ==
  main \in Analysing \union {"done"} =>
    /\ \A f \in Jobs : ast[f] = "tree"
    /\ \A w \in Workers : phase[w] = "idle" /\ pc[w] # "run"

(* A worker that died in fatal() keeps its job pending for ever: while its *)
(* exit() is under way, main() does not get past wait() and on to trees    *)
(* that are not there.                                                     *)
FatalHoldsMain ==
  (\E w \in Workers : phase[w] \in {"fatal", "exit", "stuck"}) =>
     main \in {"push", "wait"}

(* The exit status is 0 only if no stage, on no thread, logged an error.   *)
SuccessMeansClean == status = "succeeded" => ~g_errors

(* A thread that holds the logger's mutex locks it again: main() in        *)
(* log::flush when an error was logged, see FlushCrashes, and any thread   *)
(* whose excerpt of the source cannot be read.                             *)
BlocksItself == main = "stuck" \/ \E t \in Threads : phase[t] = "stuck"

(* main() waits for a pool without threads.                                *)
NobodyWorks == main = "wait" /\ \A w \in Workers : pc[w] = "exited"

(* The compiler comes to an end whatever fails on whichever thread, at     *)
(* whatever stage, with two exceptions: a thread has locked g_mutex twice; *)
(* or, with -j, the number of hardware threads is not known (lace.cpp:451  *)
(* takes the 0 that stands for that) and the pool has no worker.           *)
CompilationEnds ==
  <>(\/ status \in {"failed", "succeeded"}
     \/ BlocksItself
     \/ NobodyWorks /\ jflag > 1)

(* Diagnostics.hpp: if an error call was made, flushing ends the compiler. *)
FlushCrashes == g_errors ~> status = "failed"

=============================================================================
