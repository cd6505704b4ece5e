---------------------------- MODULE DriverProofs ----------------------------
(***************************************************************************)
(* Theorems about Driver, for every list of distinct input files, every    *)
(* number of workers and every choice of faults.  A step of the driver is  *)
(* a step of the pool or leaves the pool alone, so the invariants of       *)
(* ThreadPoolProofs hold here too, whatever threads the constructor spawns;*)
(* StageInv ties them to the stage main() is in.                           *)
(***************************************************************************)
EXTENDS Driver, ThreadPoolProofs

Stages == {"args", "push", "wait", "inline", "analyse", "check", "backend",
           "done", "fatal", "exit", "stuck"}

Phases == {"idle", "open", "parse", "parsed", "returned", "fatal", "exit", "stuck"}

StageType ==
  /\ multithread \in BOOLEAN
  /\ main \in Stages
  /\ next \in 1..(Len(Files) + 1)
  /\ phase \in [Threads -> Phases]
  /\ ast \in [Jobs -> {"null", "tree"}]
  /\ g_errors \in BOOLEAN

(* Nothing is pending unless main() pushes or waits; a thread is in a file *)
(* only while it runs a job, or parses inline; a file whose job returned   *)
(* has its tree; past the wait, or the inline loop, every file has one.    *)
StageInv ==
  /\ StageType
  /\ main \notin {"push", "wait"} => m_pending = 0
  /\ main = "wait" => /\ pc[Main] \in {"ready", "waiting"}
                      /\ pc[Main] = "ready" => m_pending = 0
  /\ main = "args" => next = 1 /\ pushed = <<>> /\ phase[Main] = "idle"
  /\ main = "push" => /\ Len(pushed) = next - 1
                      /\ \A i \in 1..(next - 1) : pushed[i] = Files[i]
  /\ main = "wait" => Jobs \subseteq Pushed
  /\ main = "inline" => \A i \in 1..(next - 1) : ast[Files[i]] = "tree"
  /\ main \in Analysing \union {"done"} => \A f \in Jobs : ast[f] = "tree"
  /\ \A w \in Workers : phase[w] # "idle" => pc[w] = "run"
  /\ \A w \in Workers : phase[w] \in {"parsed", "returned"} => ast[job[w]] = "tree"
  /\ main = "inline" /\ phase[Main] \in {"parsed", "returned"} =>
       next <= Len(Files) /\ ast[Files[next]] = "tree"
  /\ \A f \in finished : ast[f] = "tree"
  /\ main \in {"backend", "done"} => ~g_errors
  /\ status = "succeeded" => main = "done"


PoolInv == ControlInv /\ PendingExact /\ QueueInv

-----------------------------------------------------------------------------
(* The pool's part of a driver that spawns any number of workers.          *)
LEMMA SpawnedPool ==
  ASSUME NEW spawned \in SUBSET Workers, InitWith(spawned)
  PROVE  PoolInv /\ Abstract!JobInit
<1>1. ControlInv
  BY PoolAssumption
  DEF InitWith, ControlInv, TypeInv, WorkerPoints, ClientPoints, Open
<1>2. QueueInv /\ Abstract!JobInit
  BY PoolAssumption DEF InitWith, QueueInv, Taken, Abstract!JobInit
<1>3. Busy = {}
  BY PoolAssumption DEF InitWith, Busy
<1>4. PendingExact
  BY <1>3, FS_EmptySet DEF InitWith, PendingExact
<1> QED
  BY <1>1, <1>2, <1>4 DEF PoolInv

(* A step of the driver does to the pool what a thread of the pool may do. *)
LEMMA DriverStepsPool ==
  ASSUME StageType, [DriverNext]_vars
  PROVE  [PoolNext]_poolVars
<1> USE DriverAssumption
<1>1. ASSUME NEW w \in Workers, Worker(w) \/ SpuriousWake(w)
      PROVE  [PoolNext]_poolVars
  <2>1. CASE JobStep(w)
    BY <2>1
    DEF JobStep, BeginNote, ReadFile, Parse, ExcerptFails, ExitAfterSpan, FinishNote,
        Goto
  <2>2. CASE Return(w) \/ PoolStep(w) \/ SpuriousWake(w)
    BY <2>2 DEF Return, PoolStep, PoolNext, WorkerStep
  <2> QED
    BY <1>1, <2>1, <2>2 DEF Worker
<1>2. CASE PushFile
  <2>1. next \in 1..Len(Files) /\ Files[next] \in Jobs
    BY <1>2 DEF PushFile, StageType
  <2> QED
    BY <1>2, <2>1 DEF PushFile, PoolNext, ClientStep
<1>3. CASE NotifyWorker \/ WaitForPool \/ TestWait
  BY <1>3 DEF NotifyWorker, WaitForPool, TestWait, PoolNext, ClientStep
<1>4. CASE \/ ArgError \/ ArgFatal \/ ArgThrows \/ FlushArgs \/ FlushWait \/ NextInline
           \/ FlushInline \/ AnalysisError \/ AnalysisExcerptFails \/ AnalysisFatal
           \/ AnalysisSpanFatal \/ MainExits \/ FlushAnalyse \/ FlushCheck
           \/ ReturnZero \/ ExitEnds
  BY <1>4
  DEF ArgError, ArgFatal, ArgThrows, FlushArgs, FlushWait, NextInline, FlushInline,
      AnalysisError, AnalysisExcerptFails, AnalysisFatal, AnalysisSpanFatal, MainExits,
      FlushAnalyse, FlushCheck, ReturnZero, ExitEnds, Flush
<1>5. CASE JobStep(Main)
  BY <1>5
  DEF JobStep, BeginNote, ReadFile, Parse, ExcerptFails, ExitAfterSpan, FinishNote, Goto
<1>6. CASE UNCHANGED vars
  BY <1>6 DEF vars
<1> QED
  BY <1>1, <1>2, <1>3, <1>4, <1>5, <1>6 DEF DriverNext, MainStep

(* The pool's invariants survive every step of the pool.                   *)
LEMMA PoolInvStep ==
  ASSUME PoolInv, [PoolNext]_poolVars
  PROVE  PoolInv'
<1>1. CASE PoolNext
  <2>1. ControlInv' /\ PendingExact'
    BY <1>1, WorkerControl, ClientControl, WorkerCount, ClientCount
    DEF PoolNext, PoolInv
  <2>2. QueueInv'
    BY PopQueue, PushQueue, RunQueue, OtherQueue DEF PoolInv
  <2> QED
    BY <2>1, <2>2 DEF PoolInv
<1>2. CASE UNCHANGED poolVars
  BY <1>2
  DEF poolVars, PoolInv, ControlInv, TypeInv, Open, PendingExact, Busy, QueueInv, Taken
<1> QED
  BY <1>1, <1>2

(* Nobody is busy when nothing is pending.                                 *)
LEMMA IdleWhenDrained ==
  ASSUME PoolInv, m_pending = 0
  PROVE  Busy = {} /\ m_jobs = <<>>
<1>1. Len(m_jobs) = 0 /\ Cardinality(Busy) = 0
  BY BusyFinite DEF PoolInv, PendingExact, ControlInv, TypeInv
<1> QED
  BY <1>1, BusyFinite, FS_EmptySet DEF PoolInv, ControlInv, TypeInv


-----------------------------------------------------------------------------
(* A worker in a file keeps its job pending, so main() pushes or waits.    *)
LEMMA RunnerHoldsMain ==
  ASSUME PoolInv, StageInv, NEW w \in Workers, pc[w] = "run"
  PROVE  /\ main \in {"push", "wait"}
         /\ main = "wait" => pc[Main] = "waiting"
BY IdleWhenDrained DEF StageInv, Busy

(* The steps of a thread inside a file: only the tree, the thread's own    *)
(* phase and the logger change.                                            *)
LEMMA JobStages ==
  ASSUME PoolInv, StageInv, NEW t \in Threads, JobStep(t)
  PROVE  StageInv'
<1>0. Main \notin Workers /\ Main \in Clients /\ Len(Files) \in Nat
  BY PoolAssumption, DriverAssumption
<1>1. PICK f \in Jobs :
        /\ Parses(t, f)
        /\ BeginNote(t) \/ ReadFile(t) \/ Parse(t, f) \/ ExitAfterSpan(t) \/ FinishNote(t)
  BY DEF JobStep
<1>2. /\ UNCHANGED <<multithread, main, next, pc, job, m_pending, pushed, finished>>
      /\ UNCHANGED Pushed
  BY <1>1
  DEF BeginNote, ReadFile, Parse, ExcerptFails, ExitAfterSpan, FinishNote, Goto,
      poolVars, Pushed
<1>3. PICK to \in Phases :
        /\ phase' = [phase EXCEPT ![t] = to]
        /\ to \in {"parsed", "returned"} => phase[t] = "parsed" \/ ast'[f] = "tree"
  <2>1. CASE BeginNote(t)
    BY <2>1 DEF BeginNote, Goto, Phases
  <2>2. CASE ReadFile(t)
    BY <2>2 DEF ReadFile, Goto, Phases
  <2>3. CASE Parse(t, f)
    BY <2>3 DEF Parse, ExcerptFails, Goto, Phases, StageInv, StageType
  <2>4. CASE ExitAfterSpan(t)
    BY <2>4 DEF ExitAfterSpan, Goto, Phases
  <2>5. CASE FinishNote(t)
    BY <2>5 DEF FinishNote, Goto, Phases
  <2> QED
    BY <1>1, <2>1, <2>2, <2>3, <2>4, <2>5
<1>4. /\ ast' \in [Jobs -> {"null", "tree"}]
      /\ \A g \in Jobs : ast[g] = "tree" => ast'[g] = "tree"
  BY <1>1
  DEF StageInv, StageType, BeginNote, ReadFile, Parse, ExcerptFails, ExitAfterSpan,
      FinishNote
<1>5. /\ g_errors' \in BOOLEAN
      /\ status' = "succeeded" => status = "succeeded"
  BY <1>1
  DEF StageInv, StageType, BeginNote, ReadFile, Parse, ExcerptFails, ExitAfterSpan,
      FinishNote, LogError, LogFatal, CanLog
<1>6. main \in {"push", "wait", "inline"}
  BY <1>1, RunnerHoldsMain DEF Parses
<1>7. \A w \in Workers : phase[w] # "idle" => job[w] \in Jobs
  BY DEF StageInv, PoolInv, ControlInv
<1>8. finished \subseteq Jobs
  BY DEF PoolInv, ControlInv, TypeInv
<1>9. \A i \in 1..Len(Files) : Files[i] \in Jobs
  BY DriverAssumption
<1>10. StageType'
  BY <1>2, <1>3, <1>4, <1>5 DEF StageInv, StageType
<1>11. \A u \in Threads : u # t => phase'[u] = phase[u]
  BY <1>3 DEF StageInv, StageType
<1>12. phase'[t] = to
  BY <1>3 DEF StageInv, StageType
<1>13. /\ \A i \in 1..(next - 1) : ast[Files[i]] = "tree" => ast'[Files[i]] = "tree"
       /\ \A g \in finished' : ast'[g] = "tree"
  <2>1. \A i \in 1..(next - 1) : i \in 1..Len(Files)
    BY <1>0 DEF StageInv, StageType
  <2> QED
    BY <2>1, <1>2, <1>4, <1>8, <1>9 DEF StageInv
<1>14. CASE t \in Workers
  <2>1. t # Main /\ pc[t] = "run" /\ job[t] = f /\ main \in {"push", "wait"}
    BY <1>0, <1>1, <1>14, RunnerHoldsMain DEF Parses
  <2>2. \A w \in Workers :
          /\ phase'[w] # "idle" => pc'[w] = "run"
          /\ phase'[w] \in {"parsed", "returned"} => ast'[job'[w]] = "tree"
    <3> SUFFICES ASSUME NEW w \in Workers
                 PROVE  /\ phase'[w] # "idle" => pc[w] = "run"
                        /\ phase'[w] \in {"parsed", "returned"} => ast'[job[w]] = "tree"
      BY <1>2
    <3>1. CASE w = t
      BY <3>1, <2>1, <1>3, <1>4, <1>12 DEF StageInv
    <3>2. CASE w # t
      BY <3>2, <1>4, <1>7, <1>11 DEF StageInv, Threads
    <3> QED
      BY <3>1, <3>2
  <2> QED
    BY <2>1, <2>2, <1>2, <1>5, <1>10, <1>13 DEF StageInv, Analysing
<1>15. CASE t = Main
  <2>1. main = "inline" /\ next \in 1..Len(Files) /\ f = Files[next]
    BY <1>0, <1>1, <1>15 DEF Parses, StageInv, StageType
  <2>2. \A w \in Workers :
          /\ phase'[w] # "idle" => pc'[w] = "run"
          /\ phase'[w] \in {"parsed", "returned"} => ast'[job'[w]] = "tree"
    BY <1>0, <1>2, <1>4, <1>7, <1>11, <1>15 DEF StageInv, Threads
  <2>3. phase'[Main] \in {"parsed", "returned"} => ast'[Files[next]] = "tree"
    BY <2>1, <1>3, <1>4, <1>12, <1>15 DEF StageInv
  <2>4. next <= Len(Files)
    BY <2>1
  <2> QED
    BY <2>1, <2>2, <2>3, <2>4, <1>2, <1>5, <1>10, <1>13 DEF StageInv, Analysing
<1> QED
  BY <1>14, <1>15 DEF Threads

(* The lambda of a job returns: its file has a tree and is finished.       *)
LEMMA ReturnStages ==
  ASSUME PoolInv, StageInv, NEW w \in Workers, Return(w)
  PROVE  StageInv'
<1>0. Main \notin Workers /\ Main \in Clients /\ Len(Files) \in Nat
  BY PoolAssumption, DriverAssumption
<1>1. /\ UNCHANGED <<multithread, main, next, ast, g_errors, status, job, m_pending, pushed>>
      /\ UNCHANGED Pushed
      /\ pc[w] = "run" /\ pc' = [pc EXCEPT ![w] = "report"]
      /\ phase[w] = "returned" /\ phase' = [phase EXCEPT ![w] = "idle"]
      /\ finished' = finished \union {job[w]}
  BY DEF Return, RunJob, Pushed
<1>2. /\ \A v \in Workers \ {w} : pc'[v] = pc[v] /\ phase'[v] = phase[v]
      /\ phase'[w] = "idle" /\ phase'[Main] = phase[Main] /\ pc'[Main] = pc[Main]
      /\ phase' \in [Threads -> Phases]
  BY <1>0, <1>1 DEF StageInv, StageType, Threads, Phases, PoolInv, ControlInv, TypeInv
<1>3. ast[job[w]] = "tree"
  BY <1>1 DEF StageInv
<1>4. \A v \in Workers :
        /\ phase'[v] # "idle" => pc'[v] = "run"
        /\ phase'[v] \in {"parsed", "returned"} => ast'[job'[v]] = "tree"
  BY <1>1, <1>2 DEF StageInv
<1> QED
  BY <1>1, <1>2, <1>3, <1>4 DEF StageInv, StageType

(* What workers do outside the jobs changes neither stage nor phase, and   *)
(* lets the count fall only.                                               *)
LEMMA WorkerStages ==
  ASSUME PoolInv, PoolInv', StageInv, NEW w \in Workers,
         \/ PoolStep(w)
         \/ SpuriousWake(w) /\ UNCHANGED driverVars
  PROVE  StageInv'
<1>0. Main \notin Workers /\ Main \in Clients
  BY PoolAssumption, DriverAssumption
<1> USE DEF PoolStep
<1>1. /\ UNCHANGED <<multithread, main, next, phase, ast, g_errors, status, pushed,
                     finished>>
      /\ UNCHANGED Pushed
  BY DEF driverVars, CheckStop, Enter, Sleep, Take, Pop, Report, SpuriousWake, Pushed
<1>2. /\ pc'[Main] = pc[Main]
      /\ \A v \in Workers : phase[v] # "idle" => pc'[v] = "run" /\ job'[v] = job[v]
  <2>1. \A v \in Workers : phase[v] # "idle" => pc[v] = "run"
    BY DEF StageInv
  <2>2. pc \in [Workers \union Clients -> WorkerPoints \union ClientPoints]
        /\ job \in [Workers -> Jobs \union {None}]
    BY DEF PoolInv, ControlInv, TypeInv
  <2>3. CASE CheckStop(w) \/ Enter(w) \/ Sleep(w) \/ SpuriousWake(w)
    BY <1>0, <2>1, <2>2, <2>3, ZenonT(60) DEF CheckStop, Enter, Sleep, SpuriousWake
  <2>4. CASE Take(w) \/ Pop(w) \/ Report(w)
    BY <1>0, <2>1, <2>2, <2>4, ZenonT(60) DEF Take, Pop, Report
  <2> QED
    BY <2>3, <2>4
<1>3. m_pending = 0 => m_pending' = 0
  BY IdleWhenDrained
  DEF CheckStop, Enter, Sleep, Take, Pop, Report, SpuriousWake, Busy
<1>4. \A v \in Workers :
        /\ phase'[v] # "idle" => pc'[v] = "run"
        /\ phase'[v] \in {"parsed", "returned"} => ast'[job'[v]] = "tree"
  BY <1>1, <1>2 DEF StageInv
<1> QED
  BY <1>1, <1>2, <1>3, <1>4 DEF StageInv, StageType

(* main() pushes its files in order, and comes to wait() with the last.    *)
LEMMA PushStages ==
  ASSUME PoolInv, StageInv,
         PushFile \/ NotifyWorker \/ WaitForPool \/ TestWait
  PROVE  StageInv'
<1>0. /\ Main \notin Workers /\ Main \in Clients
      /\ Len(Files) \in Nat /\ \A i \in 1..Len(Files) : Files[i] \in Jobs
      /\ Jobs = {Files[i] : i \in 1..Len(Files)}
  BY PoolAssumption, DriverAssumption
<1>1. /\ UNCHANGED <<multithread, phase, ast, g_errors, status, job, finished>>
      /\ \A w \in Workers : pc'[w] = pc[w]
      /\ pc' \in [Workers \union Clients -> WorkerPoints \union ClientPoints]
  BY <1>0
  DEF PushFile, NotifyWorker, WaitForPool, TestWait, driverVars, Push, Notify,
      CallWait, TestPending, PoolInv, ControlInv, TypeInv, ClientPoints
<1>2. \A w \in Workers :
        /\ phase'[w] # "idle" => pc'[w] = "run"
        /\ phase'[w] \in {"parsed", "returned"} => ast'[job'[w]] = "tree"
  BY <1>1 DEF StageInv
<1>3. pushed \in Seq(Jobs)
  BY DEF PoolInv, ControlInv, TypeInv
<1>4. CASE PushFile
  <2>1. /\ main = "push" /\ main' = "push" /\ next \in 1..Len(Files)
        /\ next' = next + 1 /\ pushed' = Append(pushed, Files[next])
        /\ Len(pushed) = next - 1
    BY <1>4 DEF PushFile, Push, StageInv, StageType
  <2>2. StageType'
    BY <2>1, <1>0, <1>1 DEF StageInv, StageType
  <2>3. /\ Len(pushed') = next' - 1
        /\ \A i \in 1..(next' - 1) : pushed'[i] = Files[i]
    BY <2>1, <1>0, <1>3 DEF StageInv
  <2> QED
    BY <2>1, <2>2, <2>3, <1>1, <1>2 DEF StageInv, Analysing
<1>5. CASE WaitForPool
  <2>1. /\ main = "push" /\ main' = "wait" /\ next' = next /\ next > Len(Files)
        /\ pushed' = pushed /\ pc'[Main] = "waiting"
    BY <1>0, <1>5 DEF WaitForPool, CallWait, PoolInv, ControlInv, TypeInv
  <2>2. StageType'
    BY <2>1, <1>1 DEF StageInv, StageType, Stages
  <2>3. next = Len(Files) + 1
    BY <2>1, <1>0 DEF StageInv, StageType
  <2>4. \A i \in 1..Len(Files) : i \in 1..Len(pushed) /\ pushed[i] = Files[i]
    BY <2>1, <2>3, <1>0 DEF StageInv
  <2>5. Jobs \subseteq Pushed'
    BY <2>1, <2>4, <1>0 DEF Pushed
  <2> QED
    BY <2>1, <2>2, <2>5, <1>1, <1>2 DEF StageInv, Analysing
<1>6. CASE NotifyWorker \/ TestWait
  <2>1. /\ UNCHANGED <<main, next, pushed, m_pending>> /\ UNCHANGED Pushed
        /\ pc[Main] \notin {"notify", "waiting"} => pc'[Main] = pc[Main]
    BY <1>6
    DEF NotifyWorker, TestWait, driverVars, Notify, TestPending, Pushed
  <2>2. main = "wait" => /\ pc'[Main] \in {"ready", "waiting"}
                         /\ pc'[Main] = "ready" => m_pending' = 0
    BY <1>0, <1>6, <2>1
    DEF NotifyWorker, TestWait, Notify, TestPending, StageInv, PoolInv, ControlInv,
        TypeInv
  <2> QED
    BY <2>1, <2>2, <1>1, <1>2 DEF StageInv, StageType
<1> QED
  BY <1>4, <1>5, <1>6

(* main() gets past the wait and the inline loop only with every tree.     *)
LEMMA MainStages ==
  ASSUME PoolInv, StageInv,
         \/ ArgError \/ ArgFatal \/ ArgThrows \/ FlushArgs \/ FlushWait \/ NextInline
         \/ FlushInline \/ AnalysisError \/ AnalysisExcerptFails \/ AnalysisFatal
         \/ AnalysisSpanFatal \/ MainExits \/ FlushAnalyse \/ FlushCheck
         \/ ReturnZero \/ ExitEnds
  PROVE  StageInv'
<1>0. /\ Main \notin Workers /\ Main \in Threads
      /\ Len(Files) \in Nat /\ Jobs = {Files[i] : i \in 1..Len(Files)}
  BY PoolAssumption, DriverAssumption DEF Threads
<1>1. /\ UNCHANGED <<multithread, ast, m_pending, pc, job, pushed, finished>>
      /\ UNCHANGED Pushed
  BY DEF ArgError, ArgFatal, ArgThrows, FlushArgs, FlushWait, NextInline, FlushInline,
         AnalysisError, AnalysisExcerptFails, AnalysisFatal, AnalysisSpanFatal, MainExits,
         FlushAnalyse, FlushCheck, ReturnZero, ExitEnds, Flush, poolVars, Pushed
<1>2. ASSUME UNCHANGED <<next, phase>>, main' \in Stages, g_errors' \in BOOLEAN,
             main' \notin {"push", "wait"} => m_pending = 0,
             main' = "wait" => main = "wait",
             main' = "args" => main = "args",
             main' \in {"push", "inline"} => main \in {main', "args"},
             main' \in Analysing \union {"done"} => \A f \in Jobs : ast[f] = "tree",
             main' \in {"backend", "done"} => ~g_errors',
             status' = "succeeded" => main' = "done"
      PROVE  StageInv'
  <2>1. StageType'
    BY <1>1, <1>2 DEF StageInv, StageType
  <2>2. pushed = <<>> => Len(pushed) = 0
    OBVIOUS
  <2>3. \A w \in Workers :
          /\ phase'[w] # "idle" => pc'[w] = "run"
          /\ phase'[w] \in {"parsed", "returned"} => ast'[job'[w]] = "tree"
    BY <1>1, <1>2 DEF StageInv
  <2>4. main' = "push" => /\ Len(pushed') = next' - 1
                          /\ \A i \in 1..(next' - 1) : pushed'[i] = Files[i]
    BY <2>2, <1>1, <1>2 DEF StageInv
  <2>5. main' = "inline" => /\ \A i \in 1..(next' - 1) : ast'[Files[i]] = "tree"
                            /\ phase'[Main] \in {"parsed", "returned"} =>
                                 next' <= Len(Files) /\ ast'[Files[next']] = "tree"
    BY <1>1, <1>2 DEF StageInv
  <2> QED
    BY <2>1, <2>3, <2>4, <2>5, <1>1, <1>2 DEF StageInv
<1>3. CASE NextInline
  <2>1. /\ main = "inline" /\ main' = "inline" /\ next' = next + 1
        /\ phase[Main] = "returned" /\ phase' = [phase EXCEPT ![Main] = "idle"]
        /\ UNCHANGED <<g_errors, status>>
    BY <1>3 DEF NextInline
  <2>2. next \in 1..Len(Files) /\ ast[Files[next]] = "tree"
    BY <2>1, <1>0 DEF StageInv, StageType
  <2>3. /\ phase'[Main] = "idle" /\ \A w \in Workers : phase'[w] = phase[w]
        /\ phase' \in [Threads -> Phases]
    BY <2>1, <1>0 DEF StageInv, StageType, Threads, Phases
  <2>4. StageType'
    BY <2>1, <2>2, <2>3, <1>0, <1>1 DEF StageInv, StageType
  <2>5. \A i \in 1..(next' - 1) : ast'[Files[i]] = "tree"
    <3>1. \A i \in 1..(next - 1) : ast[Files[i]] = "tree"
      BY <2>1 DEF StageInv
    <3> QED
      BY <3>1, <2>1, <2>2, <1>0, <1>1
  <2>6. \A w \in Workers :
          /\ phase'[w] # "idle" => pc'[w] = "run"
          /\ phase'[w] \in {"parsed", "returned"} => ast'[job'[w]] = "tree"
    BY <2>3, <1>1 DEF StageInv
  <2> QED
    BY <2>1, <2>3, <2>4, <2>5, <2>6, <1>1 DEF StageInv, Analysing
<1>4. CASE ArgError \/ ArgFatal \/ ArgThrows \/ FlushArgs
  BY <1>2, <1>4
  DEF ArgError, ArgFatal, ArgThrows, FlushArgs, Flush, LogError, LogFatal, CanLog, StageInv,
      StageType, Stages, Analysing
<1>5. CASE FlushWait
  <2>1. main = "wait" /\ m_pending = 0 /\ Jobs \subseteq Pushed
    BY <1>5 DEF FlushWait, StageInv
  <2>2. \A f \in Jobs : ast[f] = "tree"
    BY <2>1, DrainedMeansFinished DEF PoolInv, StageInv
  <2> QED
    BY <1>2, <1>5, <2>1, <2>2
    DEF FlushWait, Flush, CanLog, StageInv, StageType, Stages, Analysing
<1>6. CASE FlushInline
  <2>1. main = "inline" /\ next = Len(Files) + 1
    BY <1>0, <1>6 DEF FlushInline, StageInv, StageType
  <2>2. \A f \in Jobs : ast[f] = "tree"
    BY <2>1, <1>0 DEF StageInv
  <2> QED
    BY <1>2, <1>6, <2>1, <2>2
    DEF FlushInline, Flush, CanLog, StageInv, StageType, Stages, Analysing
<1>7. CASE AnalysisError \/ AnalysisExcerptFails \/ AnalysisFatal \/ AnalysisSpanFatal
             \/ MainExits
  BY <1>2, <1>7
  DEF AnalysisError, AnalysisExcerptFails, AnalysisFatal, AnalysisSpanFatal, MainExits,
      LogError, LogFatal, CanLog, StageInv, StageType, Stages, Analysing
<1>8. CASE FlushAnalyse \/ FlushCheck
  BY <1>2, <1>8
  DEF FlushAnalyse, FlushCheck, Flush, CanLog, StageInv, StageType, Stages, Analysing
<1>9. CASE ReturnZero \/ ExitEnds
  BY <1>2, <1>9 DEF ReturnZero, ExitEnds, StageInv, StageType, Stages, Analysing
<1> QED
  BY <1>3, <1>4, <1>5, <1>6, <1>7, <1>8, <1>9

-----------------------------------------------------------------------------
(* The stages, the files and the pool agree in every state of the driver.  *)
THEOREM StagesCorrect == DriverSpec => [](PoolInv /\ StageInv)
<1>1. DriverInit => PoolInv /\ StageInv
  <2> SUFFICES ASSUME DriverInit PROVE PoolInv /\ StageInv
    OBVIOUS
  <2>1. PICK spawned \in SUBSET Workers : InitWith(spawned)
    BY DEF DriverInit
  <2>2. Main \in Threads /\ Len(Files) \in Nat
    BY DriverAssumption DEF Threads
  <2>3. /\ main = "args" /\ next = 1 /\ phase = [t \in Threads |-> "idle"]
        /\ ast = [f \in Jobs |-> "null"] /\ g_errors = FALSE /\ status = "running"
        /\ multithread \in BOOLEAN
    BY DEF DriverInit
  <2>4. m_pending = 0 /\ pushed = <<>> /\ finished = {}
    BY <2>1 DEF InitWith
  <2>5. StageType
    <3>1. next \in 1..(Len(Files) + 1)
      BY <2>2, <2>3
    <3> QED
      BY <2>3, <3>1, Zenon DEF StageType, Stages, Phases
  <2>6. /\ \A w \in Workers : phase[w] = "idle"
        /\ phase[Main] = "idle"
    BY <2>2, <2>3 DEF Threads
  <2>7. StageInv
    BY <2>3, <2>4, <2>5, <2>6 DEF StageInv, Analysing
  <2> QED
    BY <2>1, <2>7, SpawnedPool
<1>2. PoolInv /\ StageInv /\ [DriverNext]_vars => (PoolInv /\ StageInv)'
  <2> SUFFICES ASSUME PoolInv, StageInv, [DriverNext]_vars
               PROVE  PoolInv' /\ StageInv'
    OBVIOUS
  <2>1. PoolInv'
    BY PoolInvStep, DriverStepsPool DEF StageInv
  <2> SUFFICES StageInv'
    BY <2>1
  <2>2. CASE \E w \in Workers : Worker(w)
    BY <2>1, <2>2, JobStages, ReturnStages, WorkerStages DEF Worker, Threads
  <2>3. CASE \E w \in Workers : SpuriousWake(w) /\ UNCHANGED driverVars
    BY <2>1, <2>3, WorkerStages
  <2>4. CASE MainStep \/ ExitEnds
    BY <2>4, JobStages, PushStages, MainStages DEF MainStep, Threads
  <2>5. CASE UNCHANGED vars
    <3>1. UNCHANGED Pushed
      BY <2>5 DEF vars, poolVars, Pushed
    <3> QED
      BY <2>5, <3>1 DEF vars, poolVars, driverVars, StageInv, StageType
  <2> QED
    BY <2>2, <2>3, <2>4, <2>5 DEF DriverNext
<1> QED
  BY <1>1, <1>2, PTL DEF DriverSpec

(* When main() reads the trees, every file has one and no worker is inside *)
(* a job: wait() returned, or nothing was ever pushed.                     *)
THEOREM TreesReadyCorrect == DriverSpec => []TreesReady
<1>1. PoolInv /\ StageInv => TreesReady
  BY IdleWhenDrained DEF StageInv, TreesReady, Analysing, Busy
<1> QED
  BY <1>1, StagesCorrect, PTL

(* A worker that called fatal() never reports its job, so main() cannot    *)
(* have got past wait().                                                   *)
THEOREM FatalHoldsMainCorrect == DriverSpec => []FatalHoldsMain
<1>1. PoolInv /\ StageInv => FatalHoldsMain
  BY RunnerHoldsMain DEF StageInv, FatalHoldsMain
<1> QED
  BY <1>1, StagesCorrect, PTL

(* main() returns 0 only when the last flush saw no error, and nothing can *)
(* log one after it.                                                       *)
THEOREM SuccessMeansCleanCorrect == DriverSpec => []SuccessMeansClean
<1>1. StageInv => SuccessMeansClean
  BY DEF StageInv, SuccessMeansClean
<1> QED
  BY <1>1, StagesCorrect, PTL

(* Whatever the arguments, the pool keeps for the driver the promise of    *)
(* JobPool: wait() returns to main() only when every file pushed is parsed.*)
THEOREM DriverImplementsJobPool == DriverSpec => ImplementsJobPool
<1>1. DriverInit => Abstract!JobInit
  BY SpawnedPool DEF DriverInit
<1>2. /\ PoolInv /\ StageInv /\ PoolInv' /\ [DriverNext]_vars
      => [Abstract!JobNext]_(Abstract!jobVars)
  BY DriverStepsPool, RefinementStep DEF PoolInv, StageInv
<1> QED
  BY <1>1, <1>2, StagesCorrect, PTL
  DEF DriverSpec, ImplementsJobPool, Abstract!JobSpec

=============================================================================
