-------------------------- MODULE ThreadPoolProofs --------------------------
(***************************************************************************)
(* Theorems about ThreadPool, for every finite set of workers and clients  *)
(* and every set of jobs.  The inductive invariant has four parts, proved  *)
(* one on top of the other: types and control points (ControlInv), the     *)
(* count (CountInv), the queue against the history of pushes (QueueInv),   *)
(* and the balance of sleeping workers and queued jobs (WorkConserving).   *)
(***************************************************************************)
EXTENDS ThreadPool, FiniteSetTheorems, TLAPS

WorkerPoints ==
  {"top", "enter", "sleep", "take", "pop", "run", "report", "exited", "dead"}

ClientPoints == {"ready", "notify", "waiting", "stop", "dismantle", "join", "gone"}

(* Every variable has its type; m_pending is only known to be an integer   *)
(* until PendingExact is available.                                        *)
TypeInv ==
  /\ m_jobs \in Seq(Jobs)
  /\ m_pending \in Int
  /\ mutex \in Workers \union {None}
  /\ m_cv \subseteq Workers
  /\ m_done \subseteq Clients
  /\ stop \in [Workers -> BOOLEAN]
  /\ pc \in [Workers \union Clients -> WorkerPoints \union ClientPoints]
  /\ job \in [Workers -> Jobs \union {None}]
  /\ spurious \in 0..MaxSpurious
  /\ pushed \in Seq(Jobs)
  /\ finished \subseteq Jobs

(* The mutex is held exactly by the worker in the critical section, which  *)
(* has seen the queue as it still is.                                      *)
ControlInv ==
  /\ TypeInv
  /\ \A w \in Workers : pc[w] \in WorkerPoints
  /\ \A c \in Clients : pc[c] \in ClientPoints
  /\ \A w \in Workers : mutex = w <=> pc[w] \in {"sleep", "take", "pop", "dead"}
  /\ \A w \in Workers : pc[w] = "take" => stop[w] \/ m_jobs # <<>>
  /\ \A w \in Workers : pc[w] = "pop" => m_jobs # <<>>
  /\ \A w \in Workers : pc[w] = "sleep" => m_jobs = <<>>
  /\ \A w \in Workers : pc[w] \in {"run", "report"} => job[w] \in Jobs
  /\ \A w \in Workers : w \in m_cv => pc[w] = "enter"
  /\ \A c \in Clients : c \in m_done => pc[c] = "waiting"
  /\ Open => \A w \in Workers : ~stop[w]

(* The types and the control points hold when the pool is constructed.     *)
LEMMA InitControl == PoolInit => ControlInv
BY PoolAssumption
DEF PoolInit, InitWith, ControlInv, TypeInv, WorkerPoints, ClientPoints, Open

(* A worker that leaves its critical section pops the queue.               *)
LEMMA PopControl ==
  ASSUME ControlInv, NEW w \in Workers, Pop(w)
  PROVE  ControlInv'
<1>1. /\ pc' = [pc EXCEPT ![w] = "run"]
      /\ mutex' = None
      /\ UNCHANGED <<m_pending, m_cv, m_done, stop, spurious, pushed, finished>>
  BY DEF Pop
<1>2. /\ m_jobs' \in Seq(Jobs)
      /\ job' \in [Workers -> Jobs \union {None}]
      /\ job'[w] \in Jobs
      /\ \A v \in Workers \ {w} : job'[v] = job[v]
  <2>1. m_jobs # <<>> /\ Head(m_jobs) \in Jobs /\ Tail(m_jobs) \in Seq(Jobs)
    BY DEF Pop, ControlInv, TypeInv
  <2> QED
    BY <2>1, ZenonT(60) DEF Pop, ControlInv, TypeInv
<1>3. \A v \in Workers : pc'[v] \notin {"sleep", "take", "pop", "dead"}
  BY <1>1 DEF Pop, ControlInv, TypeInv
<1>4. TypeInv'
  BY <1>1, <1>2 DEF ControlInv, TypeInv, WorkerPoints
<1>5. /\ \A v \in Workers : v # w => pc'[v] = pc[v]
      /\ \A c \in Clients : pc'[c] = pc[c]
      /\ pc'[w] = "run"
  BY <1>1, PoolAssumption DEF ControlInv, TypeInv
<1> QED
  BY <1>1, <1>2, <1>3, <1>4, <1>5, PoolAssumption
  DEF ControlInv, WorkerPoints, Pop, Open

(* A step of a worker keeps the types and the control points consistent.   *)
LEMMA WorkerControl ==
  ASSUME ControlInv, NEW w \in Workers, WorkerStep(w) \/ SpuriousWake(w)
  PROVE  ControlInv'
<1> USE PoolAssumption
    DEF ControlInv, TypeInv, WorkerPoints, ClientPoints, Open
<1>1. CASE CheckStop(w)
  BY <1>1 DEF CheckStop
<1>2. CASE Enter(w)
  BY <1>2 DEF Enter
<1>3. CASE Sleep(w)
  BY <1>3 DEF Sleep
<1>4. CASE Take(w)
  BY <1>4 DEF Take
<1>5. CASE RunJob(w)
  BY <1>5 DEF RunJob
<1>6. CASE Report(w)
  BY <1>6 DEF Report
<1>7. CASE SpuriousWake(w)
  BY <1>7 DEF SpuriousWake
<1>8. CASE Pop(w)
  BY <1>8, PopControl
<1>9. CASE PopFreed(w)
  BY <1>9 DEF PopFreed
<1> QED
  BY <1>1, <1>2, <1>3, <1>4, <1>5, <1>6, <1>7, <1>8, <1>9 DEF WorkerStep

(* So does a step of a client.                                             *)
LEMMA ClientControl ==
  ASSUME ControlInv, NEW c \in Clients, ClientStep(c)
  PROVE  ControlInv'
<1> USE PoolAssumption
    DEF ControlInv, TypeInv, WorkerPoints, ClientPoints, Open
<1>1. ASSUME NEW j \in Jobs, Push(c, j) PROVE ControlInv'
  BY <1>1 DEF Push
<1>2. CASE Notify(c)
  BY <1>2 DEF Notify
<1>3. CASE CallWait(c)
  BY <1>3 DEF CallWait
<1>4. CASE TestPending(c)
  BY <1>4 DEF TestPending
<1>5. CASE Destroy(c)
  BY <1>5 DEF Destroy
<1>6. ASSUME NEW w \in Workers, RequestStop(c, w) PROVE ControlInv'
  BY <1>6 DEF RequestStop
<1>7. CASE NotifyStop(c)
  BY <1>7 DEF NotifyStop
<1>8. CASE Join(c)
  BY <1>8 DEF Join
<1>9. CASE Dismantle(c)
  BY <1>9 DEF Dismantle
<1> QED
  BY <1>1, <1>2, <1>3, <1>4, <1>5, <1>6, <1>7, <1>8, <1>9 DEF ClientStep

(* The types and the control points are consistent in every state.         *)
THEOREM ControlCorrect == PoolSpec => []ControlInv
<1>1. ControlInv /\ [PoolNext]_poolVars => ControlInv'
  <2> SUFFICES ASSUME ControlInv, [PoolNext]_poolVars PROVE ControlInv'
    OBVIOUS
  <2>1. CASE PoolNext
    BY <2>1, WorkerControl, ClientControl DEF PoolNext
  <2>2. CASE UNCHANGED poolVars
    BY <2>2 DEF poolVars, ControlInv, TypeInv, Open
  <2> QED
    BY <2>1, <2>2
<1> QED
  BY InitControl, <1>1, PTL DEF PoolSpec

-----------------------------------------------------------------------------
(* What a step does to the control points the other invariants count.      *)
LEMMA BusyFinite == IsFiniteSet(Busy) /\ Cardinality(Busy) \in Nat
BY PoolAssumption, FS_Subset, FS_CardinalityType DEF Busy

(* The workers' steps keep the pending count exact: Pop moves one unit     *)
(* from the queue to the busy workers, Report gives one back.              *)
LEMMA WorkerCount ==
  ASSUME ControlInv, PendingExact,
         NEW w \in Workers, WorkerStep(w) \/ SpuriousWake(w)
  PROVE  PendingExact'
<1> USE DEF ControlInv, TypeInv, PendingExact
<1>1. CASE \/ CheckStop(w) \/ Enter(w) \/ Sleep(w) \/ Take(w) \/ PopFreed(w)
           \/ RunJob(w) \/ SpuriousWake(w)
  <2>1. Busy' = Busy
    BY <1>1, PoolAssumption
    DEF CheckStop, Enter, Sleep, Take, PopFreed, RunJob, SpuriousWake, Busy
  <2>2. UNCHANGED <<m_jobs, m_pending>>
    BY <1>1 DEF CheckStop, Enter, Sleep, Take, PopFreed, RunJob, SpuriousWake
  <2> QED
    BY <2>1, <2>2
<1>2. CASE Pop(w)
  <2>1. Busy' = Busy \union {w} /\ w \notin Busy
    BY <1>2, PoolAssumption DEF Pop, Busy
  <2>2. Cardinality(Busy') = Cardinality(Busy) + 1
    BY <2>1, BusyFinite, FS_AddElement
  <2>3. m_jobs # <<>>
    BY <1>2 DEF Pop
  <2>4. Len(m_jobs') = Len(m_jobs) - 1
    BY <1>2, <2>3 DEF Pop
  <2> QED
    BY <1>2, <2>2, <2>4, BusyFinite DEF Pop
<1>3. CASE Report(w)
  <2>1. Busy' = Busy \ {w} /\ w \in Busy
    BY <1>3, PoolAssumption DEF Report, Busy
  <2>2. Cardinality(Busy') = Cardinality(Busy) - 1
    BY <2>1, BusyFinite, FS_RemoveElement
  <2> QED
    BY <1>3, <2>2, BusyFinite DEF Report
<1> QED
  BY <1>1, <1>2, <1>3 DEF WorkerStep

(* So do the clients' steps: push() adds one unit to the queue.            *)
LEMMA ClientCount ==
  ASSUME ControlInv, PendingExact, NEW c \in Clients, ClientStep(c)
  PROVE  PendingExact'
<1> USE DEF ControlInv, TypeInv, PendingExact
<1>1. Busy' = Busy
  BY PoolAssumption
  DEF ClientStep, Push, Notify, CallWait, TestPending, Destroy, RequestStop,
      NotifyStop, Dismantle, Join, Busy
<1>2. ASSUME NEW j \in Jobs, Push(c, j) PROVE PendingExact'
  <2>1. Len(m_jobs') = Len(m_jobs) + 1
    BY <1>2 DEF Push
  <2> QED
    BY <1>1, <1>2, <2>1, BusyFinite DEF Push
<1>3. ASSUME UNCHANGED <<m_jobs, m_pending>> PROVE PendingExact'
  BY <1>1, <1>3
<1> QED
  BY <1>2, <1>3
  DEF ClientStep, Notify, CallWait, TestPending, Destroy, RequestStop,
      NotifyStop, Dismantle, Join

(* The pending count is exact in every state.                              *)
THEOREM PendingExactCorrect == PoolSpec => []PendingExact
<1>1. PoolInit => PendingExact
  <2> SUFFICES ASSUME PoolInit PROVE PendingExact
    OBVIOUS
  <2>1. Busy = {}
    BY PoolAssumption DEF PoolInit, InitWith, Busy
  <2> QED
    BY <2>1, FS_EmptySet DEF PoolInit, InitWith, PendingExact
<1>2. ControlInv /\ PendingExact /\ [PoolNext]_poolVars => PendingExact'
  <2> SUFFICES ASSUME ControlInv, PendingExact, [PoolNext]_poolVars
               PROVE  PendingExact'
    OBVIOUS
  <2>1. CASE PoolNext
    BY <2>1, WorkerCount, ClientCount DEF PoolNext
  <2>2. CASE UNCHANGED poolVars
    BY <2>2 DEF poolVars, PendingExact, Busy
  <2> QED
    BY <2>1, <2>2
<1> QED
  BY <1>1, <1>2, ControlCorrect, PTL DEF PoolSpec

(* Every variable of the pool has its type: the count is never negative.   *)
THEOREM TypeCorrect == PoolSpec => []TypeOK
<1>1. ControlInv /\ PendingExact => TypeOK
  BY BusyFinite
  DEF ControlInv, TypeInv, TypeOK, PendingExact, WorkerPoints, ClientPoints
<1> QED
  BY <1>1, ControlCorrect, PendingExactCorrect, PTL

(* A client blocked in wait() always has a Report left to wake it.         *)
THEOREM WaiterHasWakerCorrect == PoolSpec => []WaiterHasWaker
<1>1. PoolInit => WaiterHasWaker
  BY DEF PoolInit, InitWith, WaiterHasWaker
<1>2. TypeOK /\ TypeOK' /\ WaiterHasWaker /\ [PoolNext]_poolVars => WaiterHasWaker'
  <2> SUFFICES ASSUME TypeOK, TypeOK', WaiterHasWaker, [PoolNext]_poolVars
               PROVE  WaiterHasWaker'
    OBVIOUS
  <2> USE DEF TypeOK, WaiterHasWaker
  <2>1. ASSUME NEW w \in Workers, Report(w) PROVE WaiterHasWaker'
    BY <2>1 DEF Report
  <2>2. ASSUME NEW c \in Clients, TestPending(c) PROVE WaiterHasWaker'
    BY <2>2 DEF TestPending
  <2>3. ASSUME NEW c \in Clients, NEW j \in Jobs, Push(c, j)
        PROVE  WaiterHasWaker'
    BY <2>3 DEF Push
  <2>4. ASSUME UNCHANGED <<m_pending, m_done>> PROVE WaiterHasWaker'
    BY <2>4
  <2> QED
    BY <2>1, <2>2, <2>3, <2>4
    DEF PoolNext, WorkerStep, ClientStep, CheckStop, Enter, Sleep, Take, Pop,
        PopFreed, RunJob, SpuriousWake, Notify, CallWait, Destroy, RequestStop,
        NotifyStop, Dismantle, Join, poolVars
<1> QED
  BY <1>1, <1>2, TypeCorrect, PTL DEF PoolSpec

-----------------------------------------------------------------------------
(* The queue is what is left of the history of pushes, and every job taken *)
(* from it has been run or is being run by exactly one worker.             *)
QueueInv ==
  /\ Len(m_jobs) <= Len(pushed)
  /\ \A i \in 1..Len(m_jobs) : m_jobs[i] = pushed[Taken + i]
  /\ \A i, k \in 1..Len(pushed) : pushed[i] = pushed[k] => i = k
  /\ \A i \in 1..Taken :
       \/ pushed[i] \in finished
       \/ \E w \in Workers : pc[w] = "run" /\ job[w] = pushed[i]
  /\ \A j \in finished : \E i \in 1..Taken : j = pushed[i]
  /\ \A w \in Workers : pc[w] = "run" =>
       job[w] \notin finished /\ \E i \in 1..Taken : job[w] = pushed[i]
  /\ \A v, w \in Workers :
       pc[v] = "run" /\ pc[w] = "run" /\ job[v] = job[w] => v = w

(* A worker takes the oldest job not taken, which no other worker holds.   *)
LEMMA PopQueue ==
  ASSUME ControlInv, QueueInv, NEW w \in Workers, Pop(w)
  PROVE  QueueInv' /\ Taken' = Taken + 1 /\ Taken < Len(pushed)
<1> USE DEF ControlInv, TypeInv
<1>1. m_jobs # <<>> /\ m_jobs \in Seq(Jobs) /\ pushed \in Seq(Jobs)
  BY DEF Pop
<1>2. /\ m_jobs' = Tail(m_jobs) /\ UNCHANGED <<pushed, finished>>
      /\ job' = [job EXCEPT ![w] = m_jobs[1]]
      /\ pc' = [pc EXCEPT ![w] = "run"]
  BY <1>1 DEF Pop
<1>3. /\ Len(m_jobs') = Len(m_jobs) - 1
      /\ \A i \in 1..Len(m_jobs') : m_jobs'[i] = m_jobs[i + 1]
  BY <1>1, <1>2
<1>4. Len(m_jobs) \in Nat \ {0} /\ Len(pushed) \in Nat
  BY <1>1
<1>5. Taken \in Nat /\ Taken' = Taken + 1 /\ Taken < Len(pushed)
  BY <1>2, <1>3, <1>4 DEF Taken, QueueInv
<1>6. m_jobs[1] = pushed[Taken + 1]
  BY <1>4 DEF QueueInv
<1>7. /\ pc'[w] = "run" /\ job'[w] = pushed[Taken + 1]
      /\ \A v \in Workers \ {w} : pc'[v] = pc[v] /\ job'[v] = job[v]
      /\ pc[w] = "pop"
  BY <1>2, <1>6, PoolAssumption DEF Pop
<1>8. \A i \in 1..Taken : pushed[i] # pushed[Taken + 1]
  BY <1>4, <1>5 DEF QueueInv
<1>9. \A i \in 1..Len(m_jobs') : m_jobs'[i] = pushed'[Taken' + i]
  <2> SUFFICES ASSUME NEW i \in 1..Len(m_jobs')
               PROVE  m_jobs'[i] = pushed'[Taken' + i]
    OBVIOUS
  <2>1. m_jobs[i + 1] = pushed[Taken + (i + 1)]
    BY <1>3, <1>4 DEF QueueInv
  <2>2. Taken + (i + 1) = Taken' + i
    BY <1>5
  <2> QED
    BY <2>1, <2>2, <1>2, <1>3
<1>10. \A i \in 1..Taken' :
         \/ pushed'[i] \in finished'
         \/ \E v \in Workers : pc'[v] = "run" /\ job'[v] = pushed'[i]
  <2> SUFFICES ASSUME NEW i \in 1..Taken'
               PROVE  \/ pushed[i] \in finished
                      \/ \E v \in Workers : pc'[v] = "run" /\ job'[v] = pushed[i]
    BY <1>2
  <2>1. CASE i = Taken + 1
    BY <2>1, <1>7
  <2>2. CASE i \in 1..Taken
    BY <2>2, <1>7 DEF QueueInv
  <2> QED
    BY <2>1, <2>2, <1>5
<1>11. \A j \in finished' : \E i \in 1..Taken' : j = pushed'[i]
  BY <1>2, <1>5 DEF QueueInv
<1>12. \A v \in Workers : pc'[v] = "run" =>
         job'[v] \notin finished' /\ \E i \in 1..Taken' : job'[v] = pushed'[i]
  <2>1. job'[w] \notin finished' /\ job'[w] = pushed'[Taken']
    <3>1. job'[w] = pushed'[Taken'] /\ job'[w] = pushed[Taken + 1]
      BY <1>2, <1>5, <1>7
    <3>2. pushed[Taken + 1] \notin finished
      BY <1>8 DEF QueueInv
    <3> QED
      BY <3>1, <3>2, <1>2
  <2>2. Taken' \in 1..Taken'
    BY <1>5
  <2>3. \A v \in Workers \ {w} : pc'[v] = "run" =>
          job'[v] \notin finished' /\ \E i \in 1..Taken' : job'[v] = pushed'[i]
    BY <1>2, <1>5, <1>7 DEF QueueInv
  <2> QED
    BY <2>1, <2>2, <2>3
<1>13. \A u, v \in Workers :
         pc'[u] = "run" /\ pc'[v] = "run" /\ job'[u] = job'[v] => u = v
  BY <1>7, <1>8 DEF QueueInv
<1>14. Len(m_jobs') <= Len(pushed')
  BY <1>2, <1>3, <1>4 DEF QueueInv
<1>15. \A i, k \in 1..Len(pushed') : pushed'[i] = pushed'[k] => i = k
  BY <1>2 DEF QueueInv
<1> QED
  BY <1>5, <1>9, <1>10, <1>11, <1>12, <1>13, <1>14, <1>15 DEF QueueInv

(* push() puts a job that was never pushed before at the end.              *)
LEMMA PushQueue ==
  ASSUME ControlInv, QueueInv, NEW c \in Clients, NEW j \in Jobs, Push(c, j)
  PROVE  QueueInv' /\ Taken' = Taken
<1> USE DEF ControlInv, TypeInv
<1>1. /\ m_jobs \in Seq(Jobs) /\ pushed \in Seq(Jobs)
      /\ m_jobs' = Append(m_jobs, j) /\ pushed' = Append(pushed, j)
      /\ UNCHANGED <<job, finished>>
      /\ \A w \in Workers : pc'[w] = pc[w]
  BY PoolAssumption DEF Push
<1>2. /\ Len(m_jobs) \in Nat /\ Len(pushed) \in Nat
      /\ Len(m_jobs') = Len(m_jobs) + 1 /\ Len(pushed') = Len(pushed) + 1
      /\ \A i \in 1..Len(m_jobs) : m_jobs'[i] = m_jobs[i]
      /\ \A i \in 1..Len(pushed) : pushed'[i] = pushed[i]
      /\ m_jobs'[Len(m_jobs) + 1] = j /\ pushed'[Len(pushed) + 1] = j
  BY <1>1
<1>3. Taken \in 0..Len(pushed) /\ Taken' = Taken
  BY <1>2 DEF Taken, QueueInv
<1>4. \A i \in 1..Len(pushed) : pushed[i] # j
  BY DEF Push, Pushed
<1>5. \A i \in 1..Len(m_jobs') : m_jobs'[i] = pushed'[Taken' + i]
  <2> SUFFICES ASSUME NEW i \in 1..Len(m_jobs')
               PROVE  m_jobs'[i] = pushed'[Taken + i]
    BY <1>3
  <2>1. CASE i \in 1..Len(m_jobs)
    <3>1. Taken + i \in 1..Len(pushed)
      BY <2>1, <1>2, <1>3 DEF Taken
    <3> QED
      BY <3>1, <2>1, <1>2 DEF QueueInv
  <2>2. CASE i = Len(m_jobs) + 1
    <3>1. Taken + i = Len(pushed) + 1
      BY <2>2, <1>2 DEF Taken
    <3> QED
      BY <3>1, <2>2, <1>2
  <2> QED
    BY <2>1, <2>2, <1>2
<1>6. \A i, k \in 1..Len(pushed') : pushed'[i] = pushed'[k] => i = k
  BY <1>2, <1>4, SMTT(30) DEF QueueInv
<1>7. \A i \in 1..Taken : i \in 1..Len(pushed) /\ pushed'[i] = pushed[i]
  BY <1>2, <1>3
<1>8. Len(m_jobs') <= Len(pushed')
  BY <1>2 DEF QueueInv
<1>9. \A i \in 1..Taken' :
         \/ pushed'[i] \in finished'
         \/ \E w \in Workers : pc'[w] = "run" /\ job'[w] = pushed'[i]
  <2> SUFFICES ASSUME NEW i \in 1..Taken
               PROVE  \/ pushed'[i] \in finished
                      \/ \E w \in Workers : pc'[w] = "run" /\ job[w] = pushed'[i]
    BY <1>1, <1>3
  <2>1. pushed'[i] = pushed[i]
    BY <1>7
  <2>2. \/ pushed[i] \in finished
        \/ \E w \in Workers : pc[w] = "run" /\ job[w] = pushed[i]
    BY DEF QueueInv
  <2> QED
    BY <2>1, <2>2, <1>1
<1>10. \A k \in finished' : \E i \in 1..Taken' : k = pushed'[i]
  <2>1. \A k \in finished : \E i \in 1..Taken : k = pushed[i]
    BY DEF QueueInv
  <2>2. \A k \in finished : \E i \in 1..Taken : k = pushed'[i]
    BY <2>1, <1>7
  <2> QED
    BY <2>2, <1>1, <1>3
<1>11. \A w \in Workers : pc'[w] = "run" =>
         job'[w] \notin finished' /\ \E i \in 1..Taken' : job'[w] = pushed'[i]
  <2>1. \A w \in Workers : pc[w] = "run" =>
          job[w] \notin finished /\ \E i \in 1..Taken : job[w] = pushed[i]
    BY DEF QueueInv
  <2>2. \A w \in Workers : pc[w] = "run" =>
          job[w] \notin finished /\ \E i \in 1..Taken : job[w] = pushed'[i]
    BY <2>1, <1>7
  <2> QED
    BY <2>2, <1>1, <1>3
<1>12. \A v, w \in Workers :
         pc'[v] = "run" /\ pc'[w] = "run" /\ job'[v] = job'[w] => v = w
  BY <1>1 DEF QueueInv
<1> QED
  BY <1>3, <1>5, <1>6, <1>8, <1>9, <1>10, <1>11, <1>12 DEF QueueInv

(* A job that returns moves from its worker to the finished ones.          *)
LEMMA RunQueue ==
  ASSUME ControlInv, QueueInv, NEW w \in Workers, RunJob(w)
  PROVE  QueueInv' /\ Taken' = Taken
<1>1. /\ Taken' = Taken
      /\ UNCHANGED <<m_jobs, pushed, job>>
      /\ finished' = finished \union {job[w]}
      /\ pc[w] = "run" /\ pc'[w] = "report"
      /\ \A v \in Workers \ {w} : pc'[v] = pc[v]
  BY PoolAssumption DEF RunJob, Taken, ControlInv, TypeInv
<1>2. \A i \in 1..Taken :
         \/ pushed[i] \in finished'
         \/ \E v \in Workers : pc'[v] = "run" /\ job[v] = pushed[i]
  BY <1>1 DEF QueueInv
<1>3. \A j \in finished' : \E i \in 1..Taken : j = pushed[i]
  BY <1>1 DEF QueueInv
<1>4. \A v \in Workers : pc'[v] = "run" =>
         job[v] \notin finished' /\ \E i \in 1..Taken : job[v] = pushed[i]
  BY <1>1 DEF QueueInv
<1> QED
  BY <1>1, <1>2, <1>3, <1>4 DEF QueueInv

(* Every other step leaves the queue, the history and the runners alone.   *)
LEMMA OtherQueue ==
  ASSUME ControlInv, QueueInv, [PoolNext]_poolVars,
         \A w \in Workers : ~RunJob(w) /\ ~Pop(w),
         \A c \in Clients : \A j \in Jobs : ~Push(c, j)
  PROVE  QueueInv' /\ UNCHANGED <<Taken, pushed, finished>>
<1>1. UNCHANGED <<m_jobs, pushed, finished>>
  BY DEF PoolNext, WorkerStep, ClientStep, CheckStop, Enter, Sleep, Take,
         PopFreed, Report, SpuriousWake, Notify, CallWait, TestPending, Destroy,
         RequestStop, NotifyStop, Dismantle, Join, poolVars
<1>2. \A w \in Workers : /\ pc'[w] = "run" <=> pc[w] = "run"
                         /\ pc[w] = "run" => job'[w] = job[w]
  <2> USE PoolAssumption DEF ControlInv, TypeInv
  <2>1. CASE \E v \in Workers : CheckStop(v) \/ Enter(v) \/ Sleep(v)
    BY <2>1 DEF CheckStop, Enter, Sleep
  <2>2. CASE \E v \in Workers : Take(v) \/ PopFreed(v) \/ Report(v) \/ SpuriousWake(v)
    BY <2>2, ZenonT(60) DEF Take, PopFreed, Report, SpuriousWake
  <2>3. CASE \E c \in Clients : ClientStep(c)
    BY <2>3
    DEF ClientStep, Notify, CallWait, TestPending, Destroy, RequestStop,
        NotifyStop, Dismantle, Join, ClientPoints
  <2>4. CASE UNCHANGED poolVars
    BY <2>4 DEF poolVars
  <2> QED
    BY <2>1, <2>2, <2>3, <2>4 DEF PoolNext, WorkerStep
<1> QED
  <2>1. UNCHANGED Taken
    BY <1>1 DEF Taken
  <2>2. QueueInv'
    BY <1>1, <1>2, <2>1 DEF QueueInv
  <2> QED
    BY <1>1, <2>1, <2>2

(* The queue agrees with the history of pushes in every state.             *)
THEOREM QueueCorrect == PoolSpec => []QueueInv
<1>1. PoolInit => QueueInv
  BY PoolAssumption DEF PoolInit, InitWith, QueueInv, Taken
<1>2. ControlInv /\ QueueInv /\ [PoolNext]_poolVars => QueueInv'
  BY PopQueue, PushQueue, RunQueue, OtherQueue
<1> QED
  BY <1>1, <1>2, ControlCorrect, PTL DEF PoolSpec

(* With nothing pending, every job that was pushed has finished.           *)
LEMMA DrainedMeansFinished ==
  ASSUME ControlInv, PendingExact, QueueInv, m_pending = 0
  PROVE  Pushed \subseteq finished
<1>1. Len(m_jobs) = 0 /\ Cardinality(Busy) = 0
  BY BusyFinite DEF PendingExact, ControlInv, TypeInv
<1>2. Busy = {}
  BY <1>1, BusyFinite, FS_EmptySet
<1>3. Taken = Len(pushed)
  BY <1>1 DEF Taken, ControlInv, TypeInv
<1> QED
  BY <1>2, <1>3 DEF Pushed, Busy, QueueInv

(* The pool implements JobPool: a step of the pool is a step of the        *)
(* abstract pool or does not change what clients can see of it.            *)
LEMMA RefinementStep ==
  ASSUME ControlInv, PendingExact, QueueInv, QueueInv', [PoolNext]_poolVars
  PROVE  [Abstract!JobNext]_(Abstract!jobVars)
<1> DEFINE Waiting == {c \in Clients : pc[c] = "waiting"}
<1> USE PoolAssumption DEF ControlInv, TypeInv
<1>1. ASSUME NEW w \in Workers, Pop(w)
      PROVE  Abstract!Start
  <2>1. Waiting' = Waiting /\ UNCHANGED <<pushed, finished>>
    BY <1>1 DEF Pop
  <2> QED
    BY <1>1, <2>1, PopQueue DEF Abstract!Start
<1>2. ASSUME NEW w \in Workers, RunJob(w)
      PROVE  Abstract!Finish(job[w]) /\ job[w] \in Jobs
  <2>1. Waiting' = Waiting /\ UNCHANGED pushed
    BY <1>2 DEF RunJob
  <2>2. pc[w] = "run" /\ finished' = finished \union {job[w]}
    BY <1>2 DEF RunJob
  <2>3. job[w] \notin finished /\ \E i \in 1..Taken : job[w] = pushed[i]
    BY <2>2 DEF QueueInv
  <2> QED
    BY <1>2, <2>1, <2>2, <2>3, RunQueue DEF Abstract!Finish, Abstract!Started
<1>3. ASSUME NEW c \in Clients, NEW j \in Jobs, Push(c, j)
      PROVE  Abstract!Submit(j)
  <2>1. Waiting' = Waiting /\ UNCHANGED finished
    BY <1>3 DEF Push
  <2> QED
    BY <1>3, <2>1, PushQueue DEF Push, Pushed, Abstract!Submit, Abstract!Submitted
<1>4. ASSUME NEW c \in Clients, CallWait(c)
      PROVE  Abstract!BeginWait(c)
  <2>1. c \notin Waiting /\ Waiting' = Waiting \union {c}
    BY <1>4 DEF CallWait
  <2> QED
    BY <1>4, <2>1 DEF CallWait, Taken, Abstract!BeginWait
<1>5. ASSUME NEW c \in Clients, TestPending(c), m_pending = 0
      PROVE  Abstract!EndWait(c)
  <2>1. c \in Waiting /\ Waiting' = Waiting \ {c}
    BY <1>5 DEF TestPending
  <2>2. Abstract!Submitted \subseteq finished
    BY <1>5, DrainedMeansFinished DEF Pushed, Abstract!Submitted
  <2> QED
    BY <1>5, <2>1, <2>2 DEF TestPending, Taken, Abstract!EndWait
<1>6. ASSUME \A w \in Workers : ~RunJob(w) /\ ~Pop(w),
             \A c \in Clients : \A j \in Jobs : ~Push(c, j),
             \A c \in Clients : ~CallWait(c) /\ ~(TestPending(c) /\ m_pending = 0)
      PROVE  UNCHANGED Abstract!jobVars
  <2>1. UNCHANGED <<Taken, pushed, finished>>
    BY <1>6, OtherQueue
  <2>2. Waiting' = Waiting
    <3>1. CASE \E w \in Workers : WorkerStep(w) \/ SpuriousWake(w)
      BY <3>1, ZenonT(60)
      DEF WorkerStep, CheckStop, Enter, Sleep, Take, Pop, PopFreed, RunJob, Report,
          SpuriousWake
    <3>2. CASE \E c \in Clients : ClientStep(c)
      BY <3>2, <1>6, ZenonT(60)
      DEF ClientStep, Notify, TestPending, Destroy, RequestStop, NotifyStop, Dismantle, Join
    <3>3. CASE UNCHANGED poolVars
      BY <3>3 DEF poolVars
    <3> QED
      BY <3>1, <3>2, <3>3 DEF PoolNext
  <2> QED
    BY <2>1, <2>2 DEF Abstract!jobVars
<1> QED
  BY <1>1, <1>2, <1>3, <1>4, <1>5, <1>6 DEF Abstract!JobNext

(* Every behaviour of the pool, seen through the jobs pushed, taken and    *)
(* finished and the clients that wait, is one of JobPool.                  *)
THEOREM PoolImplementsJobPool == PoolSpec => ImplementsJobPool
<1>1. PoolInit => Abstract!JobInit
  BY PoolAssumption DEF PoolInit, InitWith, Abstract!JobInit, Taken
<1>2. /\ ControlInv /\ PendingExact /\ QueueInv /\ QueueInv'
      /\ [PoolNext]_poolVars
      => [Abstract!JobNext]_(Abstract!jobVars)
  BY RefinementStep
<1> QED
  BY <1>1, <1>2, ControlCorrect, PendingExactCorrect, QueueCorrect, PTL
  DEF PoolSpec, ImplementsJobPool, Abstract!JobSpec

-----------------------------------------------------------------------------
(* The two sets that WorkConserving counts are finite.                     *)
LEMMA ComingFinite ==
  /\ IsFiniteSet(Coming) /\ Cardinality(Coming) \in Nat
  /\ IsFiniteSet(Notifying) /\ Cardinality(Notifying) \in Nat
BY PoolAssumption, FS_Subset, FS_CardinalityType DEF Coming, Notifying

(* The workers' steps: a worker that takes a job takes one away from those *)
(* to come, and one goes to sleep only when the queue is empty.            *)
LEMMA WorkerConserves ==
  ASSUME ControlInv, WorkConserving, NEW w \in Workers,
         WorkerStep(w) \/ SpuriousWake(w)
  PROVE  WorkConserving'
<1> USE PoolAssumption DEF ControlInv, TypeInv
<1>1. Notifying' = Notifying /\ Open' = Open
  BY DEF WorkerStep, CheckStop, Enter, Sleep, Take, Pop, PopFreed, RunJob, Report,
         SpuriousWake, Notifying, Open
<1>2. SUFFICES ASSUME Open, m_cv' # {}
               PROVE  Len(m_jobs') <= Cardinality(Coming') + Cardinality(Notifying)
  BY <1>1 DEF WorkConserving
<1>3. ~stop[w]
  BY <1>2
<1>4. CASE CheckStop(w) \/ Take(w) \/ RunJob(w)
  <2>1. Coming' = Coming /\ UNCHANGED <<m_jobs, m_cv>>
    BY <1>3, <1>4 DEF CheckStop, Take, RunJob, Coming
  <2> QED
    BY <2>1, <1>2 DEF WorkConserving
<1>5. CASE Enter(w) \/ Sleep(w)
  <2>1. CASE m_jobs = <<>>
    <3>1. Cardinality(Coming') \in Nat
      BY FS_Subset, FS_CardinalityType DEF Coming
    <3>2. Len(m_jobs') = 0
      BY <1>5, <2>1 DEF Enter, Sleep
    <3> QED
      BY <3>1, <3>2, ComingFinite
  <2>2. CASE m_jobs # <<>>
    <3>1. Coming' = Coming /\ UNCHANGED <<m_jobs, m_cv>>
      BY <1>5, <2>2 DEF Enter, Sleep, Coming
    <3> QED
      BY <3>1, <1>2 DEF WorkConserving
  <2> QED
    BY <2>1, <2>2
<1>6. CASE Pop(w)
  <2>1. w \in Coming /\ Coming' = Coming \ {w} /\ UNCHANGED m_cv
    BY <1>6 DEF Pop, Coming
  <2>2. m_jobs # <<>> /\ m_jobs' = Tail(m_jobs)
    BY <1>6 DEF Pop
  <2>3. Len(m_jobs') = Len(m_jobs) - 1
    BY <2>2
  <2>4. Cardinality(Coming') = Cardinality(Coming) - 1
    BY <2>1, ComingFinite, FS_RemoveElement
  <2> QED
    BY <2>1, <2>3, <2>4, <1>2, ComingFinite DEF WorkConserving
<1>7. CASE Report(w) \/ SpuriousWake(w)
  <2>1. /\ w \notin Coming /\ Coming' = Coming \union {w}
        /\ UNCHANGED m_jobs /\ m_cv # {}
    BY <1>2, <1>7 DEF Report, SpuriousWake, Coming
  <2>2. Cardinality(Coming') = Cardinality(Coming) + 1
    BY <2>1, ComingFinite, FS_AddElement
  <2> QED
    BY <2>1, <2>2, <1>2, ComingFinite DEF WorkConserving
<1>8. CASE PopFreed(w)
  BY <1>2, <1>8 DEF PopFreed, Dismantled, Open
<1> QED
  BY <1>4, <1>5, <1>6, <1>7, <1>8 DEF WorkerStep

(* The clients' steps: push() adds a job and a notification to come, which *)
(* turns a sleeping worker, if there is one, into one on its way.          *)
LEMMA ClientConserves ==
  ASSUME ControlInv, WorkConserving, NEW c \in Clients, ClientStep(c)
  PROVE  WorkConserving'
<1> USE PoolAssumption DEF ControlInv, TypeInv, ClientPoints
<1>1. SUFFICES ASSUME Open', m_cv' # {}
               PROVE  Len(m_jobs') <= Cardinality(Coming') + Cardinality(Notifying')
  BY DEF WorkConserving
<1>2. \A w \in Workers : pc'[w] = pc[w]
  BY DEF ClientStep, Push, Notify, CallWait, TestPending, Destroy, RequestStop,
         NotifyStop, Dismantle, Join
<1>3. ASSUME NEW j \in Jobs, Push(c, j)
      PROVE  Len(m_jobs') <= Cardinality(Coming') + Cardinality(Notifying')
  <2>1. Coming' = Coming /\ UNCHANGED m_cv /\ Open
    BY <1>2, <1>3 DEF Push, Coming
  <2>2. c \notin Notifying /\ Notifying' = Notifying \union {c}
    BY <1>3 DEF Push, Notifying
  <2>3. Cardinality(Notifying') = Cardinality(Notifying) + 1
    BY <2>2, ComingFinite, FS_AddElement
  <2>4. Len(m_jobs') = Len(m_jobs) + 1
    BY <1>3 DEF Push
  <2> QED
    BY <2>1, <2>3, <2>4, <1>1, ComingFinite DEF WorkConserving
<1>4. CASE Notify(c)
  <2>1. Open
    BY <1>1, <1>4 DEF Notify, Open
  <2>2. PICK w \in m_cv : m_cv' = m_cv \ {w}
    BY <1>1, <1>4 DEF Notify
  <2>3. w \in Workers /\ w \notin Coming /\ Coming' = Coming \union {w}
    BY <1>2, <2>2 DEF Coming
  <2>4. c \in Notifying /\ Notifying' = Notifying \ {c}
    BY <1>4 DEF Notify, Notifying
  <2>5. Cardinality(Coming') = Cardinality(Coming) + 1
    BY <2>3, ComingFinite, FS_AddElement
  <2>6. Cardinality(Notifying') = Cardinality(Notifying) - 1
    BY <2>4, ComingFinite, FS_RemoveElement
  <2>7. UNCHANGED m_jobs
    BY <1>4 DEF Notify
  <2> QED
    BY <2>1, <2>2, <2>5, <2>6, <2>7, ComingFinite DEF WorkConserving
<1>5. CASE CallWait(c) \/ TestPending(c)
  <2>1. Coming' = Coming /\ Notifying' = Notifying
    BY <1>2, <1>5 DEF CallWait, TestPending, Coming, Notifying
  <2>2. Open /\ UNCHANGED <<m_jobs, m_cv>>
    BY <1>1, <1>5 DEF CallWait, TestPending, Open
  <2> QED
    BY <2>1, <2>2, <1>1 DEF WorkConserving
<1>6. CASE \/ Destroy(c) \/ NotifyStop(c) \/ Dismantle(c) \/ Join(c)
           \/ \E w \in Workers : RequestStop(c, w)
  <2>1. ~Open'
    BY <1>6 DEF Destroy, NotifyStop, Dismantle, Join, RequestStop, Open
  <2> QED
    BY <2>1, <1>1
<1> QED
  BY <1>3, <1>4, <1>5, <1>6 DEF ClientStep

(* No queued job is left behind a busy worker while another one sleeps.    *)
THEOREM WorkConservingCorrect == PoolSpec => []WorkConserving
<1>1. PoolInit => WorkConserving
  BY PoolAssumption DEF PoolInit, InitWith, WorkConserving
<1>2. ControlInv /\ WorkConserving /\ [PoolNext]_poolVars => WorkConserving'
  <2> SUFFICES ASSUME ControlInv, WorkConserving, [PoolNext]_poolVars
               PROVE  WorkConserving'
    OBVIOUS
  <2>1. CASE PoolNext
    BY <2>1, WorkerConserves, ClientConserves DEF PoolNext
  <2>2. CASE UNCHANGED poolVars
    BY <2>2 DEF poolVars, WorkConserving, Coming, Notifying, Open
  <2> QED
    BY <2>1, <2>2
<1> QED
  BY <1>1, <1>2, ControlCorrect, PTL DEF PoolSpec

=============================================================================
