----------------------------- MODULE ThreadPool -----------------------------
(***************************************************************************)
(* The worker pool of the lace driver, ThreadPool.hpp: a queue of jobs, a  *)
(* count of unfinished ones, one mutex and two condition variables.        *)
(*                                                                         *)
(* A condition variable is the set of threads blocked in its wait(): a     *)
(* notify removes members, and a thread that is no longer a member has to  *)
(* take the mutex again before it re-evaluates its predicate.  A critical  *)
(* section is one step when everything it touches is guarded by m_mutex.   *)
(* The stop flags are not: a worker reads its flag under the mutex but     *)
(* request_stop() writes it without, so a worker's predicate, its going to *)
(* sleep and its second look at the flag are steps of their own.           *)
(*                                                                         *)
(* wait() may wake for no reason (the standard allows it); MaxSpurious     *)
(* bounds how often that happens to the workers.                           *)
(*                                                                         *)
(* m_threads is the first member, so the others are destroyed before the   *)
(* threads are joined, and workers may still use them.  A destroyed mutex  *)
(* or condition variable behaves as before (std::mutex has nothing to      *)
(* destroy, and whoever blocks is not woken again); to pop the destroyed   *)
(* queue reads freed memory, which may hold what it held or end the thread.*)
(***************************************************************************)
EXTENDS Naturals, Sequences, FiniteSets

CONSTANTS Workers,     \* the pool's threads, m_threads
          Clients,     \* the threads that call push, wait and the destructor
          Jobs,        \* the jobs clients may push, each of them once
          None,        \* "no thread" and "no job"
          MaxSpurious  \* bound on spurious wake-ups of workers

ASSUME PoolAssumption ==
  /\ IsFiniteSet(Workers) /\ IsFiniteSet(Clients)
  /\ Workers \intersect Clients = {}
  /\ None \notin Workers \union Clients \union Jobs
  /\ MaxSpurious \in Nat

VARIABLES
  m_jobs,     \* the queue
  m_pending,  \* jobs pushed and not yet reported finished
  mutex,      \* the worker that holds m_mutex across steps, or None
  m_cv,       \* workers blocked on m_cv
  m_done,     \* clients blocked on m_done
  stop,       \* stop[w]: w's std::stop_token has been triggered
  pc,         \* control point of every worker and client
  job,        \* job[w]: the job w took and has not reported
  spurious,   \* spurious wake-ups so far
  pushed,     \* history: every job pushed, in order
  finished    \* history: the jobs whose function returned

poolVars == <<m_jobs, m_pending, mutex, m_cv, m_done, stop, pc, job, spurious,
              pushed, finished>>

Pushed == {pushed[i] : i \in 1..Len(pushed)}

Taken == Len(pushed) - Len(m_jobs)

(* Workers that hold a job they have not reported yet.                     *)
Busy == {w \in Workers : pc[w] \in {"run", "report"}}

(* No client is running the destructor: the others may still call in.      *)
Open == \A c \in Clients : pc[c] \in {"ready", "notify", "waiting"}

(* The members of the pool are destroyed, but for its threads.             *)
Dismantled == \E c \in Clients : pc[c] \in {"join", "gone"}

-----------------------------------------------------------------------------
(* The constructor: the threads it spawns enter worker() right away.       *)
InitWith(spawned) ==
  /\ m_jobs = <<>>
  /\ m_pending = 0
  /\ mutex = None
  /\ m_cv = {}
  /\ m_done = {}
  /\ stop = [w \in Workers |-> FALSE]
  /\ pc = [t \in Workers \union Clients |->
             IF t \in spawned THEN "top"
             ELSE IF t \in Workers THEN "exited" ELSE "ready"]
  /\ job = [w \in Workers |-> None]
  /\ spurious = 0
  /\ pushed = <<>>
  /\ finished = {}

PoolInit == InitWith(Workers)

-----------------------------------------------------------------------------
(* worker(): the loop condition, read without the mutex.                   *)
CheckStop(w) ==
  /\ pc[w] = "top"
  /\ pc' = [pc EXCEPT ![w] = IF stop[w] THEN "exited" ELSE "enter"]
  /\ UNCHANGED <<m_jobs, m_pending, mutex, m_cv, m_done, stop, job, spurious,
                 pushed, finished>>

(* Take m_mutex, at first or after a wake-up, and evaluate the predicate   *)
(* of m_cv.wait; the mutex stays held.                                     *)
Enter(w) ==
  /\ pc[w] = "enter"
  /\ w \notin m_cv
  /\ mutex = None
  /\ mutex' = w
  /\ pc' = [pc EXCEPT ![w] =
              IF stop[w] \/ m_jobs # <<>> THEN "take" ELSE "sleep"]
  /\ UNCHANGED <<m_jobs, m_pending, m_cv, m_done, stop, job, spurious,
                 pushed, finished>>

(* The predicate was false: release the mutex and block, in one step.      *)
Sleep(w) ==
  /\ pc[w] = "sleep"
  /\ mutex' = None
  /\ m_cv' = m_cv \union {w}
  /\ pc' = [pc EXCEPT ![w] = "enter"]
  /\ UNCHANGED <<m_jobs, m_pending, m_done, stop, job, spurious,
                 pushed, finished>>

(* The predicate was true: return if the stop flag is set, or go on.       *)
Take(w) ==
  /\ pc[w] = "take"
  /\ IF stop[w]
     THEN pc' = [pc EXCEPT ![w] = "exited"] /\ mutex' = None
     ELSE pc' = [pc EXCEPT ![w] = "pop"] /\ UNCHANGED mutex
  /\ UNCHANGED <<m_jobs, m_pending, m_cv, m_done, stop, job, spurious,
                 pushed, finished>>

(* Pop the front of the queue, and release the mutex.                      *)
Pop(w) ==
  /\ pc[w] = "pop"
  /\ mutex' = None
  /\ job' = [job EXCEPT ![w] = Head(m_jobs)]
  /\ m_jobs' = Tail(m_jobs)
  /\ pc' = [pc EXCEPT ![w] = "run"]
  /\ UNCHANGED <<m_pending, m_cv, m_done, stop, spurious, pushed, finished>>

(* The destructor does not take the mutex, so the queue may be gone.       *)
PopFreed(w) ==
  /\ pc[w] = "pop"
  /\ Dismantled
  /\ pc' = [pc EXCEPT ![w] = "dead"]
  /\ UNCHANGED <<m_jobs, m_pending, mutex, m_cv, m_done, stop, job, spurious,
                 pushed, finished>>

(* job() returns.                                                          *)
RunJob(w) ==
  /\ pc[w] = "run"
  /\ pc' = [pc EXCEPT ![w] = "report"]
  /\ finished' = finished \union {job[w]}
  /\ UNCHANGED <<m_jobs, m_pending, mutex, m_cv, m_done, stop, job, spurious,
                 pushed>>

(* Mutant of Report: tests the count it is about to decrement.             *)
ReportTestsFirst(w) ==
  /\ pc[w] = "report"
  /\ mutex = None
  /\ m_pending' = m_pending - 1
  /\ m_done' = IF m_pending = 0 THEN {} ELSE m_done
  /\ job' = [job EXCEPT ![w] = None]
  /\ pc' = [pc EXCEPT ![w] = "top"]
  /\ UNCHANGED <<m_jobs, mutex, m_cv, stop, spurious, pushed, finished>>

(* Count the job as finished, and wake every waiting client at zero.       *)
Report(w) ==
  /\ pc[w] = "report"
  /\ mutex = None
  /\ m_pending' = m_pending - 1
  /\ m_done' = IF m_pending' = 0 THEN {} ELSE m_done
  /\ job' = [job EXCEPT ![w] = None]
  /\ pc' = [pc EXCEPT ![w] = "top"]
  /\ UNCHANGED <<m_jobs, mutex, m_cv, stop, spurious, pushed, finished>>

SpuriousWake(w) ==
  /\ w \in m_cv
  /\ spurious < MaxSpurious
  /\ spurious' = spurious + 1
  /\ m_cv' = m_cv \ {w}
  /\ UNCHANGED <<m_jobs, m_pending, mutex, m_done, stop, pc, job,
                 pushed, finished>>

WorkerStep(w) ==
  \/ CheckStop(w)
  \/ Enter(w)
  \/ Sleep(w)
  \/ Take(w)
  \/ Pop(w)
  \/ PopFreed(w)
  \/ RunJob(w)
  \/ Report(w)

-----------------------------------------------------------------------------
(* Mutant of Push: forgets to count the job.                               *)
PushUncounted(c, j) ==
  /\ pc[c] = "ready"
  /\ Open
  /\ j \notin Pushed
  /\ mutex = None
  /\ m_jobs' = Append(m_jobs, j)
  /\ pushed' = Append(pushed, j)
  /\ pc' = [pc EXCEPT ![c] = "notify"]
  /\ UNCHANGED <<m_pending, mutex, m_cv, m_done, stop, job, spurious, finished>>

(* push(): enqueue and count under the mutex ...                           *)
Push(c, j) ==
  /\ pc[c] = "ready"
  /\ Open
  /\ j \notin Pushed
  /\ mutex = None
  /\ m_jobs' = Append(m_jobs, j)
  /\ m_pending' = m_pending + 1
  /\ pushed' = Append(pushed, j)
  /\ pc' = [pc EXCEPT ![c] = "notify"]
  /\ UNCHANGED <<mutex, m_cv, m_done, stop, job, spurious, finished>>

(* Mutant of Notify: only notifies when the queue was empty before.        *)
NotifyFirstOnly(c) ==
  /\ pc[c] = "notify"
  /\ \/ Len(m_jobs) = 1 /\ \E w \in m_cv : m_cv' = m_cv \ {w}
     \/ (m_cv = {} \/ Len(m_jobs) # 1) /\ UNCHANGED m_cv
  /\ pc' = [pc EXCEPT ![c] = "ready"]
  /\ UNCHANGED <<m_jobs, m_pending, mutex, m_done, stop, job, spurious,
                 pushed, finished>>

(* Mutant of Notify: push() forgets to notify.                             *)
NotifyNobody(c) ==
  /\ pc[c] = "notify"
  /\ pc' = [pc EXCEPT ![c] = "ready"]
  /\ UNCHANGED <<m_jobs, m_pending, mutex, m_cv, m_done, stop, job, spurious,
                 pushed, finished>>

(* ... and m_cv.notify_one() after releasing it.                           *)
Notify(c) ==
  /\ pc[c] = "notify"
  /\ \/ \E w \in m_cv : m_cv' = m_cv \ {w}
     \/ m_cv = {} /\ UNCHANGED m_cv
  /\ pc' = [pc EXCEPT ![c] = "ready"]
  /\ UNCHANGED <<m_jobs, m_pending, mutex, m_done, stop, job, spurious,
                 pushed, finished>>

CallWait(c) ==
  /\ pc[c] = "ready"
  /\ Open
  /\ pc' = [pc EXCEPT ![c] = "waiting"]
  /\ UNCHANGED <<m_jobs, m_pending, mutex, m_cv, m_done, stop, job, spurious,
                 pushed, finished>>

(* Mutant of TestPending: waits for an empty queue, not for the jobs.      *)
TestQueueEmpty(c) ==
  /\ pc[c] = "waiting"
  /\ c \notin m_done
  /\ mutex = None
  /\ IF m_jobs = <<>>
     THEN /\ pc' = [pc EXCEPT ![c] = "ready"]
          /\ UNCHANGED m_done
     ELSE /\ m_done' = m_done \union {c}
          /\ UNCHANGED pc
  /\ UNCHANGED <<m_jobs, m_pending, mutex, m_cv, stop, job, spurious,
                 pushed, finished>>

(* wait() holds the mutex, at first or after a wake-up: its predicate only *)
(* reads m_pending, so testing it and blocking are one step.               *)
TestPending(c) ==
  /\ pc[c] = "waiting"
  /\ c \notin m_done
  /\ mutex = None
  /\ IF m_pending = 0
     THEN /\ pc' = [pc EXCEPT ![c] = "ready"]
          /\ UNCHANGED m_done
     ELSE /\ m_done' = m_done \union {c}
          /\ UNCHANGED pc
  /\ UNCHANGED <<m_jobs, m_pending, mutex, m_cv, stop, job, spurious,
                 pushed, finished>>

(* ~ThreadPool(): request_stop() triggers the stop tokens one by one,      *)
(* without the mutex; no other client may be inside the pool any more.     *)
Destroy(c) ==
  /\ pc[c] = "ready"
  /\ \A d \in Clients : pc[d] = "ready"
  /\ pc' = [pc EXCEPT ![c] = "stop"]
  /\ UNCHANGED <<m_jobs, m_pending, mutex, m_cv, m_done, stop, job, spurious,
                 pushed, finished>>

RequestStop(c, w) ==
  /\ pc[c] = "stop"
  /\ ~stop[w]
  /\ stop' = [stop EXCEPT ![w] = TRUE]
  /\ UNCHANGED <<m_jobs, m_pending, mutex, m_cv, m_done, pc, job, spurious,
                 pushed, finished>>

NotifyStop(c) ==
  /\ pc[c] = "stop"
  /\ \A w \in Workers : stop[w]
  /\ m_cv' = {}
  /\ pc' = [pc EXCEPT ![c] = "dismantle"]
  /\ UNCHANGED <<m_jobs, m_pending, mutex, m_done, stop, job, spurious,
                 pushed, finished>>

(* The members are destroyed from the last to the first: m_jobs, and only  *)
(* then m_threads.  What freed memory holds is what was there before.      *)
Dismantle(c) ==
  /\ pc[c] = "dismantle"
  /\ pc' = [pc EXCEPT ![c] = "join"]
  /\ UNCHANGED <<m_jobs, m_pending, mutex, m_cv, m_done, stop, job, spurious,
                 pushed, finished>>

(* The jthreads are joined when m_threads is destroyed, which is last.     *)
Join(c) ==
  /\ pc[c] = "join"
  /\ \A w \in Workers : pc[w] = "exited"
  /\ pc' = [pc EXCEPT ![c] = "gone"]
  /\ UNCHANGED <<m_jobs, m_pending, mutex, m_cv, m_done, stop, job, spurious,
                 pushed, finished>>

ClientStep(c) ==
  \/ \E j \in Jobs : Push(c, j)
  \/ Notify(c)
  \/ CallWait(c)
  \/ TestPending(c)
  \/ Destroy(c)
  \/ \E w \in Workers : RequestStop(c, w)
  \/ NotifyStop(c)
  \/ Dismantle(c)
  \/ Join(c)

PoolNext ==
  \/ \E w \in Workers : WorkerStep(w) \/ SpuriousWake(w)
  \/ \E c \in Clients : ClientStep(c)

PoolSpec == PoolInit /\ [][PoolNext]_poolVars

(* The scheduler runs every thread that can take a step; nothing makes a   *)
(* client push, wait or destroy, and nothing makes a wake-up spurious.     *)
PoolFairness ==
  /\ \A w \in Workers : WF_poolVars(WorkerStep(w))
  /\ \A c \in Clients :
       /\ WF_poolVars(Notify(c))
       /\ WF_poolVars(TestPending(c))

FairPoolSpec == PoolSpec /\ PoolFairness

-----------------------------------------------------------------------------
(* Every variable of the pool has its type, and at most one thread holds   *)
(* the mutex: the one in the critical section of the worker loop.          *)
TypeOK ==
  /\ m_jobs \in Seq(Jobs)
  /\ m_pending \in Nat
  /\ mutex \in Workers \union {None}
  /\ m_cv \subseteq Workers
  /\ m_done \subseteq Clients
  /\ stop \in [Workers -> BOOLEAN]
  /\ pc \in [Workers \union Clients ->
               {"top", "enter", "sleep", "take", "pop", "run", "report", "exited",
                "dead", "ready", "notify", "waiting", "stop", "dismantle", "join",
                "gone"}]
  /\ job \in [Workers -> Jobs \union {None}]
  /\ spurious \in 0..MaxSpurious
  /\ pushed \in Seq(Jobs)
  /\ finished \subseteq Jobs

(* m_pending, which push() and worker() update in different critical       *)
(* sections, always counts the queued jobs and those a worker still holds: *)
(* it cannot wrap below zero and reaches zero exactly when nothing is left.*)
PendingExact == m_pending = Len(m_jobs) + Cardinality(Busy)

(* A client blocked in wait() still has a Report to wake it: the last      *)
(* notify_all cannot slip between its test of m_pending and its blocking.  *)
WaiterHasWaker == m_done # {} => m_pending > 0

(* push() wakes one worker per job, and that is enough: while a worker     *)
(* sleeps, every queued job has an awake, idle worker on its way to it or  *)
(* a client about to notify; no job waits behind a busy worker.            *)
Coming ==
  {w \in Workers : \/ pc[w] \in {"top", "take", "pop"}
                   \/ pc[w] = "enter" /\ w \notin m_cv}

Notifying == {c \in Clients : pc[c] = "notify"}

WorkConserving ==
  Open /\ m_cv # {} =>
    Len(m_jobs) <= Cardinality(Coming) + Cardinality(Notifying)

(* The pool keeps the promise of JobPool: jobs start once, in the order of *)
(* push, and wait() returns only when every job pushed so far, by any      *)
(* client, has run to its end.                                             *)
Abstract == INSTANCE JobPool WITH
  submitted <- pushed,
  started <- Taken,
  done <- finished,
  waiting <- {c \in Clients : pc[c] = "waiting"}

ImplementsJobPool == Abstract!JobSpec

(* A job that was pushed is eventually run, unless the pool is destroyed.  *)
JobsFinish ==
  \A j \in Jobs : (j \in Pushed) ~> (j \in finished \/ ~Open)

(* wait() returns: the notify_all at zero reaches every waiting client.    *)
WaitReturns ==
  \A c \in Clients : (pc[c] = "waiting") ~> (pc[c] = "ready")

=============================================================================
