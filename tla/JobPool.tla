------------------------------ MODULE JobPool ------------------------------
(***************************************************************************)
(* What ThreadPool (lace/include/lace/core/ThreadPool.hpp) promises to the *)
(* code that uses it, with no thread, lock or condition variable in sight: *)
(* every submitted job starts once, in the order of submission, finishes   *)
(* after it started, and a client's wait() ends only at a moment at which  *)
(* nothing submitted is left unfinished.                                   *)
(***************************************************************************)
EXTENDS Naturals, Sequences

CONSTANTS Jobs,      \* the jobs that can be submitted
          Clients    \* the threads that submit jobs and wait for them

VARIABLES submitted, \* the jobs submitted so far, in order
          started,   \* how many of them a worker has taken
          done,      \* the jobs whose function has returned
          waiting    \* the clients inside wait()

jobVars == <<submitted, started, done, waiting>>

Submitted == {submitted[i] : i \in 1..Len(submitted)}

Started == {submitted[i] : i \in 1..started}

JobInit ==
  /\ submitted = <<>>
  /\ started = 0
  /\ done = {}
  /\ waiting = {}

Submit(j) ==
  /\ j \notin Submitted
  /\ submitted' = Append(submitted, j)
  /\ UNCHANGED <<started, done, waiting>>

Start ==
  /\ started < Len(submitted)
  /\ started' = started + 1
  /\ UNCHANGED <<submitted, done, waiting>>

Finish(j) ==
  /\ j \in Started \ done
  /\ done' = done \union {j}
  /\ UNCHANGED <<submitted, started, waiting>>

BeginWait(c) ==
  /\ c \notin waiting
  /\ waiting' = waiting \union {c}
  /\ UNCHANGED <<submitted, started, done>>

EndWait(c) ==
  /\ c \in waiting
  /\ Submitted \subseteq done
  /\ waiting' = waiting \ {c}
  /\ UNCHANGED <<submitted, started, done>>

JobNext ==
  \/ Start
  \/ \E j \in Jobs : Submit(j) \/ Finish(j)
  \/ \E c \in Clients : BeginWait(c) \/ EndWait(c)

JobSpec == JobInit /\ [][JobNext]_jobVars

=============================================================================
