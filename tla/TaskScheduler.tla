---------------------------- MODULE TaskScheduler ---------------------------
(***************************************************************************)
(* hype::TaskScheduler (src/threading/task_scheduler.h, task_scheduler.cpp) *)
(* on top of a WorkerPool, which is taken here at the level TaskPool       *)
(* describes: a FIFO of callables, each started once by some worker.  Of   *)
(* the pool it keeps what run_all meets in wait_idle: the counter, taken   *)
(* down and announced without the pool's mutex, and that mutex itself,     *)
(* which a worker may ask for while it holds the scheduler's.              *)
(* run_all walks the task table on the caller's thread WITHOUT the mutex   *)
(* while the workers, under the mutex, release the tasks that depend on    *)
(* what they finished: both may find the same task ready.                  *)
(***************************************************************************)
EXTENDS Integers, Sequences, FiniteSets, SequencesExt

CONSTANTS
  Id,        \* the names of tasks
  Worker,    \* the threads of the pool
  None,      \* no worker, no task
  Programs,  \* what callers add: sequences of [id |-> Id, deps |-> Seq(Id)]
  MaxSpurious \* bound: the wake-ups of one run_all that no notification causes

ASSUME SchedulerAssumption ==
  /\ IsFiniteSet(Id) /\ Worker # {}
  /\ None \notin Worker \union Id
  /\ MaxSpurious \in Nat
  /\ \A p \in Programs :
       /\ p \in Seq([id : Id, deps : Seq(Id)])
       /\ \A i, j \in DOMAIN p : p[i].id = p[j].id => i = j

VARIABLES
  adding,     \* the calls of add still to come
  deps,       \* history: the dependencies of each task in tasks_, by id
  rdeps,      \* rdeps_
  pend,       \* pending_ of the tasks in tasks_
  total, done,\* total_ and done_
  toVisit,    \* the entries of tasks_ that the loop of run_all has yet to visit
  main,       \* where the caller stands
  backlog,    \* the ids submitted to the pool and not started
  at,         \* where each worker stands in the submitted callable
  id,         \* the id captured by the callable a worker runs
  left,       \* the dependents a worker has yet to release
  mtx,        \* the holder of mtx_
  leaving,    \* where each worker stands between a callable and the next
  missed,     \* history: a notification came while the caller held the mutex to block
  spurious,   \* history: the spurious wake-ups of this run_all
  dispatched, \* history: how often each task was submitted
  ended       \* history: how often work() of each task returned

table == <<deps, rdeps, total>>
pool  == <<at, id, left, mtx>>
idling == <<leaving, missed, spurious>>
vars  == <<adding, table, pend, done, toVisit, main, backlog, pool, idling, dispatched, ended>>

Tasks == DOMAIN deps

Init ==
  /\ adding \in Programs
  /\ deps = [t \in {} |-> <<>>]
  /\ rdeps = [t \in Id |-> {}]
  /\ pend = [t \in Id |-> 0]
  /\ total = 0 /\ done = 0
  /\ toVisit = {}
  /\ main = "adding"
  /\ backlog = <<>>
  /\ at = [w \in Worker |-> "idle"]
  /\ id = [w \in Worker |-> None]
  /\ left = [w \in Worker |-> {}]
  /\ mtx = None
  /\ leaving = [w \in Worker |-> "no"]
  /\ missed = FALSE
  /\ spurious = 0
  /\ dispatched = [t \in Id |-> 0]
  /\ ended = [t \in Id |-> 0]
----------------------------------------------------------------------------
(* add, with an id not used before: the counter is the length of the        *)
(* vector, repeats included, while rdeps_ holds a set.                      *)
Add ==
  /\ main = "adding" /\ adding # <<>>
  /\ LET t == Head(adding).id
         d == Head(adding).deps
     IN  /\ rdeps' = [x \in Id |-> IF x \in ToSet(d) THEN rdeps[x] \union {t} ELSE rdeps[x]]
         /\ pend' = [pend EXCEPT ![t] = Len(d)]
         /\ deps' = [x \in Tasks \union {t} |-> IF x = t THEN d ELSE deps[x]]
  /\ total' = total + 1
  /\ adding' = Tail(adding)
  /\ UNCHANGED <<done, toVisit, main, backlog, pool, idling, dispatched, ended>>

Submit(t) ==
  /\ backlog' = Append(backlog, t)
  /\ dispatched' = [dispatched EXCEPT ![t] = @ + 1]

RunAll ==
  /\ main = "adding" /\ adding = <<>>
  /\ toVisit' = Tasks
  /\ main' = "visiting"
  /\ UNCHANGED <<adding, table, pend, done, backlog, pool, idling, dispatched, ended>>

VisitEvery(t) ==   \* mutant: the counter is not looked at
  /\ main = "visiting" /\ t \in toVisit
  /\ toVisit' = toVisit \ {t}
  /\ Submit(t)
  /\ UNCHANGED <<adding, table, pend, done, main, pool, idling, ended>>

(* One round of the loop of run_all, in the order of a hash table: the     *)
(* counter is read without the mutex.                                      *)
Visit(t) ==
  /\ main = "visiting" /\ t \in toVisit
  /\ toVisit' = toVisit \ {t}
  /\ IF pend[t] = 0 THEN Submit(t) ELSE UNCHANGED <<backlog, dispatched>>
  /\ UNCHANGED <<adding, table, pend, done, main, pool, idling, ended>>

LoopDone ==
  /\ main = "visiting" /\ toVisit = {}
  /\ main' = "waiting"
  /\ UNCHANGED <<adding, table, pend, done, toVisit, backlog, pool, idling, dispatched, ended>>

(* The pool's pending_ is zero: nothing is queued, no worker holds a        *)
(* callable or has yet to count one down.                                  *)
PoolIdle ==
  /\ backlog = <<>>
  /\ \A w \in Worker : at[w] = "idle" /\ leaving[w] # "counting"

(* wait_idle looks at the counter under the pool's mutex, and goes on        *)
(* holding it when it has to block.                                        *)
Test ==
  /\ main = "waiting"
  /\ main' = IF PoolIdle THEN "returned" ELSE "holding"
  /\ missed' = FALSE
  /\ UNCHANGED <<adding, table, pend, done, toVisit, backlog, pool, leaving, spurious, dispatched, ended>>

Block ==
  /\ main = "holding"
  /\ main' = "blocked"
  /\ UNCHANGED <<adding, table, pend, done, toVisit, backlog, pool, idling, dispatched, ended>>

SpuriousWakeup ==
  /\ main = "blocked" /\ spurious < MaxSpurious
  /\ main' = "waiting"
  /\ spurious' = spurious + 1
  /\ UNCHANGED <<adding, table, pend, done, toVisit, backlog, pool, leaving, missed, dispatched, ended>>

(* reset, then a new set of tasks.  The histories start over with them.    *)
Reset ==
  /\ main = "returned"
  /\ adding' \in Programs
  /\ deps' = [t \in {} |-> <<>>]
  /\ rdeps' = [t \in Id |-> {}]
  /\ pend' = [t \in Id |-> 0]
  /\ total' = 0 /\ done' = 0
  /\ dispatched' = [t \in Id |-> 0]
  /\ ended' = [t \in Id |-> 0]
  /\ main' = "adding"
  /\ spurious' = 0
  /\ UNCHANGED <<toVisit, backlog, pool, leaving, missed>>
----------------------------------------------------------------------------
(* The callable that try_dispatch submits, taken under the pool's mutex.   *)
Start(w) ==
  /\ at[w] = "idle" /\ leaving[w] = "no" /\ backlog # <<>>
  /\ main # "holding"
  /\ id' = [id EXCEPT ![w] = Head(backlog)]
  /\ backlog' = Tail(backlog)
  /\ at' = [at EXCEPT ![w] = "work"]
  /\ UNCHANGED <<adding, table, pend, done, toVisit, main, left, mtx, idling, dispatched, ended>>

Work(w) ==
  /\ at[w] = "work"
  /\ ended' = [ended EXCEPT ![id[w]] = @ + 1]
  /\ done' = done + 1
  /\ at' = [at EXCEPT ![w] = "lock"]
  /\ UNCHANGED <<adding, table, pend, toVisit, main, backlog, id, left, mtx, idling, dispatched>>

Lock(w) ==
  /\ at[w] = "lock" /\ mtx = None
  /\ mtx' = w
  /\ left' = [left EXCEPT ![w] = rdeps[id[w]]]
  /\ at' = [at EXCEPT ![w] = "release"]
  /\ UNCHANGED <<adding, table, pend, done, toVisit, main, backlog, id, idling, dispatched, ended>>

ReleaseVisited(w, t) ==   \* mutant: leaves a task that run_all has yet to visit to run_all
  /\ at[w] = "release" /\ t \in left[w]
  /\ left' = [left EXCEPT ![w] = @ \ {t}]
  /\ pend' = [pend EXCEPT ![t] = @ - 1]
  /\ pend'[t] = 0 => main # "holding"
  /\ IF pend'[t] = 0 /\ main # "visiting" THEN Submit(t) ELSE UNCHANGED <<backlog, dispatched>>
  /\ UNCHANGED <<adding, table, done, toVisit, main, at, id, mtx, idling, ended>>

(* One round of the loop over rdeps_[id]: a step of its own, because       *)
(* run_all reads the counters between two of them.  To submit, the worker   *)
(* takes the pool's mutex under the scheduler's.                           *)
Release(w, t) ==
  /\ at[w] = "release" /\ t \in left[w]
  /\ left' = [left EXCEPT ![w] = @ \ {t}]
  /\ pend' = [pend EXCEPT ![t] = @ - 1]
  /\ pend'[t] = 0 => main # "holding"
  /\ IF pend'[t] = 0 THEN Submit(t) ELSE UNCHANGED <<backlog, dispatched>>
  /\ UNCHANGED <<adding, table, done, toVisit, main, at, id, mtx, idling, ended>>

FinishHolding(w) ==   \* mutant: the lock outlives the callable
  /\ at[w] = "release" /\ left[w] = {}
  /\ at' = [at EXCEPT ![w] = "idle"]
  /\ id' = [id EXCEPT ![w] = None]
  /\ leaving' = [leaving EXCEPT ![w] = "counting"]
  /\ UNCHANGED <<adding, table, pend, done, toVisit, main, backlog, left, mtx, missed, spurious, dispatched, ended>>

Finish(w) ==
  /\ at[w] = "release" /\ left[w] = {}
  /\ mtx' = None
  /\ at' = [at EXCEPT ![w] = "idle"]
  /\ id' = [id EXCEPT ![w] = None]
  /\ leaving' = [leaving EXCEPT ![w] = "counting"]
  /\ UNCHANGED <<adding, table, pend, done, toVisit, main, backlog, left, missed, spurious, dispatched, ended>>

(* Back in the pool's loop: --pending_ without the mutex, and the worker    *)
(* that took it to zero has to notify.                                     *)
Retire(w) ==
  /\ leaving[w] = "counting"
  /\ LET last == /\ backlog = <<>>
                 /\ \A v \in Worker \ {w} : at[v] = "idle" /\ leaving[v] # "counting"
     IN  leaving' = [leaving EXCEPT ![w] = IF last THEN "notifying" ELSE "no"]
  /\ UNCHANGED <<adding, table, pend, done, toVisit, main, backlog, pool, missed, spurious, dispatched, ended>>

(* notify_all of idle_cv_: it wakes a caller that is blocked, and one that   *)
(* has looked at the counter but does not block yet never hears of it.      *)
Notify(w) ==
  /\ leaving[w] = "notifying"
  /\ leaving' = [leaving EXCEPT ![w] = "no"]
  /\ main' = IF main = "blocked" THEN "waiting" ELSE main
  /\ missed' = (missed \/ main = "holding")
  /\ UNCHANGED <<adding, table, pend, done, toVisit, backlog, pool, spurious, dispatched, ended>>
----------------------------------------------------------------------------
WorkerStep(w) ==
  \/ Start(w) \/ Work(w) \/ Lock(w) \/ Finish(w) \/ Retire(w) \/ Notify(w)
  \/ \E t \in Id : Release(w, t)

RunAllStep == LoopDone \/ Test \/ Block \/ \E t \in Id : Visit(t)

Next ==
  \/ Add \/ RunAll \/ RunAllStep \/ SpuriousWakeup \/ Reset
  \/ \E w \in Worker : WorkerStep(w)

Safe == Init /\ [][Next]_vars

(* The caller is inside run_all and the workers are threads: each goes on.  *)
(* Spurious wake-ups being bounded, nothing but a notification is sure to    *)
(* wake a blocked caller.                                                  *)
Spec == Safe /\ WF_vars(RunAllStep) /\ \A w \in Worker : WF_vars(WorkerStep(w))
----------------------------------------------------------------------------
TypeOK ==
  /\ Tasks \subseteq Id /\ \A t \in Tasks : deps[t] \in Seq(Id)
  /\ rdeps \in [Id -> SUBSET Id]
  /\ pend \in [Id -> Int]
  /\ total \in Nat /\ done \in Nat
  /\ toVisit \subseteq Tasks
  /\ main \in {"adding", "visiting", "waiting", "holding", "blocked", "returned"}
  /\ backlog \in Seq(Tasks)
  /\ at \in [Worker -> {"idle", "work", "lock", "release"}]
  /\ id \in [Worker -> Tasks \union {None}]
  /\ left \in [Worker -> SUBSET Tasks]
  /\ mtx \in Worker \union {None}
  /\ leaving \in [Worker -> {"no", "counting", "notifying"}]
  /\ missed \in BOOLEAN /\ spurious \in 0..MaxSpurious
  /\ dispatched \in [Id -> Nat] /\ ended \in [Id -> Nat]

DepsOf(t) == ToSet(deps[t])

(* The tasks whose dependencies are all met in the end: no name nobody      *)
(* added, no cycle, no dependency written twice.                           *)
Runnable ==
  LET Layer[n \in 0..Cardinality(Id)] ==
        IF n = 0 THEN {}
        ELSE {t \in Tasks : IsInjective(deps[t]) /\ DepsOf(t) \subseteq Layer[n - 1]}
  IN  Layer[Cardinality(Id)]

(* Whatever the interleaving, a task is submitted at most twice (once when  *)
(* its counter hits zero, once by run_all), and a task without              *)
(* dependencies once.                                                      *)
AtMostTwice ==
  \A t \in Tasks : dispatched[t] <= (IF deps[t] = <<>> THEN 1 ELSE 2)

(* A task starts only when all its dependencies have run, unless one of     *)
(* them was submitted twice and counted for another.                       *)
DependenciesRanFirst ==
  \A w \in Worker : at[w] = "work" =>
    \/ \A d \in DepsOf(id[w]) : ended[d] > 0
    \/ \E d \in DepsOf(id[w]) : dispatched[d] = 2

(* When the pool is idle after the walk of run_all, every task that can run *)
(* has run, although run_all never counts what the workers submit; so it is  *)
(* when run_all returns, and also when it sleeps for ever.                  *)
RunAllRanAll ==
  main = "returned" \/ (main \in {"waiting", "holding", "blocked"} /\ PoolIdle) =>
    /\ \A t \in Runnable : ended[t] > 0
    /\ \A t \in Id : ended[t] = dispatched[t]

(* The caller blocks on a pool that is idle already: the one notification    *)
(* came between its look at the counter and its going to sleep.             *)
SleptThrough ==
  main = "blocked" /\ missed /\ PoolIdle /\ \A w \in Worker : leaving[w] = "no"

(* run_all returns, or it is that last notification of the pool, sent        *)
(* without the mutex, that it lost: nothing else holds it up, neither the    *)
(* two mutexes, one taken under the other, nor a task left waiting.         *)
RunAllReturns == main = "visiting" ~> main = "returned" \/ SleptThrough
=============================================================================
