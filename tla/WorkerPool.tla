----------------------------- MODULE WorkerPool -----------------------------
(***************************************************************************)
(* hype::WorkerPool (src/threading/worker_pool.h, worker_pool.cpp): the    *)
(* threads that run the linear sweep of the analyzer.  One mutex, a queue, *)
(* two condition variables and two atomics.  What is done under the mutex  *)
(* is one step, except where an atomic that other threads touch WITHOUT    *)
(* the mutex is involved: stop_ and pending_.  A call of                   *)
(* condition_variable::wait(lk, pred) is its loop: evaluate the predicate  *)
(* with the mutex held, then release and block in one step, and start over *)
(* with the mutex when woken.  A notification finds only the threads that  *)
(* are blocked at that moment, and a blocked thread may wake unnotified.   *)
(***************************************************************************)
EXTENDS Naturals, Sequences, FiniteSets

CONSTANTS
  Worker,        \* the threads made by the constructor
  Client,        \* the threads that call submit and wait_idle
  Task,          \* the callables handed to submit, each at most once
  None,          \* no thread, no task
  MaxWaits,      \* bound: the calls of wait_idle by one client
  MaxSpurious    \* bound: the wake-ups that no notification causes

ASSUME PoolAssumption ==
  /\ IsFiniteSet(Task)
  /\ Worker # {}                   \* hardware_concurrency(), or 4 if that is 0
  /\ Worker \intersect Client = {}
  /\ None \notin Worker \union Client \union Task
  /\ MaxWaits \in Nat
  /\ MaxSpurious \in Nat

VARIABLES
  queue,      \* queue_
  pending,    \* pending_
  stop,       \* stop_
  mtx,        \* the holder of mtx_, or None
  onCv,       \* the workers blocked on cv_
  onIdle,     \* the clients blocked on idle_cv_
  pc,         \* where each worker and client stands
  task,       \* the local `task` of a worker, the argument of a client in submit
  owner,      \* how far the destructor has come
  fresh,      \* history: the tasks not handed in yet
  done,       \* history: the tasks that ran; their futures are ready
  waits,      \* history: the calls of wait_idle so far, by client
  spurious    \* history: the spurious wake-ups so far

bounds == <<waits, spurious>>
vars == <<queue, pending, stop, mtx, onCv, onIdle, pc, task, owner, fresh, done, bounds>>

Thread == Worker \union Client

WorkerPc == {"lock", "test", "block", "run", "retire", "notify", "exit"}
ClientPc == {"idle", "count", "notifyOne", "waitLock", "waitTest", "waitBlock"}
OwnerPc  == {"alive", "stopped", "joining", "destroyed"}

Queued == {queue[i] : i \in DOMAIN queue}

At(p, l) == pc[p] = l
Goto(p, l) == pc' = [pc EXCEPT ![p] = l]

Init ==
  /\ queue = <<>>
  /\ pending = 0
  /\ stop = FALSE
  /\ mtx = None
  /\ onCv = {} /\ onIdle = {}
  /\ pc = [p \in Thread |-> IF p \in Worker THEN "lock" ELSE "idle"]
  /\ task = [p \in Thread |-> None]
  /\ owner = "alive"
  /\ fresh = Task
  /\ done = {}
  /\ waits = [c \in Client |-> 0]
  /\ spurious = 0
----------------------------------------------------------------------------
(* The worker loop.  A worker in onCv is blocked and cannot take the mutex. *)
WorkerLock(w) ==
  /\ At(w, "lock") /\ w \notin onCv
  /\ mtx = None
  /\ mtx' = w
  /\ Goto(w, "test")
  /\ UNCHANGED <<queue, pending, stop, onCv, onIdle, task, owner, fresh, done, bounds>>

(* Pop the front and leave the critical section.                           *)
WorkerTake(w) ==
  /\ At(w, "test") /\ queue # <<>>
  /\ task' = [task EXCEPT ![w] = Head(queue)]
  /\ queue' = Tail(queue)
  /\ mtx' = None
  /\ Goto(w, "run")
  /\ UNCHANGED <<pending, stop, onCv, onIdle, owner, fresh, done, bounds>>

WorkerExitOnStop(w) ==   \* mutant: `if (stop_) return`, whatever is queued
  /\ At(w, "test") /\ stop
  /\ mtx' = None
  /\ Goto(w, "exit")
  /\ UNCHANGED <<queue, pending, stop, onCv, onIdle, task, owner, fresh, done, bounds>>

WorkerExit(w) ==
  /\ At(w, "test") /\ queue = <<>> /\ stop
  /\ mtx' = None
  /\ Goto(w, "exit")
  /\ UNCHANGED <<queue, pending, stop, onCv, onIdle, task, owner, fresh, done, bounds>>

(* The predicate was false; the mutex is still held.                       *)
WorkerMustWait(w) ==
  /\ At(w, "test") /\ queue = <<>> /\ ~stop
  /\ Goto(w, "block")
  /\ UNCHANGED <<queue, pending, stop, mtx, onCv, onIdle, task, owner, fresh, done, bounds>>

WorkerBlock(w) ==
  /\ At(w, "block")
  /\ mtx' = None
  /\ onCv' = onCv \union {w}
  /\ Goto(w, "lock")
  /\ UNCHANGED <<queue, pending, stop, onIdle, task, owner, fresh, done, bounds>>

(* task(): the packaged task ends and its future becomes ready.            *)
WorkerRun(w) ==
  /\ At(w, "run")
  /\ done' = done \union {task[w]}
  /\ Goto(w, "retire")
  /\ UNCHANGED <<queue, pending, stop, mtx, onCv, onIdle, task, owner, fresh, bounds>>

(* `--pending_ == 0` is one atomic step, without the mutex.                *)
WorkerRetire(w) ==
  /\ At(w, "retire")
  /\ pending' = pending - 1
  /\ task' = [task EXCEPT ![w] = None]
  /\ Goto(w, IF pending' = 0 THEN "notify" ELSE "lock")
  /\ UNCHANGED <<queue, stop, mtx, onCv, onIdle, owner, fresh, done, bounds>>

WorkerNotifyOneIdle(w) ==   \* mutant: notify_one
  /\ At(w, "notify")
  /\ IF onIdle = {} THEN onIdle' = {} ELSE \E c \in onIdle : onIdle' = onIdle \ {c}
  /\ Goto(w, "lock")
  /\ UNCHANGED <<queue, pending, stop, mtx, onCv, task, owner, fresh, done, bounds>>

(* idle_cv_.notify_all(), without the mutex.                               *)
WorkerNotifyIdle(w) ==
  /\ At(w, "notify")
  /\ onIdle' = {}
  /\ Goto(w, "lock")
  /\ UNCHANGED <<queue, pending, stop, mtx, onCv, task, owner, fresh, done, bounds>>
----------------------------------------------------------------------------
(* submit: the critical section has two writes, and pending_ is read and   *)
(* written by others between them; notify_one comes after the unlock.      *)
Enqueue(c, t) ==
  /\ owner = "alive" /\ At(c, "idle")
  /\ t \in fresh
  /\ mtx = None
  /\ mtx' = c
  /\ queue' = Append(queue, t)
  /\ task' = [task EXCEPT ![c] = t]
  /\ fresh' = fresh \ {t}
  /\ Goto(c, "count")
  /\ UNCHANGED <<pending, stop, onCv, onIdle, owner, done, bounds>>

Count(c) ==
  /\ At(c, "count")
  /\ pending' = pending + 1
  /\ mtx' = None
  /\ task' = [task EXCEPT ![c] = None]
  /\ Goto(c, "notifyOne")
  /\ UNCHANGED <<queue, stop, onCv, onIdle, owner, fresh, done, bounds>>

NotifyOne(c) ==
  /\ At(c, "notifyOne")
  /\ \/ onCv = {} /\ UNCHANGED onCv
     \/ \E w \in onCv : onCv' = onCv \ {w}
  /\ Goto(c, "idle")
  /\ UNCHANGED <<queue, pending, stop, mtx, onIdle, task, owner, fresh, done, bounds>>
----------------------------------------------------------------------------
(* wait_idle: lock, then idle_cv_.wait with the predicate pending_ == 0.   *)
WaitIdle(c) ==
  /\ owner = "alive" /\ At(c, "idle")
  /\ waits[c] < MaxWaits
  /\ waits' = [waits EXCEPT ![c] = @ + 1]
  /\ Goto(c, "waitLock")
  /\ UNCHANGED <<queue, pending, stop, mtx, onCv, onIdle, task, owner, fresh, done, spurious>>

WaitLock(c) ==
  /\ At(c, "waitLock") /\ c \notin onIdle
  /\ mtx = None
  /\ mtx' = c
  /\ Goto(c, "waitTest")
  /\ UNCHANGED <<queue, pending, stop, onCv, onIdle, task, owner, fresh, done, bounds>>

WaitReturnQueueEmpty(c) ==   \* mutant: the predicate is queue_.empty()
  /\ At(c, "waitTest") /\ queue = <<>>
  /\ mtx' = None
  /\ Goto(c, "idle")
  /\ UNCHANGED <<queue, pending, stop, onCv, onIdle, task, owner, fresh, done, bounds>>

WaitReturn(c) ==
  /\ At(c, "waitTest") /\ pending = 0
  /\ mtx' = None
  /\ Goto(c, "idle")
  /\ UNCHANGED <<queue, pending, stop, onCv, onIdle, task, owner, fresh, done, bounds>>

WaitMustWait(c) ==
  /\ At(c, "waitTest") /\ pending # 0
  /\ Goto(c, "waitBlock")
  /\ UNCHANGED <<queue, pending, stop, mtx, onCv, onIdle, task, owner, fresh, done, bounds>>

WaitBlock(c) ==
  /\ At(c, "waitBlock")
  /\ mtx' = None
  /\ onIdle' = onIdle \union {c}
  /\ Goto(c, "waitLock")
  /\ UNCHANGED <<queue, pending, stop, onCv, task, owner, fresh, done, bounds>>
----------------------------------------------------------------------------
(* The destructor: no client is in a call, and none calls afterwards.      *)
DtorStop ==
  /\ owner = "alive"
  /\ \A c \in Client : At(c, "idle")
  /\ stop' = TRUE
  /\ owner' = "stopped"
  /\ UNCHANGED <<queue, pending, mtx, onCv, onIdle, pc, task, fresh, done, bounds>>

DtorNotifyOne ==   \* mutant: notify_one
  /\ owner = "stopped"
  /\ \/ onCv = {} /\ UNCHANGED onCv
     \/ \E w \in onCv : onCv' = onCv \ {w}
  /\ owner' = "joining"
  /\ UNCHANGED <<queue, pending, stop, mtx, onIdle, pc, task, fresh, done, bounds>>

(* cv_.notify_all(), without the mutex.                                    *)
DtorNotify ==
  /\ owner = "stopped"
  /\ onCv' = {}
  /\ owner' = "joining"
  /\ UNCHANGED <<queue, pending, stop, mtx, onIdle, pc, task, fresh, done, bounds>>

DtorJoined ==
  /\ owner = "joining"
  /\ \A w \in Worker : At(w, "exit")
  /\ owner' = "destroyed"
  /\ UNCHANGED <<queue, pending, stop, mtx, onCv, onIdle, pc, task, fresh, done, bounds>>

(* The standard allows a blocked thread to wake without a notification.    *)
SpuriousWakeup ==
  /\ spurious < MaxSpurious
  /\ spurious' = spurious + 1
  /\ \/ \E w \in onCv : onCv' = onCv \ {w} /\ UNCHANGED onIdle
     \/ \E c \in onIdle : onIdle' = onIdle \ {c} /\ UNCHANGED onCv
  /\ UNCHANGED <<queue, pending, stop, mtx, pc, task, owner, fresh, done, waits>>
----------------------------------------------------------------------------
WorkerStep(w) ==
  \/ WorkerLock(w) \/ WorkerTake(w) \/ WorkerExit(w) \/ WorkerMustWait(w)
  \/ WorkerBlock(w) \/ WorkerRun(w) \/ WorkerRetire(w) \/ WorkerNotifyIdle(w)

(* The steps of a client inside a call; making a call is its own choice.   *)
ClientStep(c) ==
  \/ Count(c) \/ NotifyOne(c)
  \/ WaitLock(c) \/ WaitReturn(c) \/ WaitMustWait(c) \/ WaitBlock(c)

ClientCall(c) == WaitIdle(c) \/ \E t \in Task : Enqueue(c, t)

Next ==
  \/ \E w \in Worker : WorkerStep(w)
  \/ \E c \in Client : ClientStep(c) \/ ClientCall(c)
  \/ DtorStop \/ DtorNotify \/ DtorJoined
  \/ SpuriousWakeup

Safe == Init /\ [][Next]_vars

(* The operating system runs every thread that can run.  With the calls    *)
(* and the spurious wake-ups bounded, the mutex is taken finitely often, so *)
(* weak fairness is enough for a thread that wants it.                     *)
Fairness ==
  /\ \A w \in Worker : WF_vars(WorkerStep(w))
  /\ \A c \in Client : WF_vars(ClientStep(c))
  /\ WF_vars(DtorNotify) /\ WF_vars(DtorJoined)

Spec == Safe /\ Fairness
----------------------------------------------------------------------------
TypeOK ==
  /\ queue \in Seq(Task)
  /\ pending \in Nat
  /\ stop \in BOOLEAN
  /\ mtx \in Thread \union {None}
  /\ onCv \subseteq Worker /\ onIdle \subseteq Client
  /\ pc \in [Thread -> WorkerPc \union ClientPc]
  /\ \A w \in Worker : pc[w] \in WorkerPc
  /\ \A c \in Client : pc[c] \in ClientPc
  /\ task \in [Thread -> Task \union {None}]
  /\ owner \in OwnerPc
  /\ fresh \subseteq Task /\ done \subseteq Task
  /\ waits \in [Client -> 0..MaxWaits]
  /\ spurious \in 0..MaxSpurious

(* The tasks that pending_ must count: queued or held by a worker, except   *)
(* the one whose submit has not reached ++pending_.                        *)
Outstanding ==
  {t \in Queued \union {task[w] : w \in Worker} :
     t # None /\ \A c \in Client : task[c] # t}

(* pending_ is the number of tasks handed in and not retired: it never      *)
(* wraps below zero, and --pending_ == 0 is really the last one.            *)
PendingCounts == pending = Cardinality(Outstanding)

(* No lost wake-up on cv_: when tasks are queued and every worker sleeps,   *)
(* a submit still has its notify_one to do.                                *)
QueuedWorkIsNoticed ==
  queue # <<>> /\ onCv = Worker => \E c \in Client : pc[c] \in {"count", "notifyOne"}

(* wait_idle returns only when every task handed in by anyone has run.      *)
WaitIdleMeansIdle ==
  [][\A c \in Client : At(c, "waitTest") /\ pc'[c] = "idle" => Task \ fresh \subseteq done]_vars

(* Destroying the pool loses no task: the workers drain the queue first.    *)
DestroyedMeansDone == owner = "destroyed" => Task \ fresh \subseteq done

(* A client blocked in wait_idle while tasks are outstanding is woken.  (A   *)
(* client that blocks after the last decrement was notified is not: the     *)
(* decrement does not take the mutex.)                                     *)
WaiterIsWoken == \A c \in Client : (c \in onIdle /\ pending > 0) ~> (c \notin onIdle)

(* The destructor returns, unless a worker had found stop_ false and had    *)
(* not blocked when notify_all came: stop_ is set without the mutex.        *)
ShutdownEnds ==
  (owner = "stopped" /\ \A w \in Worker : ~At(w, "block")) ~> (owner = "destroyed")

(* The pool is a FIFO of tasks, each started once and finished.             *)
Pool == INSTANCE TaskPool WITH
  waiting  <- queue,
  running  <- {task[w] : w \in {v \in Worker : pc[v] = "run"}},
  finished <- done,
  closed   <- (owner = "destroyed")

ImplementsPool == Pool!Spec
=============================================================================
