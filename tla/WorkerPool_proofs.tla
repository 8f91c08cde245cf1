-------------------------- MODULE WorkerPool_proofs -------------------------
(***************************************************************************)
(* Proofs about WorkerPool for every set of workers, clients and tasks.    *)
(* The argument has layers, each proved with the help of those before it:  *)
(*   Types     the variables have their types; pending_ is any integer     *)
(*   LockInv   who holds the mutex, who is blocked, how far a shutdown is  *)
(*   TaskInv   every task handed in is in exactly one place                *)
(*   PendingCounts   pending_ counts the tasks that are queued or held     *)
(* TypeOK, in which pending_ is a natural number, comes out at the end: a  *)
(* decrement cannot pass zero because the worker still holds its task.     *)
(***************************************************************************)
EXTENDS WorkerPool, FiniteSetTheorems, SequenceTheorems, TLAPS

Holds(w) == pc[w] \in {"run", "retire"}

Types ==
  /\ queue \in Seq(Task)
  /\ pending \in Int
  /\ stop \in BOOLEAN
  /\ mtx \in Thread \union {None}
  /\ onCv \subseteq Worker /\ onIdle \subseteq Client
  /\ pc \in [Thread -> WorkerPc \union ClientPc]
  /\ \A w \in Worker : pc[w] \in WorkerPc
  /\ \A c \in Client : pc[c] \in ClientPc
  /\ task \in [Thread -> Task \union {None}]
  /\ \A w \in Worker : Holds(w) => task[w] \in Task
  /\ owner \in OwnerPc
  /\ fresh \subseteq Task /\ done \subseteq Task
  /\ waits \in [Client -> 0..MaxWaits]
  /\ spurious \in 0..MaxSpurious

Critical == {"test", "block", "count", "waitTest", "waitBlock"}

LockInv ==
  /\ \A p \in Thread : pc[p] \in Critical <=> mtx = p
  /\ \A w \in onCv : pc[w] = "lock"
  /\ \A c \in onIdle : pc[c] = "waitLock"
  /\ \A w \in Worker : pc[w] = "block" => queue = <<>>
  /\ stop <=> owner # "alive"
  /\ stop => \A c \in Client : pc[c] = "idle"
  /\ \A w \in Worker : pc[w] = "exit" => stop /\ queue = <<>>
  /\ owner = "destroyed" => \A w \in Worker : pc[w] = "exit"

Elems(q) == {q[i] : i \in 1..Len(q)}
Distinct(q) == \A i, j \in 1..Len(q) : i # j => q[i] # q[j]

TaskInv ==
  /\ Distinct(queue)
  /\ \A t \in Queued : t \in Task \ fresh /\ t \notin done
  /\ \A w \in Worker : Holds(w) => task[w] \in Task \ fresh
  /\ \A w \in Worker : ~Holds(w) => task[w] = None
  /\ \A w \in Worker : pc[w] = "run" => task[w] \notin done
  /\ \A w \in Worker : pc[w] = "retire" => task[w] \in done
  /\ \A w \in Worker : Holds(w) => task[w] \notin Queued
  /\ \A v, w \in Worker : v # w /\ Holds(v) /\ Holds(w) => task[v] # task[w]
  /\ \A c \in Client : pc[c] # "count" => task[c] = None
  /\ \A c \in Client : pc[c] = "count" => task[c] \in Queued
  /\ done \subseteq Task \ fresh
  /\ \A t \in Task \ fresh : t \in Queued \/ t \in done \/ \E w \in Worker : task[w] = t

USE DEF At, Goto, bounds

(* What Append and Tail do to the elements of a sequence without repeats.  *)
LEMMA AppendElems ==
  ASSUME NEW q \in Seq(Task), NEW t \in Task, Distinct(q), t \notin Elems(q)
  PROVE  Elems(Append(q, t)) = Elems(q) \union {t} /\ Distinct(Append(q, t))
<1> DEFINE r == Append(q, t)
<1>1. /\ Len(q) \in Nat /\ Len(r) = Len(q) + 1 /\ r[Len(q) + 1] = t
      /\ \A i \in 1..Len(q) : r[i] = q[i]
  BY AppendProperties
<1> HIDE DEF r
<1>2. Elems(r) = Elems(q) \union {t}
  BY <1>1 DEF Elems
<1>3. \A i \in 1..Len(q) : r[i] # t
  BY <1>1 DEF Elems
<1>4. Distinct(r)
  BY <1>1, <1>3 DEF Distinct
<1>5. QED
  BY <1>2, <1>4 DEF r

LEMMA TailElems ==
  ASSUME NEW q \in Seq(Task), q # <<>>, Distinct(q)
  PROVE  /\ Elems(q) = Elems(Tail(q)) \union {Head(q)}
         /\ Head(q) \notin Elems(Tail(q))
         /\ Distinct(Tail(q))
<1> DEFINE r == Tail(q)
           h == Head(q)
<1>1. /\ Len(q) \in Nat /\ Len(q) > 0 /\ h = q[1] /\ Len(r) = Len(q) - 1
      /\ \A i \in 1..Len(r) : r[i] = q[i + 1]
  BY EmptySeq, HeadTailProperties
<1> HIDE DEF r, h
<1>2. \A i \in 1..Len(r) : i + 1 \in 1..Len(q) /\ i + 1 # 1
  BY <1>1
<1>3. \A i \in 1..Len(r) : r[i] # h
  BY <1>1, <1>2 DEF Distinct
<1>4. Distinct(r)
  BY <1>1, <1>2 DEF Distinct
<1>5. ASSUME NEW i \in 1..Len(q), i # 1
      PROVE  i - 1 \in 1..Len(r) /\ r[i - 1] = q[i]
  <2>1. i - 1 \in 1..Len(r) /\ (i - 1) + 1 = i
    BY <1>1, <1>5
  <2>2. QED
    BY <1>1, <2>1
<1>6. Elems(q) \subseteq Elems(r) \union {h}
  <2>1. SUFFICES ASSUME NEW i \in 1..Len(q) PROVE q[i] \in Elems(r) \union {h}
    BY DEF Elems
  <2>2. CASE i = 1
    BY <1>1, <2>2
  <2>3. CASE i # 1
    BY <1>5, <2>3 DEF Elems
  <2>4. QED
    BY <2>2, <2>3
<1>7. Elems(r) \union {h} \subseteq Elems(q)
  BY <1>1, <1>2 DEF Elems
<1>8. QED
  BY <1>3, <1>4, <1>6, <1>7 DEF r, h, Elems

----------------------------------------------------------------------------
(* The variables have their types in every reachable state.                *)
LEMMA TypesHold == Safe => []Types
<1> USE PoolAssumption DEF Types, Holds, Thread, WorkerPc, ClientPc, OwnerPc
<1>1. Init => Types
  <2> SUFFICES ASSUME Init PROVE Types
    OBVIOUS
  <2>1. queue \in Seq(Task)
    BY EmptySeq DEF Init
  <2>2. /\ pc \in [Thread -> WorkerPc \union ClientPc]
        /\ \A w \in Worker : pc[w] = "lock"
        /\ \A c \in Client : pc[c] = "idle"
    BY DEF Init
  <2>3. task \in [Thread -> Task \union {None}] /\ waits \in [Client -> 0..MaxWaits]
    BY DEF Init
  <2>4. \A w \in Worker : Holds(w) => task[w] \in Task
    BY <2>2
  <2>5. stop \in BOOLEAN /\ mtx \in Thread \union {None}
    BY Zenon DEF Init
  <2>6. pending \in Int
    BY DEF Init
  <2>7. fresh \subseteq Task /\ done \subseteq Task /\ spurious \in 0..MaxSpurious
    BY DEF Init
  <2>8. onCv \subseteq Worker /\ onIdle \subseteq Client /\ owner \in OwnerPc
    BY DEF Init
  <2>9. QED
    BY <2>1, <2>2, <2>3, <2>4, <2>5, <2>6, <2>7, <2>8
<1>2. Types /\ [Next]_vars => Types'
  <2> SUFFICES ASSUME Types, [Next]_vars PROVE Types'
    OBVIOUS
  <2>1. ASSUME NEW w \in Worker, WorkerLock(w) \/ WorkerExit(w) PROVE Types'
    BY <2>1 DEF WorkerLock, WorkerExit
  <2>2. ASSUME NEW w \in Worker, WorkerTake(w) PROVE Types'
    BY <2>2, HeadTailProperties DEF WorkerTake
  <2>3. ASSUME NEW w \in Worker, WorkerMustWait(w) \/ WorkerBlock(w) PROVE Types'
    BY <2>3 DEF WorkerMustWait, WorkerBlock
  <2>4. ASSUME NEW w \in Worker, WorkerRun(w) PROVE Types'
    BY <2>4 DEF WorkerRun
  <2>5. ASSUME NEW w \in Worker, WorkerRetire(w) PROVE Types'
    BY <2>5 DEF WorkerRetire
  <2>6. ASSUME NEW w \in Worker, WorkerNotifyIdle(w) PROVE Types'
    BY <2>6 DEF WorkerNotifyIdle
  <2>7. ASSUME NEW c \in Client, NEW t \in Task, Enqueue(c, t) PROVE Types'
    BY <2>7, AppendProperties DEF Enqueue
  <2>8. ASSUME NEW c \in Client, Count(c) \/ NotifyOne(c) PROVE Types'
    BY <2>8 DEF Count, NotifyOne
  <2>9. ASSUME NEW c \in Client, WaitIdle(c) PROVE Types'
    BY <2>9 DEF WaitIdle
  <2>10. ASSUME NEW c \in Client, WaitLock(c) \/ WaitReturn(c) PROVE Types'
    BY <2>10 DEF WaitLock, WaitReturn
  <2>11. ASSUME NEW c \in Client, WaitMustWait(c) \/ WaitBlock(c) PROVE Types'
    BY <2>11 DEF WaitMustWait, WaitBlock
  <2>12. CASE DtorStop \/ DtorNotify \/ DtorJoined
    BY <2>12 DEF DtorStop, DtorNotify, DtorJoined
  <2>13. CASE SpuriousWakeup
    BY <2>13 DEF SpuriousWakeup
  <2>14. CASE UNCHANGED vars
    BY <2>14 DEF vars
  <2>15. QED
    BY <2>1, <2>2, <2>3, <2>4, <2>5, <2>6, <2>7, <2>8, <2>9, <2>10, <2>11, <2>12, <2>13,
       <2>14 DEF Next, WorkerStep, ClientStep, ClientCall
<1>3. QED
  BY <1>1, <1>2, PTL DEF Safe
----------------------------------------------------------------------------
(* The mutex: a thread is inside a critical section exactly while it holds *)
(* the mutex, so no two are; who is blocked; how far a shutdown has come.  *)
LEMMA LockInvHolds == Safe => []LockInv
<1> USE PoolAssumption DEF Types, LockInv, Critical, Thread, WorkerPc, ClientPc, OwnerPc
<1>1. Init => LockInv
  <2> SUFFICES ASSUME Init PROVE LockInv
    OBVIOUS
  <2>1. \A p \in Thread : pc[p] \in {"lock", "idle"}
    BY DEF Init
  <2>2. \A p \in Thread : pc[p] \notin Critical /\ mtx # p
    BY <2>1 DEF Init
  <2>3. (stop <=> owner # "alive") /\ ~stop
    BY Zenon DEF Init
  <2>4. QED
    BY <2>1, <2>2, <2>3 DEF Init
<1>2. Types /\ Types' /\ LockInv /\ [Next]_vars => LockInv'
  <2> SUFFICES ASSUME Types, Types', LockInv, [Next]_vars PROVE LockInv'
    OBVIOUS
  <2>1. ASSUME NEW w \in Worker, WorkerLock(w) PROVE LockInv'
    BY <2>1 DEF WorkerLock
  <2>2. ASSUME NEW w \in Worker, WorkerExit(w) PROVE LockInv'
    BY <2>2 DEF WorkerExit
  <2>3. ASSUME NEW w \in Worker, WorkerTake(w) PROVE LockInv'
    BY <2>3 DEF WorkerTake
  <2>4. ASSUME NEW w \in Worker, WorkerMustWait(w) PROVE LockInv'
    BY <2>4 DEF WorkerMustWait
  <2>5. ASSUME NEW w \in Worker, WorkerBlock(w) PROVE LockInv'
    BY <2>5 DEF WorkerBlock
  <2>6. ASSUME NEW w \in Worker, WorkerRun(w) PROVE LockInv'
    BY <2>6 DEF WorkerRun
  <2>7. ASSUME NEW w \in Worker, WorkerRetire(w) PROVE LockInv'
    BY <2>7 DEF WorkerRetire
  <2>8. ASSUME NEW w \in Worker, WorkerNotifyIdle(w) PROVE LockInv'
    BY <2>8 DEF WorkerNotifyIdle
  <2>9. ASSUME NEW c \in Client, NEW t \in Task, Enqueue(c, t) PROVE LockInv'
    BY <2>9 DEF Enqueue
  <2>10. ASSUME NEW c \in Client, Count(c) PROVE LockInv'
    BY <2>10 DEF Count
  <2>11. ASSUME NEW c \in Client, NotifyOne(c) PROVE LockInv'
    BY <2>11 DEF NotifyOne
  <2>12. ASSUME NEW c \in Client, WaitIdle(c) PROVE LockInv'
    BY <2>12 DEF WaitIdle
  <2>13. ASSUME NEW c \in Client, WaitLock(c) PROVE LockInv'
    BY <2>13 DEF WaitLock
  <2>14. ASSUME NEW c \in Client, WaitReturn(c) PROVE LockInv'
    BY <2>14 DEF WaitReturn
  <2>15. ASSUME NEW c \in Client, WaitMustWait(c) PROVE LockInv'
    BY <2>15 DEF WaitMustWait
  <2>16. ASSUME NEW c \in Client, WaitBlock(c) PROVE LockInv'
    BY <2>16 DEF WaitBlock
  <2>17. CASE DtorStop \/ DtorNotify \/ DtorJoined
    BY <2>17 DEF DtorStop, DtorNotify, DtorJoined
  <2>18. CASE SpuriousWakeup
    BY <2>18 DEF SpuriousWakeup
  <2>19. CASE UNCHANGED vars
    BY <2>19 DEF vars
  <2>20. QED
    BY <2>1, <2>2, <2>3, <2>4, <2>5, <2>6, <2>7, <2>8, <2>9, <2>10, <2>11, <2>12, <2>13,
       <2>14, <2>15, <2>16, <2>17, <2>18, <2>19 DEF Next, WorkerStep, ClientStep, ClientCall
<1>3. QED
  BY <1>1, <1>2, TypesHold, PTL DEF Safe
----------------------------------------------------------------------------
(* What the two steps that change the queue do to Queued.                  *)
LEMMA EnqueueQueued ==
  ASSUME Types, TaskInv, NEW c \in Client, NEW t \in Task, Enqueue(c, t)
  PROVE  Queued' = Queued \union {t} /\ t \notin Queued /\ Distinct(queue)'
<1>1. queue \in Seq(Task) /\ queue' = Append(queue, t) /\ queue' \in Seq(Task)
  BY AppendProperties DEF Types, Enqueue
<1>2. Distinct(queue) /\ t \notin Queued
  BY DEF TaskInv, Enqueue
<1>3. DOMAIN queue = 1..Len(queue) /\ DOMAIN queue' = 1..Len(queue')
  BY <1>1
<1>4. Queued = Elems(queue) /\ Queued' = Elems(queue')
  BY <1>3 DEF Queued, Elems
<1>5. QED
  BY <1>1, <1>2, <1>4, AppendElems

LEMMA TakeQueued ==
  ASSUME Types, TaskInv, NEW w \in Worker, WorkerTake(w)
  PROVE  /\ Queued = Queued' \union {Head(queue)}
         /\ Head(queue) \notin Queued'
         /\ Distinct(queue)'
<1>1. queue \in Seq(Task) /\ queue # <<>> /\ queue' = Tail(queue) /\ queue' \in Seq(Task)
  BY HeadTailProperties DEF Types, WorkerTake
<1>2. DOMAIN queue = 1..Len(queue) /\ DOMAIN queue' = 1..Len(queue')
  BY <1>1
<1>3. Queued = Elems(queue) /\ Queued' = Elems(queue')
  BY <1>2 DEF Queued, Elems
<1>4. QED
  BY <1>1, <1>3, TailElems DEF TaskInv

(* A task handed in is queued, or held by one worker, or done: never two   *)
(* of these, so it runs once.                                              *)
LEMMA TaskInvHolds == Safe => []TaskInv
<1> USE PoolAssumption DEF Types, TaskInv, Thread, WorkerPc, ClientPc, Holds
<1>1. Init => TaskInv
  <2> SUFFICES ASSUME Init PROVE TaskInv
    OBVIOUS
  <2>1. Len(queue) = 0 /\ Queued = {} /\ fresh = Task /\ done = {}
    BY EmptySeq DEF Init, Queued
  <2>2. \A p \in Thread : pc[p] \in {"lock", "idle"} /\ task[p] = None
    BY DEF Init
  <2>3. QED
    BY <2>1, <2>2 DEF Distinct
<1>2. Types /\ Types' /\ LockInv /\ TaskInv /\ [Next]_vars => TaskInv'
  <2> SUFFICES ASSUME Types, Types', LockInv, TaskInv, [Next]_vars PROVE TaskInv'
    OBVIOUS
  <2>1. ASSUME NEW w \in Worker,
               WorkerLock(w) \/ WorkerExit(w) \/ WorkerMustWait(w) \/ WorkerBlock(w)
                 \/ WorkerNotifyIdle(w)
        PROVE  TaskInv'
    BY <2>1 DEF WorkerLock, WorkerExit, WorkerMustWait, WorkerBlock, WorkerNotifyIdle, Queued
  <2>2. ASSUME NEW w \in Worker, WorkerTake(w) PROVE TaskInv'
    <3> DEFINE t == Head(queue)
    <3>1. Queued = Queued' \union {t} /\ t \notin Queued' /\ Distinct(queue)'
      BY <2>2, TakeQueued
    <3>2. t \in Task \ fresh /\ t \notin done
      BY <3>1
    <3>3. /\ task' = [task EXCEPT ![w] = t] /\ pc' = [pc EXCEPT ![w] = "run"]
          /\ pc[w] = "test" /\ fresh' = fresh /\ done' = done /\ mtx = w
      BY <2>2 DEF WorkerTake, LockInv, Critical
    <3> HIDE DEF t
    <3>4. \A c \in Client : pc'[c] # "count" /\ task'[c] = None
      BY <3>3 DEF LockInv, Critical
    <3>5. \A v \in Worker : v # w => task'[v] = task[v] /\ pc'[v] = pc[v]
      BY <3>3
    <3>6. task'[w] = t /\ pc'[w] = "run"
      BY <3>3
    <3>7. \A x \in Task \ fresh : x \in Queued' \/ x \in done \/ \E v \in Worker : task'[v] = x
      <4>1. SUFFICES ASSUME NEW x \in Task \ fresh, x \notin Queued', x \notin done
                     PROVE  \E v \in Worker : task'[v] = x
        OBVIOUS
      <4>2. CASE x = t
        BY <4>2, <3>6
      <4>3. CASE x # t
        <5>1. PICK v \in Worker : task[v] = x
          BY <3>1, <4>1, <4>3
        <5>2. v # w
          BY <3>3, <5>1
        <5>3. QED
          BY <3>5, <5>1, <5>2
      <4>4. QED
        BY <4>2, <4>3
    <3>8. QED
      BY <3>1, <3>2, <3>3, <3>4, <3>5, <3>6, <3>7
  <2>3. ASSUME NEW w \in Worker, WorkerRun(w) PROVE TaskInv'
    BY <2>3 DEF WorkerRun, Queued
  <2>4. ASSUME NEW w \in Worker, WorkerRetire(w) PROVE TaskInv'
    BY <2>4 DEF WorkerRetire, Queued
  <2>5. ASSUME NEW c \in Client, NEW t \in Task, Enqueue(c, t) PROVE TaskInv'
    <3>1. Queued' = Queued \union {t} /\ Distinct(queue)'
      BY <2>5, EnqueueQueued
    <3>2. /\ t \in fresh /\ fresh' = fresh \ {t} /\ done' = done
          /\ pc' = [pc EXCEPT ![c] = "count"] /\ task' = [task EXCEPT ![c] = t]
      BY <2>5 DEF Enqueue
    <3>3. \A w \in Worker : pc'[w] = pc[w] /\ task'[w] = task[w]
      BY <3>2
    <3>4. QED
      BY <3>1, <3>2, <3>3
  <2>6. ASSUME NEW c \in Client, Count(c) PROVE TaskInv'
    BY <2>6 DEF Count, Queued
  <2>7. ASSUME NEW c \in Client,
               NotifyOne(c) \/ WaitIdle(c) \/ WaitLock(c) \/ WaitReturn(c) \/ WaitMustWait(c)
                 \/ WaitBlock(c)
        PROVE  TaskInv'
    <3>1. /\ queue' = queue /\ task' = task /\ fresh' = fresh /\ done' = done
          /\ pc[c] # "count"
          /\ \E l \in ClientPc \ {"count"} : pc' = [pc EXCEPT ![c] = l]
      BY <2>7 DEF NotifyOne, WaitIdle, WaitLock, WaitReturn, WaitMustWait, WaitBlock
    <3>2. /\ \A w \in Worker : pc'[w] = pc[w]
          /\ \A d \in Client : pc'[d] = "count" <=> pc[d] = "count"
      BY <3>1
    <3>3. QED
      BY <3>1, <3>2 DEF Queued
  <2>8. CASE DtorStop \/ DtorNotify \/ DtorJoined \/ SpuriousWakeup
    BY <2>8 DEF DtorStop, DtorNotify, DtorJoined, SpuriousWakeup, Queued
  <2>9. CASE UNCHANGED vars
    BY <2>9 DEF vars, Queued
  <2>10. QED
    BY <2>1, <2>2, <2>3, <2>4, <2>5, <2>6, <2>7, <2>8, <2>9
       DEF Next, WorkerStep, ClientStep, ClientCall
<1>3. QED
  BY <1>1, <1>2, TypesHold, LockInvHolds, PTL DEF Safe
----------------------------------------------------------------------------
LEMMA OutstandingFinite ==
  ASSUME Types PROVE Outstanding \subseteq Task /\ IsFiniteSet(Outstanding)
<1>1. Outstanding \subseteq Task
  BY DEF Outstanding, Types, Queued, Thread
<1>2. QED
  BY <1>1, PoolAssumption, FS_Subset

(* pending_ is the number of tasks handed in and not retired: the predicate *)
(* of wait_idle is about work, and --pending_ never wraps.                  *)
THEOREM PendingCorrect == Spec => []PendingCounts
<1> USE PoolAssumption DEF Thread, WorkerPc, ClientPc
<1>1. Init => PendingCounts
  <2> SUFFICES ASSUME Init PROVE PendingCounts
    OBVIOUS
  <2>1. Queued = {} /\ \A w \in Worker : task[w] = None
    BY DEF Init, Queued
  <2>2. Outstanding = {}
    BY <2>1 DEF Outstanding
  <2>3. QED
    BY <2>2, FS_EmptySet DEF PendingCounts, Init
<1>2. Types /\ Types' /\ LockInv /\ TaskInv /\ TaskInv' /\ PendingCounts /\ [Next]_vars
        => PendingCounts'
  <2> SUFFICES ASSUME Types, Types', LockInv, TaskInv, TaskInv', PendingCounts, [Next]_vars
               PROVE  PendingCounts'
    OBVIOUS
  <2>0. Outstanding \subseteq Task /\ IsFiniteSet(Outstanding) /\ Cardinality(Outstanding) \in Nat
    BY OutstandingFinite, FS_CardinalityType
  <2>1. ASSUME queue' = queue, task' = task, pending' = pending PROVE PendingCounts'
    BY <2>1 DEF PendingCounts, Outstanding, Queued
  <2>2. ASSUME NEW w \in Worker, WorkerTake(w) PROVE PendingCounts'
    <3> DEFINE t == Head(queue)
    <3>1. Queued = Queued' \union {t}
      BY <2>2, TakeQueued
    <3>2. /\ task' = [task EXCEPT ![w] = t] /\ pc[w] = "test" /\ task[w] = None
          /\ pending' = pending
      BY <2>2 DEF WorkerTake, TaskInv, Holds
    <3> HIDE DEF t
    <3>3. task'[w] = t /\ \A p \in Thread : p # w => task'[p] = task[p]
      BY <3>2 DEF Types
    <3>4. {task'[v] : v \in Worker} \union Queued' \union {None}
            = {task[v] : v \in Worker} \union Queued \union {None}
      BY <3>1, <3>2, <3>3
    <3>5. \A c \in Client : task'[c] = task[c]
      BY <3>3
    <3>6. Outstanding' = Outstanding
      BY <3>4, <3>5 DEF Outstanding
    <3>7. QED
      BY <3>2, <3>6 DEF PendingCounts
  <2>3. ASSUME NEW w \in Worker, WorkerRetire(w) PROVE PendingCounts'
    <3> DEFINE t == task[w]
    <3>1. /\ task' = [task EXCEPT ![w] = None] /\ pending' = pending - 1
          /\ queue' = queue /\ pc[w] = "retire"
      BY <2>3 DEF WorkerRetire
    <3>2. /\ t \in Task /\ t \notin Queued
          /\ \A v \in Worker : v # w => task[v] # t
      BY <3>1 DEF TaskInv, Holds
    <3>3. \A c \in Client : task[c] # t
      BY <3>2 DEF TaskInv
    <3> HIDE DEF t
    <3>4. task[w] = t /\ task'[w] = None /\ \A p \in Thread : p # w => task'[p] = task[p]
      BY <3>1 DEF Types, t
    <3>5. t \in Outstanding
      BY <3>2, <3>3, <3>4 DEF Outstanding
    <3>6. Outstanding' = Outstanding \ {t}
      <4>1. Queued' = Queued
        BY <3>1 DEF Queued
      <4>2. \A c \in Client : task'[c] = task[c]
        BY <3>4
      <4>3. {task'[v] : v \in Worker} \ {None} = {task[v] : v \in Worker} \ {None, t}
        BY <3>2, <3>4
      <4>4. QED
        BY <3>2, <4>1, <4>2, <4>3 DEF Outstanding
    <3>7. Cardinality(Outstanding') = Cardinality(Outstanding) - 1
      BY <2>0, <3>5, <3>6, FS_RemoveElement
    <3>8. QED
      BY <3>1, <3>7 DEF PendingCounts
  <2>4. ASSUME NEW c \in Client, NEW t \in Task, Enqueue(c, t) PROVE PendingCounts'
    <3>1. Queued' = Queued \union {t} /\ t \notin Queued
      BY <2>4, EnqueueQueued
    <3>2. /\ task' = [task EXCEPT ![c] = t] /\ pc[c] = "idle" /\ task[c] = None
          /\ pending' = pending /\ t \in fresh
      BY <2>4 DEF Enqueue, TaskInv
    <3>3. task'[c] = t /\ \A p \in Thread : p # c => task'[p] = task[p]
      BY <3>2 DEF Types
    <3>4. \A v \in Worker : task'[v] = task[v] /\ task[v] # t
      BY <3>2, <3>3 DEF TaskInv
    <3>5. Outstanding' = Outstanding
      <4>1. {task'[v] : v \in Worker} = {task[v] : v \in Worker}
        BY <3>4
      <4>2. ASSUME NEW x, x \in Outstanding' PROVE x \in Outstanding
        BY <3>1, <3>2, <3>3, <4>1, <4>2 DEF Outstanding
      <4>3. ASSUME NEW x, x \in Outstanding PROVE x \in Outstanding'
        BY <3>1, <3>2, <3>3, <3>4, <4>1, <4>3 DEF Outstanding
      <4>4. QED
        BY <4>2, <4>3
    <3>6. QED
      BY <3>2, <3>5 DEF PendingCounts
  <2>5. ASSUME NEW c \in Client, Count(c) PROVE PendingCounts'
    <3> DEFINE t == task[c]
    <3>1. /\ task' = [task EXCEPT ![c] = None] /\ pending' = pending + 1
          /\ queue' = queue /\ pc[c] = "count" /\ mtx = c
      BY <2>5 DEF Count, LockInv, Critical
    <3>2. t \in Queued /\ t \in Task
      BY <3>1 DEF TaskInv
    <3>3. \A d \in Client : d # c => task[d] = None
      BY <3>1 DEF TaskInv, LockInv, Critical
    <3> HIDE DEF t
    <3>4. task[c] = t /\ task'[c] = None /\ \A p \in Thread : p # c => task'[p] = task[p]
      BY <3>1 DEF Types, t
    <3>5. t \notin Outstanding
      BY <3>4 DEF Outstanding
    <3>6. Outstanding' = Outstanding \union {t}
      <4>1. Queued' = Queued
        BY <3>1 DEF Queued
      <4>2. {task'[v] : v \in Worker} = {task[v] : v \in Worker}
        BY <3>4
      <4>3. \A d \in Client : task'[d] = None
        BY <3>3, <3>4
      <4>4. QED
        BY <3>2, <3>3, <3>4, <4>1, <4>2, <4>3 DEF Outstanding
    <3>7. Cardinality(Outstanding') = Cardinality(Outstanding) + 1
      BY <2>0, <3>5, <3>6, FS_AddElement
    <3>8. QED
      BY <3>1, <3>7 DEF PendingCounts
  <2>6. ASSUME NEW w \in Worker,
               WorkerLock(w) \/ WorkerExit(w) \/ WorkerMustWait(w) \/ WorkerBlock(w)
                 \/ WorkerRun(w) \/ WorkerNotifyIdle(w)
        PROVE  PendingCounts'
    BY <2>1, <2>6 DEF WorkerLock, WorkerExit, WorkerMustWait, WorkerBlock, WorkerRun,
       WorkerNotifyIdle
  <2>7. ASSUME NEW c \in Client,
               NotifyOne(c) \/ WaitIdle(c) \/ WaitLock(c) \/ WaitReturn(c) \/ WaitMustWait(c)
                 \/ WaitBlock(c)
        PROVE  PendingCounts'
    BY <2>1, <2>7 DEF NotifyOne, WaitIdle, WaitLock, WaitReturn, WaitMustWait, WaitBlock
  <2>8. CASE DtorStop \/ DtorNotify \/ DtorJoined \/ SpuriousWakeup \/ UNCHANGED vars
    BY <2>1, <2>8 DEF DtorStop, DtorNotify, DtorJoined, SpuriousWakeup, vars
  <2>9. QED
    BY <2>2, <2>3, <2>4, <2>5, <2>6, <2>7, <2>8
       DEF Next, WorkerStep, ClientStep, ClientCall
<1>3. QED
  BY <1>1, <1>2, TypesHold, LockInvHolds, TaskInvHolds, PTL DEF Spec, Safe
----------------------------------------------------------------------------
(* The type invariant; pending_ is a natural number because it counts.     *)
THEOREM TypeCorrect == Spec => []TypeOK
<1>1. Types /\ PendingCounts => TypeOK
  BY OutstandingFinite, FS_CardinalityType DEF Types, TypeOK, PendingCounts
<1>2. QED
  BY <1>1, TypesHold, PendingCorrect, PTL DEF Spec

(* No lost wake-up on cv_: with every worker asleep on it and tasks queued, *)
(* some submit still has its notify_one to do.                             *)
THEOREM NoLostWakeup == Spec => []QueuedWorkIsNoticed
<1> USE PoolAssumption DEF QueuedWorkIsNoticed, Thread
<1>1. Init => QueuedWorkIsNoticed
  BY DEF Init
<1>2. Types /\ Types' /\ LockInv /\ QueuedWorkIsNoticed /\ [Next]_vars => QueuedWorkIsNoticed'
  <2> SUFFICES ASSUME Types, Types', LockInv, QueuedWorkIsNoticed, [Next]_vars,
                      queue' # <<>>, onCv' = Worker
               PROVE  \E c \in Client : pc'[c] \in {"count", "notifyOne"}
    OBVIOUS
  <2>0. ASSUME NEW p \in Thread, NEW l \in WorkerPc \union ClientPc,
               queue # <<>>, onCv = Worker, pc' = [pc EXCEPT ![p] = l],
               pc[p] \notin {"count", "notifyOne"}
        PROVE  \E c \in Client : pc'[c] \in {"count", "notifyOne"}
    <3>1. PICK c \in Client : pc[c] \in {"count", "notifyOne"}
      BY <2>0
    <3>2. pc'[c] = pc[c]
      BY <2>0, <3>1 DEF Types
    <3>3. QED
      BY <3>1, <3>2
  <2>1. ASSUME NEW w \in Worker, WorkerStep(w)
        PROVE  \E c \in Client : pc'[c] \in {"count", "notifyOne"}
    <3>1. CASE WorkerLock(w) \/ WorkerExit(w) \/ WorkerMustWait(w)
      BY <2>0, <3>1 DEF WorkerLock, WorkerExit, WorkerMustWait, WorkerPc
    <3>2. CASE WorkerTake(w) \/ WorkerRun(w) \/ WorkerRetire(w) \/ WorkerNotifyIdle(w)
      <4>1. w \in onCv /\ pc[w] # "lock"
        BY <3>2 DEF WorkerTake, WorkerRun, WorkerRetire, WorkerNotifyIdle
      <4>2. QED
        BY <4>1 DEF LockInv
    <3>3. CASE WorkerBlock(w)
      BY <3>3 DEF WorkerBlock, LockInv
    <3>4. QED
      BY <2>1, <3>1, <3>2, <3>3 DEF WorkerStep
  <2>2. ASSUME NEW c \in Client, ClientStep(c)
        PROVE  \E d \in Client : pc'[d] \in {"count", "notifyOne"}
    <3>1. CASE Count(c)
      BY <3>1 DEF Count, Types
    <3>2. CASE NotifyOne(c)
      BY <3>2 DEF NotifyOne, Types
    <3>3. CASE WaitLock(c) \/ WaitReturn(c) \/ WaitMustWait(c) \/ WaitBlock(c)
      BY <2>0, <3>3 DEF WaitLock, WaitReturn, WaitMustWait, WaitBlock, ClientPc
    <3>4. QED
      BY <2>2, <3>1, <3>2, <3>3 DEF ClientStep
  <2>3. ASSUME NEW c \in Client, ClientCall(c)
        PROVE  \E d \in Client : pc'[d] \in {"count", "notifyOne"}
    <3>1. CASE WaitIdle(c)
      BY <2>0, <3>1 DEF WaitIdle, ClientPc
    <3>2. CASE \E t \in Task : Enqueue(c, t)
      BY <3>2 DEF Enqueue, Types
    <3>3. QED
      BY <2>3, <3>1, <3>2 DEF ClientCall
  <2>4. CASE DtorStop \/ DtorJoined \/ UNCHANGED vars
    BY <2>4 DEF DtorStop, DtorJoined, vars
  <2>5. CASE DtorNotify \/ SpuriousWakeup
    <3>1. onCv' = onCv /\ queue' = queue /\ pc' = pc
      BY <2>5 DEF DtorNotify, SpuriousWakeup, Types
    <3>2. QED
      BY <3>1
  <2>6. QED
    BY <2>1, <2>2, <2>3, <2>4, <2>5 DEF Next
<1>3. QED
  BY <1>1, <1>2, TypesHold, LockInvHolds, PTL DEF Spec, Safe

(* What an observer holding the mutex may conclude from pending_ = 0.       *)
LEMMA IdleMeansDone ==
  ASSUME Types, LockInv, TaskInv, PendingCounts,
         NEW c \in Client, WaitReturn(c)
  PROVE  Task \ fresh \subseteq done
<1>1. Outstanding = {}
  BY OutstandingFinite, FS_EmptySet DEF WaitReturn, PendingCounts
<1>2. \A d \in Client : task[d] = None
  BY DEF WaitReturn, LockInv, Critical, TaskInv, Thread
<1>3. \A t \in Task : t \notin Queued /\ \A w \in Worker : task[w] # t
  BY <1>1, <1>2, PoolAssumption DEF Outstanding
<1>4. QED
  BY <1>3 DEF TaskInv

(* wait_idle returns only when every task handed in by any thread has run.  *)
THEOREM WaitIdleCorrect == Spec => WaitIdleMeansIdle
<1> DEFINE Returns == \A c \in Client : At(c, "waitTest") /\ pc'[c] = "idle"
                                          => Task \ fresh \subseteq done
<1>1. Types /\ LockInv /\ TaskInv /\ PendingCounts /\ [Next]_vars => [Returns]_vars
  <2> SUFFICES ASSUME Types, LockInv, TaskInv, PendingCounts, [Next]_vars,
                      NEW c \in Client, pc[c] = "waitTest", pc'[c] = "idle"
               PROVE  Task \ fresh \subseteq done
    OBVIOUS
  <2> USE PoolAssumption DEF Types, Thread
  <2>1. ASSUME NEW w \in Worker, WorkerStep(w) PROVE FALSE
    BY <2>1 DEF WorkerStep, WorkerLock, WorkerTake, WorkerExit, WorkerMustWait, WorkerBlock,
       WorkerRun, WorkerRetire, WorkerNotifyIdle
  <2>2. ASSUME NEW d \in Client, ClientStep(d), ~WaitReturn(d) PROVE FALSE
    BY <2>2 DEF ClientStep, Count, NotifyOne, WaitLock, WaitMustWait, WaitBlock
  <2>3. ASSUME NEW d \in Client, ClientCall(d) PROVE FALSE
    BY <2>3 DEF ClientCall, WaitIdle, Enqueue
  <2>4. ASSUME DtorStop \/ DtorNotify \/ DtorJoined \/ SpuriousWakeup \/ UNCHANGED vars
        PROVE  FALSE
    BY <2>4 DEF DtorStop, DtorNotify, DtorJoined, SpuriousWakeup, vars
  <2>5. ASSUME NEW d \in Client, WaitReturn(d) PROVE Task \ fresh \subseteq done
    BY <2>5, IdleMeansDone
  <2>6. QED
    BY <2>1, <2>2, <2>3, <2>4, <2>5 DEF Next
<1>2. QED
  BY <1>1, TypesHold, LockInvHolds, TaskInvHolds, PendingCorrect, PTL
     DEF Spec, Safe, WaitIdleMeansIdle

(* The destructor loses no task: the last worker leaves an empty queue.     *)
THEOREM DestructorDrains == Spec => []DestroyedMeansDone
<1>1. LockInv /\ TaskInv /\ Types => DestroyedMeansDone
  <2> SUFFICES ASSUME LockInv, TaskInv, Types, owner = "destroyed"
               PROVE  Task \ fresh \subseteq done
    BY DEF DestroyedMeansDone
  <2>1. \A w \in Worker : pc[w] = "exit"
    BY DEF LockInv
  <2>2. queue = <<>>
    BY <2>1, PoolAssumption DEF LockInv
  <2>3. Queued = {} /\ \A w \in Worker : task[w] = None
    BY <2>1, <2>2 DEF Queued, TaskInv, Holds
  <2>4. QED
    BY <2>3, PoolAssumption DEF TaskInv
<1>2. QED
  BY <1>1, TypesHold, LockInvHolds, TaskInvHolds, PTL DEF Spec

(* The pool implements TaskPool: a FIFO whose tasks are started once, in    *)
(* order, finished once, and all finished before it is gone.                *)
THEOREM PoolRefinement == Spec => Pool!Safe
<1> USE PoolAssumption DEF Thread
<1> DEFINE running == {task[w] : w \in {v \in Worker : pc[v] = "run"}}
<1>1. Init => Pool!Init
  <2> SUFFICES ASSUME Init PROVE Pool!Init
    OBVIOUS
  <2>1. running = {}
    BY DEF Init
  <2>2. QED
    BY <2>1 DEF Init, Pool!Init
<1>2. Types /\ Types' /\ LockInv /\ TaskInv /\ TaskInv' /\ [Next]_vars => [Pool!Next]_(Pool!poolVars)
  <2> SUFFICES ASSUME Types, Types', LockInv, TaskInv, TaskInv', [Next]_vars
               PROVE  Pool!Next \/ UNCHANGED Pool!poolVars
    OBVIOUS
  <2>0. ASSUME queue' = queue, done' = done, owner' = owner, running' = running
        PROVE  UNCHANGED Pool!poolVars
    BY <2>0 DEF Pool!poolVars
  <2>1. ASSUME NEW p \in Thread, NEW l \in WorkerPc \union ClientPc,
               pc[p] # "run", l # "run", pc' = [pc EXCEPT ![p] = l],
               \A q \in Thread : q # p => task'[q] = task[q]
        PROVE  running' = running
    BY <2>1 DEF Types
  <2>2. ASSUME NEW w \in Worker, WorkerTake(w) PROVE Pool!Start
    <3>1. running' = running \union {Head(queue)}
      BY <2>2 DEF WorkerTake, Types
    <3>2. QED
      BY <2>2, <3>1 DEF WorkerTake, Pool!Start
  <2>3. ASSUME NEW w \in Worker, WorkerRun(w) PROVE \E t \in Task : Pool!Finish(t)
    <3>1. /\ task[w] \in Task /\ task[w] \in running
          /\ \A v \in Worker : v # w /\ pc[v] = "run" => task[v] # task[w]
      BY <2>3 DEF WorkerRun, TaskInv, Holds
    <3>2. running' = running \ {task[w]}
      BY <2>3, <3>1 DEF WorkerRun, Types
    <3>3. QED
      BY <2>3, <3>1, <3>2 DEF WorkerRun, Pool!Finish
  <2>4. ASSUME NEW c \in Client, NEW t \in Task, Enqueue(c, t) PROVE Pool!Submit(t)
    <3>1. running' = running
      <4>1. /\ pc[c] = "idle" /\ pc' = [pc EXCEPT ![c] = "count"]
            /\ \A q \in Thread : q # c => task'[q] = task[q]
        BY <2>4 DEF Enqueue, Types
      <4>2. QED
        BY <2>1, <4>1 DEF ClientPc
    <3>2. t \notin Queued /\ t \notin running /\ t \notin done
      BY <2>4, EnqueueQueued DEF Enqueue, TaskInv, Holds
    <3>3. QED
      BY <2>4, <3>1, <3>2 DEF Enqueue, Pool!Submit, Pool!Known, Queued
  <2>5. CASE DtorJoined
    <3>1. queue = <<>> /\ running = {}
      BY <2>5 DEF DtorJoined, LockInv
    <3>2. running' = running
      BY <2>5 DEF DtorJoined
    <3>3. Pool!Close
      BY <2>5, <3>1, <3>2 DEF DtorJoined, Pool!Close
    <3>4. QED
      BY <3>3 DEF Pool!Next
  <2>6. ASSUME NEW w \in Worker,
               WorkerLock(w) \/ WorkerExit(w) \/ WorkerMustWait(w) \/ WorkerBlock(w)
                 \/ WorkerRetire(w) \/ WorkerNotifyIdle(w)
        PROVE  UNCHANGED Pool!poolVars
    <3>1. /\ queue' = queue /\ done' = done /\ owner' = owner /\ pc[w] # "run"
          /\ \E l \in WorkerPc \ {"run"} : pc' = [pc EXCEPT ![w] = l]
          /\ \A q \in Thread : q # w => task'[q] = task[q]
      BY <2>6 DEF WorkerLock, WorkerExit, WorkerMustWait, WorkerBlock, WorkerRetire,
         WorkerNotifyIdle, Types, WorkerPc
    <3>2. running' = running
      BY <2>1, <3>1
    <3>3. QED
      BY <2>0, <3>1, <3>2
  <2>7. ASSUME NEW c \in Client, ClientStep(c) \/ WaitIdle(c) PROVE UNCHANGED Pool!poolVars
    <3>1. /\ queue' = queue /\ done' = done /\ owner' = owner /\ pc[c] # "run"
          /\ \E l \in ClientPc : pc' = [pc EXCEPT ![c] = l]
          /\ \A q \in Thread : q # c => task'[q] = task[q]
      BY <2>7 DEF ClientStep, Count, NotifyOne, WaitIdle, WaitLock, WaitReturn, WaitMustWait,
         WaitBlock, Types, ClientPc
    <3>2. running' = running
      BY <2>1, <3>1 DEF ClientPc
    <3>3. QED
      BY <2>0, <3>1, <3>2
  <2>8. CASE DtorStop \/ DtorNotify \/ SpuriousWakeup \/ UNCHANGED vars
    <3>1. /\ queue' = queue /\ done' = done /\ pc' = pc /\ task' = task
          /\ (owner' = "destroyed") <=> (owner = "destroyed")
      BY <2>8 DEF DtorStop, DtorNotify, SpuriousWakeup, vars
    <3>2. QED
      BY <3>1 DEF Pool!poolVars
  <2>9. QED
    BY <2>2, <2>3, <2>4, <2>5, <2>6, <2>7, <2>8
       DEF Next, WorkerStep, ClientCall, Pool!Next
<1>3. QED
  BY <1>1, <1>2, TypesHold, LockInvHolds, TaskInvHolds, PTL DEF Spec, Safe, Pool!Safe
=============================================================================
