------------------------ MODULE TaskScheduler_proofs -----------------------
(***************************************************************************)
(* Proofs about TaskScheduler for every set of tasks and workers.  A task  *)
(* can be submitted twice, so that a counter may fall twice for the same   *)
(* dependency; the argument follows the tasks that were submitted once:    *)
(*   Once      such a task is queued, held by one worker or over           *)
(*   Counters  if that is what all dependencies of t are, pending_ of t is *)
(*             their number less those that have released t                *)
(*   Dispatches  a task is submitted at most once for each of two reasons  *)
(* That run_all leaves nothing behind needs no such proviso:               *)
(*   Balance   what was submitted is queued, held by a worker, or over     *)
(*   Submitted a counter that came to zero, or below, submitted its task   *)
(*   Counted   each dependency that released t is off its counter          *)
(***************************************************************************)
EXTENDS TaskScheduler, FiniteSetTheorems, SequenceTheorems, TLAPS

Waits(q, d)  == \E i \in 1..Len(q) : q[i] = d
Single(q, d) == \A i, j \in 1..Len(q) : q[i] = d /\ q[j] = d => i = j

(* What is still to be added has names of its own, and only what was added  *)
(* is in the table.                                                        *)
Adding ==
  /\ adding \in Seq([id : Id, deps : Seq(Id)])
  /\ \A i, j \in 1..Len(adding) : adding[i].id = adding[j].id => i = j
  /\ \A i \in 1..Len(adding) : adding[i].id \notin Tasks
  /\ \A d \in Id : rdeps[d] \subseteq Tasks

(* The steps of a caller in wait_idle and of workers on their way back to   *)
(* the queue: they touch nothing of the scheduler.                         *)
WaitingStep ==
  \/ Test \/ Block \/ SpuriousWakeup
  \/ \E w \in Worker : Retire(w) \/ Notify(w)

(* Where the workers stand, and that they rest outside run_all.            *)
Quiet ==
  /\ \A w \in Worker : at[w] = "idle" <=> id[w] = None
  /\ \A w \in Worker : at[w] # "release" => left[w] = {}
  /\ main = "adding" => \A d \in Id : dispatched[d] = 0 /\ ended[d] = 0
  /\ main \in {"adding", "returned"} => backlog = <<>> /\ \A w \in Worker : at[w] = "idle"
  /\ main # "visiting" => toVisit = {}

(* rdeps_ is the converse of the dependencies.                             *)
Converse ==
  /\ \A d, t \in Id : t \in rdeps[d] <=> t \in Tasks /\ d \in DepsOf(t)
  /\ \A w \in Worker : at[w] = "release" => left[w] \subseteq rdeps[id[w]]

(* The two reasons for a submission: run_all came to the task, and its     *)
(* counter was brought to zero.                                            *)
Visited(t) == IF main = "adding" \/ t \in toVisit THEN 0 ELSE 1
Zeroed(t)  == IF deps[t] = <<>> \/ pend[t] > 0 THEN 0 ELSE 1
Dispatches ==
  /\ \A t \in Tasks : dispatched[t] <= Visited(t) + Zeroed(t)
  /\ \A t \in Id : dispatched[t] > 0 => t \in Tasks
  /\ \A t \in Id : Waits(backlog, t) => dispatched[t] > 0
  /\ \A w \in Worker : at[w] # "idle" => dispatched[id[w]] > 0
  /\ \A w \in Worker : at[w] \in {"lock", "release"} => ended[id[w]] > 0

OnceAt(d) ==
  /\ Single(backlog, d)
  /\ Waits(backlog, d) => ended[d] = 0 /\ \A w \in Worker : id[w] # d
  /\ \A v, w \in Worker : id[v] = d /\ id[w] = d => v = w
  /\ \A w \in Worker : id[w] = d /\ at[w] = "work" => ended[d] = 0
  /\ ended[d] > 0 => dispatched[d] > 0
Once == \A d \in Id : dispatched[d] <= 1 => OnceAt(d)

(* The dependencies of t that have run and have released t.                *)
Released(t) ==
  {d \in DepsOf(t) : /\ ended[d] > 0
                     /\ \A w \in Worker : id[w] = d => at[w] = "release" /\ t \notin left[w]}
Counters ==
  \A t \in Tasks :
    (\A d \in DepsOf(t) : dispatched[d] <= 1) => pend[t] = Len(deps[t]) - Cardinality(Released(t))

(* A task was submitted after its dependencies ran, or one of them was      *)
(* submitted twice.                                                        *)
Met(t) == (\A d \in DepsOf(t) : ended[d] > 0) \/ (\E d \in DepsOf(t) : dispatched[d] = 2)
Ran == \A t \in Tasks : dispatched[t] > 0 => Met(t)

----------------------------------------------------------------------------
(* Queues, and the length of a list of dependencies.                        *)
LEMMA AppendQueue ==
  ASSUME NEW S, NEW q \in Seq(S), NEW t \in S
  PROVE  /\ Append(q, t) \in Seq(S)
         /\ \A d : Waits(Append(q, t), d) <=> Waits(q, d) \/ d = t
         /\ \A d : Single(q, d) /\ (d = t => ~Waits(q, d)) => Single(Append(q, t), d)
<1> DEFINE r == Append(q, t)
<1>1. /\ r \in Seq(S) /\ Len(q) \in Nat /\ Len(r) = Len(q) + 1
      /\ \A i \in 1..Len(q) : r[i] = q[i]
      /\ r[Len(q) + 1] = t
  BY AppendProperties, LenProperties
<1> HIDE DEF r
<1>2. 1..Len(r) = 1..Len(q) \union {Len(q) + 1}
  BY <1>1
<1>3. \A d : Waits(r, d) <=> Waits(q, d) \/ d = t
  BY <1>1, <1>2 DEF Waits
<1>4. ASSUME NEW d, Single(q, d), d = t => ~Waits(q, d) PROVE Single(r, d)
  BY <1>1, <1>2, <1>4 DEF Waits, Single
<1> QED  BY <1>1, <1>3, <1>4 DEF r

LEMMA Tails ==
  ASSUME NEW S, NEW q \in Seq(S), q # <<>>
  PROVE  /\ Len(q) \in Nat /\ Len(q) > 0 /\ Head(q) = q[1] /\ Head(q) \in S
         /\ Tail(q) \in Seq(S) /\ Len(Tail(q)) = Len(q) - 1
         /\ \A i \in 1..Len(Tail(q)) : Tail(q)[i] = q[i + 1]
BY EmptySeq, HeadTailProperties

LEMMA TailQueue ==
  ASSUME NEW S, NEW q \in Seq(S), q # <<>>
  PROVE  /\ Head(q) \in S /\ Tail(q) \in Seq(S)
         /\ Waits(q, Head(q))
         /\ \A d : Waits(Tail(q), d) => Waits(q, d)
         /\ \A d : Single(q, d) => Single(Tail(q), d)
         /\ Single(q, Head(q)) => ~Waits(Tail(q), Head(q))
<1> DEFINE r == Tail(q)
           h == Head(q)
<1>1. /\ Len(q) \in Nat /\ Len(q) > 0 /\ h = q[1] /\ Len(r) = Len(q) - 1
      /\ r \in Seq(S) /\ h \in S
      /\ \A i \in 1..Len(r) : r[i] = q[i + 1]
  BY Tails
<1> HIDE DEF r, h
<1>2. \A i \in 1..Len(r) : i \in Int /\ i + 1 \in 1..Len(q) /\ i + 1 # 1
  BY <1>1
<1>3. Waits(q, h) /\ \A d : Waits(r, d) => Waits(q, d)
  BY <1>1, <1>2 DEF Waits
<1>4. ASSUME NEW d, Single(q, d) PROVE Single(r, d)
  <2> SUFFICES ASSUME NEW i \in 1..Len(r), NEW j \in 1..Len(r), r[i] = d, r[j] = d PROVE i = j
    BY DEF Single
  <2>1. i + 1 = j + 1
    BY <1>1, <1>2, <1>4 DEF Single
  <2> QED  BY <2>1, <1>2
<1>5. Single(q, h) => ~Waits(r, h)
  <2>1. 1 \in 1..Len(q)
    BY <1>1
  <2> QED  BY <2>1, <1>1, <1>2 DEF Single, Waits
<1> QED  BY <1>1, <1>3, <1>4, <1>5 DEF r, h

LEMMA FewerMembers ==
  ASSUME NEW S, NEW q \in Seq(S)
  PROVE  IsFiniteSet(ToSet(q)) /\ Cardinality(ToSet(q)) <= Len(q)
<1>1. Len(q) \in Nat /\ DOMAIN q = 1..Len(q) /\ q \in [1..Len(q) -> S]
  BY LenProperties
<1>2. q \in Surjection(1..Len(q), ToSet(q))
  BY <1>1 DEF Surjection, ToSet
<1>3. IsFiniteSet(1..Len(q)) /\ Cardinality(1..Len(q)) = Len(q)
  BY <1>1, FS_Interval
<1> QED  BY <1>2, <1>3, FS_Surjection
----------------------------------------------------------------------------
(* Types: with them, what is still to be added and when the workers rest.   *)
Typed == TypeOK /\ Adding /\ Quiet

LEMMA AddTyped == Typed /\ Add => Typed'
<1> SUFFICES ASSUME Typed, Add PROVE Typed'
  OBVIOUS
<1> USE DEF Typed, table, pool, idling
<1> DEFINE t == Head(adding).id
           d == Head(adding).deps
           R == [id : Id, deps : Seq(Id)]
<1>1. /\ adding \in Seq(R) /\ adding # <<>>
      /\ main = "adding" /\ backlog = <<>> /\ \A w \in Worker : at[w] = "idle"
  BY DEF Add, Adding, Quiet
<1>2. /\ Len(adding) \in Nat /\ Len(adding) > 0 /\ Head(adding) = adding[1] /\ Head(adding) \in R
      /\ Tail(adding) \in Seq(R) /\ Len(Tail(adding)) = Len(adding) - 1
      /\ \A i \in 1..Len(Tail(adding)) : Tail(adding)[i] = adding[i + 1]
  <2> HIDE DEF R
  <2> QED  BY <1>1, Tails
<1>3. t \in Id /\ d \in Seq(Id)
  BY <1>2
<1>4. t = adding[1].id
  BY <1>2
<1>5. /\ rdeps' = [x \in Id |-> IF x \in ToSet(d) THEN rdeps[x] \union {t} ELSE rdeps[x]]
      /\ pend' = [pend EXCEPT ![t] = Len(d)]
      /\ deps' = [x \in Tasks \union {t} |-> IF x = t THEN d ELSE deps[x]]
      /\ adding' = Tail(adding)
      /\ Tasks' = Tasks \union {t}
  BY DEF Add, Tasks
<1>6. /\ UNCHANGED <<done, toVisit, main, backlog, at, id, left, mtx, dispatched, ended>>
      /\ UNCHANGED <<leaving, missed, spurious>>
      /\ total' = total + 1
  BY DEF Add
<1> HIDE DEF t, d
<1>7. \A i \in 1..Len(Tail(adding)) : i + 1 \in 1..Len(adding) /\ i + 1 # 1 /\ i \in Int /\ 1 \in 1..Len(adding)
  BY <1>2
<1>8. Adding'
  <2>1. adding' \in Seq(R)
    BY <1>2, <1>5
  <2>2. ASSUME NEW i \in 1..Len(Tail(adding)), NEW j \in 1..Len(Tail(adding)),
               Tail(adding)[i].id = Tail(adding)[j].id
        PROVE  i = j
    <3>1. i + 1 = j + 1
      BY <1>2, <1>7, <2>2 DEF Adding
    <3> QED  BY <3>1, <1>7
  <2>3. ASSUME NEW i \in 1..Len(Tail(adding)) PROVE Tail(adding)[i].id \notin Tasks \union {t}
    BY <1>2, <1>4, <1>7 DEF Adding
  <2>4. \A x \in Id : rdeps'[x] \subseteq Tasks \union {t}
    BY <1>5 DEF Adding
  <2> QED  BY <2>1, <2>2, <2>3, <2>4, <1>5 DEF Adding
<1>9. backlog' \in Seq(Tasks')
  BY <1>1, <1>6, EmptySeq
<1>10. TypeOK'
  <2>1. Tasks' \subseteq Id /\ \A x \in Tasks' : deps'[x] \in Seq(Id)
    BY <1>3, <1>5 DEF TypeOK
  <2>2. rdeps' \in [Id -> SUBSET Id] /\ pend' \in [Id -> Int]
    <3>1. Len(d) \in Int
      BY <1>3, LenProperties
    <3> QED  BY <3>1, <1>3, <1>5 DEF TypeOK
  <2>3. total' \in Nat /\ toVisit' \subseteq Tasks'
    BY <1>5, <1>6 DEF TypeOK
  <2>4. id' \in [Worker -> Tasks' \union {None}] /\ left' \in [Worker -> SUBSET Tasks']
    BY <1>5, <1>6 DEF TypeOK
  <2> QED  BY <2>1, <2>2, <2>3, <2>4, <1>6, <1>9 DEF TypeOK
<1>11. Quiet'
  BY <1>6 DEF Quiet
<1> QED  BY <1>8, <1>10, <1>11

LEMMA SubmitTyped ==
  ASSUME TypeOK, NEW t \in Tasks, Submit(t), UNCHANGED deps
  PROVE  backlog' \in Seq(Tasks') /\ dispatched' \in [Id -> Nat]
<1>1. Append(backlog, t) \in Seq(Tasks)
  BY AppendQueue DEF TypeOK
<1>2. Tasks' = Tasks
  BY DEF Tasks
<1> QED  BY <1>1, <1>2 DEF Submit, TypeOK

LEMMA TypedHolds == Safe => []Typed
<1> USE DEF table, pool, idling
<1>1. Init => Typed
  <2> SUFFICES ASSUME Init PROVE Typed
    OBVIOUS
  <2>1. Adding
    <3>1. adding \in Seq([id : Id, deps : Seq(Id)]) /\ Tasks = {}
      BY SchedulerAssumption DEF Init, Tasks
    <3>2. DOMAIN adding = 1..Len(adding)
      BY <3>1, LenProperties
    <3> QED  BY <3>1, <3>2, SchedulerAssumption DEF Init, Adding
  <2>2. TypeOK
    <3>1. Tasks = {} /\ backlog \in Seq(Tasks)
      BY EmptySeq DEF Init, Tasks
    <3>2. rdeps \in [Id -> SUBSET Id] /\ pend \in [Id -> Int] /\ total \in Nat /\ done \in Nat /\ toVisit \subseteq Tasks
      BY DEF Init
    <3>3. /\ at \in [Worker -> {"idle", "work", "lock", "release"}] /\ id \in [Worker -> Tasks \union {None}]
          /\ left \in [Worker -> SUBSET Tasks] /\ mtx \in Worker \union {None} /\ main = "adding"
      BY DEF Init
    <3>4. /\ dispatched \in [Id -> Nat] /\ ended \in [Id -> Nat]
          /\ leaving \in [Worker -> {"no", "counting", "notifying"}]
      BY DEF Init
    <3>5. missed \in BOOLEAN /\ spurious \in 0..MaxSpurious
      <4>1. missed \in BOOLEAN
        BY DEF Init
      <4>2. MaxSpurious \in Nat /\ spurious = 0
        BY SchedulerAssumption DEF Init
      <4>3. spurious \in 0..MaxSpurious
        BY <4>2
      <4> QED  BY <4>1, <4>3
    <3> QED  BY <3>1, <3>2, <3>3, <3>4, <3>5 DEF TypeOK
  <2>3. Quiet
    BY DEF Init, Quiet
  <2> QED  BY <2>1, <2>2, <2>3 DEF Typed
<1>2. Typed /\ [Next]_vars => Typed'
  <2> SUFFICES ASSUME Typed, [Next]_vars PROVE Typed'
    OBVIOUS
  <2> USE DEF Typed
  <2>1. CASE Add
    BY <2>1, AddTyped
  <2>2. CASE RunAll
    BY <2>2 DEF RunAll, TypeOK, Adding, Quiet, Tasks
  <2>3. ASSUME NEW t \in Id, Visit(t) PROVE Typed'
    <3>1. t \in Tasks /\ Tasks' = Tasks /\ main = "visiting" /\ main' = "visiting"
      BY <2>3 DEF Visit, TypeOK, Tasks
    <3>2. backlog' \in Seq(Tasks') /\ dispatched' \in [Id -> Nat]
      BY <2>3, <3>1, SubmitTyped DEF Visit, TypeOK
    <3>3. TypeOK'
      BY <2>3, <3>1, <3>2 DEF Visit, TypeOK
    <3> QED  BY <2>3, <3>1, <3>3 DEF Visit, Adding, Quiet
  <2>4. CASE LoopDone
    BY <2>4 DEF LoopDone, TypeOK, Adding, Quiet, Tasks
  <2>5. CASE WaitingStep
    <3>1. /\ UNCHANGED <<adding, table, pend, done, toVisit, backlog, pool, dispatched, ended>>
          /\ Tasks' = Tasks
      BY <2>5 DEF WaitingStep, Test, Block, SpuriousWakeup, Retire, Notify, Tasks
    <3>2. /\ main' \in {"adding", "visiting", "waiting", "holding", "blocked", "returned"}
          /\ main' = "adding" => main = "adding"
          /\ main' = "visiting" <=> main = "visiting"
          /\ main' = "returned" => main = "returned" \/ PoolIdle
      BY <2>5 DEF WaitingStep, Test, Block, SpuriousWakeup, Retire, Notify, TypeOK
    <3>3. leaving' \in [Worker -> {"no", "counting", "notifying"}]
      BY <2>5 DEF WaitingStep, Test, Block, SpuriousWakeup, Retire, Notify, TypeOK
    <3>4. missed' \in BOOLEAN /\ spurious' \in 0..MaxSpurious
      <4>1. missed \in BOOLEAN /\ spurious \in 0..MaxSpurious /\ MaxSpurious \in Nat
        BY SchedulerAssumption DEF TypeOK
      <4>2. missed' \in BOOLEAN
        BY <2>5, <4>1 DEF WaitingStep, Test, Block, SpuriousWakeup, Retire, Notify
      <4>3. spurious' = spurious \/ (spurious < MaxSpurious /\ spurious' = spurious + 1)
        BY <2>5 DEF WaitingStep, Test, Block, SpuriousWakeup, Retire, Notify
      <4> QED  BY <4>1, <4>2, <4>3
    <3>5. TypeOK'
      BY <3>1, <3>2, <3>3, <3>4 DEF TypeOK
    <3>6. Quiet'
      BY <3>1, <3>2 DEF Quiet, PoolIdle
    <3> QED  BY <3>1, <3>5, <3>6 DEF Adding
  <2>6. CASE Reset
    <3>1. /\ adding' \in Seq([id : Id, deps : Seq(Id)]) /\ Tasks' = {}
          /\ \A i, j \in DOMAIN adding' : adding'[i].id = adding'[j].id => i = j
      BY <2>6, SchedulerAssumption DEF Reset, Tasks
    <3>2. DOMAIN adding' = 1..Len(adding')
      BY <3>1, LenProperties
    <3>3. Adding'
      <4>1. \A d \in Id : rdeps'[d] = {}
        BY <2>6 DEF Reset
      <4> QED  BY <3>1, <3>2, <4>1 DEF Adding
    <3>4. backlog' = <<>> /\ backlog' \in Seq(Tasks')
      BY <2>6, EmptySeq DEF Reset, Quiet
    <3>5. /\ \A w \in Worker : at[w] = "idle" /\ id[w] = None /\ left[w] = {}
          /\ toVisit' = {} /\ UNCHANGED <<at, id, left, mtx>>
      BY <2>6 DEF Reset, Quiet
    <3>6. id' \in [Worker -> Tasks' \union {None}] /\ left' \in [Worker -> SUBSET Tasks']
      BY <3>5 DEF TypeOK
    <3>7. TypeOK'
      <4>1. spurious' \in 0..MaxSpurious /\ UNCHANGED <<leaving, missed>>
        BY <2>6, SchedulerAssumption DEF Reset
      <4>2. /\ rdeps' \in [Id -> SUBSET Id] /\ pend' \in [Id -> Int] /\ total' \in Nat /\ done' \in Nat
            /\ dispatched' \in [Id -> Nat] /\ ended' \in [Id -> Nat] /\ main' = "adding"
        BY <2>6 DEF Reset
      <4> QED  BY <3>1, <3>4, <3>5, <3>6, <4>1, <4>2 DEF TypeOK
    <3>8. Quiet'
      BY <2>6, <3>4, <3>5 DEF Reset, Quiet
    <3> QED  BY <3>3, <3>7, <3>8
  <2>7. ASSUME NEW w \in Worker, Start(w) PROVE Typed'
    <3>1. Head(backlog) \in Tasks /\ Tail(backlog) \in Seq(Tasks) /\ Tasks' = Tasks
      BY <2>7, TailQueue DEF Start, TypeOK, Tasks
    <3>2. Head(backlog) # None
      BY <3>1, SchedulerAssumption DEF TypeOK
    <3>3. TypeOK'
      BY <2>7, <3>1 DEF Start, TypeOK
    <3> QED  BY <2>7, <3>1, <3>2, <3>3 DEF Start, Adding, Quiet, TypeOK
  <2>8. ASSUME NEW w \in Worker, Work(w) PROVE Typed'
    <3>1. id[w] \in Tasks /\ Tasks' = Tasks /\ main \notin {"adding", "returned"} /\ main' = main
      BY <2>8 DEF Work, Quiet, TypeOK, Tasks
    <3> QED  BY <2>8, <3>1 DEF Work, Adding, Quiet, TypeOK
  <2>9. ASSUME NEW w \in Worker, Lock(w) PROVE Typed'
    <3>1. id[w] \in Tasks /\ Tasks' = Tasks /\ rdeps[id[w]] \subseteq Tasks
      BY <2>9 DEF Lock, Quiet, Adding, TypeOK, Tasks
    <3> QED  BY <2>9, <3>1 DEF Lock, Adding, Quiet, TypeOK
  <2>10. ASSUME NEW w \in Worker, NEW t \in Id, Release(w, t) PROVE Typed'
    <3>1. t \in Tasks /\ Tasks' = Tasks
      BY <2>10 DEF Release, TypeOK, Tasks
    <3>2. main \notin {"adding", "returned"} /\ main' = main
      BY <2>10 DEF Release, Quiet
    <3>3. backlog' \in Seq(Tasks') /\ dispatched' \in [Id -> Nat]
      BY <2>10, <3>1, SubmitTyped DEF Release, TypeOK
    <3>4. TypeOK'
      <4>1. pend' \in [Id -> Int]
        BY <2>10 DEF Release, TypeOK
      <4>2. left' \in [Worker -> SUBSET Tasks']
        BY <2>10, <3>1 DEF Release, TypeOK
      <4> QED  BY <2>10, <3>1, <3>3, <4>1, <4>2 DEF Release, TypeOK
    <3> QED  BY <2>10, <3>1, <3>2, <3>4 DEF Release, Adding, Quiet, TypeOK
  <2>11. ASSUME NEW w \in Worker, Finish(w) PROVE Typed'
    BY <2>11 DEF Finish, TypeOK, Adding, Quiet, Tasks
  <2>12. CASE UNCHANGED vars
    BY <2>12 DEF vars, TypeOK, Adding, Quiet, Tasks
  <2> QED
    BY <2>1, <2>2, <2>3, <2>4, <2>5, <2>6, <2>7, <2>8, <2>9, <2>10, <2>11, <2>12
    DEF Next, RunAllStep, WorkerStep, WaitingStep
<1> QED  BY <1>1, <1>2, PTL DEF Safe
----------------------------------------------------------------------------
(* rdeps_ has an entry for each dependency, and a worker releases no other. *)
LEMMA ConverseHolds == Safe => []Converse
<1> USE DEF table, pool, idling
<1>1. Init => Converse
  BY DEF Init, Converse, Tasks
<1>2. Typed /\ Converse /\ [Next]_vars => Converse'
  <2> SUFFICES ASSUME Typed, Converse, [Next]_vars PROVE Converse'
    OBVIOUS
  <2> USE DEF Typed
  <2>0. ASSUME UNCHANGED <<deps, rdeps, id, left, at>> PROVE Converse'
    BY <2>0 DEF Converse, Tasks, DepsOf
  <2>1. CASE Add
    <3> DEFINE t == Head(adding).id
               d == Head(adding).deps
    <3>1. t \in Id \ Tasks
      <4>1. Len(adding) > 0 /\ Len(adding) \in Nat /\ Head(adding) = adding[1] /\ Head(adding) \in [id : Id, deps : Seq(Id)]
        <5> DEFINE R == [id : Id, deps : Seq(Id)]
        <5>1. adding \in Seq(R) /\ adding # <<>>
          BY <2>1 DEF Add, Adding
        <5> HIDE DEF R
        <5>2. Len(adding) > 0 /\ Len(adding) \in Nat /\ Head(adding) = adding[1] /\ Head(adding) \in R
          BY <5>1, Tails
        <5> QED  BY <5>2 DEF R
      <4>2. 1 \in 1..Len(adding)
        BY <4>1
      <4> QED  BY <4>1, <4>2 DEF Adding
    <3>2. /\ rdeps' = [x \in Id |-> IF x \in ToSet(d) THEN rdeps[x] \union {t} ELSE rdeps[x]]
          /\ deps' = [x \in Tasks \union {t} |-> IF x = t THEN d ELSE deps[x]]
          /\ Tasks' = Tasks \union {t} /\ UNCHANGED <<at, id, left>>
          /\ \A w \in Worker : at[w] = "idle"
      BY <2>1 DEF Add, Tasks, Quiet
    <3> HIDE DEF t, d
    <3>3. ASSUME NEW x \in Id, NEW y \in Id PROVE y \in rdeps'[x] <=> y \in Tasks' /\ x \in ToSet(deps'[y])
      <4>1. CASE y = t
        <5>1. y \notin rdeps[x] /\ y \in Tasks' /\ deps'[y] = d
          BY <3>1, <3>2, <4>1 DEF Adding
        <5> QED  BY <3>2, <4>1, <5>1
      <4>2. CASE y # t
        <5>1. y \in rdeps'[x] <=> y \in rdeps[x]
          BY <3>2, <4>2
        <5>2. y \in Tasks' <=> y \in Tasks
          BY <3>2, <4>2
        <5>3. y \in Tasks => deps'[y] = deps[y]
          BY <3>2, <4>2
        <5> QED  BY <5>1, <5>2, <5>3 DEF Converse, DepsOf
      <4> QED  BY <4>1, <4>2
    <3>4. \A w \in Worker : at'[w] # "release"
      BY <3>2
    <3> QED  BY <3>3, <3>4 DEF Converse, DepsOf
  <2>2. CASE RunAll \/ LoopDone \/ WaitingStep \/ UNCHANGED vars
    BY <2>0, <2>2 DEF RunAll, LoopDone, WaitingStep, Test, Block, SpuriousWakeup, Retire, Notify, vars
  <2>3. ASSUME NEW t \in Id, Visit(t) PROVE Converse'
    BY <2>0, <2>3 DEF Visit
  <2>4. CASE Reset
    <3>1. Tasks' = {} /\ (\A d \in Id : rdeps'[d] = {}) /\ \A w \in Worker : at'[w] = "idle"
      BY <2>4 DEF Reset, Tasks, Quiet
    <3> QED  BY <3>1 DEF Converse
  <2>5. ASSUME NEW w \in Worker, Start(w) \/ Work(w) \/ Finish(w) PROVE Converse'
    <3>1. UNCHANGED <<deps, rdeps, left>> /\ at' \in [Worker -> {"idle", "work", "lock", "release"}]
      BY <2>5 DEF Start, Work, Finish, TypeOK
    <3>2. \A v \in Worker : at'[v] = "release" => at[v] = "release" /\ id'[v] = id[v]
      BY <2>5 DEF Start, Work, Finish, TypeOK
    <3> QED  BY <3>1, <3>2 DEF Converse, Tasks, DepsOf
  <2>6. ASSUME NEW w \in Worker, Lock(w) PROVE Converse'
    BY <2>6 DEF Lock, Converse, Tasks, DepsOf, TypeOK
  <2>7. ASSUME NEW w \in Worker, NEW t \in Id, Release(w, t) PROVE Converse'
    <3>1. UNCHANGED <<deps, rdeps, at, id>> /\ \A v \in Worker : left'[v] \subseteq left[v]
      BY <2>7 DEF Release, TypeOK
    <3> QED  BY <3>1 DEF Converse, Tasks, DepsOf
  <2> QED
    BY <2>1, <2>2, <2>3, <2>4, <2>5, <2>6, <2>7 DEF Next, RunAllStep, WorkerStep, WaitingStep
<1> QED  BY <1>1, <1>2, TypedHolds, PTL DEF Safe
----------------------------------------------------------------------------
(* No task is submitted more often than there are reasons for it.           *)
LEMMA DispatchesHold == Safe => []Dispatches
<1> USE DEF table, pool, idling
<1>1. Init => Dispatches
  <2> SUFFICES ASSUME Init PROVE Dispatches
    OBVIOUS
  <2>1. Tasks = {} /\ \A d : ~Waits(backlog, d)
    BY DEF Init, Tasks, Waits
  <2> QED  BY <2>1 DEF Init, Dispatches
<1>2. Typed /\ Typed' /\ Converse /\ Dispatches /\ [Next]_vars => Dispatches'
  <2> SUFFICES ASSUME Typed, Typed', Converse, Dispatches, [Next]_vars PROVE Dispatches'
    OBVIOUS
  <2> USE DEF Typed, Visited, Zeroed
  <2>0. \A d : ~Waits(<<>>, d)
    BY DEF Waits
  <2>1. CASE Add
    <3>1. \A t \in Id : dispatched'[t] = 0
      BY <2>1 DEF Add, Quiet
    <3>2. UNCHANGED <<backlog, at, id, ended>> /\ backlog = <<>> /\ \A w \in Worker : at[w] = "idle"
      BY <2>1 DEF Add, Quiet
    <3>3. \A t \in Tasks' : dispatched'[t] = 0
      BY <3>1 DEF TypeOK
    <3> QED  BY <2>0, <3>1, <3>2, <3>3 DEF Dispatches
  <2>2. CASE Reset
    <3>1. Tasks' = {} /\ (\A t \in Id : dispatched'[t] = 0)
      BY <2>2 DEF Reset, Tasks
    <3>2. UNCHANGED <<backlog, at, id>> /\ backlog = <<>> /\ \A w \in Worker : at[w] = "idle"
      BY <2>2 DEF Reset, Quiet
    <3> QED  BY <2>0, <3>1, <3>2 DEF Dispatches
  <2>3. CASE RunAll \/ LoopDone \/ WaitingStep \/ UNCHANGED vars
    <3>1. UNCHANGED <<deps, pend, backlog, at, id, dispatched, ended>> /\ Tasks' = Tasks
      BY <2>3 DEF RunAll, LoopDone, WaitingStep, Test, Block, SpuriousWakeup, Retire, Notify, vars, Tasks
    <3>2. \A t \in Tasks : Visited(t)' = Visited(t)
      BY <2>3 DEF RunAll, LoopDone, WaitingStep, Test, Block, SpuriousWakeup, Retire, Notify, vars
    <3> QED  BY <3>1, <3>2 DEF Dispatches
  <2>4. ASSUME NEW t \in Id, Visit(t) PROVE Dispatches'
    <3>1. t \in Tasks /\ main = "visiting" /\ t \in toVisit /\ toVisit' = toVisit \ {t}
      BY <2>4 DEF Visit, TypeOK
    <3>2. UNCHANGED <<deps, pend, at, id, ended, main>> /\ Tasks' = Tasks
      BY <2>4 DEF Visit, Tasks
    <3>3. \A x \in Tasks : /\ Zeroed(x)' = Zeroed(x) /\ (x # t => Visited(x)' = Visited(x))
      BY <3>1, <3>2
    <3>4. Visited(t) = 0 /\ Visited(t)' = 1
      BY <3>1, <3>2
    <3>5. CASE pend[t] = 0
      <4>1. Submit(t)
        BY <2>4, <3>5 DEF Visit
      <4>2. dispatched' = [dispatched EXCEPT ![t] = dispatched[t] + 1]
        BY <4>1 DEF Submit
      <4>3. \A x \in Id : x # t => dispatched'[x] = dispatched[x]
        BY <4>2 DEF TypeOK
      <4>4. dispatched'[t] = dispatched[t] + 1 /\ dispatched[t] \in Nat
        BY <4>2 DEF TypeOK
      <4>5. \A d : Waits(backlog', d) <=> Waits(backlog, d) \/ d = t
        BY <3>1, <4>1, AppendQueue DEF Submit, TypeOK
      <4>6. \A x \in Tasks : dispatched'[x] <= Visited(x)' + Zeroed(x)'
        <5> SUFFICES ASSUME NEW x \in Tasks PROVE dispatched'[x] <= Visited(x)' + Zeroed(x)'
          OBVIOUS
        <5>1. CASE x = t
          <6>1. dispatched[t] <= 0 + Zeroed(t) /\ Zeroed(t) \in {0, 1}
            BY <3>1, <3>4 DEF Dispatches
          <6> QED  BY <6>1, <5>1, <3>1, <3>3, <3>4, <4>4
        <5>2. CASE x # t
          <6>1. x \in Id
            BY DEF TypeOK
          <6> QED  BY <6>1, <5>2, <3>3, <4>3 DEF Dispatches
        <5> QED  BY <5>1, <5>2
      <4>7. \A x \in Id : dispatched'[x] > 0 => x \in Tasks
        BY <3>1, <4>3 DEF Dispatches
      <4>8. \A x \in Id : Waits(backlog', x) => dispatched'[x] > 0
        BY <4>3, <4>4, <4>5 DEF Dispatches
      <4>9. \A x \in Id : dispatched[x] > 0 => dispatched'[x] > 0
        BY <4>3, <4>4
      <4>10. \A w \in Worker : at[w] # "idle" => id[w] \in Id
        BY DEF TypeOK, Quiet
      <4> QED  BY <3>2, <4>6, <4>7, <4>8, <4>9, <4>10 DEF Dispatches
    <3>6. CASE pend[t] # 0
      <4>1. UNCHANGED <<backlog, dispatched>>
        BY <2>4, <3>6 DEF Visit
      <4>2. \A x \in Tasks : Visited(x) <= Visited(x)' /\ Visited(x) \in {0, 1} /\ Visited(x)' \in {0, 1} /\ Zeroed(x) \in {0, 1}
        BY <3>1, <3>2
      <4>3. \A x \in Tasks : dispatched[x] \in Nat
        BY DEF TypeOK
      <4>4. \A x \in Tasks : dispatched'[x] <= Visited(x)' + Zeroed(x)'
        <5> SUFFICES ASSUME NEW x \in Tasks PROVE dispatched[x] <= Visited(x)' + Zeroed(x)
          BY <3>3, <4>1
        <5>1. dispatched[x] <= Visited(x) + Zeroed(x)
          BY DEF Dispatches
        <5> HIDE DEF Visited, Zeroed
        <5> QED  BY <5>1, <4>2, <4>3
      <4> QED  BY <3>2, <4>1, <4>4 DEF Dispatches
    <3> QED  BY <3>5, <3>6
  <2>5. ASSUME NEW w \in Worker, Start(w) PROVE Dispatches'
    <3>1. Waits(backlog, Head(backlog)) /\ Head(backlog) \in Id /\ \A d : Waits(backlog', d) => Waits(backlog, d)
      BY <2>5, TailQueue DEF Start, TypeOK
    <3>2. UNCHANGED <<deps, pend, toVisit, main, ended, dispatched>> /\ Tasks' = Tasks
      BY <2>5 DEF Start, Tasks
    <3>3. id'[w] = Head(backlog) /\ at'[w] = "work" /\ \A v \in Worker : v # w => id'[v] = id[v] /\ at'[v] = at[v]
      BY <2>5 DEF Start, TypeOK
    <3>4. \A t \in Tasks : Visited(t)' = Visited(t) /\ Zeroed(t)' = Zeroed(t)
      BY <3>2
    <3> QED  BY <3>1, <3>2, <3>3, <3>4 DEF Dispatches
  <2>6. ASSUME NEW w \in Worker, Work(w) PROVE Dispatches'
    <3>1. UNCHANGED <<deps, pend, toVisit, main, backlog, id, dispatched>> /\ Tasks' = Tasks
      BY <2>6 DEF Work, Tasks
    <3>2. id[w] \in Id /\ at[w] # "idle" /\ ended' = [ended EXCEPT ![id[w]] = ended[id[w]] + 1] /\ at' = [at EXCEPT ![w] = "lock"]
      BY <2>6 DEF Work, TypeOK, Quiet
    <3>3. ended'[id[w]] > 0 /\ \A x \in Id : ended[x] > 0 => ended'[x] > 0
      BY <3>2 DEF TypeOK
    <3>4. \A v \in Worker : v # w => at'[v] = at[v]
      BY <3>2 DEF TypeOK
    <3>5. \A v \in Worker : at[v] # "idle" => id[v] \in Id
      BY DEF TypeOK, Quiet
    <3>6. \A v \in Worker : at'[v] \in {"lock", "release"} => ended'[id'[v]] > 0
      BY <3>1, <3>2, <3>3, <3>4, <3>5 DEF Dispatches
    <3>7. \A t \in Tasks : Visited(t)' = Visited(t) /\ Zeroed(t)' = Zeroed(t)
      BY <3>1
    <3> QED  BY <3>1, <3>2, <3>4, <3>6, <3>7 DEF Dispatches
  <2>7. ASSUME NEW w \in Worker, Lock(w) \/ Finish(w) PROVE Dispatches'
    <3>1. UNCHANGED <<deps, pend, toVisit, main, backlog, ended, dispatched>> /\ Tasks' = Tasks
      BY <2>7 DEF Lock, Finish, Tasks
    <3>2. \A v \in Worker : \/ at'[v] = "idle"
                            \/ at'[v] = at[v] /\ id'[v] = id[v]
                            \/ at'[v] = "release" /\ at[v] = "lock" /\ id'[v] = id[v]
      BY <2>7 DEF Lock, Finish, TypeOK
    <3>3. \A t \in Tasks : Visited(t)' = Visited(t) /\ Zeroed(t)' = Zeroed(t)
      BY <3>1
    <3> QED  BY <3>1, <3>2, <3>3 DEF Dispatches
  <2>8. ASSUME NEW w \in Worker, NEW t \in Id, Release(w, t) PROVE Dispatches'
    <3>1. t \in Tasks /\ deps[t] # <<>>
      <4>1. t \in rdeps[id[w]] /\ id[w] \in Id
        <5>1. at[w] = "release" /\ t \in left[w]
          BY <2>8 DEF Release
        <5>2. id[w] \in Id
          BY <5>1 DEF TypeOK, Quiet
        <5> QED  BY <5>1, <5>2 DEF Converse
      <4>2. t \in Tasks /\ id[w] \in DepsOf(t)
        BY <4>1 DEF Converse
      <4> QED  BY <4>2 DEF DepsOf, ToSet
    <3>2. UNCHANGED <<deps, at, id, ended, main, toVisit>> /\ Tasks' = Tasks
      BY <2>8 DEF Release, Tasks
    <3>3. pend' = [pend EXCEPT ![t] = pend[t] - 1] /\ pend[t] \in Int
      BY <2>8 DEF Release, TypeOK
    <3>4. \A x \in Tasks : Visited(x)' = Visited(x) /\ (x # t => Zeroed(x)' = Zeroed(x))
      BY <3>1, <3>2, <3>3 DEF TypeOK
    <3>5. CASE pend'[t] = 0
      <4>1. Submit(t)
        BY <2>8, <3>5 DEF Release
      <4>2. dispatched' = [dispatched EXCEPT ![t] = dispatched[t] + 1]
        BY <4>1 DEF Submit
      <4>3. \A x \in Id : x # t => dispatched'[x] = dispatched[x]
        BY <4>2 DEF TypeOK
      <4>4. dispatched'[t] = dispatched[t] + 1 /\ dispatched[t] \in Nat
        BY <4>2 DEF TypeOK
      <4>5. \A d : Waits(backlog', d) <=> Waits(backlog, d) \/ d = t
        BY <3>1, <4>1, AppendQueue DEF Submit, TypeOK
      <4>6. Zeroed(t) = 0 /\ Zeroed(t)' = 1
        <5>1. pend[t] = 1
          BY <3>3, <3>5 DEF TypeOK
        <5> QED  BY <5>1, <3>1, <3>2, <3>5
      <4>7. \A x \in Tasks : dispatched'[x] <= Visited(x)' + Zeroed(x)'
        <5> SUFFICES ASSUME NEW x \in Tasks PROVE dispatched'[x] <= Visited(x)' + Zeroed(x)'
          OBVIOUS
        <5>1. CASE x = t
          <6>1. dispatched[t] <= Visited(t) + 0 /\ Visited(t) \in {0, 1}
            BY <3>1, <4>6 DEF Dispatches
          <6> QED  BY <6>1, <5>1, <3>4, <4>4, <4>6
        <5>2. CASE x # t
          <6>1. x \in Id
            BY DEF TypeOK
          <6> QED  BY <6>1, <5>2, <3>4, <4>3 DEF Dispatches
        <5> QED  BY <5>1, <5>2
      <4>8. \A x \in Id : dispatched'[x] > 0 => x \in Tasks
        BY <3>1, <4>3 DEF Dispatches
      <4>9. \A x \in Id : Waits(backlog', x) => dispatched'[x] > 0
        BY <4>3, <4>4, <4>5 DEF Dispatches
      <4>10. \A x \in Id : dispatched[x] > 0 => dispatched'[x] > 0
        BY <4>3, <4>4
      <4>11. \A v \in Worker : at[v] # "idle" => id[v] \in Id
        BY DEF TypeOK, Quiet
      <4> QED  BY <3>2, <4>7, <4>8, <4>9, <4>10, <4>11 DEF Dispatches
    <3>6. CASE pend'[t] # 0
      <4>1. UNCHANGED <<backlog, dispatched>>
        BY <2>8, <3>6 DEF Release
      <4>2. \A x \in Tasks : Zeroed(x) <= Zeroed(x)' /\ Visited(x) \in {0, 1} /\ Zeroed(x)' \in {0, 1} /\ Zeroed(x) \in {0, 1}
        <5>1. pend[t] > 0 \/ pend'[t] <= 0
          BY <3>3 DEF TypeOK
        <5>2. deps'[t] = deps[t] /\ deps[t] # <<>>
          BY <3>1, <3>2
        <5>3. pend[t] \in Int /\ pend'[t] \in Int
          BY <3>3 DEF TypeOK
        <5>4. Zeroed(t) <= Zeroed(t)'
          BY <5>1, <5>2, <5>3
        <5> QED  BY <5>4, <3>4
      <4>3. \A x \in Tasks : dispatched[x] \in Nat
        BY DEF TypeOK
      <4>4. \A x \in Tasks : dispatched'[x] <= Visited(x)' + Zeroed(x)'
        <5> SUFFICES ASSUME NEW x \in Tasks PROVE dispatched[x] <= Visited(x) + Zeroed(x)'
          BY <3>4, <4>1
        <5>1. dispatched[x] <= Visited(x) + Zeroed(x)
          BY DEF Dispatches
        <5> HIDE DEF Visited, Zeroed
        <5> QED  BY <5>1, <4>2, <4>3
      <4> QED  BY <3>2, <4>1, <4>4 DEF Dispatches
    <3> QED  BY <3>5, <3>6
  <2> QED
    BY <2>1, <2>2, <2>3, <2>4, <2>5, <2>6, <2>7, <2>8 DEF Next, RunAllStep, WorkerStep, WaitingStep
<1> QED  BY <1>1, <1>2, TypedHolds, ConverseHolds, PTL DEF Safe
----------------------------------------------------------------------------
(* A task that was submitted once is in one place.                          *)
LEMMA SubmitOnce ==
  ASSUME TypeOK, Quiet, Dispatches, Once, NEW t \in Tasks, Submit(t), UNCHANGED <<at, id, ended>>
  PROVE  Once'
<1>1. /\ dispatched' = [dispatched EXCEPT ![t] = dispatched[t] + 1] /\ t \in Id
      /\ \A d \in Id : dispatched[d] \in Nat
  BY DEF Submit, TypeOK
<1>2. /\ \A d : Waits(backlog', d) <=> Waits(backlog, d) \/ d = t
      /\ \A d : Single(backlog, d) /\ (d = t => ~Waits(backlog, d)) => Single(backlog', d)
  BY AppendQueue DEF Submit, TypeOK
<1> SUFFICES ASSUME NEW d \in Id, dispatched'[d] <= 1 PROVE OnceAt(d)'
  BY DEF Once
<1>3. CASE d = t
  <2>1. dispatched[t] = 0 /\ dispatched'[t] > 0
    BY <1>1, <1>3 DEF TypeOK
  <2>2. OnceAt(t)
    BY <1>1, <2>1 DEF Once
  <2>3. ~Waits(backlog, t)
    BY <1>1, <2>1 DEF Dispatches
  <2>4. ended[t] = 0
    BY <1>1, <2>1, <2>2 DEF OnceAt, TypeOK
  <2>5. \A w \in Worker : id[w] # t
    BY <1>1, <2>1, SchedulerAssumption DEF Dispatches, Quiet
  <2> QED  BY <1>2, <1>3, <2>1, <2>2, <2>3, <2>4, <2>5 DEF OnceAt
<1>4. CASE d # t
  <2>1. dispatched'[d] = dispatched[d]
    BY <1>1, <1>4 DEF TypeOK
  <2>2. OnceAt(d)
    BY <2>1 DEF Once
  <2> QED  BY <1>2, <1>4, <2>1, <2>2 DEF OnceAt
<1> QED  BY <1>3, <1>4

LEMMA OnceHolds == Safe => []Once
<1> USE DEF table, pool, idling
<1>0. \A d : ~Waits(<<>>, d) /\ Single(<<>>, d)
  BY DEF Waits, Single
<1>1. Init => Once
  <2> SUFFICES ASSUME Init, NEW d \in Id PROVE OnceAt(d)
    BY DEF Once
  <2>1. backlog = <<>> /\ ended[d] = 0 /\ \A w \in Worker : id[w] # d
    BY SchedulerAssumption DEF Init
  <2> QED  BY <1>0, <2>1 DEF OnceAt
<1>2. Typed /\ Dispatches /\ Once /\ [Next]_vars => Once'
  <2> SUFFICES ASSUME Typed, Dispatches, Once, [Next]_vars PROVE Once'
    OBVIOUS
  <2> USE DEF Typed
  <2>0. ASSUME UNCHANGED <<backlog, at, id, dispatched, ended>> PROVE Once'
    BY <2>0 DEF Once, OnceAt
  <2>1. CASE Add \/ RunAll \/ LoopDone \/ WaitingStep \/ UNCHANGED vars
    BY <2>0, <2>1 DEF Add, RunAll, LoopDone, WaitingStep, Test, Block, SpuriousWakeup, Retire, Notify, vars
  <2>2. ASSUME NEW t \in Id, Visit(t) PROVE Once'
    <3>1. t \in Tasks /\ UNCHANGED <<at, id, ended>> /\ (Submit(t) \/ UNCHANGED <<backlog, dispatched>>)
      BY <2>2 DEF Visit, TypeOK
    <3> QED  BY <2>0, <3>1, SubmitOnce
  <2>3. CASE Reset
    <3> SUFFICES ASSUME NEW d \in Id PROVE OnceAt(d)'
      BY DEF Once
    <3>1. backlog' = <<>> /\ ended'[d] = 0 /\ \A w \in Worker : id'[w] # d
      BY <2>3, SchedulerAssumption DEF Reset, Quiet
    <3> QED  BY <1>0, <3>1 DEF OnceAt
  <2>4. ASSUME NEW w \in Worker, Start(w) PROVE Once'
    <3> DEFINE h == Head(backlog)
    <3>1. /\ Waits(backlog, h)
          /\ \A d : Waits(backlog', d) => Waits(backlog, d)
          /\ \A d : Single(backlog, d) => Single(backlog', d)
          /\ Single(backlog, h) => ~Waits(backlog', h)
      BY <2>4, TailQueue DEF Start, TypeOK
    <3>2. /\ id'[w] = h /\ at'[w] = "work"
          /\ \A v \in Worker : v # w => id'[v] = id[v] /\ at'[v] = at[v]
          /\ UNCHANGED <<dispatched, ended>>
      BY <2>4 DEF Start, TypeOK
    <3> HIDE DEF h
    <3> SUFFICES ASSUME NEW d \in Id, dispatched[d] <= 1 PROVE OnceAt(d)'
      BY <3>2 DEF Once
    <3>3. OnceAt(d)
      BY DEF Once
    <3>4. CASE d = h
      <4>1. ended[d] = 0 /\ (\A v \in Worker : id[v] # d) /\ ~Waits(backlog', d) /\ Single(backlog', d)
        BY <3>1, <3>3, <3>4 DEF OnceAt
      <4> QED  BY <3>2, <3>3, <4>1 DEF OnceAt
    <3>5. CASE d # h
      <4>1. \A v \in Worker : id'[v] = d => v # w
        BY <3>2, <3>5
      <4> QED  BY <3>1, <3>2, <3>3, <4>1 DEF OnceAt
    <3> QED  BY <3>4, <3>5
  <2>5. ASSUME NEW w \in Worker, Work(w) PROVE Once'
    <3> DEFINE x == id[w]
    <3>1. /\ x \in Id /\ UNCHANGED <<backlog, id, dispatched>>
          /\ at[w] = "work" /\ at'[w] = "lock" /\ \A v \in Worker : v # w => at'[v] = at[v]
          /\ dispatched[x] > 0
      BY <2>5 DEF Work, TypeOK, Quiet, Dispatches
    <3>2. \A d \in Id : d # x => ended'[d] = ended[d]
      BY <2>5 DEF Work, TypeOK
    <3> HIDE DEF x
    <3> SUFFICES ASSUME NEW d \in Id, dispatched[d] <= 1 PROVE OnceAt(d)'
      BY <3>1 DEF Once
    <3>3. OnceAt(d)
      BY DEF Once
    <3>4. CASE d = x
      <4>1. id[w] = d
        BY <3>4 DEF x
      <4>2. ~Waits(backlog, d) /\ \A v \in Worker : id[v] = d => v = w
        BY <3>3, <4>1 DEF OnceAt
      <4>3. \A v \in Worker : id'[v] = d => at'[v] # "work"
        BY <3>1, <4>2
      <4> QED  BY <3>1, <3>3, <3>4, <4>2, <4>3 DEF OnceAt
    <3>5. CASE d # x
      <4>1. id[w] # d
        BY <3>5 DEF x
      <4> QED  BY <3>1, <3>2, <3>3, <3>5, <4>1 DEF OnceAt
    <3> QED  BY <3>4, <3>5
  <2>6. ASSUME NEW w \in Worker, Lock(w) PROVE Once'
    <3>1. UNCHANGED <<backlog, id, dispatched, ended>> /\ \A v \in Worker : at'[v] = "work" => at[v] = "work"
      BY <2>6 DEF Lock, TypeOK
    <3> QED  BY <3>1 DEF Once, OnceAt
  <2>7. ASSUME NEW w \in Worker, NEW t \in Id, Release(w, t) PROVE Once'
    <3>1. t \in Tasks /\ UNCHANGED <<at, id, ended>> /\ (Submit(t) \/ UNCHANGED <<backlog, dispatched>>)
      BY <2>7 DEF Release, TypeOK
    <3> QED  BY <2>0, <3>1, SubmitOnce
  <2>8. ASSUME NEW w \in Worker, Finish(w) PROVE Once'
    <3>1. /\ UNCHANGED <<backlog, dispatched, ended>> /\ id'[w] = None
          /\ \A v \in Worker : v # w => id'[v] = id[v] /\ at'[v] = at[v]
      BY <2>8 DEF Finish, TypeOK
    <3>2. \A d \in Id : d # None
      BY SchedulerAssumption
    <3>3. \A d \in Id : \A v \in Worker : id'[v] = d => id[v] = d /\ at'[v] = at[v]
      BY <3>1, <3>2
    <3> QED  BY <3>1, <3>3 DEF Once, OnceAt
  <2> QED
    BY <2>1, <2>2, <2>3, <2>4, <2>5, <2>6, <2>7, <2>8 DEF Next, RunAllStep, WorkerStep, WaitingStep
<1> QED  BY <1>1, <1>2, TypedHolds, DispatchesHold, PTL DEF Safe
----------------------------------------------------------------------------
(* pending_ of a task counts the dependencies that have yet to release it,  *)
(* as long as none of them was submitted twice.                             *)
Frees(d, t) == ended[d] > 0 /\ \A w \in Worker : id[w] = d => at[w] = "release" /\ t \notin left[w]

LEMMA ReleasedIsFrees == \A t : Released(t) = {d \in DepsOf(t) : Frees(d, t)}
BY DEF Released, Frees

\* a step that changes neither the counter of t nor what has released it
LEMMA SameCounter ==
  ASSUME TypeOK, Counters, NEW t \in Tasks, deps'[t] = deps[t], pend'[t] = pend[t],
         \A d \in DepsOf(t) : dispatched'[d] <= 1 => dispatched[d] <= 1 /\ (Frees(d, t)' <=> Frees(d, t)),
         \A d \in DepsOf(t) : dispatched'[d] <= 1
  PROVE  pend'[t] = Len(deps'[t]) - Cardinality(Released(t)')
<1>1. DepsOf(t)' = DepsOf(t)
  BY DEF DepsOf
<1>2. Released(t)' = {d \in DepsOf(t) : Frees(d, t)'}
  BY <1>1 DEF Released, Frees
<1>3. Released(t)' = Released(t)
  BY <1>2, ReleasedIsFrees
<1>4. pend[t] = Len(deps[t]) - Cardinality(Released(t))
  BY DEF Counters
<1> QED  BY <1>3, <1>4

LEMMA SubmitGrows ==
  ASSUME TypeOK, NEW x \in Id, Submit(x) \/ UNCHANGED dispatched
  PROVE  \A d \in Id : dispatched[d] <= dispatched'[d] /\ dispatched'[d] \in Nat
<1>1. \A d \in Id : dispatched[d] \in Nat
  BY DEF TypeOK
<1>2. CASE UNCHANGED dispatched
  BY <1>1, <1>2
<1>3. CASE Submit(x)
  <2>1. \A d \in Id : dispatched'[d] = IF d = x THEN dispatched[d] + 1 ELSE dispatched[d]
    BY <1>3 DEF Submit, TypeOK
  <2> QED  BY <1>1, <2>1
<1> QED  BY <1>2, <1>3

LEMMA CountersHold == Safe => []Counters
<1> USE DEF table, pool, idling
<1>1. Init => Counters
  BY DEF Init, Tasks, Counters
<1>2. Typed /\ Converse /\ Dispatches /\ Once /\ Counters /\ [Next]_vars => Counters'
  <2> SUFFICES ASSUME Typed, Converse, Dispatches, Once, Counters, [Next]_vars PROVE Counters'
    OBVIOUS
  <2> USE DEF Typed
  <2>0. \A t \in Tasks : \A d \in DepsOf(t) : d \in Id
    <3> SUFFICES ASSUME NEW t \in Tasks PROVE \A i \in DOMAIN deps[t] : deps[t][i] \in Id
      BY DEF DepsOf, ToSet
    <3>1. deps[t] \in Seq(Id)
      BY DEF TypeOK
    <3> QED  BY <3>1, LenProperties, ElementOfSeq
  <2>1. \A d \in Id : dispatched[d] \in Nat /\ ended[d] \in Nat
    BY DEF TypeOK
  <2>2. CASE Add
    <3>1. /\ \A d \in Id : ended[d] = 0 /\ dispatched[d] = 0
          /\ UNCHANGED <<id, at, left, ended, dispatched>>
      BY <2>2 DEF Add, Quiet
    <3> DEFINE x == Head(adding).id
               q == Head(adding).deps
    <3>2. /\ pend' = [pend EXCEPT ![x] = Len(q)]
          /\ deps' = [y \in Tasks \union {x} |-> IF y = x THEN q ELSE deps[y]]
          /\ Tasks' = Tasks \union {x}
      BY <2>2 DEF Add, Tasks
    <3>3. x \in Id /\ q \in Seq(Id)
      <4> DEFINE R == [id : Id, deps : Seq(Id)]
      <4>1. adding \in Seq(R) /\ adding # <<>>
        BY <2>2 DEF Add, Adding
      <4> HIDE DEF R
      <4>2. Head(adding) \in R
        BY <4>1, Tails
      <4> QED  BY <4>2 DEF R
    <3> HIDE DEF x, q
    <3>4. ASSUME NEW t \in Tasks' PROVE pend'[t] = Len(deps'[t]) - Cardinality(Released(t)')
      <4>1. deps'[t] \in Seq(Id)
        BY <3>2, <3>3, <3>4 DEF TypeOK
      <4>2. \A d \in DepsOf(t)' : d \in Id
        <5>1. \A i \in DOMAIN deps'[t] : deps'[t][i] \in Id
          BY <4>1, LenProperties, ElementOfSeq
        <5> QED  BY <5>1 DEF DepsOf, ToSet
      <4>3. Released(t)' = {}
        BY <3>1, <4>2 DEF Released
      <4>4. pend'[t] = Len(deps'[t])
        <5>1. CASE t = x
          BY <3>2, <3>3, <5>1 DEF TypeOK
        <5>2. CASE t # x
          <6>1. t \in Tasks /\ t \in Id /\ deps'[t] = deps[t] /\ pend'[t] = pend[t]
            BY <3>2, <3>3, <3>4, <5>2 DEF TypeOK
          <6>2. \A d \in DepsOf(t) : dispatched[d] <= 1 /\ ended[d] = 0
            BY <2>0, <3>1, <6>1
          <6>3. Released(t) = {}
            BY <6>2 DEF Released
          <6>4. pend[t] = Len(deps[t]) - Cardinality(Released(t))
            BY <6>1, <6>2 DEF Counters
          <6>5. Len(deps[t]) \in Nat
            BY <6>1, LenProperties DEF TypeOK
          <6> QED  BY <6>1, <6>3, <6>4, <6>5, FS_EmptySet
        <5> QED  BY <5>1, <5>2
      <4>5. Len(deps'[t]) \in Nat
        BY <4>1, LenProperties
      <4> QED  BY <4>3, <4>4, <4>5, FS_EmptySet
    <3> QED  BY <3>4 DEF Counters
  <2>3. CASE Reset
    BY <2>3 DEF Reset, Counters, Tasks
  <2>4. ASSUME Tasks' = Tasks, deps' = deps, pend' = pend,
               \A d \in Id : dispatched[d] <= dispatched'[d] /\ dispatched'[d] \in Nat,
               \A t \in Tasks : \A d \in DepsOf(t) : dispatched[d] <= 1 => (Frees(d, t)' <=> Frees(d, t))
        PROVE  Counters'
    <3> SUFFICES ASSUME NEW t \in Tasks, \A d \in DepsOf(t) : dispatched'[d] <= 1
                 PROVE  pend'[t] = Len(deps'[t]) - Cardinality(Released(t)')
      BY <2>4 DEF Counters, DepsOf
    <3>1. \A d \in DepsOf(t) : dispatched'[d] <= 1 => dispatched[d] <= 1
      BY <2>0, <2>1, <2>4
    <3> QED  BY <2>4, <3>1, SameCounter
  <2>5. CASE RunAll \/ LoopDone \/ WaitingStep \/ UNCHANGED vars
    <3>1. UNCHANGED <<deps, pend, at, id, left, dispatched, ended>> /\ Tasks' = Tasks
      BY <2>5 DEF RunAll, LoopDone, WaitingStep, Test, Block, SpuriousWakeup, Retire, Notify, vars, Tasks
    <3>2. \A t, d : Frees(d, t)' <=> Frees(d, t)
      BY <3>1 DEF Frees
    <3> QED  BY <2>1, <2>4, <3>1, <3>2
  <2>6. ASSUME NEW x \in Id, Visit(x) PROVE Counters'
    <3>1. UNCHANGED <<deps, pend, at, id, left, ended>> /\ Tasks' = Tasks
      BY <2>6 DEF Visit, Tasks
    <3>2. \A t, d : Frees(d, t)' <=> Frees(d, t)
      BY <3>1 DEF Frees
    <3>3. \A d \in Id : dispatched[d] <= dispatched'[d] /\ dispatched'[d] \in Nat
      <4>1. Submit(x) \/ UNCHANGED dispatched
        BY <2>6 DEF Visit
      <4> QED  BY <4>1, SubmitGrows
    <3> QED  BY <2>4, <3>1, <3>2, <3>3
  <2>7. ASSUME NEW w \in Worker, Start(w) PROVE Counters'
    <3> DEFINE h == Head(backlog)
    <3>1. UNCHANGED <<deps, pend, left, ended, dispatched>> /\ Tasks' = Tasks
      BY <2>7 DEF Start, Tasks
    <3>2. id[w] = None /\ id'[w] = h /\ at'[w] = "work" /\ \A v \in Worker : v # w => id'[v] = id[v] /\ at'[v] = at[v]
      BY <2>7 DEF Start, TypeOK, Quiet
    <3>3. Waits(backlog, h)
      BY <2>7, TailQueue DEF Start, TypeOK
    <3> HIDE DEF h
    <3>4. ASSUME NEW t \in Tasks, NEW d \in DepsOf(t), dispatched[d] <= 1 PROVE Frees(d, t)' <=> Frees(d, t)
      <4>1. d \in Id /\ d # None
        BY <2>0, SchedulerAssumption
      <4>2. CASE d = h
        <5>1. ended[d] = 0
          BY <3>3, <3>4, <4>1, <4>2 DEF Once, OnceAt
        <5> QED  BY <3>1, <5>1 DEF Frees
      <4>3. CASE d # h
        BY <3>1, <3>2, <4>1, <4>3 DEF Frees
      <4> QED  BY <4>2, <4>3
    <3> QED  BY <2>1, <2>4, <3>1, <3>4
  <2>8. ASSUME NEW w \in Worker, Work(w) PROVE Counters'
    <3>1. UNCHANGED <<deps, pend, left, id, dispatched>> /\ Tasks' = Tasks
      BY <2>8 DEF Work, Tasks
    <3>2. at[w] = "work" /\ at'[w] = "lock" /\ \A v \in Worker : v # w => at'[v] = at[v]
      BY <2>8 DEF Work, TypeOK
    <3>3. \A d \in Id : d # id[w] => ended'[d] = ended[d]
      BY <2>8 DEF Work, TypeOK
    <3>4. ASSUME NEW t \in Tasks, NEW d \in DepsOf(t) PROVE Frees(d, t)' <=> Frees(d, t)
      <4>1. d \in Id
        BY <2>0
      <4>2. CASE d = id[w]
        BY <3>1, <3>2, <4>2 DEF Frees
      <4>3. CASE d # id[w]
        BY <3>1, <3>2, <3>3, <4>1, <4>3 DEF Frees
      <4> QED  BY <4>2, <4>3
    <3> QED  BY <2>1, <2>4, <3>1, <3>4
  <2>9. ASSUME NEW w \in Worker, Lock(w) PROVE Counters'
    <3>1. UNCHANGED <<deps, pend, id, ended, dispatched>> /\ Tasks' = Tasks
      BY <2>9 DEF Lock, Tasks
    <3>2. /\ at[w] = "lock" /\ left'[w] = rdeps[id[w]]
          /\ \A v \in Worker : v # w => at'[v] = at[v] /\ left'[v] = left[v]
      BY <2>9 DEF Lock, TypeOK
    <3>3. ASSUME NEW t \in Tasks, NEW d \in DepsOf(t) PROVE Frees(d, t)' <=> Frees(d, t)
      <4>1. d \in Id /\ t \in Id
        BY <2>0 DEF TypeOK
      <4>2. CASE d = id[w]
        <5>1. t \in left'[w]
          BY <3>2, <4>1, <4>2 DEF Converse
        <5> QED  BY <3>1, <3>2, <4>2, <5>1 DEF Frees
      <4>3. CASE d # id[w]
        BY <3>1, <3>2, <4>3 DEF Frees
      <4> QED  BY <4>2, <4>3
    <3> QED  BY <2>1, <2>4, <3>1, <3>3
  <2>10. ASSUME NEW w \in Worker, Finish(w) PROVE Counters'
    <3>1. UNCHANGED <<deps, pend, left, ended, dispatched>> /\ Tasks' = Tasks
      BY <2>10 DEF Finish, Tasks
    <3>2. /\ at[w] = "release" /\ left[w] = {} /\ id'[w] = None
          /\ \A v \in Worker : v # w => at'[v] = at[v] /\ id'[v] = id[v]
      BY <2>10 DEF Finish, TypeOK
    <3>3. ended[id[w]] > 0
      BY <3>2 DEF Dispatches
    <3>4. ASSUME NEW t \in Tasks, NEW d \in DepsOf(t), dispatched[d] <= 1 PROVE Frees(d, t)' <=> Frees(d, t)
      <4>1. d \in Id /\ d # None
        BY <2>0, SchedulerAssumption
      <4>2. CASE d = id[w]
        <5>1. \A v \in Worker : id[v] = d => v = w
          BY <3>4, <4>1, <4>2 DEF Once, OnceAt
        <5>2. Frees(d, t)
          BY <3>2, <3>3, <4>2, <5>1 DEF Frees
        <5>3. Frees(d, t)'
          BY <3>1, <3>2, <3>3, <4>1, <4>2, <5>1 DEF Frees
        <5> QED  BY <5>2, <5>3
      <4>3. CASE d # id[w]
        BY <3>1, <3>2, <4>1, <4>3 DEF Frees
      <4> QED  BY <4>2, <4>3
    <3> QED  BY <2>1, <2>4, <3>1, <3>4
  <2>11. ASSUME NEW w \in Worker, NEW x \in Id, Release(w, x) PROVE Counters'
    <3>1. UNCHANGED <<deps, at, id, ended>> /\ Tasks' = Tasks
      BY <2>11 DEF Release, Tasks
    <3>2. /\ at[w] = "release" /\ x \in left[w] /\ left'[w] = left[w] \ {x}
          /\ \A v \in Worker : v # w => left'[v] = left[v]
      BY <2>11 DEF Release, TypeOK
    <3>3. pend'[x] = pend[x] - 1 /\ \A t \in Id : t # x => pend'[t] = pend[t]
      BY <2>11 DEF Release, TypeOK
    <3>4. \A d \in Id : dispatched[d] <= dispatched'[d] /\ dispatched'[d] \in Nat
      <4>1. Submit(x) \/ UNCHANGED dispatched
        BY <2>11 DEF Release
      <4> QED  BY <4>1, SubmitGrows
    <3>0. PICK h : h = id[w]
      OBVIOUS
    <3>5. h \in Id /\ h \in DepsOf(x) /\ x \in Tasks /\ ended[h] > 0
      <4>1. h \in Id
        BY <3>0, <3>2 DEF TypeOK, Quiet
      <4>2. x \in rdeps[h]
        BY <3>0, <3>2 DEF Converse
      <4> QED  BY <3>0, <3>2, <4>1, <4>2 DEF Converse, Dispatches
    <3>6. ASSUME NEW t \in Tasks, t # x, NEW d \in DepsOf(t) PROVE Frees(d, t)' <=> Frees(d, t)
      <4>1. \A v \in Worker : t \in left'[v] <=> t \in left[v]
        BY <3>2, <3>6
      <4> QED  BY <3>1, <4>1 DEF Frees
    <3>7. ASSUME NEW d \in DepsOf(x), d # h PROVE Frees(d, x)' <=> Frees(d, x)
      <4>1. \A v \in Worker : id[v] = d => v # w
        BY <3>0, <3>7
      <4> QED  BY <3>1, <3>2, <4>1 DEF Frees
    <3> SUFFICES ASSUME NEW t \in Tasks, \A d \in DepsOf(t) : dispatched'[d] <= 1
                 PROVE  pend'[t] = Len(deps'[t]) - Cardinality(Released(t)')
      BY <3>1 DEF Counters, DepsOf
    <3>8. t \in Id /\ \A d \in DepsOf(t) : dispatched[d] <= 1
      <4>1. ASSUME NEW d \in DepsOf(t) PROVE dispatched[d] <= 1
        <5>1. d \in Id /\ dispatched'[d] <= 1
          BY <2>0
        <5> QED  BY <5>1, <2>1, <3>4
      <4> QED  BY <4>1 DEF TypeOK
    <3>9. CASE t # x
      <4>1. pend'[t] = pend[t] /\ deps'[t] = deps[t]
        BY <3>1, <3>3, <3>8, <3>9
      <4>2. \A d \in DepsOf(t) : dispatched'[d] <= 1 => dispatched[d] <= 1 /\ (Frees(d, t)' <=> Frees(d, t))
        BY <3>6, <3>8, <3>9
      <4> QED  BY <4>1, <4>2, SameCounter
    <3>10. CASE t = x
      <4>1. h \in DepsOf(x) /\ dispatched[h] <= 1
        BY <3>5, <3>8, <3>10
      <4>2. ~Frees(h, x)
        BY <3>0, <3>2 DEF Frees
      <4>3. Frees(h, x)'
        <5>1. \A v \in Worker : id[v] = h => v = w
          BY <3>0, <3>5, <4>1 DEF Once, OnceAt
        <5>2. \A v \in Worker : id'[v] = h => at'[v] = "release" /\ x \notin left'[v]
          BY <3>1, <3>2, <5>1
        <5> QED  BY <3>1, <3>5, <5>2 DEF Frees
      <4>4. Released(x)' = Released(x) \union {h}
        <5>1. Released(x)' = {d \in DepsOf(x) : Frees(d, x)'}
          BY <3>1 DEF Released, Frees, DepsOf
        <5>2. Released(x) = {d \in DepsOf(x) : Frees(d, x)}
          BY ReleasedIsFrees
        <5>3. ASSUME NEW d PROVE d \in Released(x)' <=> d \in Released(x) \/ d = h
          <6>1. CASE d = h
            BY <4>1, <4>3, <5>1, <6>1
          <6>2. CASE d # h
            BY <3>7, <5>1, <5>2, <6>2
          <6> QED  BY <6>1, <6>2
        <5> QED  BY <5>3
      <4>5. h \notin Released(x)
        BY <4>2, ReleasedIsFrees
      <4>6. IsFiniteSet(Released(x))
        <5>1. Released(x) \subseteq Id
          BY <2>0, <3>5 DEF Released
        <5> QED  BY <5>1, SchedulerAssumption, FS_Subset
      <4>7. Cardinality(Released(x)') = Cardinality(Released(x)) + 1 /\ Cardinality(Released(x)) \in Nat
        BY <4>4, <4>5, <4>6, FS_AddElement, FS_CardinalityType
      <4>8. pend[x] = Len(deps[x]) - Cardinality(Released(x))
        BY <3>5, <3>8, <3>10 DEF Counters
      <4>9. Len(deps[x]) \in Nat /\ deps'[x] = deps[x]
        BY <3>1, <3>5, LenProperties DEF TypeOK
      <4> QED  BY <3>3, <3>10, <4>7, <4>8, <4>9
    <3> QED  BY <3>9, <3>10
  <2> QED
    BY <2>2, <2>3, <2>5, <2>6, <2>7, <2>8, <2>9, <2>10, <2>11 DEF Next, RunAllStep, WorkerStep, WaitingStep
<1> QED  BY <1>1, <1>2, TypedHolds, ConverseHolds, DispatchesHold, OnceHolds, PTL DEF Safe
----------------------------------------------------------------------------
(* A counter at zero: every dependency has released the task.               *)
LEMMA TwoReasons ==
  ASSUME TypeOK, Dispatches
  PROVE  \A d \in Id : dispatched[d] \in 0..2
<1> SUFFICES ASSUME NEW d \in Id PROVE dispatched[d] \in 0..2
  OBVIOUS
<1>1. dispatched[d] \in Nat /\ (dispatched[d] > 0 => d \in Tasks)
  BY DEF TypeOK, Dispatches
<1>2. d \in Tasks => dispatched[d] <= Visited(d) + Zeroed(d)
  BY DEF Dispatches
<1>3. Visited(d) \in {0, 1} /\ Zeroed(d) \in {0, 1}
  BY DEF Visited, Zeroed
<1> QED  BY <1>1, <1>2, <1>3

ReadyIsMet == \A t \in Tasks : pend[t] = 0 => Met(t)

LEMMA CountedDown == TypeOK /\ Dispatches /\ Counters => ReadyIsMet
<1> SUFFICES ASSUME TypeOK, Dispatches, Counters, NEW t \in Tasks, pend[t] = 0 PROVE Met(t)
  BY DEF ReadyIsMet
<1>1. deps[t] \in Seq(Id) /\ Len(deps[t]) \in Nat
  BY LenProperties DEF TypeOK
<1>2. \A d \in DepsOf(t) : d \in Id
  <2>1. \A i \in DOMAIN deps[t] : deps[t][i] \in Id
    BY <1>1, LenProperties, ElementOfSeq
  <2> QED  BY <2>1 DEF DepsOf, ToSet
<1>3. CASE \E d \in DepsOf(t) : dispatched[d] > 1
  <2>1. PICK d \in DepsOf(t) : dispatched[d] > 1
    BY <1>3
  <2>2. dispatched[d] = 2
    BY <1>2, <2>1, TwoReasons
  <2> QED  BY <2>2 DEF Met
<1>4. CASE \A d \in DepsOf(t) : ~(dispatched[d] > 1)
  <2>1. \A d \in DepsOf(t) : dispatched[d] <= 1
    BY <1>2, <1>4 DEF TypeOK
  <2>2. 0 = Len(deps[t]) - Cardinality(Released(t))
    BY <2>1 DEF Counters
  <2>3. IsFiniteSet(DepsOf(t)) /\ Cardinality(DepsOf(t)) <= Len(deps[t])
    BY <1>1, FewerMembers DEF DepsOf
  <2>4. Released(t) \in SUBSET DepsOf(t)
    BY DEF Released
  <2>5. IsFiniteSet(Released(t)) /\ Cardinality(Released(t)) <= Cardinality(DepsOf(t))
    BY <2>3, <2>4, FS_Subset
  <2>6. Cardinality(Released(t)) \in Nat /\ Cardinality(DepsOf(t)) \in Nat
    BY <2>3, <2>5, FS_CardinalityType
  <2>7. Cardinality(DepsOf(t)) = Cardinality(Released(t))
    BY <1>1, <2>2, <2>3, <2>5, <2>6
  <2>8. DepsOf(t) = Released(t)
    BY <2>3, <2>4, <2>7, FS_Subset
  <2> QED  BY <2>8 DEF Met, Released
<1> QED  BY <1>3, <1>4

\* once met, always met
LEMMA MetStays ==
  ASSUME TypeOK, TypeOK', Dispatches, Dispatches', NEW t \in Tasks, Met(t), deps'[t] = deps[t],
         \A d \in Id : dispatched[d] <= dispatched'[d] /\ ended[d] <= ended'[d]
  PROVE  Met(t)'
<1>1. DepsOf(t)' = DepsOf(t) /\ \A d \in DepsOf(t) : d \in Id
  <2>1. deps[t] \in Seq(Id)
    BY DEF TypeOK
  <2>2. \A i \in DOMAIN deps[t] : deps[t][i] \in Id
    BY <2>1, LenProperties, ElementOfSeq
  <2> QED  BY <2>2 DEF DepsOf, ToSet
<1>2. \A d \in Id : dispatched'[d] \in 0..2
  <2> SUFFICES ASSUME NEW d \in Id PROVE dispatched'[d] \in 0..2
    OBVIOUS
  <2>1. dispatched'[d] \in Nat /\ (dispatched'[d] > 0 => d \in Tasks')
    BY DEF TypeOK, Dispatches
  <2>2. d \in Tasks' => dispatched'[d] <= Visited(d)' + Zeroed(d)'
    BY DEF Dispatches
  <2>3. Visited(d)' \in {0, 1} /\ Zeroed(d)' \in {0, 1}
    BY DEF Visited, Zeroed
  <2> QED  BY <2>1, <2>2, <2>3
<1>3. CASE \A d \in DepsOf(t) : ended[d] > 0
  <2>1. \A d \in DepsOf(t) : ended'[d] > 0
    <3> SUFFICES ASSUME NEW d \in DepsOf(t) PROVE ended'[d] > 0
      OBVIOUS
    <3>1. ended[d] \in Nat /\ ended'[d] \in Nat /\ ended[d] <= ended'[d] /\ ended[d] > 0
      BY <1>1, <1>3 DEF TypeOK
    <3> QED  BY <3>1
  <2> QED  BY <1>1, <2>1 DEF Met
<1>4. CASE \E d \in DepsOf(t) : dispatched[d] = 2
  <2>1. PICK d \in DepsOf(t) : dispatched[d] = 2
    BY <1>4
  <2>2. dispatched'[d] = 2
    BY <1>1, <1>2, <2>1
  <2> QED  BY <1>1, <2>2 DEF Met
<1> QED  BY <1>3, <1>4 DEF Met

LEMMA RanHolds == Safe => []Ran
<1> USE DEF table, pool, idling
<1>1. Init => Ran
  BY DEF Init, Tasks, Ran
<1>2. Typed /\ Typed' /\ Dispatches /\ Dispatches' /\ ReadyIsMet /\ ReadyIsMet' /\ Ran /\ [Next]_vars => Ran'
  <2> SUFFICES ASSUME Typed, Typed', Dispatches, Dispatches', ReadyIsMet, ReadyIsMet', Ran, [Next]_vars
               PROVE  Ran'
    OBVIOUS
  <2> USE DEF Typed
  <2>0. ASSUME UNCHANGED deps, \A d \in Id : dispatched[d] <= dispatched'[d] /\ ended[d] <= ended'[d],
               \A t \in Tasks : dispatched'[t] = dispatched[t] \/ Met(t)'
        PROVE  Ran'
    <3> SUFFICES ASSUME NEW t \in Tasks, dispatched'[t] > 0 PROVE Met(t)'
      BY <2>0 DEF Ran, Tasks
    <3>1. CASE dispatched'[t] = dispatched[t]
      <4>1. Met(t) /\ deps'[t] = deps[t]
        BY <2>0, <3>1 DEF Ran
      <4> QED  BY <2>0, <4>1, MetStays
    <3> QED  BY <2>0, <3>1
  <2>1. \A d \in Id : dispatched[d] \in Nat /\ ended[d] \in Nat
    BY DEF TypeOK
  <2>2. CASE Add \/ Reset
    <3>1. \A t \in Id : dispatched'[t] = 0
      BY <2>2 DEF Add, Reset, Quiet
    <3> QED  BY <3>1 DEF Ran, TypeOK
  <2>3. ASSUME UNCHANGED <<deps, dispatched>>, \A d \in Id : ended[d] <= ended'[d] PROVE Ran'
    BY <2>0, <2>1, <2>3
  <2>4. CASE RunAll \/ LoopDone \/ WaitingStep \/ UNCHANGED vars
    BY <2>1, <2>3, <2>4 DEF RunAll, LoopDone, WaitingStep, Test, Block, SpuriousWakeup, Retire, Notify, vars
  <2>5. ASSUME NEW w \in Worker, Start(w) \/ Lock(w) \/ Finish(w) PROVE Ran'
    BY <2>1, <2>3, <2>5 DEF Start, Lock, Finish
  <2>6. ASSUME NEW w \in Worker, Work(w) PROVE Ran'
    <3>1. ended' = [ended EXCEPT ![id[w]] = ended[id[w]] + 1] /\ UNCHANGED <<deps, dispatched>>
      BY <2>6 DEF Work
    <3>2. \A d \in Id : ended'[d] = IF d = id[w] THEN ended[d] + 1 ELSE ended[d]
      BY <3>1 DEF TypeOK
    <3>3. \A d \in Id : ended[d] <= ended'[d]
      BY <2>1, <3>2
    <3> QED  BY <2>3, <3>1, <3>3
  <2>7. ASSUME NEW x \in Id, UNCHANGED <<deps, ended>>, Tasks' = Tasks, x \in Tasks,
               (pend'[x] = 0 /\ Submit(x)) \/ UNCHANGED dispatched
        PROVE  Ran'
    <3>1. \A d \in Id : dispatched[d] <= dispatched'[d] /\ ended[d] <= ended'[d]
      <4>1. \A d \in Id : dispatched[d] <= dispatched'[d]
        BY <2>7, SubmitGrows
      <4> QED  BY <2>1, <2>7, <4>1
    <3>2. \A t \in Tasks : dispatched'[t] = dispatched[t] \/ Met(t)'
      <4> SUFFICES ASSUME NEW t \in Tasks, dispatched'[t] # dispatched[t] PROVE Met(t)'
        OBVIOUS
      <4>1. pend'[x] = 0 /\ t = x
        BY <2>7 DEF Submit, TypeOK
      <4>2. pend'[t] = 0 /\ t \in Tasks'
        BY <2>7, <4>1
      <4> QED  BY <4>2 DEF ReadyIsMet
    <3> QED  BY <2>0, <2>7, <3>1, <3>2
  <2>8. ASSUME NEW x \in Id, Visit(x) PROVE Ran'
    <3>1. /\ UNCHANGED <<deps, ended, pend>> /\ Tasks' = Tasks /\ x \in Tasks
          /\ (pend[x] = 0 /\ Submit(x)) \/ UNCHANGED dispatched
      BY <2>8 DEF Visit, Tasks, TypeOK
    <3> QED  BY <2>7, <3>1
  <2>9. ASSUME NEW w \in Worker, NEW x \in Id, Release(w, x) PROVE Ran'
    <3>1. /\ UNCHANGED <<deps, ended>> /\ Tasks' = Tasks /\ x \in Tasks
          /\ (pend'[x] = 0 /\ Submit(x)) \/ UNCHANGED dispatched
      BY <2>9 DEF Release, Tasks, TypeOK
    <3> QED  BY <2>7, <3>1
  <2> QED
    BY <2>2, <2>4, <2>5, <2>6, <2>8, <2>9 DEF Next, RunAllStep, WorkerStep, WaitingStep
<1>3. Typed /\ Dispatches /\ Counters => ReadyIsMet
  BY CountedDown DEF Typed
<1> QED  BY <1>1, <1>2, <1>3, TypedHolds, DispatchesHold, CountersHold, PTL DEF Safe
----------------------------------------------------------------------------
(* Every submission is queued, in the hands of a worker, or over: sizes of  *)
(* sets of places in the queue and of workers.                             *)
Places(q, t) == {i \in 1..Len(q) : q[i] = t}
Holders(t)   == {w \in Worker : id[w] = t /\ at[w] = "work"}

LEMMA FinitePlaces ==
  ASSUME NEW S, NEW q \in Seq(S)
  PROVE  \A t : IsFiniteSet(Places(q, t)) /\ Cardinality(Places(q, t)) \in Nat
<1> SUFFICES ASSUME NEW t PROVE IsFiniteSet(Places(q, t)) /\ Cardinality(Places(q, t)) \in Nat
  OBVIOUS
<1>1. Len(q) \in Nat
  BY LenProperties
<1>2. IsFiniteSet(1..Len(q))
  BY <1>1, FS_Interval
<1>3. Places(q, t) \in SUBSET (1..Len(q))
  BY DEF Places
<1> QED  BY <1>2, <1>3, FS_Subset, FS_CardinalityType

LEMMA AppendPlaces ==
  ASSUME NEW S, NEW q \in Seq(S), NEW x \in S
  PROVE  \A t : /\ IsFiniteSet(Places(q, t)) /\ Cardinality(Places(q, t)) \in Nat
                /\ IsFiniteSet(Places(Append(q, x), t))
                /\ Cardinality(Places(Append(q, x), t)) = Cardinality(Places(q, t)) + (IF t = x THEN 1 ELSE 0)
<1> DEFINE r == Append(q, x)
<1>1. /\ r \in Seq(S) /\ Len(q) \in Nat /\ Len(r) = Len(q) + 1
      /\ \A i \in 1..Len(q) : r[i] = q[i]
      /\ r[Len(q) + 1] = x
  BY AppendProperties, LenProperties
<1> HIDE DEF r
<1> SUFFICES ASSUME NEW t
             PROVE /\ IsFiniteSet(Places(q, t)) /\ Cardinality(Places(q, t)) \in Nat
                   /\ IsFiniteSet(Places(r, t))
                   /\ Cardinality(Places(r, t)) = Cardinality(Places(q, t)) + (IF t = x THEN 1 ELSE 0)
  BY DEF r
<1>2. IsFiniteSet(Places(q, t)) /\ Cardinality(Places(q, t)) \in Nat
  BY FinitePlaces
<1>3. 1..Len(r) = 1..Len(q) \union {Len(q) + 1} /\ Len(q) + 1 \notin 1..Len(q)
  BY <1>1
<1>4. Places(r, t) = IF t = x THEN Places(q, t) \union {Len(q) + 1} ELSE Places(q, t)
  BY <1>1, <1>3 DEF Places
<1>5. Len(q) + 1 \notin Places(q, t)
  BY <1>3 DEF Places
<1>6. /\ IsFiniteSet(Places(q, t) \union {Len(q) + 1})
      /\ Cardinality(Places(q, t) \union {Len(q) + 1}) = Cardinality(Places(q, t)) + 1
  BY <1>2, <1>5, FS_AddElement
<1> QED  BY <1>2, <1>4, <1>6

LEMMA TailPlaces ==
  ASSUME NEW S, NEW q \in Seq(S), q # <<>>
  PROVE  \A t : /\ IsFiniteSet(Places(Tail(q), t)) /\ Cardinality(Places(Tail(q), t)) \in Nat
                /\ Cardinality(Places(q, t)) = Cardinality(Places(Tail(q), t)) + (IF t = Head(q) THEN 1 ELSE 0)
<1> DEFINE r == Tail(q)
           h == Head(q)
<1>1. /\ Len(q) \in Nat /\ Len(q) > 0 /\ h = q[1] /\ Len(r) = Len(q) - 1
      /\ r \in Seq(S) /\ h \in S
      /\ \A i \in 1..Len(r) : r[i] = q[i + 1]
  BY Tails
<1> HIDE DEF r, h
<1> SUFFICES ASSUME NEW t
             PROVE /\ IsFiniteSet(Places(r, t)) /\ Cardinality(Places(r, t)) \in Nat
                   /\ Cardinality(Places(q, t)) = Cardinality(Places(r, t)) + (IF t = h THEN 1 ELSE 0)
  BY DEF r, h
<1> DEFINE P == Places(r, t)
           Q == Places(q, t) \ {1}
           f == [i \in P |-> i + 1]
<1>2. \A i \in 1..Len(r) : i \in Int /\ i + 1 \in 1..Len(q) /\ i + 1 # 1
  BY <1>1
<1>3. \A i \in 1..Len(q) : i # 1 => i - 1 \in 1..Len(r) /\ (i - 1) + 1 = i
  BY <1>1
<1>4. f \in Bijection(P, Q)
  <2>1. f \in [P -> Q]
    BY <1>1, <1>2 DEF Places
  <2>2. \A a, b \in P : f[a] = f[b] => a = b
    BY <1>2 DEF Places
  <2>3. ASSUME NEW b \in Q PROVE \E a \in P : f[a] = b
    <3>1. b \in 1..Len(q) /\ b # 1 /\ q[b] = t
      BY DEF Places
    <3>2. b - 1 \in 1..Len(r) /\ (b - 1) + 1 = b
      BY <1>3, <3>1
    <3>3. r[b - 1] = q[(b - 1) + 1]
      BY <1>1, <3>2
    <3>4. b - 1 \in P
      BY <3>1, <3>2, <3>3 DEF Places
    <3> QED  BY <3>2, <3>4
  <2> QED  BY <2>1, <2>2, <2>3 DEF Bijection, Injection, Surjection, IsInjective
<1>5. IsFiniteSet(P) /\ Cardinality(P) \in Nat
  BY <1>1, FinitePlaces
<1>6. IsFiniteSet(Q) /\ Cardinality(Q) = Cardinality(P)
  <2> HIDE DEF f, P, Q
  <2>1. ExistsBijection(P, Q)
    BY <1>4 DEF ExistsBijection
  <2> QED  BY <2>1, <1>5, FS_Bijection
<1>7. Places(q, t) = IF t = h THEN Q \union {1} ELSE Q
  <2>1. 1 \in 1..Len(q)
    BY <1>1
  <2> QED  BY <1>1, <2>1 DEF Places
<1>8. 1 \notin Q
  OBVIOUS
<1> HIDE DEF Q, P
<1>9. Cardinality(Q \union {1}) = Cardinality(Q) + 1
  BY <1>6, <1>8, FS_AddElement
<1> QED  BY <1>5, <1>6, <1>7, <1>9 DEF P

Balance ==
  \A t \in Id : /\ IsFiniteSet(Holders(t))
                /\ dispatched[t] = ended[t] + Cardinality(Places(backlog, t)) + Cardinality(Holders(t))

LEMMA BalanceHolds == Safe => []Balance
<1> USE DEF table, pool, idling
<1>0. \A t : Places(<<>>, t) = {}
  BY DEF Places
<1>1. Init => Balance
  <2> SUFFICES ASSUME Init, NEW t \in Id
               PROVE /\ IsFiniteSet(Holders(t))
                     /\ dispatched[t] = ended[t] + Cardinality(Places(backlog, t)) + Cardinality(Holders(t))
    BY DEF Balance
  <2>1. Holders(t) = {} /\ Places(backlog, t) = {} /\ dispatched[t] = 0 /\ ended[t] = 0
    BY <1>0 DEF Init, Holders
  <2> QED  BY <2>1, FS_EmptySet
<1>2. Typed /\ Typed' /\ Balance /\ [Next]_vars => Balance'
  <2> SUFFICES ASSUME Typed, Typed', Balance, [Next]_vars PROVE Balance'
    OBVIOUS
  <2> USE DEF Typed
  <2>0. \A t \in Id : dispatched[t] \in Nat /\ ended[t] \in Nat /\ Cardinality(Places(backlog, t)) \in Nat
    <3>1. backlog \in Seq(Tasks)
      BY DEF TypeOK
    <3> QED  BY <3>1, FinitePlaces DEF TypeOK
  <2>1. ASSUME UNCHANGED <<at, id, backlog, dispatched, ended>> PROVE Balance'
    BY <2>1 DEF Balance, Holders
  <2>2. CASE Add \/ RunAll \/ LoopDone \/ WaitingStep \/ UNCHANGED vars
    BY <2>1, <2>2 DEF Add, RunAll, LoopDone, WaitingStep, Test, Block, SpuriousWakeup, Retire, Notify, vars
  <2>3. CASE Reset
    <3> SUFFICES ASSUME NEW t \in Id
                 PROVE /\ IsFiniteSet(Holders(t)')
                       /\ dispatched'[t] = ended'[t] + Cardinality(Places(backlog', t)) + Cardinality(Holders(t)')
      BY DEF Balance
    <3>1. backlog' = <<>> /\ dispatched'[t] = 0 /\ ended'[t] = 0 /\ \A w \in Worker : at'[w] = "idle"
      BY <2>3 DEF Reset, Quiet
    <3>2. Holders(t)' = {} /\ Places(backlog', t) = {}
      BY <1>0, <3>1 DEF Holders
    <3>3. IsFiniteSet(Holders(t)') /\ Cardinality(Holders(t)') = 0 /\ Cardinality(Places(backlog', t)) = 0
      BY <3>2, FS_EmptySet
    <3> QED  BY <3>1, <3>3
  <2>4. ASSUME NEW x \in Tasks, Submit(x), UNCHANGED <<at, id, ended>> PROVE Balance'
    <3> SUFFICES ASSUME NEW t \in Id
                 PROVE /\ IsFiniteSet(Holders(t)')
                       /\ dispatched'[t] = ended'[t] + Cardinality(Places(backlog', t)) + Cardinality(Holders(t)')
      BY DEF Balance
    <3>1. Holders(t)' = Holders(t)
      BY <2>4 DEF Holders
    <3>2. dispatched'[t] = dispatched[t] + (IF t = x THEN 1 ELSE 0)
      BY <2>4 DEF Submit, TypeOK
    <3>3. Cardinality(Places(backlog', t)) = Cardinality(Places(backlog, t)) + (IF t = x THEN 1 ELSE 0)
      BY <2>4, AppendPlaces DEF Submit, TypeOK
    <3>4. /\ IsFiniteSet(Holders(t)) /\ Cardinality(Holders(t)) \in Nat
          /\ dispatched[t] = ended[t] + Cardinality(Places(backlog, t)) + Cardinality(Holders(t))
      BY FS_CardinalityType DEF Balance
    <3>5. ended'[t] = ended[t]
      BY <2>4
    <3> QED  BY <2>0, <3>1, <3>2, <3>3, <3>4, <3>5
  <2>5. ASSUME NEW x \in Id, Visit(x) PROVE Balance'
    <3>1. x \in Tasks /\ UNCHANGED <<at, id, ended>> /\ (Submit(x) \/ UNCHANGED <<backlog, dispatched>>)
      BY <2>5 DEF Visit, TypeOK
    <3> QED  BY <2>1, <2>4, <3>1
  <2>6. ASSUME NEW w \in Worker, NEW x \in Id, Release(w, x) PROVE Balance'
    <3>1. x \in Tasks /\ UNCHANGED <<at, id, ended>> /\ (Submit(x) \/ UNCHANGED <<backlog, dispatched>>)
      BY <2>6 DEF Release, TypeOK
    <3> QED  BY <2>1, <2>4, <3>1
  <2>7. ASSUME NEW w \in Worker, Start(w) PROVE Balance'
    <3> SUFFICES ASSUME NEW t \in Id
                 PROVE /\ IsFiniteSet(Holders(t)')
                       /\ dispatched'[t] = ended'[t] + Cardinality(Places(backlog', t)) + Cardinality(Holders(t)')
      BY DEF Balance
    <3>1. at[w] = "idle" /\ backlog' = Tail(backlog) /\ UNCHANGED <<dispatched, ended>>
      BY <2>7 DEF Start
    <3>2. Cardinality(Places(backlog, t)) = Cardinality(Places(backlog', t)) + (IF t = Head(backlog) THEN 1 ELSE 0)
      BY <2>7, <3>1, TailPlaces DEF Start, TypeOK
    <3>3. /\ at'[w] = "work" /\ id'[w] = Head(backlog)
          /\ \A v \in Worker : v # w => at'[v] = at[v] /\ id'[v] = id[v]
      BY <2>7 DEF Start, TypeOK
    <3>4. Holders(t)' = (IF t = Head(backlog) THEN Holders(t) \union {w} ELSE Holders(t)) /\ w \notin Holders(t)
      BY <3>1, <3>3 DEF Holders
    <3>5. /\ IsFiniteSet(Holders(t)) /\ Cardinality(Holders(t)) \in Nat
          /\ dispatched[t] = ended[t] + Cardinality(Places(backlog, t)) + Cardinality(Holders(t))
      BY FS_CardinalityType DEF Balance
    <3>6. /\ IsFiniteSet(Holders(t)')
          /\ Cardinality(Holders(t)') = Cardinality(Holders(t)) + (IF t = Head(backlog) THEN 1 ELSE 0)
      <4>1. IsFiniteSet(Holders(t) \union {w}) /\ Cardinality(Holders(t) \union {w}) = Cardinality(Holders(t)) + 1
        BY <3>4, <3>5, FS_AddElement
      <4> QED  BY <3>4, <3>5, <4>1
    <3>7. Cardinality(Places(backlog', t)) \in Nat
      BY FinitePlaces DEF TypeOK
    <3>8. dispatched'[t] = dispatched[t] /\ ended'[t] = ended[t]
      BY <3>1
    <3> QED  BY <2>0, <3>2, <3>5, <3>6, <3>7, <3>8
  <2>8. ASSUME NEW w \in Worker, Work(w) PROVE Balance'
    <3> SUFFICES ASSUME NEW t \in Id
                 PROVE /\ IsFiniteSet(Holders(t)')
                       /\ dispatched'[t] = ended'[t] + Cardinality(Places(backlog', t)) + Cardinality(Holders(t)')
      BY DEF Balance
    <3>1. at[w] = "work" /\ UNCHANGED <<backlog, dispatched, id>>
      BY <2>8 DEF Work
    <3>2. at'[w] = "lock" /\ \A v \in Worker : v # w => at'[v] = at[v]
      BY <2>8 DEF Work, TypeOK
    <3>3. ended'[t] = ended[t] + (IF t = id[w] THEN 1 ELSE 0)
      BY <2>8 DEF Work, TypeOK
    <3>4. Holders(t)' = Holders(t) \ {w} /\ (w \in Holders(t) <=> t = id[w])
      BY <3>1, <3>2 DEF Holders
    <3>5. /\ IsFiniteSet(Holders(t)) /\ Cardinality(Holders(t)) \in Nat
          /\ dispatched[t] = ended[t] + Cardinality(Places(backlog, t)) + Cardinality(Holders(t))
      BY FS_CardinalityType DEF Balance
    <3>6. /\ IsFiniteSet(Holders(t)')
          /\ Cardinality(Holders(t)') = Cardinality(Holders(t)) - (IF t = id[w] THEN 1 ELSE 0)
      <4>1. /\ IsFiniteSet(Holders(t) \ {w})
            /\ Cardinality(Holders(t) \ {w}) = IF w \in Holders(t) THEN Cardinality(Holders(t)) - 1 ELSE Cardinality(Holders(t))
        BY <3>5, FS_RemoveElement
      <4> QED  BY <3>4, <3>5, <4>1
    <3> QED  BY <2>0, <3>1, <3>3, <3>5, <3>6
  <2>9. ASSUME NEW w \in Worker, Lock(w) \/ Finish(w) PROVE Balance'
    <3>1. UNCHANGED <<backlog, dispatched, ended>>
      BY <2>9 DEF Lock, Finish
    <3>2. /\ at[w] # "work" /\ at'[w] # "work"
          /\ \A v \in Worker : v # w => at'[v] = at[v] /\ id'[v] = id[v]
      BY <2>9 DEF Lock, Finish, TypeOK
    <3>3. \A t \in Id : Holders(t)' = Holders(t)
      BY <3>2 DEF Holders
    <3> QED  BY <3>1, <3>3 DEF Balance
  <2> QED
    BY <2>2, <2>3, <2>5, <2>6, <2>7, <2>8, <2>9 DEF Next, RunAllStep, WorkerStep, WaitingStep
<1> QED  BY <1>1, <1>2, TypedHolds, PTL DEF Safe
----------------------------------------------------------------------------
(* A counter that came to zero submitted its task, and so did run_all for a *)
(* task that depends on nothing.                                           *)
Submitted ==
  \A t \in Tasks : IF deps[t] = <<>> THEN pend[t] = 0 /\ (Visited(t) = 1 => dispatched[t] > 0)
                                     ELSE pend[t] <= 0 => dispatched[t] > 0

\* adding, seen from here: a new task, whose counter is the length of its list
LEMMA AddedTask ==
  ASSUME Typed, Add
  PROVE  \E x \in Id : \E q \in Seq(Id) :
           /\ pend' = [pend EXCEPT ![x] = Len(q)]
           /\ deps' = [y \in Tasks \union {x} |-> IF y = x THEN q ELSE deps[y]]
           /\ Tasks' = Tasks \union {x}
<1> DEFINE x == Head(adding).id
           q == Head(adding).deps
           R == [id : Id, deps : Seq(Id)]
<1>1. /\ pend' = [pend EXCEPT ![x] = Len(q)]
      /\ deps' = [y \in Tasks \union {x} |-> IF y = x THEN q ELSE deps[y]]
      /\ Tasks' = Tasks \union {x}
  BY DEF Add, Tasks
<1>2. x \in Id /\ q \in Seq(Id)
  <2>1. adding \in Seq(R) /\ adding # <<>>
    BY DEF Add, Adding, Typed
  <2> HIDE DEF R
  <2>2. Head(adding) \in R
    BY <2>1, Tails
  <2> QED  BY <2>2 DEF R
<1> HIDE DEF x, q
<1> QED  BY <1>1, <1>2

\* a list without entries, in terms of its length
LEMMA NoDeps ==
  ASSUME TypeOK, NEW t \in Tasks
  PROVE  Len(deps[t]) \in Nat /\ (deps[t] = <<>> <=> Len(deps[t]) = 0) /\ (deps[t] = <<>> => DepsOf(t) = {})
<1>1. deps[t] \in Seq(Id)
  BY DEF TypeOK
<1>2. Len(deps[t]) \in Nat /\ DOMAIN deps[t] = 1..Len(deps[t]) /\ (deps[t] = <<>> <=> Len(deps[t]) = 0)
  BY <1>1, LenProperties, EmptySeq
<1>3. deps[t] = <<>> => DepsOf(t) = {}
  BY <1>2 DEF DepsOf, ToSet
<1> QED  BY <1>2, <1>3

LEMMA SubmittedHolds == Safe => []Submitted
<1> USE DEF table, pool, idling
<1>1. Init => Submitted
  BY DEF Init, Tasks, Submitted
<1>2. Typed /\ Typed' /\ Converse /\ Submitted /\ [Next]_vars => Submitted'
  <2> SUFFICES ASSUME Typed, Typed', Converse, Submitted, [Next]_vars PROVE Submitted'
    OBVIOUS
  <2> USE DEF Typed
  <2>0. \A t \in Tasks : t \in Id /\ dispatched[t] \in Nat /\ pend[t] \in Int
    BY DEF TypeOK
  <2>1. CASE Add
    <3>1. PICK x \in Id, q \in Seq(Id) :
            /\ pend' = [pend EXCEPT ![x] = Len(q)]
            /\ deps' = [y \in Tasks \union {x} |-> IF y = x THEN q ELSE deps[y]]
            /\ Tasks' = Tasks \union {x}
      BY <2>1, AddedTask
    <3>2. main' = "adding" /\ UNCHANGED dispatched
      BY <2>1 DEF Add
    <3>3. Len(q) \in Nat /\ (q = <<>> <=> Len(q) = 0)
      BY LenProperties, EmptySeq
    <3> SUFFICES ASSUME NEW t \in Tasks'
                 PROVE  IF deps'[t] = <<>> THEN pend'[t] = 0 ELSE pend'[t] <= 0 => dispatched'[t] > 0
      BY <3>2 DEF Submitted, Visited
    <3>4. CASE t = x
      <4>1. deps'[t] = q /\ pend'[t] = Len(q)
        BY <3>1, <3>4 DEF TypeOK
      <4> QED  BY <3>3, <4>1
    <3>5. CASE t # x
      <4>1. t \in Tasks /\ t \in Id /\ deps'[t] = deps[t] /\ pend'[t] = pend[t]
        BY <3>1, <3>5 DEF TypeOK
      <4> QED  BY <3>2, <4>1 DEF Submitted
    <3> QED  BY <3>4, <3>5
  <2>2. CASE Reset
    BY <2>2 DEF Reset, Submitted, Tasks
  <2>3. CASE RunAll \/ LoopDone \/ WaitingStep \/ UNCHANGED vars
    <3>1. UNCHANGED <<deps, pend, dispatched>> /\ Tasks' = Tasks
      BY <2>3 DEF RunAll, LoopDone, WaitingStep, Test, Block, SpuriousWakeup, Retire, Notify, vars, Tasks
    <3>2. \A t \in Tasks : Visited(t)' = 1 => Visited(t) = 1
      BY <2>3 DEF RunAll, LoopDone, WaitingStep, Test, Block, SpuriousWakeup, Retire, Notify, vars, Visited
    <3> QED  BY <3>1, <3>2 DEF Submitted
  <2>4. ASSUME NEW x \in Id, Visit(x) PROVE Submitted'
    <3>1. UNCHANGED <<deps, pend, main>> /\ Tasks' = Tasks /\ x \in Tasks /\ main = "visiting" /\ toVisit' = toVisit \ {x}
      BY <2>4 DEF Visit, Tasks, TypeOK
    <3>2. \A t \in Tasks : t # x => Visited(t)' = Visited(t)
      BY <3>1 DEF Visited
    <3>3. \A t \in Id : dispatched'[t] \in Nat /\ dispatched[t] <= dispatched'[t]
      <4>1. Submit(x) \/ UNCHANGED dispatched
        BY <2>4 DEF Visit
      <4> QED  BY <4>1, SubmitGrows
    <3>4. pend[x] = 0 => dispatched'[x] > 0
      BY <2>4 DEF Visit, Submit, TypeOK
    <3> SUFFICES ASSUME NEW t \in Tasks
                 PROVE  IF deps[t] = <<>> THEN pend[t] = 0 /\ (Visited(t)' = 1 => dispatched'[t] > 0)
                                          ELSE pend[t] <= 0 => dispatched'[t] > 0
      BY <3>1 DEF Submitted
    <3>5. dispatched[t] > 0 => dispatched'[t] > 0
      BY <2>0, <3>3
    <3>6. CASE t = x
      BY <3>4, <3>5, <3>6 DEF Submitted
    <3>7. CASE t # x
      BY <3>2, <3>5, <3>7 DEF Submitted
    <3> QED  BY <3>6, <3>7
  <2>5. ASSUME NEW w \in Worker, Start(w) \/ Work(w) \/ Lock(w) \/ Finish(w) PROVE Submitted'
    <3>1. UNCHANGED <<deps, pend, dispatched, main, toVisit>> /\ Tasks' = Tasks
      BY <2>5 DEF Start, Work, Lock, Finish, Tasks
    <3> QED  BY <3>1 DEF Submitted, Visited
  <2>6. ASSUME NEW w \in Worker, NEW x \in Id, Release(w, x) PROVE Submitted'
    <3>1. UNCHANGED <<deps, main, toVisit>> /\ Tasks' = Tasks /\ x \in Tasks
      BY <2>6 DEF Release, Tasks, TypeOK
    <3>2. pend'[x] = pend[x] - 1 /\ \A t \in Id : t # x => pend'[t] = pend[t]
      BY <2>6 DEF Release, TypeOK
    <3>3. \A t \in Id : dispatched'[t] \in Nat /\ dispatched[t] <= dispatched'[t]
      <4>1. Submit(x) \/ UNCHANGED dispatched
        BY <2>6 DEF Release
      <4> QED  BY <4>1, SubmitGrows
    <3>4. pend'[x] = 0 => dispatched'[x] > 0
      BY <2>6 DEF Release, Submit, TypeOK
    <3>5. deps[x] # <<>>
      <4>1. id[w] \in Id
        BY <2>6 DEF Release, TypeOK, Quiet
      <4>2. id[w] \in DepsOf(x)
        BY <2>6, <4>1 DEF Release, Converse
      <4> QED  BY <3>1, <4>2, NoDeps
    <3> SUFFICES ASSUME NEW t \in Tasks
                 PROVE  IF deps[t] = <<>> THEN pend'[t] = 0 /\ (Visited(t) = 1 => dispatched'[t] > 0)
                                          ELSE pend'[t] <= 0 => dispatched'[t] > 0
      BY <3>1 DEF Submitted, Visited
    <3>6. dispatched[t] > 0 => dispatched'[t] > 0
      BY <2>0, <3>3
    <3>7. CASE t = x
      <4>1. pend[t] <= 0 => dispatched[t] > 0
        BY <3>5, <3>7 DEF Submitted
      <4>2. pend[t] \in Int
        BY <2>0
      <4> QED  BY <3>2, <3>4, <3>5, <3>6, <3>7, <4>1, <4>2
    <3>8. CASE t # x
      <4>1. pend'[t] = pend[t]
        BY <2>0, <3>2, <3>8
      <4> QED  BY <3>6, <4>1 DEF Submitted
    <3> QED  BY <3>7, <3>8
  <2> QED
    BY <2>1, <2>2, <2>3, <2>4, <2>5, <2>6 DEF Next, RunAllStep, WorkerStep, WaitingStep
<1> QED  BY <1>1, <1>2, TypedHolds, ConverseHolds, PTL DEF Safe
----------------------------------------------------------------------------
(* A counter is never above what is left of the list: each dependency that  *)
(* has released the task has counted.                                      *)
Counted == \A t \in Tasks : pend[t] + Cardinality(Released(t)) <= Len(deps[t])

\* a step that leaves the counter of t and adds nothing to what has released it
LEMMA StillCounted ==
  ASSUME TypeOK, NEW t \in Tasks, deps'[t] = deps[t], pend'[t] = pend[t],
         \A d \in DepsOf(t) : Frees(d, t)' => Frees(d, t),
         pend[t] + Cardinality(Released(t)) <= Len(deps[t])
  PROVE  pend'[t] + Cardinality(Released(t)') <= Len(deps'[t])
<1>1. DepsOf(t)' = DepsOf(t)
  BY DEF DepsOf
<1>2. Released(t)' = {d \in DepsOf(t) : Frees(d, t)'}
  BY <1>1 DEF Released, Frees
<1>3. Released(t)' \subseteq Released(t)
  BY <1>2, ReleasedIsFrees
<1>4. IsFiniteSet(Released(t))
  <2>1. IsFiniteSet(DepsOf(t))
    BY FewerMembers DEF DepsOf, TypeOK
  <2>2. Released(t) \in SUBSET DepsOf(t)
    BY DEF Released
  <2> QED  BY <2>1, <2>2, FS_Subset
<1>5. Cardinality(Released(t)') <= Cardinality(Released(t))
  BY <1>3, <1>4, FS_Subset
<1>6. Cardinality(Released(t)') \in Nat /\ Cardinality(Released(t)) \in Nat
  BY <1>3, <1>4, FS_Subset, FS_CardinalityType
<1>7. pend[t] \in Int /\ Len(deps[t]) \in Nat
  BY NoDeps DEF TypeOK
<1> QED  BY <1>5, <1>6, <1>7

LEMMA CountedHolds == Safe => []Counted
<1> USE DEF table, pool, idling
<1>1. Init => Counted
  BY DEF Init, Tasks, Counted
<1>2. Typed /\ Typed' /\ Converse /\ Counted /\ [Next]_vars => Counted'
  <2> SUFFICES ASSUME Typed, Typed', Converse, Counted, [Next]_vars PROVE Counted'
    OBVIOUS
  <2> USE DEF Typed
  <2>0. \A t \in Tasks : \A d \in DepsOf(t) : d \in Id
    <3> SUFFICES ASSUME NEW t \in Tasks PROVE \A i \in DOMAIN deps[t] : deps[t][i] \in Id
      BY DEF DepsOf, ToSet
    <3>1. deps[t] \in Seq(Id)
      BY DEF TypeOK
    <3> QED  BY <3>1, LenProperties, ElementOfSeq
  <2>1. CASE Add
    <3>1. PICK x \in Id, q \in Seq(Id) :
            /\ pend' = [pend EXCEPT ![x] = Len(q)]
            /\ deps' = [y \in Tasks \union {x} |-> IF y = x THEN q ELSE deps[y]]
            /\ Tasks' = Tasks \union {x}
      BY <2>1, AddedTask
    <3>2. /\ \A d \in Id : ended[d] = 0
          /\ UNCHANGED <<id, at, left, ended>>
      BY <2>1 DEF Add, Quiet
    <3> SUFFICES ASSUME NEW t \in Tasks' PROVE pend'[t] + Cardinality(Released(t)') <= Len(deps'[t])
      BY DEF Counted
    <3>3. CASE t = x
      <4>1. deps'[t] = q /\ pend'[t] = Len(q)
        BY <3>1, <3>3 DEF TypeOK
      <4>2. \A d \in DepsOf(t)' : d \in Id
        <5>1. \A i \in DOMAIN q : q[i] \in Id
          BY LenProperties, ElementOfSeq
        <5> QED  BY <4>1, <5>1 DEF DepsOf, ToSet
      <4>3. Released(t)' = {}
        BY <3>2, <4>2 DEF Released
      <4>4. Len(q) \in Nat
        BY LenProperties
      <4> QED  BY <4>1, <4>3, <4>4, FS_EmptySet
    <3>4. CASE t # x
      <4>1. t \in Tasks /\ t \in Id /\ deps'[t] = deps[t] /\ pend'[t] = pend[t]
        BY <3>1, <3>4 DEF TypeOK
      <4>2. \A d \in DepsOf(t) : Frees(d, t)' => Frees(d, t)
        BY <3>2 DEF Frees
      <4> QED  BY <4>1, <4>2, StillCounted DEF Counted
    <3> QED  BY <3>3, <3>4
  <2>2. CASE Reset
    BY <2>2 DEF Reset, Counted, Tasks
  <2>3. ASSUME Tasks' = Tasks, deps' = deps, pend' = pend,
               \A t \in Tasks : \A d \in DepsOf(t) : Frees(d, t)' => Frees(d, t)
        PROVE  Counted'
    BY <2>3, StillCounted DEF Counted
  <2>4. CASE RunAll \/ LoopDone \/ WaitingStep \/ UNCHANGED vars
    <3>1. UNCHANGED <<deps, pend, at, id, left, ended>> /\ Tasks' = Tasks
      BY <2>4 DEF RunAll, LoopDone, WaitingStep, Test, Block, SpuriousWakeup, Retire, Notify, vars, Tasks
    <3>2. \A t, d : Frees(d, t)' => Frees(d, t)
      BY <3>1 DEF Frees
    <3> QED  BY <2>3, <3>1, <3>2
  <2>5. ASSUME NEW x \in Id, Visit(x) PROVE Counted'
    <3>1. UNCHANGED <<deps, pend, at, id, left, ended>> /\ Tasks' = Tasks
      BY <2>5 DEF Visit, Tasks
    <3>2. \A t, d : Frees(d, t)' => Frees(d, t)
      BY <3>1 DEF Frees
    <3> QED  BY <2>3, <3>1, <3>2
  <2>6. ASSUME NEW w \in Worker, Start(w) PROVE Counted'
    <3>1. UNCHANGED <<deps, pend, left, ended>> /\ Tasks' = Tasks
      BY <2>6 DEF Start, Tasks
    <3>2. id[w] = None /\ \A v \in Worker : v # w => id'[v] = id[v] /\ at'[v] = at[v]
      BY <2>6 DEF Start, TypeOK, Quiet
    <3>3. ASSUME NEW t \in Tasks, NEW d \in DepsOf(t), Frees(d, t)' PROVE Frees(d, t)
      <4>1. d \in Id /\ d # None
        BY <2>0, SchedulerAssumption
      <4> QED  BY <3>1, <3>2, <3>3, <4>1 DEF Frees
    <3> QED  BY <2>3, <3>1, <3>3
  <2>7. ASSUME NEW w \in Worker, Work(w) PROVE Counted'
    <3>1. UNCHANGED <<deps, pend, left, id>> /\ Tasks' = Tasks
      BY <2>7 DEF Work, Tasks
    <3>2. at'[w] = "lock" /\ at' \in [Worker -> {"idle", "work", "lock", "release"}]
          /\ \A v \in Worker : v # w => at'[v] = at[v]
      BY <2>7 DEF Work, TypeOK
    <3>3. \A d \in Id : d # id[w] => ended'[d] = ended[d]
      BY <2>7 DEF Work, TypeOK
    <3>4. ASSUME NEW t \in Tasks, NEW d \in DepsOf(t), Frees(d, t)' PROVE Frees(d, t)
      <4>1. d \in Id
        BY <2>0
      <4>2. d # id[w]
        BY <3>1, <3>2, <3>4 DEF Frees
      <4> QED  BY <3>1, <3>2, <3>3, <3>4, <4>1, <4>2 DEF Frees
    <3> QED  BY <2>3, <3>1, <3>4
  <2>8. ASSUME NEW w \in Worker, Lock(w) PROVE Counted'
    <3>1. UNCHANGED <<deps, pend, id, ended>> /\ Tasks' = Tasks
      BY <2>8 DEF Lock, Tasks
    <3>2. /\ left'[w] = rdeps[id[w]]
          /\ \A v \in Worker : v # w => at'[v] = at[v] /\ left'[v] = left[v]
      BY <2>8 DEF Lock, TypeOK
    <3>3. ASSUME NEW t \in Tasks, NEW d \in DepsOf(t), Frees(d, t)' PROVE Frees(d, t)
      <4>1. d \in Id /\ t \in Id
        BY <2>0 DEF TypeOK
      <4>2. d # id[w]
        <5>1. d = id[w] => t \in left'[w]
          BY <3>2, <4>1 DEF Converse
        <5> QED  BY <3>1, <3>3, <5>1 DEF Frees
      <4> QED  BY <3>1, <3>2, <3>3, <4>2 DEF Frees
    <3> QED  BY <2>3, <3>1, <3>3
  <2>9. ASSUME NEW w \in Worker, Finish(w) PROVE Counted'
    <3>1. UNCHANGED <<deps, pend, left, ended>> /\ Tasks' = Tasks
      BY <2>9 DEF Finish, Tasks
    <3>2. /\ at[w] = "release" /\ left[w] = {}
          /\ \A v \in Worker : v # w => at'[v] = at[v] /\ id'[v] = id[v]
      BY <2>9 DEF Finish, TypeOK
    <3>3. \A t, d : Frees(d, t)' => Frees(d, t)
      BY <3>1, <3>2 DEF Frees
    <3> QED  BY <2>3, <3>1, <3>3
  <2>10. ASSUME NEW w \in Worker, NEW x \in Id, Release(w, x) PROVE Counted'
    <3>1. UNCHANGED <<deps, at, id, ended>> /\ Tasks' = Tasks /\ x \in Tasks
      BY <2>10 DEF Release, Tasks, TypeOK
    <3>2. /\ x \in left[w] /\ left'[w] = left[w] \ {x}
          /\ \A v \in Worker : v # w => left'[v] = left[v]
      BY <2>10 DEF Release, TypeOK
    <3>3. pend'[x] = pend[x] - 1 /\ \A t \in Id : t # x => pend'[t] = pend[t]
      BY <2>10 DEF Release, TypeOK
    <3> SUFFICES ASSUME NEW t \in Tasks PROVE pend'[t] + Cardinality(Released(t)') <= Len(deps'[t])
      BY <3>1 DEF Counted
    <3>4. CASE t # x
      <4>1. \A d \in DepsOf(t) : Frees(d, t)' => Frees(d, t)
        <5>1. \A v \in Worker : t \in left'[v] <=> t \in left[v]
          BY <3>2, <3>4
        <5> QED  BY <3>1, <5>1 DEF Frees
      <4>2. pend'[t] = pend[t] /\ deps'[t] = deps[t]
        BY <3>1, <3>3, <3>4 DEF TypeOK
      <4> QED  BY <4>1, <4>2, StillCounted DEF Counted
    <3>5. CASE t = x
      <4>1. Released(x)' = {d \in DepsOf(x) : Frees(d, x)'}
        BY <3>1 DEF Released, Frees, DepsOf
      <4>2. ASSUME NEW d \in DepsOf(x), d # id[w], Frees(d, x)' PROVE Frees(d, x)
        BY <3>1, <3>2, <4>2 DEF Frees
      <4>3. Released(x)' \in SUBSET (Released(x) \union {id[w]})
        BY <4>1, <4>2, ReleasedIsFrees
      <4>4. IsFiniteSet(Released(x))
        <5>1. IsFiniteSet(DepsOf(x))
          BY <3>1, FewerMembers DEF DepsOf, TypeOK
        <5>2. Released(x) \in SUBSET DepsOf(x)
          BY DEF Released
        <5> QED  BY <5>1, <5>2, FS_Subset
      <4>5. /\ IsFiniteSet(Released(x) \union {id[w]})
            /\ Cardinality(Released(x) \union {id[w]}) <= Cardinality(Released(x)) + 1
            /\ Cardinality(Released(x)) \in Nat
        BY <4>4, FS_AddElement, FS_CardinalityType
      <4>6. /\ Cardinality(Released(x)') <= Cardinality(Released(x) \union {id[w]})
            /\ Cardinality(Released(x)') \in Nat /\ Cardinality(Released(x) \union {id[w]}) \in Nat
        BY <4>3, <4>5, FS_Subset, FS_CardinalityType
      <4>7. pend[x] + Cardinality(Released(x)) <= Len(deps[x]) /\ deps'[x] = deps[x]
        BY <3>1 DEF Counted
      <4>8. pend[x] \in Int /\ Len(deps[x]) \in Nat
        BY <3>1, NoDeps DEF TypeOK
      <4> QED  BY <3>3, <3>5, <4>5, <4>6, <4>7, <4>8
    <3> QED  BY <3>4, <3>5
  <2> QED
    BY <2>1, <2>2, <2>4, <2>5, <2>6, <2>7, <2>8, <2>9, <2>10 DEF Next, RunAllStep, WorkerStep, WaitingStep
<1> QED  BY <1>1, <1>2, TypedHolds, ConverseHolds, PTL DEF Safe
----------------------------------------------------------------------------
(* Induction over the numbers, for a set instead of an operator.            *)
LEMMA SetInduction ==
  ASSUME NEW S, 0 \in S, \A n \in Nat : n \in S => n + 1 \in S
  PROVE  Nat \subseteq S
<1> DEFINE R == {ss \in Nat \X Nat : ss[1] < ss[2]}
<1> SUFFICES ASSUME Nat \ S # {} PROVE FALSE
  OBVIOUS
<1>1. IsWellFoundedOn(R, Nat)
  BY NatLessThanWellFounded DEF OpToRel
<1>2. \E x \in Nat \ S : \A y \in Nat \ S : ~ (<<y, x>> \in R)
  <2>1. Nat \ S \subseteq Nat
    OBVIOUS
  <2> HIDE DEF R
  <2> QED  BY <1>1, <2>1, WFMin
<1>3. PICK x \in Nat \ S : \A y \in Nat \ S : ~ (<<y, x>> \in R)
  BY <1>2
<1>4. x # 0 /\ x - 1 \in Nat
  OBVIOUS
<1>5. <<x - 1, x>> \in R
  BY <1>4
<1>6. x - 1 \in S
  BY <1>3, <1>4, <1>5
<1> QED  BY <1>4, <1>6

(* The layers of tasks that can run: Runnable is the last one.              *)
NextLayer(L) == {t \in Tasks : IsInjective(deps[t]) /\ DepsOf(t) \subseteq L}
IsLayers(f, n) == f = [m \in 0..n |-> IF m = 0 THEN {} ELSE NextLayer(f[m - 1])]

LEMMA LayersExist == \A n \in Nat : \E f : IsLayers(f, n)
<1> DEFINE S == {n \in Nat : \E f : IsLayers(f, n)}
<1>1. 0 \in S
  <2> DEFINE f == [m \in 0..0 |-> {}]
  <2>1. IsLayers(f, 0)
    BY DEF IsLayers
  <2> QED  BY <2>1
<1>2. ASSUME NEW n \in Nat, n \in S PROVE n + 1 \in S
  <2>1. PICK f : IsLayers(f, n)
    BY <1>2
  <2> DEFINE g == [m \in 0..(n + 1) |-> IF m = n + 1 THEN NextLayer(f[n]) ELSE f[m]]
  <2>2. g = [m \in 0..(n + 1) |-> IF m = 0 THEN {} ELSE NextLayer(g[m - 1])]
    <3> SUFFICES ASSUME NEW m \in 0..(n + 1) PROVE g[m] = IF m = 0 THEN {} ELSE NextLayer(g[m - 1])
      OBVIOUS
    <3>1. CASE m = n + 1
      <4>1. g[m - 1] = f[n] /\ g[m] = NextLayer(f[n]) /\ m # 0
        BY <3>1
      <4> QED  BY <4>1
    <3>2. CASE m # n + 1 /\ m # 0
      <4>1. m \in 0..n /\ m - 1 \in 0..(n + 1) /\ m - 1 # n + 1
        BY <3>2
      <4>2. g[m] = f[m] /\ g[m - 1] = f[m - 1]
        BY <3>2, <4>1
      <4>3. f[m] = NextLayer(f[m - 1])
        BY <2>1, <3>2, <4>1 DEF IsLayers
      <4> QED  BY <3>2, <4>2, <4>3
    <3>3. CASE m = 0
      <4>1. g[m] = f[0] /\ f[0] = {}
        BY <2>1, <3>3 DEF IsLayers
      <4> QED  BY <3>3, <4>1
    <3> QED  BY <3>1, <3>2, <3>3
  <2> HIDE DEF g
  <2>3. IsLayers(g, n + 1)
    BY <2>2 DEF IsLayers
  <2> QED  BY <2>3
<1> HIDE DEF S
<1>3. Nat \subseteq S
  BY <1>1, <1>2, SetInduction
<1> QED  BY <1>3 DEF S

\* whatever holds of a task once it holds of all it depends on, holds of Runnable
LEMMA RunnableInduction ==
  ASSUME NEW G, \A t \in Tasks : IsInjective(deps[t]) /\ DepsOf(t) \subseteq G => t \in G
  PROVE  Runnable \subseteq G
<1> DEFINE N == Cardinality(Id)
           f == CHOOSE g : IsLayers(g, N)
           S == {n \in Nat : n \in 0..N => f[n] \subseteq G}
<1>1. N \in Nat
  BY SchedulerAssumption, FS_CardinalityType
<1>2. IsLayers(f, N)
  <2>1. \E g : IsLayers(g, N)
    BY <1>1, LayersExist
  <2> QED  BY <2>1
<1>3. Runnable = f[N]
  BY DEF Runnable, IsLayers, NextLayer
<1> HIDE DEF f
<1>4. 0 \in S
  BY <1>1, <1>2 DEF IsLayers
<1>5. ASSUME NEW n \in Nat, n \in S PROVE n + 1 \in S
  <2> SUFFICES ASSUME n + 1 \in 0..N PROVE f[n + 1] \subseteq G
    OBVIOUS
  <2>1. n \in 0..N /\ (n + 1) - 1 = n /\ n + 1 # 0
    BY <1>1
  <2>2. f[n + 1] = NextLayer(f[n])
    BY <1>2, <2>1 DEF IsLayers
  <2>3. f[n] \subseteq G
    BY <1>5, <2>1
  <2> QED  BY <2>2, <2>3 DEF NextLayer
<1>6. Nat \subseteq S
  <2> HIDE DEF S
  <2> QED  BY <1>4, <1>5, SetInduction
<1> QED  BY <1>1, <1>3, <1>6
----------------------------------------------------------------------------
(* The variables have their types in every reachable state.                 *)
THEOREM TypesHold == Spec => []TypeOK
<1>1. Typed => TypeOK
  BY DEF Typed
<1> QED  BY <1>1, TypedHolds, PTL DEF Spec

(* A task is submitted at most twice, and once if it depends on nothing,    *)
(* although run_all reads the counters without the mutex.                   *)
THEOREM TwiceAtMost == Spec => []AtMostTwice
<1>1. TypeOK /\ Dispatches => AtMostTwice
  <2> SUFFICES ASSUME TypeOK, Dispatches, NEW t \in Tasks
               PROVE  dispatched[t] <= (IF deps[t] = <<>> THEN 1 ELSE 2)
    BY DEF AtMostTwice
  <2>1. dispatched[t] \in Nat /\ dispatched[t] <= Visited(t) + Zeroed(t)
    BY DEF TypeOK, Dispatches
  <2>2. /\ Visited(t) \in {0, 1} /\ Zeroed(t) \in {0, 1}
        /\ deps[t] = <<>> => Zeroed(t) = 0
    BY DEF Visited, Zeroed
  <2> HIDE DEF Visited, Zeroed
  <2> QED  BY <2>1, <2>2
<1> QED  BY <1>1, TypesHold, DispatchesHold, PTL DEF Spec

(* A task starts only when all it depends on has run, unless one of those   *)
(* was submitted twice: for any graph of tasks and any number of workers.   *)
THEOREM DependenciesFirst == Spec => []DependenciesRanFirst
<1>1. Typed /\ Dispatches /\ Ran => DependenciesRanFirst
  <2> SUFFICES ASSUME Typed, Dispatches, Ran, NEW w \in Worker, at[w] = "work" PROVE Met(id[w])
    BY DEF DependenciesRanFirst, Met
  <2>1. id[w] \in Tasks /\ dispatched[id[w]] > 0
    BY DEF Typed, TypeOK, Quiet, Dispatches
  <2> QED  BY <2>1 DEF Ran
<1> QED  BY <1>1, TypedHolds, DispatchesHold, RanHolds, PTL DEF Spec

(* When run_all returns, and when it sleeps on a pool that is idle, every    *)
(* task that can run has run and nothing submitted is still under way.      *)
THEOREM AllRan == Spec => []RunAllRanAll
<1>1. Typed /\ Balance /\ Submitted /\ Counted => RunAllRanAll
  <2> SUFFICES ASSUME Typed, Balance, Submitted, Counted,
                      main = "returned" \/ (main \in {"waiting", "holding", "blocked"} /\ PoolIdle)
               PROVE  (\A t \in Runnable : ended[t] > 0) /\ (\A t \in Id : ended[t] = dispatched[t])
    BY DEF RunAllRanAll
  <2> USE DEF Typed
  <2>1. backlog = <<>> /\ toVisit = {} /\ \A w \in Worker : at[w] = "idle" /\ id[w] = None
    BY DEF Quiet, PoolIdle
  <2>2. ASSUME NEW t \in Id PROVE ended[t] = dispatched[t]
    <3>1. Places(backlog, t) = {} /\ Holders(t) = {}
      BY <2>1 DEF Places, Holders
    <3>2. dispatched[t] = ended[t] + Cardinality({}) + Cardinality({})
      BY <3>1 DEF Balance
    <3> QED  BY <3>2, FS_EmptySet DEF TypeOK
  <2> DEFINE G == {t \in Tasks : ended[t] > 0}
  <2>3. ASSUME NEW t \in Tasks, IsInjective(deps[t]), DepsOf(t) \subseteq G PROVE t \in G
    <3>1. t \in Id /\ ended[t] = dispatched[t] /\ dispatched[t] \in Nat /\ pend[t] \in Int
      BY <2>2 DEF TypeOK
    <3>2. dispatched[t] > 0
      <4>1. CASE deps[t] = <<>>
        <5>1. Visited(t) = 1
          BY <2>1 DEF Visited
        <5> QED  BY <4>1, <5>1 DEF Submitted
      <4>2. CASE deps[t] # <<>>
        <5>1. Len(deps[t]) \in Nat /\ DOMAIN deps[t] = 1..Len(deps[t]) /\ deps[t] \in [1..Len(deps[t]) -> Id]
          BY LenProperties DEF TypeOK
        <5>2. Released(t) = DepsOf(t)
          <6>1. ASSUME NEW d \in DepsOf(t) PROVE d \in Released(t)
            <7>1. d \in G /\ d # None
              BY <2>3, SchedulerAssumption DEF TypeOK
            <7> QED  BY <2>1, <7>1 DEF Released
          <6> QED  BY <6>1 DEF Released
        <5>3. Cardinality(DepsOf(t)) = Len(deps[t])
          <6>1. deps[t] \in Bijection(1..Len(deps[t]), DepsOf(t))
            BY <2>3, <5>1 DEF Bijection, Injection, Surjection, IsInjective, DepsOf, ToSet
          <6>2. IsFiniteSet(1..Len(deps[t])) /\ Cardinality(1..Len(deps[t])) = Len(deps[t])
            BY <5>1, FS_Interval
          <6>3. ExistsBijection(1..Len(deps[t]), DepsOf(t))
            BY <6>1 DEF ExistsBijection
          <6> QED  BY <6>2, <6>3, FS_Bijection
        <5>4. pend[t] + Cardinality(DepsOf(t)) <= Len(deps[t])
          BY <5>2 DEF Counted
        <5>5. pend[t] <= 0
          BY <3>1, <5>1, <5>3, <5>4
        <5> QED  BY <4>2, <5>5 DEF Submitted
      <4> QED  BY <4>1, <4>2
    <3> QED  BY <3>1, <3>2
  <2>4. Runnable \subseteq G
    <3> HIDE DEF G
    <3> QED  BY <2>3, RunnableInduction
  <2> QED  BY <2>2, <2>4
<1> QED  BY <1>1, TypedHolds, BalanceHolds, SubmittedHolds, CountedHolds, PTL DEF Spec
=============================================================================
