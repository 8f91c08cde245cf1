------------------------------ MODULE TaskPool ------------------------------
(***************************************************************************)
(* What a thread pool promises its callers, with no thread, lock or        *)
(* condition variable in sight: a task handed in waits its turn, is        *)
(* started once, in the order of submission, finishes once, and the pool   *)
(* is gone only when nothing is waiting or running.  WorkerPool is shown   *)
(* to implement this module.                                               *)
(***************************************************************************)
EXTENDS Sequences, FiniteSets, Naturals

CONSTANT Task

VARIABLES
  waiting,   \* the tasks handed in and not started, in order
  running,   \* the tasks some worker is executing
  finished,  \* the tasks whose result is ready
  closed     \* the pool has been destroyed

poolVars == <<waiting, running, finished, closed>>

Known == {waiting[i] : i \in DOMAIN waiting} \union running \union finished

Init ==
  /\ waiting = <<>>
  /\ running = {}
  /\ finished = {}
  /\ closed = FALSE

Submit(t) ==
  /\ ~closed
  /\ t \notin Known
  /\ waiting' = Append(waiting, t)
  /\ UNCHANGED <<running, finished, closed>>

Start ==
  /\ waiting # <<>>
  /\ running' = running \union {Head(waiting)}
  /\ waiting' = Tail(waiting)
  /\ UNCHANGED <<finished, closed>>

Finish(t) ==
  /\ t \in running
  /\ running' = running \ {t}
  /\ finished' = finished \union {t}
  /\ UNCHANGED <<waiting, closed>>

Close ==
  /\ waiting = <<>>
  /\ running = {}
  /\ closed' = TRUE
  /\ UNCHANGED <<waiting, running, finished>>

Next ==
  \/ \E t \in Task : Submit(t)
  \/ Start
  \/ \E t \in Task : Finish(t)
  \/ Close

(* A task handed in is started, and a task started is finished.            *)
Fairness == WF_poolVars(Start) /\ \A t \in Task : WF_poolVars(Finish(t))

Safe == Init /\ [][Next]_poolVars

Spec == Safe /\ Fairness
=============================================================================
