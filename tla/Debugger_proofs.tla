--------------------------- MODULE Debugger_proofs ---------------------------
(***************************************************************************)
(* What Debugger promises of breakpoints, for any threads, code and number   *)
(* of commands.                                                            *)
(***************************************************************************)
EXTENDS Debugger, TLAPS

(* The order of events: what the loop handles is what a thread waits in, and  *)
(* the loop ends for the user's detach or after the process has.             *)
Stages ==
  /\ loop \notin {"handling", "continuing"} => ev.kind = "none"
  /\ loop = "handling" /\ ev.kind \in {"int3", "step"} => due[ev.tid] = ev.kind
  /\ "exit" \in news => ~alive /\ Debugged /\ ev.kind # "exit"
  /\ ev.kind = "exit" => ~alive
  /\ ev.kind \in {"int3", "step"} => ev.tid \in Threads
  /\ \A t \in Threads : due[t] = "step" => ~past[t]
  /\ ~alive => \A t \in Threads : due[t] = "none" /\ ~past[t]
  /\ shutdown /\ attached /\ ui # "joining" => ~alive /\ "exit" \notin news
  /\ ui = "joining" => loop # "none"
  /\ loop = "none" => DOMAIN bps = {} /\ ~icb

(* While a process without the callback is debugged all breakpoints know the  *)
(* program's bytes; a process that is not is untouched.                     *)
Bytes ==
  /\ ~alive \/ ~Debugged => hooked \/ \A a \in Addrs : mem[a] = "own"
  /\ alive /\ Debugged /\ ~hooked => ~icb /\ \A a \in DOMAIN bps : bps[a].orig = "own"
  /\ BytesAreKnown

(* A thread whose breakpoint is gone before its hit is handled.             *)
Waiting ==
  alive /\ ~hooked => \A t \in Threads : due[t] = "int3" /\ ~Enabled(pc[t]) => t \in withdrawn

BpsOK ==
  /\ DOMAIN bps \subseteq Addrs
  /\ \A a \in DOMAIN bps : bps[a] \in [orig : Byte, enabled : BOOLEAN]

IInv == TypeOK /\ Stages /\ Bytes /\ TrapsAreArmed /\ Waiting /\ NobodyIsStray

(* The end of the process.                                                 *)
LEMMA GoneOK ==
  ASSUME Gone
  PROVE  DebuggeeOK'
<1>1. mem' \in [Addrs -> Byte] /\ hit' \in Addrs \union {0}
  BY DEF Gone, Byte
<1>2. pc' \in [Threads -> Addrs \union {0}]
  BY DEF Gone, All
<1>3. past' \in [Threads -> BOOLEAN] /\ tf' \in [Threads -> BOOLEAN] /\ spin' \in [Threads -> {"no", "in", "freed"}]
  BY DEF Gone, All
<1>4. due' \in [Threads -> {"none", "int3", "step"}]
  BY DEF Gone, All
<1>5. susp' \in [Threads -> 0..MaxSuspend]
  BY BoundsAssumption DEF Gone, All
<1>6. unrecorded' \in [Threads -> Nat]
  BY DEF Gone, All
<1> QED  BY <1>1, <1>2, <1>3, <1>4, <1>5, <1>6 DEF Gone, DebuggeeOK

(* Suspending every thread, as pause and poll_event do.                     *)
LEMMA SuspensionsOK ==
  ASSUME DebuggeeOK, NEW F
  PROVE  Suspended \in [Threads -> 0..MaxSuspend] /\ Lost(F) \in [Threads -> Nat]
<1>1. \A t \in Threads : susp[t] \in 0..MaxSuspend /\ unrecorded[t] \in Nat
  BY DEF DebuggeeOK
<1>2. Suspended \in [Threads -> 0..MaxSuspend]
  BY <1>1, BoundsAssumption DEF Suspended, Suspendable
<1>3. Lost(F) \in [Threads -> Nat]
  BY <1>1 DEF Lost
<1> QED  BY <1>2, <1>3

(* set_breakpoint, also as the steps use it.                                *)
LEMMA SetOK ==
  ASSUME IInv, NEW a \in Addrs, Set(a)
  PROVE  BpsOK' /\ mem' \in [Addrs -> Byte]
<1>1. mem' \in [Addrs -> Byte]
  BY DEF IInv, TypeOK, DebuggeeOK, Set, Byte
<1>2. CASE bps' = bps
  BY <1>1, <1>2 DEF IInv, TypeOK, EngineOK, BpsOK
<1>3. CASE bps' = Put(a, [orig |-> IF icb THEN "zero" ELSE mem[a], enabled |-> TRUE])
  <2>1. (IF icb THEN "zero" ELSE mem[a]) \in Byte
    BY DEF IInv, TypeOK, DebuggeeOK, Byte
  <2>2. DOMAIN bps' = DOMAIN bps \union {a}
    BY <1>3 DEF Put
  <2>3. bps'[a] \in [orig : Byte, enabled : BOOLEAN]
    BY <1>3, <2>1 DEF Put
  <2>4. \A b \in DOMAIN bps : b # a => bps'[b] = bps[b]
    BY <1>3 DEF Put
  <2> QED  BY <1>1, <2>2, <2>3, <2>4 DEF IInv, TypeOK, EngineOK, BpsOK
<1> QED  BY <1>2, <1>3 DEF Set

LEMMA SetKeeps ==
  ASSUME IInv, NEW a \in Addrs, Set(a), Debugged,
         UNCHANGED <<alive, icb, hooked, tf, due, withdrawn, pc>>
  PROVE  /\ alive /\ ~hooked => \A b \in DOMAIN bps' : bps'[b].orig = "own"
         /\ ~alive => hooked \/ \A b \in Addrs : mem'[b] = "own"
         /\ BytesAreKnown'
         /\ \A b \in DOMAIN bps : b \in DOMAIN bps' /\ bps'[b] = bps[b] /\ (mem[b] = "trap" => mem'[b] = "trap")
         /\ \A b \in DOMAIN bps' \ DOMAIN bps : ~icb => mem'[b] = "trap"
<1>1. CASE a \in DOMAIN bps \/ ~alive
  BY <1>1 DEF IInv, TypeOK, DebuggeeOK, Set, Bytes, BytesAreKnown, Enabled
<1>2. CASE a \notin DOMAIN bps /\ alive
  <2>1. /\ DOMAIN bps' = DOMAIN bps \union {a}
        /\ \A b \in DOMAIN bps : bps'[b] = bps[b]
        /\ bps'[a] = [orig |-> IF icb THEN "zero" ELSE mem[a], enabled |-> TRUE]
    BY <1>2 DEF Set, Put
  <2>2. ~hooked => mem[a] = "own" /\ ~icb
    BY <1>2 DEF IInv, Bytes, BytesAreKnown, Enabled
  <2>3. \A b \in Addrs : mem'[b] = IF b = a /\ ~icb THEN "trap" ELSE mem[b]
    BY <1>2 DEF IInv, TypeOK, DebuggeeOK, Set
  <2> QED  BY <1>2, <2>1, <2>2, <2>3 DEF IInv, TypeOK, EngineOK, Bytes, BytesAreKnown, Enabled
<1> QED  BY <1>1, <1>2

(* A step of the user is a single step or runs to a breakpoint of its own.   *)
LEMMA StepCases ==
  ASSUME IInv, Step
  PROVE  StepMark \/ \E a \in Addrs : StepTo(a)
BY AddrsAssumption DEF Step, AtCall
-----------------------------------------------------------------------------
LEMMA ExecuteStep ==
  ASSUME IInv, NEW t \in Threads, Execute(t)
  PROVE  IInv'
<1>1. EngineOK'
  BY DEF IInv, Execute, TypeOK, EngineOK, Runs, Frozen, Debugged, Byte, flags, stepping, history
<1>2. LoopOK'
  BY DEF IInv, Execute, TypeOK, EngineOK, LoopOK, Runs, Frozen, Debugged, Event, Byte, flags,
      stepping, history
<1>3. DebuggeeOK'
  <2>1. PICK b \in Addrs :
          /\ pc' = [pc EXCEPT ![t] = b]
          /\ \/ UNCHANGED <<spin, hit>>
             \/ spin' = [spin EXCEPT ![t] = "in"] /\ hit' = b
    BY DEF Execute
  <2>2. /\ pc' \in [Threads -> Addrs \union {0}] /\ spin' \in [Threads -> {"no", "in", "freed"}]
        /\ hit' \in Addrs \union {0}
    BY <2>1 DEF IInv, TypeOK, DebuggeeOK
  <2>3. tf' \in [Threads -> BOOLEAN] /\ due' \in [Threads -> {"none", "int3", "step"}]
    BY DEF IInv, TypeOK, DebuggeeOK, Execute
  <2> QED  BY <2>2, <2>3 DEF IInv, TypeOK, DebuggeeOK, Execute, history
<1>4. Stages'
  BY DEF IInv, Execute, TypeOK, LoopOK, DebuggeeOK, Stages, Runs, Frozen, Debugged, Event, Byte,
      flags, stepping, history
<1>5. Bytes'
  BY DEF IInv, Execute, TypeOK, EngineOK, DebuggeeOK, Stages, Bytes, BytesAreKnown, Runs,
      Frozen, Debugged, Enabled, Byte, flags, stepping, history
<1>6. TrapsAreArmed'
  BY DEF IInv, Execute, TypeOK, EngineOK, DebuggeeOK, Stages, Bytes, TrapsAreArmed, Runs,
      Frozen, Debugged, Byte, flags, stepping, history
<1>7. Waiting'
  BY DEF IInv, Execute, TypeOK, EngineOK, DebuggeeOK, Stages, Bytes, BytesAreKnown, Waiting,
      Runs, Frozen, Debugged, Enabled, Byte, flags, stepping, history
<1>8. NobodyIsStray'
  BY DEF IInv, Execute, TypeOK, EngineOK, DebuggeeOK, Stages, Waiting, NobodyIsStray, Runs,
      Frozen, Debugged, Enabled, Byte, flags, stepping, history
<1> QED  BY <1>1, <1>2, <1>3, <1>4, <1>5, <1>6, <1>7, <1>8 DEF IInv, TypeOK

LEMMA TrapStep ==
  ASSUME IInv, NEW t \in Threads, Trap(t)
  PROVE  IInv'
<1>1. EngineOK'
  BY DEF IInv, Trap, TypeOK, EngineOK, Runs, Frozen, Debugged, Byte, flags, stepping, history
<1>2. LoopOK'
  BY DEF IInv, Trap, TypeOK, EngineOK, LoopOK, Runs, Frozen, Debugged, Event, Byte, flags,
      stepping, history
<1>3. DebuggeeOK'
  BY BoundsAssumption DEF IInv, Trap, TypeOK, EngineOK, DebuggeeOK, Runs, Frozen, Debugged,
      Byte, flags, stepping, history
<1>4. Stages'
  BY DEF IInv, Trap, TypeOK, LoopOK, DebuggeeOK, Stages, Runs, Frozen, Debugged, Event, Byte,
      flags, stepping, history
<1>5. Bytes'
  BY DEF IInv, Trap, TypeOK, EngineOK, DebuggeeOK, Stages, Bytes, BytesAreKnown, Runs, Frozen,
      Debugged, Enabled, Byte, flags, stepping, history
<1>6. TrapsAreArmed'
  BY DEF IInv, Trap, TypeOK, EngineOK, DebuggeeOK, Stages, Bytes, TrapsAreArmed, Runs, Frozen,
      Debugged, Byte, flags, stepping, history
<1>7. Waiting'
  BY DEF IInv, Trap, TypeOK, EngineOK, DebuggeeOK, Stages, Bytes, BytesAreKnown, Waiting, Runs,
      Frozen, Debugged, Enabled, Byte, flags, stepping, history
<1>8. NobodyIsStray'
  BY DEF IInv, Trap, TypeOK, EngineOK, DebuggeeOK, Stages, Waiting, NobodyIsStray, Runs, Frozen,
      Debugged, Enabled, Byte, flags, stepping, history
<1> QED  BY <1>1, <1>2, <1>3, <1>4, <1>5, <1>6, <1>7, <1>8 DEF IInv, TypeOK

LEMMA LeaveCallbackStep ==
  ASSUME IInv, NEW t \in Threads, LeaveCallback(t)
  PROVE  IInv'
<1>1. EngineOK'
  BY DEF IInv, LeaveCallback, TypeOK, EngineOK, Runs, Frozen, Byte, flags, stepping, history
<1>2. LoopOK'
  BY DEF IInv, LeaveCallback, TypeOK, EngineOK, LoopOK, Runs, Frozen, Event, Byte, flags,
      stepping, history
<1>3. DebuggeeOK'
  BY BoundsAssumption DEF IInv, LeaveCallback, TypeOK, EngineOK, DebuggeeOK, Runs, Frozen, Byte,
      flags, stepping, history
<1>4. Stages'
  BY DEF IInv, LeaveCallback, TypeOK, LoopOK, DebuggeeOK, Stages, Runs, Frozen, Debugged, Event,
      Byte, flags, stepping, history
<1>5. Bytes'
  BY DEF IInv, LeaveCallback, TypeOK, EngineOK, DebuggeeOK, Stages, Bytes, BytesAreKnown, Runs,
      Frozen, Debugged, Enabled, Byte, flags, stepping, history
<1>6. TrapsAreArmed'
  BY DEF IInv, LeaveCallback, TypeOK, EngineOK, DebuggeeOK, Stages, Bytes, TrapsAreArmed, Runs,
      Frozen, Debugged, Byte, flags, stepping, history
<1>7. Waiting'
  BY DEF IInv, LeaveCallback, TypeOK, EngineOK, DebuggeeOK, Stages, Bytes, BytesAreKnown,
      Waiting, Runs, Frozen, Debugged, Enabled, Byte, flags, stepping, history
<1>8. NobodyIsStray'
  BY DEF IInv, LeaveCallback, TypeOK, EngineOK, DebuggeeOK, Stages, Waiting, NobodyIsStray,
      Runs, Frozen, Debugged, Enabled, Byte, flags, stepping, history
<1> QED  BY <1>1, <1>2, <1>3, <1>4, <1>5, <1>6, <1>7, <1>8 DEF IInv, TypeOK

LEMMA EndThreadStep ==
  ASSUME IInv, NEW t \in Threads, EndThread(t)
  PROVE  IInv'
<1>1. EngineOK'
  BY DEF IInv, EndThread, TypeOK, EngineOK, Runs, Frozen, Byte, flags, stepping
<1>2. LoopOK'
  BY DEF IInv, EndThread, TypeOK, EngineOK, LoopOK, Runs, Frozen, Event, Byte, flags, stepping
<1>3. DebuggeeOK'
  BY BoundsAssumption DEF IInv, EndThread, TypeOK, EngineOK, DebuggeeOK, Runs, Frozen, Byte,
      flags, stepping
<1>4. Stages'
  BY DEF IInv, EndThread, TypeOK, LoopOK, DebuggeeOK, Stages, Runs, Frozen, Debugged, Event,
      Byte, flags, stepping
<1>5. Bytes'
  BY DEF IInv, EndThread, TypeOK, EngineOK, DebuggeeOK, Stages, Bytes, BytesAreKnown, Runs,
      Frozen, Debugged, Enabled, Byte, flags, stepping
<1>6. TrapsAreArmed'
  BY DEF IInv, EndThread, TypeOK, EngineOK, DebuggeeOK, Stages, Bytes, TrapsAreArmed, Runs,
      Frozen, Debugged, Byte, flags, stepping
<1>7. Waiting'
  BY DEF IInv, EndThread, TypeOK, EngineOK, DebuggeeOK, Stages, Bytes, BytesAreKnown, Waiting,
      Runs, Frozen, Debugged, Enabled, Byte, flags, stepping
<1>8. NobodyIsStray'
  BY DEF IInv, EndThread, TypeOK, EngineOK, DebuggeeOK, Stages, Waiting, NobodyIsStray, Runs,
      Frozen, Debugged, Enabled, Byte, flags, stepping
<1> QED  BY <1>1, <1>2, <1>3, <1>4, <1>5, <1>6, <1>7, <1>8 DEF IInv, TypeOK

LEMMA EndProcessStep ==
  ASSUME IInv, EndProcess
  PROVE  IInv'
<1>1. EngineOK'
  BY DEF IInv, EndProcess, TypeOK, EngineOK, Gone, All, Frozen, Debugged, Byte, flags, stepping
<1>2. LoopOK'
  BY DEF IInv, EndProcess, TypeOK, EngineOK, LoopOK, Gone, All, Frozen, Debugged, Event, Byte,
      flags, stepping
<1>3. DebuggeeOK'
  BY GoneOK DEF EndProcess
<1>4. Stages'
  BY DEF IInv, EndProcess, TypeOK, LoopOK, DebuggeeOK, Stages, Gone, All, Frozen, Debugged,
      Event, Byte, flags, stepping
<1>5. Bytes'
  BY DEF IInv, EndProcess, TypeOK, EngineOK, DebuggeeOK, Stages, Bytes, BytesAreKnown, Gone,
      All, Frozen, Debugged, Enabled, Byte, flags, stepping
<1>6. TrapsAreArmed'
  BY DEF IInv, EndProcess, TypeOK, EngineOK, DebuggeeOK, Stages, Bytes, TrapsAreArmed, Gone,
      All, Frozen, Debugged, Byte, flags, stepping
<1>7. Waiting'
  BY DEF IInv, EndProcess, TypeOK, EngineOK, DebuggeeOK, Stages, Bytes, BytesAreKnown, Waiting,
      Gone, All, Frozen, Debugged, Enabled, Byte, flags, stepping
<1>8. NobodyIsStray'
  BY DEF IInv, EndProcess, TypeOK, EngineOK, DebuggeeOK, Stages, Waiting, NobodyIsStray, Gone,
      All, Frozen, Debugged, Enabled, Byte, flags, stepping
<1> QED  BY <1>1, <1>2, <1>3, <1>4, <1>5, <1>6, <1>7, <1>8 DEF IInv, TypeOK

LEMMA StartProcessStep ==
  ASSUME IInv, StartProcess
  PROVE  IInv'
<1>1. EngineOK'
  BY DEF IInv, StartProcess, TypeOK, EngineOK, Debugged, Byte, flags, stepping, history
<1>2. LoopOK'
  BY DEF IInv, StartProcess, TypeOK, EngineOK, LoopOK, Debugged, Event, Byte, flags, stepping,
      history
<1>3. DebuggeeOK'
  BY BoundsAssumption DEF IInv, StartProcess, TypeOK, EngineOK, DebuggeeOK, Debugged, Byte,
      flags, stepping, history
<1>4. Stages'
  BY DEF IInv, StartProcess, TypeOK, LoopOK, DebuggeeOK, Stages, Debugged, Event, Byte, flags,
      stepping, history
<1>5. Bytes'
  BY DEF IInv, StartProcess, TypeOK, EngineOK, DebuggeeOK, Stages, Bytes, BytesAreKnown,
      Debugged, Enabled, Byte, flags, stepping, history
<1>6. TrapsAreArmed'
  BY DEF IInv, StartProcess, TypeOK, EngineOK, DebuggeeOK, Stages, Bytes, TrapsAreArmed,
      Debugged, Byte, flags, stepping, history
<1>7. Waiting'
  BY DEF IInv, StartProcess, TypeOK, EngineOK, DebuggeeOK, Stages, Bytes, BytesAreKnown,
      Waiting, Debugged, Enabled, Byte, flags, stepping, history
<1>8. NobodyIsStray'
  BY DEF IInv, StartProcess, TypeOK, EngineOK, DebuggeeOK, Stages, Waiting, NobodyIsStray,
      Debugged, Enabled, Byte, flags, stepping, history
<1> QED  BY <1>1, <1>2, <1>3, <1>4, <1>5, <1>6, <1>7, <1>8 DEF IInv, TypeOK

LEMMA LoopTestStep ==
  ASSUME IInv, LoopTest
  PROVE  IInv'
<1>1. EngineOK'
  BY DEF IInv, LoopTest, TypeOK, EngineOK, Byte, stepping, threads, history
<1>2. LoopOK'
  BY DEF IInv, LoopTest, TypeOK, EngineOK, LoopOK, Event, Byte, stepping, threads, history
<1>3. DebuggeeOK'
  BY DEF IInv, LoopTest, TypeOK, EngineOK, DebuggeeOK, Byte, stepping, threads, history
<1>4. Stages'
  BY DEF IInv, LoopTest, TypeOK, LoopOK, DebuggeeOK, Stages, Debugged, Event, Byte, stepping,
      threads, history
<1>5. Bytes'
  BY DEF IInv, LoopTest, TypeOK, EngineOK, DebuggeeOK, Stages, Bytes, BytesAreKnown, Debugged,
      Enabled, Byte, stepping, threads, history
<1>6. TrapsAreArmed'
  BY DEF IInv, LoopTest, TypeOK, EngineOK, DebuggeeOK, Stages, Bytes, TrapsAreArmed, Debugged,
      Byte, stepping, threads, history
<1>7. Waiting'
  BY DEF IInv, LoopTest, TypeOK, EngineOK, DebuggeeOK, Stages, Bytes, BytesAreKnown, Waiting,
      Debugged, Enabled, Byte, stepping, threads, history
<1>8. NobodyIsStray'
  BY DEF IInv, LoopTest, TypeOK, EngineOK, DebuggeeOK, Stages, Waiting, NobodyIsStray, Debugged,
      Enabled, Byte, stepping, threads, history
<1> QED  BY <1>1, <1>2, <1>3, <1>4, <1>5, <1>6, <1>7, <1>8 DEF IInv, TypeOK

LEMMA TimeoutStep ==
  ASSUME IInv, Timeout
  PROVE  IInv'
<1>1. EngineOK'
  BY DEF IInv, Timeout, TypeOK, EngineOK, Byte, flags, stepping, threads, history
<1>2. LoopOK'
  BY DEF IInv, Timeout, TypeOK, EngineOK, LoopOK, Event, Byte, flags, stepping, threads, history
<1>3. DebuggeeOK'
  BY DEF IInv, Timeout, TypeOK, EngineOK, DebuggeeOK, Byte, flags, stepping, threads, history
<1>4. Stages'
  BY DEF IInv, Timeout, TypeOK, LoopOK, DebuggeeOK, Stages, Debugged, Event, Byte, flags,
      stepping, threads, history
<1>5. Bytes'
  BY DEF IInv, Timeout, TypeOK, EngineOK, DebuggeeOK, Stages, Bytes, BytesAreKnown, Debugged,
      Enabled, Byte, flags, stepping, threads, history
<1>6. TrapsAreArmed'
  BY DEF IInv, Timeout, TypeOK, EngineOK, DebuggeeOK, Stages, Bytes, TrapsAreArmed, Debugged,
      Byte, flags, stepping, threads, history
<1>7. Waiting'
  BY DEF IInv, Timeout, TypeOK, EngineOK, DebuggeeOK, Stages, Bytes, BytesAreKnown, Waiting,
      Debugged, Enabled, Byte, flags, stepping, threads, history
<1>8. NobodyIsStray'
  BY DEF IInv, Timeout, TypeOK, EngineOK, DebuggeeOK, Stages, Waiting, NobodyIsStray, Debugged,
      Enabled, Byte, flags, stepping, threads, history
<1> QED  BY <1>1, <1>2, <1>3, <1>4, <1>5, <1>6, <1>7, <1>8 DEF IInv, TypeOK

LEMMA WaitForDebugEventStep ==
  ASSUME IInv, WaitForDebugEvent
  PROVE  IInv'
<1>1. EngineOK'
  BY DEF IInv, WaitForDebugEvent, TypeOK, EngineOK, Byte, flags, stepping, threads, history
<1>2. LoopOK'
  <2>1. ev' \in Event /\ news' \subseteq {"initial", "exit"}
    <3>1. CASE \E k \in news : ev' = [kind |-> k, tid |-> NoThread] /\ news' = news \ {k}
      BY <3>1 DEF IInv, TypeOK, LoopOK, Event
    <3>2. CASE /\ \E t \in Threads : due[t] # "none" /\ ev' = [kind |-> due[t], tid |-> t]
               /\ UNCHANGED news
      <4>1. PICK t \in Threads : ev' = [kind |-> due[t], tid |-> t]
        BY <3>2
      <4>2. due[t] \in {"none", "int3", "step"}
        BY DEF IInv, TypeOK, DebuggeeOK
      <4> QED  BY <3>2, <4>1, <4>2 DEF IInv, TypeOK, LoopOK, Event
    <3> QED  BY <3>1, <3>2 DEF WaitForDebugEvent
  <2> QED  BY <2>1 DEF IInv, TypeOK, LoopOK, WaitForDebugEvent, flags
<1>3. DebuggeeOK'
  BY DEF IInv, WaitForDebugEvent, TypeOK, EngineOK, DebuggeeOK, Byte, flags, stepping, threads,
      history
<1>4. Stages'
  BY NoThreadAssumption DEF IInv, WaitForDebugEvent, TypeOK, LoopOK, DebuggeeOK, Stages,
      Debugged, Event, Byte, flags, stepping, threads, history
<1>5. Bytes'
  BY DEF IInv, WaitForDebugEvent, TypeOK, EngineOK, DebuggeeOK, Stages, Bytes, BytesAreKnown,
      Debugged, Enabled, Byte, flags, stepping, threads, history
<1>6. TrapsAreArmed'
  BY DEF IInv, WaitForDebugEvent, TypeOK, EngineOK, DebuggeeOK, Stages, Bytes, TrapsAreArmed,
      Debugged, Byte, flags, stepping, threads, history
<1>7. Waiting'
  BY DEF IInv, WaitForDebugEvent, TypeOK, EngineOK, DebuggeeOK, Stages, Bytes, BytesAreKnown,
      Waiting, Debugged, Enabled, Byte, flags, stepping, threads, history
<1>8. NobodyIsStray'
  BY DEF IInv, WaitForDebugEvent, TypeOK, EngineOK, DebuggeeOK, Stages, Waiting, NobodyIsStray,
      Debugged, Enabled, Byte, flags, stepping, threads, history
<1> QED  BY <1>1, <1>2, <1>3, <1>4, <1>5, <1>6, <1>7, <1>8 DEF IInv, TypeOK

LEMMA InitialBreakpointStep ==
  ASSUME IInv, InitialBreakpoint
  PROVE  IInv'
<1>1. EngineOK'
  BY DEF IInv, InitialBreakpoint, TypeOK, EngineOK, UnknownBreakpoint, Byte, stepping
<1>2. LoopOK'
  BY DEF IInv, InitialBreakpoint, TypeOK, EngineOK, LoopOK, UnknownBreakpoint, Event, Byte,
      stepping
<1>3. DebuggeeOK'
  BY DEF IInv, InitialBreakpoint, TypeOK, EngineOK, DebuggeeOK, UnknownBreakpoint, Byte,
      stepping
<1>4. Stages'
  BY DEF IInv, InitialBreakpoint, TypeOK, LoopOK, DebuggeeOK, Stages, UnknownBreakpoint,
      Debugged, Event, Byte
<1>5. Bytes'
  BY DEF IInv, InitialBreakpoint, TypeOK, EngineOK, DebuggeeOK, Stages, Bytes, BytesAreKnown,
      UnknownBreakpoint, Debugged, Enabled, Byte, stepping
<1>6. TrapsAreArmed'
  BY DEF IInv, InitialBreakpoint, TypeOK, EngineOK, DebuggeeOK, Stages, Bytes, TrapsAreArmed,
      UnknownBreakpoint, Debugged, Byte, stepping
<1>7. Waiting'
  BY DEF IInv, InitialBreakpoint, TypeOK, EngineOK, DebuggeeOK, Stages, Bytes, BytesAreKnown,
      Waiting, UnknownBreakpoint, Debugged, Enabled, Byte, stepping
<1>8. NobodyIsStray'
  BY DEF IInv, InitialBreakpoint, TypeOK, EngineOK, DebuggeeOK, Stages, Waiting, NobodyIsStray,
      UnknownBreakpoint, Debugged, Enabled, Byte, stepping
<1> QED  BY <1>1, <1>2, <1>3, <1>4, <1>5, <1>6, <1>7, <1>8 DEF IInv, TypeOK

LEMMA HandleBreakpointStep ==
  ASSUME IInv, HandleBreakpoint
  PROVE  IInv'
<1>1. EngineOK'
  <2>1. ev.tid \in Threads
    BY DEF IInv, Stages, HandleBreakpoint
  <2>2. DOMAIN bps' = DOMAIN bps /\ \A a \in DOMAIN bps : bps'[a] \in [orig : Byte, enabled : BOOLEAN]
    <3> DEFINE b == pc[ev.tid]
    <3>1. CASE bps' = bps
      BY <3>1 DEF IInv, TypeOK, EngineOK
    <3>2. CASE Enabled(b) /\ bps' = [bps EXCEPT ![b].enabled = FALSE]
      <4>1. b \in DOMAIN bps /\ bps[b] \in [orig : Byte, enabled : BOOLEAN]
        BY <3>2 DEF IInv, TypeOK, EngineOK, Enabled
      <4>2. bps' = [bps EXCEPT ![b] = [bps[b] EXCEPT !.enabled = FALSE]]
        BY <3>2
      <4>3. [bps[b] EXCEPT !.enabled = FALSE] \in [orig : Byte, enabled : BOOLEAN]
        BY <4>1
      <4>4. DOMAIN bps' = DOMAIN bps /\ bps'[b] \in [orig : Byte, enabled : BOOLEAN]
        BY <4>1, <4>2, <4>3
      <4>5. \A a \in DOMAIN bps : a # b => bps'[a] = bps[a]
        BY <4>2
      <4> QED  BY <4>4, <4>5 DEF IInv, TypeOK, EngineOK
    <3> QED  BY <3>1, <3>2 DEF HandleBreakpoint, BreakpointHit, UnknownBreakpoint
  <2>3. stepOver' \in Addrs \union {0} /\ running' \in BOOLEAN
    BY DEF IInv, TypeOK, EngineOK, HandleBreakpoint, BreakpointHit, UnknownBreakpoint
  <2> QED  BY <2>1, <2>2, <2>3 DEF IInv, TypeOK, EngineOK, HandleBreakpoint
<1>2. LoopOK'
  BY DEF IInv, HandleBreakpoint, TypeOK, EngineOK, LoopOK, UnknownBreakpoint, BreakpointHit,
      WaitsAt, Enabled, Event, Byte, stepping
<1>3. DebuggeeOK'
  BY ZenonT(40) DEF IInv, HandleBreakpoint, TypeOK, EngineOK, DebuggeeOK, UnknownBreakpoint, BreakpointHit,
      WaitsAt, Enabled, Byte, stepping
<1>4. Stages'
  BY DEF IInv, HandleBreakpoint, TypeOK, LoopOK, DebuggeeOK, Stages, UnknownBreakpoint,
      BreakpointHit, WaitsAt, Debugged, Enabled, Event, Byte
<1>5. Bytes'
  <2> DEFINE t == ev.tid
  <2>1. t \in Threads /\ due[t] = "int3" /\ alive
    BY DEF IInv, TypeOK, Stages, HandleBreakpoint
  <2>2. Debugged
    BY DEF IInv, TypeOK, LoopOK, HandleBreakpoint, Debugged
  <2>3. CASE Enabled(pc[t])
    BY <2>1, <2>2, <2>3
    DEF IInv, TypeOK, EngineOK, DebuggeeOK, Bytes, BytesAreKnown, HandleBreakpoint, BreakpointHit,
        Enabled, Debugged
  <2>4. CASE ~Enabled(pc[t])
    BY <2>4
    DEF IInv, Bytes, BytesAreKnown, HandleBreakpoint, UnknownBreakpoint, Enabled, Debugged
  <2> QED  BY <2>3, <2>4
<1>6. TrapsAreArmed'
  BY DEF IInv, HandleBreakpoint, TypeOK, EngineOK, DebuggeeOK, Stages, Bytes, TrapsAreArmed,
      UnknownBreakpoint, BreakpointHit, WaitsAt, Debugged, Enabled, Byte, stepping
<1>7. Waiting'
  BY DEF IInv, HandleBreakpoint, TypeOK, EngineOK, DebuggeeOK, Stages, Bytes, BytesAreKnown,
      Waiting, UnknownBreakpoint, BreakpointHit, WaitsAt, Debugged, Enabled, Byte, stepping
<1>8. NobodyIsStray'
  BY DEF IInv, HandleBreakpoint, TypeOK, EngineOK, DebuggeeOK, Stages, Waiting, NobodyIsStray,
      UnknownBreakpoint, BreakpointHit, WaitsAt, Debugged, Enabled, Byte, stepping
<1> QED  BY <1>1, <1>2, <1>3, <1>4, <1>5, <1>6, <1>7, <1>8 DEF IInv, TypeOK

LEMMA HandleSingleStepStep ==
  ASSUME IInv, HandleSingleStep
  PROVE  IInv'
<1>1. EngineOK'
  BY DEF IInv, HandleSingleStep, TypeOK, EngineOK, Stages, Debugged, Enabled, Byte, stepping
<1>2. LoopOK'
  BY DEF IInv, HandleSingleStep, TypeOK, EngineOK, LoopOK, Enabled, Event, Byte, stepping
<1>3. DebuggeeOK'
  BY DEF IInv, HandleSingleStep, TypeOK, EngineOK, DebuggeeOK, Enabled, Byte, stepping
<1>4. Stages'
  BY DEF IInv, HandleSingleStep, TypeOK, LoopOK, DebuggeeOK, Stages, Debugged, Enabled, Event,
      Byte
<1>5. Bytes'
  <2>1. ev.tid \in Threads /\ alive
    BY DEF IInv, Stages, HandleSingleStep
  <2>2. Debugged
    BY DEF IInv, TypeOK, LoopOK, HandleSingleStep, Debugged
  <2>3. \A a \in Addrs : mem'[a] = IF Enabled(a) THEN "trap" ELSE mem[a]
    BY DEF HandleSingleStep
  <2> QED  BY <2>1, <2>2, <2>3
           DEF IInv, Bytes, BytesAreKnown, HandleSingleStep, Enabled, Debugged
<1>6. TrapsAreArmed'
  BY DEF IInv, HandleSingleStep, TypeOK, EngineOK, DebuggeeOK, Stages, Bytes, TrapsAreArmed,
      Debugged, Enabled, Byte, stepping
<1>7. Waiting'
  BY DEF IInv, HandleSingleStep, TypeOK, EngineOK, DebuggeeOK, Stages, Bytes, BytesAreKnown,
      Waiting, Debugged, Enabled, Byte, stepping
<1>8. NobodyIsStray'
  <2>1. ev.tid \in Threads /\ due[ev.tid] = "step"
    BY DEF IInv, Stages, HandleSingleStep
  <2>2. ~past[ev.tid]
    BY <2>1 DEF IInv, Stages
  <2>3. \A t \in Threads : t # ev.tid => due'[t] = due[t]
    BY DEF HandleSingleStep, IInv, TypeOK, DebuggeeOK
  <2> QED  BY <2>1, <2>2, <2>3 DEF IInv, NobodyIsStray, HandleSingleStep
<1> QED  BY <1>1, <1>2, <1>3, <1>4, <1>5, <1>6, <1>7, <1>8 DEF IInv, TypeOK

LEMMA HandleExitStep ==
  ASSUME IInv, HandleExit
  PROVE  IInv'
<1>1. EngineOK'
  BY DEF IInv, HandleExit, TypeOK, EngineOK, Byte, stepping, threads, history
<1>2. LoopOK'
  BY DEF IInv, HandleExit, TypeOK, EngineOK, LoopOK, Event, Byte, stepping, threads, history
<1>3. DebuggeeOK'
  BY DEF IInv, HandleExit, TypeOK, EngineOK, DebuggeeOK, Byte, stepping, threads, history
<1>4. Stages'
  BY DEF IInv, HandleExit, TypeOK, LoopOK, DebuggeeOK, Stages, Debugged, Event, Byte, stepping,
      threads, history
<1>5. Bytes'
  BY DEF IInv, HandleExit, TypeOK, EngineOK, DebuggeeOK, Stages, Bytes, BytesAreKnown, Debugged,
      Enabled, Byte, stepping, threads, history
<1>6. TrapsAreArmed'
  BY DEF IInv, HandleExit, TypeOK, EngineOK, DebuggeeOK, Stages, Bytes, TrapsAreArmed, Debugged,
      Byte, stepping, threads, history
<1>7. Waiting'
  BY DEF IInv, HandleExit, TypeOK, EngineOK, DebuggeeOK, Stages, Bytes, BytesAreKnown, Waiting,
      Debugged, Enabled, Byte, stepping, threads, history
<1>8. NobodyIsStray'
  BY DEF IInv, HandleExit, TypeOK, EngineOK, DebuggeeOK, Stages, Waiting, NobodyIsStray,
      Debugged, Enabled, Byte, stepping, threads, history
<1> QED  BY <1>1, <1>2, <1>3, <1>4, <1>5, <1>6, <1>7, <1>8 DEF IInv, TypeOK

LEMMA ContinueDebugEventStep ==
  ASSUME IInv, ContinueDebugEvent
  PROVE  IInv'
<1>1. EngineOK'
  BY DEF IInv, ContinueDebugEvent, TypeOK, EngineOK, NoEvent, Byte, flags, stepping, threads,
      history
<1>2. LoopOK'
  BY DEF IInv, ContinueDebugEvent, TypeOK, EngineOK, LoopOK, NoEvent, Event, Byte, flags,
      stepping, threads, history
<1>3. DebuggeeOK'
  BY DEF IInv, ContinueDebugEvent, TypeOK, EngineOK, DebuggeeOK, NoEvent, Byte, flags, stepping,
      threads, history
<1>4. Stages'
  BY DEF IInv, ContinueDebugEvent, TypeOK, LoopOK, DebuggeeOK, Stages, Debugged, NoEvent, Event,
      Byte, flags, stepping, threads, history
<1>5. Bytes'
  BY DEF IInv, ContinueDebugEvent, TypeOK, EngineOK, DebuggeeOK, Stages, Bytes, BytesAreKnown,
      Debugged, Enabled, NoEvent, Byte, flags, stepping, threads, history
<1>6. TrapsAreArmed'
  BY DEF IInv, ContinueDebugEvent, TypeOK, EngineOK, DebuggeeOK, Stages, Bytes, TrapsAreArmed,
      Debugged, NoEvent, Byte, flags, stepping, threads, history
<1>7. Waiting'
  BY DEF IInv, ContinueDebugEvent, TypeOK, EngineOK, DebuggeeOK, Stages, Bytes, BytesAreKnown,
      Waiting, Debugged, Enabled, NoEvent, Byte, flags, stepping, threads, history
<1>8. NobodyIsStray'
  BY DEF IInv, ContinueDebugEvent, TypeOK, EngineOK, DebuggeeOK, Stages, Waiting, NobodyIsStray,
      Debugged, Enabled, NoEvent, Byte, flags, stepping, threads, history
<1> QED  BY <1>1, <1>2, <1>3, <1>4, <1>5, <1>6, <1>7, <1>8 DEF IInv, TypeOK

LEMMA AttachStep ==
  ASSUME IInv, NEW m \in {"normal", "stealth"}, NEW installs \in BOOLEAN, Attach(m, installs)
  PROVE  IInv'
<1>1. EngineOK'
  <2>1. icb' \in BOOLEAN /\ mode' \in {"normal", "stealth"}
    BY DEF IInv, TypeOK, EngineOK, Attach
  <2>2. commands' \in 0..MaxCommands
    BY BoundsAssumption DEF IInv, TypeOK, EngineOK, Attach, Command
  <2>3. /\ attached' \in BOOLEAN /\ running' \in BOOLEAN /\ shutdown' \in BOOLEAN
        /\ shouldBreak' \in BOOLEAN
        /\ ui' \in {"idle", "joining", "going", "trapping", "stepping", "terminated"}
    BY DEF IInv, TypeOK, EngineOK, Attach, flags
  <2> QED  BY <2>1, <2>2, <2>3 DEF IInv, TypeOK, EngineOK, Attach, stepping
<1>2. LoopOK'
  BY DEF IInv, Attach, TypeOK, EngineOK, LoopOK, Command, Event, Byte, flags, stepping, threads
<1>3. DebuggeeOK'
  BY DEF IInv, Attach, TypeOK, EngineOK, DebuggeeOK, Command, Byte, flags, stepping, threads
<1>4. Stages'
  BY DEF IInv, Attach, TypeOK, LoopOK, DebuggeeOK, Stages, Command, Debugged, Event, Byte,
      flags, stepping, threads
<1>5. Bytes'
  <2>1. UNCHANGED <<alive, mem, bps>> /\ alive /\ ~Debugged
    BY DEF Attach, Command, Debugged
  <2>2. hooked => hooked'
    BY DEF Attach
  <2>3. hooked \/ \A a \in Addrs : mem[a] = "own"
    BY <2>1 DEF IInv, Bytes
  <2>4. CASE loop = "ended"
    <3>1. UNCHANGED <<attached, icb, hooked>> /\ ui' = "terminated"
      BY <2>4 DEF Attach, flags
    <3>2. ~Debugged'
      BY <3>1, <2>1 DEF Debugged
    <3> QED  BY <2>1, <2>3, <3>1, <3>2 DEF Bytes, BytesAreKnown
  <2>5. CASE loop # "ended"
    <3>1. DOMAIN bps = {}
      BY <2>1, <2>5 DEF IInv, TypeOK, LoopOK, Stages, Debugged
    <3>2. icb' => hooked'
      BY <2>5 DEF Attach
    <3> QED  BY <2>1, <2>2, <2>3, <2>5, <3>1, <3>2
             DEF IInv, TypeOK, EngineOK, Attach, Bytes, BytesAreKnown, Debugged
  <2> QED  BY <2>4, <2>5
<1>6. TrapsAreArmed'
  <2>1. CASE loop = "ended"
    BY <2>1 DEF IInv, TypeOK, LoopOK, Attach, TrapsAreArmed, flags
  <2>2. CASE loop # "ended"
    BY <2>2 DEF IInv, TypeOK, LoopOK, Stages, Attach, TrapsAreArmed
  <2> QED  BY <2>1, <2>2
<1>7. Waiting'
  BY DEF IInv, Attach, TypeOK, EngineOK, DebuggeeOK, Stages, Bytes, BytesAreKnown, Waiting,
      Command, Debugged, Enabled, Byte, flags, stepping, threads
<1>8. NobodyIsStray'
  BY DEF IInv, Attach, TypeOK, EngineOK, DebuggeeOK, Stages, Waiting, NobodyIsStray, Command,
      Debugged, Enabled, Byte, flags, stepping, threads
<1> QED  BY <1>1, <1>2, <1>3, <1>4, <1>5, <1>6, <1>7, <1>8 DEF IInv, TypeOK

LEMMA DetachStep ==
  ASSUME IInv, Detach
  PROVE  IInv'
<1>1. EngineOK'
  BY BoundsAssumption DEF IInv, Detach, TypeOK, EngineOK, Command, Resumed, Byte, stepping,
      history
<1>2. LoopOK'
  BY DEF IInv, Detach, TypeOK, EngineOK, LoopOK, Command, Resumed, Event, Byte, stepping,
      history
<1>3. DebuggeeOK'
  BY BoundsAssumption DEF IInv, Detach, TypeOK, EngineOK, DebuggeeOK, Command, Resumed, Byte,
      stepping, history
<1>4. Stages'
  BY DEF IInv, Detach, TypeOK, LoopOK, DebuggeeOK, Stages, Command, Resumed, Debugged, Event,
      Byte, stepping, history
<1>5. Bytes'
  BY DEF IInv, Detach, TypeOK, EngineOK, DebuggeeOK, Stages, Bytes, BytesAreKnown, Command,
      Resumed, Debugged, Enabled, Byte, stepping, history
<1>6. TrapsAreArmed'
  BY DEF IInv, Detach, TypeOK, EngineOK, DebuggeeOK, Stages, Bytes, TrapsAreArmed, Command,
      Resumed, Debugged, Byte, stepping, history
<1>7. Waiting'
  BY DEF IInv, Detach, TypeOK, EngineOK, DebuggeeOK, Stages, Bytes, BytesAreKnown, Waiting,
      Command, Resumed, Debugged, Enabled, Byte, stepping, history
<1>8. NobodyIsStray'
  BY DEF IInv, Detach, TypeOK, EngineOK, DebuggeeOK, Stages, Waiting, NobodyIsStray, Command,
      Resumed, Debugged, Enabled, Byte, stepping, history
<1> QED  BY <1>1, <1>2, <1>3, <1>4, <1>5, <1>6, <1>7, <1>8 DEF IInv, TypeOK

LEMMA DetachJoinedStep ==
  ASSUME IInv, DetachJoined
  PROVE  IInv'
<1>1. EngineOK'
  BY DEF IInv, DetachJoined, Survives, TypeOK, EngineOK, Gone, All, Enabled, Byte, stepping, threads,
      history
<1>2. LoopOK'
  BY DEF IInv, DetachJoined, Survives, TypeOK, EngineOK, LoopOK, Gone, All, Enabled, Event, Byte,
      stepping, threads, history
<1>3. DebuggeeOK'
  <2>1. CASE Survives
    <3>1. \A a \in Addrs : Enabled(a) => bps[a].orig \in Byte
      BY DEF IInv, TypeOK, EngineOK, Enabled
    <3>2. mem' \in [Addrs -> Byte]
      BY <2>1, <3>1 DEF IInv, TypeOK, DebuggeeOK, DetachJoined
    <3>3. spin' \in [Threads -> {"no", "in", "freed"}] /\ hit' \in Addrs \union {0}
      BY <2>1 DEF IInv, TypeOK, DebuggeeOK, DetachJoined
    <3> QED  BY <2>1, <3>2, <3>3 DEF IInv, TypeOK, DebuggeeOK, DetachJoined, history
  <2>2. CASE ~Survives
    BY <2>2, GoneOK DEF DetachJoined
  <2> QED  BY <2>1, <2>2
<1>4. Stages'
  BY DEF IInv, DetachJoined, Survives, TypeOK, LoopOK, DebuggeeOK, Stages, Gone, All, Debugged, Enabled,
      Event, Byte, stepping, threads, history
<1>5. Bytes'
  <2>1. CASE Survives
    <3>1. BytesAreKnown /\ hooked' = hooked /\ bps' = [a \in {} |-> 0] /\ icb' = FALSE /\ ~Debugged'
      BY <2>1 DEF IInv, Bytes, DetachJoined, Debugged, history
    <3>2. ~hooked => \A a \in Addrs : mem'[a] = "own"
      <4>1. mem' = [a \in Addrs |-> IF Enabled(a) THEN bps[a].orig ELSE mem[a]]
        BY <2>1 DEF DetachJoined
      <4>2. alive /\ Debugged /\ ~hooked => \A a \in DOMAIN bps : bps[a].orig = "own"
        BY DEF IInv, Bytes
      <4>3. alive /\ Debugged
        BY <2>1 DEF Survives, DetachJoined, Debugged
      <4> QED  BY <3>1, <4>1, <4>2, <4>3 DEF BytesAreKnown, Enabled
    <3> QED  BY <3>1, <3>2 DEF Bytes, BytesAreKnown
  <2>2. CASE ~Survives
    <3>1. Gone /\ bps' = [a \in {} |-> 0] /\ ~Debugged'
      BY <2>2 DEF DetachJoined, Debugged
    <3>2. \A a \in Addrs : mem'[a] = "own"
      BY <3>1 DEF Gone
    <3> QED  BY <3>1, <3>2 DEF Bytes, BytesAreKnown, Gone
  <2> QED  BY <2>1, <2>2
<1>6. TrapsAreArmed'
  BY DEF IInv, DetachJoined, Survives, TypeOK, EngineOK, DebuggeeOK, Stages, Bytes, TrapsAreArmed, Gone,
      All, Debugged, Enabled, Byte, stepping, threads, history
<1>7. Waiting'
  BY DEF IInv, DetachJoined, Survives, TypeOK, EngineOK, DebuggeeOK, Stages, Bytes, BytesAreKnown,
      Waiting, Gone, All, Debugged, Enabled, Byte, stepping, threads, history
<1>8. NobodyIsStray'
  <2>1. CASE Survives
    BY <2>1 DEF IInv, DetachJoined, NobodyIsStray, history
  <2>2. CASE ~Survives
    BY <2>2 DEF DetachJoined, NobodyIsStray, Gone
  <2> QED  BY <2>1, <2>2
<1> QED  BY <1>1, <1>2, <1>3, <1>4, <1>5, <1>6, <1>7, <1>8 DEF IInv, TypeOK

LEMMA RunStep ==
  ASSUME IInv, Run
  PROVE  IInv'
<1>1. EngineOK'
  <2>1. commands' \in 0..MaxCommands
    BY BoundsAssumption DEF IInv, TypeOK, EngineOK, Run, Command
  <2> QED  BY <2>1 DEF IInv, TypeOK, EngineOK, Run, stepping
<1>2. LoopOK'
  BY DEF IInv, Run, TypeOK, EngineOK, LoopOK, Command, Resumed, Event, Byte, stepping, history
<1>3. DebuggeeOK'
  BY BoundsAssumption DEF IInv, Run, TypeOK, EngineOK, DebuggeeOK, Command, Resumed, Byte,
      stepping, history
<1>4. Stages'
  BY DEF IInv, Run, TypeOK, LoopOK, DebuggeeOK, Stages, Command, Resumed, Debugged, Event, Byte,
      stepping, history
<1>5. Bytes'
  BY DEF IInv, Run, TypeOK, EngineOK, DebuggeeOK, Stages, Bytes, BytesAreKnown, Command,
      Resumed, Debugged, Enabled, Byte, stepping, history
<1>6. TrapsAreArmed'
  BY DEF IInv, Run, TypeOK, EngineOK, DebuggeeOK, Stages, Bytes, TrapsAreArmed, Command,
      Resumed, Debugged, Byte, stepping, history
<1>7. Waiting'
  BY DEF IInv, Run, TypeOK, EngineOK, DebuggeeOK, Stages, Bytes, BytesAreKnown, Waiting,
      Command, Resumed, Debugged, Enabled, Byte, stepping, history
<1>8. NobodyIsStray'
  BY DEF IInv, Run, TypeOK, EngineOK, DebuggeeOK, Stages, Waiting, NobodyIsStray, Command,
      Resumed, Debugged, Enabled, Byte, stepping, history
<1> QED  BY <1>1, <1>2, <1>3, <1>4, <1>5, <1>6, <1>7, <1>8 DEF IInv, TypeOK

LEMMA GoingStep ==
  ASSUME IInv, Going
  PROVE  IInv'
<1>1. EngineOK'
  BY DEF IInv, Going, TypeOK, EngineOK, Byte, stepping, threads, history
<1>2. LoopOK'
  BY DEF IInv, Going, TypeOK, EngineOK, LoopOK, Event, Byte, stepping, threads, history
<1>3. DebuggeeOK'
  BY DEF IInv, Going, TypeOK, EngineOK, DebuggeeOK, Byte, stepping, threads, history
<1>4. Stages'
  BY DEF IInv, Going, TypeOK, LoopOK, DebuggeeOK, Stages, Debugged, Event, Byte, stepping,
      threads, history
<1>5. Bytes'
  BY DEF IInv, Going, TypeOK, EngineOK, DebuggeeOK, Stages, Bytes, BytesAreKnown, Debugged,
      Enabled, Byte, stepping, threads, history
<1>6. TrapsAreArmed'
  BY DEF IInv, Going, TypeOK, EngineOK, DebuggeeOK, Stages, Bytes, TrapsAreArmed, Debugged,
      Byte, stepping, threads, history
<1>7. Waiting'
  BY DEF IInv, Going, TypeOK, EngineOK, DebuggeeOK, Stages, Bytes, BytesAreKnown, Waiting,
      Debugged, Enabled, Byte, stepping, threads, history
<1>8. NobodyIsStray'
  BY DEF IInv, Going, TypeOK, EngineOK, DebuggeeOK, Stages, Waiting, NobodyIsStray, Debugged,
      Enabled, Byte, stepping, threads, history
<1> QED  BY <1>1, <1>2, <1>3, <1>4, <1>5, <1>6, <1>7, <1>8 DEF IInv, TypeOK

LEMMA PauseStep ==
  ASSUME IInv, Pause
  PROVE  IInv'
<1>1. EngineOK'
  <2>1. commands' \in 0..MaxCommands
    BY BoundsAssumption DEF IInv, TypeOK, EngineOK, Pause, Command
  <2>2. suspended' \subseteq Threads /\ active' \in Threads \union {NoThread}
    BY DEF Pause
  <2> QED  BY <2>1, <2>2 DEF IInv, TypeOK, EngineOK, Pause, Command
<1>2. LoopOK'
  BY DEF IInv, Pause, TypeOK, EngineOK, LoopOK, Command, Suspended, Event, Byte, stepping
<1>3. DebuggeeOK'
  <2>1. DebuggeeOK /\ susp' = Suspended /\ unrecorded' = Lost(suspended)
    BY DEF IInv, TypeOK, Pause
  <2>2. susp' \in [Threads -> 0..MaxSuspend] /\ unrecorded' \in [Threads -> Nat]
    BY <2>1, SuspensionsOK
  <2> QED  BY <2>1, <2>2 DEF Pause, DebuggeeOK
<1>4. Stages'
  BY DEF IInv, Pause, TypeOK, LoopOK, DebuggeeOK, Stages, Command, Suspended, Debugged, Event,
      Byte
<1>5. Bytes'
  BY DEF IInv, Pause, TypeOK, EngineOK, DebuggeeOK, Stages, Bytes, BytesAreKnown, Command,
      Suspended, Debugged, Enabled, Byte, stepping
<1>6. TrapsAreArmed'
  BY DEF IInv, Pause, TypeOK, EngineOK, DebuggeeOK, Stages, Bytes, TrapsAreArmed, Command,
      Suspended, Debugged, Byte, stepping
<1>7. Waiting'
  BY DEF IInv, Pause, TypeOK, EngineOK, DebuggeeOK, Stages, Bytes, BytesAreKnown, Waiting,
      Command, Suspended, Debugged, Enabled, Byte, stepping
<1>8. NobodyIsStray'
  BY DEF IInv, Pause, TypeOK, EngineOK, DebuggeeOK, Stages, Waiting, NobodyIsStray, Command,
      Suspended, Debugged, Enabled, Byte, stepping
<1> QED  BY <1>1, <1>2, <1>3, <1>4, <1>5, <1>6, <1>7, <1>8 DEF IInv, TypeOK

LEMMA StepStep ==
  ASSUME IInv, Step
  PROVE  IInv'
<1>1. EngineOK'
  <2>1. commands' \in 0..MaxCommands
    BY BoundsAssumption DEF IInv, TypeOK, EngineOK, Step, Command
  <2>2. CASE StepMark
    BY <2>1, <2>2 DEF IInv, TypeOK, EngineOK, Step, StepMark, flags
  <2>3. ASSUME NEW a \in Addrs, StepTo(a) PROVE EngineOK'
    <3>1. BpsOK'
      BY <2>3, SetOK DEF StepTo
    <3> QED  BY <2>1, <2>3, <3>1 DEF IInv, TypeOK, EngineOK, BpsOK, Step, StepTo, flags
  <2> QED  BY <2>2, <2>3, StepCases
<1>2. LoopOK'
  BY DEF IInv, Step, TypeOK, EngineOK, LoopOK, Command, StepMark, StepTo, Set, Put, HasHandle,
      AtCall, Event, Byte, flags, stepping, threads, history
<1>3. DebuggeeOK'
  <2>1. CASE StepMark
    BY <2>1 DEF IInv, TypeOK, DebuggeeOK, Step, StepMark, threads, history
  <2>2. ASSUME NEW a \in Addrs, StepTo(a) PROVE DebuggeeOK'
    <3>1. Set(a) /\ Debugged
      BY <2>2 DEF Step, StepTo, Debugged
    <3> QED  BY <2>2, <3>1, SetOK
             DEF IInv, TypeOK, DebuggeeOK, Step, threads, history
  <2> QED  BY <2>1, <2>2, StepCases
<1>4. Stages'
  BY DEF IInv, Step, TypeOK, LoopOK, DebuggeeOK, Stages, Command, StepMark, StepTo, Set, Put,
      HasHandle, AtCall, Debugged, Event, Byte, flags, stepping, threads, history
<1>5. Bytes'
  <2>1. CASE StepMark
    BY <2>1 DEF IInv, Bytes, BytesAreKnown, Step, StepMark, Enabled, Debugged, flags, history
  <2>2. ASSUME NEW a \in Addrs, StepTo(a) PROVE Bytes'
    <3>1. Set(a) /\ Debugged
      BY <2>2 DEF Step, StepTo, Debugged
    <3> QED  BY <2>2, <3>1, SetKeeps
             DEF IInv, Bytes, Step, StepTo, Debugged, flags, threads, history
  <2> QED  BY <2>1, <2>2, StepCases
<1>6. TrapsAreArmed'
  <2>1. CASE StepMark
    BY <2>1 DEF IInv, TrapsAreArmed, Step, StepMark, flags, threads, history
  <2>2. ASSUME NEW a \in Addrs, StepTo(a) PROVE TrapsAreArmed'
    <3>1. Set(a) /\ Debugged
      BY <2>2 DEF Step, StepTo, Debugged
    <3> QED  BY <2>2, <3>1, SetKeeps
             DEF IInv, Bytes, TrapsAreArmed, Step, Debugged, flags, threads, history
  <2> QED  BY <2>1, <2>2, StepCases
<1>7. Waiting'
  <2>1. CASE StepMark
    BY <2>1 DEF IInv, Waiting, Step, StepMark, Enabled, flags, threads, history
  <2>2. ASSUME NEW a \in Addrs, StepTo(a) PROVE Waiting'
    <3>1. Set(a) /\ Debugged
      BY <2>2 DEF Step, StepTo, Debugged
    <3> QED  BY <2>2, <3>1, SetKeeps
             DEF IInv, Waiting, Enabled, Step, flags, threads, history
  <2> QED  BY <2>1, <2>2, StepCases
<1>8. NobodyIsStray'
  BY DEF IInv, Step, TypeOK, EngineOK, DebuggeeOK, Stages, Waiting, NobodyIsStray, Command,
      StepMark, StepTo, Set, Put, HasHandle, AtCall, Debugged, Enabled, Byte, flags, stepping,
      threads, history
<1> QED  BY <1>1, <1>2, <1>3, <1>4, <1>5, <1>6, <1>7, <1>8 DEF IInv, TypeOK

LEMMA StepTrapStep ==
  ASSUME IInv, StepTrap
  PROVE  IInv'
<1>1. EngineOK'
  BY DEF IInv, StepTrap, TypeOK, EngineOK, HasHandle, Byte, flags, stepping, history
<1>2. LoopOK'
  BY DEF IInv, StepTrap, TypeOK, EngineOK, LoopOK, HasHandle, Event, Byte, flags, stepping,
      history
<1>3. DebuggeeOK'
  BY DEF IInv, StepTrap, TypeOK, EngineOK, DebuggeeOK, HasHandle, Byte, flags, stepping, history
<1>4. Stages'
  BY DEF IInv, StepTrap, TypeOK, LoopOK, DebuggeeOK, Stages, HasHandle, Debugged, Event, Byte,
      flags, stepping, history
<1>5. Bytes'
  BY DEF IInv, StepTrap, TypeOK, EngineOK, DebuggeeOK, Stages, Bytes, BytesAreKnown, HasHandle,
      Debugged, Enabled, Byte, flags, stepping, history
<1>6. TrapsAreArmed'
  BY DEF IInv, StepTrap, TypeOK, EngineOK, DebuggeeOK, Stages, Bytes, TrapsAreArmed, HasHandle,
      Debugged, Byte, flags, stepping, history
<1>7. Waiting'
  BY DEF IInv, StepTrap, TypeOK, EngineOK, DebuggeeOK, Stages, Bytes, BytesAreKnown, Waiting,
      HasHandle, Debugged, Enabled, Byte, flags, stepping, history
<1>8. NobodyIsStray'
  BY DEF IInv, StepTrap, TypeOK, EngineOK, DebuggeeOK, Stages, Waiting, NobodyIsStray,
      HasHandle, Debugged, Enabled, Byte, flags, stepping, history
<1> QED  BY <1>1, <1>2, <1>3, <1>4, <1>5, <1>6, <1>7, <1>8 DEF IInv, TypeOK

LEMMA SetBreakpointStep ==
  ASSUME IInv, NEW a \in Addrs, SetBreakpoint(a)
  PROVE  IInv'
<1>1. EngineOK'
  <2>1. commands' \in 0..MaxCommands
    BY BoundsAssumption DEF IInv, TypeOK, EngineOK, SetBreakpoint, Command
  <2>2. BpsOK'
    BY SetOK DEF IInv, SetBreakpoint
  <2> QED  BY <2>1, <2>2 DEF IInv, TypeOK, EngineOK, BpsOK, SetBreakpoint, Command, flags, stepping
<1>2. LoopOK'
  BY DEF IInv, SetBreakpoint, TypeOK, EngineOK, LoopOK, Command, Set, Put, Event, Byte, flags,
      stepping, threads, history
<1>3. DebuggeeOK'
  BY DEF IInv, SetBreakpoint, TypeOK, EngineOK, DebuggeeOK, Command, Set, Put, Byte, flags,
      stepping, threads, history
<1>4. Stages'
  BY DEF IInv, SetBreakpoint, TypeOK, LoopOK, DebuggeeOK, Stages, Command, Set, Put, Debugged,
      Event, Byte, flags, stepping, threads, history
<1>5. Bytes'
  BY DEF IInv, SetBreakpoint, TypeOK, EngineOK, DebuggeeOK, Stages, Bytes, BytesAreKnown,
      Command, Set, Put, Debugged, Enabled, Byte, flags, stepping, threads, history
<1>6. TrapsAreArmed'
  BY DEF IInv, SetBreakpoint, TypeOK, EngineOK, DebuggeeOK, Stages, Bytes, TrapsAreArmed,
      Command, Set, Put, Debugged, Byte, flags, stepping, threads, history
<1>7. Waiting'
  BY DEF IInv, SetBreakpoint, TypeOK, EngineOK, DebuggeeOK, Stages, Bytes, BytesAreKnown,
      Waiting, Command, Set, Put, Debugged, Enabled, Byte, flags, stepping, threads, history
<1>8. NobodyIsStray'
  BY DEF IInv, SetBreakpoint, TypeOK, EngineOK, DebuggeeOK, Stages, Waiting, NobodyIsStray,
      Command, Set, Put, Debugged, Enabled, Byte, flags, stepping, threads, history
<1> QED  BY <1>1, <1>2, <1>3, <1>4, <1>5, <1>6, <1>7, <1>8 DEF IInv, TypeOK

LEMMA RemoveBreakpointStep ==
  ASSUME IInv, NEW a \in Addrs, RemoveBreakpoint(a)
  PROVE  IInv'
<1>1. EngineOK'
  BY BoundsAssumption DEF IInv, RemoveBreakpoint, TypeOK, EngineOK, Command, WaitsAt, Debugged,
      Byte, flags, stepping, threads
<1>2. LoopOK'
  BY DEF IInv, RemoveBreakpoint, TypeOK, EngineOK, LoopOK, Command, WaitsAt, Debugged, Event,
      Byte, flags, stepping, threads
<1>3. DebuggeeOK'
  BY DEF IInv, RemoveBreakpoint, TypeOK, EngineOK, DebuggeeOK, Command, WaitsAt, Debugged, Byte,
      flags, stepping, threads
<1>4. Stages'
  BY DEF IInv, RemoveBreakpoint, TypeOK, LoopOK, DebuggeeOK, Stages, Command, WaitsAt, Debugged,
      Event, Byte, flags, stepping, threads
<1>5. Bytes'
  BY DEF IInv, RemoveBreakpoint, TypeOK, EngineOK, DebuggeeOK, Stages, Bytes, BytesAreKnown,
      Command, WaitsAt, Debugged, Enabled, Byte, flags, stepping, threads
<1>6. TrapsAreArmed'
  BY DEF IInv, RemoveBreakpoint, TypeOK, EngineOK, DebuggeeOK, Stages, Bytes, TrapsAreArmed,
      Command, WaitsAt, Debugged, Byte, flags, stepping, threads
<1>7. Waiting'
  BY DEF IInv, RemoveBreakpoint, TypeOK, EngineOK, DebuggeeOK, Stages, Bytes, BytesAreKnown,
      Waiting, Command, WaitsAt, Debugged, Enabled, Byte, flags, stepping, threads
<1>8. NobodyIsStray'
  BY DEF IInv, RemoveBreakpoint, TypeOK, EngineOK, DebuggeeOK, Stages, Waiting, NobodyIsStray,
      Command, WaitsAt, Debugged, Enabled, Byte, flags, stepping, threads
<1> QED  BY <1>1, <1>2, <1>3, <1>4, <1>5, <1>6, <1>7, <1>8 DEF IInv, TypeOK

LEMMA PollHitStep ==
  ASSUME IInv, PollHit
  PROVE  IInv'
<1>1. EngineOK'
  BY DEF IInv, PollHit, TypeOK, EngineOK, Suspended, Byte, stepping
<1>2. LoopOK'
  BY DEF IInv, PollHit, TypeOK, EngineOK, LoopOK, Suspended, Event, Byte, stepping
<1>3. DebuggeeOK'
  <2>1. DebuggeeOK /\ susp' = Suspended /\ unrecorded' = Lost(Threads)
    BY DEF IInv, TypeOK, PollHit
  <2>2. susp' \in [Threads -> 0..MaxSuspend] /\ unrecorded' \in [Threads -> Nat]
    BY <2>1, SuspensionsOK
  <2> QED  BY <2>1, <2>2 DEF PollHit, DebuggeeOK
<1>4. Stages'
  BY DEF IInv, PollHit, TypeOK, LoopOK, DebuggeeOK, Stages, Suspended, Debugged, Event, Byte
<1>5. Bytes'
  BY DEF IInv, PollHit, TypeOK, EngineOK, DebuggeeOK, Stages, Bytes, BytesAreKnown, Suspended,
      Debugged, Enabled, Byte, stepping
<1>6. TrapsAreArmed'
  BY DEF IInv, PollHit, TypeOK, EngineOK, DebuggeeOK, Stages, Bytes, TrapsAreArmed, Suspended,
      Debugged, Byte, stepping
<1>7. Waiting'
  BY DEF IInv, PollHit, TypeOK, EngineOK, DebuggeeOK, Stages, Bytes, BytesAreKnown, Waiting,
      Suspended, Debugged, Enabled, Byte, stepping
<1>8. NobodyIsStray'
  BY DEF IInv, PollHit, TypeOK, EngineOK, DebuggeeOK, Stages, Waiting, NobodyIsStray, Suspended,
      Debugged, Enabled, Byte, stepping
<1> QED  BY <1>1, <1>2, <1>3, <1>4, <1>5, <1>6, <1>7, <1>8 DEF IInv, TypeOK
-----------------------------------------------------------------------------
(* Before the first command: no breakpoint, no event, the program untouched.  *)
LEMMA InitHolds ==
  ASSUME Init
  PROVE  IInv
<1>1. EngineOK
  <2>1. DOMAIN bps = {} /\ suspended = {}
    BY DEF Init
  <2>2. commands \in 0..MaxCommands
    BY BoundsAssumption DEF Init
  <2> QED  BY <2>1, <2>2 DEF Init, EngineOK
<1>2. LoopOK
  BY DEF Init, LoopOK, NoEvent, Event
<1>3. DebuggeeOK
  <2>1. mem \in [Addrs -> Byte] /\ hit = 0
    BY DEF Init, Byte
  <2>2. /\ past \in [Threads -> BOOLEAN] /\ tf \in [Threads -> BOOLEAN]
        /\ spin \in [Threads -> {"no", "in", "freed"}]
        /\ due \in [Threads -> {"none", "int3", "step"}]
    BY DEF Init, All
  <2>3. susp \in [Threads -> 0..MaxSuspend]
    BY BoundsAssumption DEF Init, All
  <2>4. pc \in [Threads -> Addrs \union {0}]
    BY DEF Init
  <2>5. unrecorded \in [Threads -> Nat]
    BY DEF Init, All
  <2> QED  BY <2>1, <2>2, <2>3, <2>4, <2>5 DEF Init, DebuggeeOK
<1>4. Stages
  BY DEF Init, Stages, NoEvent, All, Debugged
<1>5. Bytes /\ TrapsAreArmed
  BY DEF Init, Bytes, BytesAreKnown, TrapsAreArmed
<1>6. Waiting /\ NobodyIsStray
  BY DEF Init, Waiting, NobodyIsStray, All
<1> QED  BY <1>1, <1>2, <1>3, <1>4, <1>5, <1>6 DEF IInv, TypeOK

(* A step that changes nothing.                                            *)
LEMMA StutterHolds ==
  ASSUME IInv, UNCHANGED vars
  PROVE  IInv'
<1> USE DEF vars, flags, stepping, threads, history
<1>1. TypeOK'
  BY DEF IInv, TypeOK, EngineOK, LoopOK, DebuggeeOK
<1>2. Stages'
  BY DEF IInv, Stages, Debugged
<1>3. Bytes' /\ TrapsAreArmed'
  BY DEF IInv, Bytes, BytesAreKnown, TrapsAreArmed, Debugged, Enabled
<1>4. Waiting' /\ NobodyIsStray'
  BY DEF IInv, Waiting, NobodyIsStray, Enabled
<1> QED  BY <1>1, <1>2, <1>3, <1>4 DEF IInv

LEMMA NextHolds ==
  ASSUME IInv, Next
  PROVE  IInv'
<1>1. CASE Debuggee
  BY <1>1, ExecuteStep, TrapStep, LeaveCallbackStep, EndThreadStep, EndProcessStep,
     StartProcessStep DEF Debuggee
<1>2. CASE DebugLoop
  BY <1>2, LoopTestStep, TimeoutStep, WaitForDebugEventStep, InitialBreakpointStep,
     HandleBreakpointStep, HandleSingleStepStep, HandleExitStep, ContinueDebugEventStep
  DEF DebugLoop
<1>3. CASE User
  <2>1. CASE \E m \in {"normal", "stealth"}, installs \in BOOLEAN : Attach(m, installs)
    BY <2>1, AttachStep
  <2>2. CASE Detach \/ DetachJoined
    BY <2>2, DetachStep, DetachJoinedStep
  <2>3. CASE Run \/ Going \/ Pause \/ Step \/ StepTrap
    BY <2>3, RunStep, GoingStep, PauseStep, StepStep, StepTrapStep
  <2>4. CASE \E a \in Addrs : SetBreakpoint(a) \/ RemoveBreakpoint(a)
    BY <2>4, SetBreakpointStep, RemoveBreakpointStep
  <2>5. CASE PollHit
    BY <2>5, PollHitStep
  <2> QED  BY <1>3, <2>1, <2>2, <2>3, <2>4, <2>5 DEF User
<1> QED  BY <1>1, <1>2, <1>3 DEF Next

(* The invariant holds of the debugger in every state.                     *)
THEOREM DebuggerHolds == Spec => []IInv
<1>1. Init => IInv
  BY InitHolds
<1>2. IInv /\ [Next]_vars => IInv'
  BY NextHolds, StutterHolds
<1> QED  BY <1>1, <1>2, PTL DEF Spec

(* Every variable keeps its type, and attached_ says whether the loop's       *)
(* thread is there: it is cleared by debug_loop as it leaves, never before.   *)
THEOREM TypeCorrect == Spec => []TypeOK
<1>1. IInv => TypeOK
  BY DEF IInv
<1> QED  BY <1>1, DebuggerHolds, PTL

(* set_breakpoint, remove_breakpoint, the steps, the hits and detach between  *)
(* them never lose the byte of the program under a trap.                    *)
THEOREM BytesStayKnown == Spec => []BytesAreKnown
<1>1. IInv => BytesAreKnown
  BY DEF IInv, Bytes
<1> QED  BY <1>1, DebuggerHolds, PTL

(* handle_breakpoint_hit takes the trap away and handle_single_step arms it   *)
(* again, whichever thread's step that is.                                 *)
THEOREM TrapsStayArmed == Spec => []TrapsAreArmed
<1>1. IInv => TrapsAreArmed
  BY DEF IInv
<1> QED  BY <1>1, DebuggerHolds, PTL

(* No thread goes on behind a trap without the instruction under it, but for  *)
(* those whose breakpoint the user removed, or another thread used up, while  *)
(* their hit waited to be handled.                                          *)
THEOREM NobodyStrays == Spec => []NobodyIsStray
<1>1. IInv => NobodyIsStray
  BY DEF IInv
<1> QED  BY <1>1, DebuggerHolds, PTL
-----------------------------------------------------------------------------
(* Suspend counts: a thread is suspended at most once for its entry in        *)
(* suspended_tids_ and for each suspension no entry stands for; without the   *)
(* former once detach has begun, and not at all when the process has ended.  *)
Recorded(t) == IF t \in suspended THEN 1 ELSE 0
Counts ==
  /\ \A t \in Threads : susp[t] <= Recorded(t) + unrecorded[t]
  /\ ~attached \/ ui = "joining" => \A t \in Threads : susp[t] <= unrecorded[t]
  /\ \A t \in Threads : pc[t] = 0 => susp[t] = 0
  /\ ~alive => \A t \in Threads : pc[t] = 0

\* what run and detach resume
LEMMA ResumedAll ==
  ASSUME DebuggeeOK, Counts, susp' = Resumed
  PROVE  /\ \A t \in Threads : susp'[t] <= unrecorded[t]
         /\ \A t \in Threads : pc[t] = 0 => susp'[t] = 0
<1>1. \A t \in Threads : susp'[t] = IF t \in suspended /\ susp[t] > 0 THEN susp[t] - 1 ELSE susp[t]
  BY DEF Resumed
<1>2. \A t \in Threads : susp[t] \in Nat /\ unrecorded[t] \in Nat
  BY BoundsAssumption DEF DebuggeeOK
<1> QED  BY <1>1, <1>2 DEF Counts, Recorded

LEMMA GoneCounts ==
  ASSUME Gone
  PROVE  Counts'
<1>1. \A t \in Threads : susp'[t] = 0 /\ pc'[t] = 0 /\ unrecorded'[t] = 0
  BY DEF Gone, All
<1>2. \A t \in Threads : Recorded(t)' \in {0, 1}
  BY DEF Recorded
<1> QED  BY <1>1, <1>2 DEF Counts

LEMMA CountsHold == Spec => []Counts
<1> USE DEF flags, stepping, history, threads
<1>1. Init => Counts
  BY DEF Init, All, Counts, Recorded
<1>2. ASSUME IInv, Counts, [Next]_vars PROVE Counts'
  <2> USE <1>2
  <2>0. DebuggeeOK /\ Stages /\ attached \in BOOLEAN /\ (attached <=> loop \notin {"none", "ended"})
    BY DEF IInv, TypeOK, EngineOK, LoopOK
  <2>1. ASSUME UNCHANGED <<unrecorded, susp, suspended, alive, attached, ui, pc>> PROVE Counts'
    BY <2>1 DEF Counts, Recorded
  <2>2. ASSUME NEW t \in Threads, Execute(t) PROVE Counts'
    BY <2>2 DEF Execute, Runs, Counts, Recorded
  <2>3. ASSUME NEW t \in Threads, Trap(t) \/ LeaveCallback(t) PROVE Counts'
    BY <2>1, <2>3 DEF Trap, LeaveCallback
  <2>4. ASSUME NEW t \in Threads, EndThread(t) PROVE Counts'
    BY <2>4 DEF EndThread, Runs, Counts, Recorded
  <2>5. CASE EndProcess
    BY <2>5, GoneCounts DEF EndProcess
  <2>6. CASE StartProcess
    BY <2>6 DEF StartProcess, Counts, Recorded
  <2>7. CASE LoopTest
    <3>1. UNCHANGED <<unrecorded, susp, suspended, alive, ui, pc>>
      BY <2>7 DEF LoopTest
    <3>2. CASE ~shutdown
      BY <2>1, <2>7, <3>1, <3>2 DEF LoopTest
    <3>3. CASE shutdown
      <4>1. attached /\ (ui # "joining" => ~alive)
        BY <2>0, <2>7, <3>3 DEF LoopTest, Stages
      <4>2. \A t \in Threads : unrecorded[t] \in Nat
        BY <2>0 DEF DebuggeeOK
      <4>3. \A t \in Threads : susp[t] <= unrecorded[t]
        BY <4>1, <4>2 DEF Counts
      <4>4. \A t \in Threads : Recorded(t)' = Recorded(t)
        BY <3>1 DEF Recorded
      <4> QED  BY <3>1, <4>3, <4>4 DEF Counts
    <3> QED  BY <3>2, <3>3
  <2>8. CASE Timeout \/ WaitForDebugEvent \/ InitialBreakpoint \/ HandleExit \/ ContinueDebugEvent
    BY <2>1, <2>8 DEF Timeout, WaitForDebugEvent, InitialBreakpoint, HandleExit, ContinueDebugEvent
  <2>9. CASE HandleBreakpoint \/ HandleSingleStep
    BY <2>1, <2>9 DEF HandleBreakpoint, HandleSingleStep
  <2>10. ASSUME NEW m, NEW installs, Attach(m, installs) PROVE Counts'
    <3>1. UNCHANGED <<unrecorded, susp, suspended, alive, pc>> /\ ~attached /\ ui' # "joining"
      BY <2>10 DEF Attach, Command
    <3> QED  BY <3>1 DEF Counts, Recorded
  <2>11. CASE Detach \/ Run
    <3>1. susp' = Resumed /\ suspended' = {} /\ UNCHANGED <<unrecorded, alive, pc>>
      BY <2>11 DEF Detach, Run
    <3>2. /\ \A t \in Threads : susp'[t] <= unrecorded[t]
          /\ \A t \in Threads : pc[t] = 0 => susp'[t] = 0
      BY <2>0, <3>1, ResumedAll
    <3>3. \A t \in Threads : susp'[t] \in Nat /\ unrecorded'[t] \in Nat
      BY <2>0, <3>1, BoundsAssumption DEF Resumed, DebuggeeOK
    <3>4. \A t \in Threads : Recorded(t)' = 0
      BY <3>1 DEF Recorded
    <3>5. \A t \in Threads : susp'[t] <= Recorded(t)' + unrecorded'[t]
      BY <3>1, <3>2, <3>3, <3>4
    <3>6. \A t \in Threads : susp'[t] <= unrecorded'[t]
      BY <3>1, <3>2
    <3>7. \A t \in Threads : pc'[t] = 0 => susp'[t] = 0
      BY <3>1, <3>2
    <3>8. ~alive' => \A t \in Threads : pc'[t] = 0
      BY <3>1 DEF Counts
    <3> QED  BY <3>5, <3>6, <3>7, <3>8 DEF Counts
  <2>12. CASE DetachJoined
    <3>1. CASE Gone
      BY <3>1, GoneCounts
    <3>2. CASE ~Gone
      <4>1. ui = "joining" /\ UNCHANGED <<unrecorded, susp, suspended, alive, pc>>
        BY <2>12, <3>2 DEF DetachJoined
      <4> QED  BY <4>1 DEF Counts, Recorded
    <3> QED  BY <3>1, <3>2
  <2>13. CASE Going \/ StepTrap
    <3>1. UNCHANGED <<unrecorded, susp, suspended, alive, attached, pc>> /\ ui' # "joining"
      BY <2>13 DEF Going, StepTrap
    <3> QED  BY <3>1 DEF Counts, Recorded
  <2>14. CASE Pause
    <3>1. /\ attached /\ ui # "joining" /\ UNCHANGED <<alive, attached, ui, pc>>
          /\ susp' = Suspended /\ unrecorded' = Lost(suspended)
      BY <2>14 DEF Pause, Command
    <3>2. suspended' = {t \in Threads : pc[t] # 0}
      BY <2>14 DEF Pause
    <3>3. \A t \in Threads :
            /\ susp'[t] = IF Suspendable(t) THEN susp[t] + 1 ELSE susp[t]
            /\ unrecorded'[t] = IF t \in suspended /\ Suspendable(t) THEN unrecorded[t] + 1 ELSE unrecorded[t]
            /\ susp[t] \in Nat /\ unrecorded[t] \in Nat
      BY <2>0, <3>1, BoundsAssumption DEF Suspended, Lost, DebuggeeOK
    <3>4. ASSUME NEW t \in Threads PROVE susp'[t] <= Recorded(t)' + unrecorded'[t]
      <4>1. CASE pc[t] = 0
        <5>1. susp'[t] = 0 /\ unrecorded'[t] = unrecorded[t]
          BY <3>3, <4>1 DEF Counts, Suspendable
        <5>2. Recorded(t)' \in {0, 1}
          BY DEF Recorded
        <5> QED  BY <3>3, <5>1, <5>2
      <4>2. CASE pc[t] # 0
        <5>1. Recorded(t)' = 1
          BY <3>2, <4>2 DEF Recorded
        <5>2. susp[t] <= (IF t \in suspended THEN 1 ELSE 0) + unrecorded[t]
          BY DEF Counts, Recorded
        <5> QED  BY <3>3, <5>1, <5>2
      <4> QED  BY <4>1, <4>2
    <3>5. \A t \in Threads : pc'[t] = 0 => susp'[t] = 0
      BY <3>1, <3>3 DEF Counts, Suspendable
    <3>6. ~alive' => \A t \in Threads : pc'[t] = 0
      BY <3>1 DEF Counts
    <3> QED  BY <3>1, <3>4, <3>5, <3>6 DEF Counts
  <2>15. CASE Step
    <3>1. UNCHANGED <<unrecorded, susp, suspended, alive, attached, pc>> /\ ui' # "joining"
      <4>1. ui' # "joining"
        BY <2>15, StepCases DEF StepMark, StepTo, Step, Command
      <4> QED  BY <2>15, <4>1 DEF Step
    <3> QED  BY <3>1 DEF Counts, Recorded
  <2>16. ASSUME NEW a \in Addrs, SetBreakpoint(a) \/ RemoveBreakpoint(a) PROVE Counts'
    BY <2>1, <2>16 DEF SetBreakpoint, RemoveBreakpoint
  <2>17. CASE PollHit
    <3>1. /\ attached /\ ui # "joining" /\ UNCHANGED <<alive, attached, ui, pc, suspended>>
          /\ susp' = Suspended /\ unrecorded' = Lost(Threads)
      BY <2>17 DEF PollHit
    <3>2. \A t \in Threads :
            /\ susp'[t] = IF Suspendable(t) THEN susp[t] + 1 ELSE susp[t]
            /\ unrecorded'[t] = IF Suspendable(t) THEN unrecorded[t] + 1 ELSE unrecorded[t]
            /\ Recorded(t)' = Recorded(t) /\ Recorded(t) \in {0, 1}
            /\ susp[t] \in Nat /\ unrecorded[t] \in Nat
      BY <2>0, <3>1, BoundsAssumption DEF Suspended, Lost, Recorded, DebuggeeOK
    <3>3. \A t \in Threads : susp'[t] <= Recorded(t)' + unrecorded'[t]
      BY <3>2 DEF Counts
    <3>4. \A t \in Threads : pc'[t] = 0 => susp'[t] = 0
      BY <3>1, <3>2 DEF Counts, Suspendable
    <3>5. ~alive' => \A t \in Threads : pc'[t] = 0
      BY <3>1 DEF Counts
    <3> QED  BY <3>1, <3>3, <3>4, <3>5 DEF Counts
  <2>18. CASE UNCHANGED vars
    BY <2>1, <2>18 DEF vars
  <2>19. CASE Debuggee
    BY <2>2, <2>3, <2>4, <2>5, <2>6, <2>19 DEF Debuggee
  <2>20. CASE DebugLoop
    BY <2>7, <2>8, <2>9, <2>20 DEF DebugLoop
  <2>21. CASE User
    BY <2>10, <2>11, <2>12, <2>13, <2>14, <2>15, <2>16, <2>17, <2>21 DEF User
  <2> QED  BY <2>18, <2>19, <2>20, <2>21 DEF Next
<1>3. IInv /\ Counts /\ [Next]_vars => Counts'
  BY <1>2
<1> QED  BY <1>1, <1>3, DebuggerHolds, PTL DEF Spec

(* After detach no thread is left suspended but for what poll_event did and    *)
(* what a second pause wiped out of suspended_tids_: as often, and no more.   *)
THEOREM DetachResumes == Spec => []DetachedIsResumed
<1>1. Counts => DetachedIsResumed
  BY DEF Counts, DetachedIsResumed
<1> QED  BY <1>1, CountsHold, PTL
=============================================================================
