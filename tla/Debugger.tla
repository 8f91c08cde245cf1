------------------------------ MODULE Debugger ------------------------------
(***************************************************************************)
(* hype::DebugEngine (src/debugger/debug_engine.cpp) on Windows: the user   *)
(* interface's thread, the debug loop on a thread of its own, and the       *)
(* threads of the debuggee, with software breakpoints and with those of the *)
(* instrumentation callback (src/debugger/instrumentation_cb.cpp).  The     *)
(* program that is debugged is arbitrary: from any instruction a thread may *)
(* get to any other.                                                       *)
(***************************************************************************)
EXTENDS Naturals

CONSTANTS
  Threads,     \* of the debuggee
  NoThread,
  Addrs,       \* where its instructions begin
  Calls,       \* where its calls are
  Behind,      \* the address behind each call
  MaxCommands, \* how often the user does something
  MaxSuspend   \* how often Windows suspends a thread; SuspendThread fails then

ASSUME AddrsAssumption ==
  Addrs \subseteq Nat \ {0} /\ Calls \subseteq Addrs /\ Behind \in [Calls -> Addrs]

ASSUME BoundsAssumption == MaxCommands \in Nat /\ MaxSuspend \in Nat \ {0}

ASSUME NoThreadAssumption == NoThread \notin Threads

VARIABLES
  mode, icb,            \* mode_, and whether the callback is installed
  attached, running, shutdown, shouldBreak,
  singleStep, stepOver, \* single_step_ and step_over_bp_, 0 for none
  active,               \* active_tid_
  bps,                  \* breakpoints_, by address
  suspended,            \* suspended_tids_
  loop, ev,             \* the debug loop and the event it handles
  ui,                   \* what is left of the user's command
  commands,             \* how many there were
  alive,                \* the debuggee is a process
  mem, hit,             \* its code, and the signal of the callback, 0 for none
  pc, past,             \* of each thread, 0 when it has ended; behind the trap at pc
  tf, due,              \* its trap flag, and the exception it waits in
  susp, spin,           \* its suspend count; whether it is in the callback, or where that was
  news,                 \* events of the process that are not delivered
  hooked,               \* history: the callback was installed in this process
  dropped,              \* history: a thread ended that was to arm breakpoints again
  withdrawn,            \* history: threads whose breakpoint went while they waited
  unrecorded            \* history: the suspensions of each thread that suspended_tids_ does
                        \* not stand for: those of poll_event, and those whose record pause
                        \* has replaced by that of its own

flags == <<attached, running, shutdown, shouldBreak>>
stepping == <<singleStep, stepOver, active>>
threads == <<pc, past, tf, due, susp, spin>>
history == <<hooked, dropped, withdrawn, unrecorded>>
vars == <<mode, icb, flags, stepping, bps, suspended, loop, ev, ui, commands, alive, mem, hit,
          threads, news, history>>

Byte == {"own", "trap", "zero"}
NoEvent == [kind |-> "none", tid |-> NoThread]
Event == [kind : {"none", "initial", "exit", "int3", "step"}, tid : Threads \union {NoThread}]

Enabled(a) == a \in DOMAIN bps /\ bps[a].enabled
Put(a, v) == [b \in DOMAIN bps \union {a} |-> IF b = a THEN v ELSE bps[b]]
All(v) == [t \in Threads |-> v]

Init ==
  /\ mode = "normal" /\ icb = FALSE
  /\ attached = FALSE /\ running = FALSE /\ shutdown = FALSE /\ shouldBreak = FALSE
  /\ singleStep = FALSE /\ stepOver = 0 /\ active = NoThread
  /\ bps = [a \in {} |-> 0] /\ suspended = {}
  /\ loop = "none" /\ ev = NoEvent /\ ui = "idle" /\ commands = 0
  /\ alive = TRUE /\ mem = [a \in Addrs |-> "own"] /\ hit = 0
  /\ pc \in [Threads -> Addrs] /\ past = All(FALSE)
  /\ tf = All(FALSE) /\ due = All("none") /\ susp = All(0) /\ spin = All("no")
  /\ news = {}
  /\ hooked = FALSE /\ dropped = FALSE /\ withdrawn = {} /\ unrecorded = All(0)
----------------------------------------------------------------------------
(* The debuggee.  An event stops all its threads until it is continued.     *)
Frozen == loop \in {"handling", "continuing"}

Debugged == attached \/ ui = "joining"

Runs(t) == alive /\ ~Frozen /\ pc[t] # 0 /\ ~past[t] /\ due[t] = "none" /\ susp[t] = 0

Gone ==
  /\ alive' = FALSE /\ mem' = [a \in Addrs |-> "own"] /\ hit' = 0
  /\ pc' = All(0) /\ past' = All(FALSE) /\ tf' = All(FALSE) /\ due' = All("none")
  /\ susp' = All(0) /\ spin' = All("no")
  /\ hooked' = FALSE /\ dropped' = FALSE /\ withdrawn' = {} /\ unrecorded' = All(0)

(* A thread gets to b; on its way back from the kernel it may meet the       *)
(* callback, which looks b up, leaves a signal and waits for it to be taken.  *)
Execute(t) ==
  /\ Runs(t) /\ spin[t] = "no" /\ mem[pc[t]] = "own"
  /\ Debugged \/ ~tf[t]
  /\ \E b \in Addrs :
       /\ pc' = [pc EXCEPT ![t] = b]
       /\ \/ UNCHANGED <<spin, hit>>
          \/ icb /\ b \in DOMAIN bps /\ spin' = [spin EXCEPT ![t] = "in"] /\ hit' = b
  /\ tf' = [tf EXCEPT ![t] = FALSE]
  /\ due' = [due EXCEPT ![t] = IF tf[t] THEN "step" ELSE "none"]
  /\ UNCHANGED <<mode, icb, flags, stepping, bps, suspended, loop, ev, ui, commands, alive, mem,
                 past, susp, news, history>>

Trap(t) ==
  /\ Runs(t) /\ spin[t] = "no" /\ mem[pc[t]] = "trap" /\ Debugged
  /\ past' = [past EXCEPT ![t] = TRUE]
  /\ due' = [due EXCEPT ![t] = "int3"]
  /\ UNCHANGED <<mode, icb, flags, stepping, bps, suspended, loop, ev, ui, commands, alive, mem, hit,
                 pc, tf, susp, spin, news, history>>

LeaveCallback(t) ==
  /\ Runs(t) /\ spin[t] = "in" /\ hit = 0
  /\ spin' = [spin EXCEPT ![t] = "no"]
  /\ UNCHANGED <<mode, icb, flags, stepping, bps, suspended, loop, ev, ui, commands, alive, mem, hit,
                 pc, past, tf, due, susp, news, history>>

EndThread(t) ==
  /\ Runs(t) /\ spin[t] = "no" /\ mem[pc[t]] = "own"
  /\ pc' = [pc EXCEPT ![t] = 0]
  /\ tf' = [tf EXCEPT ![t] = FALSE]
  /\ dropped' = (dropped \/ tf[t])
  /\ UNCHANGED <<mode, icb, flags, stepping, bps, suspended, loop, ev, ui, commands, alive, mem, hit,
                 past, due, susp, spin, news, hooked, withdrawn, unrecorded>>

(* It is killed or ends; without a debugger an exception ends it too, and so *)
(* does a thread that is resumed where the callback was.                   *)
EndProcess ==
  /\ alive /\ ~Frozen
  /\ Gone
  /\ news' = IF Debugged THEN {"exit"} ELSE {}
  /\ UNCHANGED <<mode, icb, flags, stepping, bps, suspended, loop, ev, ui, commands>>

StartProcess ==
  /\ ~alive /\ ~Debugged
  /\ alive' = TRUE /\ pc' \in [Threads -> Addrs]
  /\ UNCHANGED <<mode, icb, flags, stepping, bps, suspended, loop, ev, ui, commands, mem, hit,
                 past, tf, due, susp, spin, news, history>>

----------------------------------------------------------------------------
(* The debug loop: test shutdown_, wait for an event, handle it, continue.   *)
LoopTest ==
  /\ loop = "testing"
  /\ IF shutdown
     THEN loop' = "ended" /\ attached' = FALSE /\ running' = FALSE
     ELSE loop' = "waiting" /\ UNCHANGED <<attached, running>>
  /\ UNCHANGED <<mode, icb, shutdown, shouldBreak, stepping, bps, suspended, ev, ui, commands, alive, mem,
                 hit, threads, news, history>>

Timeout ==
  /\ loop = "waiting"
  /\ loop' = "testing"
  /\ UNCHANGED <<mode, icb, flags, stepping, bps, suspended, ev, ui, commands, alive, mem, hit, threads,
                 news, history>>

WaitForDebugEvent ==
  /\ loop = "waiting"
  /\ \/ \E k \in news : ev' = [kind |-> k, tid |-> NoThread] /\ news' = news \ {k}
     \/ /\ \E t \in Threads : due[t] # "none" /\ ev' = [kind |-> due[t], tid |-> t]
        /\ UNCHANGED news
  /\ loop' = "handling"
  /\ UNCHANGED <<mode, icb, flags, stepping, bps, suspended, ui, commands, alive, mem, hit, threads,
                 history>>

(* Where no breakpoint is found it is taken for the one Windows sets off in   *)
(* a thread of its own when a debugger attaches.                           *)
UnknownBreakpoint ==
  /\ running' = ~shouldBreak
  /\ UNCHANGED <<stepOver, bps, mem, past, tf, withdrawn>>

InitialBreakpoint ==
  /\ loop = "handling" /\ ev.kind = "initial"
  /\ active' = NoThread
  /\ UnknownBreakpoint
  /\ loop' = "continuing"
  /\ UNCHANGED <<mode, icb, attached, shutdown, shouldBreak, singleStep, suspended, ev, ui, commands, alive,
                 hit, pc, due, susp, spin, news, hooked, dropped, unrecorded>>

WaitsAt(a) == {t \in Threads : due[t] = "int3" /\ pc[t] = a}

(* handle_breakpoint_hit: the byte is restored, the thread put back on it     *)
(* with its trap flag set, and a breakpoint of a step over is used up.      *)
BreakpointHit(a, t) ==
  /\ mem' = [mem EXCEPT ![a] = bps[a].orig]
  /\ past' = [past EXCEPT ![t] = FALSE]
  /\ tf' = [tf EXCEPT ![t] = TRUE]
  /\ running' = FALSE
  /\ IF stepOver = a
     THEN /\ stepOver' = 0
          /\ bps' = [bps EXCEPT ![a].enabled = FALSE]
          /\ withdrawn' = (withdrawn \union WaitsAt(a)) \ {t}
     ELSE /\ withdrawn' = withdrawn \ {t}
          /\ UNCHANGED <<stepOver, bps>>

HandleBreakpoint ==
  /\ loop = "handling" /\ ev.kind = "int3"
  /\ LET t == ev.tid IN
       /\ active' = t
       /\ due' = [due EXCEPT ![t] = "none"]
       /\ IF Enabled(pc[t]) THEN BreakpointHit(pc[t], t) ELSE UnknownBreakpoint
  /\ loop' = "continuing"
  /\ UNCHANGED <<mode, icb, attached, shutdown, shouldBreak, singleStep, suspended, ev, ui, commands, alive,
                 hit, pc, susp, spin, news, hooked, dropped, unrecorded>>

HandleSingleStepOnly ==   \* mutant: a step of the user arms nothing
  /\ loop = "handling" /\ ev.kind = "step"
  /\ active' = ev.tid
  /\ due' = [due EXCEPT ![ev.tid] = "none"]
  /\ mem' = [a \in Addrs |-> IF Enabled(a) /\ ~singleStep THEN "trap" ELSE mem[a]]
  /\ singleStep' = FALSE
  /\ running' = (running /\ ~singleStep)
  /\ dropped' = FALSE
  /\ loop' = "continuing"
  /\ UNCHANGED <<mode, icb, attached, shutdown, shouldBreak, stepOver, bps, suspended, ev, ui,
                 commands, alive, hit, pc, past, tf, susp, spin, news, hooked, withdrawn, unrecorded>>

(* handle_single_step: all enabled breakpoints are armed again.             *)
HandleSingleStep ==
  /\ loop = "handling" /\ ev.kind = "step"
  /\ active' = ev.tid
  /\ due' = [due EXCEPT ![ev.tid] = "none"]
  /\ mem' = [a \in Addrs |-> IF Enabled(a) THEN "trap" ELSE mem[a]]
  /\ singleStep' = FALSE
  /\ running' = (running /\ ~singleStep)
  /\ dropped' = FALSE
  /\ loop' = "continuing"
  /\ UNCHANGED <<mode, icb, attached, shutdown, shouldBreak, stepOver, bps, suspended, ev, ui, commands,
                 alive, hit, pc, past, tf, susp, spin, news, hooked, withdrawn, unrecorded>>

HandleExit ==
  /\ loop = "handling" /\ ev.kind = "exit"
  /\ shutdown' = TRUE
  /\ loop' = "continuing"
  /\ UNCHANGED <<mode, icb, attached, running, shouldBreak, stepping, bps, suspended, ev, ui, commands,
                 alive, mem, hit, threads, news, history>>

ContinueDebugEvent ==
  /\ loop = "continuing"
  /\ loop' = "testing" /\ ev' = NoEvent
  /\ UNCHANGED <<mode, icb, flags, stepping, bps, suspended, ui, commands, alive, mem, hit, threads, news,
                 history>>

----------------------------------------------------------------------------
(* The user.  Attaching while the thread of an earlier loop is joinable ends  *)
(* Hyperion: a std::thread is assigned to.                                 *)
Command == ui = "idle" /\ commands < MaxCommands /\ commands' = commands + 1

Attach(m, installs) ==
  /\ Command /\ ~attached /\ alive
  /\ IF loop = "ended"
     THEN /\ ui' = "terminated"
          /\ UNCHANGED <<mode, icb, flags, loop, news, hooked>>
     ELSE /\ mode' = m
          /\ icb' = (m = "stealth" /\ installs)
          /\ hooked' = (hooked \/ icb')
          /\ attached' = TRUE /\ running' = TRUE /\ shutdown' = FALSE
          /\ loop' = "testing"
          /\ news' = {"initial"}
          /\ UNCHANGED <<shouldBreak, ui>>
  /\ UNCHANGED <<stepping, bps, suspended, ev, alive, mem, hit, threads, dropped, withdrawn,
                 unrecorded>>

Resumed == [t \in Threads |-> IF t \in suspended /\ susp[t] > 0 THEN susp[t] - 1 ELSE susp[t]]

Suspendable(t) == pc[t] # 0 /\ susp[t] < MaxSuspend

Suspended == [t \in Threads |-> IF Suspendable(t) THEN susp[t] + 1 ELSE susp[t]]

(* The suspensions that no entry of suspended_tids_ stands for any more when  *)
(* every thread is suspended again and the list is what it is told.         *)
Lost(forgotten) ==
  [t \in Threads |-> IF t \in forgotten /\ Suspendable(t) THEN unrecorded[t] + 1 ELSE unrecorded[t]]

Detach ==
  /\ Command /\ attached
  /\ shutdown' = TRUE /\ shouldBreak' = TRUE
  /\ susp' = Resumed /\ suspended' = {}
  /\ ui' = "joining"
  /\ UNCHANGED <<mode, icb, attached, running, stepping, bps, loop, ev, alive, mem, hit, pc, past,
                 tf, due, spin, news, history>>

(* The loop is joined, the callback uninstalled, which frees what threads in  *)
(* it execute, and the bytes are written back.  An exception nobody has       *)
(* handled ends the process, and so does a thread in the callback, unless it  *)
(* is suspended: it stays where it is.                                     *)
Survives ==
  alive /\ \A t \in Threads : due[t] = "none" /\ (spin[t] # "no" => susp[t] > 0)

DetachJoined ==
  /\ ui = "joining" /\ loop = "ended"
  /\ loop' = "none"
  /\ icb' = FALSE
  /\ bps' = [a \in {} |-> 0]
  /\ attached' = FALSE /\ running' = FALSE
  /\ news' = {}
  /\ ui' = "idle"
  /\ IF Survives
     THEN /\ mem' = [a \in Addrs |-> IF Enabled(a) THEN bps[a].orig ELSE mem[a]]
          /\ hit' = 0
          /\ spin' = [t \in Threads |-> IF spin[t] = "no" THEN "no" ELSE "freed"]
          /\ UNCHANGED <<alive, pc, past, tf, due, susp, history>>
     ELSE Gone
  /\ UNCHANGED <<mode, shutdown, shouldBreak, stepping, suspended, ev, commands>>

(* run and the steps end with running_ = true, after what they do to the     *)
(* debuggee, which may have been seen by then.                             *)
RunCleared ==   \* mutant: suspended_tids_ is cleared before the loop over it
  /\ Command /\ attached
  /\ shouldBreak' = FALSE
  /\ hit' = IF icb THEN 0 ELSE hit
  /\ suspended' = {}
  /\ ui' = "going"
  /\ UNCHANGED <<mode, icb, attached, running, shutdown, stepping, bps, loop, ev, alive, mem, susp,
                 pc, past, tf, due, spin, news, history>>

Run ==
  /\ Command /\ attached
  /\ shouldBreak' = FALSE
  /\ hit' = IF icb THEN 0 ELSE hit
  /\ susp' = Resumed /\ suspended' = {}
  /\ ui' = "going"
  /\ UNCHANGED <<mode, icb, attached, running, shutdown, stepping, bps, loop, ev, alive, mem, pc,
                 past, tf, due, spin, news, history>>

Going ==
  /\ ui \in {"going", "stepping"}
  /\ running' = TRUE
  /\ shouldBreak' = (shouldBreak /\ ui = "going")
  /\ ui' = "idle"
  /\ UNCHANGED <<mode, icb, attached, shutdown, stepping, bps, suspended, loop, ev, commands, alive, mem,
                 hit, threads, news, history>>

Pause ==
  /\ Command /\ attached /\ running
  /\ shouldBreak' = TRUE
  /\ suspended' = {t \in Threads : pc[t] # 0}
  /\ susp' = Suspended
  /\ unrecorded' = Lost(suspended)
  /\ active' \in IF suspended' = {} THEN {NoThread} ELSE suspended'
  /\ running' = FALSE
  /\ UNCHANGED <<mode, icb, attached, shutdown, singleStep, stepOver, bps, loop, ev, ui, alive, mem,
                 hit, pc, past, tf, due, spin, news, hooked, dropped, withdrawn>>

(* step_into and what step_over does at anything but a call.                *)
HasHandle == active \in Threads /\ pc[active] # 0

StepMark ==
  /\ singleStep' = TRUE
  /\ ui' = IF HasHandle THEN "trapping" ELSE "idle"
  /\ UNCHANGED <<stepOver, bps, mem>>

StepTrap ==
  /\ ui = "trapping"
  /\ tf' = IF HasHandle THEN [tf EXCEPT ![active] = TRUE] ELSE tf
  /\ ui' = "stepping"
  /\ UNCHANGED <<mode, icb, flags, stepping, bps, suspended, loop, ev, commands, alive, mem, hit, pc,
                 past, due, susp, spin, news, history>>

SetTwice(a) ==   \* mutant: the list is not searched first
  /\ bps' = IF ~alive THEN bps
            ELSE Put(a, [orig |-> IF icb THEN "zero" ELSE mem[a], enabled |-> TRUE])
  /\ mem' = IF ~alive \/ icb THEN mem ELSE [mem EXCEPT ![a] = "trap"]

Set(a) ==
  /\ bps' = IF a \in DOMAIN bps \/ ~alive THEN bps
            ELSE Put(a, [orig |-> IF icb THEN "zero" ELSE mem[a], enabled |-> TRUE])
  /\ mem' = IF a \in DOMAIN bps \/ ~alive \/ icb THEN mem ELSE [mem EXCEPT ![a] = "trap"]

StepTo(a) ==
  /\ stepOver' = a
  /\ Set(a)
  /\ ui' = "stepping"
  /\ UNCHANGED singleStep

AtCall == ~past[active] /\ pc[active] \in Calls /\ mem[pc[active]] = "own"

Step ==
  /\ Command /\ attached /\ ~running
  /\ \/ StepMark
     \/ HasHandle /\ AtCall /\ StepTo(Behind[pc[active]])                \* step_over
     \/ HasHandle /\ \E a \in {Behind[c] : c \in Calls} : StepTo(a)      \* step_out
  /\ UNCHANGED <<mode, icb, flags, active, suspended, loop, ev, alive, hit, threads, news, history>>

SetBreakpoint(a) ==
  /\ Command /\ attached
  /\ Set(a)
  /\ UNCHANGED <<mode, icb, flags, stepping, suspended, loop, ev, ui, alive, hit, threads, news,
                 history>>

RemoveBreakpoint(a) ==
  /\ Command /\ a \in DOMAIN bps
  /\ bps' = [b \in DOMAIN bps \ {a} |-> bps[b]]
  /\ mem' = IF alive /\ Debugged /\ bps[a].enabled /\ ~icb THEN [mem EXCEPT ![a] = bps[a].orig] ELSE mem
  /\ withdrawn' = withdrawn \union WaitsAt(a)
  /\ UNCHANGED <<mode, icb, flags, stepping, suspended, loop, ev, ui, alive, hit, threads, news,
                 hooked, dropped, unrecorded>>

(* poll_event, in every frame: a signal of the callback suspends all threads, *)
(* and suspended_tids_ is not told.                                        *)
PollHit ==
  /\ ui = "idle" /\ attached /\ icb /\ running /\ hit # 0
  /\ running' = FALSE
  /\ active' \in {t \in Threads : pc[t] = hit /\ spin[t] = "no"} \union
                 IF \E t \in Threads : pc[t] = hit /\ spin[t] = "no" THEN {} ELSE {NoThread}
  /\ susp' = Suspended
  /\ unrecorded' = Lost(Threads)
  /\ UNCHANGED <<mode, icb, attached, shutdown, shouldBreak, singleStep, stepOver, bps, suspended,
                 loop, ev, ui, commands, alive, mem, hit, pc, past, tf, due, spin, news, hooked, dropped,
                 withdrawn>>

Debuggee ==
  \/ \E t \in Threads : Execute(t) \/ Trap(t) \/ LeaveCallback(t) \/ EndThread(t)
  \/ EndProcess \/ StartProcess

DebugLoop ==
  \/ LoopTest \/ Timeout \/ WaitForDebugEvent
  \/ InitialBreakpoint \/ HandleBreakpoint \/ HandleSingleStep \/ HandleExit
  \/ ContinueDebugEvent

User ==
  \/ \E m \in {"normal", "stealth"}, installs \in BOOLEAN : Attach(m, installs)
  \/ Detach \/ DetachJoined
  \/ Run \/ Going \/ Pause \/ Step \/ StepTrap
  \/ \E a \in Addrs : SetBreakpoint(a) \/ RemoveBreakpoint(a)
  \/ PollHit

Next == ui # "terminated" /\ (Debuggee \/ DebugLoop \/ User)

Spec == Init /\ [][Next]_vars
----------------------------------------------------------------------------
(* The types; and attached_ tells whether the loop runs.                    *)
EngineOK ==
  /\ mode \in {"normal", "stealth"} /\ icb \in BOOLEAN
  /\ attached \in BOOLEAN /\ running \in BOOLEAN
  /\ shutdown \in BOOLEAN /\ shouldBreak \in BOOLEAN /\ singleStep \in BOOLEAN
  /\ stepOver \in Addrs \union {0}
  /\ active \in Threads \union {NoThread} /\ suspended \subseteq Threads
  /\ DOMAIN bps \subseteq Addrs
  /\ \A a \in DOMAIN bps : bps[a] \in [orig : Byte, enabled : BOOLEAN]
  /\ ui \in {"idle", "joining", "going", "trapping", "stepping", "terminated"}
  /\ commands \in 0..MaxCommands

LoopOK ==
  /\ loop \in {"none", "testing", "waiting", "handling", "continuing", "ended"}
  /\ attached <=> loop \notin {"none", "ended"}
  /\ ev \in Event /\ news \subseteq {"initial", "exit"}

DebuggeeOK ==
  /\ alive \in BOOLEAN
  /\ mem \in [Addrs -> Byte] /\ hit \in Addrs \union {0}
  /\ pc \in [Threads -> Addrs \union {0}]
  /\ past \in [Threads -> BOOLEAN] /\ tf \in [Threads -> BOOLEAN]
  /\ spin \in [Threads -> {"no", "in", "freed"}]
  /\ due \in [Threads -> {"none", "int3", "step"}]
  /\ susp \in [Threads -> 0..MaxSuspend]
  /\ hooked \in BOOLEAN /\ dropped \in BOOLEAN /\ unrecorded \in [Threads -> Nat]
  /\ withdrawn \subseteq Threads

TypeOK == EngineOK /\ LoopOK /\ DebuggeeOK

(* Where only traps are used, every byte that is not the program's own is    *)
(* the trap of an enabled breakpoint that knows the byte.                   *)
BytesAreKnown ==
  ~hooked => \A a \in Addrs :
    mem[a] # "own" => mem[a] = "trap" /\ Enabled(a) /\ bps[a].orig = "own"

(* A breakpoint that was hit is armed again: where its trap is missing, some  *)
(* thread still has a single step to take or to report.                     *)
TrapsAreArmed ==
  alive /\ attached /\ ~hooked /\ ~dropped => \A a \in DOMAIN bps :
    bps[a].enabled => mem[a] = "trap" \/ \E t \in Threads : tf[t] \/ due[t] = "step"

(* A thread that ran into a breakpoint goes on with the instruction there,   *)
(* unless the breakpoint was removed or used up before the hit was handled.  *)
NobodyIsStray ==
  alive /\ ~hooked => \A t \in Threads : past[t] /\ due[t] = "none" => t \in withdrawn

(* What suspended_tids_ stands for is resumed when the process is detached:   *)
(* no thread is left suspended but for the suspensions of poll_event, which   *)
(* are never recorded, and those whose record a second pause replaced.      *)
DetachedIsResumed ==
  alive /\ ~attached /\ ui = "idle" => \A t \in Threads : susp[t] <= unrecorded[t]

(* "resume any suspended threads FIRST" (detach): a detached process runs.    *)
DetachedRuns ==
  alive /\ ~attached /\ ui = "idle" => \A t \in Threads : susp[t] = 0

(* "restore all software breakpoints" (detach): what is left behind is the   *)
(* code of the program.                                                    *)
DetachedIsRestored ==
  alive /\ ~attached /\ ui = "idle" => \A a \in Addrs : mem[a] = "own"
=============================================================================
