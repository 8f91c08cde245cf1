----------------------------- MODULE MCDebugger -----------------------------
(* Two threads and two addresses; a call at the first returns to the second. *)
EXTENDS Debugger, TLC

CONSTANTS t1, t2

MCThreads == {t1, t2}
MCBehind == 1 :> 2
Symmetry == Permutations(MCThreads)
=============================================================================
