----------------------------- MODULE Decompiler -----------------------------
(* Decompiler::decompile (core/decompiler/decompiler.cpp): one function, from
   its machine code to printed lines, through the passes of the pipeline
   (lift, SSA, DCE, propagation, structuring, emission).  One action per
   pass; the dominator iteration of SSA takes one step per turn of its loop.

   prog is the function being decompiled; func is its p-code as the last pass
   left it, idom its tree of dominators (both declared in Dominators).  Entries
   are the machine states a function can be entered in.                      *)
EXTENDS MachineCode, SSA, Propagate, Structure, Dominators

CONSTANTS Programs,    \* functions: [arch, blocks, succs]
          Entries,     \* what the caller leaves: [regs, mem]
          MaxBlocks    \* functions with more blocks are only summarised (5000)

VARIABLES turn, prog, cbody, out
vars == <<stage, turn, prog, func, idom, cbody, out>>

Go(to) == stage' = to /\ UNCHANGED <<prog, turn>>

Init ==
    /\ stage = "decompile" /\ turn = 1 /\ prog \in Programs
    /\ func = << >> /\ idom = << >> /\ cbody = << >> /\ out = << >>

NBlocks == Cardinality(DOMAIN prog.blocks)
Insns == FlattenSeq([b \in 1..NBlocks |-> prog.blocks[b-1]])

\* the early returns: nothing, a list of the callees' names, or assembly
Decline ==
    /\ stage = "decompile"
    /\ LET calls == SelectSeq(Insns, LAMBDA i : i.type = "Call" /\ BranchTarget(i) # 0)
           first == SelectSeq([i \in 1..Len(calls) |-> i],
                       LAMBDA i : \A j \in 1..(i-1) : calls[j].ops[1] # calls[i].ops[1])
       IN CASE NBlocks = 0 -> out' = <<Line("empty", 0, 0)>>
            [] NBlocks > MaxBlocks ->
                 out' = [i \in 1..Len(first) |-> Line("CALL", calls[first[i]].addr, 1)]
            [] NBlocks \in 1..MaxBlocks /\ prog.arch \notin {"x64", "arm64", "arm"} ->
                 out' = [i \in 1..Len(Insns) |-> Line("asm", Insns[i].addr, 1)]
            [] OTHER -> FALSE
    /\ Go("done") /\ UNCHANGED <<func, idom, cbody>>

LiftFunction ==
    /\ stage = "decompile" /\ NBlocks \in 1..MaxBlocks /\ prog.arch \in {"x64", "arm64", "arm"}
    /\ func' = Lift(prog) /\ idom' = NoIdom(func')
    /\ Go("dominators") /\ UNCHANGED <<cbody, out>>

ComputeForever ==   \* mutant: `changed` is set without comparing
    /\ stage = "dominators"
    /\ idom' = DominatorPass(func, idom)
    /\ Go(IF NBlocks = 1 THEN "ssa" ELSE "dominators")
    /\ UNCHANGED <<func, cbody, out>>

\* one turn of the loop
ComputeDominators == TurnOfLoop /\ UNCHANGED <<turn, prog, cbody, out>>

BuildSSA ==
    /\ stage = "ssa" /\ func' = Rename(InsertPhis(func, idom), idom)
    /\ Go("dce") /\ UNCHANGED <<idom, cbody, out>>

RunDCE ==
    /\ stage = "dce" /\ func' = DeadCode(func)
    /\ Go("propagate") /\ UNCHANGED <<idom, cbody, out>>

\* Propagate::run: the passes in their order, some of them more than once
PassOrder == <<"identity", "arguments", "copies", "constants", "copies", "flags",
               "dead", "copies", "inline", "constants", "dead">>
Pass(name, new) ==
    /\ stage = "propagate" /\ PassOrder[turn] = name
    /\ func' = new /\ turn' = turn + 1
    /\ stage' = IF turn = Len(PassOrder) THEN "structure" ELSE stage
    /\ UNCHANGED <<prog, idom, cbody, out>>

DropIdentities  == Pass("identity", EliminateIdentity(func))
FoldArguments   == Pass("arguments", FoldArgSetup(func))
PropagateCopies == Pass("copies", CopyPropagation(func))
FoldConstants   == Pass("constants", ConstantFold(func))
SimplifyFlags   == Pass("flags", FoldFlags(func))
DropDeadCopies  == Pass("dead", DeadCopyElim(func))
InlineOnce      == Pass("inline", InlineSingleUse(func))

StructureBody ==
    /\ stage = "structure" /\ cbody' = StructureFunction(func)
    /\ Go("emit") /\ UNCHANGED <<func, idom, out>>

EmitLines ==
    /\ stage = "emit" /\ out' = EmitFunction(cbody)
    /\ Go("done") /\ UNCHANGED <<func, idom, cbody>>

Next == \/ Decline \/ LiftFunction \/ ComputeDominators \/ BuildSSA \/ RunDCE \/ DropIdentities
        \/ FoldArguments \/ PropagateCopies \/ FoldConstants \/ SimplifyFlags \/ DropDeadCopies
        \/ InlineOnce \/ StructureBody \/ EmitLines

\* nothing waits: decompile is one call
Spec == Init /\ [][Next]_vars /\ WF_vars(ComputeDominators)

-----------------------------------------------------------------------------
IsTarget(f, b) == f[b].preds # << >>
\* a run that divides by zero is not compared
SameAsMachine(f) ==
    \A e \in Entries : LET m == MachineTrace(prog, e)
                       IN Faulted(m) \/ Trace(f, e.regs, e.mem) = m
SameTraces(f, g) == \A e \in Entries : Trace(f, e.regs, e.mem) = Trace(g, e.regs, e.mem)


(* A condition whose flags are right is lifted to a test of them, as the comments
   of jcc_to_flag_op have it: "cf || zf" for be (lifter.cpp:199).  It is lifted
   to a test of ZF alone.                                                    *)
ConditionsAreLifted == stage = "dominators" /\ CoveredBut(prog) => SameAsMachine(func)

(* SSA and dead code elimination change none of what lifting gave: every read of
   a renamed varnode, through any path of blocks and phi functions, sees the
   last write (SSABuilder::build, DCE::run).  Not so where the first block is
   the target of a jump: a phi has no input for the way into the function.   *)
SsaKeepsMeaning ==
    (stage = "dce" \/ (stage = "propagate" /\ turn = 1)) /\ ~IsTarget(func, 0) =>
        SameTraces(func, Lift(prog))

(* Propagating copies and folding constants changes nothing of it, although a
   copy is dropped while its readers are spread over the blocks
   (Propagate::copy_propagation, constant_fold).                             *)
CopiesKeepMeaning ==
    [][stage = "propagate" /\ PassOrder[turn] \in {"copies", "constants"} =>
         SameTraces(func, func')]_vars

\* one return, at the last address
SingleExit(f) == \A b \in Blocks(f) : f[b].ret <=> b = Cardinality(Blocks(f)) - 1
(* Every call and store that is left is printed, in a function with one exit:
   structuring puts every block into some statement, and emission drops no
   statement that has an effect.                                             *)
EffectsAreShown ==
    stage = "done" /\ func # << >> /\ SingleExit(func) =>
        \A p \in Range(Positions(func)) :
            OpAt(func, p).op \in {"CALL", "STORE"} =>
                \E l \in Range(out) : l.kind = OpAt(func, p).op /\ l.addr = OpAt(func, p).addr

(* The loop of compute_dominators reaches a fixed point, in reverse postorder of
   the blocks or not: `while (changed)` has no bound of its own.  The functions
   of the run have nine shapes of control flow, some of them in another order. *)
DominatorsSettle == (stage = "dominators") ~> (stage = "ssa")
=============================================================================
