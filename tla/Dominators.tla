------------------------------ MODULE Dominators ------------------------------
(* SSABuilder::compute_dominators as a loop, on the flow graph of any function:
   one step of DomSpec is one turn.  Decompiler takes these steps for the
   functions it lifts, and builds SSA form when the loop has ended.          *)
EXTENDS FlowGraph

VARIABLES
  stage,      \* "dominators" in the loop, "ssa" behind it
  func,       \* func_
  idom        \* idom_
domVars == <<stage, func, idom>>

DomInit == stage = "dominators" /\ IsFlowGraph(func) /\ idom = NoIdom(func)

\* the turn that changes nothing is the last
TurnOfLoop ==
    /\ stage = "dominators"
    /\ idom' = DominatorPass(func, idom)
    /\ stage' = IF idom' = idom THEN "ssa" ELSE stage
    /\ func' = func

DomSpec == DomInit /\ [][TurnOfLoop]_domVars

-----------------------------------------------------------------------------
(* The way from a block up the tree ends at the entry at every turn, so that the
   fingers of compute_dominators, which climb without a bound, always meet.  *)
WaysUpEnd == \A b \in Processed(idom) : 0 \in Ancestors(idom, b)

(* idom is a tree of dominators once the loop ends, although the blocks are
   numbered by address and not in reverse postorder: the ancestors of a block
   dominate it, and the entry is one of them (SSABuilder::compute_dominators). *)
AncestorsDominate ==
    stage = "ssa" =>
        \A b \in ReachableBlocks(func) :
            /\ 0 \in Ancestors(idom, b)
            /\ \A d \in Ancestors(idom, b) : Dominates(func, d, b)

(* A variable needs no phi where insert_phis puts none: the predecessors of a
   block without one have, going up the tree, the definitions and phis before
   them that the dominator of the block has, so that renaming the block with
   the dominator's stack gives it what any path to it would.  Paths back to the
   entry are the exception: nothing is renamed for the way into the function
   (compute_dom_frontiers, insert_phis, rename_block).                       *)
PhisSuffice ==
    stage = "ssa" =>
        LET df == Frontiers(func, idom)
        IN \A defs \in SUBSET DOMAIN func :
             LET phis == PhiBlocks(df, defs)
                 Before(b) == Ancestors(idom, b) \cap (defs \cup phis)
             IN \A p \in ReachableBlocks(func) : \A b \in DOMAIN func \ ({0} \cup phis) :
                  Edge(func, p, b) => Before(p) = Before(idom[b])
=============================================================================
