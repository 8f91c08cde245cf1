------------------------------ MODULE FlowGraph ------------------------------
(* SSABuilder on the flow graph of a function (core/decompiler/ssa.cpp): one turn
   of the loop of compute_dominators, compute_dom_frontiers and the worklist of
   insert_phis.  Only the edges of the blocks matter here, f[b].preds and
   f[b].succs.

   Blocks are numbered 0, 1, ... by address, block 0 is taken for the entry.
   idom[b] is -1 until a predecessor of b has been seen.                     *)
EXTENDS Integers, Sequences, FiniteSets

LastBlock(f) == Cardinality(DOMAIN f) - 1
Edge(f, p, s) == \E i \in 1..Len(f[p].succs) : f[p].succs[i] = s

\* what Lifter::lift builds: an edge is listed at both of its ends
IsFlowGraph(f) ==
    /\ IsFiniteSet(DOMAIN f) /\ DOMAIN f # {} /\ DOMAIN f = 0..LastBlock(f)
    /\ \A b \in DOMAIN f : f[b].succs \in Seq(DOMAIN f) /\ f[b].preds \in Seq(DOMAIN f)
    /\ \A p, s \in DOMAIN f : Edge(f, p, s) <=> \E i \in 1..Len(f[s].preds) : f[s].preds[i] = p

NoIdom(f) == [b \in DOMAIN f |-> IF b = 0 THEN 0 ELSE -1]

Processed(idom) == {b \in DOMAIN idom : idom[b] >= 0}

\* the two fingers: the one at the larger block number climbs
Intersect(idom, x, y) ==
    LET meet[p \in Processed(idom) \X Processed(idom)] ==
            IF p[1] = p[2] THEN p[1]
            ELSE IF p[1] > p[2] THEN meet[<<idom[p[1]], p[2]>>]
            ELSE meet[<<p[1], idom[p[2]]>>]
    IN meet[<<x, y>>]

\* what one more predecessor makes of the dominator found so far
Agreed(idom, d, p) ==
    IF idom[p] < 0 THEN d ELSE IF d < 0 THEN p ELSE Intersect(idom, d, p)

FirstProcessed(f, idom, b) ==   \* mutant: the fingers never meet
    LET new[i \in 0..Len(f[b].preds)] ==
            IF i = 0 THEN -1
            ELSE IF new[i-1] >= 0 \/ idom[f[b].preds[i]] < 0 THEN new[i-1] ELSE f[b].preds[i]
    IN new[Len(f[b].preds)]

\* the dominator the processed predecessors of b agree on, -1 when there is none
NewIdom(f, idom, b) ==
    LET new[i \in 0..Len(f[b].preds)] ==
            IF i = 0 THEN -1 ELSE Agreed(idom, new[i-1], f[b].preds[i])
    IN new[Len(f[b].preds)]

SetIdom(idom, b, new) == IF new >= 0 THEN [idom EXCEPT ![b] = new] ELSE idom

\* one turn of `while (changed)`: every block but the entry, in block order
DominatorPass(f, idom) ==
    LET after[b \in DOMAIN f] ==
            IF b = 0 THEN idom ELSE SetIdom(after[b-1], b, NewIdom(f, after[b-1], b))
    IN after[LastBlock(f)]

-----------------------------------------------------------------------------
\* the blocks a runner passes from p up to `stop`
Runner(idom, p, stop) ==
    LET run[r \in DOMAIN idom] ==
            IF r = stop THEN {} ELSE {r} \cup (IF idom[r] < 0 THEN {} ELSE run[idom[r]])
    IN run[p]

\* where paths meet that a block has a part in
Frontiers(f, idom) ==
    [d \in DOMAIN f |->
       {b \in DOMAIN f : /\ Len(f[b].preds) >= 2
                         /\ \E i \in 1..Len(f[b].preds) : d \in Runner(idom, f[b].preds[i], idom[b])}]

FrontiersOnce(df, defs) == UNION {df[b] : b \in defs}   \* mutant: a phi defines nothing

\* the worklist of insert_phis: the blocks that get a phi for a variable defined
\* in defs; a block with a phi defines the variable too
PhiBlocks(df, defs) ==
    LET phis[done \in SUBSET DOMAIN df] ==
            LET new == (UNION {df[b] : b \in defs \cup done}) \ done
            IN IF new = {} THEN done ELSE phis[done \cup new]
    IN phis[{}]

-----------------------------------------------------------------------------
(* What the builder is for.                                                  *)
\* S has the entry and every block that an edge leads to from S, but for `without`
IsClosed(f, S, without) ==
    0 \in S /\ \A p \in S : \A s \in DOMAIN f \ {without} : Edge(f, p, s) => s \in S

\* the blocks the entry reaches without passing through `without`
ReachedWithout(f, without) ==
    {b \in DOMAIN f : \A S \in SUBSET DOMAIN f : IsClosed(f, S, without) => b \in S}
ReachableBlocks(f) == ReachedWithout(f, -1)
Dominates(f, d, b) == d = b \/ d = 0 \/ b \notin ReachedWithout(f, d)

\* S has b and the way from b up the tree
HasWayUp(idom, S, b) == b \in S /\ \A x \in S : idom[x] \in DOMAIN idom => idom[x] \in S
Ancestors(idom, b) ==
    {d \in DOMAIN idom : \A S \in SUBSET DOMAIN idom : HasWayUp(idom, S, b) => d \in S}
=============================================================================
