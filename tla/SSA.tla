-------------------------------- MODULE SSA --------------------------------
(* SSABuilder (core/decompiler/ssa.cpp) on the operations of a function: phi
   functions and the renaming of varnodes to versions.  What it does on the
   graph of the blocks is in FlowGraph.

   Blocks are numbered by address, block 0 is taken for the entry.             *)
EXTENDS PCode, FlowGraph

\* var_key: registers below 1000, temporaries below 2000, the stack above
VarKey(vn) == CASE vn.kind = "reg" -> vn.id
                [] vn.kind = "temp" -> 1000 + vn.id
                [] OTHER -> -1
KeyVn(k)   == IF k < 1000 THEN Reg(k) ELSE Temp(k - 1000)

DomChildren(f, idom, d) == {b \in Blocks(f) \ {0} : idom[b] = d}

-----------------------------------------------------------------------------
Defines(f, k, b) == \E i \in 1..Len(f[b].ops) : VarKey(f[b].ops[i].out) = k
AllVars(f) == {VarKey(OpAt(f, p).out) : p \in Range(Positions(f))} \ {-1}

\* a COPY with seq -1 and one input per predecessor, put before the other operations
Phi(f, b, k) == Insn("COPY", KeyVn(k), [i \in 1..Len(f[b].preds) |-> KeyVn(k)], 0, -1)

InsertPhis(f, idom) ==
    LET df == Frontiers(f, idom)
        vars(b) == {k \in AllVars(f) :
                      b \in PhiBlocks(df, {d \in Blocks(f) : Defines(f, k, d)})}
    IN EachBlock(f, LAMBDA b : [f[b] EXCEPT !.ops = MapSeq(LAMBDA k : Phi(f, b, k), Ascending(vars(b))) \o @])

-----------------------------------------------------------------------------
(* rename: top[k] is the top of the stack of variable k.  The stacks are popped
   to what they were when a block's subtree is left, so that a block starts with
   what its dominator ended with.                                            *)
Renamed(top, vn) == IF VarKey(vn) \in DOMAIN top THEN [vn EXCEPT !.off = top[VarKey(vn)]] ELSE vn

\* an operation reads the current versions, then its output gets a new one
RenameOp(st, op) ==
    LET in  == IF IsPhi(op) THEN op.in ELSE MapSeq(LAMBDA vn : Renamed(st.top, vn), op.in)
        ver == st.ctr + 1
    IN IF VarKey(op.out) < 0 THEN [st EXCEPT !.ops = Append(@, [op EXCEPT !.in = in])]
       ELSE [ops |-> Append(st.ops, [op EXCEPT !.in = in, !.out.off = ver]),
             top |-> [st.top EXCEPT ![VarKey(op.out)] = ver],
             ctr |-> ver]

\* the phis of a successor take the version at the end of b, in the slot of
\* b's first edge to it
FillNone(op, slot, top) == op   \* mutant: the slots keep version 0

FillPhi(op, slot, top) == IF IsPhi(op) THEN [op EXCEPT !.in[slot] = Renamed(top, op.in[slot])] ELSE op
FillPhis(f, top, b) ==
    EachBlock(f, LAMBDA s :
       IF s \notin Range(f[b].succs) THEN f[s]
       ELSE LET slot == FirstIndex(f[s].preds, b)
            IN [f[s] EXCEPT !.ops = MapSeq(LAMBDA op : FillPhi(op, slot, top), @)])

\* st is [f, tops, ctr], tops[b] the stacks at the end of block b
RenameBlock(idom, st, b) ==
    LET own == FoldLeft(RenameOp, [ops |-> << >>, top |-> st.tops[IF b = 0 THEN -1 ELSE idom[b]], ctr |-> st.ctr],
                        st.f[b].ops)
    IN [f    |-> FillPhis([st.f EXCEPT ![b].ops = own.ops], own.top, b),
        tops |-> (b :> own.top) @@ st.tops,
        ctr  |-> own.ctr]

\* the dominator tree in the order of the recursion
RECURSIVE Preorder(_, _, _)
Preorder(f, idom, b) ==
    FoldLeft(LAMBDA seq, c : seq \o Preorder(f, idom, c), <<b>>, Ascending(DomChildren(f, idom, b)))

Rename(f, idom) ==
    FoldLeft(LAMBDA st, b : RenameBlock(idom, st, b),
             [f |-> f, tops |-> -1 :> [k \in AllVars(f) |-> 0], ctr |-> 0], Preorder(f, idom, 0)).f

=============================================================================
