----------------------------- MODULE Propagate -----------------------------
(* The passes between SSA and structuring: DCE (core/decompiler/dce.cpp) and
   Propagate (core/decompiler/propagate.cpp).  Every pass goes over the
   operations in order and rewrites the function in place, so that what it does
   to one operation is seen at the next one; an operation that goes becomes a
   NOP, and the NOPs are erased at the end of the pass.

   Versions are told apart (off), except where the code compares only the kind
   and the id of a varnode.                                                    *)
EXTENDS PCode

CalleeSaved == {3, 5, 6, 7, 12, 13, 14, 15}
FlagRegs    == 100..103
ArgOrder    == <<1, 2, 8, 9>>           \* kArgRegs
CallerSaved == {10, 11}                 \* kCallerSaved

SameVar(x, y) == x.kind = y.kind /\ x.id = y.id
\* one pass of `rewrite` over every position of f
Sweep(rewrite(_, _), f) ==
    LET at == Positions(f)
        after[i \in 0..Len(at)] == IF i = 0 THEN f ELSE rewrite(after[i-1], at[i])
    IN after[Len(at)]
\* `while (changed)`: at most n such passes, and none after one that changes nothing
Repeat(rewrite(_, _), f, n) ==
    FoldLeft(LAMBDA st, i : IF st.stable THEN st
                            ELSE LET g == Sweep(rewrite, st.f) IN [f |-> g, stable |-> g = st.f],
             [f |-> f, stable |-> FALSE], [i \in 1..n |-> i]).f
Nowhere == <<-1, -1>>

-----------------------------------------------------------------------------
(* DCE.                                                                      *)
\* pass 1: flags nobody reads and restores of callee-saved registers
DropUnusedSetup(f, p) ==
    LET op == OpAt(f, p)
        dead == /\ op.op \notin Effects \cup {"NOP"}
                /\ \/ op.out.id \in FlagRegs
                   \/ op.op = "LOAD" /\ IsReg(op.out) /\ op.out.id \in CalleeSaved
                /\ ~IsUsed(op.out, f, Nowhere)
    IN IF dead THEN MakeNop(f, p) ELSE f

\* pass 2, and dead_copy_elim: what has an output nobody else reads goes, rax stays
DropDead(f, p) ==
    LET op == OpAt(f, p)
    IN IF /\ op.op \notin Effects \cup {"NOP"}
          /\ ~(IsReg(op.out) /\ op.out.id = 0)
          /\ ~IsUsed(op.out, f, p)
       THEN MakeNop(f, p) ELSE f

DeadCode(f) == EraseNops(Repeat(DropDead, Sweep(DropUnusedSetup, f), 6))
DeadCopyElim(f) == EraseNops(Repeat(DropDead, f, 12))

-----------------------------------------------------------------------------
(* Propagate.                                                                *)
\* a copy of a variable to itself, whatever the versions: every phi is one
EliminateIdentity(f) ==
    EraseNops(Sweep(LAMBDA g, p : LET op == OpAt(g, p)
                                  IN IF op.op = "COPY" /\ op.in # << >> /\ SameVar(op.out, op.in[1])
                                     THEN MakeNop(g, p) ELSE g, f))

\* the copy that sets up argument a of the call at p: the last write of the
\* argument register after the previous call, if it is a copy; 0 if there is none
SetupOf(f, p, a) ==
    LET ops    == f[p[1]].ops
        writes(i) == IsReg(ops[i].out) /\ ops[i].out.id = ArgOrder[a] /\ ops[i].op # "NOP"
        stops  == {i \in 1..(p[2] - 1) : ops[i].op = "CALL" \/ writes(i)}
        last   == IF stops = {} THEN 0 ELSE CHOOSE i \in stops : \A j \in stops : j <= i
    IN IF last # 0 /\ ops[last].op = "COPY" THEN last ELSE 0

FoldArgument(f, p, a) ==
    LET op == OpAt(f, p)
        s  == SetupOf(f, p, a)
    IN IF \/ a + 1 > Len(op.in)
          \/ ~(IsReg(op.in[a + 1]) /\ op.in[a + 1].id = ArgOrder[a])
          \/ s = 0
       THEN f
       ELSE MakeNop(SetOp(f, p, [op EXCEPT !.in[a + 1] = f[p[1]].ops[s].in[1]]), <<p[1], s>>)

FoldCallArguments(f, p) ==
    IF OpAt(f, p).op = "CALL" THEN FoldLeft(LAMBDA g, a : FoldArgument(g, p, a), f, <<1, 2, 3, 4>>) ELSE f

\* a write to r10 or r11 with no read before the next call of the block
DropClobbered(f, p) ==
    LET ops   == f[p[1]].ops
        op    == OpAt(f, p)
        later == {j \in (p[2] + 1)..Len(ops) : ops[j].op # "NOP"}
        reads(j)  == \E v \in Range(ops[j].in) : IsReg(v) /\ v.id = op.out.id
        writes(j) == IsReg(ops[j].out) /\ ops[j].out.id = op.out.id
        calls == {j \in later : ops[j].op = "CALL"}
    IN IF /\ op.op \notin {"NOP", "CALL"} /\ IsReg(op.out) /\ op.out.id \in CallerSaved
          /\ \E c \in calls : \A j \in later : j < c => ~reads(j) /\ ~writes(j) /\ j \notin calls
       THEN MakeNop(f, p) ELSE f

FoldArgSetup(f) == EraseNops(Sweep(DropClobbered, EraseNops(Sweep(FoldCallArguments, f))))

ReplaceAnyVersion(f, old, new, p) ==   \* mutant: the version is not compared
    LET Renew(op) == [op EXCEPT !.in = MapSeq(LAMBDA vn : IF SameVar(vn, old) THEN new ELSE vn, @)]
    IN SetOp(EachBlock(f, LAMBDA b : [f[b] EXCEPT !.ops = MapSeq(Renew, @)]), p, OpAt(f, p))

ReplaceUses(f, old, new, p) ==
    LET Renew(op) == [op EXCEPT !.in = MapSeq(LAMBDA vn : IF vn = old THEN new ELSE vn, @)]
    IN SetOp(EachBlock(f, LAMBDA b : [f[b] EXCEPT !.ops = MapSeq(Renew, @)]), p, OpAt(f, p))

\* the readers of a copy read its source instead; the copy goes when none is left
PropagateCopy(f, p) ==
    LET op == OpAt(f, p)
        g  == ReplaceUses(f, op.out, op.in[1], p)
    IN IF \/ op.op # "COPY" \/ op.in = << >> \/ IsPhi(op)
          \/ IsConst(op.in[1]) /\ IsReg(op.out) /\ op.out.id = 4
       THEN f
       ELSE IF IsUsed(op.out, g, p) THEN g ELSE MakeNop(g, p)

CopyPropagation(f) == EraseNops(Repeat(PropagateCopy, f, 8))

Folded == {"ADD", "SUB", "AND", "OR", "XOR", "SHIFT_LEFT", "SHIFT_RIGHT", "INT_MULT",
           "INT_EQUAL", "INT_LESS", "INT_SLESS"}
FoldConstant(f, p) ==
    LET op == OpAt(f, p)
    IN IF op.op \in Folded /\ Len(op.in) = 2 /\ IsConst(op.in[1]) /\ IsConst(op.in[2])
       THEN SetOp(f, p, [op EXCEPT !.op = "COPY",
                         !.in = <<Const(Binary(op.op, op.in[1].off % M, op.in[2].off % M))>>])
       ELSE f
ConstantFold(f) == Sweep(FoldConstant, f)

\* ZF = a == b; t = !ZF; branch on t  becomes  t = a != b; branch on t.  The
\* negation and the branch are looked for by register, whatever the version.
FoldFlag(f, p) ==
    LET ops == f[p[1]].ops
        op  == OpAt(f, p)
        nots == {j \in (p[2] + 1)..Len(ops) :
                   ops[j].op = "BOOL_NOT" /\ SameVar(ops[j].in[1], op.out)}
        direct == {j \in (p[2] + 1)..Len(ops) :
                     ops[j].op = "CBRANCH" /\ SameVar(ops[j].in[2], op.out)}
        n   == CHOOSE j \in nots : \A i \in nots : j <= i
        branches == {k \in (n + 1)..Len(ops) :
                       ops[k].op = "CBRANCH" /\ SameVar(ops[k].in[2], ops[n].out)}
    IN CASE /\ op.op = "INT_EQUAL" /\ op.out.id >= 100
            /\ nots # {} /\ (\A d \in direct : n < d) /\ branches # {} ->
              MakeNop(SetOp(f, p, [op EXCEPT !.op = "INT_NEQUAL", !.out = ops[n].out]), <<p[1], n>>)
         [] op.op = "AND" /\ Len(op.in) = 2 /\ op.in[1] = op.in[2] ->
              SetOp(f, p, [op EXCEPT !.op = "COPY", !.in = <<op.in[1]>>])
         [] OTHER -> f
\* the last operation of a block is not looked at
FoldFlags(f) ==
    EraseNops(Sweep(LAMBDA g, p : IF p[2] < Len(f[p[1]].ops) THEN FoldFlag(g, p) ELSE g, f))

\* a temporary read once: the reader takes the first input of what computed it
Readers(f, vn, p) ==
    {r \in (Range(Positions(f)) \ {p}) \X (1..5) :
        LET op == OpAt(f, r[1]) IN op.op # "NOP" /\ r[2] <= Len(op.in) /\ op.in[r[2]] = vn}
InlineTemp(f, p) ==
    LET op == OpAt(f, p)
        readers == Readers(f, op.out, p)
        r  == CHOOSE x \in readers : TRUE
        by == OpAt(f, r[1])
    IN IF \/ op.op \in Effects \cup {"NOP"} \/ ~IsTemp(op.out) \/ op.in = << >>
          \/ Cardinality(readers) # 1
       THEN f
       ELSE MakeNop(SetOp(f, r[1], IF Len(op.in) > 2 THEN by
                                   ELSE [by EXCEPT !.in[r[2]] = op.in[1]]), p)
InlineSingleUse(f) == EraseNops(Repeat(InlineTemp, f, 8))
=============================================================================
