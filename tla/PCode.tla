-------------------------------- MODULE PCode --------------------------------
(* The p-code of the decompiler (core/decompiler/ir.h): varnodes, operations,
   blocks and functions, and what running a function does.  The passes of the
   decompiler (Lifter, SSA, DeadCode, Propagate) take and return functions.

   Left out: sizes of varnodes (every value has Width bits) and names.  A block
   is numbered as in PcodeFunc::blocks, from 0, in the order of addresses.
   Running a function is not code of the repository: it is the reference the
   passes are compared with.                                                   *)
EXTENDS Integers, Sequences, SequencesExt, FiniteSets, Bitwise, TLC

CONSTANTS Width,      \* bits of a value
          Fuel        \* blocks a run may enter

ASSUME SizesAssumption == Width \in Nat \ {0} /\ Fuel \in Nat

M == 2^Width

\* vn_reg, vn_temp, vn_const of ir.h; the version SSA gives is in `off`
Reg(id)   == [kind |-> "reg",   id |-> id, off |-> 0]
Temp(id)  == [kind |-> "temp",  id |-> id, off |-> 0]
Const(v)  == [kind |-> "const", id |-> -1, off |-> v]
\* a default-constructed Varnode: the output of an operation without one
NoOutput  == Const(0)

IsReg(vn)   == vn.kind = "reg"
IsTemp(vn)  == vn.kind = "temp"
IsConst(vn) == vn.kind = "const"

Insn(op, out, in, addr, seq) ==
    [op |-> op, out |-> out, in |-> in, addr |-> addr, seq |-> seq]

\* the operations that stay whatever reads their output
Effects == {"CALL", "RETURN", "CBRANCH", "BRANCH", "STORE"}

\* PcodeBlock::addr of a block, the constant a branch holds
AddrOf(b)    == 100 + b
Blocks(f)    == DOMAIN f
\* the sequence of new(x), the function whose block b is new(b): built by \o and
\* @@, as a function expression that is applied at once is never tabulated
MapSeq(new(_), seq) == [i \in DOMAIN seq |-> new(seq[i])] \o << >>
EachBlock(f, new(_)) == FoldLeft(LAMBDA g, i : g @@ (i - 1 :> new(i - 1)), << >>,
                                 [i \in 1..Cardinality(Blocks(f)) |-> i])
IsPhi(op)    == op.seq = -1
\* every position of a function, in the order the passes visit them
Positions(f) ==
    FlattenSeq([b \in 1..Cardinality(Blocks(f)) |->
                  [i \in 1..Len(f[b-1].ops) |-> <<b-1, i>>]])
OpAt(f, p)   == f[p[1]].ops[p[2]]
SetOp(f, p, op) == [f EXCEPT ![p[1]].ops[p[2]] = op]
MakeNop(f, p)   == [f EXCEPT ![p[1]].ops[p[2]].op = "NOP"]
\* std::erase_if(blk.ops, NOP) on every block
EraseNops(f) ==
    EachBlock(f, LAMBDA b : [f[b] EXCEPT !.ops = SelectSeq(@, LAMBDA op : op.op # "NOP")])

\* is_used: some operation other than the one at `skip` reads vn
IsUsed(vn, f, skip) ==
    \E b \in Blocks(f) : \E i \in 1..Len(f[b].ops) :
        /\ <<b, i>> # skip
        /\ f[b].ops[i].op # "NOP"
        /\ vn \in Range(f[b].ops[i].in)

-----------------------------------------------------------------------------
(* Values.                                                                   *)
Signed(v) == IF v >= M \div 2 THEN v - M ELSE v
Bool(b)   == IF b THEN 1 ELSE 0

Binary(op, l, r) ==
    CASE op = "ADD"         -> (l + r) % M
      [] op = "SUB"         -> (l - r) % M
      [] op = "AND"         -> l & r
      [] op = "OR"          -> l | r
      [] op = "XOR"         -> l ^^ r
      [] op = "SHIFT_LEFT"  -> (l * 2^r) % M
      [] op = "SHIFT_RIGHT" -> l \div 2^r
      [] op = "INT_MULT"    -> (l * r) % M
      [] op = "INT_DIV"     -> IF r = 0 THEN 0 ELSE l \div r
      [] op = "INT_EQUAL"   -> Bool(l = r)
      [] op = "INT_NEQUAL"  -> Bool(l # r)
      [] op = "INT_LESS"    -> Bool(l < r)
      [] op = "INT_SLESS"   -> Bool(Signed(l) < Signed(r))

-----------------------------------------------------------------------------
(* Running a function: env maps the varnodes written so far to their values,
   a varnode never written has the value the caller left in it (regs).  The
   trace is what the outside sees: stores, calls and the returned value.     *)
Start(regs, mem) ==
    [env |-> << >>, regs |-> regs, mem |-> mem, trace |-> << >>,
     block |-> 0, pred |-> -1, next |-> -1]

Value(s, vn) ==
    IF IsConst(vn) THEN vn.off % M
    ELSE IF vn \in DOMAIN s.env THEN s.env[vn]
    ELSE IF IsReg(vn) /\ vn.off = 0 /\ vn.id \in DOMAIN s.regs THEN s.regs[vn.id]
    ELSE 0

Assign(s, vn, v) == [s EXCEPT !.env = (vn :> v) @@ @]
Emit(s, event)   == [s EXCEPT !.trace = Append(@, event)]
\* what a callee returns: the callee is outside the function
Returned(target, args) == (target + FoldLeft(LAMBDA a, x : a + x, 1, args)) % M

\* the elements of a set of numbers in order
Ascending(S) == [i \in 1..Cardinality(S) |-> CHOOSE x \in S : Cardinality({y \in S : y < x}) = i - 1]
FirstIndex(seq, x) == CHOOSE i \in 1..Len(seq) : seq[i] = x /\ \A j \in 1..(i-1) : seq[j] # x

Step(f, s, op) ==
    LET in == [i \in 1..Len(op.in) |-> Value(s, op.in[i])]
    IN CASE op.op = "NOP"     -> s
         [] IsPhi(op)         ->
              IF s.pred = -1 THEN Assign(s, op.out, Value(s, [op.out EXCEPT !.off = 0]))
              ELSE Assign(s, op.out, in[FirstIndex(f[s.block].preds, s.pred)])
         [] op.op \in {"COPY", "INT_ZEXT", "INT_SEXT"} -> Assign(s, op.out, in[1])
         [] op.op = "INT_NEGATE" -> Assign(s, op.out, M - 1 - in[1])
         [] op.op = "BOOL_NOT" -> Assign(s, op.out, Bool(in[1] = 0))
         [] op.op = "LOAD"    -> Assign(s, op.out, s.mem[in[1]])
         [] op.op = "STORE"   -> Emit([s EXCEPT !.mem[in[1]] = in[2]], <<"store", in[1], in[2]>>)
         [] op.op = "CALL"    -> Emit(Assign(s, op.out, Returned(op.in[1].off, Tail(in))),
                                      <<"call", op.in[1].off, Tail(in)>>)
         [] op.op = "RETURN"  -> Emit(s, <<"return", in[1]>>)
         [] op.op = "BRANCH"  -> s
         [] op.op = "CBRANCH" -> IF in[2] # 0 THEN [s EXCEPT !.next = op.in[1].off - AddrOf(0)] ELSE s
         [] OTHER             -> Assign(s, op.out, Binary(op.op, in[1], in[2]))

\* runs the block s is at and moves to the block after it: the branch's target
\* when the condition holds, else the other successor; -1 when there is none
RunBlock(f, s) ==
    LET blk  == f[s.block]
        t    == FoldLeft(LAMBDA x, op : Step(f, x, op), [s EXCEPT !.next = -1], blk.ops)
        rest == SelectSeq(blk.succs, LAMBDA b : ~\E op \in Range(blk.ops) :
                                        op.op = "CBRANCH" /\ op.in[1].off = AddrOf(b))
        to   == IF t.next # -1 THEN t.next ELSE IF rest # << >> THEN rest[1] ELSE -1
    IN [t EXCEPT !.pred = s.block, !.block = to]

RunUpTo(f, s) ==
    FoldLeft(LAMBDA x, i : IF x.block = -1 THEN x ELSE RunBlock(f, x), s, [i \in 1..Fuel |-> i])
Trace(f, regs, mem) == RunUpTo(f, Start(regs, mem)).trace
=============================================================================
