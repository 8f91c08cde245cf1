----------------------------- MODULE Structure -----------------------------
(* From p-code to C: CFStructure (core/decompiler/cf_struct.cpp) turns the
   blocks into statements, Emitter (core/decompiler/emitter.cpp) prints them.

   A statement keeps the operation its expression was built from (op), the
   condition's varnode, and its bodies; a printed line is [kind, addr, indent].
   The text of expressions, the names and types of variables and the
   declarations are left out.                                                  *)
EXTENDS PCode

Stmt(kind, addr, op, cond, body, else, to) ==
    [kind |-> kind, addr |-> addr, op |-> op, cond |-> cond, body |-> body, else |-> else, to |-> to]
NoOp == Insn("NOP", NoOutput, << >>, 0, 0)

-----------------------------------------------------------------------------
(* CFStructure.                                                              *)
\* a store keeps the stored value twice, in its expression and as the condition
StmtOf(op) ==
    CASE op.op = "STORE"  -> Stmt("Expr", op.addr, op, op.in[2], << >>, << >>, 0)
      [] op.op = "RETURN" -> Stmt("Return", op.addr, op, Const(0), << >>, << >>, 0)
      [] OTHER            -> Stmt("Assign", op.addr, op, Const(0), << >>, << >>, 0)

\* every operation but branches, up to the first return
BlockStmts(blk) ==
    LET rets == {i \in 1..Len(blk.ops) : blk.ops[i].op = "RETURN"}
        end  == IF rets = {} THEN Len(blk.ops) ELSE CHOOSE i \in rets : \A j \in rets : i <= j
        kept == SelectSeq(SubSeq(blk.ops, 1, end), LAMBDA op : op.op \notin {"NOP", "CBRANCH", "BRANCH"})
    IN [i \in 1..Len(kept) |-> StmtOf(kept[i])]

\* the last conditional branch of a block
CBranches(blk) == SelectSeq(blk.ops, LAMBDA op : op.op = "CBRANCH")
CondOf(blk) == IF CBranches(blk) = << >> THEN Const(1)
               ELSE CBranches(blk)[Len(CBranches(blk))].in[2]
IsBackEdge(from, to) == to <= from

\* the successor at the branch's target, and the last other one
TrueSucc(f, b) ==
    LET target == CBranches(f[b])[Len(CBranches(f[b]))].in[1].off
        hits == SelectSeq(f[b].succs, LAMBDA s : AddrOf(s) = target)
    IN IF hits = << >> THEN f[b].succs[1] ELSE hits[Len(hits)]
FalseSucc(f, b) ==
    LET target == CBranches(f[b])[Len(CBranches(f[b]))].in[1].off
        rest == SelectSeq(f[b].succs, LAMBDA s : AddrOf(s) # target)
    IN IF rest = << >> THEN f[b].succs[2] ELSE rest[Len(rest)]

\* an expression is a constant when build_expr takes its only input for it
IsConstExpr(op) == op.op \in {"COPY", "INT_ZEXT", "INT_SEXT"} /\ IsConst(op.in[1])

\* try_for_loop: the statement printed last sets a variable to a constant and
\* the block of the back edge counts it up or down
ForVar(f, b, out) ==
    LET last == out[Len(out)]
        counts(op) == op.op \in {"ADD", "SUB"} /\ op.out = last.op.out /\ Len(op.in) >= 2
    IN out # << >> /\ last.kind = "Assign" /\ IsConstExpr(last.op)
       /\ \E op \in Range(f[b].ops) : counts(op)

\* the blocks of the loop not visited yet, and their statements
LoopBody(f, from, b, visited) ==
    FlattenSeq([i \in 1..(b - from) |-> IF from + i - 1 \in visited THEN << >>
                                        ELSE BlockStmts(f[from + i - 1])])

\* both arms of an `if` are printed when the true one may reach the false one
\* or a block after both
HasMerge(f, t, e) ==
    \E s \in Range(f[t].succs) : s = e \/ s > (IF t > e THEN t ELSE e)

Place(st, s, seen) == [visited |-> st.visited \cup seen, out |-> Append(st.out, s)]
\* a block with a condition becomes a loop or an `if`; st has its own statements
Conditional(f, st, b) ==
    LET t == TrueSucc(f, b)
        e == FalseSucc(f, b)
        isFor == ForVar(f, b, st.out)
        S(kind, cond, body, else) == Stmt(kind, AddrOf(b), NoOp, cond, body, else, 0)
    IN CASE IsBackEdge(b, t) ->
              LET head == IF isFor THEN t ELSE b
              IN Place(st, Stmt(IF isFor THEN "For" ELSE "While", AddrOf(head), NoOp, CondOf(f[head]),
                                LoopBody(f, t, b, st.visited), << >>, 0), t..(b-1))
         [] ~IsBackEdge(b, t) /\ IsBackEdge(b, e) ->
              Place(st, S("DoWhile", CondOf(f[b]), << >>, << >>), {})
         [] ~IsBackEdge(b, t) /\ ~IsBackEdge(b, e) ->
              IF HasMerge(f, t, e)
              THEN Place(st, S("IfElse", CondOf(f[b]), BlockStmts(f[t]), BlockStmts(f[e])), {t, e})
              ELSE Place(st, S("If", CondOf(f[b]), BlockStmts(f[t]), << >>), {t})

\* one turn of structure_region's loop
Region(f, st, b) ==
    LET blk  == f[b]
        here == [visited |-> st.visited \cup {b}, out |-> st.out \o BlockStmts(blk)]
    IN IF b \in st.visited THEN st
       ELSE IF CBranches(blk) # << >> /\ Len(blk.succs) >= 2 THEN Conditional(f, here, b)
       ELSE IF ~blk.ret /\ Len(blk.succs) = 1 /\ IsBackEdge(b, blk.succs[1])
       THEN Place(here, Stmt("Goto", AddrOf(b), NoOp, Const(0), << >>, << >>, AddrOf(blk.succs[1])), {})
       ELSE here

StructureFunction(f) ==
    FoldLeft(LAMBDA st, i : Region(f, st, i - 1), [visited |-> {}, out |-> << >>],
             [i \in 1..Cardinality(Blocks(f)) |-> i]).out

-----------------------------------------------------------------------------
(* Emitter.  Statements nest one deep: the bodies of structure_region hold
   plain statements only.                                                    *)
Flat(body) == FlattenSeq([i \in 1..Len(body) |-> <<body[i]>> \o body[i].body \o body[i].else])

\* build_inline_map: the temporaries set once by something other than a call
\* and read once; the numbers of temporaries are compared, not their versions
InlineTemps(body) ==
    LET all  == Flat(body)
        uses(id) == FoldLeft(LAMBDA n, s : n + Cardinality({k \in 1..Len(s.op.in) :
                                  IsTemp(s.op.in[k]) /\ s.op.in[k].id = id})
                               + (IF IsTemp(s.cond) /\ s.cond.id = id THEN 1 ELSE 0), 0, all)
    IN {s.op.out.id : s \in {s \in Range(all) : /\ s.kind = "Assign" /\ IsTemp(s.op.out)
                                                /\ s.op.op # "CALL" /\ uses(s.op.out.id) = 1}}

PlainIsDead(s, inline) ==
    /\ s.kind = "Assign" /\ s.op.op # "CALL"
    /\ \/ IsTemp(s.op.out) /\ s.op.out.id \in inline
       \/ IsReg(s.op.out) /\ s.op.out.id \in {1, 2, 8, 9}
BodyIsDead(body, inline) == \A s \in Range(body) : PlainIsDead(s, inline)
IsDead(s, inline) ==
    IF s.kind \in {"If", "IfElse", "While", "DoWhile", "For"}
    THEN BodyIsDead(s.body, inline) /\ BodyIsDead(s.else, inline)
    ELSE PlainIsDead(s, inline)

IsRax(vn) == IsReg(vn) /\ vn.id = 0
\* what func_has_meaningful_return says of one list: a bare `return rax` ends it
ListReturns(body) ==
    LET rets == SelectSeq(body, LAMBDA s : s.kind = "Return" /\ s.op.in[1] # Const(0))
    IN rets # << >> /\ ~IsRax(rets[1].op.in[1])
\* the first return that counts is a bare `return rax`, or there is none
IsVoid(body) ==
    LET says == {i \in 1..Len(body) : \/ body[i].kind = "Return" /\ body[i].op.in[1] # Const(0)
                                      \/ ListReturns(body[i].body) \/ ListReturns(body[i].else)}
    IN \A i \in says : (\A j \in says : i <= j) => body[i].kind = "Return" /\ IsRax(body[i].op.in[1])

Line(kind, addr, indent) == [kind |-> kind, addr |-> addr, indent |-> indent]
SilentReturn(s, void) == void \/ IsRax(s.op.in[1]) \/ s.op.in[1] = Const(0)

\* emit_stmt of a statement without a body: e is [out, returned]
EmitPlain(e, s, indent, inline, void) ==
    IF e.returned \/ PlainIsDead(s, inline) THEN e
    ELSE CASE s.kind = "Return" ->
                [out |-> IF SilentReturn(s, void) THEN e.out
                         ELSE Append(e.out, Line("return", s.addr, indent)), returned |-> TRUE]
           [] s.kind = "Goto" -> [e EXCEPT !.out = Append(@, Line("goto", s.addr, indent))]
           [] s.kind \in {"Assign", "Expr"} -> [e EXCEPT !.out = Append(@, Line(s.op.op, s.addr, indent))]

EmitBody(out, body, indent, inline, void) ==
    FoldLeft(LAMBDA e, s : EmitPlain(e, s, indent, inline, void), [out |-> out, returned |-> FALSE], body).out

EmitDeadArm(out, s, inline, void) ==   \* mutant: the arm that prints nothing is kept
    LET open == Append(out, Line("if", s.addr, 1))
        arm  == IF BodyIsDead(s.body, inline) THEN s.body ELSE s.else
    IN Append(EmitBody(open, arm, 2, inline, void), Line("end", 0, 1))

\* `if` with both arms, the arm that prints nothing left out
EmitIfElse(out, s, inline, void) ==
    LET open == Append(out, Line("if", s.addr, 1))
        arm  == IF BodyIsDead(s.body, inline) THEN s.else ELSE s.body
        one  == EmitBody(open, arm, 2, inline, void)
    IN Append(IF BodyIsDead(s.body, inline) \/ BodyIsDead(s.else, inline) THEN one
              ELSE EmitBody(Append(one, Line("else", 0, 1)), s.else, 2, inline, void),
              Line("end", 0, 1))

\* a return inside `if` is forgotten after it, one inside a loop never counts
EmitStmt(e, s, inline, void) ==
    IF e.returned \/ IsDead(s, inline) THEN e
    ELSE CASE s.kind \in {"If", "While", "DoWhile", "For"} ->
                [e EXCEPT !.out = Append(EmitBody(Append(@, Line(s.kind, s.addr, 1)), s.body, 2, inline, void),
                                         Line("end", 0, 1))]
           [] s.kind = "IfElse" -> [e EXCEPT !.out = EmitIfElse(@, s, inline, void)]
           [] OTHER -> EmitPlain(e, s, 1, inline, void)

EmitFunction(body) ==
    LET inline == InlineTemps(body)
        void   == IsVoid(body)
    IN <<Line(IF void THEN "void" ELSE "typed", 0, 0)>>
       \o FoldLeft(LAMBDA e, s : EmitStmt(e, s, inline, void), [out |-> << >>, returned |-> FALSE], body).out
       \o <<Line("end", 0, 0)>>

=============================================================================
