---------------------------- MODULE MCDecompiler ----------------------------
(* The functions the decompiler is checked on.                               *)
EXTENDS Decompiler

At(insns, base) == [i \in 1..Len(insns) |-> insns[i] @@ [addr |-> base + i]]
T(type, ops)  == [type |-> type, ops |-> ops]
C(type, cc, ops) == [type |-> type, cc |-> cc, ops |-> ops]

Straight(arch, insns, ret) ==
    [arch |-> arch, blocks |-> [b \in {0} |-> At(Append(insns, ret), 10)], succs |-> [b \in {0} |-> << >>]]

\* x64: pieces of straight-line code
Pieces == {
    <<T("Mov", <<R(RBX), I(1)>>)>>, <<T("Mov", <<R(RCX), R(RBX)>>)>>,
    <<T("Mov", <<Mem(RCX, RBX, 2, 1), R(RDX)>>)>>, <<T("Mov", <<R(RDX), Mem(RBX, NoReg, 1, 0)>>)>>,
    <<T("Mov", <<R(RBX), Abs(2)>>)>>, <<T("Mov", <<Mem(NoReg, NoReg, 1, 3), R(RBX)>>)>>,
    <<T("Lea", <<R(RBX), Mem(RCX, RDX, 2, 1)>>)>>, <<T("Lea", <<R(RAX), Abs(3)>>)>>,
    <<T("Add", <<R(RBX), R(RCX)>>)>>, <<T("Sub", <<Mem(RBX, NoReg, 1, 1), I(1)>>)>>,
    <<T("And", <<R(RBX), I(2)>>), T("Or", <<R(RAX), R(RBX)>>)>>,
    <<T("Xor", <<R(RBX), R(RBX)>>)>>, <<T("Xor", <<R(RBX), R(RCX)>>), T("Shl", <<R(RCX), I(1)>>)>>,
    <<T("Shr", <<R(RBX), I(1)>>), T("Inc", <<R(RBX)>>)>>, <<T("Dec", <<Mem(NoReg, RCX, 1, 0)>>)>>,
    <<T("Mul", <<R(RBX)>>)>>, <<T("Imul", <<R(RBX), R(RCX)>>)>>, <<T("Imul", <<R(RCX), R(RBX), I(3)>>)>>,
    <<T("Xor", <<R(RDX), R(RDX)>>), T("Div", <<R(RCX)>>)>>, <<T("Not", <<R(RBX)>>), T("Movzx", <<R(RDX), R(RBX)>>)>>,
    <<T("Push", <<R(RBX)>>)>>, <<T("Pop", <<R(RCX)>>)>>,
    <<T("Push", <<R(RSP)>>)>>, <<T("Push", <<Mem(RSP, NoReg, 1, 1)>>)>>, <<T("Pop", <<Mem(RBX, NoReg, 1, 0)>>)>>,
    <<T("Pop", <<R(RSP)>>)>>, <<T("Pop", <<Mem(RSP, NoReg, 1, 1)>>)>>, <<T("Mov", <<Abs(2), R(RBX)>>)>>,
    <<C("Setcc", "JNZ", <<R(RBX)>>)>>,
    <<T("Test", <<R(RBX), R(RCX)>>), C("Setcc", "JL", <<R(RDX)>>)>>,
    <<T("Cmp", <<R(RBX), R(RCX)>>), C("Setcc", "JBE", <<R(RDX)>>)>>,
    <<T("Cmp", <<R(RBX), R(RCX)>>), C("Setcc", "JB", <<R(RDX)>>)>>,
    <<T("Test", <<R(RBX), R(RBX)>>), C("Setcc", "JNZ", <<R(RAX)>>)>>,
    <<T("Mov", <<R(RCX), I(2)>>), T("Call", <<I(7)>>)>>, <<T("Nop", << >>), T("Int", << >>)>> }
StraightX64 == {Straight("x64", p \o q, T("Ret", << >>)) : p, q \in Pieces}

ArmPieces == {
    <<T("mov", <<R(200), I(1)>>)>>, <<T("add", <<R(201), R(200), I(3)>>)>>, <<T("sub", <<R(201), R(200)>>)>>,
    <<T("ldr", <<R(201), Mem(200, 202, 1, 1)>>)>>, <<T("str", <<R(201), Mem(200, NoReg, 1, 0)>>)>>,
    <<T("bl", <<I(7)>>)>> }
Arm64Pieces == ArmPieces \cup {
    <<T("mul", <<R(200), R(201), R(202)>>)>>, <<T("madd", <<R(200), R(201), R(202), R(203)>>)>>,
    <<T("and", <<R(201), R(200), R(202)>>)>>, <<T("bic", <<R(201), R(200), R(202)>>)>>,
    <<T("orr", <<R(201), R(XZR), R(202)>>)>>, <<T("orn", <<R(200), R(201), R(202)>>)>>,
    <<T("eor", <<R(201), R(200), R(202)>>)>>, <<T("eon", <<R(200), R(201), R(202)>>)>>,
    <<T("lsl", <<R(200), R(200), I(1)>>)>>, <<T("lsr", <<R(201), R(202), I(1)>>)>>,
    <<T("ldp", <<R(200), R(201), Mem(202, NoReg, 1, 1)>>)>>,
    <<T("stp", <<R(200), R(201), Mem(202, NoReg, 1, 2)>>)>>,
    <<T("cmp", <<R(200), R(201)>>), T("nop", << >>), T("svc", << >>)>> }
StraightArm ==
    {Straight("arm", p \o q, T("bx", <<R(LR)>>)) : p, q \in ArmPieces \cup {<<T("nop", << >>)>>}}
    \cup {Straight("arm64", p \o q, T("ret", << >>)) : p, q \in Arm64Pieces}

-----------------------------------------------------------------------------
\* x64 functions of several blocks: the last instructions and the successors
\* of every block, in the order of addresses
Goto(b)   == [end |-> <<T("Jmp", <<I(AddrOf(b))>>)>>, succs |-> <<b>>]
Fall(b)   == [end |-> << >>, succs |-> <<b>>]
If(b, e)  == [end |-> <<T("Cmp", <<R(RBX), R(RCX)>>), C("Jcc", "JZ", <<I(AddrOf(b))>>)>>, succs |-> <<b, e>>]
IfNot(b, e) == [end |-> <<T("Cmp", <<R(RBX), I(2)>>), C("Jcc", "JNB", <<I(AddrOf(b))>>)>>, succs |-> <<b, e>>]
Ret       == [end |-> <<T("Ret", << >>)>>, succs |-> << >>]
Shapes == {
    <<If(2, 1), Fall(2), Ret>>,                         \* if
    <<If(2, 1), Goto(3), Fall(3), Ret>>,                \* if, else
    <<Fall(1), If(1, 2), Ret>>,                         \* do, while
    <<Fall(1), IfNot(3, 2), Goto(1), Ret>>,             \* while
    <<Goto(2), Fall(2), IfNot(1, 3), Ret>>,             \* while, tested below its body
    <<Goto(3), Fall(2), Ret, If(1, 4), Goto(2)>>,       \* the test laid out behind its arms
    <<If(3, 1), If(4, 2), Goto(1), Goto(2), Ret>>,      \* a loop entered twice
    <<If(0, 1), Ret>>, <<If(2, 1), Goto(0), Ret>> }     \* a loop at the entry
Bodies == { << >>, <<T("Mov", <<R(RBX), I(1)>>)>>, <<T("Add", <<R(RBX), R(RCX)>>)>>,
            <<T("Mov", <<Mem(RCX, NoReg, 1, 0), R(RBX)>>)>>, <<T("Call", <<I(7)>>)>> }
Branching ==
    UNION {{[arch |-> "x64", succs |-> [b \in 0..Len(s)-1 |-> s[b+1].succs],
             blocks |-> [b \in 0..Len(s)-1 |-> At((IF b+1 \in DOMAIN c THEN c[b+1] ELSE << >>) \o s[b+1].end, 10 * b + 10)]] :
              c \in [1..3 -> Bodies]} : s \in Shapes}

\* i = 0; do { call; i = i + 1 } while (i # rcx)
Counting == [arch |-> "x64", succs |-> [b \in 0..2 |-> <<<<1>>, <<1, 2>>, << >>>>[b+1]],
    blocks |-> [b \in 0..2 |-> <<
        At(<<T("Mov", <<R(RBX), I(0)>>)>>, 10),
        At(<<T("Call", <<I(7)>>), T("Inc", <<R(RBX)>>), T("Cmp", <<R(RBX), R(RCX)>>),
             C("Jcc", "JNZ", <<I(AddrOf(1))>>)>>, 20),
        At(<<T("Ret", << >>)>>, 30)>>[b+1]]]
\* the functions decompile turns down
Declined == {
    [arch |-> "x64", blocks |-> << >>, succs |-> << >>],
    [arch |-> "mips", blocks |-> [b \in {0} |-> At(<<T("jr", << >>)>>, 10)], succs |-> [b \in {0} |-> << >>]],
    [arch |-> "x64", succs |-> [b \in 0..5 |-> << >>],
     blocks |-> [b \in 0..5 |-> At(<<T("Call", <<I(b \div 2)>>), T("Ret", << >>)>>, 10 * b)]] }

MCPrograms == StraightX64 \cup StraightArm \cup Declined \cup Branching \cup {Counting}
MCEntries  == {[regs |-> [r \in 0..15 \cup 200..203 |-> (r * k + 1) % 4], mem |-> [a \in 0..3 |-> (a + k) % 4]] :
                 k \in {1, 3}}

(* Whatever is lifted is a graph as the theorems about the dominators take it. *)
ASSUME LiftedIsFlowGraph ==
    \A p \in MCPrograms \ Declined : IsFlowGraph(Lift(p))
=============================================================================
