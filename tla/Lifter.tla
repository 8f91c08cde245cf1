------------------------------- MODULE Lifter -------------------------------
(* Lifting machine code to p-code (core/decompiler/lifter.cpp, lifter_arm64.cpp,
   lifter_arm.cpp): what every instruction emits, and the function the blocks
   of an analysed function become.

   An instruction is [type, ops, addr] where type is InsnType for x64 and the
   mnemonic for ARM, and an operand [t |-> "reg"], "imm" or "mem".  Sizes are
   left out, so every operand is as wide as a register.  A lifting carries the
   operations emitted so far, the next temporary, the values the instruction has
   read (the local variables of the code), and the has_return flag.            *)
EXTENDS PCode

NoReg == -1
RIP   == -2
\* ids of kRegTable and of the flags
RAX == 0
RCX == 1
RDX == 2
RBX == 3
RSP == 4
ZF  == 100
CF  == 101
SF  == 102
OF  == 103
ArgRegs == <<1, 2, 8, 9>>       \* rcx, rdx, r8, r9
FirstTemp == 256
\* register ids the ARM lifters take from capstone; the zero register is a constant
ArmReg(k) == 200 + k
XZR == 190
LR  == 230
Slot == 1                       \* the size of a push, in memory cells

R(id)  == [t |-> "reg", reg |-> id]
I(v)   == [t |-> "imm", val |-> v]
Mem(base, index, scale, disp) ==
    [t |-> "mem", base |-> base, index |-> index, scale |-> scale, disp |-> disp, val |-> 0]
Abs(v) == [t |-> "mem", base |-> RIP, index |-> NoReg, scale |-> 1, disp |-> 1, val |-> v]

\* Insn::branch_target: the first operand when it is a number, else 0
BranchTarget(insn) ==
    IF insn.ops # << >> /\ insn.ops[1].t = "imm" THEN insn.ops[1].val ELSE 0

RegVn(arch, id) ==
    IF arch = "arm64" /\ id = XZR THEN Const(0)
    ELSE IF id = RIP THEN Reg(50) ELSE Reg(id)

\* emit, into a given place or into a fresh temporary, which is read next
EmitOp(l, op, out, in) ==
    [l EXCEPT !.ops = Append(@, Insn(op, out, in, l.addr, l.seq)), !.seq = @ + 1]
Read(l, vn)  == [l EXCEPT !.vals = Append(@, vn)]
Fresh(l)     == [Read(l, Temp(l.nt)) EXCEPT !.nt = @ + 1]
EmitTemp(l, op, in) == Fresh(EmitOp(l, op, Temp(l.nt), in))
\* the last values read, and an operation that takes their place
Top(l)       == Last(l.vals)
TopTwo(l)    == SubSeq(l.vals, Len(l.vals) - 1, Len(l.vals))
Drop(l, n)   == [l EXCEPT !.vals = SubSeq(@, 1, Len(@) - n)]
Unary(l, op)   == EmitTemp(Drop(l, 1), op, <<Top(l)>>)
Combine(l, op) == EmitTemp(Drop(l, 2), op, TopTwo(l))
\* copy the value read last to a register
CopyTo(l, reg) == EmitOp(l, "COPY", reg, <<Top(l)>>)

\* base + index * scale + disp: a constant 0 when there is none of them
Scaled(arch, l, m) ==
    IF arch = "x64" /\ m.scale > 1
    THEN Combine(Read(Read(l, RegVn(arch, m.index)), Const(m.scale)), "INT_MULT")
    ELSE Read(l, RegVn(arch, m.index))
BaseIndex(arch, l, m) ==
    CASE m.base # NoReg /\ m.index # NoReg -> Combine(Scaled(arch, Read(l, RegVn(arch, m.base)), m), "ADD")
      [] m.base = NoReg /\ m.index # NoReg -> Scaled(arch, l, m)
      [] m.base # NoReg /\ m.index = NoReg -> Read(l, RegVn(arch, m.base))
      [] m.base = NoReg /\ m.index = NoReg -> Read(l, Const(m.disp))
Displaced(l, m) ==
    IF m.disp # 0 /\ (m.base # NoReg \/ m.index # NoReg)
    THEN Combine(Read(l, Const(m.disp)), "ADD") ELSE l
Address(arch, l, m) == Displaced(BaseIndex(arch, l, m), m)
\* only x64 knows addresses relative to the instruction, and only to read
ReadAddress(arch, l, m) ==
    IF arch = "x64" /\ m.base = RIP /\ m.val # 0 THEN Read(l, Const(m.val)) ELSE Address(arch, l, m)

\* operand_read
OperandRead(arch, l, insn, idx) ==
    IF idx > Len(insn.ops) THEN Read(l, Const(0))
    ELSE LET o == insn.ops[idx]
         IN CASE o.t = "reg" -> Read(l, RegVn(arch, o.reg))
              [] o.t = "imm" -> Read(l, Const(o.val))
              [] o.t = "mem" -> Unary(ReadAddress(arch, l, o), "LOAD")

\* operand_write, of the value read last
StoreBelow(l) == EmitOp(l, "STORE", NoOutput, <<TopTwo(l)[2], TopTwo(l)[1]>>)
OperandWrite(arch, l, insn, idx) ==
    IF idx > Len(insn.ops) THEN l
    ELSE LET o == insn.ops[idx]
         IN CASE o.t = "reg" -> CopyTo(l, RegVn(arch, o.reg))
              [] o.t = "mem" -> StoreBelow(Address(arch, l, o))
              [] o.t = "imm" -> l

\* read two operands, apply an operation and write the result to another
ReadTwo(arch, l, insn, x, y) == OperandRead(arch, OperandRead(arch, l, insn, x), insn, y)
Compute(arch, l, insn, op, x, y, dst) ==
    OperandWrite(arch, Combine(ReadTwo(arch, l, insn, x, y), op), insn, dst)

Move(arch, l, insn, src, dst) ==
    OperandWrite(arch, OperandRead(arch, l, insn, src), insn, dst)

-----------------------------------------------------------------------------
(* x64.                                                                      *)
\* emit_flags: the two operands were read first
SetFlags(l, isTest) ==
    LET z == EmitOp(l, "INT_EQUAL", Reg(ZF), <<Top(l), Const(0)>>)
        s == EmitOp(z, "INT_SLESS", Reg(SF), <<Top(l), Const(0)>>)
        c == IF isTest THEN EmitOp(s, "COPY", Reg(CF), <<Const(0)>>)
             ELSE EmitOp(s, "INT_LESS", Reg(CF), <<l.vals[1], l.vals[2]>>)
    IN EmitOp(c, "COPY", Reg(OF), <<Const(0)>>)
EmitFlags(l, isTest) == SetFlags(EmitTemp(l, IF isTest THEN "AND" ELSE "SUB", l.vals), isTest)

\* jcc_to_flag_op: the flag a condition reads, and whether it is negated
FlagOf(cc) ==
    CASE cc \in {"JB", "JNB"} -> CF
      [] cc \in {"JL", "JNL"} -> SF
      [] OTHER                -> ZF
Negated(cc) == cc \notin {"JZ", "JB", "JL", "JLE", "JBE"}

\* the flag, or a temporary with its negation
LiftCondition(l, cc) ==
    IF Negated(cc) THEN EmitTemp(l, "BOOL_NOT", <<Reg(FlagOf(cc))>>) ELSE Read(l, Reg(FlagOf(cc)))

LiftLea(l, insn) == CopyTo(ReadAddress("x64", l, insn.ops[2]), Reg(insn.ops[1].reg))

ArithOp == [Add |-> "ADD", Sub |-> "SUB", And |-> "AND", Or |-> "OR", Xor |-> "XOR",
            Shl |-> "SHIFT_LEFT", Shr |-> "SHIFT_RIGHT", Sar |-> "SHIFT_RIGHT",
            Rol |-> "SHIFT_LEFT", Ror |-> "SHIFT_RIGHT"]

LiftArith(l, insn) ==
    IF insn.type = "Xor" /\ insn.ops[1].t = "reg" /\ insn.ops[1] = insn.ops[2]
    THEN OperandWrite("x64", Read(l, Const(0)), insn, 1)
    ELSE Compute("x64", l, insn, ArithOp[insn.type], 1, 2, 1)

LiftIncDec(l, insn) ==
    OperandWrite("x64", Combine(Read(OperandRead("x64", l, insn, 1), Const(1)),
                                IF insn.type = "Inc" THEN "ADD" ELSE "SUB"), insn, 1)

\* Mul and Imul take the temporary of the result before they read the operands;
\* with one operand they work on rax, as Div does
MultiplyRax(l) == EmitOp(EmitOp(l, "INT_MULT", l.vals[1], <<Reg(RAX), l.vals[2]>>),
                         "COPY", Reg(RAX), <<l.vals[1]>>)
Multiply(l)    == Drop(EmitOp(l, "INT_MULT", l.vals[1], TopTwo(l)), 2)
LiftMul(l, insn) ==
    IF Len(insn.ops) = 1 THEN MultiplyRax(OperandRead("x64", Fresh(l), insn, 1))
    ELSE OperandWrite("x64", Multiply(ReadTwo("x64", Fresh(l), insn, Len(insn.ops) - 1, Len(insn.ops))),
                      insn, 1)
LiftDiv(l, insn) ==
    CopyTo(Combine(OperandRead("x64", Read(l, Reg(RAX)), insn, 1), "INT_DIV"), Reg(RAX))

LiftUnary(l, insn) ==
    OperandWrite("x64", Unary(OperandRead("x64", l, insn, IF insn.type = "Not" THEN 1 ELSE 2),
                              [Not |-> "INT_NEGATE", Movsx |-> "INT_SEXT", Movzx |-> "INT_ZEXT"][insn.type]),
                 insn, 1)

MoveStack(l, op) == CopyTo(EmitTemp(l, op, <<Reg(RSP), Const(Slot)>>), Reg(RSP))
StorePushed(l)   == EmitOp(l, "STORE", NoOutput, <<Reg(RSP), l.vals[1]>>)


LiftPush(l, insn) == StorePushed(MoveStack(OperandRead("x64", l, insn, 1), "SUB"))

LiftPop(l, insn) ==
    MoveStack(OperandWrite("x64", EmitTemp(l, "LOAD", <<Reg(RSP)>>), insn, 1), "ADD")

LiftSetcc(l, insn) == OperandWrite("x64", Unary(LiftCondition(l, insn.cc), "INT_ZEXT"), insn, 1)

LiftCompare(l, insn) == EmitFlags(ReadTwo("x64", l, insn, 1, 2), insn.type = "Test")

LiftCall(l, insn) ==
    EmitOp(l, "CALL", Reg(RAX),
           <<Const(BranchTarget(insn))>> \o [i \in 1..4 |-> Reg(ArgRegs[i])])

\* to the target when the value read last is true
BranchIf(l, insn) == EmitOp(l, "CBRANCH", NoOutput, <<Const(BranchTarget(insn)), Top(l)>>)

LiftX64(l, insn) ==
    CASE insn.type = "Mov"                -> Move("x64", l, insn, 2, 1)
      [] insn.type = "Lea"                -> LiftLea(l, insn)
      [] insn.type \in DOMAIN ArithOp     -> LiftArith(l, insn)
      [] insn.type \in {"Inc", "Dec"}     -> LiftIncDec(l, insn)
      [] insn.type \in {"Mul", "Imul"}    -> LiftMul(l, insn)
      [] insn.type \in {"Div", "Idiv"}    -> LiftDiv(l, insn)
      [] insn.type \in {"Not", "Movsx", "Movzx"}      -> LiftUnary(l, insn)
      [] insn.type = "Push"               -> LiftPush(l, insn)
      [] insn.type = "Pop"                -> LiftPop(l, insn)
      [] insn.type \in {"Cmp", "Test"}    -> LiftCompare(l, insn)
      [] insn.type = "Setcc"              -> LiftSetcc(l, insn)
      [] insn.type = "Jcc"                -> BranchIf(LiftCondition(l, insn.cc), insn)
      [] insn.type = "Jmp"                -> EmitOp(l, "BRANCH", NoOutput, <<Const(BranchTarget(insn))>>)
      [] insn.type = "Call"               -> LiftCall(l, insn)
      [] insn.type = "Ret"                ->
           EmitOp([l EXCEPT !.ret = TRUE], "RETURN", NoOutput, <<Reg(RAX)>>)
      [] insn.type = "Nop"                -> l
      [] OTHER                            -> EmitTemp(l, "NOP", << >>)

-----------------------------------------------------------------------------
(* ARM64.                                                                    *)
\* add and sub: two operands mean the first one is read and written, after the
\* operands of the other form were read for nothing
ArmCompute(arch, l, insn, op) ==
    IF Len(insn.ops) = 2 THEN Compute(arch, Drop(ReadTwo(arch, l, insn, 2, 3), 2), insn, op, 1, 2, 1)
    ELSE Compute(arch, l, insn, op, 2, 3, 1)

\* and, orr, eor and the forms that negate their second operand
ArmLogic == [and |-> "AND", bic |-> "AND", orr |-> "OR", orn |-> "OR", eor |-> "XOR", eon |-> "XOR"]
Inverted(l, insn) == IF insn.type \in {"bic", "orn", "eon"} THEN Unary(l, "INT_NEGATE") ELSE l
LiftLogic(l, insn) ==
    OperandWrite("arm64", Combine(Inverted(ReadTwo("arm64", l, insn, 2, 3), insn), ArmLogic[insn.type]),
                 insn, 1)

AddFourth(l) == EmitTemp(l, "ADD", <<Top(l), l.vals[1]>>)
LiftMadd(l, insn) ==
    LET product == Combine(ReadTwo("arm64", l, insn, 2, 3), "INT_MULT")
    IN OperandWrite("arm64", IF insn.type = "madd" /\ Len(insn.ops) = 4
                             THEN AddFourth(OperandRead("arm64", product, insn, 4)) ELSE product, insn, 1)

\* the address of a register pair: the base and its displacement, no index
PairAddress(l, m) ==
    IF m.disp = 0 THEN Read(l, RegVn("arm64", m.base))
    ELSE EmitTemp(l, "ADD", <<RegVn("arm64", m.base), Const(m.disp)>>)
\* the address behind that of the first of the pair
Second(l) == EmitTemp(l, "ADD", <<l.vals[1], Const(Slot)>>)

LoadTo(l, insn, idx) == OperandWrite("arm64", EmitTemp(l, "LOAD", <<Top(l)>>), insn, idx)
LiftLdp(l, insn) == LoadTo(Second(LoadTo(PairAddress(l, insn.ops[3]), insn, 1)), insn, 2)

StoreFrom(l, insn, idx) ==
    EmitOp(l, "STORE", NoOutput, <<Top(l), RegVn("arm64", insn.ops[idx].reg)>>)
LiftStp(l, insn) == StoreFrom(Second(StoreFrom(PairAddress(l, insn.ops[3]), insn, 1)), insn, 2)

\* the target is looked for in the first operand, which is the register
LiftCbz(l, insn) ==
    BranchIf(EmitTemp(l, IF insn.type = "cbz" THEN "INT_EQUAL" ELSE "INT_NEQUAL",
                      <<RegVn("arm64", insn.ops[1].reg), Const(0)>>), insn)

\* no instruction of ARM64 sets ZF
LiftBCond(l, insn) ==
    BranchIf(CASE insn.type = "b.eq" -> Read(l, Reg(ZF))
               [] insn.type = "b.ne" -> EmitTemp(l, "BOOL_NOT", <<Reg(ZF)>>)
               [] OTHER              -> Read(l, Const(1)), insn)

LiftArm64(l, insn) ==
    CASE insn.type = "mov"          -> Move("arm64", l, insn, 2, 1)
      [] insn.type = "add"          -> ArmCompute("arm64", l, insn, "ADD")
      [] insn.type = "sub"          -> ArmCompute("arm64", l, insn, "SUB")
      [] insn.type \in {"mul", "madd"} -> LiftMadd(l, insn)
      [] insn.type \in DOMAIN ArmLogic -> LiftLogic(l, insn)
      [] insn.type = "lsl"          -> Compute("arm64", l, insn, "SHIFT_LEFT", 2, 3, 1)
      [] insn.type = "lsr"          -> Compute("arm64", l, insn, "SHIFT_RIGHT", 2, 3, 1)
      [] insn.type = "ldr"          -> Move("arm64", l, insn, 2, 1)
      [] insn.type = "str"          -> Move("arm64", l, insn, 1, 2)
      [] insn.type = "ldp"          -> LiftLdp(l, insn)
      [] insn.type = "stp"          -> LiftStp(l, insn)
      [] insn.type = "cmp"          -> l
      [] insn.type \in {"cbz", "cbnz"} -> LiftCbz(l, insn)
      [] insn.type \in {"b.eq", "b.ne", "b.lt"} -> LiftBCond(l, insn)
      [] insn.type = "b"            -> EmitOp(l, "BRANCH", NoOutput, <<Const(BranchTarget(insn))>>)
      [] insn.type = "bl"           -> EmitOp(l, "CALL", Reg(ArmReg(0)), <<Const(BranchTarget(insn))>>)
      [] insn.type = "ret"          ->
           EmitOp([l EXCEPT !.ret = TRUE], "RETURN", NoOutput, <<Reg(ArmReg(0))>>)
      [] insn.type = "nop"          -> l
      [] OTHER                      -> EmitTemp(l, "NOP", << >>)

-----------------------------------------------------------------------------
(* 32-bit ARM.                                                               *)
LiftArm(l, insn) ==
    CASE insn.type = "mov" -> Move("arm", l, insn, 2, 1)
      [] insn.type = "add" -> ArmCompute("arm", l, insn, "ADD")
      [] insn.type = "sub" -> ArmCompute("arm", l, insn, "SUB")
      [] insn.type = "ldr" -> Move("arm", l, insn, 2, 1)
      [] insn.type = "str" -> Move("arm", l, insn, 1, 2)
      [] insn.type = "bl"  -> EmitOp(l, "CALL", Reg(ArmReg(0)), <<Const(BranchTarget(insn))>>)
      [] insn.type = "bx" /\ insn.ops[1] = R(LR) ->
           EmitOp([l EXCEPT !.ret = TRUE], "RETURN", NoOutput, <<Reg(ArmReg(0))>>)
      [] insn.type = "b"   -> EmitOp(l, "BRANCH", NoOutput, <<Const(BranchTarget(insn))>>)
      [] OTHER             -> EmitTemp(l, "NOP", << >>)

-----------------------------------------------------------------------------
(* A function: prog is [arch, blocks, succs], blocks[b] the instructions of the
   block at the b-th address and succs[b] its successors, both from 0.         *)
LiftInsn(arch, l, insn) ==
    LET l0 == [l EXCEPT !.addr = insn.addr, !.seq = 0, !.vals = << >>]
    IN CASE arch = "x64"   -> LiftX64(l0, insn)
         [] arch = "arm64" -> LiftArm64(l0, insn)
         [] arch = "arm"   -> LiftArm(l0, insn)

LiftBlock(arch, nt, insns) ==
    FoldLeft(LAMBDA l, insn : LiftInsn(arch, l, insn),
             [ops |-> << >>, nt |-> nt, vals |-> << >>, addr |-> 0, seq |-> 0, ret |-> FALSE], insns)

\* the blocks in the order of their addresses, temporaries numbered through
LiftBlocks(prog) ==
    FoldLeft(LAMBDA ls, b : Append(ls, LiftBlock(prog.arch, ls[Len(ls)].nt, prog.blocks[b-1])),
             <<[nt |-> FirstTemp]>>, [b \in 1..Cardinality(DOMAIN prog.blocks) |-> b])
Linked(prog, done) ==
    LET N == Cardinality(DOMAIN prog.blocks)
    IN [b \in 0..N-1 |->
          [ops   |-> done[b+2].ops,
           succs |-> prog.succs[b],
           preds |-> FlattenSeq([p \in 1..N |->
                       LET edges == SelectSeq(prog.succs[p-1], LAMBDA s : s = b)
                       IN [i \in 1..Len(edges) |-> p-1]]),
           ret   |-> done[b+2].ret]]
Lift(prog) == Linked(prog, LiftBlocks(prog))
=============================================================================
