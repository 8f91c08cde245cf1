----------------------------- MODULE MachineCode -----------------------------
(* What the lifted instructions do on the machine: the reference Lifter is
   compared with.  It is the instruction set, not code of the repository; the
   functions whose lifting follows it are the Covered ones.  A callee keeps every
   register but the one it returns its result in.                              *)
EXTENDS Lifter

Rd(s, id) == IF id \in DOMAIN s.regs THEN s.regs[id] ELSE 0
\* the address of a memory operand; a displacement from the instruction is in val
EA(s, m) ==
    IF m.base = RIP THEN m.val % M
    ELSE ( (IF m.base = NoReg THEN 0 ELSE Rd(s, m.base))
         + (IF m.index = NoReg THEN 0 ELSE Rd(s, m.index) * m.scale) + m.disp ) % M
Get(s, o) == CASE o.t = "reg" -> IF o.reg = XZR THEN 0 ELSE Rd(s, o.reg)
               [] o.t = "imm" -> o.val % M
               [] o.t = "mem" -> s.mem[EA(s, o)]
Put(s, o, v) == IF o.t = "reg" THEN [s EXCEPT !.regs = (o.reg :> v) @@ @]
                ELSE [Emit(s, <<"store", EA(s, o), v>>) EXCEPT !.mem[EA(s, o)] = v]
Set(s, id, v) == [s EXCEPT !.regs = (id :> v) @@ @]

Holds(s, cc) ==
    LET z == Rd(s, ZF) = 1
        c == Rd(s, CF) = 1
        l == Rd(s, SF) # Rd(s, OF)
    IN CASE cc = "JZ"  -> z  [] cc = "JNZ"  -> ~z
         [] cc = "JB"  -> c  [] cc = "JNB"  -> ~c
         [] cc = "JL"  -> l  [] cc = "JNL"  -> ~l
         [] cc = "JLE" -> z \/ l  [] cc = "JNLE" -> ~(z \/ l)
         [] cc = "JBE" -> c \/ z  [] cc = "JNBE" -> ~(c \/ z)

\* the flags of a result; a flag an instruction leaves undefined keeps its value
Result(s, v)     == Set(Set(s, ZF, Bool(v = 0)), SF, Bool(Signed(v) < 0))
Carry(s, c, o)   == Set(Set(s, CF, Bool(c)), OF, Bool(o))
Flagged(s, v, c, o) == Carry(Result(s, v), c, o)
Overflows(v)     == Signed(v % M) # v
Summed(s, x, y)  == Flagged(s, (x + y) % M, x + y >= M, Overflows(Signed(x) + Signed(y)))
Compared(s, x, y) == Flagged(s, (x - y) % M, x < y, Overflows(Signed(x) - Signed(y)))
\* inc and dec keep the carry
KeepCarry(s, t)  == Set(t, CF, Rd(s, CF))
\* a shift sets flags unless by 0: the carry is the last bit shifted out
Shifted(s, type, x, y) ==
    LET v == Binary(ArithOp[type], x, y)
    IN IF y = 0 THEN s
       ELSE Flagged(s, v, IF type = "Shl" THEN (x * 2^y) \div M % 2 = 1 ELSE (x \div 2^(y - 1)) % 2 = 1,
                    (Signed(x) < 0) # (type = "Shl" /\ Signed(v) < 0))
ArithFlags(s, type, x, y) ==
    CASE type = "Add" -> Summed(s, x, y)
      [] type = "Sub" -> Compared(s, x, y)
      [] type \in {"And", "Or", "Xor"} -> Flagged(s, Binary(ArithOp[type], x, y), FALSE, FALSE)
      [] type \in {"Shl", "Shr"} -> Shifted(s, type, x, y)

\* rdx takes the high half of a product; a quotient that does not fit is a fault
Wide(s, p, spills) == Carry(Set(Set(s, RAX, p % M), RDX, (p \div M) % M), spills, spills)
Product(s, x, y)   == LET p == Signed(x) * Signed(y) IN Carry(s, Overflows(p), Overflows(p))
Divide(s, x) ==
    LET n == Rd(s, RDX) * M + Rd(s, RAX)
    IN IF x = 0 \/ n >= x * M THEN Emit(s, <<"fault">>)
       ELSE Set(Set(s, RAX, n \div x), RDX, n % x)
Faulted(trace) == <<"fault">> \in Range(trace)
CallOut(s, result, target, args) ==
    Emit(Set(s, result, Returned(target, args)), <<"call", target, args>>)

ExecX64(s, i) ==
    LET x == Get(s, i.ops[1])
        y == Get(s, i.ops[2])
    IN CASE i.type = "Mov"   -> Put(s, i.ops[1], y)
         [] i.type = "Lea"   -> Put(s, i.ops[1], EA(s, i.ops[2]))
         [] i.type \in {"Add", "Sub", "And", "Or", "Xor", "Shl", "Shr"} ->
              Put(ArithFlags(s, i.type, x, y), i.ops[1], Binary(ArithOp[i.type], x, y))
         [] i.type = "Inc"   -> Put(KeepCarry(s, Summed(s, x, 1)), i.ops[1], (x + 1) % M)
         [] i.type = "Dec"   -> Put(KeepCarry(s, Compared(s, x, 1)), i.ops[1], (x - 1) % M)
         [] i.type = "Imul" /\ Len(i.ops) = 2 -> Put(Product(s, x, y), i.ops[1], (x * y) % M)
         [] i.type = "Imul" /\ Len(i.ops) = 3 ->
              LET z == Get(s, i.ops[3]) IN Put(Product(s, y, z), i.ops[1], (y * z) % M)
         [] i.type = "Mul"   -> LET p == Rd(s, RAX) * x IN Wide(s, p, p >= M)
         [] i.type = "Div"   -> Divide(s, x)
         [] i.type = "Not"   -> Put(s, i.ops[1], M - 1 - x)
         [] i.type = "Movzx" -> Put(s, i.ops[1], y)
         [] i.type = "Push"  -> LET sp == (Rd(s, RSP) - Slot) % M
                                IN Emit([Set(s, RSP, sp) EXCEPT !.mem[sp] = x], <<"store", sp, x>>)
         \* rsp has moved when the address is computed, and is overwritten by `pop rsp`
         [] i.type = "Pop"   -> Put(Set(s, RSP, (Rd(s, RSP) + Slot) % M), i.ops[1], s.mem[Rd(s, RSP)])
         [] i.type = "Cmp"   -> Compared(s, x, y)
         [] i.type = "Test"  -> Flagged(s, x & y, FALSE, FALSE)
         [] i.type = "Setcc" -> Put(s, i.ops[1], Bool(Holds(s, i.cc)))
         [] i.type = "Jcc"   -> IF Holds(s, i.cc) THEN [s EXCEPT !.next = i.ops[1].val - AddrOf(0)] ELSE s
         [] i.type = "Call"  -> CallOut(s, RAX, i.ops[1].val, [k \in 1..4 |-> Rd(s, ArgRegs[k])])
         [] i.type = "Ret"   -> Emit(s, <<"return", Rd(s, RAX)>>)
         [] OTHER            -> s

\* ARM passes arguments in registers no p-code call names: a call has none here
ExecArm(s, i) ==
    LET x == Get(s, i.ops[1])
        y == Get(s, i.ops[2])
        z == Get(s, i.ops[3])
        first  == EA(s, i.ops[3])
        second == (first + Slot) % M
        Both(op) == IF Len(i.ops) = 2 THEN Binary(op, x, y) ELSE Binary(op, y, z)
    IN CASE i.type = "mov"  -> Put(s, i.ops[1], y)
         [] i.type = "add"  -> Put(s, i.ops[1], Both("ADD"))
         [] i.type = "sub"  -> Put(s, i.ops[1], Both("SUB"))
         [] i.type = "mul"  -> Put(s, i.ops[1], (y * z) % M)
         [] i.type = "madd" -> Put(s, i.ops[1], (y * z + Get(s, i.ops[4])) % M)
         [] i.type = "lsl"  -> Put(s, i.ops[1], Binary("SHIFT_LEFT", y, z))
         [] i.type = "lsr"  -> Put(s, i.ops[1], Binary("SHIFT_RIGHT", y, z))
         [] i.type \in {"and", "orr", "eor"} -> Put(s, i.ops[1], Binary(ArmLogic[i.type], y, z))
         [] i.type \in {"bic", "orn", "eon"} -> Put(s, i.ops[1], Binary(ArmLogic[i.type], y, M - 1 - z))
         [] i.type = "ldr"  -> Put(s, i.ops[1], y)
         [] i.type = "str"  -> Put(s, i.ops[2], x)
         [] i.type = "ldp"  -> Put(Put(s, i.ops[1], s.mem[first]), i.ops[2], s.mem[second])
         [] i.type = "stp"  -> LET a == [Emit(s, <<"store", first, x>>) EXCEPT !.mem[first] = x]
                               IN [Emit(a, <<"store", second, y>>) EXCEPT !.mem[second] = y]
         [] i.type = "bl"   -> CallOut(s, ArmReg(0), i.ops[1].val, << >>)
         [] i.type \in {"ret", "bx"} -> Emit(s, <<"return", Rd(s, ArmReg(0))>>)
         [] OTHER           -> s

Exec(arch, s, insn) == IF arch = "x64" THEN ExecX64(s, insn) ELSE ExecArm(s, insn)

MachineBlock(prog, s) ==
    LET insns == prog.blocks[s.block]
        t     == FoldLeft(LAMBDA x, i : Exec(prog.arch, x, i), [s EXCEPT !.next = -1], insns)
        taken == {i.ops[1].val - AddrOf(0) : i \in {i \in Range(insns) : i.type = "Jcc"}}
        rest  == SelectSeq(prog.succs[s.block], LAMBDA b : b \notin taken)
        to    == IF t.next # -1 THEN t.next ELSE IF rest # << >> THEN rest[1] ELSE -1
    IN [t EXCEPT !.block = to]

MachineTrace(prog, entry) ==
    FoldLeft(LAMBDA x, i : IF x.block = -1 THEN x ELSE MachineBlock(prog, x),
             Start(entry.regs, entry.mem), [i \in 1..Fuel |-> i]).trace

-----------------------------------------------------------------------------
(* What the x64 lifter follows.  Only cmp and test are lifted with flags, of
   which the overflow is right after test; a product's high half and a remainder
   are not written to rdx: such a register is stale until something else sets it. *)
Flags == {ZF, CF, SF, OF}
FlagsRead(cc) ==
    CASE cc \in {"JZ", "JNZ"}   -> {ZF}
      [] cc \in {"JB", "JNB"}   -> {CF}
      [] cc \in {"JL", "JNL"}   -> {SF, OF}
      [] cc \in {"JLE", "JNLE"} -> {ZF, SF, OF}
      [] cc \in {"JBE", "JNBE"} -> {CF, ZF}

RegsOf(o) == CASE o.t = "reg" -> {o.reg}
               [] o.t = "mem" -> {o.base, o.index} \ {NoReg, RIP}
               [] o.t = "imm" -> {}
Clears(i, reg) == i.type = "Xor" /\ i.ops = <<R(reg), R(reg)>>
\* the first operand is written and not read
Overwrites(i) == /\ i.ops # << >> /\ i.ops[1].t = "reg"
                 /\ \/ i.type \in {"Mov", "Lea", "Movzx", "Setcc", "Pop"}
                    \/ i.type = "Imul" /\ Len(i.ops) = 3
                    \/ Clears(i, i.ops[1].reg)
WideRax(i) == i.type \in {"Mul", "Div"}
RegsRead(i) ==
    UNION {RegsOf(i.ops[k]) : k \in {k \in DOMAIN i.ops : ~(Overwrites(i) /\ (k = 1 \/ i.type = "Xor"))}}
    \cup (IF i.type \in {"Setcc", "Jcc"} THEN FlagsRead(i.cc) ELSE {})
    \cup (IF i.type = "Call" THEN Range(ArgRegs) ELSE {})
    \cup (IF i.type = "Ret" \/ WideRax(i) THEN {RAX} ELSE {})
    \cup (IF i.type = "Div" THEN {RDX} ELSE {})

StaleAfter(stale, i) ==
    CASE i.type = "Cmp"  -> (stale \ Flags) \cup {OF}
      [] i.type = "Test" -> stale \ Flags
      [] WideRax(i)      -> stale \cup Flags \cup {RDX}
      [] i.type \in DOMAIN ArithOp \cup {"Inc", "Dec", "Imul"} ->
           (stale \cup Flags) \ (IF Overwrites(i) THEN {i.ops[1].reg} ELSE {})
      [] OTHER           -> stale \ (IF Overwrites(i) THEN {i.ops[1].reg} ELSE {})
\* a block is entered with the flags of another one
StaleBefore(insns, k) == FoldLeft(StaleAfter, Flags, SubSeq(insns, 1, k - 1))

\* le, be and their negations are lifted to a test of one flag
LiftedCondition(i) == i.type \in {"Setcc", "Jcc"} => i.cc \notin {"JLE", "JNLE", "JBE", "JNBE"}
FollowsInsn(insns, k) ==
    LET i == insns[k]
    IN /\ RegsRead(i) \cap StaleBefore(insns, k) = {}
       \* rdx:rax is divided: by rax alone when rdx was cleared
       /\ i.type = "Div" => k > 1 /\ Clears(insns[k - 1], RDX)
       \* a store relative to the instruction adds to a register nothing sets
       /\ i.ops # << >> /\ i.type \notin {"Push", "Cmp", "Test"} => ~(i.ops[1].t = "mem" /\ i.ops[1].base = RIP)
       \* rsp is pushed after it moved, pop writes its operand before rsp moves
       /\ i.type = "Push" => i.ops[1] # R(RSP)
       /\ i.type = "Pop" => RSP \notin RegsOf(i.ops[1])
FollowsBlock(prog, b) ==
    LET insns == prog.blocks[b]
    IN /\ \A k \in DOMAIN insns : FollowsInsn(insns, k)
       /\ prog.succs[b] # << >> => StaleBefore(insns, Len(insns) + 1) \subseteq Flags

\* every instruction is lifted as the machine has it, but for conditions
CoveredBut(prog) == prog.arch = "x64" => \A b \in DOMAIN prog.blocks : FollowsBlock(prog, b)
Covered(prog) ==
    /\ CoveredBut(prog)
    /\ prog.arch = "x64" => \A b \in DOMAIN prog.blocks : \A i \in Range(prog.blocks[b]) : LiftedCondition(i)
=============================================================================
