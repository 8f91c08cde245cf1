--------------------------- MODULE AnalysisPasses ---------------------------
(* What hype::Analyzer::run does with the code it has found
   (src/core/analysis/analyzer.cpp, from build_cfgs on): the control flow of the
   functions, junk, switch tables, references, strings, tables of methods,
   globals, functions that do not return, tail calls, indirect targets, loops,
   signatures, data and names.  One thread runs the passes in order; a pass
   that goes through a hash table does so in any order.

   A program is what CodeDiscovery left: the instructions by address, each with
   `to` its target when that is an immediate, `reg` its first operand when that
   is a register, `base`, `index` and `disp` when that is memory at a register,
   and `val` an absolute address or a constant among its operands, 0 for none; a
   "mov" is one of a constant.  `changes` is not decoded: the registers of the
   machine that anything but "mov" and "lea" changes, named or not.  A section
   is bytes; two of them are a pointer.  The image begins at 0.                *)
EXTENDS Integers, Sequences, SequencesExt, FiniteSets, FiniteSetsExt, Bags, TLC

CONSTANTS
  Programs,     \* [insns, funcs, entry, imports, exports, sections]
  PtrSize,
  MinRead,      \* the bytes that must be left where a pointer is looked up
  PartOf,       \* the register of the machine that a decoded one is (part of)
  MinString, ZeroRun, LargeData, MaxTable, DefaultCases,
  Printable,    \* the bytes of a string
  NoReturnNames, CrtStarters, KnownSigs,
  Wide,         \* a 64-bit program
  MinAccesses   \* to be a structure

\* an instruction has a length, a pointer is two bytes, and a binary is finite
ASSUME ProgramAssumption ==
    /\ PtrSize = 2 /\ MinRead \in Nat /\ MinRead >= PtrSize
    /\ ZeroRun \in Nat \ {0} /\ LargeData \in Nat
    /\ \A p \in Programs :
         /\ IsFiniteSet(DOMAIN p.insns) /\ DOMAIN p.insns \subseteq Nat
         /\ \A a \in DOMAIN p.insns : p.insns[a].len \in Nat \ {0} /\ p.insns[a].to \in Nat
         /\ DOMAIN p.funcs \subseteq Nat
         /\ p.sections \in Seq(ToSet(p.sections))
         /\ \A k \in DOMAIN p.sections :
              p.sections[k].va \in Nat /\ p.sections[k].bytes \in Seq(0..7)

VARIABLES
  prog,         \* img_ and the decoder; never changes
  pass,         \* the next pass
  left,         \* what the pass has still to look at
  insns,        \* db_.insns
  cfg,          \* the blocks of a function, and block_addrs
  xrefs, xrefsTo, xrefsFrom,
  strings, vtables, items,
  noreturn, callconv, resolved, loops, structs, sigs,
  names, funcNames

code   == <<prog, insns, cfg>>
refs   == <<xrefs, xrefsTo, xrefsFrom>>
data   == <<strings, vtables, items>>
facts  == <<noreturn, callconv, resolved, loops, structs, sigs>>
naming == <<names, funcNames>>
vars   == <<pass, left, code, refs, data, facts, naming>>

Init ==
    /\ prog \in Programs
    /\ pass = "cfgs" /\ left = {}
    /\ insns = DOMAIN prog.insns /\ cfg = <<>>
    /\ xrefs = EmptyBag /\ xrefsTo = <<>> /\ xrefsFrom = <<>>
    /\ strings = {} /\ vtables = {} /\ items = <<>>
    /\ noreturn = {} /\ callconv = <<>> /\ resolved = <<>>
    /\ loops = {} /\ structs = <<>> /\ sigs = <<>>
    /\ names = <<>> /\ funcNames = prog.funcs

Funcs == DOMAIN prog.funcs
Insn(a) == prog.insns[a]
Slots == {imp.slot : imp \in ToSet(prog.imports)}

\* a table with a value at an address; a table with the entries of another one
With(t, a, v) == [b \in DOMAIN t \cup {a} |-> IF b = a THEN v ELSE t[b]]
Over(t, new)  == [b \in DOMAIN t \cup DOMAIN new |-> IF b \in DOMAIN new THEN new[b] ELSE t[b]]

-----------------------------------------------------------------------------
(* The bytes of the image.                                                    *)

Size(sec) == Len(sec.bytes)
In(sec, a) == sec.va <= a /\ a < sec.va + Size(sec)
IsCode(a) == \E sec \in ToSet(prog.sections) : sec.exec /\ In(sec, a)
HasBytes(a, n) == \E sec \in ToSet(prog.sections) : In(sec, a) /\ a + n <= sec.va + Size(sec)
Byte(a) == LET sec == CHOOSE s \in ToSet(prog.sections) : In(s, a) IN sec.bytes[a - sec.va + 1]
Word(a) == Byte(a) + 8 * Byte(a + 1)
\* the signed offset in an entry of a jump table
Offset(a) == IF Byte(a) < 4 THEN Byte(a) ELSE Byte(a) - 8

\* how many entries from `a` on satisfy Ok, no more than `limit`
RunFrom(a, width, limit, Ok(_)) ==
    CHOOSE n \in 0..limit :
        /\ \A k \in 0..(n - 1) : HasBytes(a + k * width, width) /\ Ok(a + k * width)
        /\ n = limit \/ ~HasBytes(a + n * width, width) \/ ~Ok(a + n * width)

-----------------------------------------------------------------------------
(* The control flow (build_cfgs).  A block is not split when another begins in
   it; one at an address without an instruction is empty.                     *)

\* a jump through a register or memory has no successor here
Successors(i, next) ==
    CASE i.kind = "jmp" /\ i.to # 0 -> <<i.to>>
      [] i.kind = "jcc"             -> (IF i.to # 0 THEN <<i.to>> ELSE <<>>) \o <<next>>
      [] OTHER                      -> <<>>

\* the next instruction; a block ends before the first instruction of another
\* function, and then nothing follows it
Extended(b, entry) ==
    LET i == Insn(b.end)
        next == b.end + i.len
    IN IF b.done \/ b.end \notin insns THEN b
       ELSE [list |-> Append(b.list, b.end), end |-> next, succs |-> Successors(i, next),
             done |-> \/ i.kind \in {"ret", "jmp", "jcc"}
                      \/ next # entry /\ next \in Funcs]

Block(start, entry) ==
    LET most == Cardinality(insns)
        st[n \in 0..most] ==
            IF n = 0 THEN [list |-> <<>>, end |-> start, succs |-> <<>>, done |-> FALSE]
            ELSE Extended(st[n - 1], entry)
    IN st[most]

\* the next address of the queue begins a block, unless one begins there already
Visited(g, entry) ==
    IF g.queue = <<>> THEN g
    ELSE IF Head(g.queue) \in DOMAIN g.blocks THEN [g EXCEPT !.queue = Tail(@)]
    ELSE LET b == Block(Head(g.queue), entry)
         IN [blocks |-> With(g.blocks, Head(g.queue), b),
             order |-> Append(g.order, Head(g.queue)), queue |-> Tail(g.queue) \o b.succs]

BlocksOf(entry) ==
    LET most == 2 * Cardinality(insns) + 1
        st[n \in 0..most] ==
            IF n = 0 THEN [blocks |-> <<>>, order |-> <<>>, queue |-> <<entry>>]
            ELSE Visited(st[n - 1], entry)
    IN st[most]

BuildCfgs ==
    /\ pass = "cfgs" /\ pass' = "junk"
    /\ cfg' = [f \in Funcs |->
                 LET g == BlocksOf(f)
                 IN [order |-> g.order,
                     blocks |-> [s \in DOMAIN g.blocks |->
                       [list |-> g.blocks[s].list, end |-> g.blocks[s].end,
                        succs |-> g.blocks[s].succs,
                        preds |-> {p \in DOMAIN g.blocks : s \in ToSet(g.blocks[p].succs)}]]]]
    /\ UNCHANGED <<left, prog, insns, refs, data, facts, naming>>

BlockList == {<<f, s>> : f \in Funcs, s \in UNION {DOMAIN cfg[g].blocks : g \in Funcs}}
AllBlocks == {b \in BlockList : b[2] \in DOMAIN cfg[b[1]].blocks}
At(b) == cfg[b[1]].blocks[b[2]]
InBlocks == UNION {ToSet(At(b).list) : b \in AllBlocks}

\* padding that no function uses
Junk(junk) == junk \ InBlocks

RemoveJunk ==
    /\ pass = "junk" /\ pass' = "switches"
    /\ insns' = insns \ Junk({a \in insns : Insn(a).junk})
    /\ UNCHANGED <<left, prog, cfg, refs, data, facts, naming>>

-----------------------------------------------------------------------------
(* Jump tables (detect_switches).  The targets become successors of the block;
   they get no block of their own and do not know the block before them.      *)

EndsInJump(b) == Len(At(b).list) >= 2 /\ Insn(Last(At(b).list)).kind = "jmp"
Indexed(b) == Insn(Last(At(b).list)).val
\* the table a lea before the jump takes the address of
TableBase(b) ==
    LET leas == SelectSeq(Front(At(b).list), LAMBDA a : Insn(a).kind = "lea" /\ Insn(a).val # 0)
    IN IF leas = <<>> THEN 0 ELSE Insn(Last(leas)).val

\* the number of cases, by the last comparison of some block before
Cases(b) ==
    LET compares(p) == SelectSeq(cfg[b[1]].blocks[p].list, LAMBDA a : Insn(a).kind = "cmp")
        bounding == {p \in At(b).preds : compares(p) # <<>>}
    IN IF bounding = {} THEN {DefaultCases}
       ELSE {Insn(Last(compares(p))).val + 1 : p \in bounding}

Targets(b, cases) ==
    LET table == IF Indexed(b) # 0 THEN Indexed(b) ELSE TableBase(b)
        count == IF Indexed(b) # 0
                 THEN RunFrom(table, PtrSize, MaxTable, LAMBDA a : IsCode(Word(a)))
                 ELSE RunFrom(table, 1, cases, LAMBDA a : IsCode(table + Offset(a)))
    IN IF table = 0 \/ ~HasBytes(table, 1) THEN <<>>
       ELSE [k \in 1..count |-> IF Indexed(b) # 0 THEN Word(table + (k - 1) * PtrSize)
                                ELSE table + Offset(table + k - 1)]

LeadsTo(block, targets) == [block EXCEPT !.succs = @ \o targets]

DetectSwitches ==
    /\ pass = "switches" /\ pass' = "xrefs"
    /\ LET jumps == {b \in AllBlocks : EndsInJump(b)}
       IN \E cases \in [jumps -> UNION {Cases(b) : b \in jumps}] :
            /\ \A b \in jumps : cases[b] \in Cases(b)
            /\ cfg' = [f \in Funcs |-> [cfg[f] EXCEPT !.blocks = [s \in DOMAIN @ |->
                         IF <<f, s>> \in jumps
                         THEN LeadsTo(@[s], Targets(<<f, s>>, cases[<<f, s>>]))
                         ELSE @[s]]]]
    /\ UNCHANGED <<left, prog, insns, refs, data, facts, naming>>

-----------------------------------------------------------------------------
(* References.  db_ keeps them in a list and by both of their ends.           *)

Grown(index, bag, End(_)) ==
    [a \in DOMAIN index \cup {End(x) : x \in DOMAIN bag} |->
       (IF a \in DOMAIN index THEN index[a] ELSE EmptyBag)
         (+) [x \in {y \in DOMAIN bag : End(y) = a} |-> bag[x]]]

\* add_xref, for each of a bag
AddXrefs(bag) ==
    /\ xrefs' = xrefs (+) bag
    /\ xrefsTo' = Grown(xrefsTo, bag, LAMBDA x : x.to)
    /\ xrefsFrom' = Grown(xrefsFrom, bag, LAMBDA x : x.from)

Xref(from, to, type) == [from |-> from, to |-> to, type |-> type]

\* a constant that may be an address is a reference too, the target of a call
\* among them
XrefsOf(a) ==
    LET i == Insn(a)
        constant == IF i.kind \in {"mov", "cmp", "ret"} THEN i.val ELSE i.to
        memory == IF i.kind \in {"mov", "cmp", "ret"} THEN 0 ELSE i.val
    IN (IF i.kind = "call" /\ i.to # 0 THEN {Xref(a, i.to, "call")} ELSE {})
       \cup (IF i.kind \in {"jmp", "jcc"} /\ i.to # 0 THEN {Xref(a, i.to, "jump")} ELSE {})
       \cup (IF memory # 0 THEN {Xref(a, memory, "read")} ELSE {})
       \cup (IF constant # 0 THEN {Xref(a, constant, "offset")} ELSE {})

BuildXrefs ==
    /\ pass = "xrefs" /\ pass' = "strings"
    /\ AddXrefs(SetToBag(UNION {XrefsOf(a) : a \in insns}))
    /\ UNCHANGED <<left, code, data, facts, naming>>

\* a printable run of some length with a zero behind it
StringsOf(sec) ==
    {a \in sec.va..(sec.va + Size(sec) - 1) :
       /\ Byte(a) \in Printable /\ (a = sec.va \/ Byte(a - 1) \notin Printable)
       /\ LET n == RunFrom(a, 1, Size(sec), LAMBDA c : In(sec, c) /\ Byte(c) \in Printable)
          IN n >= MinString /\ In(sec, a + n) /\ Byte(a + n) = 0}

FindStrings ==
    /\ pass = "strings" /\ pass' = "stringrefs"
    /\ strings' = UNION {StringsOf(sec) : sec \in ToSet(prog.sections)}
    /\ UNCHANGED <<left, code, refs, vtables, items, facts, naming>>

FindStringRefs ==
    /\ pass = "stringrefs" /\ pass' = "vtables"
    /\ AddXrefs(SetToBag({Xref(a, Insn(a).val, "offset") :
                            a \in {b \in insns : Insn(b).kind = "lea" /\ Insn(b).val \in strings}}))
    /\ UNCHANGED <<left, code, data, facts, naming>>

-----------------------------------------------------------------------------
(* Tables of methods, globals and the functions that do not return.           *)

\* the words the scan goes on by
Passed(run) == IF run >= 2 THEN run ELSE 1

\* two pointers to code make a table
VtablesOf(sec) ==
    LET words == Size(sec) \div PtrSize
        Scan(st, n) ==
            LET a == sec.va + st.i * PtrSize
                run == RunFrom(a, PtrSize, words - st.i, LAMBDA w : IsCode(Word(w)))
            IN IF st.i + 2 > words THEN st
               ELSE [i |-> st.i + Passed(run),
                     found |-> st.found \cup (IF run >= 2 THEN {[addr |-> a, count |-> run]} ELSE {})]
    IN IF sec.exec \/ sec.name \notin {".rdata", ".data"} THEN {}
       ELSE FoldLeft(Scan, [i |-> 0, found |-> {}], [n \in 1..words |-> n]).found

SlotsOf(vt) == {vt.addr + k * PtrSize : k \in 0..(vt.count - 1)}

DetectVtables ==
    /\ pass = "vtables" /\ pass' = "globals"
    /\ vtables' = UNION {VtablesOf(sec) : sec \in ToSet(prog.sections)}
    /\ names' = [a \in UNION {SlotsOf(vt) : vt \in vtables'} |-> "vtable"] @@ names
    /\ UNCHANGED <<left, code, refs, strings, items, facts, funcNames>>

DetectGlobals ==
    /\ pass = "globals" /\ pass' = "noreturn"
    /\ LET used == {Insn(a).val : a \in {b \in insns : Insn(b).kind \notin {"mov", "cmp", "ret"}}}
           isGlobal(a) == \E sec \in ToSet(prog.sections) :
                             In(sec, a) /\ ~sec.exec /\ sec.name \in {".data", ".bss"}
       IN names' = [a \in {u \in used \ {0} : isGlobal(u)} |-> "g_var"] @@ names
    /\ UNCHANGED <<left, code, refs, data, facts, funcNames>>

\* by name, or when no block has a return or a successor
DetectNoReturn ==
    /\ pass = "noreturn" /\ pass' = "tails"
    /\ noreturn' = {f \in Funcs :
          \/ funcNames[f] \in NoReturnNames
          \/ \A b \in AllBlocks : b[1] = f =>
                /\ At(b).succs = <<>>
                /\ \A a \in ToSet(At(b).list) : Insn(a).kind # "ret"}
    /\ left' = {b \in AllBlocks : At(b).list # <<>> /\ Insn(Last(At(b).list)).kind = "jmp"
                                    /\ Insn(Last(At(b).list)).to # 0}
    /\ UNCHANGED <<code, refs, data, callconv, resolved, loops, structs, sigs, naming>>

-----------------------------------------------------------------------------
(* Tail calls (detect_tail_calls): a jump to another function, or out of this
   one, is a call.  The reference is added, and the jump there was is one.     *)

IsTail(f, target) ==
    LET end == Max({At(b).end : b \in {c \in AllBlocks : c[1] = f}})
    IN \/ target \in Funcs \ {f}
       \/ (target < f \/ target >= end) /\ target \notin DOMAIN cfg[f].blocks

AsCall(bag, jump) ==
    [x \in DOMAIN bag \ {jump} |-> bag[x]]
      (+) (IF jump \in DOMAIN bag THEN [x \in {[jump EXCEPT !.type = "call"]} |-> bag[jump]]
           ELSE EmptyBag)

RetypeList(index, a, jump) == index     \* mutant: the index is forgotten

\* the index, with the reference as a call in it
Retype(index, a, jump) == [index EXCEPT ![a] = AsCall(@, jump)]

TailCall(b) ==
    LET from == Last(At(b).list)
        to == Insn(from).to
        jump == Xref(from, to, "jump")
        call == SetToBag({Xref(from, to, "call")})
    IN /\ pass = "tails" /\ b \in left
       /\ left' = left \ {b}
       /\ IF ~IsTail(b[1], to) THEN UNCHANGED refs
          ELSE /\ xrefs' = AsCall(xrefs (+) call, jump)
               /\ xrefsTo' = Retype(Grown(xrefsTo, call, LAMBDA x : x.to), to, jump)
               /\ xrefsFrom' = Retype(Grown(xrefsFrom, call, LAMBDA x : x.from), from, jump)
       /\ UNCHANGED <<pass, code, data, facts, naming>>

EndTailCalls ==
    /\ pass = "tails" /\ left = {}
    /\ pass' = "convs"
    /\ UNCHANGED <<left, code, refs, data, facts, naming>>

\* who takes the arguments off the stack, by a return that does
CallingConventions ==
    /\ pass = "convs" /\ pass' = "dataflow"
    /\ callconv' = [f \in Funcs |->
         IF Wide THEN "x64"
         ELSE IF \E b \in AllBlocks : b[1] = f /\ \E a \in ToSet(At(b).list) :
                    Insn(a).kind = "ret" /\ Insn(a).val # 0
         THEN "stdcall" ELSE "cdecl"]
    /\ left' = Funcs
    /\ UNCHANGED <<code, refs, data, noreturn, resolved, loops, structs, sigs, naming>>

-----------------------------------------------------------------------------
(* Constants in registers (propagate_dataflow), through the blocks of a function
   in the order they were found, whatever way control takes.                  *)

\* what an instruction leaves in the registers: a constant, an address, or
\* something unknown in its first operand
Assigned(regs, i) ==
    IF i.kind \in {"mov", "lea"} /\ i.reg # 0 /\ i.val # 0 THEN With(regs, i.reg, i.val)
    ELSE IF i.reg # 0 /\ i.kind # "cmp" THEN [r \in DOMAIN regs \ {i.reg} |-> regs[r]]
    ELSE regs

KeepRegs(regs, i) == regs       \* mutant: a call leaves the registers alone

AfterCall(regs, i) == IF i.kind = "call" THEN <<>> ELSE regs

\* a jump or a call through a register that is known, or through memory at one,
\* whatever the index; the register has been forgotten before it is looked up
Resolved(regs, i) ==
    IF i.kind \notin {"call", "jmp"} THEN {}
    ELSE IF i.reg # 0 THEN {regs[r] : r \in {q \in DOMAIN regs : q = i.reg /\ IsCode(regs[q])}}
    ELSE IF i.base \in DOMAIN regs /\ i.val = 0 /\ HasBytes(regs[i.base] + i.disp, MinRead)
    THEN {t \in {Word(regs[i.base] + i.disp)} : IsCode(t)}
    ELSE {}

\* what is known, and what was found, behind an instruction
Followed(st, a) ==
    LET regs == Assigned(st.regs, Insn(a))
        target == Resolved(regs, Insn(a))
    IN [regs |-> AfterCall(regs, Insn(a)),
        found |-> IF target = {} THEN st.found ELSE With(st.found, a, CHOOSE t \in target : TRUE)]

ThroughBlock(list, before) ==
    LET st[n \in 0..Len(list)] == IF n = 0 THEN before ELSE Followed(st[n - 1], list[n])
    IN st[Len(list)]

Found(f) ==
    LET st[k \in 0..Len(cfg[f].order)] ==
            IF k = 0 THEN [regs |-> <<>>, found |-> <<>>]
            ELSE ThroughBlock(cfg[f].blocks[cfg[f].order[k]].list, st[k - 1])
    IN st[Len(cfg[f].order)].found

Dataflow(f) ==
    /\ pass = "dataflow" /\ f \in left
    /\ left' = left \ {f}
    /\ resolved' = Over(resolved, Found(f))
    /\ AddXrefs(SetToBag({Xref(a, Found(f)[a], "call") : a \in DOMAIN Found(f)}))
    /\ UNCHANGED <<pass, code, data, noreturn, callconv, loops, structs, sigs, naming>>

EndDataflow ==
    /\ pass = "dataflow" /\ left = {}
    /\ pass' = "loops"
    /\ UNCHANGED <<left, code, refs, data, facts, naming>>

BackwardOnly(from, to) == to < from     \* mutant: a block that follows itself

\* an edge that goes back
Backward(from, to) == to <= from

DetectLoops ==
    /\ pass = "loops" /\ pass' = "structs"
    /\ loops' = UNION {{[func |-> b[1], header |-> t, from |-> b[2]] :
                          t \in {s \in ToSet(At(b).succs) :
                                   Backward(b[2], s) /\ s \in DOMAIN cfg[b[1]].blocks}} :
                         b \in AllBlocks}
    /\ UNCHANGED <<left, code, refs, data, noreturn, callconv, resolved, structs, sigs, naming>>

\* a register through which a function reaches several places
RecoverStructs ==
    /\ pass = "structs" /\ pass' = "sigs"
    /\ LET accesses(f, r) == {Insn(a).disp : a \in {i \in UNION {ToSet(At(b).list) :
                                  b \in {c \in AllBlocks : c[1] = f}} : Insn(i).base = r}}
           used == {fr \in Funcs \X ({Insn(a).base : a \in DOMAIN prog.insns} \ {0}) :
                      Cardinality(accesses(fr[1], fr[2])) >= MinAccesses}
       IN structs' = [fr \in used |-> accesses(fr[1], fr[2])]
    /\ UNCHANGED <<left, code, refs, data, noreturn, callconv, resolved, loops, sigs, naming>>

\* the number of parameters: of a known function, or by the last of the four
\* registers that is used
Signatures ==
    /\ pass = "sigs" /\ pass' = "data"
    /\ sigs' = [f \in Funcs |->
         IF funcNames[f] \in DOMAIN KnownSigs THEN KnownSigs[funcNames[f]]
         ELSE LET used == UNION {{Insn(a).reg : a \in ToSet(At(b).list)} :
                                   b \in {c \in AllBlocks : c[1] = f}}
              IN Max({0} \cup (used \cap 1..4))]
    /\ UNCHANGED <<left, code, refs, data, noreturn, callconv, resolved, loops, structs, naming>>

-----------------------------------------------------------------------------
(* The data of the listing (populate_data_sections): a pointer or a number for
   each word, one item for a run of zeros.  In a large section only what is
   referred to or points to code is listed.                                   *)

RunAndOne(run) == run + 1   \* mutant: the word behind the run is passed over

\* the words of a run of zeros
OfRun(run) == run

Listed(sec, st) ==
    LET words == Size(sec) \div PtrSize
        a == sec.va + st.i * PtrSize
        run == RunFrom(a, PtrSize, words - st.i, LAMBDA w : Word(w) = 0)
        listed == a \in DOMAIN st.found \cup strings \cup Slots
        seen == Size(sec) <= LargeData \/ a \in DOMAIN xrefsTo \/ IsCode(Word(a))
    IN IF st.i >= words THEN st
       ELSE IF listed THEN [st EXCEPT !.i = @ + 1]
       ELSE IF run >= ZeroRun
       THEN [i |-> st.i + OfRun(run), found |-> With(st.found, a, "align")]
       ELSE [i |-> st.i + 1,
             found |-> IF seen THEN With(st.found, a, IF IsCode(Word(a)) THEN "pointer" ELSE "raw")
                       ELSE st.found]

ItemsOf(sec, known) ==
    LET words == Size(sec) \div PtrSize
        st[n \in 0..words] == IF n = 0 THEN [i |-> 0, found |-> known] ELSE Listed(sec, st[n - 1])
    IN IF sec.exec THEN known ELSE st[words].found

PopulateData ==
    /\ pass = "data" /\ pass' = "names"
    /\ LET st[k \in 0..Len(prog.sections)] ==
               IF k = 0 THEN items ELSE ItemsOf(prog.sections[k], st[k - 1])
       IN items' = st[Len(prog.sections)]
    /\ UNCHANGED <<left, code, refs, strings, vtables, facts, naming>>

-----------------------------------------------------------------------------
(* Names.  A later one replaces an earlier one at its address.                *)

ApplyNames ==
    /\ pass = "names" /\ pass' = "main"
    /\ names' = FoldLeft(LAMBDA t, exp : exp.addr :> exp.name @@ t,
                         [a \in Slots |-> "import"] @@ (prog.entry :> "entry_point") @@ names,
                         prog.exports)
    /\ funcNames' = FoldLeft(LAMBDA t, exp : IF exp.addr \in DOMAIN t
                                             THEN [t EXCEPT ![exp.addr] = exp.name] ELSE t,
                             funcNames, prog.exports)
    /\ insns' = insns \ Slots
    /\ items' = Over(items, [a \in Slots |-> "import"])
    /\ UNCHANGED <<left, prog, cfg, refs, strings, vtables, facts>>

\* the first call in a block whose target is fit
FirstCall(b, Fit(_)) ==
    LET calls == SelectSeq(At(b).list, LAMBDA a :
                    Insn(a).kind = "call" /\ Insn(a).to \in Funcs /\ Fit(Insn(a).to))
    IN IF calls = <<>> THEN {} ELSE {Insn(calls[1]).to}

\* what the start of the C library calls; else what a function called by the
\* entry calls
MainCandidates ==
    LET CalledBy(f, Fit(_)) == UNION {FirstCall(b, Fit) : b \in {c \in AllBlocks : c[1] = f}}
        fromCrt == UNION {CalledBy(f, LAMBDA g : funcNames[g] \notin CrtStarters) :
                            f \in {g \in Funcs : funcNames[g] \in CrtStarters}}
        unnamed(g) == funcNames[g] = "sub"
        stubs == IF prog.entry \notin Funcs THEN {}
                 ELSE CalledBy(prog.entry, LAMBDA g : CalledBy(g, unnamed) # {})
    IN IF fromCrt # {} THEN fromCrt ELSE UNION {CalledBy(g, unnamed) : g \in stubs}

DetectMain ==
    /\ pass = "main" /\ pass' = "done"
    /\ IF MainCandidates = {} THEN UNCHANGED naming
       ELSE \E m \in MainCandidates :
              /\ names' = m :> "main" @@ names
              /\ funcNames' = [funcNames EXCEPT ![m] = "main"]
    /\ UNCHANGED <<left, code, refs, data, facts>>

Next ==
    \/ BuildCfgs \/ RemoveJunk \/ DetectSwitches \/ BuildXrefs \/ FindStrings
    \/ FindStringRefs \/ DetectVtables \/ DetectGlobals \/ DetectNoReturn
    \/ \E b \in left : TailCall(b)
    \/ EndTailCalls \/ CallingConventions
    \/ \E f \in left : Dataflow(f)
    \/ EndDataflow \/ DetectLoops \/ RecoverStructs \/ Signatures \/ PopulateData \/ ApplyNames \/ DetectMain

Spec == Init /\ [][Next]_vars

-----------------------------------------------------------------------------
\* The list of references and the two tables by their ends say the same,
\* each reference as often and with the same type, after every pass: those that
\* add references, and the one that makes jumps calls in three places.
XrefIndexesAgree ==
    /\ \A x \in DOMAIN xrefs :
         /\ x.to \in DOMAIN xrefsTo /\ x \in DOMAIN xrefsTo[x.to]
         /\ xrefsTo[x.to][x] = xrefs[x]
         /\ x.from \in DOMAIN xrefsFrom /\ x \in DOMAIN xrefsFrom[x.from]
         /\ xrefsFrom[x.from][x] = xrefs[x]
    /\ \A a \in DOMAIN xrefsTo : DOMAIN xrefsTo[a] \subseteq DOMAIN xrefs
    /\ \A a \in DOMAIN xrefsFrom : DOMAIN xrefsFrom[a] \subseteq DOMAIN xrefs

\* No loop of a function is overlooked: when the recorded edges are taken
\* away, control cannot come back to a block, neither through the blocks nor
\* through the tables of jumps.
CyclesAreFound ==
    pass = "structs" =>
        \A f \in Funcs : \A C \in SUBSET DOMAIN cfg[f].blocks :
            (\A s \in C : \E t \in C : /\ t \in ToSet(cfg[f].blocks[s].succs)
                                       /\ [func |-> f, header |-> t, from |-> s] \notin loops)
            => C = {}

\* The registers of the machine that an instruction changes, and those before the
\* n-th of a block that change what its base is.
Changed(i) == i.changes \cup IF i.kind \in {"mov", "lea"} THEN {PartOf[i.reg]} ELSE {}

Changing(list, n) ==
    {k \in 1..(n - 1) : \/ Insn(list[k]).kind = "call"
                       \/ PartOf[Insn(list[n]).base] \in Changed(Insn(list[k]))}

\* what propagate_dataflow takes for a change of the register
Names(i, r) == i.reg = r /\ i.kind # "cmp"

\* A jump or call through memory at a register that its block has changed, and
\* that no other block shares.
AsksMemory(b, n) ==
    LET a == At(b).list[n]
    IN /\ \A c \in AllBlocks : a \in ToSet(At(c).list) => c = b
       /\ Insn(a).kind \in {"call", "jmp"} /\ Insn(a).reg = 0
       /\ Insn(a).base # 0 /\ Insn(a).val = 0
       /\ Changing(At(b).list, n) # {}

\* The target recorded is the word at what the register holds by then.
LeadsThere(b, n) ==
    LET a == At(b).list[n]
        last == Insn(At(b).list[Max(Changing(At(b).list, n))])
    IN /\ last.kind \in {"mov", "lea"} /\ last.reg = Insn(a).base
       /\ resolved[a] = Word(last.val + Insn(a).disp)

\* Where nothing changes the register behind the back of the pass, by a part of
\* it, a second operand or no operand at all, and no index is added, a target
\* that is recorded is the one the machine reaches; and one is recorded when the
\* last change is a constant, the pass was given no reason to forget it, and the
\* section goes on for MinRead bytes.
ResolvedInBlock ==
    pass = "loops" =>
        \A b \in AllBlocks : \A n \in 1..Len(At(b).list) :
            LET list == At(b).list
                a == list[n]
                base == Insn(a).base
                changing == Changing(list, n)
                m == Max(changing)
                last == Insn(list[m])
                place == last.val + Insn(a).disp
            IN (/\ AsksMemory(b, n) /\ Insn(a).index = 0
                /\ \A k \in changing : Insn(list[k]).kind = "call" \/ Names(Insn(list[k]), base))
               => /\ a \in DOMAIN resolved => LeadsThere(b, n)
                  /\ (/\ last.kind \in {"mov", "lea"} /\ last.val # 0
                      /\ \A k \in (m + 1)..(n - 1) : ~Names(Insn(list[k]), base)
                      /\ HasBytes(place, MinRead) /\ IsCode(Word(place)))
                     => a \in DOMAIN resolved

\* README.md:42 names the resolution of indirect calls: a target recorded for a
\* call or jump without an index is the one the machine reaches.
ResolvedIsReached ==
    pass = "loops" =>
        \A b \in AllBlocks : \A n \in 1..Len(At(b).list) :
            LET a == At(b).list[n]
            IN (AsksMemory(b, n) /\ Insn(a).index = 0 /\ a \in DOMAIN resolved)
               => LeadsThere(b, n)

\* Every word of a data section that is not too large is in the listing: as an
\* item, as the start of a string, or in a run of zeros.
DataIsListed ==
    pass = "done" =>
        \A sec \in ToSet(prog.sections) : \A k \in 0..(Size(sec) \div PtrSize - 1) :
            LET a == sec.va + k * PtrSize
            IN \/ sec.exec \/ Size(sec) > LargeData
               \/ a \in DOMAIN items \cup strings
               \/ \E z \in sec.va..a : /\ z \in DOMAIN items /\ items[z] = "align"
                                       /\ (a - z) % PtrSize = 0
                                       /\ \A w \in z..(a + PtrSize - 1) : Byte(w) = 0

\* README.md:42 names the resolution of indirect calls: a call through a register
\* into which the same block moved the address of code is resolved.
RegisterCallsResolved ==
    pass = "loops" =>
        \A b \in AllBlocks : \A n \in 2..Len(At(b).list) :
            LET mov == Insn(At(b).list[n - 1])
                use == Insn(At(b).list[n])
            IN (mov.kind = "mov" /\ use.kind = "call" /\ use.reg # 0 /\ use.reg = mov.reg
                  /\ IsCode(mov.val))
               => At(b).list[n] \in DOMAIN resolved
=============================================================================
