-------------------------- MODULE MCAnalysisPasses --------------------------
(* Four families of small programs.  Code is at 1..5, data at 8.  `Flows` are
   the control flows of up to four instructions in one or two functions, with a
   jump table; `Indirect` are the ways to an indirect call or jump; `Calls` are
   three functions and their names; `Tables` are the contents of a data
   section.                                                                   *)
EXTENDS AnalysisPasses

MCPrintable == {6, 7}
MCNoReturnNames == {"exit"}
MCCrtStarters == {"crt"}
MCKnownSigs == [memset |-> 3]
MCPartOf == [r \in 0..4 |-> IF r = 4 THEN 1 ELSE r]     \* 4 is a part of 1

Op(kind) == [len |-> 1, kind |-> kind, to |-> 0, reg |-> 0, base |-> 0, index |-> 0, disp |-> 0,
             val |-> 0, junk |-> FALSE, changes |-> {}]
Plain == Op("plain")
Padding == [Plain EXCEPT !.junk = TRUE]
Ret == Op("ret")
To(kind, t) == [Op(kind) EXCEPT !.to = t]
Load(kind, r, v) ==
    [Op(kind) EXCEPT !.reg = r, !.val = v, !.changes = IF kind = "plain" THEN {r} ELSE {}]
Push(r) == [Op("plain") EXCEPT !.reg = r]
Changes(r) == [Op("plain") EXCEPT !.changes = {r}]      \* without naming it first
Via(kind, r, d) == [Op(kind) EXCEPT !.base = r, !.disp = d]
Through(kind, r) == [Op(kind) EXCEPT !.reg = r, !.changes = IF kind = "plain" THEN {r} ELSE {}]
ByTable(a) == [Op("jmp") EXCEPT !.val = a]

Text == [va |-> 1, exec |-> TRUE, name |-> ".text", bytes |-> <<5, 5, 5, 5, 5>>]
Section(name, words) ==
    [va |-> 8, exec |-> FALSE, name |-> name, bytes |-> FlattenSeq(words)]
Program(instrs, funcs, words) ==
    [insns |-> instrs, funcs |-> funcs, entry |-> 1,
     imports |-> <<>>, exports |-> <<>>, sections |-> <<Text, Section(".rdata", words)>>]

Sub(addrs) == [a \in addrs |-> "sub"]
Jumps == {Plain, Ret, To("jmp", 3), To("jcc", 1), To("jcc", 3)}
Flows ==
    {Program(<<a, b, c, d>>, Sub(fs), << <<1, 0>>, <<3, 0>>, <<0, 6>> >>) :
        a \in Jumps \cup {To("jcc", 4), To("jmp", 4), To("jmp", 1), To("call", 3)},
        b \in Jumps \cup {Padding}, c \in Jumps \cup {Padding, To("jcc", 4), To("jmp", 1)},
        d \in {Ret, Padding, To("jmp", 2), ByTable(8)},
        fs \in {{1}, {1, 3}}}

Moves == {Plain, Load("mov", 1, 8), Load("lea", 1, 8), Load("mov", 1, 3), Load("cmp", 1, 1),
          Through("plain", 1), To("call", 0), To("jcc", 3)}
Uses == {Via("call", 1, 0), Via("call", 1, 2), Via("jmp", 1, 0), Via("jmp", 1, 1),
         Through("call", 1), Through("jmp", 1), Via("call", 2, 0), Via("call", 1, 4),
         [Via("jmp", 1, 0) EXCEPT !.index = 2]}
Indirect ==
    {Program(<<a, b, c, u, Ret>>, Sub({1}), << <<1, 0>>, <<3, 0>>, <<2, 0>> >>) :
        a \in Moves \ {Plain}, b \in Moves \cup {Push(1), Changes(1), Load("mov", 4, 10)}, c \in Moves \cup {Via("call", 1, 0), Through("jmp", 1)},
        u \in Uses}

Calls ==
    {[Program(<<a, b, c, d, Ret>>, (1 :> n1) @@ (3 :> n3) @@ (5 :> "sub"), << <<0, 6>> >>)
        EXCEPT !.exports = exports] :
        a \in {To("call", 3), To("call", 5), To("jmp", 3)},
        b \in {Ret, To("call", 5), To("jmp", 5), To("jmp", 1), Load("cmp", 2, 0)},
        c \in {To("call", 5), Ret}, d \in {[Ret EXCEPT !.val = 2], To("jmp", 1), To("jmp", 5), Through("plain", 3)},
        n1 \in {"sub", "crt"}, n3 \in {"sub", "exit", "memset"},
        exports \in {<<>>, << [addr |-> 5, name |-> "first"] >>,
                     << [addr |-> 3, name |-> "crt"], [addr |-> 8, name |-> "data"] >>}}

Words == {<<0, 0>>, <<1, 0>>, <<6, 7>>, <<7, 0>>}
Tables ==
    {[Program(<<Load("lea", 1, 8), Load("plain", 1, 10), Ret>>, Sub({1}), <<>>)
        EXCEPT !.sections = <<Text, Section(name, <<v, w, x, y, z>>)>>,
               !.imports = imports] :
        name \in {".rdata", ".data"}, v \in Words, w \in Words, x \in Words, y \in Words,
        z \in {<<0, 0>>, <<1, 0>>},
        imports \in {<<>>, << [slot |-> 12] >>}}
    \cup {[Program(<<Load("lea", 1, 8), Load("plain", 1, 10), Ret>>, Sub({1}), <<>>)
             EXCEPT !.sections = <<Text, Section(".bss", <<v, w, x, y, z, v>>)>>] :
             v \in Words, w \in Words, x \in Words, y \in Words, z \in {<<0, 0>>, <<1, 0>>}}

MCPrograms == Flows \cup Indirect \cup Calls \cup Tables
=============================================================================
