--------------------------- MODULE MCCodeDiscovery ---------------------------
(* All programs of six or seven bytes, the seventh being padding, whose            *)
(* instructions are taken from a few for each address: one section, one that is  *)
(* too large for the sweep, or two that touch.                                  *)
EXTENDS CodeDiscovery

I(k, n, t) == [kind |-> k, len |-> n, to |-> t]
Bad == I("bad", 1, 0)

At == [a \in 1..7 |->
  CASE a = 1 -> {I("plain", 2, 0), I("call", 1, 5), I("jcc", 2, 4)}
    [] a = 2 -> {I("plain", 3, 0), I("jmp", 2, 5), I("jmp", 1, 0), Bad}
    [] a = 3 -> {I("ret", 1, 0), I("plain", 2, 0), Bad}
    [] a = 4 -> {I("plain", 1, 0), I("call", 2, 9)}
    [] a = 5 -> {I("jmp", 2, 3), I("plain", 2, 0), I("jcc", 1, 1), Bad}
    [] a = 6 -> {I("plain", 1, 0), I("ret", 1, 0)}
    [] a = 7 -> {I("plain", 1, 0), Bad}]

Layouts == {
  {[first |-> 1, last |-> 6, end |-> 6]},
  {[first |-> 1, last |-> 6, end |-> 7]},
  {[first |-> 1, last |-> 4, end |-> 4], [first |-> 5, last |-> 6, end |-> 7]}}

EndOf(ss, a) == (CHOOSE s \in ss : a \in StoredIn(s)).end

(* What does not fit in its section cannot be decoded.                          *)
Text(ss, f) ==
  [a \in UNION {StoredIn(s) : s \in ss} |-> IF a + f[a].len > EndOf(ss, a) + 1 THEN Bad ELSE f[a]]

Texts == {<<a, b, c, d, e, f, g>> : a \in At[1], b \in At[2], c \in At[3], d \in At[4],
                                    e \in At[5], f \in At[6], g \in At[7]}

MCImages ==
  {[sections |-> ss, insn |-> Text(ss, f), roots |-> r, others |-> {6}] :
     ss \in Layouts, f \in Texts, r \in {<<2>>, <<4, 1>>, <<9>>}}
=============================================================================
