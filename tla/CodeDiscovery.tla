---------------------------- MODULE CodeDiscovery ----------------------------
(***************************************************************************)
(* How hype::Analyzer finds code (src/core/analysis/analyzer.cpp): linear  *)
(* sweep of every executable section on the worker pool, recursive descent *)
(* from the entry point and the exports, the merge of both, and the        *)
(* functions.  The program under analysis is arbitrary: img says what the   *)
(* decoder makes of every address, a length, a kind and a target.  What is *)
(* kept in tables by address is a set of addresses here, since an          *)
(* instruction is always the one decoded there.                            *)
(***************************************************************************)
EXTENDS Naturals, Sequences, FiniteSets

CONSTANTS
  Images,     \* the programs
  MaxSweep    \* kMaxLinearSweepSection

(* A section has the addresses first..last; its bytes in the file may go on   *)
(* to end, since files are padded.  Where decoding fails the kind is "bad"   *)
(* and the length that of the byte the sweep shows instead.  An address 0    *)
(* is none, as in the code: the target of an indirect branch.              *)
Insn == [len : Nat \ {0}, kind : {"bad", "plain", "call", "jmp", "jcc", "ret"}, to : Nat]
StoredIn(s) == s.first..s.end
StoredOf(i) == UNION {StoredIn(s) : s \in i.sections}

WellFormed(i) ==
  /\ i.sections \subseteq [first : Nat \ {0}, last : Nat, end : Nat]
  /\ \A s \in i.sections : s.first <= s.last /\ s.last <= s.end
  /\ \A s, t \in i.sections : s = t \/ StoredIn(s) \intersect StoredIn(t) = {}
  /\ i.insn \in [StoredOf(i) -> Insn]
  /\ \A s \in i.sections : \A a \in StoredIn(s) : a + i.insn[a].len <= s.end + 1
  /\ \A a \in StoredOf(i) : i.insn[a].kind = "bad" => i.insn[a].len = 1
  /\ i.roots \in Seq(Nat)          \* the entry point and the exports
  /\ i.others \subseteq Nat        \* .pdata starts and import thunks

ASSUME ImagesAssumption == \A i \in Images : WellFormed(i)

ASSUME MaxSweepAssumption == MaxSweep \in Nat

VARIABLES
  img,        \* img_ and the decoder; never changes
  pass,       \* which pass of run() is next
  off,        \* how far the sweep of each section is
  tentative,  \* tentative_
  todo,       \* the roots recursive_descent has not tried
  visited,    \* descend: where decoding has started
  wl,         \* descend: the queue
  cur,        \* descend: the address to decode, 0 between two starts
  insns,      \* db_.insns
  confirmed,  \* history: db_.insns as descent left it
  funcs       \* db_.funcs

vars == <<img, pass, off, tentative, todo, visited, wl, cur, insns, confirmed, funcs>>
descent == <<todo, visited, wl, cur>>

Stored == StoredOf(img)
Code == UNION {s.first..s.last : s \in img.sections}   \* is_code_addr
Swept == {s \in img.sections : s.end - s.first + 1 <= MaxSweep}
RangeOf(q) == {q[n] : n \in DOMAIN q}

Kind(a) == img.insn[a].kind
Target(a) == img.insn[a].to                            \* branch_target
End(a) == a + img.insn[a].len
Overlap(a, b) == a < End(b) /\ b < End(a)
SectionOf(a) == CHOOSE s \in img.sections : a \in StoredIn(s)

Init ==
  /\ img \in Images
  /\ pass = "sweep"
  /\ off = [s \in Swept |-> s.first]
  /\ tentative = {}
  /\ todo = img.roots /\ visited = {} /\ wl = <<>> /\ cur = 0
  /\ insns = {} /\ confirmed = {} /\ funcs = {}
----------------------------------------------------------------------------
(* linear_sweep: one task per section, decode_range, which shows a byte that *)
(* cannot be decoded as "db" and goes on after it.                         *)
Sweep(s) ==
  /\ pass = "sweep" /\ s \in Swept /\ off[s] <= s.end
  /\ tentative' = tentative \union {off[s]}
  /\ off' = [off EXCEPT ![s] = End(off[s])]
  /\ UNCHANGED <<img, pass, descent, insns, confirmed, funcs>>

(* f.get() for every section.                                              *)
EndSweep ==
  /\ pass = "sweep"
  /\ \A s \in Swept : off[s] > s.end
  /\ pass' = "descend"
  /\ UNCHANGED <<img, off, tentative, descent, insns, confirmed, funcs>>
----------------------------------------------------------------------------
(* recursive_descent calls descend for each root with one set visited.      *)
NextRoot ==
  /\ pass = "descend" /\ wl = <<>> /\ cur = 0 /\ todo # <<>>
  /\ wl' = <<Head(todo)>> /\ todo' = Tail(todo)
  /\ UNCHANGED <<img, pass, off, tentative, visited, cur, insns, confirmed, funcs>>

PopUnmarked ==   \* mutant: visited.insert is forgotten
  /\ pass = "descend" /\ cur = 0 /\ wl # <<>>
  /\ wl' = Tail(wl)
  /\ cur' = IF Head(wl) \in Code \ visited THEN Head(wl) ELSE 0
  /\ UNCHANGED <<img, pass, off, tentative, todo, visited, insns, confirmed, funcs>>

Pop ==
  /\ pass = "descend" /\ cur = 0 /\ wl # <<>>
  /\ wl' = Tail(wl)
  /\ IF Head(wl) \in Code \ visited
     THEN visited' = visited \union {Head(wl)} /\ cur' = Head(wl)
     ELSE UNCHANGED <<visited, cur>>
  /\ UNCHANGED <<img, pass, off, tentative, todo, insns, confirmed, funcs>>

(* Calls and branches put their target in the queue.  Decoding goes on       *)
(* behind everything but a return and a jump, through whatever was decoded   *)
(* before, to the end of the section's bytes.                              *)
Queue(a) ==
  IF Kind(a) \in {"call", "jmp", "jcc"} /\ Target(a) # 0 /\ Target(a) \notin visited
  THEN Append(wl, Target(a)) ELSE wl

After(a) ==
  IF Kind(a) \in {"ret", "jmp"} \/ End(a) \notin StoredIn(SectionOf(a)) THEN 0 ELSE End(a)

AfterEnd(a) ==   \* mutant: a call ends a block
  IF Kind(a) \in {"ret", "jmp", "call"} \/ End(a) \notin StoredIn(SectionOf(a)) THEN 0 ELSE End(a)

DecodeNoFallThrough ==   \* mutant
  /\ pass = "descend" /\ cur # 0
  /\ IF Kind(cur) = "bad"
     THEN cur' = 0 /\ UNCHANGED <<wl, insns>>
     ELSE cur' = AfterEnd(cur) /\ wl' = Queue(cur) /\ insns' = insns \union {cur}
  /\ UNCHANGED <<img, pass, off, tentative, todo, visited, confirmed, funcs>>

Decode ==
  /\ pass = "descend" /\ cur # 0
  /\ IF Kind(cur) = "bad"
     THEN cur' = 0 /\ UNCHANGED <<wl, insns>>
     ELSE cur' = After(cur) /\ wl' = Queue(cur) /\ insns' = insns \union {cur}
  /\ UNCHANGED <<img, pass, off, tentative, todo, visited, confirmed, funcs>>

EndDescent ==
  /\ pass = "descend" /\ wl = <<>> /\ cur = 0 /\ todo = <<>>
  /\ confirmed' = insns
  /\ pass' = "merge"
  /\ UNCHANGED <<img, off, tentative, descent, insns, funcs>>
----------------------------------------------------------------------------
(* merge_tentative: an instruction of the sweep is taken unless it overlaps  *)
(* the last confirmed one before it or the first one after it.             *)
ClosestBefore(a) == {c \in insns : c < a /\ \A d \in insns : d < a => d <= c}
ClosestAfter(a) == {c \in insns : c > a /\ \A d \in insns : d > a => d >= c}

Overlaps(a) ==
  \/ \E c \in ClosestBefore(a) : End(c) > a
  \/ \E c \in ClosestAfter(a) : c < End(a)

OverlapsBefore(a) == \E c \in ClosestBefore(a) : End(c) > a    \* mutant

Touches(a) ==   \* mutant: >= for >
  \/ \E c \in ClosestBefore(a) : End(c) >= a
  \/ \E c \in ClosestAfter(a) : c < End(a)

MergeBeforeOnly ==   \* mutant
  /\ pass = "merge"
  /\ insns' = insns \union {a \in tentative \intersect Code : ~OverlapsBefore(a)}
  /\ tentative' = {}
  /\ pass' = "functions"
  /\ UNCHANGED <<img, off, descent, confirmed, funcs>>

MergeApart ==   \* mutant
  /\ pass = "merge"
  /\ insns' = insns \union {a \in tentative \intersect Code : ~Touches(a)}
  /\ tentative' = {}
  /\ pass' = "functions"
  /\ UNCHANGED <<img, off, descent, confirmed, funcs>>

Merge ==
  /\ pass = "merge"
  /\ insns' = insns \union {a \in tentative \intersect Code : ~Overlaps(a)}
  /\ tentative' = {}
  /\ pass' = "functions"
  /\ UNCHANGED <<img, off, descent, confirmed, funcs>>

(* detect_functions and detect_thunks: the roots, the targets of calls that *)
(* are instructions, the exception directory, the thunks by their bytes.    *)
Called == {Target(a) : a \in {b \in insns : Kind(b) = "call"}} \intersect insns

Functions ==
  /\ pass = "functions"
  /\ funcs' = RangeOf(img.roots) \union img.others \union Called
  /\ pass' = "done"
  /\ UNCHANGED <<img, off, tentative, descent, insns, confirmed>>

Done == pass = "done" /\ UNCHANGED vars

Step ==
  \/ \E s \in Swept : Sweep(s)
  \/ EndSweep
  \/ NextRoot \/ Pop \/ Decode \/ EndDescent
  \/ Merge \/ Functions

Next == Step \/ Done

Safe == Init /\ [][Next]_vars

(* The thread of the analysis and the workers run.                         *)
Spec == Safe /\ WF_vars(Step)
----------------------------------------------------------------------------
TypeOK ==
  /\ WellFormed(img)
  /\ pass \in {"sweep", "descend", "merge", "functions", "done"}
  /\ off \in [Swept -> Nat]
  /\ tentative \subseteq Stored
  /\ todo \in Seq(Nat) /\ wl \in Seq(Nat)
  /\ visited \subseteq Code
  /\ cur \in Stored \union {0}
  /\ insns \subseteq Stored /\ confirmed \subseteq Stored
  /\ funcs \subseteq Nat

(* What can be executed as far as the instructions show: the least set that  *)
(* holds the roots, what follows an instruction in its section, and the      *)
(* targets of calls and branches.                                          *)
Leads(a, b) ==
  /\ Kind(a) # "bad"
  /\ \/ b = After(a)
     \/ Kind(a) \in {"call", "jmp", "jcc"} /\ b = Target(a) /\ b \in Code

Closed(S) ==
  /\ RangeOf(img.roots) \intersect Code \subseteq S
  /\ \A a \in S, b \in Stored : Leads(a, b) => b \in S

Reachable == {a \in Stored : \A S \in SUBSET Stored : Closed(S) => a \in S}

(* Recursive descent finds all reachable instructions and no others.       *)
DescentIsExact ==
  pass = "merge" => confirmed = {a \in Reachable : Kind(a) # "bad"}

Disjoint(S) == \A a, b \in S : a # b => ~Overlap(a, b)

(* If the instructions that descent found do not overlap, nor do those of    *)
(* the whole listing: an address is shown once.                            *)
ListingIsDisjoint ==
  pass \in {"functions", "done"} /\ Disjoint(confirmed) => Disjoint(insns)

(* No byte of code is left out of the listing by the merge, but the bytes of *)
(* what overlaps a confirmed instruction.                                  *)
Covered(b) == \E a \in insns : a <= b /\ b < End(a)

NothingIsLost ==
  pass = "functions" =>
    \A s \in Swept : \A b \in s.first..s.last :
      \/ Covered(b)
      \/ \E a \in StoredIn(s) : \E c \in confirmed :
           a <= b /\ b < End(a) /\ Overlap(a, c)

(* A reachable call of code that can be decoded calls a function.          *)
CallsHaveFunctions ==
  pass = "done" =>
    \A a \in Reachable :
      Kind(a) = "call" /\ Target(a) \in Code /\ Kind(Target(a)) # "bad" => Target(a) \in funcs

(* The analysis ends, whatever the program: loops in it are no loops here.  *)
Terminates == <>(pass = "done")
=============================================================================
