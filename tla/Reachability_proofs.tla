-------------------------- MODULE Reachability_proofs --------------------------
(***************************************************************************)
(* Two walks over the code of a program, and what they find in every program. *)
(* Discovery of code (CodeDiscovery): recursive descent finds exactly the  *)
(* reachable instructions, the merge adds no overlap to a listing that had *)
(* none and drops only what is in the way, and reachable calls have        *)
(* functions.  Dominators of a function (Dominators): the loop keeps a tree *)
(* at every turn, where it ends the tree is one of dominators, and the phis *)
(* placed by it suffice.                                                   *)
(***************************************************************************)
EXTENDS CodeDiscovery, Dominators, FiniteSetTheorems, WellFoundedInduction, TLAPS

Undecodable == {a \in Stored : Kind(a) = "bad"}
Found == insns \union Undecodable \union ({cur} \ {0})

(* The sweeps: what they took lies end to end.                             *)
Sweeping ==
  /\ \A s \in Swept : s.first <= off[s] /\ off[s] <= s.end + 1
  /\ tentative \subseteq UNION {StoredIn(s) : s \in Swept}
  /\ \A s \in Swept : \A a \in tentative \intersect StoredIn(s) : End(a) <= off[s]
  /\ Disjoint(tentative)
  /\ pass \in {"sweep", "descend", "merge"} =>
       \A s \in Swept : \A b \in s.first..(off[s] - 1) : \E a \in tentative : a <= b /\ b < End(a)
  /\ pass # "sweep" => \A s \in Swept : off[s] > s.end

(* The descent: nothing unreachable is found or waits, and what leads out of *)
(* the found instructions is found or waits.                               *)
Descending ==
  /\ pass = "sweep" => insns = {} /\ cur = 0 /\ wl = <<>> /\ visited = {}
  /\ RangeOf(todo) \subseteq RangeOf(img.roots)
  /\ RangeOf(wl) \intersect Code \subseteq Reachable
  /\ cur # 0 => cur \in Reachable
  /\ pass \in {"sweep", "descend"} =>
       /\ insns \subseteq Reachable \ Undecodable
       /\ visited \subseteq Found
       /\ RangeOf(img.roots) \intersect Code \subseteq Found \union RangeOf(wl) \union RangeOf(todo)
       /\ \A a \in insns : After(a) \in Found \union {0}
       /\ \A a \in insns : Kind(a) \in {"call", "jmp", "jcc"} /\ Target(a) \in Code =>
            Target(a) \in Found \union RangeOf(wl)

(* After the descent.                                                      *)
Merged ==
  /\ pass \in {"merge", "functions", "done"} => confirmed = Reachable \ Undecodable
  /\ pass = "merge" => insns = confirmed
  /\ pass \in {"functions", "done"} => confirmed \subseteq insns

IInv ==
  TypeOK /\ Sweeping /\ Descending /\ Merged
  /\ ListingIsDisjoint /\ NothingIsLost /\ CallsHaveFunctions
----------------------------------------------------------------------------
(* Numbers: every set of them that is not empty has a least member, and a    *)
(* greatest one below any bound.                                           *)
LEMMA Least ==
  ASSUME NEW S \in SUBSET Nat, S # {}
  PROVE  \E m \in S : \A k \in S : m <= k
<1> DEFINE R == {p \in Nat \X Nat : p[1] < p[2]}
<1>1. IsWellFoundedOn(R, Nat)
  BY NatLessThanWellFounded DEF OpToRel
<1> HIDE DEF R
<1>2. PICK m \in S : \A k \in S : <<k, m>> \notin R
  BY <1>1, WFMin
<1>3. \A k \in S : ~(k < m)
  BY <1>2 DEF R
<1> QED  BY <1>3

LEMMA Greatest ==
  ASSUME NEW S \in SUBSET Nat, S # {}, NEW n \in Nat, \A k \in S : k <= n
  PROVE  \E m \in S : \A k \in S : k <= m
<1> DEFINE T == {k \in Nat : \E m \in S : k = n - m}
<1>1. T \in SUBSET Nat /\ T # {}
  <2>1. PICK m \in S : TRUE  OBVIOUS
  <2>2. n - m \in T  BY <2>1
  <2> QED  BY <2>2
<1>2. PICK d \in T : \A k \in T : d <= k
  BY <1>1, Least
<1>3. PICK m \in S : d = n - m
  BY <1>2
<1>4. ASSUME NEW k \in S PROVE k <= m
  <2>1. n - k \in T  OBVIOUS
  <2> QED  BY <2>1, <1>2, <1>3
<1> QED  BY <1>4
----------------------------------------------------------------------------
(* An address of a section's bytes, and what is decoded there.             *)
LEMMA Sections ==
  ASSUME WellFormed(img), NEW s \in img.sections, NEW a \in StoredIn(s)
  PROVE  /\ SectionOf(a) = s /\ a \in Stored
         /\ s.first \in Nat /\ s.last \in Nat /\ s.end \in Nat
         /\ 0 < s.first /\ s.first <= s.last /\ s.last <= s.end
         /\ a \in Nat /\ 0 < a /\ s.first <= a /\ a <= s.end
         /\ End(a) \in Nat /\ a < End(a) /\ End(a) <= s.end + 1
         /\ img.insn[a] \in Insn
<1>1. /\ s.first \in Nat \ {0} /\ s.last \in Nat /\ s.end \in Nat
      /\ s.first <= s.last /\ s.last <= s.end
  BY DEF WellFormed
<1>2. a \in Nat /\ s.first <= a /\ a <= s.end
  BY <1>1 DEF StoredIn
<1>3. a \in Stored
  BY DEF Stored, StoredOf
<1>4. img.insn[a] \in Insn
  BY <1>3 DEF WellFormed, Stored
<1>5. a + img.insn[a].len <= s.end + 1
  BY DEF WellFormed
<1>6. SectionOf(a) = s
  BY DEF SectionOf, WellFormed
<1> QED  BY <1>1, <1>2, <1>3, <1>4, <1>5, <1>6 DEF Insn, End

LEMMA StoredAddress ==
  ASSUME WellFormed(img), NEW a \in Stored
  PROVE  /\ SectionOf(a) \in img.sections /\ a \in StoredIn(SectionOf(a))
         /\ a \in Nat /\ 0 < a /\ End(a) \in Nat /\ a < End(a)
         /\ img.insn[a] \in Insn
<1>1. PICK s \in img.sections : a \in StoredIn(s)
  BY DEF Stored, StoredOf
<1> QED  BY <1>1, Sections

LEMMA CodeIsStored ==
  ASSUME WellFormed(img)
  PROVE  Code \subseteq Stored /\ Swept \subseteq img.sections
<1>1. ASSUME NEW s \in img.sections, NEW a \in s.first..s.last PROVE a \in StoredIn(s)
  BY DEF WellFormed, StoredIn
<1> QED  BY <1>1 DEF Code, Stored, StoredOf, Swept

LEMMA AfterType ==
  ASSUME WellFormed(img), NEW a \in Stored
  PROVE  After(a) \in Stored \union {0}
<1>1. SectionOf(a) \in img.sections
  BY StoredAddress
<1> QED  BY <1>1 DEF After, Stored, StoredOf

(* Where one instruction ends in another section, or at another byte.      *)
LEMMA SameSection ==
  ASSUME WellFormed(img), NEW s \in img.sections, NEW a \in Stored, NEW b \in StoredIn(s),
         a <= b, b < End(a)
  PROVE  a \in StoredIn(s)
<1>1. PICK t \in img.sections : a \in StoredIn(t)
  BY DEF Stored, StoredOf
<1>2. b \in StoredIn(t)
  BY <1>1, Sections DEF StoredIn
<1>3. t = s
  BY <1>2 DEF WellFormed
<1> QED  BY <1>1, <1>3
----------------------------------------------------------------------------
(* What is reachable.                                                      *)
LEMMA RootsAreReachable ==
  ASSUME WellFormed(img)
  PROVE  RangeOf(img.roots) \intersect Code \subseteq Reachable
BY CodeIsStored DEF Reachable, Closed

LEMMA ReachableLeadsOn ==
  ASSUME NEW a \in Reachable, NEW b \in Stored, Leads(a, b)
  PROVE  b \in Reachable
<1>1. SUFFICES ASSUME NEW S \in SUBSET Stored, Closed(S) PROVE b \in S
  BY DEF Reachable
<1>2. a \in S
  BY <1>1 DEF Reachable
<1> QED  BY <1>1, <1>2 DEF Closed

LEMMA ReachableIsLeast ==
  ASSUME NEW S \in SUBSET Stored, Closed(S)
  PROVE  Reachable \subseteq S
BY DEF Reachable

(* The program does not change.                                            *)
LEMMA SameProgram ==
  ASSUME img' = img
  PROVE  /\ Stored' = Stored /\ Code' = Code /\ Swept' = Swept /\ Undecodable' = Undecodable
         /\ Reachable' = Reachable /\ WellFormed(img)' = WellFormed(img)
         /\ \A a : /\ Kind(a)' = Kind(a) /\ Target(a)' = Target(a) /\ End(a)' = End(a)
                   /\ After(a)' = After(a)
<1>1. /\ Stored' = Stored /\ Code' = Code /\ Swept' = Swept
      /\ WellFormed(img)' = WellFormed(img)
  BY DEF Stored, Code, Swept, WellFormed
<1>2. \A a : /\ Kind(a)' = Kind(a) /\ Target(a)' = Target(a) /\ End(a)' = End(a)
             /\ After(a)' = After(a)
  BY DEF Kind, Target, End, After, SectionOf
<1>3. \A a, b : Leads(a, b)' <=> Leads(a, b)
  BY <1>1, <1>2 DEF Leads
<1>4. \A S : Closed(S)' <=> Closed(S)
  BY <1>1, <1>3 DEF Closed
<1> QED  BY <1>1, <1>2, <1>4 DEF Reachable, Undecodable
----------------------------------------------------------------------------
LEMMA Initially == Init => IInv
<1> SUFFICES ASSUME Init PROVE IInv  OBVIOUS
<1>1. WellFormed(img)
  BY ImagesAssumption DEF Init
<1>2. \A s \in Swept : s.first \in Nat /\ s.end \in Nat /\ s.first <= s.end
  BY <1>1 DEF WellFormed, Swept
<1>3. TypeOK
  BY <1>1, <1>2 DEF Init, TypeOK, WellFormed
<1>4. Sweeping
  BY <1>2 DEF Init, Sweeping, Disjoint
<1>5. Descending
  BY DEF Init, Descending, RangeOf
<1>6. Merged /\ ListingIsDisjoint /\ NothingIsLost /\ CallsHaveFunctions
  BY DEF Init, Merged, ListingIsDisjoint, NothingIsLost, CallsHaveFunctions
<1> QED  BY <1>3, <1>4, <1>5, <1>6 DEF IInv

(* decode_range takes the next instruction of its section.                 *)
LEMMA SweepStep ==
  ASSUME IInv, NEW s \in Swept, Sweep(s)
  PROVE  IInv'
<1> DEFINE a == off[s]
<1>1. img' = img /\ pass = "sweep" /\ pass' = pass /\ UNCHANGED <<descent, insns, confirmed, funcs>>
  BY DEF Sweep
<1>2. WellFormed(img) /\ s \in img.sections
  BY CodeIsStored DEF IInv, TypeOK
<1>3. a \in StoredIn(s)
  BY <1>2 DEF IInv, TypeOK, Sweeping, Sweep, StoredIn
<1>4. /\ a \in Stored /\ a \in Nat /\ s.first \in Nat /\ s.end \in Nat
      /\ a < End(a) /\ End(a) <= s.end + 1 /\ End(a) \in Nat /\ s.first <= a
  BY <1>2, <1>3, Sections
<1>5. tentative' = tentative \union {a} /\ off' = [off EXCEPT ![s] = End(a)]
  BY DEF Sweep
<1>6. off' \in [Swept -> Nat] /\ off'[s] = End(a) /\ \A t \in Swept : t # s => off'[t] = off[t]
  BY <1>4, <1>5 DEF IInv, TypeOK
<1>7. TypeOK'
  BY <1>1, <1>4, <1>5, <1>6, SameProgram DEF IInv, TypeOK, descent
<1>8. Sweeping'
  <2>1. \A t \in Swept : t.first <= off'[t] /\ off'[t] <= t.end + 1
    <3>1. off[s] <= End(a)
      BY <1>4
    <3>2. s.first <= off'[s] /\ off'[s] <= s.end + 1
      BY <1>4, <1>6, <3>1
    <3>3. \A t \in Swept : t # s => t.first <= off'[t] /\ off'[t] <= t.end + 1
      BY <1>6 DEF IInv, Sweeping
    <3> QED  BY <3>2, <3>3
  <2>2. tentative' \subseteq UNION {StoredIn(t) : t \in Swept}
    BY <1>3, <1>5 DEF IInv, Sweeping
  <2>3. ASSUME NEW t \in Swept, NEW b \in tentative' \intersect StoredIn(t)
        PROVE  End(b) <= off'[t]
    <3>1. CASE t # s
      <4>1. b # a  BY <3>1, <1>2, <1>3, CodeIsStored DEF WellFormed
      <4> QED  BY <4>1, <3>1, <1>5, <1>6 DEF IInv, Sweeping
    <3>2. CASE t = s /\ b = a
      BY <3>2, <1>4, <1>6
    <3>3. CASE t = s /\ b # a
      <4>1. End(b) <= off[s] /\ b \in Stored
        BY <3>3, <1>5, <1>2, Sections DEF IInv, Sweeping
      <4> QED  BY <4>1, <3>3, <1>2, <1>4, <1>6, StoredAddress DEF IInv, TypeOK
    <3> QED  BY <3>1, <3>2, <3>3
  <2>4. ASSUME NEW b \in tentative PROVE ~Overlap(a, b) /\ ~Overlap(b, a)
    <3>1. b \in Stored /\ b \in Nat /\ End(b) \in Nat
      BY <1>2, StoredAddress DEF IInv, TypeOK
    <3>2. CASE b \in StoredIn(s)
      BY <3>1, <3>2, <1>4 DEF IInv, Sweeping, Overlap
    <3>3. CASE b \notin StoredIn(s)
      <4>1. PICK t \in img.sections : b \in StoredIn(t)
        BY <3>1 DEF Stored, StoredOf
      <4>2. ~(b <= a /\ a < End(b))
        BY <3>1, <3>3, <1>2, <1>3, SameSection
      <4>3. ~(a <= b /\ b < End(a))
        BY <4>1, <3>3, <1>2, <1>3, <1>4, SameSection, Sections DEF WellFormed
      <4> QED  BY <4>2, <4>3, <3>1, <1>2, <1>4, StoredAddress DEF Overlap
    <3> QED  BY <3>2, <3>3
  <2>5. Disjoint(tentative')
    BY <2>4, <1>5 DEF IInv, Sweeping, Disjoint
  <2>6. ASSUME NEW t \in Swept, NEW b \in t.first..(off'[t] - 1)
        PROVE  \E c \in tentative' : c <= b /\ b < End(c)
    <3>1. CASE b \in t.first..(off[t] - 1)
      BY <3>1, <1>1, <1>5 DEF IInv, Sweeping
    <3>2. CASE b \notin t.first..(off[t] - 1)
      <4>1. t = s  BY <3>2, <1>6
      <4>2. a <= b /\ b < End(a)
        BY <4>1, <3>2, <1>2, <1>4, <1>6, Sections, <1>3 DEF IInv, TypeOK
      <4> QED  BY <4>2, <1>5
    <3> QED  BY <3>1, <3>2
  <2>7. \A b, c : Overlap(b, c)' <=> Overlap(b, c)
    BY <1>1, SameProgram DEF Overlap
  <2>8. Disjoint(tentative)'
    BY <2>5, <2>7 DEF Disjoint
  <2>9. \A b : End(b)' = End(b)
    BY <1>1, SameProgram
  <2> QED
    BY <2>1, <2>2, <2>3, <2>6, <2>8, <2>9, <1>1, SameProgram DEF Sweeping
<1>9. Descending'
  BY <1>1, SameProgram DEF IInv, Descending, Found, descent
<1>10. Merged' /\ ListingIsDisjoint' /\ NothingIsLost' /\ CallsHaveFunctions'
  BY <1>1 DEF IInv, Merged, ListingIsDisjoint, NothingIsLost, CallsHaveFunctions
<1> QED  BY <1>7, <1>8, <1>9, <1>10 DEF IInv

(* What the sweeps took is left alone by the descent.                      *)
LEMMA SweepingKept ==
  ASSUME Sweeping, UNCHANGED <<img, off, tentative>>, pass # "sweep" \/ pass' = "sweep",
         pass \in {"sweep", "descend", "merge"}
  PROVE  Sweeping'
<1>1. Disjoint(tentative)' <=> Disjoint(tentative)
  BY SameProgram DEF Disjoint, Overlap
<1>2. \A b : End(b)' = End(b)
  BY SameProgram
<1>3. Swept' = Swept
  BY SameProgram
<1> QED  BY <1>1, <1>2, <1>3 DEF Sweeping

LEMMA EndSweepStep ==
  ASSUME IInv, EndSweep
  PROVE  IInv'
<1>1. pass = "sweep" /\ pass' = "descend" /\ UNCHANGED <<img, off, tentative, descent, insns, confirmed, funcs>>
  BY DEF EndSweep
<1>2. TypeOK'
  BY <1>1, SameProgram DEF IInv, TypeOK, descent
<1>3. Sweeping'
  <2>1. Disjoint(tentative)' <=> Disjoint(tentative)
    BY <1>1, SameProgram DEF Disjoint, Overlap
  <2>2. (\A b : End(b)' = End(b)) /\ Swept' = Swept
    BY <1>1, SameProgram
  <2> QED  BY <1>1, <2>1, <2>2 DEF IInv, Sweeping, EndSweep
<1>4. Descending'
  BY <1>1, SameProgram DEF IInv, Descending, Found, descent
<1>5. Merged' /\ ListingIsDisjoint' /\ NothingIsLost' /\ CallsHaveFunctions'
  BY <1>1 DEF IInv, Merged, ListingIsDisjoint, NothingIsLost, CallsHaveFunctions
<1> QED  BY <1>2, <1>3, <1>4, <1>5 DEF IInv
----------------------------------------------------------------------------
(* The head of a queue and the rest.                                       *)
LEMMA Queues ==
  ASSUME NEW q \in Seq(Nat), q # <<>>
  PROVE  /\ Head(q) \in Nat /\ Tail(q) \in Seq(Nat)
         /\ RangeOf(q) = RangeOf(Tail(q)) \union {Head(q)}
<1>1. Len(q) \in Nat /\ Len(q) > 0 /\ DOMAIN q = 1..Len(q) /\ Head(q) = q[1] /\ 1 \in DOMAIN q
      /\ DOMAIN Tail(q) = 1..(Len(q) - 1) /\ \A n \in DOMAIN Tail(q) : Tail(q)[n] = q[n + 1]
  OBVIOUS
<1>2. ASSUME NEW n \in DOMAIN q PROVE q[n] \in RangeOf(Tail(q)) \union {Head(q)}
  <2>1. CASE n = 1
    BY <2>1, <1>1
  <2>2. CASE n # 1
    <3>1. n - 1 \in DOMAIN Tail(q) /\ Tail(q)[n - 1] = q[n]
      BY <2>2, <1>1
    <3> QED  BY <3>1 DEF RangeOf
  <2> QED  BY <2>1, <2>2
<1>3. \A n \in DOMAIN Tail(q) : n + 1 \in DOMAIN q
  BY <1>1
<1>4. Head(q) \in Nat /\ Tail(q) \in Seq(Nat)
  OBVIOUS
<1>5. RangeOf(Tail(q)) \subseteq RangeOf(q)
  BY <1>1, <1>3 DEF RangeOf
<1>6. Head(q) \in RangeOf(q)
  BY <1>1 DEF RangeOf
<1>7. RangeOf(q) \subseteq RangeOf(Tail(q)) \union {Head(q)}
  BY <1>2 DEF RangeOf
<1> QED  BY <1>4, <1>5, <1>6, <1>7

LEMMA Appended ==
  ASSUME NEW q \in Seq(Nat), NEW x \in Nat
  PROVE  Append(q, x) \in Seq(Nat) /\ RangeOf(Append(q, x)) = RangeOf(q) \union {x}
<1>1. DOMAIN Append(q, x) = 1..(Len(q) + 1) /\ Len(q) \in Nat /\ DOMAIN q = 1..Len(q)
      /\ Append(q, x)[Len(q) + 1] = x /\ \A n \in 1..Len(q) : Append(q, x)[n] = q[n]
  OBVIOUS
<1>2. \A n \in 1..(Len(q) + 1) : n \in 1..Len(q) \/ n = Len(q) + 1
  BY <1>1
<1>3. Len(q) + 1 \in 1..(Len(q) + 1)
  BY <1>1
<1>4. \A n \in 1..Len(q) : n \in 1..(Len(q) + 1)
  BY <1>1
<1> QED  BY <1>1, <1>2, <1>3, <1>4 DEF RangeOf

(* The next root of recursive_descent.                                     *)
LEMMA NextRootStep ==
  ASSUME IInv, NextRoot
  PROVE  IInv'
<1>1. /\ pass = "descend" /\ pass' = pass /\ wl = <<>> /\ cur = 0 /\ todo # <<>>
      /\ wl' = <<Head(todo)>> /\ todo' = Tail(todo)
      /\ UNCHANGED <<img, off, tentative, visited, cur, insns, confirmed, funcs>>
  BY DEF NextRoot
<1>2. todo \in Seq(Nat) /\ wl' \in Seq(Nat) /\ todo' \in Seq(Nat)
  BY <1>1 DEF IInv, TypeOK
<1>3. /\ RangeOf(wl) = {} /\ RangeOf(wl') = {Head(todo)}
      /\ RangeOf(todo) = RangeOf(todo') \union {Head(todo)}
  <2>1. RangeOf(wl) = {} /\ RangeOf(wl') = {Head(todo)}
    BY <1>1 DEF RangeOf
  <2> QED  BY <2>1, <1>1, <1>2, Queues
<1>4. TypeOK'
  BY <1>1, <1>2, SameProgram DEF IInv, TypeOK
<1>5. Sweeping'
  BY <1>1, SweepingKept DEF IInv
<1>6. Descending'
  <2>1. RangeOf(wl') \intersect Code \subseteq Reachable
    BY <1>3, RootsAreReachable DEF IInv, TypeOK, Descending
  <2>2. Found' = Found
    BY <1>1, SameProgram DEF Found
  <2>3. RangeOf(todo') \subseteq RangeOf(img.roots)
    BY <1>3 DEF IInv, Descending
  <2>4. /\ insns \subseteq Reachable \ Undecodable
        /\ visited \subseteq Found
        /\ RangeOf(img.roots) \intersect Code \subseteq Found \union RangeOf(wl') \union RangeOf(todo')
        /\ \A a \in insns : After(a) \in Found \union {0}
        /\ \A a \in insns : Kind(a) \in {"call", "jmp", "jcc"} /\ Target(a) \in Code =>
             Target(a) \in Found \union RangeOf(wl')
    BY <1>1, <1>3 DEF IInv, Descending
  <2>5. RangeOf(wl)' = RangeOf(wl') /\ RangeOf(todo)' = RangeOf(todo') /\ RangeOf(img.roots)' = RangeOf(img.roots)
    BY <1>1 DEF RangeOf
  <2> QED
    BY <2>1, <2>2, <2>3, <2>4, <2>5, <1>1, SameProgram DEF Descending
<1>7. Merged' /\ ListingIsDisjoint' /\ NothingIsLost' /\ CallsHaveFunctions'
  BY <1>1 DEF IInv, Merged, ListingIsDisjoint, NothingIsLost, CallsHaveFunctions
<1> QED  BY <1>4, <1>5, <1>6, <1>7 DEF IInv

(* descend takes an address from its queue.                                *)
LEMMA PopStep ==
  ASSUME IInv, Pop
  PROVE  IInv'
<1> DEFINE h == Head(wl)
<1>1. /\ pass = "descend" /\ pass' = pass /\ cur = 0 /\ wl # <<>> /\ wl' = Tail(wl)
      /\ UNCHANGED <<img, off, tentative, todo, insns, confirmed, funcs>>
  BY DEF Pop
<1>2. h \in Nat /\ wl' \in Seq(Nat) /\ RangeOf(wl) = RangeOf(wl') \union {h}
  BY <1>1, Queues DEF IInv, TypeOK
<1>3. WellFormed(img) /\ Code \subseteq Stored
  BY CodeIsStored DEF IInv, TypeOK
<1>4. \/ h \in Code \ visited /\ visited' = visited \union {h} /\ cur' = h
      \/ h \notin Code \ visited /\ visited' = visited /\ cur' = cur
  BY DEF Pop
<1>5. TypeOK'
  BY <1>1, <1>2, <1>3, <1>4, SameProgram DEF IInv, TypeOK
<1>6. Sweeping'
  BY <1>1, SweepingKept DEF IInv
<1>7. Descending'
  <2>1. Found' = Found \union ({cur'} \ {0})
    BY <1>1, <1>4, SameProgram DEF Found
  <2>2. h \in Code => h \in Found'
    <3>1. visited \subseteq Found
      BY <1>1 DEF IInv, Descending
    <3>2. 0 \notin Code
      BY <1>3, StoredAddress
    <3> QED  BY <3>1, <3>2, <1>4, <2>1
  <2>3. cur' # 0 => cur' \in Reachable
    BY <1>1, <1>2, <1>4 DEF IInv, Descending
  <2>4. visited' \subseteq Found'
    BY <1>1, <1>4, <2>1, <2>2 DEF IInv, Descending
  <2>5. RangeOf(wl') \intersect Code \subseteq Reachable
    BY <1>2 DEF IInv, Descending
  <2>6. /\ insns \subseteq Reachable \ Undecodable
        /\ RangeOf(img.roots) \intersect Code \subseteq Found' \union RangeOf(wl') \union RangeOf(todo)
        /\ \A a \in insns : After(a) \in Found' \union {0}
        /\ \A a \in insns : Kind(a) \in {"call", "jmp", "jcc"} /\ Target(a) \in Code =>
             Target(a) \in Found' \union RangeOf(wl')
    BY <1>1, <1>2, <2>1, <2>2 DEF IInv, Descending
  <2>7. RangeOf(wl)' = RangeOf(wl') /\ RangeOf(todo)' = RangeOf(todo) /\ RangeOf(img.roots)' = RangeOf(img.roots)
    BY <1>1 DEF RangeOf
  <2>8. RangeOf(todo) \subseteq RangeOf(img.roots)
    BY DEF IInv, Descending
  <2> QED
    BY <2>3, <2>4, <2>5, <2>6, <2>7, <2>8, <1>1, SameProgram DEF Descending
<1>8. Merged' /\ ListingIsDisjoint' /\ NothingIsLost' /\ CallsHaveFunctions'
  BY <1>1 DEF IInv, Merged, ListingIsDisjoint, NothingIsLost, CallsHaveFunctions
<1> QED  BY <1>5, <1>6, <1>7, <1>8 DEF IInv

(* descend decodes one instruction, or stops where there is none.          *)
LEMMA DecodeStep ==
  ASSUME IInv, Decode
  PROVE  IInv'
<1>1. /\ pass = "descend" /\ pass' = pass /\ cur # 0
      /\ UNCHANGED <<img, off, tentative, todo, visited, confirmed, funcs>>
  BY DEF Decode
<1>2. WellFormed(img) /\ Code \subseteq Stored /\ 0 \notin Stored
  BY CodeIsStored, StoredAddress DEF IInv, TypeOK
<1>3. cur \in Stored /\ cur \in Reachable /\ img.insn[cur] \in Insn
  BY <1>1, <1>2, StoredAddress DEF IInv, TypeOK, Descending
<1>4. /\ insns \subseteq Reachable \ Undecodable
      /\ visited \subseteq Found
      /\ RangeOf(img.roots) \intersect Code \subseteq Found \union RangeOf(wl) \union RangeOf(todo)
      /\ \A a \in insns : After(a) \in Found \union {0}
      /\ \A a \in insns : Kind(a) \in {"call", "jmp", "jcc"} /\ Target(a) \in Code =>
           Target(a) \in Found \union RangeOf(wl)
      /\ RangeOf(wl) \intersect Code \subseteq Reachable
      /\ RangeOf(todo) \subseteq RangeOf(img.roots)
  BY <1>1 DEF IInv, Descending
<1>5. Sweeping'
  BY <1>1, SweepingKept DEF IInv
<1>6. Merged' /\ ListingIsDisjoint' /\ NothingIsLost' /\ CallsHaveFunctions'
  BY <1>1 DEF IInv, Merged, ListingIsDisjoint, NothingIsLost, CallsHaveFunctions
<1>7. RangeOf(wl)' = RangeOf(wl') /\ RangeOf(todo)' = RangeOf(todo) /\ RangeOf(img.roots)' = RangeOf(img.roots)
  BY <1>1 DEF RangeOf
<1>8. CASE Kind(cur) = "bad"
  <2>1. cur' = 0 /\ wl' = wl /\ insns' = insns
    BY <1>8 DEF Decode
  <2>2. TypeOK'
    BY <1>1, <2>1, SameProgram DEF IInv, TypeOK
  <2>3. Found' = Found
    BY <1>1, <1>3, <1>8, <2>1, SameProgram DEF Found, Undecodable
  <2>4. Descending'
    BY <1>1, <1>4, <1>7, <2>1, <2>3, SameProgram DEF Descending
  <2> QED  BY <1>5, <1>6, <2>2, <2>4 DEF IInv
<1>9. CASE Kind(cur) # "bad"
  <2>1. cur' = After(cur) /\ wl' = Queue(cur) /\ insns' = insns \union {cur}
    BY <1>9 DEF Decode
  <2>2. cur' \in Stored \union {0}
    BY <1>2, <1>3, <2>1, AfterType
  <2>3. Target(cur) \in Nat
    BY <1>3 DEF Target, Insn
  <2>4. /\ wl' \in Seq(Nat) /\ RangeOf(wl) \subseteq RangeOf(wl')
        /\ RangeOf(wl') \subseteq RangeOf(wl) \union
             (IF Kind(cur) \in {"call", "jmp", "jcc"} THEN {Target(cur)} ELSE {})
    BY <2>1, <2>3, Appended DEF Queue, IInv, TypeOK
  <2>5. Kind(cur) \in {"call", "jmp", "jcc"} /\ Target(cur) \in Code =>
          Target(cur) \in visited \union RangeOf(wl')
    BY <2>1, <2>3, <1>2, Appended DEF Queue, IInv, TypeOK
  <2>6. TypeOK'
    BY <1>1, <1>3, <2>1, <2>2, <2>4, SameProgram DEF IInv, TypeOK
  <2>7. Found' = Found \union ({cur'} \ {0})
    BY <1>1, <1>3, <2>1, SameProgram DEF Found
  <2>8. cur' # 0 => cur' \in Reachable
    BY <1>3, <1>9, <2>1, <2>2, ReachableLeadsOn DEF Leads
  <2>9. RangeOf(wl') \intersect Code \subseteq Reachable
    <3>1. Kind(cur) \in {"call", "jmp", "jcc"} /\ Target(cur) \in Code => Target(cur) \in Reachable
      BY <1>2, <1>3, <1>9, ReachableLeadsOn DEF Leads
    <3> QED  BY <3>1, <2>4, <1>4
  <2>10. insns' \subseteq Reachable \ Undecodable
    BY <1>3, <1>4, <1>9, <2>1 DEF Undecodable
  <2>11. /\ visited \subseteq Found'
         /\ RangeOf(img.roots) \intersect Code \subseteq Found' \union RangeOf(wl') \union RangeOf(todo)
         /\ \A a \in insns' : After(a) \in Found' \union {0}
    BY <1>4, <2>1, <2>4, <2>7
  <2>12. \A a \in insns' : Kind(a) \in {"call", "jmp", "jcc"} /\ Target(a) \in Code =>
           Target(a) \in Found' \union RangeOf(wl')
    BY <1>4, <2>1, <2>4, <2>5, <2>7
  <2>13. Descending'
    BY <1>1, <1>4, <1>7, <2>8, <2>9, <2>10, <2>11, <2>12, SameProgram DEF Descending
  <2> QED  BY <1>5, <1>6, <2>6, <2>13 DEF IInv
<1> QED  BY <1>8, <1>9

(* When nothing waits any more, what was found is closed.                  *)
LEMMA EndDescentStep ==
  ASSUME IInv, EndDescent
  PROVE  IInv'
<1>1. /\ pass = "descend" /\ pass' = "merge" /\ wl = <<>> /\ cur = 0 /\ todo = <<>>
      /\ confirmed' = insns
      /\ UNCHANGED <<img, off, tentative, todo, visited, wl, cur, insns, funcs>>
  BY DEF EndDescent, descent
<1>2. WellFormed(img) /\ Code \subseteq Stored /\ 0 \notin Stored
  BY CodeIsStored, StoredAddress DEF IInv, TypeOK
<1>3. RangeOf(wl) = {} /\ RangeOf(todo) = {} /\ Found = insns \union Undecodable
  BY <1>1 DEF RangeOf, Found
<1>4. Found \subseteq Stored
  BY <1>3 DEF IInv, TypeOK, Undecodable
<1>5. /\ RangeOf(img.roots) \intersect Code \subseteq Found
      /\ \A a \in insns : After(a) \in Found \union {0}
      /\ \A a \in insns : Kind(a) \in {"call", "jmp", "jcc"} /\ Target(a) \in Code => Target(a) \in Found
      /\ insns \subseteq Reachable \ Undecodable
  BY <1>1, <1>3 DEF IInv, Descending
<1>6. Closed(Found)
  <2>1. ASSUME NEW a \in Found, NEW b \in Stored, Leads(a, b) PROVE b \in Found
    <3>1. a \in insns
      BY <2>1, <1>3 DEF Leads, Undecodable
    <3> QED  BY <3>1, <2>1, <1>2, <1>5 DEF Leads
  <2> QED  BY <2>1, <1>5 DEF Closed
<1>7. insns = Reachable \ Undecodable
  BY <1>3, <1>4, <1>5, <1>6, ReachableIsLeast
<1>8. TypeOK'
  BY <1>1, SameProgram DEF IInv, TypeOK
<1>9. Sweeping'
  BY <1>1, SweepingKept DEF IInv
<1>10. Descending'
  BY <1>1, SameProgram DEF IInv, Descending, RangeOf
<1>11. Merged' /\ ListingIsDisjoint' /\ NothingIsLost' /\ CallsHaveFunctions'
  BY <1>1, <1>7, SameProgram DEF Merged, ListingIsDisjoint, NothingIsLost, CallsHaveFunctions
<1> QED  BY <1>8, <1>9, <1>10, <1>11 DEF IInv
----------------------------------------------------------------------------
(* The neighbours that merge_tentative looks at are there.                 *)
LEMMA Neighbours ==
  ASSUME IInv, NEW a \in Stored, NEW c \in insns
  PROVE  /\ c < a => \E p \in ClosestBefore(a) : c <= p
         /\ a < c => \E n \in ClosestAfter(a) : n <= c
<1>1. insns \subseteq Nat /\ a \in Nat
  BY StoredAddress DEF IInv, TypeOK
<1>2. ASSUME c < a PROVE \E p \in ClosestBefore(a) : c <= p
  <2> DEFINE S == {d \in insns : d < a}
  <2>1. S \in SUBSET Nat /\ c \in S /\ \A d \in S : d <= a
    <3>1. S \subseteq insns /\ c \in S /\ \A d \in S : d < a
      BY <1>2
    <3>2. \A d \in Nat : d < a => d <= a
      BY <1>1
    <3> QED  BY <3>1, <3>2, <1>1
  <2> HIDE DEF S
  <2>2. PICK p \in S : \A d \in S : d <= p
    BY <2>1, <1>1, Greatest
  <2>3. p \in ClosestBefore(a)
    BY <2>2 DEF S, ClosestBefore
  <2> QED  BY <2>1, <2>2, <2>3
<1>3. ASSUME a < c PROVE \E n \in ClosestAfter(a) : n <= c
  <2> DEFINE S == {d \in insns : d > a}
  <2>1. S \in SUBSET Nat /\ c \in S
    BY <1>1, <1>3
  <2> HIDE DEF S
  <2>2. PICK n \in S : \A d \in S : n <= d
    BY <2>1, Least
  <2>3. n \in ClosestAfter(a)
    BY <1>1, <2>2 DEF S, ClosestAfter
  <2> QED  BY <2>1, <2>2, <2>3
<1> QED  BY <1>2, <1>3

(* They are enough if the confirmed instructions do not overlap.           *)
LEMMA NeighboursSuffice ==
  ASSUME IInv, NEW a \in Stored \ insns, NEW c \in insns, Disjoint(insns), ~Overlaps(a)
  PROVE  ~Overlap(a, c) /\ ~Overlap(c, a)
<1>1. a \in Nat /\ End(a) \in Nat /\ a < End(a) /\ WellFormed(img)
  BY StoredAddress DEF IInv, TypeOK
<1>2. \A d \in insns : d \in Nat /\ End(d) \in Nat /\ d < End(d)
  BY StoredAddress DEF IInv, TypeOK
<1>3. CASE c < a
  <2>1. PICK p \in ClosestBefore(a) : c <= p
    BY <1>3, Neighbours
  <2>2. p \in insns /\ p < a /\ End(p) <= a
    BY <2>1, <1>1, <1>2 DEF ClosestBefore, Overlaps
  <2>3. End(c) <= a
    BY <2>1, <2>2, <1>1, <1>2 DEF Disjoint, Overlap
  <2> QED  BY <2>3, <1>1, <1>2 DEF Overlap
<1>4. CASE a < c
  <2>1. PICK n \in ClosestAfter(a) : n <= c
    BY <1>4, Neighbours
  <2>2. n \in insns /\ End(a) <= n
    BY <2>1, <1>1, <1>2 DEF ClosestAfter, Overlaps
  <2> QED  BY <2>1, <2>2, <1>1, <1>2 DEF Overlap
<1> QED  BY <1>1, <1>2, <1>3, <1>4

(* What overlaps a neighbour overlaps a confirmed instruction.             *)
LEMMA NeighboursOverlap ==
  ASSUME IInv, NEW a \in Stored, Overlaps(a)
  PROVE  \E c \in insns : Overlap(a, c)
<1>1. a \in Nat /\ End(a) \in Nat /\ a < End(a) /\ WellFormed(img)
  BY StoredAddress DEF IInv, TypeOK
<1>2. \A d \in insns : d \in Nat /\ End(d) \in Nat /\ d < End(d)
  BY StoredAddress DEF IInv, TypeOK
<1> QED  BY <1>1, <1>2 DEF Overlaps, Overlap, ClosestBefore, ClosestAfter

LEMMA MergeStep ==
  ASSUME IInv, Merge
  PROVE  IInv'
<1> DEFINE Taken == {a \in tentative \intersect Code : ~Overlaps(a)}
<1>1. /\ pass = "merge" /\ pass' = "functions" /\ tentative' = {} /\ insns' = insns \union Taken
      /\ UNCHANGED <<img, off, todo, visited, wl, cur, confirmed, funcs>>
  BY DEF Merge, descent
<1>2. WellFormed(img) /\ Code \subseteq Stored /\ Swept \subseteq img.sections /\ insns = confirmed
  BY <1>1, CodeIsStored DEF IInv, TypeOK, Merged
<1>3. Taken \subseteq Stored
  BY <1>2
<1>4. TypeOK'
  BY <1>1, <1>3, SameProgram DEF IInv, TypeOK
<1>5. Sweeping'
  <2>1. Swept' = Swept
    BY <1>1, SameProgram
  <2> QED  BY <1>1, <2>1 DEF IInv, Sweeping, Disjoint
<1>6. Descending'
  BY <1>1, SameProgram DEF IInv, Descending, RangeOf
<1>7. Merged'
  BY <1>1, <1>2, SameProgram DEF IInv, Merged
<1>8. ListingIsDisjoint'
  <2>1. \A a, b : Overlap(a, b)' <=> Overlap(a, b)
    BY <1>1, SameProgram DEF Overlap
  <2>2. SUFFICES ASSUME Disjoint(confirmed) PROVE Disjoint(insns')
    BY <1>1, <2>1 DEF ListingIsDisjoint, Disjoint
  <2>3. Disjoint(insns) /\ Disjoint(tentative)
    BY <1>2, <2>2 DEF IInv, Sweeping
  <2>4. ASSUME NEW a \in Taken \ insns, NEW c \in insns PROVE ~Overlap(a, c) /\ ~Overlap(c, a)
    BY <2>3, <1>3, NeighboursSuffice
  <2> QED  BY <2>3, <2>4, <1>1 DEF Disjoint
<1>9. NothingIsLost'
  <2>1. \A b : Covered(b)' <=> \E a \in insns' : a <= b /\ b < End(a)
    BY <1>1, SameProgram DEF Covered
  <2>2. ASSUME NEW s \in Swept, NEW b \in s.first..s.last
        PROVE  \/ \E a \in insns' : a <= b /\ b < End(a)
               \/ \E a \in StoredIn(s) : \E c \in confirmed :
                    a <= b /\ b < End(a) /\ Overlap(a, c)
    <3>1. s \in img.sections /\ s.first \in Nat /\ s.last \in Nat /\ s.end \in Nat /\ s.last <= s.end
      BY <1>2 DEF WellFormed
    <3>2. off[s] \in Nat /\ off[s] > s.end
      BY <1>1 DEF IInv, TypeOK, Sweeping
    <3>3. b \in s.first..(off[s] - 1) /\ b \in StoredIn(s)
      BY <3>1, <3>2 DEF StoredIn
    <3>4. PICK a \in tentative : a <= b /\ b < End(a)
      BY <3>3, <1>1 DEF IInv, Sweeping
    <3>5. a \in Stored /\ a \in StoredIn(s)
      BY <3>1, <3>3, <3>4, <1>2, SameSection DEF IInv, TypeOK
    <3>6. a \in s.first..s.last
      BY <3>1, <3>4, <3>5, <1>2, Sections
    <3>7. a \in Code
      BY <3>1, <3>6 DEF Code
    <3>8. CASE Overlaps(a)
      BY <3>8, <3>4, <3>5, <1>2, NeighboursOverlap
    <3>9. CASE ~Overlaps(a)
      BY <3>9, <3>4, <3>7, <1>1
    <3> QED  BY <3>8, <3>9
  <2>3. (\A a, c : Overlap(a, c)' <=> Overlap(a, c)) /\ (\A a : End(a)' = End(a)) /\ Swept' = Swept
    BY <1>1, SameProgram DEF Overlap
  <2> QED  BY <2>1, <2>2, <2>3, <1>1 DEF NothingIsLost
<1>10. CallsHaveFunctions'
  BY <1>1 DEF CallsHaveFunctions
<1> QED  BY <1>4, <1>5, <1>6, <1>7, <1>8, <1>9, <1>10 DEF IInv

LEMMA FunctionsStep ==
  ASSUME IInv, Functions
  PROVE  IInv'
<1>1. /\ pass = "functions" /\ pass' = "done"
      /\ funcs' = RangeOf(img.roots) \union img.others \union Called
      /\ UNCHANGED <<img, off, tentative, todo, visited, wl, cur, insns, confirmed>>
  BY DEF Functions, descent
<1>2. WellFormed(img) /\ Code \subseteq Stored
  BY CodeIsStored DEF IInv, TypeOK
<1>3. confirmed = Reachable \ Undecodable /\ confirmed \subseteq insns /\ insns \subseteq Nat
  BY <1>1, <1>2, StoredAddress DEF IInv, TypeOK, Merged
<1>4. funcs' \subseteq Nat
  <2>1. img.roots \in Seq(Nat) /\ img.others \subseteq Nat
    BY <1>2 DEF WellFormed
  <2>2. RangeOf(img.roots) \subseteq Nat
    BY <2>1 DEF RangeOf
  <2>3. Called \subseteq insns
    BY DEF Called
  <2> QED  BY <2>1, <2>2, <2>3, <1>1, <1>3
<1>5. TypeOK'
  BY <1>1, <1>4, SameProgram DEF IInv, TypeOK
<1>6. Sweeping'
  <2>1. Disjoint(tentative)' <=> Disjoint(tentative)
    BY <1>1, SameProgram DEF Disjoint, Overlap
  <2>2. (\A b : End(b)' = End(b)) /\ Swept' = Swept
    BY <1>1, SameProgram
  <2> QED  BY <1>1, <2>1, <2>2 DEF IInv, Sweeping
<1>7. Descending' /\ Merged'
  BY <1>1, SameProgram DEF IInv, Descending, Merged, RangeOf
<1>8. ListingIsDisjoint' /\ NothingIsLost'
  BY <1>1, SameProgram DEF IInv, ListingIsDisjoint, NothingIsLost, Disjoint, Overlap
<1>9. CallsHaveFunctions'
  <2>1. ASSUME NEW a \in Reachable, Kind(a) = "call", Target(a) \in Code, Kind(Target(a)) # "bad"
        PROVE  Target(a) \in funcs'
    <3>1. a \in insns
      BY <2>1, <1>3 DEF Undecodable
    <3>2. Target(a) \in Reachable
      BY <2>1, <1>2, ReachableLeadsOn DEF Leads
    <3>3. Target(a) \in insns
      BY <3>2, <2>1, <1>3 DEF Undecodable
    <3> QED  BY <3>1, <3>3, <2>1, <1>1 DEF Called
  <2> QED  BY <2>1, <1>1, SameProgram DEF CallsHaveFunctions
<1> QED  BY <1>5, <1>6, <1>7, <1>8, <1>9 DEF IInv

LEMMA StutterStep ==
  ASSUME IInv, UNCHANGED vars
  PROVE  IInv'
<1>1. UNCHANGED <<img, pass, off, tentative, todo, visited, wl, cur, insns, confirmed, funcs>>
  BY DEF vars
<1>2. TypeOK'
  BY <1>1, SameProgram DEF IInv, TypeOK
<1>3. Sweeping'
  <2>1. Disjoint(tentative)' <=> Disjoint(tentative)
    BY <1>1, SameProgram DEF Disjoint, Overlap
  <2>2. (\A b : End(b)' = End(b)) /\ Swept' = Swept
    BY <1>1, SameProgram
  <2> QED  BY <1>1, <2>1, <2>2 DEF IInv, Sweeping
<1>4. Descending' /\ Merged'
  <2>1. Found' = Found
    BY <1>1, SameProgram DEF Found
  <2> QED  BY <2>1, <1>1, SameProgram DEF IInv, Descending, Merged, RangeOf
<1>5. ListingIsDisjoint' /\ NothingIsLost' /\ CallsHaveFunctions'
  BY <1>1, SameProgram
  DEF IInv, ListingIsDisjoint, NothingIsLost, CallsHaveFunctions, Disjoint, Overlap, Covered
<1> QED  BY <1>2, <1>3, <1>4, <1>5 DEF IInv
----------------------------------------------------------------------------
(* The invariant of the discovery of code.                                 *)
THEOREM DiscoveryHolds == Safe => []IInv
<1>1. ASSUME IInv, [Next]_vars PROVE IInv'
  <2>1. CASE \E s \in Swept : Sweep(s)
    BY <1>1, <2>1, SweepStep
  <2>2. CASE EndSweep
    BY <1>1, <2>2, EndSweepStep
  <2>3. CASE NextRoot
    BY <1>1, <2>3, NextRootStep
  <2>4. CASE Pop
    BY <1>1, <2>4, PopStep
  <2>5. CASE Decode
    BY <1>1, <2>5, DecodeStep
  <2>6. CASE EndDescent
    BY <1>1, <2>6, EndDescentStep
  <2>7. CASE Merge
    BY <1>1, <2>7, MergeStep
  <2>8. CASE Functions
    BY <1>1, <2>8, FunctionsStep
  <2>9. CASE UNCHANGED vars
    BY <1>1, <2>9, StutterStep
  <2> QED
    BY <1>1, <2>1, <2>2, <2>3, <2>4, <2>5, <2>6, <2>7, <2>8, <2>9 DEF Next, Step, Done
<1> QED  BY <1>1, Initially, PTL DEF Safe

(* The tables hold addresses of the program.                               *)
THEOREM TypeCorrect == Safe => []TypeOK
<1>1. IInv => TypeOK
  BY DEF IInv
<1> QED  BY <1>1, DiscoveryHolds, PTL

(* Recursive descent finds what is reachable from the entry point and the    *)
(* exports, no more and no less, in every program.                         *)
THEOREM DescentFindsReachable == Safe => []DescentIsExact
<1>1. IInv => DescentIsExact
  <2>1. Reachable \ Undecodable = {a \in Reachable : Kind(a) # "bad"}
    BY DEF Undecodable, Reachable
  <2> QED  BY <2>1 DEF IInv, Merged, DescentIsExact
<1> QED  BY <1>1, DiscoveryHolds, PTL

(* The merge with the sweep adds no overlap to a listing that had none.      *)
THEOREM MergeKeepsDisjoint == Safe => []ListingIsDisjoint
<1>1. IInv => ListingIsDisjoint
  BY DEF IInv
<1> QED  BY <1>1, DiscoveryHolds, PTL

(* And it drops only what is in the way of confirmed code.                 *)
THEOREM MergeLosesNothing == Safe => []NothingIsLost
<1>1. IInv => NothingIsLost
  BY DEF IInv
<1> QED  BY <1>1, DiscoveryHolds, PTL

(* Every reachable call that can be resolved calls a function.             *)
THEOREM ReachableCallsAreFunctions == Safe => []CallsHaveFunctions
<1>1. IInv => CallsHaveFunctions
  BY DEF IInv
<1> QED  BY <1>1, DiscoveryHolds, PTL
----------------------------------------------------------------------------
(* Induction over the turns, the predecessors and the climbs of the builder.  *)
LEMMA SetInduction ==
  ASSUME NEW S, 0 \in S, \A n \in Nat : n \in S => n + 1 \in S
  PROVE  Nat \subseteq S
<1> DEFINE R == {ss \in Nat \X Nat : ss[1] < ss[2]}
<1> SUFFICES ASSUME Nat \ S # {} PROVE FALSE
  OBVIOUS
<1>1. IsWellFoundedOn(R, Nat)
  BY NatLessThanWellFounded DEF OpToRel
<1>2. \E x \in Nat \ S : \A y \in Nat \ S : ~ (<<y, x>> \in R)
  <2>1. Nat \ S \subseteq Nat
    OBVIOUS
  <2> HIDE DEF R
  <2> QED  BY <1>1, <2>1, WFMin
<1>3. PICK x \in Nat \ S : \A y \in Nat \ S : ~ (<<y, x>> \in R)
  BY <1>2
<1>4. x # 0 /\ x - 1 \in Nat
  OBVIOUS
<1>5. <<x - 1, x>> \in R
  BY <1>4
<1>6. x - 1 \in S
  BY <1>3, <1>4, <1>5
<1> QED  BY <1>4, <1>6

LEMMA StepsKeep ==
  ASSUME NEW n \in Nat, NEW st, NEW X, st[0] \in X,
         \A m \in 1..n : st[m - 1] \in X => st[m] \in X
  PROVE  \A m \in 0..n : st[m] \in X
<1> DEFINE S == {m \in Nat : m <= n => st[m] \in X}
<1>1. 0 \in S
  OBVIOUS
<1>2. ASSUME NEW m \in Nat, m \in S PROVE m + 1 \in S
  <2> SUFFICES ASSUME m + 1 <= n PROVE st[m + 1] \in X
    OBVIOUS
  <2>1. m <= n /\ m + 1 \in 1..n /\ (m + 1) - 1 = m
    OBVIOUS
  <2> QED  BY <1>2, <2>1
<1> HIDE DEF S
<1>3. Nat \subseteq S
  BY <1>1, <1>2, SetInduction
<1> QED  BY <1>3 DEF S

\* the function whose n-th value is F[n] of the one before
IsSteps(g, n, x0, F) == g = [m \in 0..n |-> IF m = 0 THEN x0 ELSE F[m][g[m - 1]]]

LEMMA StepsExist ==
  ASSUME NEW x0, NEW F
  PROVE  \A n \in Nat : \E g : IsSteps(g, n, x0, F)
<1> DEFINE S == {n \in Nat : \E g : IsSteps(g, n, x0, F)}
<1>1. 0 \in S
  <2> DEFINE g == [m \in 0..0 |-> x0]
  <2>1. IsSteps(g, 0, x0, F)
    BY DEF IsSteps
  <2> QED  BY <2>1
<1>2. ASSUME NEW n \in Nat, n \in S PROVE n + 1 \in S
  <2>1. PICK f : IsSteps(f, n, x0, F)
    BY <1>2
  <2> DEFINE g == [m \in 0..(n + 1) |-> IF m = n + 1 THEN F[m][f[n]] ELSE f[m]]
  <2>2. g = [m \in 0..(n + 1) |-> IF m = 0 THEN x0 ELSE F[m][g[m - 1]]]
    <3> SUFFICES ASSUME NEW m \in 0..(n + 1) PROVE g[m] = IF m = 0 THEN x0 ELSE F[m][g[m - 1]]
      OBVIOUS
    <3>1. CASE m = n + 1
      <4>1. g[m - 1] = f[n] /\ g[m] = F[m][f[n]] /\ m # 0
        BY <3>1
      <4> QED  BY <4>1
    <3>2. CASE m # n + 1 /\ m # 0
      <4>1. m \in 0..n /\ m - 1 \in 0..(n + 1) /\ m - 1 # n + 1
        BY <3>2
      <4>2. g[m] = f[m] /\ g[m - 1] = f[m - 1]
        BY <3>2, <4>1
      <4>3. f[m] = F[m][f[m - 1]]
        BY <2>1, <3>2, <4>1 DEF IsSteps
      <4> QED  BY <3>2, <4>2, <4>3
    <3>3. CASE m = 0
      <4>1. g[m] = f[0] /\ f[0] = x0
        BY <2>1, <3>3 DEF IsSteps
      <4> QED  BY <3>3, <4>1
    <3> QED  BY <3>1, <3>2, <3>3
  <2> HIDE DEF g
  <2>3. IsSteps(g, n + 1, x0, F)
    BY <2>2 DEF IsSteps
  <2> QED  BY <2>3
<1> HIDE DEF S
<1>3. Nat \subseteq S
  BY <1>1, <1>2, SetInduction
<1> QED  BY <1>3 DEF S

\* the values stay in X, where F is the step
LEMMA StepsIn ==
  ASSUME NEW n \in Nat, NEW X, NEW x0 \in X, NEW F,
         \A m \in 1..n : \A x \in X : F[m][x] \in X
  PROVE  \E g \in [0..n -> X] : IsSteps(g, n, x0, F)
<1>1. PICK g : IsSteps(g, n, x0, F)
  BY StepsExist
<1>2. g[0] = x0 /\ \A m \in 1..n : g[m] = F[m][g[m - 1]]
  BY <1>1 DEF IsSteps
<1>3. \A m \in 0..n : g[m] \in X
  BY <1>2, StepsKeep
<1>4. g = [m \in 0..n |-> g[m]]
  BY <1>1 DEF IsSteps
<1> QED  BY <1>1, <1>3, <1>4

LEMMA StepsKeepEach ==
  ASSUME NEW n \in Nat, NEW st, NEW X, st[0] \in X[0],
         \A m \in 1..n : st[m - 1] \in X[m - 1] => st[m] \in X[m]
  PROVE  \A m \in 0..n : st[m] \in X[m]
<1> DEFINE S == {m \in Nat : m <= n => st[m] \in X[m]}
<1>1. 0 \in S
  OBVIOUS
<1>2. ASSUME NEW m \in Nat, m \in S PROVE m + 1 \in S
  <2> SUFFICES ASSUME m + 1 <= n PROVE st[m + 1] \in X[m + 1]
    OBVIOUS
  <2>1. m <= n /\ m + 1 \in 1..n /\ (m + 1) - 1 = m
    OBVIOUS
  <2> QED  BY <1>2, <2>1
<1> HIDE DEF S
<1>3. Nat \subseteq S
  BY <1>1, <1>2, SetInduction
<1> QED  BY <1>3 DEF S
----------------------------------------------------------------------------
(* The tree at any time.  A rank leads every processed block down to the entry: *)
(* its dominator ranks lower, and so does one of its predecessors.          *)
IsTree(f, tree) == tree \in [DOMAIN f -> DOMAIN f \union {-1}] /\ 0 \in DOMAIN f /\ tree[0] = 0
Ranked(f, tree, r) ==
  /\ r \in [DOMAIN f -> Nat] /\ \E n \in Nat : \A b \in DOMAIN f : r[b] <= n
  /\ \A b \in Processed(tree) \ {0} :
       /\ tree[b] \in Processed(tree) /\ r[tree[b]] < r[b]
       /\ \E p \in Processed(tree) : Edge(f, p, b) /\ r[p] < r[b]
Trees(f) == {tree \in [DOMAIN f -> DOMAIN f \union {-1}] :
               IsTree(f, tree) /\ \E r : Ranked(f, tree, r)}

DomInv ==
  /\ stage \in {"dominators", "ssa"}
  /\ IsFlowGraph(func)
  /\ idom \in Trees(func)
  /\ stage = "ssa" => DominatorPass(func, idom) = idom

LEMMA BlockNumbers ==
  ASSUME NEW f, IsFlowGraph(f)
  PROVE  /\ LastBlock(f) \in Nat /\ DOMAIN f = 0..LastBlock(f)
         /\ 0 \in DOMAIN f /\ DOMAIN f \subseteq Nat
<1>1. Cardinality(DOMAIN f) \in Nat
  BY FS_CardinalityType DEF IsFlowGraph
<1>2. DOMAIN f = 0..LastBlock(f) /\ DOMAIN f # {}
  BY DEF IsFlowGraph
<1> QED  BY <1>1, <1>2 DEF LastBlock

LEMMA Preds ==
  ASSUME NEW f, IsFlowGraph(f), NEW b \in DOMAIN f
  PROVE  /\ Len(f[b].preds) \in Nat
         /\ \A i \in 1..Len(f[b].preds) : f[b].preds[i] \in DOMAIN f /\ Edge(f, f[b].preds[i], b)
         /\ \A p \in DOMAIN f : Edge(f, p, b) => \E i \in 1..Len(f[b].preds) : f[b].preds[i] = p
<1>1. f[b].preds \in Seq(DOMAIN f)
  BY DEF IsFlowGraph
<1>2. \A p \in DOMAIN f : Edge(f, p, b) <=> \E i \in 1..Len(f[b].preds) : f[b].preds[i] = p
  BY DEF IsFlowGraph
<1> QED  BY <1>1, <1>2

(* The entry alone is processed at first.                                  *)
LEMMA NoIdomIsTree ==
  ASSUME NEW f, IsFlowGraph(f)
  PROVE  NoIdom(f) \in Trees(f)
<1> DEFINE t == NoIdom(f)
           r == [b \in DOMAIN f |-> 0]
<1>1. IsTree(f, t)
  BY BlockNumbers DEF IsTree, NoIdom
<1>2. Processed(t) \subseteq {0}
  BY BlockNumbers DEF Processed, NoIdom
<1>3. Ranked(f, t, r)
  <2>1. r \in [DOMAIN f -> Nat] /\ \A b \in DOMAIN f : r[b] <= 0
    OBVIOUS
  <2> QED  BY <1>2, <2>1 DEF Ranked
<1>4. t \in [DOMAIN f -> DOMAIN f \union {-1}]
  BY <1>1 DEF IsTree
<1> QED  BY <1>1, <1>3, <1>4 DEF Trees
----------------------------------------------------------------------------
(* The way up the tree.                                                    *)
LEMMA AncestorsHave ==
  ASSUME NEW tree, NEW b \in DOMAIN tree
  PROVE  /\ b \in Ancestors(tree, b)
         /\ tree[b] \in DOMAIN tree => tree[b] \in Ancestors(tree, b)
BY DEF Ancestors, HasWayUp

LEMMA AncestorsWithin ==
  ASSUME NEW tree, NEW b, NEW S, S \subseteq DOMAIN tree, HasWayUp(tree, S, b)
  PROVE  Ancestors(tree, b) \subseteq S
BY DEF Ancestors

LEMMA AncestorsGoUp ==
  ASSUME NEW tree, NEW b, NEW a \in Ancestors(tree, b)
  PROVE  Ancestors(tree, a) \subseteq Ancestors(tree, b)
BY DEF Ancestors, HasWayUp

LEMMA AncestorsStep ==
  ASSUME NEW tree, NEW b \in DOMAIN tree, tree[b] \in DOMAIN tree
  PROVE  Ancestors(tree, b) \subseteq {b} \union Ancestors(tree, tree[b])
<1> SUFFICES ASSUME NEW d \in Ancestors(tree, b), d # b,
                    NEW S \in SUBSET DOMAIN tree, HasWayUp(tree, S, tree[b])
             PROVE  d \in S
  BY DEF Ancestors
<1>1. HasWayUp(tree, S \union {b}, b)
  BY DEF HasWayUp
<1>2. Ancestors(tree, b) \subseteq S \union {b}
  BY <1>1, AncestorsWithin
<1> QED  BY <1>2

(* Ancestors of a processed block are processed and rank no higher.        *)
LEMMA AncestorsRank ==
  ASSUME NEW f, IsFlowGraph(f), NEW tree, IsTree(f, tree), NEW r, Ranked(f, tree, r),
         NEW b \in Processed(tree), NEW a \in Ancestors(tree, b)
  PROVE  a \in Processed(tree) /\ r[a] <= r[b]
<1> DEFINE S == {x \in Processed(tree) : r[x] <= r[b]}
<1>0. DOMAIN tree = DOMAIN f /\ Processed(tree) \subseteq DOMAIN f /\ 0 \in DOMAIN f
  BY BlockNumbers DEF IsTree, Processed
<1>1. HasWayUp(tree, S, b)
  <2>1. b \in S
    BY <1>0 DEF Ranked
  <2>2. ASSUME NEW x \in S PROVE tree[x] \in S
    <3>1. CASE x = 0
      BY <3>1, <2>2 DEF IsTree
    <3>2. CASE x # 0
      <4>1. tree[x] \in Processed(tree) /\ r[tree[x]] < r[x] /\ r[x] <= r[b]
        BY <3>2, <2>2 DEF Ranked
      <4>2. r[tree[x]] \in Nat /\ r[x] \in Nat /\ r[b] \in Nat
        BY <4>1, <2>2, <1>0 DEF Ranked
      <4> QED  BY <4>1, <4>2
    <3> QED  BY <3>1, <3>2
  <2> QED  BY <2>1, <2>2 DEF HasWayUp
<1>2. Ancestors(tree, b) \subseteq S
  BY <1>0, <1>1, AncestorsWithin
<1> QED  BY <1>2

(* The way up ends at the entry.                                           *)
LEMMA EntryIsAncestor ==
  ASSUME NEW f, IsFlowGraph(f), NEW tree \in Trees(f), NEW b \in Processed(tree)
  PROVE  0 \in Ancestors(tree, b)
<1>0. IsTree(f, tree) /\ DOMAIN tree = DOMAIN f /\ 0 \in DOMAIN tree /\ Processed(tree) \subseteq DOMAIN f
  BY BlockNumbers DEF Trees, IsTree, Processed
<1>1. PICK r : Ranked(f, tree, r)
  BY DEF Trees
<1> SUFFICES ASSUME NEW S \in SUBSET DOMAIN tree, HasWayUp(tree, S, b), 0 \notin S PROVE FALSE
  BY <1>0 DEF Ancestors
<1> DEFINE R == {r[x] : x \in S \intersect Processed(tree)}
<1>2. R \in SUBSET Nat /\ R # {}
  BY <1>0, <1>1 DEF Ranked, HasWayUp
<1>3. PICK m \in R : \A k \in R : m <= k
  BY <1>2, Least
<1>4. PICK x \in S \intersect Processed(tree) : r[x] = m
  BY <1>3
<1>5. x # 0 /\ tree[x] \in Processed(tree) /\ r[tree[x]] < r[x]
  BY <1>1, <1>4 DEF Ranked
<1>6. tree[x] \in S
  BY <1>0, <1>5, <1>4 DEF HasWayUp
<1>7. r[tree[x]] \in R /\ r[tree[x]] \in Nat /\ m \in Nat
  BY <1>2, <1>3, <1>5, <1>6
<1> QED  BY <1>3, <1>4, <1>5, <1>7
----------------------------------------------------------------------------
(* The two fingers.  They climb to lower ranks, so that the function by which  *)
(* Intersect is defined exists, and what it gives is an ancestor of both.  *)
Fingers(tree) == Processed(tree) \X Processed(tree)
Climb(tree, g, p) ==
  IF p[1] = p[2] THEN p[1]
  ELSE IF p[1] > p[2] THEN g[<<tree[p[1]], p[2]>>]
  ELSE g[<<p[1], tree[p[2]]>>]
IsMeet(tree, D, g) == g = [p \in D |-> Climb(tree, g, p)]

LEMMA FingersClimb ==
  ASSUME NEW f, IsFlowGraph(f), NEW tree, IsTree(f, tree), NEW r, Ranked(f, tree, r),
         NEW p \in Fingers(tree), p[1] # p[2]
  PROVE  /\ r[p[1]] + r[p[2]] \in Nat
         /\ p[1] > p[2] => /\ <<tree[p[1]], p[2]>> \in Fingers(tree)
                           /\ tree[p[1]] \in Ancestors(tree, p[1])
                           /\ r[tree[p[1]]] + r[p[2]] \in Nat
                           /\ r[tree[p[1]]] + r[p[2]] < r[p[1]] + r[p[2]]
         /\ ~(p[1] > p[2]) => /\ <<p[1], tree[p[2]]>> \in Fingers(tree)
                              /\ tree[p[2]] \in Ancestors(tree, p[2])
                              /\ r[p[1]] + r[tree[p[2]]] \in Nat
                              /\ r[p[1]] + r[tree[p[2]]] < r[p[1]] + r[p[2]]
<1>1. DOMAIN tree = DOMAIN f /\ Processed(tree) \subseteq DOMAIN f /\ DOMAIN f \subseteq Nat
  BY BlockNumbers DEF IsTree, Processed
<1>2. p[1] \in Processed(tree) /\ p[2] \in Processed(tree)
  BY DEF Fingers
<1>3. p[1] \in Nat /\ p[2] \in Nat
  BY <1>1, <1>2
<1>4. \A b \in Processed(tree) : r[b] \in Nat
  BY <1>1 DEF Ranked
<1>5. \A b \in Processed(tree) : b # 0 =>
        /\ tree[b] \in Processed(tree) /\ r[tree[b]] < r[b] /\ tree[b] \in Ancestors(tree, b)
  <2> SUFFICES ASSUME NEW b \in Processed(tree), b # 0
               PROVE  tree[b] \in Processed(tree) /\ r[tree[b]] < r[b] /\ tree[b] \in Ancestors(tree, b)
    OBVIOUS
  <2>1. tree[b] \in Processed(tree) /\ r[tree[b]] < r[b]
    BY DEF Ranked
  <2>2. b \in DOMAIN tree /\ tree[b] \in DOMAIN tree
    BY <1>1, <2>1
  <2> QED  BY <2>1, <2>2, AncestorsHave
<1>6. CASE p[1] > p[2]
  <2>1. p[1] # 0
    BY <1>3, <1>6
  <2>2. r[p[1]] \in Nat /\ r[p[2]] \in Nat /\ r[tree[p[1]]] \in Nat /\ r[tree[p[1]]] < r[p[1]]
    BY <1>2, <1>4, <1>5, <2>1
  <2>3. <<tree[p[1]], p[2]>> \in Fingers(tree)
    BY <1>2, <1>5, <2>1 DEF Fingers
  <2> QED  BY <1>2, <1>5, <1>6, <2>1, <2>2, <2>3
<1>7. CASE ~(p[1] > p[2])
  <2>1. p[2] # 0
    BY <1>3, <1>7
  <2>2. r[p[1]] \in Nat /\ r[p[2]] \in Nat /\ r[tree[p[2]]] \in Nat /\ r[tree[p[2]]] < r[p[2]]
    BY <1>2, <1>4, <1>5, <2>1
  <2>3. <<p[1], tree[p[2]]>> \in Fingers(tree)
    BY <1>2, <1>5, <2>1 DEF Fingers
  <2> QED  BY <1>2, <1>5, <1>7, <2>1, <2>2, <2>3
<1> QED  BY <1>6, <1>7

LEMMA MeetExists ==
  ASSUME NEW f, IsFlowGraph(f), NEW tree \in Trees(f)
  PROVE  \E g : IsMeet(tree, Fingers(tree), g)
<1>0. IsTree(f, tree)
  BY DEF Trees
<1>1. PICK r : Ranked(f, tree, r)
  BY DEF Trees
<1> DEFINE Low(n) == {p \in Fingers(tree) : r[p[1]] + r[p[2]] < n}
           S == {n \in Nat : \E g : IsMeet(tree, Low(n), g)}
<1>2. \A b \in Processed(tree) : r[b] \in Nat
  BY <1>0, <1>1 DEF Ranked, IsTree, Processed
<1>3. \A p \in Fingers(tree) : r[p[1]] + r[p[2]] \in Nat
  BY <1>2 DEF Fingers
<1>4. 0 \in S
  <2>1. Low(0) = {}
    BY <1>3
  <2> DEFINE g == [p \in {} |-> 0]
  <2>2. g = [p \in {} |-> Climb(tree, g, p)]
    OBVIOUS
  <2> HIDE DEF g, Low
  <2>3. IsMeet(tree, Low(0), g)
    BY <2>1, <2>2 DEF IsMeet
  <2> QED  BY <2>3
<1>5. ASSUME NEW n \in Nat, n \in S PROVE n + 1 \in S
  <2>1. PICK g : IsMeet(tree, Low(n), g)
    BY <1>5
  <2> DEFINE h == [p \in Low(n + 1) |-> Climb(tree, g, p)]
  <2>2. Low(n) \subseteq Low(n + 1)
    BY <1>3
  <2>3. \A p \in Low(n) : h[p] = g[p]
    BY <2>1, <2>2 DEF IsMeet
  <2>4. ASSUME NEW p \in Low(n + 1) PROVE Climb(tree, g, p) = Climb(tree, h, p)
    <3>0. p \in Fingers(tree) /\ r[p[1]] + r[p[2]] < n + 1 /\ r[p[1]] + r[p[2]] \in Nat
      BY <1>3
    <3> HIDE DEF h
    <3>1. CASE p[1] = p[2]
      BY <3>1 DEF Climb
    <3>2. CASE p[1] # p[2] /\ p[1] > p[2]
      <4>1. /\ <<tree[p[1]], p[2]>> \in Fingers(tree)
            /\ r[tree[p[1]]] + r[p[2]] \in Nat
            /\ r[tree[p[1]]] + r[p[2]] < r[p[1]] + r[p[2]]
        BY <1>0, <1>1, <3>0, <3>2, FingersClimb
      <4>2. <<tree[p[1]], p[2]>> \in Low(n)
        BY <3>0, <4>1
      <4>3. h[<<tree[p[1]], p[2]>>] = g[<<tree[p[1]], p[2]>>]
        BY <2>3, <4>2
      <4> QED  BY <3>2, <4>3 DEF Climb
    <3>3. CASE p[1] # p[2] /\ ~(p[1] > p[2])
      <4>1. /\ <<p[1], tree[p[2]]>> \in Fingers(tree)
            /\ r[p[1]] + r[tree[p[2]]] \in Nat
            /\ r[p[1]] + r[tree[p[2]]] < r[p[1]] + r[p[2]]
        BY <1>0, <1>1, <3>0, <3>3, FingersClimb
      <4>2. <<p[1], tree[p[2]]>> \in Low(n)
        BY <3>0, <4>1
      <4>3. h[<<p[1], tree[p[2]]>>] = g[<<p[1], tree[p[2]]>>]
        BY <2>3, <4>2
      <4> QED  BY <3>3, <4>3 DEF Climb
    <3> QED  BY <3>1, <3>2, <3>3
  <2>5. h = [p \in Low(n + 1) |-> Climb(tree, h, p)]
    BY <2>4
  <2> HIDE DEF h, Low
  <2>6. IsMeet(tree, Low(n + 1), h)
    BY <2>5 DEF IsMeet
  <2> QED  BY <2>6
<1>6. PICK n \in Nat : \A b \in DOMAIN f : r[b] <= n
  BY <1>1 DEF Ranked
<1>7. Low(n + n + 1) = Fingers(tree)
  <2>1. \A b \in Processed(tree) : r[b] \in Nat /\ r[b] <= n
    BY <1>0, <1>2, <1>6 DEF IsTree, Processed
  <2>2. ASSUME NEW p \in Fingers(tree) PROVE p \in Low(n + n + 1)
    <3>1. p[1] \in Processed(tree) /\ p[2] \in Processed(tree)
      BY DEF Fingers
    <3>2. r[p[1]] \in Nat /\ r[p[2]] \in Nat /\ r[p[1]] <= n /\ r[p[2]] <= n
      BY <2>1, <3>1
    <3> QED  BY <3>2
  <2> QED  BY <2>2
<1> HIDE DEF S, Low
<1>8. Nat \subseteq S
  BY <1>4, <1>5, SetInduction
<1>9. n + n + 1 \in S
  BY <1>8
<1> QED  BY <1>7, <1>9 DEF S

LEMMA FingersMeet ==
  ASSUME NEW f, IsFlowGraph(f), NEW tree \in Trees(f),
         NEW x \in Processed(tree), NEW y \in Processed(tree)
  PROVE  Intersect(tree, x, y) \in Ancestors(tree, x) \intersect Ancestors(tree, y)
<1>0. IsTree(f, tree)
  BY DEF Trees
<1>1. PICK r : Ranked(f, tree, r)
  BY DEF Trees
<1> DEFINE meet == CHOOSE g : IsMeet(tree, Fingers(tree), g)
<1>2. Intersect(tree, x, y) = meet[<<x, y>>]
  BY DEF Intersect, IsMeet, Fingers, Climb
<1>3. IsMeet(tree, Fingers(tree), meet)
  BY MeetExists
<1> HIDE DEF meet
<1> DEFINE Met(p) == meet[p] \in Ancestors(tree, p[1]) \intersect Ancestors(tree, p[2])
           S == {n \in Nat : \A p \in Fingers(tree) : r[p[1]] + r[p[2]] < n => Met(p)}
<1>4. \A p \in Fingers(tree) : r[p[1]] + r[p[2]] \in Nat
  BY <1>0, <1>1 DEF Fingers, Ranked, IsTree, Processed
<1>5. 0 \in S
  BY <1>4
<1>6. ASSUME NEW n \in Nat, n \in S PROVE n + 1 \in S
  <2> SUFFICES ASSUME NEW p \in Fingers(tree), r[p[1]] + r[p[2]] < n + 1 PROVE Met(p)
    OBVIOUS
  <2>0. \A q \in Fingers(tree) : r[q[1]] + r[q[2]] < n => Met(q)
    BY <1>6
  <2>1. meet[p] = Climb(tree, meet, p) /\ p[1] \in DOMAIN tree /\ p[2] \in DOMAIN tree
    BY <1>3 DEF IsMeet, Fingers, Processed
  <2>2. CASE p[1] = p[2]
    BY <2>1, <2>2, AncestorsHave DEF Climb
  <2>3. CASE p[1] # p[2] /\ p[1] > p[2]
    <3> DEFINE q == <<tree[p[1]], p[2]>>
    <3>1. /\ q \in Fingers(tree) /\ tree[p[1]] \in Ancestors(tree, p[1])
          /\ r[q[1]] + r[q[2]] \in Nat /\ r[q[1]] + r[q[2]] < r[p[1]] + r[p[2]]
      BY <1>0, <1>1, <2>3, FingersClimb
    <3>2. r[q[1]] + r[q[2]] < n
      BY <1>4, <3>1
    <3>3. Met(q)
      BY <2>0, <3>1, <3>2
    <3>4. meet[p] = meet[q] /\ q[1] = tree[p[1]] /\ q[2] = p[2]
      BY <2>1, <2>3 DEF Climb
    <3> QED  BY <3>1, <3>3, <3>4, AncestorsGoUp
  <2>4. CASE p[1] # p[2] /\ ~(p[1] > p[2])
    <3> DEFINE q == <<p[1], tree[p[2]]>>
    <3>1. /\ q \in Fingers(tree) /\ tree[p[2]] \in Ancestors(tree, p[2])
          /\ r[q[1]] + r[q[2]] \in Nat /\ r[q[1]] + r[q[2]] < r[p[1]] + r[p[2]]
      BY <1>0, <1>1, <2>4, FingersClimb
    <3>2. r[q[1]] + r[q[2]] < n
      BY <1>4, <3>1
    <3>3. Met(q)
      BY <2>0, <3>1, <3>2
    <3>4. meet[p] = meet[q] /\ q[1] = p[1] /\ q[2] = tree[p[2]]
      BY <2>1, <2>4 DEF Climb
    <3> QED  BY <3>1, <3>3, <3>4, AncestorsGoUp
  <2> QED  BY <2>2, <2>3, <2>4
<1> HIDE DEF S
<1>7. Nat \subseteq S
  BY <1>5, <1>6, SetInduction
<1> DEFINE p == <<x, y>>
<1>8. p \in Fingers(tree)
  BY DEF Fingers
<1>9. r[p[1]] + r[p[2]] + 1 \in S
  BY <1>4, <1>7, <1>8
<1>10. Met(p)
  BY <1>4, <1>8, <1>9 DEF S
<1> QED  BY <1>2, <1>10
----------------------------------------------------------------------------
(* What the processed predecessors of a block agree on is an ancestor of each. *)
LEMMA NewIdomIsCommon ==
  ASSUME NEW f, IsFlowGraph(f), NEW tree \in Trees(f), NEW b \in DOMAIN f
  PROVE  \/ /\ NewIdom(f, tree, b) = -1
            /\ \A p \in Processed(tree) : ~Edge(f, p, b)
         \/ /\ NewIdom(f, tree, b) \in Processed(tree)
            /\ \E p \in Processed(tree) : Edge(f, p, b)
            /\ \A p \in Processed(tree) : Edge(f, p, b) => NewIdom(f, tree, b) \in Ancestors(tree, p)
            /\ Len(f[b].preds) = 1 => NewIdom(f, tree, b) = f[b].preds[1]
<1> DEFINE ps == f[b].preds
           L == Len(ps)
           Seen(i) == {ps[j] : j \in 1..i} \intersect Processed(tree)
           X == Processed(tree) \union {-1}
           F == [m \in 1..L |-> [d \in X |-> Agreed(tree, d, ps[m])]]
           IsNew(g) == g = [i \in 0..L |-> IF i = 0 THEN -1 ELSE Agreed(tree, g[i-1], ps[i])]
           new == CHOOSE g : IsNew(g)
           Common(i, d) == \/ d = -1 /\ Seen(i) = {}
                           \/ /\ d \in Processed(tree) /\ Seen(i) # {}
                              /\ \A p \in Seen(i) : d \in Ancestors(tree, p)
                              /\ i = 1 => d = ps[1]
<1>0. /\ IsTree(f, tree) /\ DOMAIN tree = DOMAIN f /\ Processed(tree) \subseteq DOMAIN f
      /\ DOMAIN f \subseteq Nat
  BY BlockNumbers DEF Trees, IsTree, Processed
<1>1. /\ L \in Nat /\ \A i \in 1..L : ps[i] \in DOMAIN f /\ Edge(f, ps[i], b)
      /\ \A p \in DOMAIN f : Edge(f, p, b) => \E i \in 1..L : ps[i] = p
  BY Preds
<1>2. PICK r : Ranked(f, tree, r)
  BY DEF Trees
<1>3. NewIdom(f, tree, b) = new[L]
  BY DEF NewIdom
<1> HIDE DEF ps, L
<1>4. \A b1 \in DOMAIN f : tree[b1] \in DOMAIN f \union {-1} /\ (b1 \notin Processed(tree) => tree[b1] < 0)
                           /\ (b1 \in Processed(tree) => ~(tree[b1] < 0))
  BY <1>0 DEF IsTree, Processed
<1>5. \A d \in Processed(tree), p \in Processed(tree) :
        /\ Intersect(tree, d, p) \in Processed(tree)
        /\ Intersect(tree, d, p) \in Ancestors(tree, d) /\ Intersect(tree, d, p) \in Ancestors(tree, p)
  <2> TAKE d \in Processed(tree), p \in Processed(tree)
  <2>1. Intersect(tree, d, p) \in Ancestors(tree, d) \intersect Ancestors(tree, p)
    BY FingersMeet
  <2> QED  BY <1>0, <1>2, <2>1, AncestorsRank
<1>6. ASSUME NEW m \in 1..L, NEW d, Common(m - 1, d) PROVE Common(m, Agreed(tree, d, ps[m]))
  <2>0. Seen(0) = {} /\ (m = 1 => m - 1 = 0)
    OBVIOUS
  <2>1. Seen(m) = Seen(m - 1) \union ({ps[m]} \intersect Processed(tree))
    <3>1. 1..m = 1..(m - 1) \union {m}
      BY <1>1
    <3> QED  BY <3>1
  <2> HIDE DEF Seen
  <2>2. ps[m] \in DOMAIN f
    BY <1>1
  <2>3. CASE ps[m] \notin Processed(tree)
    <3>1. Agreed(tree, d, ps[m]) = d /\ Seen(m) = Seen(m - 1)
      BY <1>4, <2>1, <2>2, <2>3 DEF Agreed
    <3>2. m = 1 => Seen(m - 1) = {}
      BY <2>0
    <3> QED  BY <1>6, <3>1, <3>2
  <2>4. CASE ps[m] \in Processed(tree) /\ d = -1
    <3>1. Agreed(tree, d, ps[m]) = ps[m]
      BY <1>4, <2>2, <2>4 DEF Agreed
    <3>2. Seen(m) = {ps[m]}
      <4>1. Seen(m - 1) = {}
        BY <1>0, <1>6, <2>4
      <4> QED  BY <2>1, <2>4, <4>1
    <3>3. ps[m] \in Ancestors(tree, ps[m])
      BY <1>0, <2>2, AncestorsHave
    <3> QED  BY <2>4, <3>1, <3>2, <3>3
  <2>5. CASE ps[m] \in Processed(tree) /\ d # -1
    <3>1. d \in Processed(tree) /\ \A p \in Seen(m - 1) : d \in Ancestors(tree, p)
      BY <1>6, <2>5
    <3>2. Agreed(tree, d, ps[m]) = Intersect(tree, d, ps[m])
      <4>1. ~(d < 0) /\ ~(tree[ps[m]] < 0)
        BY <1>0, <1>4, <2>2, <2>5, <3>1
      <4> QED  BY <4>1 DEF Agreed
    <3> DEFINE e == Intersect(tree, d, ps[m])
    <3>3. e \in Processed(tree) /\ e \in Ancestors(tree, d) /\ e \in Ancestors(tree, ps[m])
      BY <1>5, <2>5, <3>1
    <3> HIDE DEF e
    <3>4. \A p \in Seen(m) : e \in Ancestors(tree, p)
      BY <2>1, <3>1, <3>3, AncestorsGoUp
    <3>5. Seen(m) # {}
      BY <2>1, <2>5
    <3>6. m # 1
      BY <1>6, <2>0, <2>5
    <3> QED  BY <3>2, <3>3, <3>4, <3>5, <3>6 DEF e
  <2> QED  BY <2>3, <2>4, <2>5
<1>7. \A m \in 1..L : \A d \in X : Agreed(tree, d, ps[m]) \in X
  <2> SUFFICES ASSUME NEW m \in 1..L, NEW d \in X PROVE Agreed(tree, d, ps[m]) \in X
    OBVIOUS
  <2>1. ps[m] \in DOMAIN f
    BY <1>1
  <2>2. CASE ps[m] \notin Processed(tree)
    BY <1>4, <2>1, <2>2 DEF Agreed
  <2>3. CASE ps[m] \in Processed(tree) /\ d = -1
    BY <1>4, <2>1, <2>3 DEF Agreed
  <2>4. CASE ps[m] \in Processed(tree) /\ d \in Processed(tree)
    <3>1. ~(d < 0) /\ ~(tree[ps[m]] < 0)
      BY <1>0, <1>4, <2>1, <2>4
    <3> QED  BY <1>5, <2>4, <3>1 DEF Agreed
  <2> QED  BY <2>2, <2>3, <2>4
<1>8. \E g \in [0..L -> X] : IsSteps(g, L, -1, F)
  <2>1. \A m \in 1..L : \A d \in X : F[m][d] \in X
    BY <1>7
  <2>2. -1 \in X
    OBVIOUS
  <2> HIDE DEF F, X
  <2> QED  BY <1>1, <2>1, <2>2, StepsIn
<1>9. \E g : IsNew(g)
  <2>1. PICK g \in [0..L -> X] : IsSteps(g, L, -1, F)
    BY <1>8
  <2>2. ASSUME NEW i \in 0..L, i # 0 PROVE F[i][g[i-1]] = Agreed(tree, g[i-1], ps[i])
    <3>1. i \in 1..L /\ i - 1 \in 0..L
      BY <1>1, <2>2
    <3>2. g[i-1] \in X
      BY <3>1
    <3> HIDE DEF X
    <3> QED  BY <3>1, <3>2
  <2>3. g = [i \in 0..L |-> IF i = 0 THEN -1 ELSE F[i][g[i-1]]]
    BY <2>1 DEF IsSteps
  <2> HIDE DEF F, X
  <2>4. g = [i \in 0..L |-> IF i = 0 THEN -1 ELSE Agreed(tree, g[i-1], ps[i])]
    BY <2>2, <2>3
  <2> QED  BY <2>4
<1>10. IsNew(new)
  <2> HIDE DEF IsNew
  <2> QED  BY <1>9
<1> HIDE DEF new, F, X, Common
<1>11. \A i \in 0..L : Common(i, new[i])
  <2> DEFINE Y == [i \in 0..L |-> {d \in {new[i]} : Common(i, d)}]
  <2>1. new[0] = -1 /\ Seen(0) = {}
    BY <1>1, <1>10
  <2>2. new[0] \in Y[0]
    <3>1. Common(0, new[0])
      BY <2>1 DEF Common
    <3> QED  BY <1>1, <3>1
  <2>3. ASSUME NEW m \in 1..L, new[m - 1] \in Y[m - 1] PROVE new[m] \in Y[m]
    <3>1. m \in 0..L /\ m - 1 \in 0..L /\ m # 0
      BY <1>1
    <3>2. Common(m - 1, new[m - 1])
      BY <2>3, <3>1
    <3>3. new[m] = Agreed(tree, new[m - 1], ps[m])
      BY <1>10, <3>1
    <3>4. Common(m, new[m])
      BY <1>6, <3>2, <3>3
    <3> QED  BY <3>1, <3>4
  <2> HIDE DEF Y
  <2>4. \A m \in 0..L : new[m] \in Y[m]
    BY <1>1, <2>2, <2>3, StepsKeepEach
  <2> QED  BY <2>4 DEF Y
<1>12. Common(L, new[L])
  BY <1>1, <1>11
<1>13. \A p \in Processed(tree) : Edge(f, p, b) <=> p \in Seen(L)
  BY <1>0, <1>1
<1> HIDE DEF Seen
<1>14. CASE new[L] = -1 /\ Seen(L) = {}
  BY <1>3, <1>13, <1>14
<1>15. CASE /\ new[L] \in Processed(tree) /\ Seen(L) # {}
            /\ \A p \in Seen(L) : new[L] \in Ancestors(tree, p)
            /\ L = 1 => new[L] = ps[1]
  <2>1. Seen(L) \subseteq Processed(tree)
    BY DEF Seen
  <2> QED  BY <1>3, <1>13, <1>15, <2>1 DEF ps, L
<1> QED  BY <1>12, <1>14, <1>15 DEF Common
----------------------------------------------------------------------------
(* The step of the loop.  A block that is processed for the first time ranks  *)
(* above a predecessor that is; one that is given another dominator keeps its rank. *)
LEMMA SetIdomKeepsTree ==
  ASSUME NEW f, IsFlowGraph(f), NEW tree \in Trees(f), NEW b \in DOMAIN f, b # 0
  PROVE  SetIdom(tree, b, NewIdom(f, tree, b)) \in Trees(f)
<1> DEFINE new == NewIdom(f, tree, b)
           next == [tree EXCEPT ![b] = new]
<1>0. /\ IsTree(f, tree) /\ DOMAIN tree = DOMAIN f /\ 0 \in DOMAIN f
      /\ Processed(tree) \subseteq DOMAIN f /\ DOMAIN f \subseteq Nat
  BY BlockNumbers DEF Trees, IsTree, Processed
<1>1. PICK r : Ranked(f, tree, r)
  BY DEF Trees
<1>2. CASE new \notin Processed(tree)
  <2>1. new = -1
    BY <1>2, NewIdomIsCommon
  <2>2. ~(new >= 0)
    BY <2>1
  <2> QED  BY <2>2 DEF SetIdom
<1>3. CASE new \in Processed(tree)
  <2>1. /\ \E p \in Processed(tree) : Edge(f, p, b)
        /\ \A p \in Processed(tree) : Edge(f, p, b) => new \in Ancestors(tree, p)
    BY <1>0, <1>3, NewIdomIsCommon
  <2> HIDE DEF new
  <2>2. new \in DOMAIN f /\ new \in Nat
    BY <1>0, <1>3
  <2>3. SetIdom(tree, b, new) = next
    BY <2>2 DEF SetIdom
  <2>4. next \in [DOMAIN f -> DOMAIN f \union {-1}] /\ next[0] = 0 /\ next[b] = new
        /\ \A c \in DOMAIN f : c # b => next[c] = tree[c]
    BY <1>0, <2>2 DEF IsTree
  <2>5. Processed(next) = Processed(tree) \union {b}
    <3>1. DOMAIN next = DOMAIN f
      BY <1>0
    <3> HIDE DEF next
    <3> QED  BY <1>0, <2>2, <2>4, <3>1 DEF Processed
  <2> HIDE DEF next
  <2>6. \A p \in Processed(tree) : Edge(f, p, b) => r[new] <= r[p]
    BY <1>0, <1>1, <2>1, AncestorsRank
  <2>7. \A c \in Processed(tree) : r[c] \in Nat
    BY <1>0, <1>1 DEF Ranked
  <2>8. PICK n \in Nat : \A c \in DOMAIN f : r[c] <= n
    BY <1>1 DEF Ranked
  <2>9. CASE b \in Processed(tree)
    <3>1. ASSUME NEW c \in Processed(next) \ {0}
          PROVE  /\ next[c] \in Processed(next) /\ r[next[c]] < r[c]
                 /\ \E p \in Processed(next) : Edge(f, p, c) /\ r[p] < r[c]
      <4>1. Processed(next) = Processed(tree)
        BY <2>5, <2>9
      <4>2. PICK p \in Processed(tree) : Edge(f, p, c) /\ r[p] < r[c]
        BY <1>1, <3>1, <4>1 DEF Ranked
      <4>3. CASE c = b
        <5>1. r[new] <= r[p] /\ r[new] \in Nat /\ r[p] \in Nat /\ r[c] \in Nat
          BY <1>3, <2>6, <2>7, <3>1, <4>1, <4>2, <4>3
        <5> QED  BY <1>3, <2>4, <4>1, <4>2, <4>3, <5>1
      <4>4. CASE c # b
        <5>1. next[c] = tree[c] /\ tree[c] \in Processed(tree) /\ r[tree[c]] < r[c]
          BY <1>0, <1>1, <2>4, <3>1, <4>1, <4>4 DEF Ranked
        <5> QED  BY <4>1, <4>2, <5>1
      <4> QED  BY <4>3, <4>4
    <3>2. Ranked(f, next, r)
      BY <1>1, <3>1 DEF Ranked
    <3> QED  BY <1>0, <2>3, <2>4, <3>2 DEF Trees, IsTree, new
  <2>10. CASE b \notin Processed(tree)
    <3>1. PICK q \in Processed(tree) : Edge(f, q, b)
      BY <2>1
    <3> DEFINE s == [r EXCEPT ![b] = r[q] + 1]
    <3>2. /\ s \in [DOMAIN f -> Nat] /\ s[b] = r[q] + 1
          /\ \A c \in DOMAIN f : c # b => s[c] = r[c]
      BY <1>1, <2>7, <3>1 DEF Ranked
    <3>3. \A c \in DOMAIN f : s[c] <= n + 1
      <4>1. \A c \in DOMAIN f : r[c] \in Nat /\ r[c] <= n
        BY <1>1, <2>8 DEF Ranked
      <4>2. r[q] \in Nat /\ r[q] <= n
        BY <1>0, <4>1
      <4> HIDE DEF s
      <4> QED  BY <3>2, <4>1, <4>2
    <3> HIDE DEF s
    <3>4. ASSUME NEW c \in Processed(next) \ {0}
          PROVE  /\ next[c] \in Processed(next) /\ s[next[c]] < s[c]
                 /\ \E p \in Processed(next) : Edge(f, p, c) /\ s[p] < s[c]
      <4>1. CASE c = b
        <5>1. new # b /\ q # b
          BY <1>3, <2>10
        <5>2. s[new] = r[new] /\ s[q] = r[q] /\ r[new] <= r[q]
          BY <1>0, <2>2, <2>6, <3>1, <3>2, <5>1
        <5>3. s[new] < s[c] /\ s[q] < s[c]
          BY <1>3, <2>7, <3>2, <4>1, <5>2
        <5> QED  BY <1>3, <2>4, <2>5, <3>1, <4>1, <5>3
      <4>2. CASE c # b
        <5>1. c \in Processed(tree) \ {0}
          BY <2>5, <3>4, <4>2
        <5>2. PICK p \in Processed(tree) : Edge(f, p, c) /\ r[p] < r[c]
          BY <1>1, <5>1 DEF Ranked
        <5>3. next[c] = tree[c] /\ tree[c] \in Processed(tree) /\ r[tree[c]] < r[c]
          BY <1>0, <1>1, <2>4, <4>2, <5>1 DEF Ranked
        <5>4. tree[c] # b /\ p # b
          BY <2>10, <5>2, <5>3
        <5>5. s[tree[c]] = r[tree[c]] /\ s[p] = r[p] /\ s[c] = r[c]
          BY <1>0, <3>2, <4>2, <5>1, <5>3, <5>4
        <5> QED  BY <2>5, <5>2, <5>3, <5>5
      <4> QED  BY <4>1, <4>2
    <3>5. Ranked(f, next, s)
      <4>1. n + 1 \in Nat
        OBVIOUS
      <4> QED  BY <3>2, <3>3, <3>4, <4>1 DEF Ranked
    <3> QED  BY <1>0, <2>3, <2>4, <3>5 DEF Trees, IsTree, new
  <2> QED  BY <2>9, <2>10
<1> QED  BY <1>2, <1>3

(* A turn of the loop keeps the tree, and one that changes nothing leaves what *)
(* every block's predecessors agree on.                                     *)
LEMMA PassIsSteps ==
  ASSUME NEW f, IsFlowGraph(f), NEW tree \in Trees(f)
  PROVE  \E after \in [DOMAIN f -> Trees(f)] :
           /\ after[0] = tree
           /\ \A b \in DOMAIN f \ {0} : after[b] = SetIdom(after[b-1], b, NewIdom(f, after[b-1], b))
           /\ DominatorPass(f, tree) = after[LastBlock(f)]
<1> DEFINE N == LastBlock(f)
           F == [b \in 1..N |-> [t \in Trees(f) |-> SetIdom(t, b, NewIdom(f, t, b))]]
           IsPass(g) == g = [b \in DOMAIN f |->
                               IF b = 0 THEN tree ELSE SetIdom(g[b-1], b, NewIdom(f, g[b-1], b))]
           after == CHOOSE g : IsPass(g)
<1>1. N \in Nat /\ DOMAIN f = 0..N
  BY BlockNumbers
<1>2. DominatorPass(f, tree) = after[N]
  BY DEF DominatorPass
<1> HIDE DEF N
<1>3. \A b \in 1..N : \A t \in Trees(f) : F[b][t] \in Trees(f)
  <2> SUFFICES ASSUME NEW b \in 1..N, NEW t \in Trees(f) PROVE F[b][t] \in Trees(f)
    OBVIOUS
  <2>1. b \in DOMAIN f /\ b # 0
    BY <1>1
  <2> QED  BY <2>1, SetIdomKeepsTree
<1>4. PICK g \in [0..N -> Trees(f)] : IsSteps(g, N, tree, F)
  <2> HIDE DEF F
  <2> QED  BY <1>1, <1>3, StepsIn
<1>5. IsPass(g)
  <2>1. ASSUME NEW b \in 0..N, b # 0 PROVE F[b][g[b-1]] = SetIdom(g[b-1], b, NewIdom(f, g[b-1], b))
    <3>1. b \in 1..N /\ b - 1 \in 0..N
      BY <1>1, <2>1
    <3>2. g[b-1] \in Trees(f)
      BY <3>1
    <3> QED  BY <3>1, <3>2
  <2>2. g = [b \in 0..N |-> IF b = 0 THEN tree ELSE F[b][g[b-1]]]
    BY <1>4 DEF IsSteps
  <2> HIDE DEF F
  <2> QED  BY <1>1, <2>1, <2>2
<1>6. IsPass(after)
  <2> HIDE DEF IsPass
  <2> QED  BY <1>5
<1> HIDE DEF after, F
<1>7. /\ after[0] = tree
      /\ \A b \in DOMAIN f \ {0} : after[b] = SetIdom(after[b-1], b, NewIdom(f, after[b-1], b))
      /\ DOMAIN after = DOMAIN f
  BY <1>1, <1>6
<1>8. \A b \in 0..N : after[b] \in Trees(f)
  <2>1. ASSUME NEW m \in 1..N, after[m - 1] \in Trees(f) PROVE after[m] \in Trees(f)
    <3>1. m \in DOMAIN f \ {0} /\ m \in DOMAIN f /\ m # 0
      BY <1>1
    <3>2. after[m] = SetIdom(after[m-1], m, NewIdom(f, after[m-1], m))
      BY <1>7, <3>1
    <3> QED  BY <2>1, <3>1, <3>2, SetIdomKeepsTree
  <2>2. after[0] \in Trees(f)
    BY <1>7
  <2> QED  BY <1>1, <2>1, <2>2, StepsKeep
<1>9. after \in [DOMAIN f -> Trees(f)]
  <2>1. after = [b \in DOMAIN f |-> after[b]]
    BY <1>6
  <2> QED  BY <1>1, <1>8, <2>1
<1> QED  BY <1>2, <1>7, <1>9 DEF N

LEMMA PassKeepsTree ==
  ASSUME NEW f, IsFlowGraph(f), NEW tree \in Trees(f)
  PROVE  DominatorPass(f, tree) \in Trees(f)
BY PassIsSteps, BlockNumbers

LEMMA PassChangesOne ==
  ASSUME NEW f, IsFlowGraph(f), NEW tree \in Trees(f), DominatorPass(f, tree) = tree,
         NEW b \in DOMAIN f, b # 0
  PROVE  SetIdom(tree, b, NewIdom(f, tree, b)) = tree
<1> DEFINE N == LastBlock(f)
<1>1. N \in Nat /\ DOMAIN f = 0..N
  BY BlockNumbers
<1>2. PICK after \in [DOMAIN f -> Trees(f)] :
           /\ after[0] = tree
           /\ \A c \in DOMAIN f \ {0} : after[c] = SetIdom(after[c-1], c, NewIdom(f, after[c-1], c))
           /\ tree = after[N]
  BY PassIsSteps
<1> HIDE DEF N
<1>3. \A t \in Trees(f) : t \in [DOMAIN f -> DOMAIN f \union {-1}]
  BY DEF Trees
<1>4. ASSUME NEW m \in 1..N, NEW c \in DOMAIN f, c # m PROVE after[m][c] = after[m - 1][c]
  <2>1. m \in DOMAIN f \ {0} /\ m - 1 \in DOMAIN f
    BY <1>1
  <2>2. after[m] = SetIdom(after[m-1], m, NewIdom(f, after[m-1], m))
    BY <1>2, <2>1
  <2>3. after[m - 1] \in [DOMAIN f -> DOMAIN f \union {-1}]
    BY <1>2, <1>3, <2>1
  <2> QED  BY <1>4, <2>2, <2>3 DEF SetIdom
(* what block c has after its own step is what it has in the end             *)
<1>5. ASSUME NEW c \in DOMAIN f PROVE after[c][c] = tree[c]
  <2> DEFINE Same == {t \in Trees(f) : t[c] = after[c][c]}
             st == [k \in 0..(N - c) |-> after[c + k]]
  <2>1. N - c \in Nat
    BY <1>1
  <2>2. st[0] \in Same
    BY <1>1, <1>2, <2>1
  <2>3. ASSUME NEW k \in 1..(N - c), st[k - 1] \in Same PROVE st[k] \in Same
    <3>1. /\ st[k] = after[c + k] /\ st[k - 1] = after[(c + k) - 1] /\ c + k \in 1..N /\ c + k # c
          /\ c + k \in DOMAIN f
      BY <1>1, <2>1
    <3>2. after[c + k][c] = after[(c + k) - 1][c]
      BY <1>4, <3>1
    <3>3. after[c + k] \in Trees(f)
      BY <1>2, <3>1
    <3> HIDE DEF st
    <3> QED  BY <2>3, <3>1, <3>2, <3>3
  <2> HIDE DEF st, Same
  <2>4. st[N - c] \in Same
    BY <2>1, <2>2, <2>3, StepsKeep
  <2>5. st[N - c] = after[N]
    BY <1>1, <2>1 DEF st
  <2> QED  BY <1>2, <2>4, <2>5 DEF Same
(* so that nothing is changed on the way                                     *)
<1>6. \A m \in 0..N : after[m] \in {tree}
  <2>1. ASSUME NEW m \in 1..N, after[m - 1] \in {tree} PROVE after[m] \in {tree}
    <3>1. m \in DOMAIN f
      BY <1>1
    <3>2. \A c \in DOMAIN f : after[m][c] = tree[c]
      BY <1>4, <1>5, <2>1, <3>1
    <3>3. after[m] \in [DOMAIN f -> DOMAIN f \union {-1}] /\ tree \in [DOMAIN f -> DOMAIN f \union {-1}]
      BY <1>2, <1>3, <3>1
    <3> QED  BY <3>2, <3>3
  <2>2. after[0] \in {tree}
    BY <1>2
  <2> QED  BY <1>1, <2>1, <2>2, StepsKeep
<1>7. b \in DOMAIN f \ {0} /\ b \in 0..N /\ b - 1 \in 0..N
  BY <1>1
<1>8. after[b] = tree /\ after[b - 1] = tree
  BY <1>6, <1>7
<1> QED  BY <1>2, <1>7, <1>8
----------------------------------------------------------------------------
(* Where a turn changes nothing, every block an edge leads to from a processed *)
(* block is processed, and its dominator is an ancestor of the edge's start. *)
LEMMA SettledAgrees ==
  ASSUME NEW f, IsFlowGraph(f), NEW tree \in Trees(f), DominatorPass(f, tree) = tree,
         NEW p \in Processed(tree), NEW b \in DOMAIN f, Edge(f, p, b), b # 0
  PROVE  /\ b \in Processed(tree) /\ tree[b] \in Ancestors(tree, p)
         /\ Len(f[b].preds) = 1 => tree[b] = p
<1> DEFINE new == NewIdom(f, tree, b)
<1>0. DOMAIN tree = DOMAIN f /\ DOMAIN f \subseteq Nat /\ Processed(tree) \subseteq DOMAIN f
  BY BlockNumbers DEF Trees, Processed
<1>1. /\ new \in Processed(tree) /\ new \in Ancestors(tree, p)
      /\ Len(f[b].preds) = 1 => new = f[b].preds[1]
  BY NewIdomIsCommon
<1>6. Len(f[b].preds) = 1 => f[b].preds[1] = p
  <2>1. PICK i \in 1..Len(f[b].preds) : f[b].preds[i] = p
    BY <1>0, Preds
  <2> QED  BY <2>1
<1>2. SetIdom(tree, b, new) = tree
  BY PassChangesOne
<1> HIDE DEF new
<1>3. new \in Nat
  BY <1>0, <1>1
<1>4. [tree EXCEPT ![b] = new] = tree
  BY <1>2, <1>3 DEF SetIdom
<1>5. tree[b] = new
  BY <1>0, <1>4
<1> QED  BY <1>0, <1>1, <1>3, <1>5, <1>6 DEF Processed

LEMMA ReachableIsProcessed ==
  ASSUME NEW f, IsFlowGraph(f), NEW tree \in Trees(f), DominatorPass(f, tree) = tree
  PROVE  ReachableBlocks(f) \subseteq Processed(tree)
<1>0. /\ Processed(tree) \subseteq DOMAIN f /\ DOMAIN f \subseteq Nat /\ 0 \in Processed(tree)
  BY BlockNumbers DEF Trees, IsTree, Processed
<1>1. \A p \in Processed(tree) : \A s \in DOMAIN f \ {-1} : Edge(f, p, s) => s \in Processed(tree)
  BY <1>0, SettledAgrees
<1>2. IsClosed(f, Processed(tree), -1)
  BY <1>0, <1>1 DEF IsClosed
<1> QED  BY <1>0, <1>2 DEF ReachableBlocks, ReachedWithout

LEMMA SettledIsSound ==
  ASSUME NEW f, IsFlowGraph(f), NEW tree \in Trees(f), DominatorPass(f, tree) = tree,
         NEW b \in ReachableBlocks(f)
  PROVE  0 \in Ancestors(tree, b) /\ \A d \in Ancestors(tree, b) : Dominates(f, d, b)
<1>0. /\ IsTree(f, tree) /\ DOMAIN tree = DOMAIN f /\ 0 \in DOMAIN f
      /\ Processed(tree) \subseteq DOMAIN f /\ DOMAIN f \subseteq Nat /\ 0 \in Processed(tree)
  BY BlockNumbers DEF Trees, IsTree, Processed
<1>1. b \in Processed(tree)
  BY ReachableIsProcessed
<1>2. ASSUME NEW d \in Ancestors(tree, b), d # 0 PROVE b \notin ReachedWithout(f, d) \/ d = b
  <2> DEFINE S == {x \in Processed(tree) : d \notin Ancestors(tree, x)}
  <2>1. 0 \in S
    <3>1. HasWayUp(tree, {0}, 0)
      BY <1>0 DEF HasWayUp, IsTree
    <3>2. Ancestors(tree, 0) \subseteq {0}
      BY <1>0, <3>1, AncestorsWithin
    <3> QED  BY <1>0, <1>2, <3>2
  <2>2. ASSUME NEW p \in S, NEW s \in DOMAIN f \ {d}, Edge(f, p, s) PROVE s \in S
    <3>1. CASE s = 0
      BY <2>1, <3>1
    <3>2. CASE s # 0
      <4>1. s \in Processed(tree) /\ tree[s] \in Ancestors(tree, p)
        BY <2>2, <3>2, SettledAgrees
      <4>2. tree[s] \in DOMAIN tree
        BY <4>1 DEF Ancestors
      <4>3. Ancestors(tree, s) \subseteq {s} \union Ancestors(tree, tree[s])
        BY <1>0, <4>2, AncestorsStep
      <4>4. Ancestors(tree, tree[s]) \subseteq Ancestors(tree, p)
        BY <4>1, AncestorsGoUp
      <4> QED  BY <2>2, <4>1, <4>3, <4>4
    <3> QED  BY <3>1, <3>2
  <2>3. IsClosed(f, S, d)
    BY <2>1, <2>2 DEF IsClosed
  <2>4. ReachedWithout(f, d) \subseteq S
    BY <1>0, <2>3 DEF ReachedWithout
  <2> QED  BY <1>2, <2>4
<1>3. 0 \in Ancestors(tree, b)
  BY <1>1, EntryIsAncestor
<1>4. \A d \in Ancestors(tree, b) : Dominates(f, d, b)
  BY <1>2 DEF Dominates
<1> QED  BY <1>3, <1>4
----------------------------------------------------------------------------
(* The runners of compute_dom_frontiers pass every block between a predecessor *)
(* and the dominator.                                                       *)
LEMMA AncestorsOfRoot ==
  ASSUME NEW tree, NEW b \in DOMAIN tree, tree[b] \notin DOMAIN tree \/ tree[b] = b
  PROVE  Ancestors(tree, b) = {b}
<1>1. HasWayUp(tree, {b}, b)
  BY DEF HasWayUp
<1>2. Ancestors(tree, b) \subseteq {b}
  BY <1>1, AncestorsWithin
<1> QED  BY <1>2, AncestorsHave

LEMMA AncestorsOrder ==
  ASSUME NEW f, IsFlowGraph(f), NEW tree \in Trees(f), NEW b \in Processed(tree),
         NEW a \in Ancestors(tree, b), b \in Ancestors(tree, a)
  PROVE  a = b
<1>0. /\ IsTree(f, tree) /\ DOMAIN tree = DOMAIN f /\ Processed(tree) \subseteq DOMAIN f
      /\ 0 \in DOMAIN f /\ DOMAIN f \subseteq Nat
  BY BlockNumbers DEF Trees, IsTree, Processed
<1>1. PICK r : Ranked(f, tree, r)
  BY DEF Trees
<1>2. CASE b = 0
  BY <1>0, <1>2, AncestorsOfRoot DEF IsTree
<1>3. CASE b # 0 /\ a # b
  <2>1. tree[b] \in Processed(tree) /\ r[tree[b]] < r[b] /\ tree[b] \in DOMAIN tree
    BY <1>0, <1>1, <1>3 DEF Ranked
  <2>2. a \in Ancestors(tree, tree[b])
    BY <1>0, <1>3, <2>1, AncestorsStep
  <2>3. a \in Processed(tree) /\ r[a] <= r[tree[b]]
    BY <1>0, <1>1, <2>1, <2>2, AncestorsRank
  <2>4. r[b] <= r[a]
    BY <1>0, <1>1, <2>3, AncestorsRank
  <2>5. r[a] \in Nat /\ r[b] \in Nat /\ r[tree[b]] \in Nat
    BY <1>0, <1>1, <2>1, <2>3 DEF Ranked
  <2> QED  BY <2>1, <2>3, <2>4, <2>5
<1> QED  BY <1>2, <1>3

IsRun(tree, stop, g) ==
  g = [r \in DOMAIN tree |->
         IF r = stop THEN {} ELSE {r} \cup (IF tree[r] < 0 THEN {} ELSE g[tree[r]])]

LEMMA RunExists ==
  ASSUME NEW f, IsFlowGraph(f), NEW tree \in Trees(f), NEW stop
  PROVE  \E g : IsRun(tree, stop, g)
<1> DEFINE Up(r) == {x \in Ancestors(tree, r) : ~(stop \in Ancestors(tree, r) /\ x \in Ancestors(tree, stop))}
           g == [r \in DOMAIN tree |-> Up(r)]
<1>0. /\ IsTree(f, tree) /\ DOMAIN tree = DOMAIN f /\ 0 \in DOMAIN f /\ DOMAIN f \subseteq Nat
      /\ Processed(tree) \subseteq DOMAIN f
  BY BlockNumbers DEF Trees, IsTree, Processed
<1>1. ASSUME NEW r \in DOMAIN tree
      PROVE  Up(r) = IF r = stop THEN {} ELSE {r} \cup (IF tree[r] < 0 THEN {} ELSE g[tree[r]])
  <2>1. CASE r = stop
    BY <2>1, AncestorsHave
  <2>2. CASE r # stop /\ tree[r] < 0
    <3>1. tree[r] \notin DOMAIN tree
      BY <1>0, <2>2
    <3>2. Ancestors(tree, r) = {r}
      BY <3>1, AncestorsOfRoot
    <3> QED  BY <2>2, <3>2
  <2>3. CASE r # stop /\ ~(tree[r] < 0)
    <3>1. tree[r] \in DOMAIN tree /\ r \in Processed(tree)
      BY <1>0, <2>3 DEF IsTree, Processed
    <3>2. Ancestors(tree, r) = {r} \cup Ancestors(tree, tree[r])
      BY <3>1, AncestorsHave, AncestorsStep, AncestorsGoUp
    <3>3. ~(stop \in Ancestors(tree, r) /\ r \in Ancestors(tree, stop))
      BY <2>3, <3>1, AncestorsOrder
    <3>4. stop \in Ancestors(tree, r) <=> stop \in Ancestors(tree, tree[r])
      BY <2>3, <3>2
    <3>5. Up(r) = {r} \cup Up(tree[r])
      BY <3>2, <3>3, <3>4
    <3>6. g[tree[r]] = Up(tree[r])
      BY <3>1
    <3> HIDE DEF Up, g
    <3> QED  BY <2>3, <3>5, <3>6
  <2> QED  BY <2>1, <2>2, <2>3
<1> HIDE DEF Up
<1>2. g = [r \in DOMAIN tree |->
             IF r = stop THEN {} ELSE {r} \cup (IF tree[r] < 0 THEN {} ELSE g[tree[r]])]
  BY <1>1
<1> HIDE DEF g
<1> QED  BY <1>2 DEF IsRun

LEMMA RunnerPasses ==
  ASSUME NEW f, IsFlowGraph(f), NEW tree \in Trees(f), NEW p \in DOMAIN tree, NEW stop \in DOMAIN tree,
         NEW x \in Ancestors(tree, p), x \notin Ancestors(tree, stop)
  PROVE  x \in Runner(tree, p, stop)
<1> DEFINE run == CHOOSE g : IsRun(tree, stop, g)
<1>1. Runner(tree, p, stop) = run[p]
  BY DEF Runner, IsRun
<1>2. IsRun(tree, stop, run)
  BY RunExists
<1> HIDE DEF run
<1>0. IsTree(f, tree) /\ DOMAIN tree = DOMAIN f /\ DOMAIN f \subseteq Nat
  BY BlockNumbers DEF Trees, IsTree
<1> DEFINE S == {y \in DOMAIN tree : y \in Ancestors(tree, stop) \/ run[y] \subseteq run[p]}
<1>3. ASSUME NEW y \in DOMAIN tree, y \notin Ancestors(tree, stop)
      PROVE  y \in run[y] /\ (tree[y] \in DOMAIN tree => run[tree[y]] \subseteq run[y])
  <2>1. y # stop
    BY <1>3, AncestorsHave
  <2>2. run[y] = {y} \cup (IF tree[y] < 0 THEN {} ELSE run[tree[y]])
    BY <1>2, <2>1 DEF IsRun
  <2>3. tree[y] \in DOMAIN tree => ~(tree[y] < 0)
    BY <1>0
  <2> QED  BY <2>2, <2>3
<1>4. HasWayUp(tree, S, p)
  <2>1. ASSUME NEW y \in S, tree[y] \in DOMAIN tree PROVE tree[y] \in S
    <3>1. CASE y \in Ancestors(tree, stop)
      <4>1. tree[y] \in Ancestors(tree, y)
        BY <2>1, AncestorsHave
      <4> QED  BY <2>1, <3>1, <4>1, AncestorsGoUp
    <3>2. CASE y \notin Ancestors(tree, stop)
      BY <1>3, <2>1, <3>2
    <3> QED  BY <3>1, <3>2
  <2> QED  BY <2>1 DEF HasWayUp
<1>5. x \in S
  BY <1>4, AncestorsWithin
<1>6. x \in run[x] /\ run[x] \subseteq run[p]
  BY <1>3, <1>5
<1> QED  BY <1>1, <1>6

(* The worklist of insert_phis ends, and where it ends the frontiers of the  *)
(* definitions and of the phis have phis.                                   *)
IsPhis(df, defs, g) ==
  g = [done \in SUBSET DOMAIN df |->
         IF (UNION {df[b] : b \in defs \cup done}) \ done = {} THEN done
         ELSE g[done \cup ((UNION {df[b] : b \in defs \cup done}) \ done)]]
Fed(df, defs, J) == \A b \in defs \cup J : df[b] \subseteq J

LEMMA PhisExist ==
  ASSUME NEW df, \A b \in DOMAIN df : df[b] \subseteq DOMAIN df, NEW defs \in SUBSET DOMAIN df
  PROVE  \E g : IsPhis(df, defs, g)
<1> DEFINE More(done) == (UNION {df[b] : b \in defs \cup done}) \ done
           Grown(done) == {b \in DOMAIN df : \A J \in SUBSET DOMAIN df :
                              done \subseteq J /\ Fed(df, defs, J) => b \in J}
           g == [done \in SUBSET DOMAIN df |-> Grown(done)]
<1>1. ASSUME NEW done \in SUBSET DOMAIN df PROVE done \cup More(done) \in SUBSET DOMAIN df
  OBVIOUS
<1>2. ASSUME NEW done \in SUBSET DOMAIN df
      PROVE  Grown(done) = IF More(done) = {} THEN done ELSE g[done \cup More(done)]
  <2>1. CASE More(done) = {}
    <3>1. Fed(df, defs, done)
      BY <2>1 DEF Fed
    <3>2. Grown(done) = done
      BY <3>1
    <3> QED  BY <2>1, <3>2
  <2>2. CASE More(done) # {}
    <3>1. \A J \in SUBSET DOMAIN df : done \subseteq J /\ Fed(df, defs, J) => More(done) \subseteq J
      BY DEF Fed
    <3> HIDE DEF More
    <3>2. Grown(done) = Grown(done \cup More(done))
      BY <3>1
    <3>3. g[done \cup More(done)] = Grown(done \cup More(done))
      BY <1>1
    <3> HIDE DEF g, Grown
    <3> QED  BY <2>2, <3>2, <3>3
  <2> QED  BY <2>1, <2>2
<1> HIDE DEF More, Grown
<1>3. g = [done \in SUBSET DOMAIN df |-> IF More(done) = {} THEN done ELSE g[done \cup More(done)]]
  BY <1>2
<1> HIDE DEF g
<1> QED  BY <1>3 DEF IsPhis, More

LEMMA PhisFed ==
  ASSUME NEW df, IsFiniteSet(DOMAIN df), \A b \in DOMAIN df : df[b] \subseteq DOMAIN df,
         NEW defs \in SUBSET DOMAIN df
  PROVE  PhiBlocks(df, defs) \subseteq DOMAIN df /\ Fed(df, defs, PhiBlocks(df, defs))
<1> DEFINE phis == CHOOSE g : IsPhis(df, defs, g)
           More(done) == (UNION {df[b] : b \in defs \cup done}) \ done
           Left(done) == Cardinality(DOMAIN df \ done)
           Good(done) == phis[done] \subseteq DOMAIN df /\ Fed(df, defs, phis[done])
           Lefts == {Left(done) : done \in {s \in SUBSET DOMAIN df : ~Good(s)}}
<1>1. PhiBlocks(df, defs) = phis[{}]
  BY DEF PhiBlocks, IsPhis
<1>2. IsPhis(df, defs, phis)
  <2> HIDE DEF phis
  <2> QED  BY PhisExist DEF phis
<1>3. \A done \in SUBSET DOMAIN df :
        phis[done] = IF More(done) = {} THEN done ELSE phis[done \cup More(done)]
  BY <1>2 DEF IsPhis
<1> HIDE DEF phis
<1>4. \A done \in SUBSET DOMAIN df : Left(done) \in Nat
  BY FS_Subset, FS_CardinalityType
<1>5. ASSUME NEW done \in SUBSET DOMAIN df, More(done) = {} PROVE Good(done)
  <2>1. phis[done] = done
    BY <1>3, <1>5
  <2>2. Fed(df, defs, done)
    BY <1>5 DEF Fed
  <2> QED  BY <2>1, <2>2
<1>6. ASSUME NEW done \in SUBSET DOMAIN df, More(done) # {}
      PROVE  \E more \in SUBSET DOMAIN df : phis[done] = phis[more] /\ Left(more) < Left(done)
  <2> DEFINE more == done \cup More(done)
  <2>1. more \in SUBSET DOMAIN df /\ phis[done] = phis[more]
    <3>1. More(done) \subseteq DOMAIN df
      OBVIOUS
    <3> HIDE DEF More
    <3> QED  BY <1>3, <1>6, <3>1
  <2>2. /\ DOMAIN df \ more \subseteq DOMAIN df \ done /\ DOMAIN df \ more # DOMAIN df \ done
        /\ IsFiniteSet(DOMAIN df \ done)
    <3>1. More(done) \intersect done = {}
      OBVIOUS
    <3> HIDE DEF More
    <3>2. PICK x : x \in More(done)
      BY <1>6
    <3>3. x \in DOMAIN df \ done /\ x \notin DOMAIN df \ more
      BY <2>1, <3>1, <3>2
    <3>4. IsFiniteSet(DOMAIN df \ done)
      BY FS_Subset
    <3> QED  BY <3>3, <3>4
  <2> HIDE DEF more
  <2>3. Left(more) < Left(done)
    <3>1. Left(more) <= Left(done) /\ Left(more) # Left(done)
      BY <2>2, FS_Subset
    <3> HIDE DEF Left
    <3> QED  BY <1>4, <2>1, <3>1
  <2> QED  BY <2>1, <2>3
<1> HIDE DEF Left
<1>7. Lefts = {}
  <2> SUFFICES ASSUME Lefts # {} PROVE FALSE
    OBVIOUS
  <2>1. Lefts \in SUBSET Nat
    BY <1>4
  <2> HIDE DEF Good
  <2>2. PICK m \in Lefts : \A k \in Lefts : m <= k
    <3> HIDE DEF Lefts
    <3> QED  BY <2>1, Least
  <2>3. PICK done \in SUBSET DOMAIN df : ~Good(done) /\ Left(done) = m
    BY <2>2
  <2>4. More(done) # {}
    BY <1>5, <2>3
  <2>5. PICK more \in SUBSET DOMAIN df : phis[done] = phis[more] /\ Left(more) < Left(done)
    BY <1>6, <2>3, <2>4
  <2>6. ~Good(more)
    BY <2>3, <2>5 DEF Good
  <2>7. Left(more) \in Lefts
    BY <2>5, <2>6
  <2>8. m <= Left(more) /\ Left(more) < m /\ m \in Nat /\ Left(more) \in Nat
    BY <2>1, <2>2, <2>3, <2>5, <2>7
  <2> QED  BY <2>8
<1>8. Good({})
  <2>1. {} \in SUBSET DOMAIN df
    OBVIOUS
  <2> HIDE DEF Good
  <2> QED  BY <1>7, <2>1
<1> QED  BY <1>1, <1>8

(* A block on the way up from a predecessor of b and not on the way up from its *)
(* dominator has b in its frontier.                                         *)
LEMMA FrontierBetween ==
  ASSUME NEW f, IsFlowGraph(f), NEW tree \in Trees(f), DominatorPass(f, tree) = tree,
         NEW p \in Processed(tree), NEW b \in DOMAIN f, Edge(f, p, b), b # 0,
         NEW x \in Ancestors(tree, p), x \notin Ancestors(tree, tree[b])
  PROVE  b \in Frontiers(f, tree)[x]
<1>0. DOMAIN tree = DOMAIN f /\ Processed(tree) \subseteq DOMAIN f
  BY BlockNumbers DEF Trees, Processed
<1>1. tree[b] \in Ancestors(tree, p) /\ (Len(f[b].preds) = 1 => tree[b] = p)
  BY SettledAgrees
<1>2. tree[b] \in DOMAIN tree /\ x \in DOMAIN f
  BY <1>0, <1>1 DEF Ancestors
<1>3. x \in Runner(tree, p, tree[b])
  BY <1>0, <1>2, RunnerPasses
<1>4. PICK i \in 1..Len(f[b].preds) : f[b].preds[i] = p
  BY <1>0, Preds
<1>5. Len(f[b].preds) >= 2
  <2>1. Len(f[b].preds) \in Nat
    BY Preds
  <2>2. Len(f[b].preds) # 1
    BY <1>1
  <2>3. \A n \in Nat : \A j \in 1..n : n # 1 => n >= 2
    OBVIOUS
  <2> QED  BY <1>4, <2>1, <2>2, <2>3, Zenon
<1> QED  BY <1>2, <1>3, <1>4, <1>5 DEF Frontiers

LEMMA SettledSuffices ==
  ASSUME NEW f, IsFlowGraph(f), NEW tree \in Trees(f), DominatorPass(f, tree) = tree,
         NEW defs \in SUBSET DOMAIN f, NEW p \in ReachableBlocks(f),
         NEW b \in DOMAIN f \ ({0} \cup PhiBlocks(Frontiers(f, tree), defs)), Edge(f, p, b)
  PROVE  LET all == defs \cup PhiBlocks(Frontiers(f, tree), defs)
         IN Ancestors(tree, p) \intersect all = Ancestors(tree, tree[b]) \intersect all
<1> DEFINE df == Frontiers(f, tree)
           phis == PhiBlocks(df, defs)
<1>1. p \in Processed(tree) /\ p \in DOMAIN f
  BY SettledIsSound, ReachableIsProcessed DEF ReachableBlocks, ReachedWithout
<1>2. tree[b] \in Ancestors(tree, p)
  BY <1>1, SettledAgrees
<1>3. Ancestors(tree, tree[b]) \subseteq Ancestors(tree, p)
  BY <1>2, AncestorsGoUp
<1>4. DOMAIN df = DOMAIN f /\ IsFiniteSet(DOMAIN df) /\ \A d \in DOMAIN df : df[d] \subseteq DOMAIN df
  BY DEF Frontiers, IsFlowGraph
<1>5. Fed(df, defs, phis)
  <2> HIDE DEF df
  <2> QED  BY <1>4, PhisFed
<1>6. ASSUME NEW x \in Ancestors(tree, p), x \in defs \cup phis PROVE x \in Ancestors(tree, tree[b])
  <2> SUFFICES ASSUME x \notin Ancestors(tree, tree[b]) PROVE FALSE
    OBVIOUS
  <2>1. b \in df[x]
    BY <1>1, FrontierBetween
  <2>2. df[x] \subseteq phis
    BY <1>5, <1>6 DEF Fed
  <2> QED  BY <2>1, <2>2
<1> QED  BY <1>3, <1>6

(* The loop keeps a tree at every turn, whatever the graph and its numbering. *)
THEOREM LoopKeepsTree == DomSpec => []DomInv
<1>1. DomInit => DomInv
  BY NoIdomIsTree DEF DomInit, DomInv
<1>2. DomInv /\ [TurnOfLoop]_domVars => DomInv'
  <2> SUFFICES ASSUME DomInv, [TurnOfLoop]_domVars PROVE DomInv'
    OBVIOUS
  <2>1. CASE TurnOfLoop
    <3>1. func' = func /\ idom' = DominatorPass(func, idom)
          /\ stage' = IF idom' = idom THEN "ssa" ELSE stage
      BY <2>1 DEF TurnOfLoop
    <3>2. idom' \in Trees(func)
      BY <3>1, PassKeepsTree DEF DomInv
    <3>3. stage' = "ssa" => idom' = idom
      BY <2>1, <3>1 DEF TurnOfLoop
    <3> QED  BY <3>1, <3>2, <3>3 DEF DomInv
  <2>2. CASE UNCHANGED domVars
    BY <2>2 DEF DomInv, domVars
  <2> QED  BY <2>1, <2>2
<1> QED  BY <1>1, <1>2, PTL DEF DomSpec

(* When the loop ends, the ancestors of a reachable block in idom are dominators *)
(* of it and lead to the entry, although the blocks are numbered by address  *)
(* (SSABuilder::compute_dominators).                                       *)
THEOREM AncestorsAreDominators == DomSpec => []AncestorsDominate
<1>1. DomInv => AncestorsDominate
  BY SettledIsSound DEF DomInv, AncestorsDominate
<1> QED  BY <1>1, LoopKeepsTree, PTL

(* At every turn the way from a processed block up the tree ends at the entry,  *)
(* so that the two fingers of compute_dominators, which climb without a bound, *)
(* never climb forever.                                                     *)
THEOREM TheWaysUpEnd == DomSpec => []WaysUpEnd
<1>1. DomInv => WaysUpEnd
  BY EntryIsAncestor DEF DomInv, WaysUpEnd
<1> QED  BY <1>1, LoopKeepsTree, PTL

(* Wherever insert_phis puts no phi for a variable, none is needed: each edge   *)
(* into the block comes with the definitions and phis that the dominator of    *)
(* the block has (compute_dom_frontiers, insert_phis).                        *)
THEOREM PhisAreEnough == DomSpec => []PhisSuffice
<1>1. DomInv => PhisSuffice
  BY SettledSuffices DEF DomInv, PhisSuffice
<1> QED  BY <1>1, LoopKeepsTree, PTL
==============================================================================
