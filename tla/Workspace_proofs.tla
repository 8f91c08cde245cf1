-------------------------- MODULE Workspace_proofs --------------------------
(* What holds of every workspace, for any binaries, any history limit and any
   number of acts: the history is the end of everything visited, a crash tears
   one file of a project at most, no type turns into another one, the view goes
   to code, moving the image leaves the patched file alone, and what a save
   finished comes back when the project is loaded.                             *)
EXTENDS Workspace, FiniteSetTheorems, SequenceTheorems, TLAPS

(* The history and the trail hold the same kind of entries, and both positions
   lie inside.                                                                 *)
Inside ==
    /\ \E S : hist \in Seq(S) /\ trail \in Seq(S)
    /\ turn \in 0..Len(trail) /\ Len(hist) <= HistoryLimit /\ Len(hist) <= Len(trail)
    /\ IF hist = << >> THEN pos = -1 ELSE pos \in 0..(Len(hist) - 1)
    /\ hist = << >> => trail = << >>

HistoryInv == Inside /\ HistoryIsTrail

-----------------------------------------------------------------------------
(* A sequence cut behind an entry and continued with another one.              *)
LEMMA Continued ==
    ASSUME NEW S, NEW s \in Seq(S), NEW n \in 0..Len(s), NEW e
    PROVE  LET r == Append(SubSeq(s, 1, n), e)
           IN  /\ r \in Seq(S \cup {e}) /\ Len(r) = n + 1 /\ r[n + 1] = e
               /\ \A k \in 1..n : r[k] = s[k]
<1> DEFINE q == SubSeq(s, 1, n)
<1>1. Len(s) \in Nat /\ n \in Int /\ n \in Nat  OBVIOUS
<1>2. q \in Seq(S) /\ Len(q) = n /\ \A k \in 1..n : q[k] = s[k]
  <2>1. \A i \in 1..n : s[i] \in S  BY <1>1, ElementOfSeq
  <2> QED  BY <2>1, <1>1, SubSeqProperties
<1> HIDE DEF q
<1>3. q \in Seq(S \cup {e})  BY <1>2, SeqMonotonic
<1> QED  BY <1>1, <1>2, <1>3 DEF q

(* Visiting: the entries up to the position, then the new one, without the
   oldest when there are too many.                                             *)
LEMMA Visiting ==
    ASSUME HistoryInv, NEW addr, NEW target, NavigateTo(addr, target)
    PROVE  HistoryInv'
<1>1. CASE UNCHANGED navigation
  BY <1>1 DEF HistoryInv, Inside, HistoryIsTrail, navigation
<1>2. CASE ~UNCHANGED navigation
  <2>0. PICK S : hist \in Seq(S) /\ trail \in Seq(S)
    BY DEF HistoryInv, Inside
  <2> DEFINE H == Append(SubSeq(hist, 1, pos + 1), target)
             T == Append(SubSeq(trail, 1, turn), target)
             R == S \cup {target}
  <2>1. /\ hist' = IF Len(H) > HistoryLimit THEN Tail(H) ELSE H
        /\ pos' = IF Len(H) > HistoryLimit THEN Len(H) - 2 ELSE Len(H) - 1
        /\ trail' = T /\ turn' = turn + 1
    BY <1>2 DEF NavigateTo, Visit
  <2>2. /\ pos \in Int /\ turn \in Int /\ Len(hist) \in Nat /\ Len(trail) \in Nat
        /\ pos + 1 \in 0..Len(hist) /\ turn \in 0..Len(trail)
        /\ HistoryLimit \in Nat \ {0}
        /\ Len(trail) - turn = Len(hist) - 1 - pos
        /\ Len(hist) <= HistoryLimit /\ Len(hist) <= Len(trail)
    <3>1. Len(hist) \in Nat /\ Len(trail) \in Nat /\ (hist # << >> => Len(hist) > 0)  BY <2>0
    <3>2. hist = << >> => Len(hist) = 0 /\ Len(trail) = 0  BY DEF HistoryInv, Inside
    <3>3. pos \in Int /\ turn \in Int /\ pos + 1 \in 0..Len(hist) /\ turn \in 0..Len(trail)
      BY <3>1, <3>2 DEF HistoryInv, Inside
    <3> QED  BY <3>1, <3>3, HistoryAssumption DEF HistoryInv, Inside, HistoryIsTrail
  <2>8. \A k \in 1..Len(hist) : hist[k] = trail[Len(trail) - Len(hist) + k]
    BY DEF HistoryInv, HistoryIsTrail
  <2>3. /\ H \in Seq(R) /\ Len(H) = pos + 2 /\ H[pos + 2] = target
        /\ \A k \in 1..(pos + 1) : H[k] = hist[k]
    <3>1. pos + 1 \in 0..Len(hist) /\ (pos + 1) + 1 = pos + 2
      BY <2>2
    <3>2. /\ H \in Seq(R) /\ Len(H) = (pos + 1) + 1 /\ H[(pos + 1) + 1] = target
          /\ \A k \in 1..(pos + 1) : H[k] = hist[k]
      BY <2>0, <3>1, Continued
    <3> QED  BY <3>1, <3>2
  <2>4. /\ T \in Seq(R) /\ Len(T) = turn + 1 /\ T[turn + 1] = target
        /\ \A k \in 1..turn : T[k] = trail[k]
    BY <2>0, <2>2, Continued
  <2> HIDE DEF H, T, R
  <2>5. \A k \in 1..Len(H) : H[k] = T[Len(T) - Len(H) + k]
    <3> SUFFICES ASSUME NEW k \in 1..(pos + 2)
                 PROVE  H[k] = T[turn - pos - 1 + k]
      BY <2>2, <2>3, <2>4
    <3>1. CASE k = pos + 2  BY <3>1, <2>2, <2>3, <2>4
    <3>2. CASE k # pos + 2
      <4>1. k \in 1..(pos + 1) /\ k \in 1..Len(hist)  BY <3>2, <2>2
      <4>2. turn - pos - 1 + k \in 1..turn  BY <4>1, <2>2
      <4>3. Len(trail) - Len(hist) + k = turn - pos - 1 + k  BY <2>2
      <4>4. hist[k] = trail[turn - pos - 1 + k]  BY <4>1, <4>3, <2>8
      <4> QED  BY <4>1, <4>2, <4>4, <2>3, <2>4
    <3> QED  BY <3>1, <3>2
  <2>6. CASE Len(H) > HistoryLimit
    <3>1. hist' = Tail(H) /\ pos' = Len(H) - 2  BY <2>6, <2>1
    <3>2. H # << >>  BY <2>2, <2>3
    <3>3. /\ hist' \in Seq(R) /\ Len(hist') = Len(H) - 1
          /\ \A k \in 1..Len(hist') : hist'[k] = H[k + 1]
      BY <3>1, <3>2, <2>3, HeadTailProperties
    <3>4. Len(H) - 1 <= HistoryLimit /\ Len(H) - 1 > 0  BY <2>6, <2>2, <2>3
    <3>5. \A k \in 1..Len(hist') : hist'[k] = trail'[Len(trail') - Len(hist') + k]
      <4> SUFFICES ASSUME NEW k \in 1..Len(hist')
                   PROVE  hist'[k] = trail'[Len(trail') - Len(hist') + k]
        OBVIOUS
      <4>1. hist'[k] = H[k + 1] /\ k + 1 \in 1..Len(H)  BY <3>3, <2>2, <2>3
      <4>2. H[k + 1] = T[Len(T) - Len(H) + (k + 1)]  BY <4>1, <2>5
      <4>3. Len(T) - Len(H) + (k + 1) = Len(trail') - Len(hist') + k
        BY <3>3, <2>1, <2>2, <2>3, <2>4
      <4> QED  BY <4>1, <4>2, <4>3, <2>1
    <3>6. hist' # << >>  BY <3>3, <3>4
    <3>7. trail' \in Seq(R) /\ Len(trail') = turn + 1 /\ turn' = turn + 1  BY <2>1, <2>4
    <3>8. Inside'  BY <2>2, <2>3, <3>1, <3>3, <3>4, <3>6, <3>7, SMTT(30) DEF Inside
    <3> QED  BY <2>2, <2>3, <3>1, <3>3, <3>5, <3>7, <3>8 DEF HistoryInv, HistoryIsTrail
  <2>7. CASE ~(Len(H) > HistoryLimit)
    <3>1. hist' = H /\ pos' = Len(H) - 1  BY <2>7, <2>1
    <3>2. Len(H) <= HistoryLimit /\ hist' # << >>  BY <3>1, <2>7, <2>2, <2>3
    <3>3. trail' = T /\ turn' = turn + 1  BY <2>1
    <3>4. Inside'  BY <2>2, <2>3, <2>4, <3>1, <3>2, <3>3 DEF Inside
    <3>5. Len(trail') - turn' = Len(hist') - 1 - pos'
      <4>1. Len(trail') = turn + 1 /\ turn' = turn + 1  BY <2>4, <3>3
      <4>2. Len(hist') = pos + 2 /\ pos' = pos + 1  BY <2>2, <2>3, <3>1
      <4> QED  BY <4>1, <4>2, <2>2
    <3> QED  BY <2>5, <3>1, <3>3, <3>4, <3>5 DEF HistoryInv, HistoryIsTrail
  <2> QED  BY <2>6, <2>7
<1> QED  BY <1>1, <1>2

(* Going back and forward, and a click, keep both lists.                       *)
LEMMA Moving ==
    ASSUME HistoryInv, \/ Back \/ Forward \/ (\E a : Click(a)) \/ UNCHANGED navigation
    PROVE  HistoryInv'
<1>1. PICK S : hist \in Seq(S) /\ trail \in Seq(S)
  BY DEF HistoryInv, Inside
<1>2. /\ Len(hist) \in Nat /\ Len(trail) \in Nat /\ pos \in Int /\ turn \in Int
      /\ hist # << >> => Len(hist) > 0
  BY <1>1 DEF HistoryInv, Inside
<1>3. UNCHANGED <<hist, trail>>
  BY DEF Back, Forward, Click, navigation
<1>4. CASE Back
  <2>1. pos > 0 /\ pos' = pos - 1 /\ turn' = turn - 1  BY <1>4 DEF Back
  <2> QED  BY <1>1, <1>2, <1>3, <2>1 DEF HistoryInv, Inside, HistoryIsTrail
<1>5. CASE Forward
  <2>1. /\ pos < Len(hist) - 1 /\ pos' = pos + 1 /\ turn' = turn + 1
        /\ Len(trail) - turn = Len(hist) - 1 - pos
        /\ (hist = << >> => pos = -1 /\ Len(hist) = 0) /\ turn \in 0..Len(trail)
        /\ (hist # << >> => pos \in 0..(Len(hist) - 1))
    BY <1>5 DEF Forward, HistoryInv, HistoryIsTrail, Inside
  <2>2. /\ hist # << >> /\ pos + 1 \in 0..(Len(hist) - 1) /\ turn + 1 \in 0..Len(trail)
        /\ Len(trail) - (turn + 1) = Len(hist) - 1 - (pos + 1)
    BY <2>1, <1>2
  <2>3. Inside'  BY <1>1, <1>3, <2>1, <2>2 DEF HistoryInv, Inside
  <2> QED  BY <1>3, <2>1, <2>2, <2>3 DEF HistoryInv, Inside, HistoryIsTrail
<1>6. CASE (\E a : Click(a)) \/ UNCHANGED navigation
  <2>1. UNCHANGED <<pos, turn>>  BY <1>6 DEF Click, navigation
  <2> QED  BY <1>1, <1>3, <2>1 DEF HistoryInv, Inside, HistoryIsTrail
<1> QED  BY <1>4, <1>5, <1>6

(* A program that starts has been nowhere.                                     *)
LEMMA Starting ==
    ASSUME hist' = << >>, pos' = -1, trail' = << >>, turn' = 0
    PROVE  HistoryInv'
<1>1. hist' \in Seq({}) /\ trail' \in Seq({}) /\ Len(hist') = 0 /\ Len(trail') = 0  OBVIOUS
<1>2. Inside'  BY <1>1, HistoryAssumption DEF Inside
<1> QED  BY <1>1, <1>2 DEF HistoryInv, HistoryIsTrail

LEMMA HistoryStep == HistoryInv /\ [Next]_vars => HistoryInv'
<1> SUFFICES ASSUME HistoryInv, [Next]_vars PROVE HistoryInv'  OBVIOUS
<1>1. CASE OpenAny
  BY <1>1, Visiting DEF OpenAny, Open, GoTo
<1>2. CASE GoToDialog \/ FollowBookmark
  BY <1>2, Visiting DEF GoToDialog, FollowBookmark, UserGoesTo, GoTo
<1>3. CASE RebaseTo
  BY <1>3, Visiting DEF RebaseTo, Rebase, GoTo
<1>4. CASE NavBack \/ NavForward \/ UserClicks
  BY <1>4, Moving DEF NavBack, NavForward, UserClicks
<1>5. CASE Crash \/ Quit
  BY <1>5, Starting DEF Crash, Quit, CloseDesk
<1>6. CASE \/ Rename \/ Comment \/ Patch \/ ExtendDefinition \/ ShrinkDefinition
           \/ Bookmark \/ AddDefinition \/ SelectDefinition \/ DeleteDefinition
           \/ ApplyType \/ RemoveApplied
  <2>1. UNCHANGED navigation
    BY <1>6 DEF Rename, Comment, Patch, ExtendDefinition, ShrinkDefinition, Bookmark,
                AddDefinition, SelectDefinition, DeleteDefinition, ApplyType, RemoveApplied, Edit
  <2> QED  BY <2>1, Moving
<1>7. CASE Save \/ WriteFile \/ SaveFails \/ LoadProject \/ UNCHANGED vars
  <2>1. UNCHANGED navigation
    BY <1>7 DEF Save, WriteFile, SaveFails, LoadProject, Load, vars
  <2> QED  BY <2>1, Moving
<1> QED  BY <1>1, <1>2, <1>3, <1>4, <1>5, <1>6, <1>7 DEF Next

(* Back and Forward lead to where the user has been, in order, whatever the
   limit of the history (navigate_to, nav_back, nav_fwd of src/ui/app.cpp).    *)
THEOREM HistoryHolds == Spec => []HistoryIsTrail
<1>1. Init => HistoryInv
  <2> SUFFICES ASSUME Init PROVE HistoryInv  OBVIOUS
  <2>1. hist = << >> /\ pos = -1 /\ trail = << >> /\ turn = 0
    BY DEF Init, NavigationInit
  <2>2. hist \in Seq({}) /\ trail \in Seq({}) /\ Len(hist) = 0 /\ Len(trail) = 0  BY <2>1
  <2>3. Inside  BY <2>1, <2>2, HistoryAssumption DEF Inside
  <2> QED  BY <2>1, <2>2, <2>3 DEF HistoryInv, HistoryIsTrail
<1>2. HistoryInv => HistoryIsTrail  BY DEF HistoryInv
<1> QED  BY <1>1, <1>2, HistoryStep, PTL DEF Spec
-----------------------------------------------------------------------------
(* Only a save writes to the disk, and it writes one file in each step.        *)
LEMMA Writers == [Next]_vars => WriteFile \/ Crash \/ UNCHANGED disk
<1> SUFFICES ASSUME [Next]_vars, ~WriteFile, ~Crash PROVE UNCHANGED disk  OBVIOUS
<1>1. CASE OpenAny \/ RebaseTo \/ GoToDialog \/ FollowBookmark \/ NavBack \/ NavForward \/ UserClicks
  BY <1>1 DEF OpenAny, Open, RebaseTo, Rebase, GoToDialog, FollowBookmark, UserGoesTo,
              NavBack, NavForward, UserClicks
<1>2. CASE \/ Rename \/ Comment \/ Patch \/ ExtendDefinition \/ ShrinkDefinition
           \/ Bookmark \/ AddDefinition \/ SelectDefinition \/ DeleteDefinition
           \/ ApplyType \/ RemoveApplied
  BY <1>2 DEF Rename, Comment, Patch, ExtendDefinition, ShrinkDefinition, Bookmark,
              AddDefinition, SelectDefinition, DeleteDefinition, ApplyType, RemoveApplied, Edit
<1>3. CASE Save \/ SaveFails \/ LoadProject \/ Quit \/ UNCHANGED vars
  BY <1>3 DEF Save, BeginSave, SaveFails, LoadProject, Load, Quit, vars
<1> QED  BY <1>1, <1>2, <1>3 DEF Next

\* there is one project for each binary
Projects == disk = [p \in Path |-> disk[p]]

LEMMA ProjectsStep == Projects /\ [Next]_vars => Projects'
<1>1. Projects /\ WriteFile => Projects'  BY DEF WriteFile, Rewritten, Projects
<1>2. Projects /\ Crash => Projects'  BY DEF Crash, Torn, Rewritten, Projects
<1>3. Projects /\ UNCHANGED disk => Projects'  BY DEF Projects
<1> QED  BY <1>1, <1>2, <1>3, Writers

(* The files of a project that a step loses.                                   *)
Lost(p) == {f \in DOMAIN disk[p] : disk[p][f].of # None /\ disk'[p][f].of = None}

\* a project of which one file is written again has lost no other one
LEMMA OneWritten ==
    ASSUME Projects, NEW p \in Path, NEW cells, NEW of, disk' = Rewritten(path, cells, of)
    PROVE  Lost(p) \subseteq {Head(saving)}
<1> SUFFICES ASSUME NEW f \in DOMAIN disk[p], f # Head(saving) PROVE disk'[p][f] = disk[p][f]
  BY DEF Lost
<1>1. DOMAIN disk = Path  BY DEF Projects
<1>2. CASE path = p
  <2>1. disk'[p] = [g \in DOMAIN disk[p] \cup {Head(saving)} |->
                      IF g = Head(saving) THEN [cells |-> cells, of |-> of] ELSE disk[p][g]]
    BY <1>1, <1>2 DEF Rewritten
  <2> QED  BY <2>1
<1>3. CASE path # p  BY <1>1, <1>3 DEF Rewritten
<1> QED  BY <1>2, <1>3

LEMMA OneLost ==
    ASSUME Projects, [Next]_vars, NEW p \in Path
    PROVE  Cardinality(Lost(p)) <= 1
<1>1. \E h : Lost(p) \subseteq {h}
  <2>1. CASE WriteFile
    <3>1. disk' = Rewritten(path, Contents(Head(saving), img, db), Table(Head(saving)))
      BY <2>1 DEF WriteFile
    <3> QED  BY <3>1, OneWritten
  <2>2. CASE Crash
    <3>1. PICK k : disk' = Rewritten(path, SubSeq(Contents(Head(saving), img, db), 1, k), None)
      BY <2>2 DEF Crash, Torn
    <3> QED  BY <3>1, OneWritten
  <2>3. CASE UNCHANGED disk  BY <2>3 DEF Lost
  <2> QED  BY <2>1, <2>2, <2>3, Writers
<1>2. PICK h : Lost(p) \subseteq {h}  BY <1>1
<1>3. IsFiniteSet({h}) /\ Cardinality({h}) = 1  BY FS_Singleton
<1>4. IsFiniteSet(Lost(p)) /\ Cardinality(Lost(p)) <= Cardinality({h})  BY <1>2, <1>3, FS_Subset
<1>5. Cardinality(Lost(p)) \in Nat  BY <1>4, FS_CardinalityType
<1> QED  BY <1>3, <1>4, <1>5

(* A crash while a project is saved costs it one file at most, whatever is in
   the file that was being written (Database::save).                           *)
THEOREM CrashCostsOne == Spec => CrashTearsOne
<1>1. Init => Projects  BY DEF Init, Projects
<1>2. Projects /\ [Next]_vars =>
        [\A p \in Path : Cardinality({f \in DOMAIN disk[p] :
            disk[p][f].of # None /\ disk'[p][f].of = None}) <= 1]_vars
  BY OneLost DEF Lost
<1> QED  BY <1>1, <1>2, ProjectsStep, PTL DEF Spec, CrashTearsOne
-----------------------------------------------------------------------------
(* Definitions and the types applied: an id that was given is smaller than the
   next one, so what an address was applied is no definition of a later one.    *)
Tables == {"insns", "funcs", "xrefs", "to", "from", "names", "comments", "patches", "types",
           "defs", "nextId"}
\* of a database d and a history h of what was applied
IdsAreOld(d, h) ==
    /\ DOMAIN d = Tables /\ d.nextId \in Nat
    /\ \A i \in DOMAIN d.defs : i \in Nat /\ i < d.nextId /\ "as" \in DOMAIN d.defs[i]
    /\ \A a \in DOMAIN h : a \in DOMAIN d.types /\ d.types[a] \in Nat /\ d.types[a] < d.nextId
    /\ \A a \in DOMAIN h : d.types[a] \in DOMAIN d.defs => d.defs[d.types[a]].as = h[a]
Defined == db # None => IdsAreOld(db, applied)

\* what the analysis leaves has the definition of recover_structs alone
LEMMA FreshIds ==
    ASSUME NEW base
    PROVE  IdsAreOld(Analysed(base), << >>)
<1> DEFINE d == Analysed(base)
<1>1. DOMAIN d = Tables /\ d.nextId = 2 /\ DOMAIN d.defs = {1} /\ "as" \in DOMAIN d.defs[1]
  BY DEF Analysed, Tables
<1> HIDE DEF d
<1>2. \A i \in DOMAIN d.defs : i \in Nat /\ i < d.nextId /\ "as" \in DOMAIN d.defs[i]
  <2>1. ASSUME NEW i \in DOMAIN d.defs  PROVE i = 1  BY <1>1
  <2> QED  BY <2>1, <1>1
<1> DEFINE h == << >>
<1>3. DOMAIN h = {}  OBVIOUS
<1> HIDE DEF h
<1>4. d.nextId \in Nat  BY <1>1
<1>5. IdsAreOld(d, h)  BY <1>1, <1>2, <1>3, <1>4 DEF IdsAreOld
<1> QED  BY <1>5 DEF h, d

\* a table that is no table of types
LEMMA OtherTable ==
    ASSUME NEW d, NEW h, IdsAreOld(d, h), NEW e, DOMAIN e = Tables,
           e.types = d.types, e.defs = d.defs, e.nextId = d.nextId
    PROVE  IdsAreOld(e, h)
BY DEF IdsAreOld

LEMMA EditedTable ==
    ASSUME NEW d, NEW h, IdsAreOld(d, h), NEW t
    PROVE  /\ IdsAreOld([d EXCEPT !.names = t], h)
           /\ IdsAreOld([d EXCEPT !.comments = t], h)
           /\ IdsAreOld([d EXCEPT !.patches = t], h)
<1>1. "types" \in DOMAIN d /\ "defs" \in DOMAIN d /\ "nextId" \in DOMAIN d /\ DOMAIN d = Tables
  BY DEF IdsAreOld, Tables
<1>2. IdsAreOld([d EXCEPT !.names = t], h)
  <2> DEFINE e == [d EXCEPT !.names = t]
  <2>1. DOMAIN e = Tables /\ e.types = d.types /\ e.defs = d.defs /\ e.nextId = d.nextId  BY <1>1
  <2> QED  BY <2>1, OtherTable
<1>3. IdsAreOld([d EXCEPT !.comments = t], h)
  <2> DEFINE e == [d EXCEPT !.comments = t]
  <2>1. DOMAIN e = Tables /\ e.types = d.types /\ e.defs = d.defs /\ e.nextId = d.nextId  BY <1>1
  <2> QED  BY <2>1, OtherTable
<1>4. IdsAreOld([d EXCEPT !.patches = t], h)
  <2> DEFINE e == [d EXCEPT !.patches = t]
  <2>1. DOMAIN e = Tables /\ e.types = d.types /\ e.defs = d.defs /\ e.nextId = d.nextId  BY <1>1
  <2> QED  BY <2>1, OtherTable
<1> QED  BY <1>2, <1>3, <1>4

\* other definitions: every one that an id had keeps what it was made as
LEMMA OtherDefinitions ==
    ASSUME NEW d, NEW h, IdsAreOld(d, h), NEW defs, NEW next \in Nat, d.nextId <= next,
           \A i \in DOMAIN defs :
             /\ i \in Nat /\ i < next /\ "as" \in DOMAIN defs[i]
             /\ i < d.nextId => i \in DOMAIN d.defs /\ defs[i].as = d.defs[i].as,
           NEW e, DOMAIN e = Tables, e.types = d.types, e.defs = defs, e.nextId = next
    PROVE  IdsAreOld(e, h)
<1>1. \A a \in DOMAIN h : a \in DOMAIN d.types /\ d.types[a] \in Nat /\ d.types[a] < next
  BY DEF IdsAreOld
<1>2. ASSUME NEW a \in DOMAIN h, d.types[a] \in DOMAIN defs
      PROVE  defs[d.types[a]].as = h[a]
  BY <1>2 DEF IdsAreOld
<1> QED  BY <1>1, <1>2 DEF IdsAreOld

LEMMA RebasedIds ==
    ASSUME NEW d, NEW h, IdsAreOld(d, h), NEW delta
    PROVE  IdsAreOld(Rebased(d, delta), h)
<1> DEFINE e == Rebased(d, delta)
<1>1. DOMAIN d = Tables  BY DEF IdsAreOld
<1>2. DOMAIN e = Tables /\ e.types = d.types /\ e.defs = d.defs /\ e.nextId = d.nextId
  BY <1>1 DEF Rebased, Tables
<1> HIDE DEF e
<1>3. IdsAreOld(e, h)  BY <1>2, OtherTable
<1> QED  BY <1>3 DEF e

LEMMA AddIds ==
    ASSUME db # None, IdsAreOld(db, applied), NEW kind
    PROVE  IdsAreOld(NewDefinition(kind), applied)
<1> DEFINE e == NewDefinition(kind)
           r == Definition(kind)
<1>1. DOMAIN db = Tables /\ db.nextId \in Nat  BY DEF IdsAreOld
<1>2. DOMAIN e = Tables /\ e.types = db.types /\ e.defs = With(db.defs, db.nextId, r)
      /\ e.nextId = db.nextId + 1
  BY <1>1 DEF NewDefinition, Tables
<1>3. "as" \in DOMAIN r  BY DEF Definition
<1> HIDE DEF e, r
<1>4. ASSUME NEW i \in DOMAIN e.defs
      PROVE  /\ i \in Nat /\ i < e.nextId /\ "as" \in DOMAIN e.defs[i]
             /\ i < db.nextId => i \in DOMAIN db.defs /\ e.defs[i].as = db.defs[i].as
  <2>1. CASE i = db.nextId
    <3>1. e.defs[i] = r  BY <2>1, <1>2 DEF With
    <3> QED  BY <2>1, <3>1, <1>1, <1>2, <1>3
  <2>2. CASE i # db.nextId
    <3>1. i \in DOMAIN db.defs /\ e.defs[i] = db.defs[i]  BY <2>2, <1>2 DEF With
    <3>2. i \in Nat /\ i < db.nextId /\ "as" \in DOMAIN db.defs[i]  BY <3>1 DEF IdsAreOld
    <3> QED  BY <3>1, <3>2, <1>1, <1>2
  <2> QED  BY <2>1, <2>2
<1>5. e.nextId \in Nat /\ db.nextId <= e.nextId  BY <1>1, <1>2
<1>6. IdsAreOld(e, applied)  BY <1>2, <1>4, <1>5, OtherDefinitions
<1> QED  BY <1>6 DEF e

\* the fields or the members of a definition
LEMMA GrownIds ==
    ASSUME IdsAreOld(db, applied), NEW i \in DOMAIN db.defs, NEW t
    PROVE  /\ IdsAreOld([db EXCEPT !.defs[i].fields = t], applied)
           /\ IdsAreOld([db EXCEPT !.defs[i].members = t], applied)
<1>1. DOMAIN db = Tables /\ db.nextId \in Nat  BY DEF IdsAreOld
<1>2. \A k \in DOMAIN db.defs : k \in Nat /\ k < db.nextId /\ "as" \in DOMAIN db.defs[k]
  BY DEF IdsAreOld
<1>3. ASSUME NEW e, DOMAIN e = Tables, e.types = db.types, e.nextId = db.nextId,
             DOMAIN e.defs = DOMAIN db.defs,
             \A k \in DOMAIN db.defs : "as" \in DOMAIN e.defs[k] /\ e.defs[k].as = db.defs[k].as
      PROVE  IdsAreOld(e, applied)
  <2>1. \A k \in DOMAIN e.defs :
          /\ k \in Nat /\ k < e.nextId /\ "as" \in DOMAIN e.defs[k]
          /\ k < db.nextId => k \in DOMAIN db.defs /\ e.defs[k].as = db.defs[k].as
    BY <1>2, <1>3
  <2>2. e.nextId \in Nat /\ db.nextId <= e.nextId  BY <1>1, <1>3
  <2> QED  BY <2>1, <2>2, <1>3, OtherDefinitions
<1>4. IdsAreOld([db EXCEPT !.defs[i].fields = t], applied)
  <2> DEFINE e == [db EXCEPT !.defs[i].fields = t]
  <2>1. DOMAIN e = Tables /\ e.types = db.types /\ e.nextId = db.nextId
        /\ e.defs = [db.defs EXCEPT ![i].fields = t]
    BY <1>1 DEF Tables
  <2>2. DOMAIN e.defs = DOMAIN db.defs  BY <2>1
  <2>3. ASSUME NEW k \in DOMAIN db.defs
        PROVE  "as" \in DOMAIN e.defs[k] /\ e.defs[k].as = db.defs[k].as
    <3>1. "as" \in DOMAIN db.defs[k]  BY <1>2
    <3> HIDE DEF e
    <3>2. CASE k = i
      <4>1. e.defs[k] = [db.defs[k] EXCEPT !.fields = t]  BY <2>1, <3>2
      <4> QED  BY <4>1, <3>1
    <3>3. CASE k # i
      <4>1. e.defs[k] = db.defs[k]  BY <2>1, <3>3
      <4> QED  BY <4>1, <3>1
    <3> QED  BY <3>2, <3>3
  <2> HIDE DEF e
  <2>4. IdsAreOld(e, applied)  BY <2>1, <2>2, <2>3, <1>3
  <2> QED  BY <2>4 DEF e
<1>5. IdsAreOld([db EXCEPT !.defs[i].members = t], applied)
  <2> DEFINE e == [db EXCEPT !.defs[i].members = t]
  <2>1. DOMAIN e = Tables /\ e.types = db.types /\ e.nextId = db.nextId
        /\ e.defs = [db.defs EXCEPT ![i].members = t]
    BY <1>1 DEF Tables
  <2>2. DOMAIN e.defs = DOMAIN db.defs  BY <2>1
  <2>3. ASSUME NEW k \in DOMAIN db.defs
        PROVE  "as" \in DOMAIN e.defs[k] /\ e.defs[k].as = db.defs[k].as
    <3>1. "as" \in DOMAIN db.defs[k]  BY <1>2
    <3> HIDE DEF e
    <3>2. CASE k = i
      <4>1. e.defs[k] = [db.defs[k] EXCEPT !.members = t]  BY <2>1, <3>2
      <4> QED  BY <4>1, <3>1
    <3>3. CASE k # i
      <4>1. e.defs[k] = db.defs[k]  BY <2>1, <3>3
      <4> QED  BY <4>1, <3>1
    <3> QED  BY <3>2, <3>3
  <2> HIDE DEF e
  <2>4. IdsAreOld(e, applied)  BY <2>1, <2>2, <2>3, <1>3
  <2> QED  BY <2>4 DEF e
<1> QED  BY <1>4, <1>5

LEMMA DeletedIds ==
    ASSUME IdsAreOld(db, applied), DeleteDefinition
    PROVE  IdsAreOld(db', applied')
<1>1. DOMAIN db = Tables /\ db.nextId \in Nat  BY DEF IdsAreOld
<1>2. /\ DOMAIN db' = Tables /\ db'.types = db.types /\ db'.nextId = db.nextId
      /\ db'.defs = [i \in DOMAIN db.defs \ {selected} |-> db.defs[i]] /\ applied' = applied
  BY <1>1 DEF DeleteDefinition, Tables
<1>3. \A i \in DOMAIN db'.defs : i \in DOMAIN db.defs /\ db'.defs[i] = db.defs[i]  BY <1>2
<1>4. \A i \in DOMAIN db'.defs :
        /\ i \in Nat /\ i < db'.nextId /\ "as" \in DOMAIN db'.defs[i]
        /\ i < db.nextId => i \in DOMAIN db.defs /\ db'.defs[i].as = db.defs[i].as
  BY <1>2, <1>3 DEF IdsAreOld
<1>5. db'.nextId \in Nat /\ db.nextId <= db'.nextId  BY <1>1, <1>2
<1>6. IdsAreOld(db', applied)  BY <1>2, <1>4, <1>5, OtherDefinitions
<1> QED  BY <1>6, <1>2

LEMMA AppliedIds ==
    ASSUME IdsAreOld(db, applied), ApplyType
    PROVE  IdsAreOld(db', applied')
<1>1. DOMAIN db = Tables /\ db.nextId \in Nat  BY DEF IdsAreOld
<1>2. PICK id \in DOMAIN db.defs :
        /\ db' = [db EXCEPT !.types = With(@, cursor, id)]
        /\ applied' = With(applied, cursor, db.defs[id].as)
  BY DEF ApplyType
<1>3. /\ DOMAIN db' = Tables /\ db'.defs = db.defs /\ db'.nextId = db.nextId
      /\ db'.types = With(db.types, cursor, id)
  BY <1>1, <1>2 DEF Tables
<1>4. id \in Nat /\ id < db.nextId  BY DEF IdsAreOld
<1>5. ASSUME NEW a \in DOMAIN applied'
      PROVE  /\ a \in DOMAIN db'.types /\ db'.types[a] \in Nat /\ db'.types[a] < db'.nextId
             /\ db'.types[a] \in DOMAIN db'.defs => db'.defs[db'.types[a]].as = applied'[a]
  <2>1. CASE a = cursor
    <3>1. a \in DOMAIN db'.types /\ db'.types[a] = id /\ applied'[a] = db.defs[id].as
      BY <2>1, <1>2, <1>3 DEF With
    <3> QED  BY <3>1, <1>3, <1>4
  <2>2. CASE a # cursor
    <3>1. a \in DOMAIN applied /\ applied'[a] = applied[a]  BY <2>2, <1>2 DEF With
    <3>2. a \in DOMAIN db.types /\ db.types[a] \in Nat /\ db.types[a] < db.nextId
          /\ (db.types[a] \in DOMAIN db.defs => db.defs[db.types[a]].as = applied[a])
      BY <3>1 DEF IdsAreOld
    <3>3. a \in DOMAIN db'.types /\ db'.types[a] = db.types[a]  BY <2>2, <3>2, <1>3 DEF With
    <3> QED  BY <3>1, <3>2, <3>3, <1>3
  <2> QED  BY <2>1, <2>2
<1>6. \A i \in DOMAIN db'.defs : i \in Nat /\ i < db'.nextId /\ "as" \in DOMAIN db'.defs[i]
  BY <1>3 DEF IdsAreOld
<1> QED  BY <1>1, <1>3, <1>5, <1>6 DEF IdsAreOld

\* the types applied, when some are replaced and no longer counted
LEMMA FewerIds ==
    ASSUME NEW d, NEW h, IdsAreOld(d, h), NEW e, NEW g,
           DOMAIN e = Tables, e.defs = d.defs, e.nextId = d.nextId,
           \A a \in DOMAIN g : /\ a \in DOMAIN h /\ g[a] = h[a]
                               /\ a \in DOMAIN e.types /\ e.types[a] = d.types[a]
    PROVE  IdsAreOld(e, g)
<1>1. e.nextId \in Nat
      /\ \A i \in DOMAIN e.defs : i \in Nat /\ i < e.nextId /\ "as" \in DOMAIN e.defs[i]
  BY DEF IdsAreOld
<1>2. ASSUME NEW a \in DOMAIN g
      PROVE  /\ a \in DOMAIN e.types /\ e.types[a] \in Nat /\ e.types[a] < e.nextId
             /\ e.types[a] \in DOMAIN e.defs => e.defs[e.types[a]].as = g[a]
  <2>1. /\ a \in DOMAIN d.types /\ d.types[a] \in Nat /\ d.types[a] < d.nextId
        /\ d.types[a] \in DOMAIN d.defs => d.defs[d.types[a]].as = h[a]
    BY DEF IdsAreOld
  <2> QED  BY <2>1
<1> QED  BY <1>1, <1>2 DEF IdsAreOld

LEMMA RemovedIds ==
    ASSUME IdsAreOld(db, applied), RemoveApplied
    PROVE  IdsAreOld(db', applied')
<1>1. DOMAIN db = Tables  BY DEF IdsAreOld
<1>2. /\ DOMAIN db' = Tables /\ db'.defs = db.defs /\ db'.nextId = db.nextId
      /\ db'.types = [a \in DOMAIN db.types \ {cursor} |-> db.types[a]]
      /\ applied' = [a \in DOMAIN applied \ {cursor} |-> applied[a]]
  BY <1>1 DEF RemoveApplied, Tables
<1>3. \A a \in DOMAIN applied : a \in DOMAIN db.types  BY DEF IdsAreOld
<1>4. \A a \in DOMAIN applied' : /\ a \in DOMAIN applied /\ applied'[a] = applied[a]
                                 /\ a \in DOMAIN db'.types /\ db'.types[a] = db.types[a]
  BY <1>2, <1>3
<1> QED  BY <1>2, <1>4, FewerIds

LEMMA LoadedIds ==
    ASSUME IdsAreOld(db, applied), LoadProject
    PROVE  IdsAreOld(db', applied')
<1>1. DOMAIN db = Tables  BY DEF IdsAreOld
<1> DEFINE Loaded(names, comments, types) ==
              /\ db' = [db EXCEPT !.names = Over(@, names), !.comments = Over(@, comments),
                                  !.types = Over(@, types)]
              /\ applied' = [a \in DOMAIN applied \ DOMAIN types |-> applied[a]]
<1>0. \E names, comments, types : Loaded(names, comments, types)
  <2> DEFINE cells(f) == IF f \in DOMAIN disk[path] THEN disk[path][f].cells ELSE <<0, 0>>
  <2>1. PICK junk : Loaded(ReadTable(cells("names"), junk), ReadTable(cells("comments"), junk),
                           ReadApplied(cells("types"), junk))
    BY DEF LoadProject, Load
  <2> HIDE DEF Loaded, cells
  <2> QED  BY <2>1
<1>2. PICK names, comments, types : Loaded(names, comments, types)  BY <1>0
<1>3. /\ DOMAIN db' = Tables /\ db'.defs = db.defs /\ db'.nextId = db.nextId
      /\ db'.types = Over(db.types, types)
  BY <1>1, <1>2 DEF Tables
<1>4. \A a \in DOMAIN applied : a \in DOMAIN db.types  BY DEF IdsAreOld
<1>5. \A a \in DOMAIN applied' : /\ a \in DOMAIN applied /\ applied'[a] = applied[a]
                                 /\ a \in DOMAIN db'.types /\ db'.types[a] = db.types[a]
  BY <1>2, <1>3, <1>4 DEF Over
<1> QED  BY <1>3, <1>5, FewerIds

LEMMA DefinedStep == Defined /\ [Next]_vars => Defined'
<1> SUFFICES ASSUME Defined, [Next]_vars, db' # None PROVE IdsAreOld(db', applied')
  BY DEF Defined
<1>1. CASE OpenAny
  <2>1. PICK base : db' = Analysed(base) /\ applied' = << >>  BY <1>1 DEF OpenAny, Open
  <2> QED  BY <2>1, FreshIds
<1>2. CASE UNCHANGED <<db, applied>>  BY <1>2 DEF Defined
<1>3. CASE Crash \/ Quit
  BY <1>3 DEF Crash, Quit, CloseDesk
<1>4. CASE \/ GoToDialog \/ FollowBookmark \/ NavBack \/ NavForward \/ UserClicks \/ Bookmark
           \/ SelectDefinition \/ Save \/ WriteFile \/ SaveFails \/ UNCHANGED vars
  <2>1. UNCHANGED <<db, applied>>
    BY <1>4 DEF GoToDialog, FollowBookmark, UserGoesTo, NavBack, NavForward, UserClicks, Bookmark,
                SelectDefinition, Save, WriteFile, SaveFails, vars, desk
  <2> QED  BY <2>1, <1>2
<1>5. ASSUME Desk PROVE IdsAreOld(db, applied) /\ db # None
  BY <1>5 DEF Desk, Defined
<1>6. CASE Rename \/ Comment \/ Patch
  <2>0. Desk /\ IdsAreOld(db, applied)  BY <1>5, <1>6 DEF Rename, Comment, Patch
  <2>1. applied' = applied  BY <1>6 DEF Rename, Comment, Patch, Edit
  <2>2. \E t : \/ db' = [db EXCEPT !.names = t] \/ db' = [db EXCEPT !.comments = t]
               \/ db' = [db EXCEPT !.patches = t]
    <3>1. CASE Rename
      <4>1. PICK t : db' = [db EXCEPT !.names = With(@, cursor, t)]  BY <3>1 DEF Rename, Edit
      <4> QED  BY <4>1
    <3>2. CASE Comment
      <4>1. PICK t : db' = [db EXCEPT !.comments = With(@, cursor, t)]  BY <3>2 DEF Comment, Edit
      <4> QED  BY <4>1
    <3>3. CASE Patch
      <4>1. db' = [db EXCEPT !.patches = With(@, cursor, <<Nop>>)]  BY <3>3 DEF Patch, Edit
      <4> QED  BY <4>1
    <3> QED  BY <1>6, <3>1, <3>2, <3>3
  <2>3. PICK t : \/ db' = [db EXCEPT !.names = t] \/ db' = [db EXCEPT !.comments = t]
                 \/ db' = [db EXCEPT !.patches = t]
    BY <2>2
  <2>4. /\ IdsAreOld([db EXCEPT !.names = t], applied)
        /\ IdsAreOld([db EXCEPT !.comments = t], applied)
        /\ IdsAreOld([db EXCEPT !.patches = t], applied)
    BY <2>0, EditedTable
  <2> QED  BY <2>1, <2>3, <2>4
<1>7. CASE AddDefinition
  <2>1. PICK kind : db' = NewDefinition(kind)  BY <1>7 DEF AddDefinition
  <2>2. applied' = applied /\ Desk  BY <1>7 DEF AddDefinition
  <2> QED  BY <2>1, <2>2, <1>5, AddIds
<1>8. CASE ExtendDefinition \/ ShrinkDefinition
  <2>1. Desk /\ selected \in DOMAIN db.defs  BY <1>8 DEF ExtendDefinition, ShrinkDefinition
  <2>2. applied' = applied  BY <1>8 DEF ExtendDefinition, ShrinkDefinition, Edit
  <2>3. \E t : \/ db' = [db EXCEPT !.defs[selected].fields = t]
               \/ db' = [db EXCEPT !.defs[selected].members = t]
    <3>1. CASE ExtendDefinition
      <4>1. \/ db' = [db EXCEPT !.defs[selected].fields = Append(@, 0)]
            \/ db' = [db EXCEPT !.defs[selected].members = Append(@, 0)]
        BY <3>1 DEF ExtendDefinition, Edit
      <4> QED  BY <4>1
    <3>2. CASE ShrinkDefinition
      <4>1. \/ db' = [db EXCEPT !.defs[selected].fields = Tail(@)]
            \/ db' = [db EXCEPT !.defs[selected].members = Tail(@)]
        BY <3>2 DEF ShrinkDefinition, Edit
      <4> QED  BY <4>1
    <3> QED  BY <1>8, <3>1, <3>2
  <2>4. IdsAreOld(db, applied)  BY <2>1, <1>5
  <2>5. ASSUME NEW t PROVE /\ IdsAreOld([db EXCEPT !.defs[selected].fields = t], applied)
                           /\ IdsAreOld([db EXCEPT !.defs[selected].members = t], applied)
    BY <2>1, <2>4, GrownIds
  <2>6. PICK t : \/ db' = [db EXCEPT !.defs[selected].fields = t]
                 \/ db' = [db EXCEPT !.defs[selected].members = t]
    BY <2>3
  <2> QED  BY <2>2, <2>5, <2>6
<1>9. CASE DeleteDefinition \/ ApplyType \/ RemoveApplied \/ LoadProject
  <2>1. IdsAreOld(db, applied)  BY <1>9, <1>5 DEF DeleteDefinition, ApplyType, RemoveApplied, LoadProject
  <2> QED  BY <1>9, <2>1, DeletedIds, AppliedIds, RemovedIds, LoadedIds
<1>10. CASE RebaseTo
  <2>1. PICK delta : db' = Rebased(db, delta)  BY <1>10 DEF RebaseTo, Rebase
  <2>2. applied' = applied /\ IdsAreOld(db, applied)  BY <1>10, <1>5 DEF RebaseTo, Rebase
  <2> QED  BY <2>1, <2>2, RebasedIds
<1> QED  BY <1>1, <1>3, <1>4, <1>6, <1>7, <1>8, <1>9, <1>10 DEF Next

(* For any definitions made, extended, deleted and applied, in any order: an
   address that was given a type has this type or none, since an id is never
   given twice and rebase and load leave what they do not replace (TypeSystem,
   TypesPanel).                                                                *)
THEOREM TypesNeverChange == Spec => []NeverAnotherType
<1>1. Init => Defined  BY DEF Init, Closed, Defined
<1>2. Defined => NeverAnotherType  BY DEF Defined, IdsAreOld, NeverAnotherType
<1> QED  BY <1>1, <1>2, DefinedStep, PTL DEF Spec
-----------------------------------------------------------------------------
(* Addresses that wrap.  A number is a multiple of the address space and a rest
   in one way only.                                                            *)
LEMMA RestRange ==
    ASSUME NEW S \in Nat \ {0}, NEW x \in Int
    PROVE  x % S \in 0..(S - 1) /\ x \div S \in Int /\ x = S * (x \div S) + (x % S)
OBVIOUS

LEMMA OneRest ==
    ASSUME NEW S \in Nat \ {0}, NEW q \in Int, NEW r \in 0..(S - 1),
           NEW p \in Int, NEW t \in 0..(S - 1), S * q + r = S * p + t
    PROVE  r = t
OBVIOUS

LEMMA RestIs ==
    ASSUME NEW S \in Nat \ {0}, NEW q \in Int, NEW r \in 0..(S - 1)
    PROVE  (S * q + r) % S = r
<1> DEFINE x == S * q + r
<1>1. x \in Int  OBVIOUS
<1>2. x = S * (x \div S) + (x % S) /\ x \div S \in Int /\ x % S \in 0..(S - 1)
  BY <1>1, RestRange
<1>3. S * q + r = S * (x \div S) + (x % S)  BY <1>2
<1> HIDE DEF x
<1>4. r = x % S  BY <1>2, <1>3, OneRest
<1> QED  BY <1>4 DEF x

LEMMA MovedIn ==
    ASSUME NEW a \in Int, NEW delta \in Int
    PROVE  /\ Moved(a, delta) \in 0..(Space - 1)
           /\ \E q \in Int : a + delta = Space * q + Moved(a, delta)
<1>1. a + delta \in Int /\ Space \in Nat \ {0}  BY LayoutAssumption
<1> QED  BY <1>1, RestRange DEF Moved

\* what lies k behind an address lies k behind it after the move
LEMMA MovedBehind ==
    ASSUME NEW a \in Int, NEW delta \in Int, NEW k \in Int, Moved(a, delta) + k \in 0..(Space - 1)
    PROVE  Moved(a + k, delta) = Moved(a, delta) + k
<1>1. PICK q \in Int : a + delta = Space * q + Moved(a, delta)  BY MovedIn
<1>2. Moved(a, delta) \in Int /\ Space \in Nat \ {0}  BY MovedIn, LayoutAssumption
<1> DEFINE r == Moved(a, delta)
<1>3. (a + k) + delta = Space * q + (r + k)
  <2>1. (a + k) + delta = (a + delta) + k  OBVIOUS
  <2>2. (Space * q + r) + k = Space * q + (r + k)  BY <1>2
  <2> QED  BY <1>1, <2>1, <2>2
<1>4. (Space * q + (r + k)) % Space = r + k
  <2> HIDE DEF r
  <2>1. r + k \in 0..(Space - 1)  BY DEF r
  <2> QED  BY <2>1, <1>2, RestIs
<1> QED  BY <1>3, <1>4 DEF Moved

LEMMA MovedBack ==
    ASSUME NEW a \in 0..(Space - 1), NEW delta \in Int
    PROVE  Moved(Moved(a, delta), -delta) = a
<1>1. PICK q \in Int : a + delta = Space * q + Moved(a, delta)  BY MovedIn
<1>2. Moved(a, delta) \in Int /\ Space \in Nat \ {0}  BY MovedIn, LayoutAssumption
<1>3. Moved(a, delta) + (-delta) = Space * (-q) + a  BY <1>1, <1>2
<1>4. (Space * (-q) + a) % Space = a  BY <1>2, RestIs
<1> QED  BY <1>3, <1>4 DEF Moved

LEMMA SmallRest ==
    ASSUME NEW x \in 0..(Space - 1)
    PROVE  x % Space = x
<1>1. Space \in Nat \ {0} /\ x \in Int  BY LayoutAssumption
<1>2. Space * 0 + x = x  BY <1>1
<1>3. (Space * 0 + x) % Space = x  BY <1>1, RestIs
<1> QED  BY <1>2, <1>3

LEMMA SegmentSpan ==
    ASSUME NEW seg, NEW a \in Int, seg.va \in Nat, seg.size \in Nat, seg.va + seg.size < Space
    PROVE  InSegment(seg, a) <=> a >= seg.va /\ a < seg.va + seg.size
<1> DEFINE x == seg.va + seg.size
<1>1. x \in 0..(Space - 1)  BY LayoutAssumption
<1> HIDE DEF x
<1>2. x % Space = x  BY <1>1, SmallRest
<1> QED  BY <1>2 DEF x, InSegment

\* a segment and an address that move alike
LEMMA SegmentMoves ==
    ASSUME NEW seg, NEW new, NEW delta \in Int, NEW a \in 0..(Space - 1),
           seg.va \in 0..(Space - 1), seg.size \in Nat, new.va = Moved(seg.va, delta),
           new.size = seg.size, seg.va + seg.size < Space, new.va + new.size < Space
    PROVE  /\ InSegment(seg, a) <=> InSegment(new, Moved(a, delta))
           /\ InSegment(seg, a) => Moved(a, delta) - new.va = a - seg.va
<1> DEFINE b == Moved(a, delta)
<1>0. a \in Int /\ seg.va \in Int  OBVIOUS
<1>1. b \in 0..(Space - 1) /\ new.va \in 0..(Space - 1) /\ Space \in Nat \ {0}
  BY <1>0, MovedIn, LayoutAssumption
<1>2. Moved(b, -delta) = a /\ Moved(new.va, -delta) = seg.va /\ -delta \in Int  BY MovedBack
<1>3. InSegment(seg, a) <=> a >= seg.va /\ a < seg.va + seg.size
  BY SegmentSpan
<1>4. InSegment(new, b) <=> b >= new.va /\ b < new.va + new.size
  <2>1. b \in Int /\ new.va \in Nat /\ new.size \in Nat  BY <1>1
  <2> HIDE DEF b
  <2> QED  BY <2>1, SegmentSpan
<1>5. ASSUME InSegment(seg, a) PROVE InSegment(new, b) /\ b - new.va = a - seg.va
  <2> DEFINE k == a - seg.va
  <2>1. k \in Int /\ k >= 0 /\ k < seg.size /\ seg.va + k = a  BY <1>3, <1>5
  <2>2. Moved(seg.va, delta) + k \in 0..(Space - 1)  BY <2>1, <1>1
  <2> HIDE DEF k
  <2>3. Moved(seg.va + k, delta) = Moved(seg.va, delta) + k  BY <2>1, <2>2, MovedBehind
  <2>4. b = new.va + k  BY <2>1, <2>3
  <2> HIDE DEF b
  <2> QED  BY <2>1, <2>4, <1>1, <1>4 DEF k
<1>6. ASSUME InSegment(new, b) PROVE InSegment(seg, a)
  <2> DEFINE k == b - new.va
  <2>0. b >= new.va /\ b < new.va + new.size  BY <1>4, <1>6
  <2> HIDE DEF b
  <2>1. k \in Int /\ k >= 0 /\ k < seg.size /\ new.va + k = b  BY <2>0, <1>1
  <2> HIDE DEF k
  <2>2. Moved(new.va, -delta) + k \in 0..(Space - 1)  BY <2>1, <1>1, <1>2
  <2>3. new.va \in Int  BY <1>1
  <2>4. Moved(new.va + k, -delta) = Moved(new.va, -delta) + k  BY <2>1, <2>2, <2>3, <1>2, MovedBehind
  <2>5. a = seg.va + k  BY <2>1, <2>4, <1>2
  <2> QED  BY <2>1, <2>5, <1>3
<1> QED  BY <1>5, <1>6
-----------------------------------------------------------------------------
(* The image and its references.                                               *)
LEMMA MinIsIn ==
    ASSUME NEW S \in SUBSET Nat, S # {}
    PROVE  Min(S) \in S
<1> DEFINE R == {ss \in Nat \X Nat : ss[1] < ss[2]}
<1>1. IsWellFoundedOn(R, Nat)  BY NatLessThanWellFounded DEF OpToRel
<1>2. PICK x \in S : \A y \in S : ~(<<y, x>> \in R)
  <2> HIDE DEF R
  <2> QED  BY <1>1, WFMin
<1>3. \A y \in S : x =< y
  <2> SUFFICES ASSUME NEW y \in S PROVE x =< y  OBVIOUS
  <2>1. x \in Nat /\ y \in Nat /\ ~(<<y, x>> \in R)  BY <1>2
  <2> QED  BY <2>1
<1>4. \E z \in S : \A y \in S : z =< y  BY <1>3
<1> QED  BY <1>4 DEF Min

(* The references of a database are made from its instructions, the indexes
   are made of the references, and patches are single bytes of the image.      *)
Cited(d) ==
    /\ DOMAIN d = Tables
    /\ d.insns \subseteq 0..(Space - 1)
    /\ d.xrefs \in Seq([from : d.insns, to : Int]) /\ d.to = ByTo(d.xrefs)
    /\ \A a \in DOMAIN d.patches : a \in 0..(Space - 1) /\ d.patches[a] = <<Nop>>
Placed(i) ==
    /\ DOMAIN i = {"base", "entry", "segs"} /\ i.base \in Int /\ i.entry \in Int
    /\ i.segs \in Seq([va : 0..(Space - 1), size : Nat, off : Nat])

\* the first reference that the index has for an address is one of the list
LEMMA FirstIsListed ==
    ASSUME NEW S, NEW xrefs \in Seq(S), NEW a \in DOMAIN ByTo(xrefs)
    PROVE  \E i \in 1..Len(xrefs) : xrefs[i].to = a /\ ByTo(xrefs)[a] = xrefs[i]
<1> DEFINE at == {i \in 1..Len(xrefs) : xrefs[i].to = a}
<1>1. ByTo(xrefs)[a] = xrefs[Min(at)] /\ at # {}  BY DEF ByTo, IndexBy
<1>2. at \in SUBSET Nat  BY LenProperties
<1> HIDE DEF at
<1>3. Min(at) \in at  BY <1>1, <1>2, MinIsIn
<1> QED  BY <1>1, <1>3 DEF at

LEMMA CitedLands ==
    ASSUME NEW d, Cited(d), NEW a \in DOMAIN d.to
    PROVE  Landing(d, a) \in d.insns
<1>1. CASE a \in d.insns  BY <1>1 DEF Landing
<1>2. CASE a \notin d.insns
  <2>1. PICK i \in 1..Len(d.xrefs) : ByTo(d.xrefs)[a] = d.xrefs[i]
    BY FirstIsListed DEF Cited
  <2>2. d.xrefs[i] \in [from : d.insns, to : Int]  BY ElementOfSeq DEF Cited
  <2> QED  BY <1>2, <2>1, <2>2 DEF Landing, Cited
<1> QED  BY <1>1, <1>2

\* addresses and references moved
LEMMA MovedRefs ==
    ASSUME NEW S \in SUBSET Int, NEW xrefs \in Seq([from : S, to : Int]), NEW delta \in Int,
           NEW new, new = [i \in 1..Len(xrefs) |-> [from |-> Moved(xrefs[i].from, delta),
                                                    to |-> Moved(xrefs[i].to, delta)]]
    PROVE  new \in Seq([from : MoveAll(S, delta), to : Int])
<1>1. Len(xrefs) \in Nat  BY LenProperties
<1>2. ASSUME NEW i \in 1..Len(xrefs)
      PROVE  new[i] \in [from : MoveAll(S, delta), to : Int]
  <2>1. xrefs[i] \in [from : S, to : Int]  BY ElementOfSeq
  <2>2. xrefs[i].from \in S /\ xrefs[i].to \in Int  BY <2>1
  <2>3. Moved(xrefs[i].from, delta) \in MoveAll(S, delta)  BY <2>2 DEF MoveAll
  <2>4. Moved(xrefs[i].to, delta) \in 0..(Space - 1)  BY <2>2, MovedIn
  <2>5. Moved(xrefs[i].to, delta) \in Int  BY <2>4
  <2>6. new[i] = [from |-> Moved(xrefs[i].from, delta), to |-> Moved(xrefs[i].to, delta)]
    OBVIOUS
  <2> QED  BY <2>3, <2>5, <2>6
<1> DEFINE T == [from : MoveAll(S, delta), to : Int]
<1>3. new = [i \in 1..Len(xrefs) |-> new[i]]  OBVIOUS
<1> HIDE DEF T
<1>4. new \in [1..Len(xrefs) -> T]
  <2>1. \A i \in 1..Len(xrefs) : new[i] \in T  BY <1>2 DEF T
  <2> QED  BY <2>1, <1>3, Zenon
<1>5. new \in Seq(T)  BY <1>1, <1>3, <1>2, IsASeq DEF T
<1> QED  BY <1>5 DEF T

LEMMA MovedAll ==
    ASSUME NEW S \in SUBSET Int, NEW delta \in Int
    PROVE  MoveAll(S, delta) \subseteq 0..(Space - 1)
BY MovedIn DEF MoveAll

LEMMA MovedSegs ==
    ASSUME NEW segs \in Seq([va : Int, size : Nat, off : Nat]), NEW delta \in Int
    PROVE  [i \in 1..Len(segs) |-> [segs[i] EXCEPT !.va = Moved(@, delta)]]
             \in Seq([va : 0..(Space - 1), size : Nat, off : Nat])
<1>1. Len(segs) \in Nat  BY LenProperties
<1>2. ASSUME NEW i \in 1..Len(segs)
      PROVE  [segs[i] EXCEPT !.va = Moved(@, delta)] \in [va : 0..(Space - 1), size : Nat, off : Nat]
  <2>1. segs[i] \in [va : Int, size : Nat, off : Nat]  BY ElementOfSeq
  <2>2. segs[i].va \in Int  BY <2>1
  <2>3. Moved(segs[i].va, delta) \in 0..(Space - 1)  BY <2>2, MovedIn
  <2> QED  BY <2>1, <2>3
<1> DEFINE T == [va : 0..(Space - 1), size : Nat, off : Nat]
           e(i) == [segs[i] EXCEPT !.va = Moved(@, delta)]
           n == Len(segs)
<1> HIDE DEF T, e, n
<1>3. n \in Nat /\ \A i \in 1..n : e(i) \in T  BY <1>1, <1>2 DEF T, e, n
<1>4. [i \in 1..n |-> e(i)] \in Seq(T)  BY <1>3, IsASeq
<1> QED  BY <1>4 DEF T, e, n

LEMMA FreshImage ==
    ASSUME NEW base \in Int
    PROVE  /\ Cited(Analysed(base))
           /\ Placed([base |-> base, entry |-> Moved(Layout.entry, base), segs |-> Segments(base)])
<1>1. Cited(Analysed(base))
  <2> DEFINE d == Analysed(base)
  <2>1. /\ DOMAIN d = Tables /\ d.insns = MoveAll(Layout.insns, base) /\ d.xrefs = Refs(base)
        /\ d.to = ByTo(Refs(base)) /\ d.patches = << >>
    BY DEF Analysed, Tables
  <2>2. Layout.insns \in SUBSET Int /\ Layout.insns \subseteq Nat  BY LayoutAssumption
  <2>3. Layout.refs \in Seq([from : Layout.insns, to : Int])
    <3>1. [from : Layout.insns, to : Nat] \subseteq [from : Layout.insns, to : Int]  OBVIOUS
    <3>2. Layout.refs \in Seq([from : Layout.insns, to : Nat])  BY LayoutAssumption
    <3> DEFINE A == [from : Layout.insns, to : Nat]
               B == [from : Layout.insns, to : Int]
    <3> HIDE DEF A, B
    <3>3. A \subseteq B /\ Layout.refs \in Seq(A)  BY <3>1, <3>2 DEF A, B
    <3>4. Layout.refs \in Seq(B)  BY <3>3, SeqMonotonic
    <3> QED  BY <3>4 DEF B
  <2>4. Refs(base) \in Seq([from : MoveAll(Layout.insns, base), to : Int])
    BY <2>2, <2>3, MovedRefs DEF Refs
  <2>5. MoveAll(Layout.insns, base) \subseteq 0..(Space - 1)  BY <2>2, MovedAll
  <2>6. DOMAIN << >> = {}  OBVIOUS
  <2> HIDE DEF d
  <2>7. DOMAIN d.patches = {}  BY <2>1, <2>6
  <2>8. Cited(d)  BY <2>1, <2>4, <2>5, <2>7 DEF Cited
  <2> QED  BY <2>8 DEF d
<1>2. Placed([base |-> base, entry |-> Moved(Layout.entry, base), segs |-> Segments(base)])
  <2>1. Layout.segs \in Seq([va : Int, size : Nat, off : Nat])
    <3> DEFINE A == [va : Nat, size : Nat, off : Nat]
               B == [va : Int, size : Nat, off : Nat]
    <3>1. A \subseteq B  OBVIOUS
    <3>2. Layout.segs \in Seq(A)  BY LayoutAssumption
    <3> HIDE DEF A, B
    <3>3. Layout.segs \in Seq(B)  BY <3>1, <3>2, SeqMonotonic
    <3> QED  BY <3>3 DEF B
  <2>2. Segments(base) \in Seq([va : 0..(Space - 1), size : Nat, off : Nat])
    BY <2>1, MovedSegs DEF Segments
  <2>6. Layout.entry \in Int  BY LayoutAssumption
  <2>7. Moved(Layout.entry, base) \in 0..(Space - 1)  BY <2>6, MovedIn
  <2>8. Moved(Layout.entry, base) \in Int  BY <2>7
  <2> DEFINE i == [base |-> base, entry |-> Moved(Layout.entry, base), segs |-> Segments(base)]
  <2>9. DOMAIN i = {"base", "entry", "segs"} /\ i.base = base
        /\ i.entry = Moved(Layout.entry, base) /\ i.segs = Segments(base)
    OBVIOUS
  <2> HIDE DEF i
  <2>10. Placed(i)  BY <2>2, <2>8, <2>9 DEF Placed
  <2> QED  BY <2>10 DEF i
<1> QED  BY <1>1, <1>2

LEMMA RebasedImage ==
    ASSUME NEW d, NEW i, Cited(d), Placed(i), NEW delta \in Int, NEW base \in Int,
           NEW j, j = [base |-> base, entry |-> Moved(i.entry, delta),
                       segs |-> [k \in 1..Len(i.segs) |-> [i.segs[k] EXCEPT !.va = Moved(@, delta)]]]
    PROVE  Cited(Rebased(d, delta)) /\ Placed(j)
<1>1. Cited(Rebased(d, delta))
  <2> DEFINE e == Rebased(d, delta)
             refs == [k \in 1..Len(d.xrefs) |-> MoveRef(d.xrefs[k], delta)]
  <2>1. DOMAIN d = Tables  BY DEF Cited
  <2>2. /\ DOMAIN e = Tables /\ e.insns = MoveAll(d.insns, delta) /\ e.xrefs = refs
        /\ e.to = ByTo(refs) /\ e.patches = MoveKeys(d.patches, delta)
    BY <2>1 DEF Rebased, Tables, MovePatches
  <2>3. d.insns \in SUBSET Int /\ d.xrefs \in Seq([from : d.insns, to : Int])  BY DEF Cited
  <2>4. refs \in Seq([from : MoveAll(d.insns, delta), to : Int])
    BY <2>3, MovedRefs DEF MoveRef
  <2>5. MoveAll(d.insns, delta) \subseteq 0..(Space - 1)  BY <2>3, MovedAll
  <2> HIDE DEF e, refs
  <2>6. ASSUME NEW a \in DOMAIN e.patches PROVE a \in 0..(Space - 1) /\ e.patches[a] = <<Nop>>
    <3>1. PICK b \in DOMAIN d.patches : a = Moved(b, delta)  BY <2>2 DEF MoveKeys
    <3>2. b \in 0..(Space - 1) /\ d.patches[b] = <<Nop>> /\ b \in Int  BY DEF Cited
    <3>3. Moved(a, -delta) = b  BY <3>1, <3>2, MovedBack
    <3>4. e.patches[a] = d.patches[Moved(a, -delta)]  BY <2>2 DEF MoveKeys
    <3> QED  BY <3>1, <3>2, <3>3, <3>4, MovedIn
  <2>7. Cited(e)  BY <2>2, <2>4, <2>5, <2>6 DEF Cited
  <2> QED  BY <2>7 DEF e
<1>2. Placed(j)
  <2>1. i.segs \in Seq([va : Int, size : Nat, off : Nat])
    <3> DEFINE A == [va : 0..(Space - 1), size : Nat, off : Nat]
               B == [va : Int, size : Nat, off : Nat]
    <3>1. A \subseteq B  OBVIOUS
    <3>2. i.segs \in Seq(A)  BY DEF Placed
    <3> HIDE DEF A, B
    <3>3. i.segs \in Seq(B)  BY <3>1, <3>2, SeqMonotonic
    <3> QED  BY <3>3 DEF B
  <2>2. j.segs \in Seq([va : 0..(Space - 1), size : Nat, off : Nat])
    BY <2>1, MovedSegs
  <2>3. i.entry \in Int  BY DEF Placed
  <2>4. Moved(i.entry, delta) \in 0..(Space - 1)  BY <2>3, MovedIn
  <2>5. j.entry \in Int /\ j.base \in Int /\ DOMAIN j = {"base", "entry", "segs"}  BY <2>4
  <2> QED  BY <2>2, <2>5 DEF Placed
<1> QED  BY <1>1, <1>2

\* a database whose listing, references and patches are those of another one
LEMMA SameCited ==
    ASSUME NEW d, Cited(d), NEW e, DOMAIN e = Tables, e.insns = d.insns, e.xrefs = d.xrefs,
           e.to = d.to, e.patches = d.patches
    PROVE  Cited(e)
BY DEF Cited

(* While a file is open its image is placed, and project files hold numbers
   where a base and an entry are read.                                         *)
Image  == db # None => Cited(db) /\ Placed(img) /\ path \in Path
Metas  == \A p \in Path : "meta" \in DOMAIN disk[p] => disk[p]["meta"].cells \in Seq(Int)
Saving == saving # << >> => db # None
DeskInv == Image /\ Projects /\ Metas /\ Saving

\* of the project that is saved one file is written
LEMMA RewrittenMetas ==
    ASSUME DeskInv, NEW cells, NEW of, disk' = Rewritten(path, cells, of),
           Head(saving) = "meta" => cells \in Seq(Int)
    PROVE  Metas'
<1> SUFFICES ASSUME NEW p \in Path, "meta" \in DOMAIN disk'[p]
             PROVE  disk'[p]["meta"].cells \in Seq(Int)
  BY DEF Metas
<1>1. DOMAIN disk = Path  BY DEF DeskInv, Projects
<1>2. CASE path = p
  <2>1. disk'[p] = [g \in DOMAIN disk[p] \cup {Head(saving)} |->
                      IF g = Head(saving) THEN [cells |-> cells, of |-> of] ELSE disk[p][g]]
    BY <1>1, <1>2 DEF Rewritten
  <2>2. CASE Head(saving) = "meta"
    <3>1. disk'[p]["meta"] = [cells |-> cells, of |-> of]  BY <2>1, <2>2
    <3> QED  BY <3>1, <2>2
  <2>3. CASE Head(saving) # "meta"
    <3>1. "meta" \in DOMAIN disk[p] /\ disk'[p]["meta"] = disk[p]["meta"]  BY <2>1, <2>3
    <3> QED  BY <3>1 DEF DeskInv, Metas
  <2> QED  BY <2>2, <2>3
<1>3. CASE path # p
  <2>1. disk'[p] = disk[p]  BY <1>1, <1>3 DEF Rewritten
  <2> QED  BY <2>1 DEF DeskInv, Metas
<1> QED  BY <1>2, <1>3

LEMMA MetasStep == DeskInv /\ [Next]_vars => Metas'
<1> SUFFICES ASSUME DeskInv, [Next]_vars PROVE Metas'  OBVIOUS
<1>1. CASE WriteFile \/ Crash
  <2>1. db # None  BY <1>1 DEF WriteFile, Crash, DeskInv, Saving
  <2>2. Contents("meta", img, db) = <<img.base, img.entry>>  BY DEF Contents
  <2>3. img.base \in Int /\ img.entry \in Int  BY <2>1 DEF DeskInv, Image, Placed
  <2>4. Contents("meta", img, db) \in Seq(Int) /\ Len(Contents("meta", img, db)) = 2
    <3>1. ASSUME NEW b \in Int, NEW e \in Int PROVE <<b, e>> \in Seq(Int) /\ Len(<<b, e>>) = 2
      OBVIOUS
    <3>2. <<img.base, img.entry>> \in Seq(Int) /\ Len(<<img.base, img.entry>>) = 2
      BY <2>3, <3>1
    <3> QED  BY <2>2, <3>2
  <2>5. CASE WriteFile
    <3>1. disk' = Rewritten(path, Contents(Head(saving), img, db), Table(Head(saving)))
      BY <2>5 DEF WriteFile
    <3>2. Head(saving) = "meta" => Contents(Head(saving), img, db) \in Seq(Int)  BY <2>4
    <3> QED  BY <3>1, <3>2, RewrittenMetas
  <2>6. CASE Crash
    <3>1. PICK k \in 0..Len(Contents(Head(saving), img, db)) :
            disk' = Rewritten(path, SubSeq(Contents(Head(saving), img, db), 1, k), None)
      BY <2>6 DEF Crash, Torn
    <3>2. ASSUME Head(saving) = "meta"
          PROVE  SubSeq(Contents(Head(saving), img, db), 1, k) \in Seq(Int)
      <4> DEFINE s == Contents(Head(saving), img, db)
      <4>1. s \in Seq(Int) /\ Len(s) = 2 /\ k \in 0..Len(s)  BY <2>4, <3>2
      <4> HIDE DEF s
      <4>0. \A m \in 1..k : m \in 1..Len(s)  BY <4>1
      <4>2. \A m \in 1..k : s[m] \in Int  BY <4>0, <4>1, ElementOfSeq
      <4>3. SubSeq(s, 1, k) \in Seq(Int)  BY <4>1, <4>2, SubSeqProperties
      <4> QED  BY <4>3 DEF s
    <3> QED  BY <3>1, <3>2, RewrittenMetas
  <2> QED  BY <1>1, <2>5, <2>6
<1>2. CASE UNCHANGED disk  BY <1>2 DEF DeskInv, Metas
<1> QED  BY <1>1, <1>2, Writers

LEMMA PatchedCited ==
    ASSUME Cited(db), cursor \in db.insns, NEW e, e = [db EXCEPT !.patches = With(@, cursor, <<Nop>>)]
    PROVE  Cited(e)
<1>1. DOMAIN db = Tables  BY DEF Cited
<1>2. /\ DOMAIN e = Tables /\ e.insns = db.insns /\ e.xrefs = db.xrefs /\ e.to = db.to
      /\ e.patches = With(db.patches, cursor, <<Nop>>)
  BY <1>1 DEF Tables
<1>3. \A a \in DOMAIN e.patches : a \in 0..(Space - 1) /\ e.patches[a] = <<Nop>>
  BY <1>2 DEF Cited, With
<1> QED  BY <1>2, <1>3 DEF Cited

LEMMA EditedCited ==
    ASSUME Cited(db), Rename \/ Comment \/ Patch \/ AddDefinition \/ ExtendDefinition
                      \/ ShrinkDefinition \/ DeleteDefinition \/ ApplyType \/ RemoveApplied
    PROVE  Cited(db')
<1>1. DOMAIN db = Tables  BY DEF Cited
<1> DEFINE Same == /\ DOMAIN db' = Tables /\ db'.insns = db.insns /\ db'.xrefs = db.xrefs
                   /\ db'.to = db.to /\ db'.patches = db.patches
<1>2. CASE Rename
  <2>1. PICK t : db' = [db EXCEPT !.names = With(@, cursor, t)]  BY <1>2 DEF Rename, Edit
  <2>2. Same  BY <1>1, <2>1 DEF Tables
  <2> QED  BY <2>2, SameCited
<1>3. CASE Comment
  <2>1. PICK t : db' = [db EXCEPT !.comments = With(@, cursor, t)]  BY <1>3 DEF Comment, Edit
  <2>2. Same  BY <1>1, <2>1 DEF Tables
  <2> QED  BY <2>2, SameCited
<1>4. CASE Patch
  <2>1. db' = [db EXCEPT !.patches = With(@, cursor, <<Nop>>)] /\ cursor \in db.insns
    BY <1>4 DEF Patch, Edit
  <2> QED  BY <2>1, PatchedCited
<1>5. CASE AddDefinition
  <2>1. PICK kind : db' = NewDefinition(kind)  BY <1>5 DEF AddDefinition
  <2>2. Same  BY <1>1, <2>1 DEF Tables, NewDefinition
  <2> QED  BY <2>2, SameCited
<1>6. CASE ExtendDefinition
  <2>1. \/ db' = [db EXCEPT !.defs[selected].fields = Append(@, 0)]
        \/ db' = [db EXCEPT !.defs[selected].members = Append(@, 0)]
    BY <1>6 DEF ExtendDefinition, Edit
  <2>2. Same  BY <1>1, <2>1 DEF Tables
  <2> QED  BY <2>2, SameCited
<1>7. CASE ShrinkDefinition
  <2>1. \/ db' = [db EXCEPT !.defs[selected].fields = Tail(@)]
        \/ db' = [db EXCEPT !.defs[selected].members = Tail(@)]
    BY <1>7 DEF ShrinkDefinition, Edit
  <2>2. Same  BY <1>1, <2>1 DEF Tables
  <2> QED  BY <2>2, SameCited
<1>8. CASE DeleteDefinition
  <2>1. db' = [db EXCEPT !.defs = [i \in DOMAIN @ \ {selected} |-> @[i]]]
    BY <1>8 DEF DeleteDefinition
  <2>2. Same  BY <1>1, <2>1 DEF Tables
  <2> QED  BY <2>2, SameCited
<1>9. CASE ApplyType
  <2>1. PICK id : db' = [db EXCEPT !.types = With(@, cursor, id)]  BY <1>9 DEF ApplyType
  <2>2. Same  BY <1>1, <2>1 DEF Tables
  <2> QED  BY <2>2, SameCited
<1>10. CASE RemoveApplied
  <2>1. db' = [db EXCEPT !.types = [a \in DOMAIN @ \ {cursor} |-> @[a]]]
    BY <1>10 DEF RemoveApplied
  <2>2. Same  BY <1>1, <2>1 DEF Tables
  <2> QED  BY <2>2, SameCited
<1> QED  BY <1>2, <1>3, <1>4, <1>5, <1>6, <1>7, <1>8, <1>9, <1>10

LEMMA LoadedImage ==
    ASSUME DeskInv, LoadProject
    PROVE  Cited(db') /\ Placed(img')
<1>1. Cited(db) /\ Placed(img) /\ path \in Path  BY DEF LoadProject, Desk, DeskInv, Image
<1> DEFINE cells(f) == IF f \in DOMAIN disk[path] THEN disk[path][f].cells ELSE <<0, 0>>
<1>2. "meta" \in DOMAIN disk[path]  BY DEF LoadProject, Load
<1>3. cells("meta") = disk[path]["meta"].cells /\ cells("meta") \in Seq(Int)
  BY <1>1, <1>2 DEF DeskInv, Metas
<1>4. PICK junk : /\ junk.addr = 0
                  /\ img' = [img EXCEPT !.base = Cell(cells("meta"), 1, junk.addr),
                                        !.entry = Cell(cells("meta"), 2, junk.addr)]
                  /\ db' = [db EXCEPT !.names = Over(@, ReadTable(cells("names"), junk)),
                                      !.comments = Over(@, ReadTable(cells("comments"), junk)),
                                      !.types = Over(@, ReadApplied(cells("types"), junk))]
  <2> HIDE DEF cells
  <2>1. \E junk \in {[count |-> n, addr |-> 0, text |-> [id |-> "zeros", len |-> 0]] : n \in JunkCounts} :
           /\ img' = [img EXCEPT !.base = Cell(cells("meta"), 1, junk.addr),
                                 !.entry = Cell(cells("meta"), 2, junk.addr)]
           /\ db' = [db EXCEPT !.names = Over(@, ReadTable(cells("names"), junk)),
                               !.comments = Over(@, ReadTable(cells("comments"), junk)),
                               !.types = Over(@, ReadApplied(cells("types"), junk))]
    BY DEF LoadProject, Load, cells
  <2> QED  BY <2>1
<1> DEFINE c == cells("meta")
<1>5. c \in Seq(Int)  BY <1>3
<1> HIDE DEF c
<1>6. Cell(c, 1, junk.addr) \in Int /\ Cell(c, 2, junk.addr) \in Int
  <2>1. ASSUME NEW k \in {1, 2} PROVE Cell(c, k, junk.addr) \in Int
    <3>1. k <= Len(c) => c[k] \in Int  BY <1>5, ElementOfSeq, LenProperties
    <3> QED  BY <3>1, <1>4 DEF Cell
  <2> QED  BY <2>1
<1>7. /\ img' = [img EXCEPT !.base = Cell(c, 1, junk.addr), !.entry = Cell(c, 2, junk.addr)]
      /\ \E n, m, t : db' = [db EXCEPT !.names = n, !.comments = m, !.types = t]
  BY <1>4 DEF c
<1>8. Placed(img')
  <2>1. /\ DOMAIN img' = {"base", "entry", "segs"} /\ img'.segs = img.segs
        /\ img'.base = Cell(c, 1, junk.addr) /\ img'.entry = Cell(c, 2, junk.addr)
    BY <1>1, <1>7 DEF Placed
  <2> QED  BY <2>1, <1>1, <1>6 DEF Placed
<1>9. Cited(db')
  <2>1. PICK n, m, t : db' = [db EXCEPT !.names = n, !.comments = m, !.types = t]  BY <1>7
  <2>2. DOMAIN db = Tables  BY <1>1 DEF Cited
  <2>3. /\ DOMAIN db' = Tables /\ db'.insns = db.insns /\ db'.xrefs = db.xrefs
        /\ db'.to = db.to /\ db'.patches = db.patches
    BY <2>1, <2>2 DEF Tables
  <2> QED  BY <2>3, <1>1, SameCited
<1> QED  BY <1>8, <1>9

LEMMA ImageStep == DeskInv /\ [Next]_vars => Image' /\ Saving'
<1> SUFFICES ASSUME DeskInv, [Next]_vars PROVE Image' /\ Saving'  OBVIOUS
<1>0. db # None => Cited(db) /\ Placed(img) /\ path \in Path  BY DEF DeskInv, Image
<1>1. CASE OpenAny
  <2>1. PICK p \in Path : Open(p)  BY <1>1 DEF OpenAny
  <2>2. /\ path' = p /\ db' = Analysed(Base[p]) /\ saving' = << >>
        /\ img' = [base |-> Base[p], entry |-> Moved(Layout.entry, Base[p]), segs |-> Segments(Base[p])]
    BY <2>1 DEF Open, Handler
  <2>3. Base[p] \in Int  BY LayoutAssumption
  <2> QED  BY <2>2, <2>3, FreshImage DEF Image, Saving
<1>2. CASE \/ GoToDialog \/ FollowBookmark \/ NavBack \/ NavForward \/ UserClicks \/ Bookmark
           \/ SelectDefinition \/ Save \/ WriteFile \/ SaveFails \/ UNCHANGED vars
  <2>1. UNCHANGED <<db, img, path>>
    BY <1>2 DEF GoToDialog, FollowBookmark, UserGoesTo, NavBack, NavForward, UserClicks, Bookmark,
                SelectDefinition, Save, WriteFile, SaveFails, vars, desk
  <2>2. saving' # << >> => saving # << >> \/ db # None
    BY <1>2 DEF GoToDialog, FollowBookmark, UserGoesTo, NavBack, NavForward, UserClicks, Bookmark,
                SelectDefinition, Save, WriteFile, SaveFails, Desk, vars
  <2> QED  BY <2>1, <2>2, <1>0 DEF Image, Saving, DeskInv
<1>3. CASE Crash \/ Quit
  <2>1. db' = None /\ saving' = << >>  BY <1>3 DEF Crash, Quit, CloseDesk
  <2> QED  BY <2>1 DEF Image, Saving
<1>4. CASE \/ Rename \/ Comment \/ Patch \/ AddDefinition \/ ExtendDefinition
           \/ ShrinkDefinition \/ DeleteDefinition \/ ApplyType \/ RemoveApplied
  <2>1. UNCHANGED <<img, path>> /\ saving' = << >> /\ db # None
    BY <1>4 DEF Rename, Comment, Patch, AddDefinition, ExtendDefinition, ShrinkDefinition,
                DeleteDefinition, ApplyType, RemoveApplied, Edit, Desk, Handler
  <2> QED  BY <1>4, <2>1, <1>0, EditedCited DEF Image, Saving
<1>5. CASE RebaseTo
  <2>1. PICK b \in NewBases : Rebase(b)  BY <1>5 DEF RebaseTo
  <2> DEFINE delta == b - img.base
  <2>2. /\ db # None /\ path' = path /\ saving' = << >>
        /\ db' = Rebased(db, delta)
        /\ img' = [base |-> b, entry |-> Moved(img.entry, delta),
                   segs |-> [i \in 1..Len(img.segs) |-> [img.segs[i] EXCEPT !.va = Moved(@, delta)]]]
    BY <2>1 DEF Rebase, Desk, Handler
  <2>3. b \in Int /\ delta \in Int  BY <2>2, <1>0, LayoutAssumption DEF Placed
  <2> HIDE DEF delta
  <2> QED  BY <2>2, <2>3, <1>0, RebasedImage DEF Image, Saving
<1>6. CASE LoadProject
  <2>1. path' = path /\ saving' = << >> /\ db # None  BY <1>6 DEF LoadProject, Load, Desk, Handler
  <2> QED  BY <1>6, <2>1, <1>0, LoadedImage DEF Image, Saving
<1> QED  BY <1>1, <1>2, <1>3, <1>4, <1>5, <1>6 DEF Next

LEMMA DeskHolds == Spec => []DeskInv
<1>1. Init => DeskInv
  BY DEF Init, Closed, DeskInv, Image, Projects, Metas, Saving
<1>2. DeskInv /\ [Next]_vars => DeskInv'
  BY ImageStep, MetasStep, ProjectsStep DEF DeskInv
<1> QED  BY <1>1, <1>2, PTL DEF Spec

(* For any image, at any base it is moved to: where the view goes for an
   address that code refers to is an instruction (navigate_to, rebase).        *)
THEOREM CodeIsShown == Spec => []LandsOnCode
<1>1. DeskInv => LandsOnCode  BY CitedLands DEF DeskInv, Image, LandsOnCode
<1> QED  BY <1>1, DeskHolds, PTL
-----------------------------------------------------------------------------
(* The patched file.  A byte of it is a patch when some patch lies at it, by the
   first segment that contains its address.                                    *)
Home(i, a)   == {k \in 1..Len(i.segs) : InSegment(i.segs[k], a)}
Offset(i, a) == i.segs[Min(Home(i, a))].off + a - i.segs[Min(Home(i, a))].va
PatchAt(i, d, n) == \E a \in DOMAIN d.patches : Home(i, a) # {} /\ n - Offset(i, a) \in 1..1

LEMMA ExportedIs ==
    ASSUME NEW i, NEW d, \A a \in DOMAIN d.patches : d.patches[a] = <<Nop>>
    PROVE  Exported(i, d) = [n \in 1..Len(FileBytes) |-> IF PatchAt(i, d, n) THEN Nop ELSE FileBytes[n]]
<1> DEFINE hit(n) == {a \in DOMAIN d.patches : Home(i, a) # {} /\ n - Offset(i, a) \in 1..Len(d.patches[a])}
           one(n) == CHOOSE a \in hit(n) : TRUE
<1>1. Exported(i, d) = [n \in 1..Len(FileBytes) |->
                          IF hit(n) = {} THEN FileBytes[n]
                          ELSE d.patches[one(n)][n - Offset(i, one(n))]]
  BY Zenon DEF Exported, Home, Offset
<1>2. ASSUME NEW n
      PROVE  /\ hit(n) # {} <=> PatchAt(i, d, n)
             /\ hit(n) # {} => d.patches[one(n)][n - Offset(i, one(n))] = Nop
  <2>1. Len(<<Nop>>) = 1 /\ <<Nop>>[1] = Nop  OBVIOUS
  <2>2. \A a \in DOMAIN d.patches : Len(d.patches[a]) = 1  BY <2>1
  <2>3. hit(n) # {} <=> PatchAt(i, d, n)  BY <2>2 DEF PatchAt
  <2>4. ASSUME hit(n) # {} PROVE d.patches[one(n)][n - Offset(i, one(n))] = Nop
    <3>1. one(n) \in hit(n)  BY <2>4
    <3> HIDE DEF one
    <3>2. one(n) \in DOMAIN d.patches /\ n - Offset(i, one(n)) \in 1..1  BY <3>1, <2>2
    <3>3. n - Offset(i, one(n)) = 1  BY <3>2
    <3> QED  BY <3>2, <3>3, <2>1
  <2> QED  BY <2>3, <2>4
<1> HIDE DEF hit, one
<1> QED  BY <1>1, <1>2

\* the segments that contain an address, and its place in the file, stay
LEMMA OffsetStays ==
    ASSUME NEW i, Placed(i), NEW delta \in Int, NEW j,
           j.segs = [k \in 1..Len(i.segs) |-> [i.segs[k] EXCEPT !.va = Moved(@, delta)]],
           Fits(i), Fits(j), NEW a \in 0..(Space - 1)
    PROVE  /\ Home(j, Moved(a, delta)) = Home(i, a)
           /\ Home(i, a) # {} => Offset(j, Moved(a, delta)) = Offset(i, a)
<1> DEFINE N == 1..Len(i.segs)
           b == Moved(a, delta)
<1>1. Len(i.segs) \in Nat /\ Len(j.segs) = Len(i.segs)  BY LenProperties DEF Placed
<1>2. ASSUME NEW k \in N
      PROVE  /\ j.segs[k].va = Moved(i.segs[k].va, delta) /\ j.segs[k].off = i.segs[k].off
             /\ j.segs[k].size = i.segs[k].size
             /\ i.segs[k].va \in 0..(Space - 1) /\ i.segs[k].size \in Nat /\ i.segs[k].off \in Nat
  <2>1. i.segs[k] \in [va : 0..(Space - 1), size : Nat, off : Nat]  BY ElementOfSeq DEF Placed
  <2>2. j.segs[k] = [i.segs[k] EXCEPT !.va = Moved(@, delta)]  OBVIOUS
  <2> QED  BY <2>1, <2>2
<1>3. ASSUME NEW k \in N
      PROVE  /\ InSegment(i.segs[k], a) <=> InSegment(j.segs[k], b)
             /\ InSegment(i.segs[k], a) => b - j.segs[k].va = a - i.segs[k].va
  <2>1. i.segs[k].va + i.segs[k].size < Space /\ j.segs[k].va + j.segs[k].size < Space
    BY <1>1 DEF Fits
  <2> DEFINE seg == i.segs[k]
             new == j.segs[k]
  <2>2. /\ seg.va \in 0..(Space - 1) /\ seg.size \in Nat /\ new.va = Moved(seg.va, delta)
        /\ new.size = seg.size /\ seg.va + seg.size < Space /\ new.va + new.size < Space
    BY <2>1, <1>2
  <2> HIDE DEF seg, new
  <2>3. /\ InSegment(seg, a) <=> InSegment(new, Moved(a, delta))
        /\ InSegment(seg, a) => Moved(a, delta) - new.va = a - seg.va
    BY <2>2, SegmentMoves
  <2> QED  BY <2>3 DEF seg, new
<1> HIDE DEF b
<1>4. Home(j, b) = Home(i, a)  BY <1>1, <1>3 DEF Home
<1>5. ASSUME Home(i, a) # {} PROVE Offset(j, b) = Offset(i, a)
  <2> DEFINE m == Min(Home(i, a))
  <2>1. Home(i, a) \in SUBSET Nat  BY <1>1 DEF Home
  <2>2. m \in Home(i, a)  BY <2>1, <1>5, MinIsIn
  <2> HIDE DEF m
  <2>3. m \in N /\ InSegment(i.segs[m], a)  BY <2>2 DEF Home
  <2>4. b - j.segs[m].va = a - i.segs[m].va /\ j.segs[m].off = i.segs[m].off  BY <2>3, <1>2, <1>3
  <2>5. b \in Int /\ j.segs[m].va \in Int /\ i.segs[m].va \in Int /\ i.segs[m].off \in Int
    <3>1. b \in 0..(Space - 1)  BY MovedIn DEF b
    <3>0. i.segs[m].va \in 0..(Space - 1) /\ i.segs[m].off \in Nat  BY <2>3, <1>2, Zenon
    <3>2. i.segs[m].va \in Int /\ i.segs[m].off \in Int  BY <3>0
    <3>3. j.segs[m].va \in 0..(Space - 1)  BY <3>2, <2>3, <1>2, MovedIn
    <3> QED  BY <3>1, <3>2, <3>3
  <2>6. Offset(j, b) = j.segs[m].off + b - j.segs[m].va
    <3>1. Min(Home(j, b)) = m  BY <1>4 DEF m
    <3> QED  BY <3>1 DEF Offset
  <2>7. Offset(i, a) = i.segs[m].off + a - i.segs[m].va  BY DEF Offset, m
  <2> QED  BY <2>4, <2>5, <2>6, <2>7
<1> QED  BY <1>4, <1>5 DEF b

LEMMA ExportStays ==
    ASSUME DeskInv, NEW base \in NewBases, db # None, Rebase(base), Fits(img), Fits(img')
    PROVE  Exported(img', db') = Exported(img, db)
<1> DEFINE delta == base - img.base
<1>1. Cited(db) /\ Placed(img)  BY DEF DeskInv, Image
<1>2. /\ db' = Rebased(db, delta)
      /\ img' = [base |-> base, entry |-> Moved(img.entry, delta),
                 segs |-> [i \in 1..Len(img.segs) |-> [img.segs[i] EXCEPT !.va = Moved(@, delta)]]]
  BY DEF Rebase
<1>3. delta \in Int /\ base \in Int  BY <1>1, LayoutAssumption DEF Placed
<1> HIDE DEF delta
<1>4. Cited(db')  BY <1>1, <1>2, <1>3, RebasedImage
<1>5. db'.patches = MoveKeys(db.patches, delta)
  <2>1. "patches" \in DOMAIN db  BY <1>1 DEF Cited, Tables
  <2> QED  BY <1>2, <2>1 DEF Rebased, MovePatches
<1>6. ASSUME NEW a \in DOMAIN db.patches
      PROVE  /\ a \in 0..(Space - 1) /\ Moved(a, delta) \in DOMAIN db'.patches
             /\ Home(img', Moved(a, delta)) = Home(img, a)
             /\ Home(img, a) # {} => Offset(img', Moved(a, delta)) = Offset(img, a)
  <2>1. a \in 0..(Space - 1)  BY <1>1 DEF Cited
  <2>2. Moved(a, delta) \in DOMAIN db'.patches  BY <1>5 DEF MoveKeys
  <2>3. img'.segs = [k \in 1..Len(img.segs) |-> [img.segs[k] EXCEPT !.va = Moved(@, delta)]]
    BY <1>2
  <2> QED  BY <2>1, <2>2, <2>3, <1>1, <1>3, OffsetStays
<1>7. ASSUME NEW n PROVE PatchAt(img', db', n) <=> PatchAt(img, db, n)
  <2>1. ASSUME PatchAt(img, db, n) PROVE PatchAt(img', db', n)
    <3>1. PICK a \in DOMAIN db.patches : Home(img, a) # {} /\ n - Offset(img, a) \in 1..1
      BY <2>1 DEF PatchAt
    <3>2. /\ Moved(a, delta) \in DOMAIN db'.patches /\ Home(img', Moved(a, delta)) # {}
          /\ n - Offset(img', Moved(a, delta)) \in 1..1
      BY <3>1, <1>6
    <3> QED  BY <3>2, Zenon DEF PatchAt
  <2>2. ASSUME PatchAt(img', db', n) PROVE PatchAt(img, db, n)
    <3>1. PICK b \in DOMAIN db'.patches : Home(img', b) # {} /\ n - Offset(img', b) \in 1..1
      BY <2>2, Zenon DEF PatchAt
    <3>2. PICK a \in DOMAIN db.patches : b = Moved(a, delta)  BY <1>5 DEF MoveKeys
    <3>3. Home(img, a) # {} /\ n - Offset(img, a) \in 1..1  BY <3>1, <3>2, <1>6
    <3> QED  BY <3>3 DEF PatchAt
  <2> QED  BY <2>1, <2>2
<1>8. \A a \in DOMAIN db.patches : db.patches[a] = <<Nop>>  BY <1>1 DEF Cited
<1>9. \A a \in DOMAIN db'.patches : db'.patches[a] = <<Nop>>  BY <1>4 DEF Cited
<1>10. Exported(img, db) =
         [n \in 1..Len(FileBytes) |-> IF PatchAt(img, db, n) THEN Nop ELSE FileBytes[n]]
  BY <1>8, ExportedIs
<1>11. Exported(img', db') =
         [n \in 1..Len(FileBytes) |-> IF PatchAt(img', db', n) THEN Nop ELSE FileBytes[n]]
  <2> DEFINE i == img'
             d == db'
  <2>1. \A a \in DOMAIN d.patches : d.patches[a] = <<Nop>>  BY <1>9
  <2> HIDE DEF i, d
  <2>2. Exported(i, d) = [n \in 1..Len(FileBytes) |-> IF PatchAt(i, d, n) THEN Nop ELSE FileBytes[n]]
    BY <2>1, ExportedIs
  <2> QED  BY <2>2 DEF i, d
<1> QED  BY <1>7, <1>10, <1>11

(* For any image, patches and bases: moving the image changes nothing of the
   patched file, unless a segment ends at the end of the address space before
   or after (rebase, export_patched).                                          *)
THEOREM ExportIsUnmoved == Spec => ExportUnmoved
<1>1. DeskInv /\ [Next]_vars =>
        [(\E b \in NewBases : db # None /\ Rebase(b)) /\ Fits(img) /\ Fits(img') =>
            Exported(img', db') = Exported(img, db)]_vars
  BY ExportStays
<1> QED  BY <1>1, DeskHolds, PTL DEF Spec, ExportUnmoved
-----------------------------------------------------------------------------
(* Functions defined by recursion over 0..n.  Such a function exists, and what
   each step keeps holds of all its values.                                    *)
LEMMA SetInduction ==
  ASSUME NEW S, 0 \in S, \A n \in Nat : n \in S => n + 1 \in S
  PROVE  Nat \subseteq S
<1> DEFINE R == {ss \in Nat \X Nat : ss[1] < ss[2]}
<1> SUFFICES ASSUME Nat \ S # {} PROVE FALSE
  OBVIOUS
<1>1. IsWellFoundedOn(R, Nat)
  BY NatLessThanWellFounded DEF OpToRel
<1>2. \E x \in Nat \ S : \A y \in Nat \ S : ~ (<<y, x>> \in R)
  <2>1. Nat \ S \subseteq Nat
    OBVIOUS
  <2> HIDE DEF R
  <2> QED  BY <1>1, <2>1, WFMin
<1>3. PICK x \in Nat \ S : \A y \in Nat \ S : ~ (<<y, x>> \in R)
  BY <1>2
<1>4. x # 0 /\ x - 1 \in Nat
  OBVIOUS
<1>5. <<x - 1, x>> \in R
  BY <1>4
<1>6. x - 1 \in S
  BY <1>3, <1>4, <1>5
<1> QED  BY <1>4, <1>6

LEMMA StepsKeep ==
  ASSUME NEW n \in Nat, NEW st, NEW X, st[0] \in X,
         \A m \in 1..n : st[m - 1] \in X => st[m] \in X
  PROVE  \A m \in 0..n : st[m] \in X
<1> DEFINE S == {m \in Nat : m <= n => st[m] \in X}
<1>1. 0 \in S
  OBVIOUS
<1>2. ASSUME NEW m \in Nat, m \in S PROVE m + 1 \in S
  <2> SUFFICES ASSUME m + 1 <= n PROVE st[m + 1] \in X
    OBVIOUS
  <2>1. m <= n /\ m + 1 \in 1..n /\ (m + 1) - 1 = m
    OBVIOUS
  <2> QED  BY <1>2, <2>1
<1> HIDE DEF S
<1>3. Nat \subseteq S
  BY <1>1, <1>2, SetInduction
<1> QED  BY <1>3 DEF S

\* the function whose n-th value is F[n] of the one before
IsSteps(g, n, x0, F) == g = [m \in 0..n |-> IF m = 0 THEN x0 ELSE F[m][g[m - 1]]]

LEMMA StepsExist ==
  ASSUME NEW x0, NEW F
  PROVE  \A n \in Nat : \E g : IsSteps(g, n, x0, F)
<1> DEFINE S == {n \in Nat : \E g : IsSteps(g, n, x0, F)}
<1>1. 0 \in S
  <2> DEFINE g == [m \in 0..0 |-> x0]
  <2>1. IsSteps(g, 0, x0, F)
    BY DEF IsSteps
  <2> QED  BY <2>1
<1>2. ASSUME NEW n \in Nat, n \in S PROVE n + 1 \in S
  <2>1. PICK f : IsSteps(f, n, x0, F)
    BY <1>2
  <2> DEFINE g == [m \in 0..(n + 1) |-> IF m = n + 1 THEN F[m][f[n]] ELSE f[m]]
  <2>2. g = [m \in 0..(n + 1) |-> IF m = 0 THEN x0 ELSE F[m][g[m - 1]]]
    <3> SUFFICES ASSUME NEW m \in 0..(n + 1) PROVE g[m] = IF m = 0 THEN x0 ELSE F[m][g[m - 1]]
      OBVIOUS
    <3>1. CASE m = n + 1
      <4>1. g[m - 1] = f[n] /\ g[m] = F[m][f[n]] /\ m # 0
        BY <3>1
      <4> QED  BY <4>1
    <3>2. CASE m # n + 1 /\ m # 0
      <4>1. m \in 0..n /\ m - 1 \in 0..(n + 1) /\ m - 1 # n + 1
        BY <3>2
      <4>2. g[m] = f[m] /\ g[m - 1] = f[m - 1]
        BY <3>2, <4>1
      <4>3. f[m] = F[m][f[m - 1]]
        BY <2>1, <3>2, <4>1 DEF IsSteps
      <4> QED  BY <3>2, <4>2, <4>3
    <3>3. CASE m = 0
      <4>1. g[m] = f[0] /\ f[0] = x0
        BY <2>1, <3>3 DEF IsSteps
      <4> QED  BY <3>3, <4>1
    <3> QED  BY <3>1, <3>2, <3>3
  <2> HIDE DEF g
  <2>3. IsSteps(g, n + 1, x0, F)
    BY <2>2 DEF IsSteps
  <2> QED  BY <2>3
<1> HIDE DEF S
<1>3. Nat \subseteq S
  BY <1>1, <1>2, SetInduction
<1> QED  BY <1>3 DEF S

\* the values stay in X, where F is the step
LEMMA StepsIn ==
  ASSUME NEW n \in Nat, NEW X, NEW x0 \in X, NEW F,
         \A m \in 1..n : \A x \in X : F[m][x] \in X
  PROVE  \E g \in [0..n -> X] : IsSteps(g, n, x0, F)
<1>1. PICK g : IsSteps(g, n, x0, F)
  BY StepsExist
<1>2. g[0] = x0 /\ \A m \in 1..n : g[m] = F[m][g[m - 1]]
  BY <1>1 DEF IsSteps
<1>3. \A m \in 0..n : g[m] \in X
  BY <1>2, StepsKeep
<1>4. g = [m \in 0..n |-> g[m]]
  BY <1>1 DEF IsSteps
<1> QED  BY <1>1, <1>3, <1>4

LEMMA StepsKeepEach ==
  ASSUME NEW n \in Nat, NEW st, NEW X, st[0] \in X[0],
         \A m \in 1..n : st[m - 1] \in X[m - 1] => st[m] \in X[m]
  PROVE  \A m \in 0..n : st[m] \in X[m]
<1> DEFINE S == {m \in Nat : m <= n => st[m] \in X[m]}
<1>1. 0 \in S
  OBVIOUS
<1>2. ASSUME NEW m \in Nat, m \in S PROVE m + 1 \in S
  <2> SUFFICES ASSUME m + 1 <= n PROVE st[m + 1] \in X[m + 1]
    OBVIOUS
  <2>1. m <= n /\ m + 1 \in 1..n /\ (m + 1) - 1 = m
    OBVIOUS
  <2> QED  BY <1>2, <2>1
<1> HIDE DEF S
<1>3. Nat \subseteq S
  BY <1>1, <1>2, SetInduction
<1> QED  BY <1>3 DEF S

(* What is written one after the other can be found again: each of the sequences *)
(* begins where those before it end.                                        *)
Laid(n, e, flat, at) ==
    /\ at \in [0..n -> Nat] /\ at[0] = 0 /\ at[n] = Len(flat)
    /\ \A i \in 1..n : at[i] = at[i - 1] + Len(e[i]) /\ at[i] <= at[n]
    /\ \A i \in 1..n : \A j \in 1..Len(e[i]) : flat[at[i - 1] + j] = e[i][j]

Join(V, s, t, r) ==
    /\ r \in Seq(V) /\ Len(r) = Len(s) + Len(t)
    /\ \A k \in 1..Len(s) : r[k] = s[k]
    /\ \A k \in 1..Len(t) : r[Len(s) + k] = t[k]

LEMMA Joined ==
  ASSUME NEW V, NEW s \in Seq(V), NEW t \in Seq(V)
  PROVE  Join(V, s, t, s \o t)
BY DEF Join

LEMMA FlatIs ==
  ASSUME NEW n \in Nat, NEW V, NEW e \in [1..n -> Seq(V)]
  PROVE  FlattenSeq(e) \in Seq(V) /\ \E at : Laid(n, e, FlattenSeq(e), at)
<1>1. CASE n = 0
  <2>1. Len(e) = 0 /\ e \in Seq(V)
    BY <1>1
  <2>2. FlattenSeq(e) = e
    BY <2>1 DEF FlattenSeq
  <2> DEFINE at == [k \in 0..n |-> 0]
  <2>3. at \in [0..n -> Nat] /\ at[0] = 0 /\ at[n] = 0 /\ 1..n = {}
    BY <1>1
  <2> HIDE DEF at
  <2>4. Laid(n, e, FlattenSeq(e), at)
    BY <2>1, <2>2, <2>3 DEF Laid
  <2> QED  BY <2>1, <2>2, <2>4
<1>2. CASE n # 0
  <2> DEFINE Is(g) == g = [i \in 1..Len(e) |-> IF i = 1 THEN e[i] ELSE g[i - 1] \o e[i]]
             flat == CHOOSE g : Is(g)
  <2>0. Len(e) = n /\ Len(e) # 0
    BY <1>2
  <2>1. FlattenSeq(e) = flat[n]
    <3>1. FlattenSeq(e) = flat[Len(e)]
      BY <2>0 DEF FlattenSeq
    <3> QED  BY <2>0, <3>1
  <2>2. \E g : Is(g)
    <3> DEFINE F == [m \in 1..n |-> [s \in Seq(V) |-> s \o e[m]]]
    <3>1. \A m \in 1..n : \A s \in Seq(V) : F[m][s] \in Seq(V) /\ F[m][s] = s \o e[m]
      OBVIOUS
    <3>2. <<>> \in Seq(V)
      OBVIOUS
    <3> HIDE DEF F
    <3>3. PICK h \in [0..n -> Seq(V)] : IsSteps(h, n, <<>>, F)
      BY <3>1, <3>2, StepsIn
    <3> DEFINE g == [i \in 1..n |-> h[i]]
    <3>4. ASSUME NEW i \in 1..n PROVE g[i] = IF i = 1 THEN e[i] ELSE g[i - 1] \o e[i]
      <4>1. h[i] = F[i][h[i - 1]] /\ i - 1 \in 0..n /\ h[i - 1] \in Seq(V)
        BY <3>3 DEF IsSteps
      <4>2. h[i] = h[i - 1] \o e[i]
        BY <3>1, <4>1
      <4>3. CASE i = 1
        <5>1. h[i - 1] = <<>>
          BY <3>3, <4>3 DEF IsSteps
        <5>2. <<>> \o e[i] = e[i]
          OBVIOUS
        <5> QED  BY <4>2, <4>3, <5>1, <5>2
      <4>4. CASE i # 1
        <5>1. g[i] = h[i] /\ g[i - 1] = h[i - 1]
          BY <4>1, <4>4
        <5> QED  BY <4>2, <4>4, <5>1
      <4> QED  BY <4>3, <4>4
    <3>5. Is(g)
      <4> DEFINE r == [i \in 1..n |-> IF i = 1 THEN e[i] ELSE g[i - 1] \o e[i]]
      <4> HIDE DEF g
      <4>1. \A i \in 1..n : g[i] = r[i]
        BY <3>4
      <4>2. g = [i \in 1..n |-> g[i]]
        BY DEF g
      <4> HIDE DEF r
      <4>3. g = r
        BY <4>1, <4>2 DEF r
      <4> QED  BY <2>0, <4>3 DEF r
    <3> QED  BY <3>5
  <2>3. Is(flat)
    BY <2>2
  <2> HIDE DEF flat
  <2>4. \A i \in 1..n : flat[i] = IF i = 1 THEN e[i] ELSE flat[i - 1] \o e[i]
    BY <2>0, <2>3
  <2> DEFINE to == [i \in 0..n |-> IF i = 0 THEN <<>> ELSE flat[i]]
             at == [i \in 0..n |-> Len(to[i])]
  <2>5. to[0] = <<>> /\ to[n] = flat[n]
    BY <1>2
  <2>6. ASSUME NEW i \in 1..n, to[i - 1] \in Seq(V)
        PROVE  to[i] \in Seq(V) /\ to[i] = to[i - 1] \o e[i]
    <3>1. i \in 0..n /\ i - 1 \in 0..n /\ i # 0
      OBVIOUS
    <3>2. CASE i = 1
      <4>1. to[i - 1] = <<>> /\ to[i] = e[i]
        BY <2>4, <3>2
      <4> HIDE DEF to
      <4> QED  BY <4>1
    <3>3. CASE i # 1
      <4>0. i - 1 # 0
        BY <3>3
      <4>1. to[i] = flat[i]
        BY <3>1
      <4>2. to[i - 1] = flat[i - 1]
        BY <3>1, <4>0
      <4>3. flat[i] = flat[i - 1] \o e[i]
        BY <2>4, <3>3
      <4> HIDE DEF to
      <4> QED  BY <2>6, <4>1, <4>2, <4>3
    <3> QED  BY <3>2, <3>3
  <2> HIDE DEF to
  <2>7. \A i \in 0..n : to[i] \in Seq(V)
    <3>1. to[0] \in Seq(V)
      BY <2>5
    <3> QED  BY <2>6, <3>1, StepsKeep
  <2>8. \A i \in 1..n : to[i] = to[i - 1] \o e[i] /\ i - 1 \in 0..n /\ i \in 0..n
    BY <2>6, <2>7
  <2>9. at \in [0..n -> Nat] /\ at[0] = 0 /\ at[n] = Len(to[n]) /\ \A i \in 0..n : at[i] = Len(to[i])
    BY <2>5, <2>7
  <2> HIDE DEF at
  <2>10. \A i \in 1..n : at[i] = at[i - 1] + Len(e[i])
    <3> SUFFICES ASSUME NEW i \in 1..n PROVE at[i] = at[i - 1] + Len(e[i])
      OBVIOUS
    <3>1. to[i] = to[i - 1] \o e[i] /\ at[i] = Len(to[i]) /\ at[i - 1] = Len(to[i - 1])
          /\ to[i - 1] \in Seq(V) /\ e[i] \in Seq(V)
      BY <2>7, <2>8, <2>9
    <3> QED  BY <3>1
  <2> DEFINE X == [i \in 0..n |-> {s \in Seq(V) : \A k \in 1..i : /\ at[k] <= Len(s)
                                      /\ \A j \in 1..Len(e[k]) : s[at[k - 1] + j] = e[k][j]}]
  <2>11. to[0] \in X[0]
    <3>1. 1..0 = {} /\ 0 \in 0..n /\ to[0] \in Seq(V)
      BY <2>7
    <3> QED  BY <3>1
  <2>12. ASSUME NEW i \in 1..n, to[i - 1] \in X[i - 1] PROVE to[i] \in X[i]
    <3> DEFINE s == to[i - 1]
               t == to[i]
    <3>1. s \in Seq(V) /\ t \in Seq(V) /\ e[i] \in Seq(V) /\ t = s \o e[i] /\ i - 1 \in 0..n
          /\ Len(s) = at[i - 1] /\ Len(t) = at[i] /\ i \in 0..n
      BY <2>7, <2>8, <2>9
    <3>2. \A k \in 1..(i - 1) : /\ at[k] <= Len(s)
             /\ \A j \in 1..Len(e[k]) : s[at[k - 1] + j] = e[k][j]
      BY <2>12, <3>1
    <3> HIDE DEF s, t, X
    <3>3. ASSUME NEW k \in 1..i
          PROVE  at[k] <= Len(t) /\ \A j \in 1..Len(e[k]) : t[at[k - 1] + j] = e[k][j]
      <4>1. CASE k = i
        <5>1. at[k] <= Len(t)
          BY <3>1, <4>1
        <5>2. Join(V, s, e[i], t)
          BY <3>1, Joined
        <5>3. \A j \in 1..Len(e[i]) : t[at[i - 1] + j] = e[i][j]
          BY <3>1, <5>2 DEF Join
        <5> QED  BY <4>1, <5>1, <5>3
      <4>2. CASE k # i
        <5>1. k \in 1..(i - 1) /\ k \in 1..n /\ k \in 0..n /\ k - 1 \in 0..n
          BY <3>1, <4>2
        <5>2. at[k] <= Len(s) /\ at[k] = at[k - 1] + Len(e[k]) /\ at[k] \in Nat /\ at[k - 1] \in Nat
              /\ e[k] \in Seq(V)
          BY <2>9, <2>10, <3>2, <5>1
        <5>20. Len(t) = Len(s) + Len(e[i]) /\ Len(s) \in Nat /\ Len(e[i]) \in Nat
          BY <3>1
        <5>3. at[k] <= Len(t)
          BY <5>2, <5>20
        <5>4. ASSUME NEW j \in 1..Len(e[k]) PROVE t[at[k - 1] + j] = e[k][j]
          <6>0. /\ j \in Nat /\ 1 <= j /\ j <= Len(e[k]) /\ Len(e[k]) \in Nat /\ Len(s) \in Nat
                /\ at[k - 1] \in Nat /\ at[k - 1] + Len(e[k]) <= Len(s)
            <7>1. Len(e[k]) \in Nat
              BY <5>2
            <7> QED  BY <5>2, <5>20, <7>1
          <6>1. at[k - 1] + j \in 1..Len(s)
            BY <6>0
          <6>2. t[at[k - 1] + j] = s[at[k - 1] + j]
            BY <3>1, <6>1
          <6> QED  BY <3>2, <5>1, <6>2
        <5> QED  BY <5>3, <5>4
      <4> QED  BY <4>1, <4>2
    <3> QED  BY <3>1, <3>3 DEF t, X
  <2>13. to[n] \in X[n]
    <3> HIDE DEF X
    <3>1. \A i \in 0..n : to[i] \in X[i]
      BY <2>11, <2>12, StepsKeepEach
    <3> QED  BY <3>1
  <2>14. /\ to[n] \in Seq(V)
         /\ \A k \in 1..n : /\ at[k] <= Len(to[n])
                            /\ \A j \in 1..Len(e[k]) : to[n][at[k - 1] + j] = e[k][j]
    BY <2>13
  <2>15. FlattenSeq(e) = to[n]
    BY <2>1, <2>5
  <2> HIDE DEF X
  <2>16. \A i \in 1..n : i \in 0..n /\ at[i] <= at[n]
    BY <2>9, <2>14
  <2>17. Laid(n, e, to[n], at)
    BY <2>9, <2>10, <2>14, <2>16 DEF Laid
  <2> QED  BY <2>14, <2>15, <2>17
<1> QED  BY <1>1, <1>2

(* The keys of a table are written each once.                               *)
LEMMA KeysAre ==
  ASSUME NEW t, IsFiniteSet(DOMAIN t)
  PROVE  LET n == Cardinality(DOMAIN t)
         IN /\ n \in Nat /\ Keys(t) \in [1..n -> DOMAIN t]
            /\ \A i, j \in 1..n : Keys(t)[i] = Keys(t)[j] => i = j
            /\ \A a \in DOMAIN t : \E i \in 1..n : Keys(t)[i] = a
<1> DEFINE n == Cardinality(DOMAIN t)
           T == DOMAIN t
           K == Keys(t)
<1>1. n \in Nat /\ ExistsBijection(1..n, T)
  BY FS_CardinalityType
<1>2. PICK f : f \in [1..n -> T] /\ IsInjective(f)
  <2>1. PICK f \in Bijection(1..n, T) : TRUE
    BY <1>1 DEF ExistsBijection
  <2> QED  BY <2>1 DEF Bijection, Injection, IsInjective
<1>3. K \in [1..n -> T] /\ IsInjective(K)
  BY <1>2 DEF Keys, SetToSeq
<1> HIDE DEF K
<1>4. K \in Injection(1..n, T)
  BY <1>3 DEF Injection
<1>5. Cardinality(1..n) = n
  BY <1>1, FS_Interval
<1>6. K \in Surjection(1..n, T)
  BY <1>4, <1>5, FS_Injection
<1>7. \A a \in T : \E i \in 1..n : K[i] = a
  BY <1>6 DEF Surjection
<1>8. \A i, j \in 1..n : K[i] = K[j] => i = j
  BY <1>3 DEF IsInjective
<1> QED  BY <1>1, <1>3, <1>7, <1>8 DEF K

-----------------------------------------------------------------------------
\* a table: a function of finitely many addresses
IsTable(t) == IsFiniteSet(DOMAIN t) /\ t = [a \in DOMAIN t |-> t[a]]
\* what has reached the disk of w when the program ended
Begins(c, w) == Len(c) \in 0..Len(w) /\ \A i \in 1..Len(c) : c[i] = w[i]

(* The cells of a table that was written: its size, then three for each key. *)
LEMMA TableIs ==
  ASSUME NEW t, IsFiniteSet(DOMAIN t), NEW n, n = Cardinality(DOMAIN t),
         NEW w, w = WriteTable(t)
  PROVE  /\ Len(w) = 1 + 3 * n /\ w[1] = n
         /\ \A i \in 1..n : /\ w[3 * i - 1] = Keys(t)[i] /\ w[3 * i + 1] = Written(t[Keys(t)[i]])
                            /\ w[3 * i] = t[Keys(t)[i]].len % LengthMod
         /\ \E V : w \in Seq(V)
<1> DEFINE K == Keys(t)
           e == [i \in 1..n |-> <<K[i], t[K[i]].len % LengthMod, Written(t[K[i]])>>]
           V == {n} \cup {K[i] : i \in 1..n} \cup {t[K[i]].len % LengthMod : i \in 1..n}
                    \cup {Written(t[K[i]]) : i \in 1..n}
<1>1. n \in Nat
  BY FS_CardinalityType
<1>2. w = <<n>> \o FlattenSeq(e)
  BY DEF WriteTable
<1>3. ASSUME NEW i \in 1..n
      PROVE  /\ e[i] \in Seq(V) /\ Len(e[i]) = 3
             /\ e[i][1] = K[i] /\ e[i][2] = t[K[i]].len % LengthMod /\ e[i][3] = Written(t[K[i]])
  <2> DEFINE x == K[i]
             y == t[K[i]].len % LengthMod
             z == Written(t[K[i]])
  <2>1. x \in V /\ y \in V /\ z \in V
    OBVIOUS
  <2>2. e[i] = <<x, y, z>>
    OBVIOUS
  <2> HIDE DEF x, y, z, e, V
  <2>3. /\ <<x, y, z>> \in Seq(V) /\ Len(<<x, y, z>>) = 3
        /\ <<x, y, z>>[1] = x /\ <<x, y, z>>[2] = y /\ <<x, y, z>>[3] = z
    BY <2>1
  <2> QED  BY <2>2, <2>3 DEF x, y, z
<1>4. n \in V /\ e = [i \in 1..n |-> e[i]]
  OBVIOUS
<1> HIDE DEF e, V, K
<1>5. e \in [1..n -> Seq(V)]
  <2>1. \A i \in 1..n : e[i] \in Seq(V)
    BY <1>3
  <2> QED  BY <1>4, <2>1
<1>6. FlattenSeq(e) \in Seq(V) /\ \E at : Laid(n, e, FlattenSeq(e), at)
  BY <1>1, <1>5, FlatIs
<1> DEFINE flat == FlattenSeq(e)
<1> HIDE DEF flat
<1>7. PICK at : Laid(n, e, flat, at)
  BY <1>6 DEF flat
<1>61. flat \in Seq(V)
  BY <1>6 DEF flat
<1>71. /\ at \in [0..n -> Nat] /\ at[0] = 0 /\ at[n] = Len(flat)
       /\ \A i \in 1..n : at[i] = at[i - 1] + Len(e[i]) /\ at[i] <= at[n]
       /\ \A i \in 1..n : \A j \in 1..Len(e[i]) : flat[at[i - 1] + j] = e[i][j]
  BY <1>7 DEF Laid
<1>8. \A i \in 0..n : at[i] = 3 * i
  <2> DEFINE X == [i \in 0..n |-> {3 * i}]
  <2>1. at[0] \in X[0]
    BY <1>1, <1>71
  <2>2. ASSUME NEW i \in 1..n, at[i - 1] \in X[i - 1] PROVE at[i] \in X[i]
    <3>1. i - 1 \in 0..n /\ i \in 0..n /\ at[i - 1] = 3 * (i - 1)
      BY <1>1, <2>2
    <3>2. at[i] = at[i - 1] + 3
      BY <1>3, <1>71, SMTT(30)
    <3> QED  BY <3>1, <3>2
  <2>3. \A i \in 0..n : at[i] \in X[i]
    <3> HIDE DEF X
    <3> QED  BY <1>1, <2>1, <2>2, StepsKeepEach
  <2> QED  BY <2>3
<1>9. Len(flat) = 3 * n
  BY <1>1, <1>71, <1>8
<1>10. w = <<n>> \o flat /\ <<n>> \in Seq(V) /\ Len(<<n>>) = 1
  BY <1>2, <1>4 DEF flat
<1>11. /\ w \in Seq(V) /\ Len(w) = 1 + 3 * n /\ w[1] = n
       /\ \A k \in 1..(3 * n) : w[1 + k] = flat[k]
  BY <1>1, <1>61, <1>9, <1>10
<1>12. ASSUME NEW i \in 1..n
       PROVE  /\ w[3 * i - 1] = K[i] /\ w[3 * i + 1] = Written(t[K[i]])
              /\ w[3 * i] = t[K[i]].len % LengthMod
  <2>1. /\ i - 1 \in 0..n /\ 3 * (i - 1) + 1 \in 1..(3 * n) /\ 3 * (i - 1) + 3 \in 1..(3 * n)
        /\ 3 * (i - 1) + 2 \in 1..(3 * n) /\ 1 + (3 * (i - 1) + 2) = 3 * i
        /\ 1 + (3 * (i - 1) + 1) = 3 * i - 1 /\ 1 + (3 * (i - 1) + 3) = 3 * i + 1
    BY <1>1
  <2>2. flat[3 * (i - 1) + 1] = e[i][1] /\ flat[3 * (i - 1) + 2] = e[i][2] /\ flat[3 * (i - 1) + 3] = e[i][3]
    <3>1. at[i - 1] = 3 * (i - 1) /\ 1 \in 1..Len(e[i]) /\ 2 \in 1..Len(e[i]) /\ 3 \in 1..Len(e[i])
      <4>1. Len(e[i]) = 3
        BY <1>3
      <4>2. at[i - 1] = 3 * (i - 1)
        BY <1>8, <2>1
      <4> QED  BY <4>1, <4>2
    <3>2. \A j \in 1..Len(e[i]) : flat[at[i - 1] + j] = e[i][j]
      BY <1>71
    <3>3. flat[at[i - 1] + 1] = e[i][1] /\ flat[at[i - 1] + 2] = e[i][2] /\ flat[at[i - 1] + 3] = e[i][3]
      BY <3>1, <3>2
    <3> QED  BY <3>1, <3>3
  <2>3. w[3 * i - 1] = flat[3 * (i - 1) + 1] /\ w[3 * i] = flat[3 * (i - 1) + 2] /\ w[3 * i + 1] = flat[3 * (i - 1) + 3]
    BY <1>11, <2>1
  <2> QED  BY <1>3, <2>2, <2>3
<1> QED  BY <1>11, <1>12 DEF K

(* What is read of a table, whole or not, has finitely many addresses; the whole
   table comes back.                                                           *)
LEMMA FiniteImage ==
  ASSUME NEW n \in Nat, NEW f
  PROVE  IsFiniteSet({f[i] : i \in 1..n})
<1> DEFINE T == {f[i] : i \in 1..n}
           g == [i \in 1..n |-> f[i]]
<1>1. g \in Surjection(1..n, T)
  BY DEF Surjection
<1>2. IsFiniteSet(1..n)
  BY FS_Interval
<1> QED  BY <1>1, <1>2, FS_Surjection

LEMMA ReadFinite ==
  ASSUME NEW c, NEW junk, Cell(c, 1, junk.count) \in Nat
  PROVE  IsTable(ReadTable(c, junk))
<1> DEFINE n == Cell(c, 1, junk.count)
           f == [i \in 1..n |-> Cell(c, 3 * i - 1, junk.addr)]
           r == ReadTable(c, junk)
<1>1. DOMAIN r = {f[i] : i \in 1..n} /\ r = [a \in DOMAIN r |-> r[a]]
  BY DEF ReadTable
<1> HIDE DEF f, r
<1>2. n \in Nat
  OBVIOUS
<1> HIDE DEF n
<1>3. IsFiniteSet(DOMAIN r)
  BY <1>1, <1>2, FiniteImage
<1> QED  BY <1>1, <1>3 DEF IsTable, r

LEMMA PrefixFinite ==
  ASSUME NEW t, IsTable(t), NEW c, Begins(c, WriteTable(t)), NEW junk, junk.count \in Nat
  PROVE  IsTable(ReadTable(c, junk))
<1> DEFINE n == Cardinality(DOMAIN t)
           w == WriteTable(t)
<1>1. n \in Nat /\ w[1] = n /\ Len(c) \in Nat /\ (1 <= Len(c) => c[1] = w[1])
  <2>1. n \in Nat
    BY FS_CardinalityType DEF IsTable
  <2>2. w[1] = n /\ Len(w) = 1 + 3 * n
    BY TableIs DEF IsTable
  <2> QED  BY <2>1, <2>2 DEF Begins
<1>2. Cell(c, 1, junk.count) \in Nat
  BY <1>1 DEF Cell
<1> QED  BY <1>2, ReadFinite

\* n entries are read, with the keys A and the texts X
Entries(c, junk, n, A, X) ==
    /\ Cell(c, 1, junk.count) = n
    /\ \A i \in 1..n : /\ Cell(c, 3 * i - 1, junk.addr) = A[i]
                       /\ [Cell(c, 3 * i + 1, junk.text) EXCEPT !.len = Cell(c, 3 * i, junk.count)] = X[i]
    /\ \A i, j \in 1..n : A[i] = A[j] => i = j

LEMMA ReadIs ==
  ASSUME NEW c, NEW junk, NEW n \in Nat, NEW A, NEW X, Entries(c, junk, n, A, X)
  PROVE  /\ ReadTable(c, junk) = [a \in DOMAIN ReadTable(c, junk) |-> ReadTable(c, junk)[a]]
         /\ \A i \in 1..n : A[i] \in DOMAIN ReadTable(c, junk)
         /\ \A a \in DOMAIN ReadTable(c, junk) : \E i \in 1..n : a = A[i]
         /\ \A i \in 1..n : ReadTable(c, junk)[A[i]] = X[i]
<1> DEFINE N == Cell(c, 1, junk.count)
           addr(i) == Cell(c, 3 * i - 1, junk.addr)
           text(i) == [Cell(c, 3 * i + 1, junk.text) EXCEPT !.len = Cell(c, 3 * i, junk.count)]
           from(a) == CHOOSE i \in 1..N : addr(i) = a /\ \A j \in (i + 1)..N : addr(j) # a
           r == ReadTable(c, junk)
<1>0. /\ N = n
      /\ \A i \in 1..n : addr(i) = A[i] /\ text(i) = X[i]
      /\ \A i, j \in 1..n : A[i] = A[j] => i = j
  BY DEF Entries
<1>1. r = [a \in {addr(i) : i \in 1..N} |-> text(from(a))]
  BY DEF ReadTable
<1>2. /\ r = [a \in DOMAIN r |-> r[a]] /\ DOMAIN r = {addr(i) : i \in 1..N}
      /\ \A a \in {addr(i) : i \in 1..N} : r[a] = text(from(a))
  BY <1>1
<1>3. /\ \A i \in 1..n : A[i] \in {addr(k) : k \in 1..N}
      /\ \A a \in {addr(k) : k \in 1..N} : \E i \in 1..n : a = A[i]
  <2>1. ASSUME NEW i \in 1..n PROVE A[i] \in {addr(k) : k \in 1..N}
    <3>1. addr(i) = A[i] /\ i \in 1..N
      BY <1>0
    <3> QED  BY <3>1
  <2>2. ASSUME NEW a \in {addr(k) : k \in 1..N} PROVE \E i \in 1..n : a = A[i]
    <3>1. PICK i \in 1..n : a = addr(i)
      BY <1>0
    <3>2. addr(i) = A[i]
      BY <1>0
    <3> QED  BY <3>1, <3>2
  <2> QED  BY <2>1, <2>2
<1>4. ASSUME NEW i \in 1..n PROVE from(A[i]) = i
  <2>1. i \in 1..N /\ addr(i) = A[i]
    BY <1>0
  <2>2. \A j \in (i + 1)..N : j \in 1..n /\ j # i
    BY <1>0
  <2>3. \A j \in (i + 1)..N : addr(j) # A[i]
    <3> SUFFICES ASSUME NEW j \in (i + 1)..N PROVE addr(j) # A[i]
      OBVIOUS
    <3>1. j \in 1..n /\ j # i
      BY <2>2
    <3>2. addr(j) = A[j]
      BY <1>0, <3>1
    <3>3. \A k, l \in 1..n : A[k] = A[l] => k = l
      BY <1>0
    <3> HIDE DEF N, addr, text, from, r
    <3> QED  BY <3>1, <3>2, <3>3
  <2>4. ASSUME NEW k \in 1..N, addr(k) = A[i] PROVE k = i
    <3>1. k \in 1..n
      BY <1>0
    <3>2. addr(k) = A[k]
      BY <1>0, <3>1
    <3>3. A[k] = A[i]
      BY <2>4, <3>2
    <3>4. \A j, l \in 1..n : A[j] = A[l] => j = l
      BY <1>0
    <3> HIDE DEF N, addr, text, from, r
    <3> QED  BY <3>1, <3>3, <3>4
  <2> QED  BY <2>1, <2>3, <2>4
<1>5. ASSUME NEW i \in 1..n PROVE r[A[i]] = X[i]
  <2>1. A[i] \in {addr(k) : k \in 1..N}
    BY <1>3
  <2>2. r[A[i]] = text(from(A[i]))
    BY <1>2, <2>1
  <2>3. text(i) = X[i]
    BY <1>0
  <2> QED  BY <1>4, <2>2, <2>3
<1> QED  BY <1>2, <1>3, <1>5

LEMMA TableReturns ==
  ASSUME NEW t, IsTable(t), NEW junk
  PROVE  ReadTable(WriteTable(t), junk) = Cut(t)
<1> DEFINE n == Cardinality(DOMAIN t)
           w == WriteTable(t)
           K == Keys(t)
           X == [i \in 1..n |-> Written(t[K[i]])]
           r == ReadTable(w, junk)
<1>1. /\ n \in Nat /\ K \in [1..n -> DOMAIN t]
      /\ \A i, j \in 1..n : K[i] = K[j] => i = j
      /\ \A a \in DOMAIN t : \E i \in 1..n : K[i] = a
  BY KeysAre DEF IsTable
<1>2. /\ Len(w) = 1 + 3 * n /\ w[1] = n
      /\ \A i \in 1..n : /\ w[3 * i - 1] = K[i] /\ w[3 * i + 1] = Written(t[K[i]])
                         /\ w[3 * i] = t[K[i]].len % LengthMod
  BY TableIs DEF IsTable
<1>3. \A i \in 1..n : X[i] = Written(t[K[i]])
  OBVIOUS
<1> HIDE DEF n, w, K, X
<1>4. Cell(w, 1, junk.count) = n
  BY <1>1, <1>2 DEF Cell
<1>5. ASSUME NEW i \in 1..n
      PROVE  /\ Cell(w, 3 * i - 1, junk.addr) = K[i]
             /\ [Cell(w, 3 * i + 1, junk.text) EXCEPT !.len = Cell(w, 3 * i, junk.count)] = X[i]
  <2>1. 3 * i - 1 <= Len(w) /\ 3 * i + 1 <= Len(w) /\ 3 * i <= Len(w)
    BY <1>1, <1>2
  <2>2. /\ Cell(w, 3 * i - 1, junk.addr) = K[i]
        /\ Cell(w, 3 * i + 1, junk.text) = Written(t[K[i]])
        /\ Cell(w, 3 * i, junk.count) = t[K[i]].len % LengthMod
    BY <1>2, <2>1 DEF Cell
  <2> DEFINE x == t[K[i]]
             l == x.len % LengthMod
  <2>3. X[i] = Written(x)
    BY <1>3
  <2>4. [Written(x) EXCEPT !.len = l] = Written(x)
    BY DEF Written
  <2> QED  BY <2>2, <2>3, <2>4
<1>50. Entries(w, junk, n, K, X)
  BY <1>1, <1>4, <1>5 DEF Entries
<1>51. n \in Nat
  BY <1>1
<1>6. /\ r = [a \in DOMAIN r |-> r[a]]
      /\ \A i \in 1..n : K[i] \in DOMAIN r
      /\ \A a \in DOMAIN r : \E i \in 1..n : a = K[i]
      /\ \A i \in 1..n : r[K[i]] = X[i]
  BY <1>50, <1>51, ReadIs
<1> HIDE DEF r
<1>7. DOMAIN r = DOMAIN t
  <2>1. \A i \in 1..n : K[i] \in DOMAIN t
    BY <1>1
  <2>2. DOMAIN t \subseteq DOMAIN r
    BY <1>1, <1>6
  <2>3. DOMAIN r \subseteq DOMAIN t
    BY <1>6, <2>1
  <2> QED  BY <2>2, <2>3
<1>8. ASSUME NEW a \in DOMAIN t PROVE r[a] = Written(t[a])
  <2>1. PICK i \in 1..n : K[i] = a
    BY <1>1
  <2> QED  BY <1>3, <1>6, <2>1
<1>9. r = [a \in DOMAIN t |-> Written(t[a])]
  BY <1>6, <1>7, <1>8
<1> QED  BY <1>9 DEF r, w, Cut

-----------------------------------------------------------------------------
\* definitions: finitely many, of fields and members
Plain(d) ==
    /\ IsFiniteSet(DOMAIN d)
    /\ \A i \in DOMAIN d : /\ DOMAIN d[i] = {"kind", "fields", "members", "as"}
                           /\ d[i].fields \in Seq({0}) /\ d[i].members \in Seq({0})

\* the cells of one definition
LEMMA EntryIs ==
  ASSUME NEW V, Nat \subseteq V, NEW id \in V, NEW F \in Seq({0}), NEW M \in Seq({0}),
         NEW e, e = <<id, Len(F)>> \o F \o <<Len(M)>> \o M
  PROVE  /\ e \in Seq(V) /\ Len(e) = 3 + Len(F) + Len(M)
         /\ e[2] = Len(F) /\ e[3 + Len(F)] = Len(M)
<1> DEFINE h == <<id, Len(F)>>
           a == h \o F
           l == <<Len(M)>>
           b == a \o l
<1>1. Len(F) \in Nat /\ Len(M) \in Nat /\ F \in Seq(V) /\ M \in Seq(V)
  <2>1. Len(F) \in Nat /\ Len(M) \in Nat
    OBVIOUS
  <2>2. \A k \in 1..Len(F) : F[k] \in {0}
    BY ElementOfSeq
  <2>3. \A k \in 1..Len(M) : M[k] \in {0}
    BY ElementOfSeq
  <2>4. 0 \in V
    OBVIOUS
  <2>5. F = [k \in 1..Len(F) |-> F[k]] /\ M = [k \in 1..Len(M) |-> M[k]]
    OBVIOUS
  <2>6. F \in [1..Len(F) -> V]
    BY <2>2, <2>4, <2>5
  <2>7. M \in [1..Len(M) -> V]
    BY <2>3, <2>4, <2>5
  <2>8. \A k \in Nat : \A g \in [1..k -> V] : g \in Seq(V)
    OBVIOUS
  <2> QED  BY <2>1, <2>6, <2>7, <2>8
<1>2. h \in Seq(V) /\ Len(h) = 2 /\ h[2] = Len(F) /\ l \in Seq(V) /\ Len(l) = 1 /\ l[1] = Len(M)
  BY <1>1
<1>3. e = b \o M
  OBVIOUS
<1> HIDE DEF h, l
<1>4. /\ a \in Seq(V) /\ Len(a) = 2 + Len(F) /\ a[2] = Len(F)
  <2>0. Join(V, h, F, a)
    BY <1>1, <1>2, Joined
  <2> HIDE DEF a
  <2>1. a \in Seq(V) /\ Len(a) = Len(h) + Len(F) /\ \A k \in 1..Len(h) : a[k] = h[k]
    BY <2>0 DEF Join
  <2> QED  BY <1>2, <2>1
<1> HIDE DEF a
<1>5. b \in Seq(V) /\ Len(b) = 3 + Len(F) /\ b[2] = Len(F) /\ b[3 + Len(F)] = Len(M)
  <2>0. Join(V, a, l, b)
    BY <1>2, <1>4, Joined
  <2> HIDE DEF b
  <2>1. /\ b \in Seq(V) /\ Len(b) = Len(a) + Len(l) /\ (\A k \in 1..Len(a) : b[k] = a[k])
        /\ \A k \in 1..Len(l) : b[Len(a) + k] = l[k]
    BY <2>0 DEF Join
  <2>2. 2 \in 1..Len(a) /\ 1 \in 1..Len(l) /\ Len(a) + 1 = 3 + Len(F)
    BY <1>1, <1>2, <1>4
  <2>3. b[2] = a[2] /\ b[Len(a) + 1] = l[1]
    BY <2>1, <2>2
  <2> QED  BY <1>1, <1>2, <1>4, <2>1, <2>2, <2>3
<1> HIDE DEF b
<1>6. /\ e \in Seq(V) /\ Len(e) = Len(b) + Len(M) /\ \A k \in 1..Len(b) : e[k] = b[k]
  <2>1. Join(V, b, M, e)
    BY <1>1, <1>3, <1>5, Joined
  <2> QED  BY <2>1 DEF Join
<1>7. 2 \in 1..Len(b) /\ 3 + Len(F) \in 1..Len(b)
  BY <1>1, <1>5
<1> QED  BY <1>5, <1>6, <1>7

\* types that were applied: two cells each
Paired(V, n, A, B, flat) ==
    /\ Len(flat) = 2 * n /\ flat \in Seq(V)
    /\ \A i \in 1..n : flat[2 * i - 1] = A[i] /\ flat[2 * i] = B[i]

LEMMA PairsAre ==
  ASSUME NEW n \in Nat, NEW A, NEW B, NEW V, \A i \in 1..n : A[i] \in V /\ B[i] \in V,
         NEW e, e = [i \in 1..n |-> <<A[i], B[i]>>], NEW flat, flat = FlattenSeq(e)
  PROVE  Paired(V, n, A, B, flat)
<1>3. ASSUME NEW i \in 1..n
      PROVE  e[i] \in Seq(V) /\ Len(e[i]) = 2 /\ e[i][1] = A[i] /\ e[i][2] = B[i]
  <2> DEFINE x == A[i]
             y == B[i]
  <2>1. x \in V /\ y \in V
    OBVIOUS
  <2>2. e[i] = <<x, y>>
    OBVIOUS
  <2> HIDE DEF x, y
  <2>3. <<x, y>> \in Seq(V) /\ Len(<<x, y>>) = 2 /\ <<x, y>>[1] = x /\ <<x, y>>[2] = y
    BY <2>1
  <2> QED  BY <2>2, <2>3 DEF x, y
<1>4. e = [i \in 1..n |-> e[i]]
  OBVIOUS
<1>5. e \in [1..n -> Seq(V)]
  <2>1. \A i \in 1..n : e[i] \in Seq(V)
    BY <1>3
  <2> QED  BY <1>4, <2>1
<1>6. FlattenSeq(e) \in Seq(V) /\ \E at : Laid(n, e, FlattenSeq(e), at)
  BY <1>5, FlatIs
<1>7. PICK at : Laid(n, e, flat, at)
  BY <1>6
<1>8. /\ at \in [0..n -> Nat] /\ at[0] = 0 /\ at[n] = Len(flat)
      /\ \A i \in 1..n : at[i] = at[i - 1] + Len(e[i])
      /\ \A i \in 1..n : \A j \in 1..Len(e[i]) : flat[at[i - 1] + j] = e[i][j]
  BY <1>7 DEF Laid
<1>9. \A i \in 0..n : at[i] = 2 * i
  <2> DEFINE X == [i \in 0..n |-> {2 * i}]
  <2>1. at[0] \in X[0]
    BY <1>8
  <2>2. ASSUME NEW i \in 1..n, at[i - 1] \in X[i - 1] PROVE at[i] \in X[i]
    <3>1. i - 1 \in 0..n /\ i \in 0..n /\ at[i - 1] = 2 * (i - 1)
      BY <2>2
    <3>2. at[i] = at[i - 1] + 2
      BY <1>3, <1>8
    <3> QED  BY <3>1, <3>2
  <2>3. \A i \in 0..n : at[i] \in X[i]
    <3> HIDE DEF X
    <3> QED  BY <2>1, <2>2, StepsKeepEach
  <2> QED  BY <2>3
<1>10. Len(flat) = 2 * n
  BY <1>8, <1>9
<1>11. ASSUME NEW i \in 1..n PROVE flat[2 * i - 1] = A[i] /\ flat[2 * i] = B[i]
  <2>1. i - 1 \in 0..n /\ 2 * (i - 1) + 1 = 2 * i - 1 /\ 2 * (i - 1) + 2 = 2 * i
    OBVIOUS
  <2>2. at[i - 1] = 2 * (i - 1) /\ 1 \in 1..Len(e[i]) /\ 2 \in 1..Len(e[i])
    BY <1>3, <1>9, <2>1
  <2>3. flat[at[i - 1] + 1] = e[i][1] /\ flat[at[i - 1] + 2] = e[i][2]
    BY <1>8, <2>2
  <2> QED  BY <1>3, <2>1, <2>2, <2>3
<1> QED  BY <1>6, <1>10, <1>11 DEF Paired

-----------------------------------------------------------------------------
\* where the definitions of d lie in types.bin, and what load looks at there
FieldsOf(d, i) == Len(d[Keys(d)[i]].fields)
MembersOf(d, i) == Len(d[Keys(d)[i]].members)
Layed(d, n, w, at) ==
    /\ at \in [0..n -> Nat] /\ at[0] = 2 /\ w[1] = n
    /\ \A i \in 1..n : /\ FieldsOf(d, i) \in Nat /\ MembersOf(d, i) \in Nat
                       /\ at[i] = at[i - 1] + 3 + FieldsOf(d, i) + MembersOf(d, i)
                       /\ at[i] <= at[n]
                       /\ w[at[i - 1] + 1] = FieldsOf(d, i)
                       /\ w[at[i - 1] + 2 + FieldsOf(d, i)] = MembersOf(d, i)
\* and the types applied behind them
Applied(s, m, w, start) ==
    /\ w[start] = m /\ Len(w) = start + 2 * m
    /\ \A i \in 1..m : w[start + 2 * i - 1] = Keys(s)[i] /\ w[start + 2 * i] = s[Keys(s)[i]]

LEMMA TypesAre ==
  ASSUME NEW d, Plain(d), NEW s, IsTable(s),
         NEW n, n = Cardinality(DOMAIN d), NEW m, m = Cardinality(DOMAIN s),
         NEW w, w = WriteTypes(d, s)
  PROVE  /\ n \in Nat /\ m \in Nat
         /\ \E V : w \in Seq(V)
         /\ \E at : Layed(d, n, w, at) /\ Applied(s, m, w, at[n])
<1> DEFINE K == Keys(d)
           S == Keys(s)
           e == [i \in 1..n |-> <<K[i], Len(d[K[i]].fields)>> \o d[K[i]].fields
                                  \o <<Len(d[K[i]].members)>> \o d[K[i]].members]
           T == [i \in 1..m |-> s[S[i]]]
           p == [i \in 1..m |-> <<S[i], T[i]>>]
           V == Nat \cup DOMAIN d \cup DOMAIN s \cup {T[i] : i \in 1..m}
           D == FlattenSeq(e)
           A == FlattenSeq(p)
<1>1. /\ n \in Nat /\ K \in [1..n -> DOMAIN d]
      /\ m \in Nat /\ S \in [1..m -> DOMAIN s]
  BY KeysAre DEF IsTable, Plain
<1>2. w = <<n>> \o D \o <<m>> \o A
  <2>1. \A i \in 1..m : p[i] = <<S[i], s[S[i]]>>
    OBVIOUS
  <2>2. p = [i \in 1..m |-> <<S[i], s[S[i]]>>]
    OBVIOUS
  <2>3. w = <<n>> \o FlattenSeq(e) \o <<m>> \o FlattenSeq([i \in 1..m |-> <<S[i], s[S[i]]>>])
    BY DEF WriteTypes
  <2> HIDE DEF p
  <2> QED  BY <2>2, <2>3
<1>3. \A i \in 1..n : FieldsOf(d, i) = Len(d[K[i]].fields) /\ MembersOf(d, i) = Len(d[K[i]].members)
  BY DEF FieldsOf, MembersOf
<1>4. Nat \subseteq V /\ \A i \in 1..m : S[i] \in V /\ T[i] \in V
  BY <1>1
<1>5. \A i \in 1..n : K[i] \in V
  BY <1>1
<1>6. e = [i \in 1..n |-> e[i]]
      /\ \A i \in 1..n : e[i] = <<K[i], Len(d[K[i]].fields)>> \o d[K[i]].fields
                                  \o <<Len(d[K[i]].members)>> \o d[K[i]].members
  OBVIOUS
<1>7. /\ A \in Seq(V) /\ Len(A) = 2 * m
      /\ \A i \in 1..m : A[2 * i - 1] = S[i] /\ A[2 * i] = T[i]
  <2>1. p = [i \in 1..m |-> <<S[i], T[i]>>]
    OBVIOUS
  <2>2. A = FlattenSeq(p)
    OBVIOUS
  <2> HIDE DEF p, V, S, T, A
  <2>3. Paired(V, m, S, T, A)
    BY <1>1, <1>4, <2>1, <2>2, PairsAre
  <2> QED  BY <2>3 DEF Paired
<1>8. \A i \in 1..m : T[i] = s[S[i]]
  OBVIOUS
<1> HIDE DEF K, S, e, V, T, p
<1>9. ASSUME NEW i \in 1..n
      PROVE  /\ e[i] \in Seq(V) /\ Len(e[i]) = 3 + FieldsOf(d, i) + MembersOf(d, i)
             /\ e[i][2] = FieldsOf(d, i) /\ e[i][3 + FieldsOf(d, i)] = MembersOf(d, i)
             /\ FieldsOf(d, i) \in Nat /\ MembersOf(d, i) \in Nat
  <2> DEFINE F == d[K[i]].fields
             M == d[K[i]].members
  <2>1. F \in Seq({0}) /\ M \in Seq({0})
    BY <1>1 DEF Plain
  <2>2. e[i] = <<K[i], Len(F)>> \o F \o <<Len(M)>> \o M /\ K[i] \in V
    BY <1>5, <1>6
  <2>3. FieldsOf(d, i) = Len(F) /\ MembersOf(d, i) = Len(M)
    BY <1>3
  <2> HIDE DEF F, M
  <2>4. /\ e[i] \in Seq(V) /\ Len(e[i]) = 3 + Len(F) + Len(M)
        /\ e[i][2] = Len(F) /\ e[i][3 + Len(F)] = Len(M)
    BY <1>4, <2>1, <2>2, EntryIs
  <2>5. Len(F) \in Nat /\ Len(M) \in Nat
    BY <2>1
  <2> QED  BY <2>3, <2>4, <2>5
<1>10. D \in Seq(V) /\ \E off : Laid(n, e, D, off)
  <2>1. \A i \in 1..n : e[i] \in Seq(V)
    BY <1>9
  <2>2. e \in [1..n -> Seq(V)]
    BY <1>6, <2>1
  <2> QED  BY <1>1, <2>2, FlatIs
<1> HIDE DEF D, A
<1>11. PICK off : Laid(n, e, D, off)
  BY <1>10
<1>12. /\ off \in [0..n -> Nat] /\ off[0] = 0 /\ off[n] = Len(D)
       /\ \A i \in 1..n : off[i] = off[i - 1] + Len(e[i]) /\ off[i] <= off[n]
       /\ \A i \in 1..n : \A j \in 1..Len(e[i]) : D[off[i - 1] + j] = e[i][j]
  BY <1>11 DEF Laid
\* the four parts
<1> DEFINE a == <<n>> \o D
           b == a \o <<m>>
<1>14. /\ <<n>> \in Seq(V) /\ Len(<<n>>) = 1 /\ <<n>>[1] = n
       /\ <<m>> \in Seq(V) /\ Len(<<m>>) = 1 /\ <<m>>[1] = m
       /\ Len(D) \in Nat
  BY <1>1, <1>4, <1>10
<1>15. /\ a \in Seq(V) /\ Len(a) = 1 + Len(D) /\ a[1] = n
       /\ \A k \in 1..Len(D) : a[1 + k] = D[k]
  <2> DEFINE h == <<n>>
  <2>1. h \in Seq(V) /\ Len(h) = 1 /\ h[1] = n /\ a = h \o D
    BY <1>14
  <2> HIDE DEF h, a
  <2>20. Join(V, h, D, a)
    BY <1>10, <2>1, Joined
  <2>2. /\ a \in Seq(V) /\ Len(a) = Len(h) + Len(D) /\ (\A k \in 1..Len(h) : a[k] = h[k])
        /\ \A k \in 1..Len(D) : a[Len(h) + k] = D[k]
    BY <2>20 DEF Join
  <2> QED  BY <2>1, <2>2
<1>16. /\ b \in Seq(V) /\ Len(b) = 2 + Len(D) /\ b[2 + Len(D)] = m
       /\ \A k \in 1..(1 + Len(D)) : b[k] = a[k]
  <2> DEFINE h == <<m>>
  <2>1. h \in Seq(V) /\ Len(h) = 1 /\ h[1] = m /\ b = a \o h
    BY <1>14
  <2> HIDE DEF h, a, b
  <2>20. Join(V, a, h, b)
    BY <1>15, <2>1, Joined
  <2>2. /\ b \in Seq(V) /\ Len(b) = Len(a) + Len(h) /\ (\A k \in 1..Len(a) : b[k] = a[k])
        /\ \A k \in 1..Len(h) : b[Len(a) + k] = h[k]
    BY <2>20 DEF Join
  <2>3. 1 \in 1..Len(h) /\ Len(a) + 1 = 2 + Len(D)
    BY <1>14, <1>15, <2>1
  <2> QED  BY <1>14, <1>15, <2>1, <2>2, <2>3
<1>17. w = b \o A
  BY <1>2
<1> HIDE DEF a, b
<1>170. Join(V, b, A, w)
  BY <1>7, <1>16, <1>17, Joined
<1>18. /\ w \in Seq(V) /\ Len(w) = Len(b) + Len(A)
       /\ \A k \in 1..Len(b) : w[k] = b[k]
       /\ \A k \in 1..Len(A) : w[Len(b) + k] = A[k]
  BY <1>170 DEF Join
<1>19. /\ w[1] = n /\ w[2 + Len(D)] = m /\ Len(w) = 2 + Len(D) + 2 * m
       /\ \A k \in 1..Len(D) : w[1 + k] = D[k]
       /\ \A k \in 1..(2 * m) : w[2 + Len(D) + k] = A[k]
  <2>1. \A k \in 1..(1 + Len(D)) : k \in 1..Len(b)
    BY <1>14, <1>16
  <2>2. 1 \in 1..(1 + Len(D)) /\ 2 + Len(D) \in 1..Len(b)
    BY <1>14, <1>16
  <2>3. w[1] = n /\ w[2 + Len(D)] = m
    BY <1>15, <1>16, <1>18, <2>1, <2>2
  <2>4. ASSUME NEW k \in 1..Len(D) PROVE w[1 + k] = D[k]
    <3>1. 1 + k \in 1..(1 + Len(D))
      BY <1>14
    <3> QED  BY <1>15, <1>16, <1>18, <2>1, <3>1
  <2> QED  BY <1>7, <1>16, <1>18, <2>3, <2>4
<1> DEFINE at == [i \in 0..n |-> 2 + off[i]]
<1>20. /\ at \in [0..n -> Nat] /\ at[0] = 2 /\ at[n] = 2 + Len(D)
       /\ \A i \in 0..n : at[i] = 2 + off[i]
  BY <1>1, <1>12
<1> HIDE DEF at
<1>21. ASSUME NEW i \in 1..n
       PROVE  /\ FieldsOf(d, i) \in Nat /\ MembersOf(d, i) \in Nat
              /\ at[i] = at[i - 1] + 3 + FieldsOf(d, i) + MembersOf(d, i)
              /\ at[i] <= at[n]
              /\ w[at[i - 1] + 1] = FieldsOf(d, i)
              /\ w[at[i - 1] + 2 + FieldsOf(d, i)] = MembersOf(d, i)
  <2> DEFINE x == off[i - 1]
             F == FieldsOf(d, i)
             M == MembersOf(d, i)
  <2>1. i - 1 \in 0..n /\ i \in 0..n /\ n \in 0..n
    BY <1>1
  <2>2. F \in Nat /\ M \in Nat /\ Len(e[i]) = 3 + F + M /\ e[i][2] = F /\ e[i][3 + F] = M
    BY <1>9
  <2>3. x \in Nat /\ off[i] = x + (3 + F + M) /\ off[i] <= Len(D)
    BY <1>12, <2>1, <2>2
  <2>4. at[i - 1] = 2 + x /\ at[i] = 2 + off[i] /\ at[n] = 2 + Len(D)
    BY <1>20, <2>1
  <2> HIDE DEF x, F, M
  <2>5. at[i] = at[i - 1] + 3 + F + M /\ at[i] <= at[n]
    <3>1. off[i] \in Nat /\ Len(D) \in Nat
      BY <1>12, <1>14, <2>1
    <3>2. at[i] = 2 + (x + (3 + F + M))
      BY <2>3, <2>4
    <3>3. at[i] = (2 + x) + 3 + F + M
      BY <2>2, <2>3, <3>2
    <3>4. 2 + off[i] <= 2 + Len(D)
      BY <2>3, <3>1
    <3> QED  BY <2>4, <3>3, <3>4
  <2>6. 2 \in 1..Len(e[i]) /\ 3 + F \in 1..Len(e[i])
    BY <2>2
  <2>7. D[x + 2] = F /\ D[x + (3 + F)] = M
    BY <1>12, <2>2, <2>6 DEF x
  <2>8. x + 2 \in 1..Len(D) /\ x + (3 + F) \in 1..Len(D)
    BY <1>14, <2>2, <2>3
  <2>9. w[1 + (x + 2)] = F /\ w[1 + (x + (3 + F))] = M
    BY <1>19, <2>7, <2>8
  <2>10. 1 + (x + 2) = at[i - 1] + 1 /\ 1 + (x + (3 + F)) = at[i - 1] + 2 + F
    BY <2>2, <2>3, <2>4
  <2>11. w[at[i - 1] + 1] = F /\ w[at[i - 1] + 2 + F] = M
    BY <2>9, <2>10
  <2> QED  BY <2>2, <2>5, <2>11 DEF F, M
<1>22. Layed(d, n, w, at)
  BY <1>19, <1>20, <1>21 DEF Layed
<1>23. Applied(s, m, w, at[n])
  <2> DEFINE x == at[n]
  <2>1. x = 2 + Len(D) /\ x \in Nat
    BY <1>14, <1>20
  <2> HIDE DEF x
  <2>2. w[x] = m /\ Len(w) = x + 2 * m /\ \A k \in 1..(2 * m) : w[x + k] = A[k]
    BY <1>19, <2>1
  <2>3. ASSUME NEW i \in 1..m
        PROVE  w[x + 2 * i - 1] = Keys(s)[i] /\ w[x + 2 * i] = s[Keys(s)[i]]
    <3>1. 2 * i - 1 \in 1..(2 * m) /\ 2 * i \in 1..(2 * m) /\ x + (2 * i - 1) = x + 2 * i - 1
      BY <1>1, <2>1
    <3>2. w[x + (2 * i - 1)] = A[2 * i - 1] /\ w[x + 2 * i] = A[2 * i]
      BY <2>2, <3>1
    <3> QED  BY <1>7, <1>8, <3>1, <3>2 DEF S
  <2> QED  BY <2>2, <2>3 DEF Applied, x
<1> QED  BY <1>1, <1>18, <1>22, <1>23

-----------------------------------------------------------------------------
(* Where load stands in types.bin: behind each definition, or behind what there *)
(* is of the file.                                                          *)
LEMMA CellIs ==
  ASSUME NEW c, NEW w, Begins(c, w), NEW i \in Nat \ {0}, NEW j
  PROVE  Cell(c, i, j) = IF i <= Len(c) THEN w[i] ELSE j
<1>1. Len(c) \in Nat /\ \A k \in 1..Len(c) : c[k] = w[k]
  BY DEF Begins
<1>2. i <= Len(c) => i \in 1..Len(c)
  BY <1>1
<1> QED  BY <1>1, <1>2 DEF Cell

Beyond(c, w, x) == x \in Nat /\ Len(c) < x /\ Len(c) < Len(w)

LEMMA SkipBeyond ==
  ASSUME NEW c, NEW w, Begins(c, w), Len(w) \in Nat, NEW junk, junk.count \in Nat,
         NEW x, Beyond(c, w, x)
  PROVE  Beyond(c, w, SkipDefinition(c, x, junk))
<1>1. x \in Nat /\ Len(c) < x /\ Len(c) < Len(w) /\ Len(c) \in Nat
  BY DEF Beyond, Begins
<1>2. Cell(c, x + 1, junk.count) = junk.count
  BY <1>1 DEF Cell
<1> DEFINE members == x + 2 + Cell(c, x + 1, junk.count)
<1>3. members \in Nat /\ Len(c) < members
  BY <1>1, <1>2
<1>4. SkipDefinition(c, x, junk) = members + 1 + Cell(c, members, junk.count)
  BY DEF SkipDefinition
<1> HIDE DEF members
<1>5. Cell(c, members, junk.count) = junk.count
  BY <1>1, <1>3 DEF Cell
<1> QED  BY <1>1, <1>3, <1>4, <1>5 DEF Beyond

LEMMA SkipIs ==
  ASSUME NEW c, NEW w, Begins(c, w), Len(w) \in Nat, NEW junk, junk.count \in Nat,
         NEW n \in Nat, NEW d, NEW at, Layed(d, n, w, at), at[n] <= Len(w), NEW i \in 1..n
  PROVE  \/ SkipDefinition(c, at[i - 1], junk) = at[i]
         \/ Beyond(c, w, SkipDefinition(c, at[i - 1], junk))
<1> DEFINE p == at[i - 1]
           F == FieldsOf(d, i)
           M == MembersOf(d, i)
           members == p + 2 + Cell(c, p + 1, junk.count)
           q == SkipDefinition(c, p, junk)
<1>1. i - 1 \in 0..n /\ i \in 0..n /\ n \in 0..n
  OBVIOUS
<1>2. /\ p \in Nat /\ F \in Nat /\ M \in Nat /\ at[i] = p + 3 + F + M /\ at[i] <= Len(w)
      /\ w[p + 1] = F /\ w[p + 2 + F] = M /\ Len(c) \in Nat
  <2>1. /\ at[i] \in Nat /\ at[n] \in Nat /\ p \in Nat
    BY <1>1 DEF Layed
  <2>2. /\ F \in Nat /\ M \in Nat /\ at[i] = p + 3 + F + M /\ at[i] <= at[n]
        /\ w[p + 1] = F /\ w[p + 2 + F] = M
    BY DEF Layed
  <2>3. Len(c) \in Nat
    BY DEF Begins
  <2> HIDE DEF p, F, M
  <2> QED  BY <2>1, <2>2, <2>3
<1>3. q = members + 1 + Cell(c, members, junk.count)
  BY DEF SkipDefinition
<1> HIDE DEF p, F, M, q
<1>4. CASE p + 1 <= Len(c)
  <2>1. Cell(c, p + 1, junk.count) = F
    BY <1>2, <1>4, CellIs
  <2>2. members = p + 2 + F /\ members \in Nat \ {0} /\ members <= Len(w) /\ w[members] = M
    BY <1>2, <2>1, SMTT(30)
  <2> HIDE DEF members
  <2>3. Cell(c, members, junk.count) = IF members <= Len(c) THEN M ELSE junk.count
    BY <2>2, CellIs
  <2>4. CASE members <= Len(c)
    <3>1. q = members + 1 + M
      BY <1>3, <2>3, <2>4
    <3>2. q = at[i]
      BY <1>2, <2>2, <3>1
    <3> QED  BY <3>2 DEF p, q
  <2>5. CASE ~ (members <= Len(c))
    <3>1. q = members + 1 + junk.count
      BY <1>3, <2>3, <2>5
    <3>2. Beyond(c, w, q)
      BY <1>2, <2>2, <2>5, <3>1, SMTT(30) DEF Beyond
    <3> QED  BY <3>2 DEF p, q
  <2> QED  BY <2>4, <2>5
<1>5. CASE ~ (p + 1 <= Len(c))
  <2>1. Cell(c, p + 1, junk.count) = junk.count
    BY <1>5 DEF Cell
  <2>2. members = p + 2 + junk.count
    BY <2>1
  <2> HIDE DEF members
  <2>3. members \in Nat /\ ~ (members <= Len(c))
    BY <1>2, <1>5, <2>2, SMTT(30)
  <2>4. q = members + 1 + junk.count
    BY <1>3, <2>3 DEF Cell
  <2>50. Len(c) \in Nat /\ junk.count \in Nat
    BY <1>2
  <2>5. q \in Nat /\ Len(c) < q
    BY <2>3, <2>4, <2>50
  <2>6. Len(c) < Len(w)
    BY <1>2, <1>5
  <2>7. Beyond(c, w, q)
    BY <2>5, <2>6 DEF Beyond
  <2> QED  BY <2>7 DEF p, q
<1> QED  BY <1>4, <1>5

LEMMA SkipsAre ==
  ASSUME NEW c, NEW w, Begins(c, w), Len(w) \in Nat \ {0}, NEW junk, junk.count \in Nat,
         NEW n \in Nat, NEW d, NEW at, Layed(d, n, w, at), at[n] <= Len(w),
         NEW N, N = Cell(c, 1, junk.count), NEW g, g[0] = 2,
         \A i \in 1..N : g[i - 1] \in Nat => g[i] = SkipDefinition(c, g[i - 1], junk)
  PROVE  /\ N \in Nat
         /\ \A i \in 0..N : g[i] \in Nat
         /\ Beyond(c, w, g[N]) \/ (N = n /\ g[N] = at[n])
<1> DEFINE Is(i, x) == Beyond(c, w, x) \/ (N = n /\ x = at[i])
           X == [i \in 0..N |-> {x \in Nat : Is(i, x)}]
<1>1. Len(c) \in Nat /\ at \in [0..n -> Nat] /\ at[0] = 2 /\ w[1] = n
  BY DEF Layed, Begins
<1>2. N = IF 1 <= Len(c) THEN n ELSE junk.count
  BY <1>1, CellIs
<1>3. N \in Nat
  BY <1>2
<1>4. g[0] \in X[0]
  <2>1. CASE 1 <= Len(c)
    <3>1. N = n /\ g[0] = at[0] /\ 0 \in 0..N
      BY <1>1, <1>2, <1>3, <2>1
    <3> QED  BY <3>1
  <2>2. CASE ~ (1 <= Len(c))
    <3>1. Beyond(c, w, g[0]) /\ 0 \in 0..N
      BY <1>1, <1>3, <2>2 DEF Beyond
    <3> QED  BY <3>1
  <2> QED  BY <2>1, <2>2
<1>5. ASSUME NEW i \in 1..N, g[i - 1] \in X[i - 1] PROVE g[i] \in X[i]
  <2>1. i - 1 \in 0..N /\ i \in 0..N
    BY <1>3
  <2>2. g[i - 1] \in Nat /\ Is(i - 1, g[i - 1])
    BY <1>5, <2>1
  <2>3. g[i] = SkipDefinition(c, g[i - 1], junk)
    BY <2>2
  <2>4. CASE Beyond(c, w, g[i - 1])
    <3>1. Beyond(c, w, g[i])
      BY <2>3, <2>4, SkipBeyond
    <3>2. g[i] \in Nat
      BY <3>1 DEF Beyond
    <3> QED  BY <2>1, <3>1, <3>2
  <2>5. CASE N = n /\ g[i - 1] = at[i - 1]
    <3>1. i \in 1..n
      BY <2>5
    <3>2. g[i] = at[i] \/ Beyond(c, w, g[i])
      BY <2>3, <2>5, <3>1, SkipIs
    <3>3. at[i] \in Nat
      BY <1>1, <3>1
    <3>4. g[i] \in Nat
      BY <3>2, <3>3 DEF Beyond
    <3> QED  BY <2>1, <2>5, <3>2, <3>4
  <2> QED  BY <2>2, <2>4, <2>5
<1>6. \A i \in 0..N : g[i] \in X[i]
  <2> HIDE DEF X
  <2> QED  BY <1>3, <1>4, <1>5, StepsKeepEach
<1>7. \A i \in 0..N : g[i] \in Nat /\ Is(i, g[i])
  BY <1>6
<1>8. N \in 0..N
  BY <1>3
<1> QED  BY <1>3, <1>7, <1>8

\* load does come to an end of the definitions
LEMMA SkipsExist ==
  ASSUME NEW c, NEW w, Begins(c, w), Len(w) \in Nat \ {0}, NEW junk, junk.count \in Nat,
         NEW n \in Nat, NEW d, NEW at, Layed(d, n, w, at), at[n] <= Len(w),
         NEW N, N = Cell(c, 1, junk.count)
  PROVE  \E g : g = [i \in 0..N |-> IF i = 0 THEN 2 ELSE SkipDefinition(c, g[i - 1], junk)]
<1> DEFINE F == [i \in 1..N |-> [x \in Nat |-> SkipDefinition(c, x, junk)]]
<1>1. N \in Nat
  <2>1. N = IF 1 <= Len(c) THEN w[1] ELSE junk.count
    BY CellIs
  <2> QED  BY <2>1 DEF Layed
<1>2. PICK g : IsSteps(g, N, 2, F)
  BY <1>1, StepsExist
<1>3. g = [i \in 0..N |-> IF i = 0 THEN 2 ELSE F[i][g[i - 1]]]
  BY <1>2 DEF IsSteps
<1>4. \A i \in 1..N : \A x \in Nat : F[i][x] = SkipDefinition(c, x, junk)
  OBVIOUS
<1> HIDE DEF F
<1>5. g[0] = 2 /\ \A i \in 1..N : g[i] = F[i][g[i - 1]]
  <2>1. 0 \in 0..N /\ \A i \in 1..N : i \in 0..N /\ i # 0
    BY <1>1
  <2> QED  BY <1>3, <2>1
<1>6. \A i \in 1..N : g[i - 1] \in Nat => g[i] = SkipDefinition(c, g[i - 1], junk)
  BY <1>4, <1>5
<1>7. \A i \in 0..N : g[i] \in Nat
  BY <1>5, <1>6, SkipsAre
<1>8. ASSUME NEW i \in 0..N
      PROVE  g[i] = IF i = 0 THEN 2 ELSE SkipDefinition(c, g[i - 1], junk)
  <2>1. i # 0 => i \in 1..N /\ i - 1 \in 0..N
    BY <1>1
  <2> QED  BY <1>5, <1>6, <1>7, <2>1
<1>9. g = [i \in 0..N |-> g[i]]
  BY <1>3
<1>10. g = [i \in 0..N |-> IF i = 0 THEN 2 ELSE SkipDefinition(c, g[i - 1], junk)]
  <2> DEFINE h == [i \in 0..N |-> IF i = 0 THEN 2 ELSE SkipDefinition(c, g[i - 1], junk)]
  <2>1. \A i \in 0..N : h[i] = g[i]
    BY <1>8
  <2>2. h = [i \in 0..N |-> h[i]]
    OBVIOUS
  <2> HIDE DEF h
  <2>3. g = h
    BY <1>9, <2>1, <2>2
  <2> QED  BY <2>3 DEF h
<1> QED  BY <1>10

\* what load reads behind the definitions: m types from `start` on
AppliedAt(c, junk, start, m, A, T) ==
    /\ Cell(c, start, junk.count) = m
    /\ \A i \in 1..m : /\ Cell(c, start + 2 * i - 1, junk.addr) = A[i]
                       /\ Cell(c, start + 2 * i, junk.count) = T[i]
    /\ \A i, j \in 1..m : A[i] = A[j] => i = j

Reading(c, junk, start) ==
    /\ Cell(c, start, junk.count) \in Nat => IsTable(ReadApplied(c, junk))
    /\ \A m \in Nat : \A A, T : AppliedAt(c, junk, start, m, A, T) =>
         LET r == ReadApplied(c, junk)
         IN /\ r = [a \in DOMAIN r |-> r[a]]
            /\ \A i \in 1..m : A[i] \in DOMAIN r /\ r[A[i]] = T[i]
            /\ \A a \in DOMAIN r : \E i \in 1..m : a = A[i]

LEMMA ReadTypes ==
  ASSUME NEW c, NEW w, Begins(c, w), Len(w) \in Nat \ {0}, NEW junk, junk.count \in Nat,
         NEW n \in Nat, NEW d, NEW at, Layed(d, n, w, at), at[n] <= Len(w)
  PROVE  \E start : (Beyond(c, w, start) \/ start = at[n]) /\ Reading(c, junk, start)
<1> DEFINE N == Cell(c, 1, junk.count)
           places == CHOOSE g : g = [i \in 0..N |-> IF i = 0 THEN 2
                                                 ELSE SkipDefinition(c, g[i - 1], junk)]
           start == places[N]
           M == Cell(c, start, junk.count)
           addr(i) == Cell(c, start + 2 * i - 1, junk.addr)
           type(i) == Cell(c, start + 2 * i, junk.count)
           from(a) == CHOOSE i \in 1..M : addr(i) = a /\ \A j \in (i + 1)..M : addr(j) # a
           r == ReadApplied(c, junk)
<1>1. r = [a \in {addr(i) : i \in 1..M} |-> type(from(a))]
  BY DEF ReadApplied
<1> HIDE DEF r
<1>2. \E g : g = [i \in 0..N |-> IF i = 0 THEN 2 ELSE SkipDefinition(c, g[i - 1], junk)]
  BY SkipsExist
<1>3. places = [i \in 0..N |-> IF i = 0 THEN 2 ELSE SkipDefinition(c, places[i - 1], junk)]
  BY <1>2
<1> HIDE DEF places
<1>4. N \in Nat /\ N = N
  <2>1. N = IF 1 <= Len(c) THEN w[1] ELSE junk.count
    BY CellIs
  <2> QED  BY <2>1 DEF Layed
<1>5. places[0] = 2 /\ \A i \in 1..N : places[i] = SkipDefinition(c, places[i - 1], junk)
  <2>1. 0 \in 0..N /\ \A i \in 1..N : i \in 0..N /\ i # 0
    BY <1>4
  <2> QED  BY <1>3, <2>1
<1>6. Beyond(c, w, start) \/ start = at[n]
  BY <1>5, SkipsAre
<1> HIDE DEF start
<1>7. ASSUME M \in Nat PROVE IsTable(r)
  <2> DEFINE f == [i \in 1..M |-> addr(i)]
  <2>1. DOMAIN r = {f[i] : i \in 1..M} /\ r = [a \in DOMAIN r |-> r[a]]
    BY <1>1
  <2> HIDE DEF f, M
  <2>2. IsFiniteSet(DOMAIN r)
    BY <1>7, <2>1, FiniteImage
  <2> QED  BY <2>1, <2>2 DEF IsTable
<1>8. ASSUME NEW m \in Nat, NEW A, NEW T, AppliedAt(c, junk, start, m, A, T)
      PROVE  /\ r = [a \in DOMAIN r |-> r[a]]
             /\ \A i \in 1..m : A[i] \in DOMAIN r /\ r[A[i]] = T[i]
             /\ \A a \in DOMAIN r : \E i \in 1..m : a = A[i]
  <2>1. /\ M = m
        /\ \A i \in 1..m : addr(i) = A[i] /\ type(i) = T[i]
        /\ \A i, j \in 1..m : A[i] = A[j] => i = j
    BY <1>8 DEF AppliedAt
  <2>2. /\ r = [a \in DOMAIN r |-> r[a]] /\ DOMAIN r = {addr(i) : i \in 1..M}
        /\ \A a \in {addr(i) : i \in 1..M} : r[a] = type(from(a))
    BY <1>1
  <2>3. ASSUME NEW i \in 1..m PROVE A[i] \in {addr(k) : k \in 1..M}
    <3>1. addr(i) = A[i] /\ i \in 1..M
      BY <2>1
    <3> QED  BY <3>1
  <2>4. ASSUME NEW a \in {addr(k) : k \in 1..M} PROVE \E i \in 1..m : a = A[i]
    <3>1. PICK i \in 1..m : a = addr(i)
      BY <2>1
    <3>2. addr(i) = A[i]
      BY <2>1
    <3> QED  BY <3>1, <3>2
  <2>5. ASSUME NEW i \in 1..m PROVE from(A[i]) = i
    <3>1. i \in 1..M /\ addr(i) = A[i]
      BY <2>1
    <3>2. \A j \in (i + 1)..M : j \in 1..m /\ j # i
      BY <2>1
    <3>3. \A j \in (i + 1)..M : addr(j) # A[i]
      BY <2>1, <3>2
    <3>4. ASSUME NEW k \in 1..M, addr(k) = A[i] PROVE k = i
      BY <2>1, <3>4
    <3> QED  BY <3>1, <3>3, <3>4
  <2>6. ASSUME NEW i \in 1..m PROVE r[A[i]] = T[i]
    <3>1. r[A[i]] = type(from(A[i]))
      BY <2>2, <2>3
    <3>2. type(i) = T[i]
      BY <2>1
    <3> QED  BY <2>5, <3>1, <3>2
  <2> QED  BY <2>2, <2>3, <2>4, <2>6
<1>9. Reading(c, junk, start)
  BY <1>7, <1>8 DEF r, Reading
<1> QED  BY <1>6, <1>9

-----------------------------------------------------------------------------
LEMMA LayedEnds ==
  ASSUME NEW n \in Nat, NEW m \in Nat, NEW d, NEW s, NEW w, NEW at,
         Layed(d, n, w, at), Applied(s, m, w, at[n])
  PROVE  at[n] \in Nat \ {0} /\ at[n] <= Len(w) /\ Len(w) \in Nat \ {0}
<1>1. at \in [0..n -> Nat] /\ at[0] = 2 /\ Len(w) = at[n] + 2 * m /\ n \in 0..n
  BY DEF Layed, Applied
<1>2. at[n] # 0
  <2>1. CASE n = 0
    BY <1>1, <2>1
  <2>2. CASE n # 0
    <3>1. n \in 1..n /\ n - 1 \in 0..n
      BY <2>2
    <3>2. /\ at[n] = at[n - 1] + 3 + FieldsOf(d, n) + MembersOf(d, n)
          /\ FieldsOf(d, n) \in Nat /\ MembersOf(d, n) \in Nat
      BY <3>1 DEF Layed
    <3>3. at[n - 1] \in Nat
      BY <1>1, <3>1
    <3> QED  BY <3>2, <3>3
  <2> QED  BY <2>1, <2>2
<1>3. at[n] \in Nat
  BY <1>1
<1> QED  BY <1>1, <1>2, <1>3

LEMMA TypesFinite ==
  ASSUME NEW d, Plain(d), NEW s, IsTable(s), NEW c, Begins(c, WriteTypes(d, s)),
         NEW junk, junk.count \in Nat
  PROVE  IsTable(ReadApplied(c, junk))
<1> DEFINE n == Cardinality(DOMAIN d)
           m == Cardinality(DOMAIN s)
           w == WriteTypes(d, s)
<1>1. n \in Nat /\ m \in Nat /\ \E at : Layed(d, n, w, at) /\ Applied(s, m, w, at[n])
  BY TypesAre
<1>2. Begins(c, w)
  OBVIOUS
<1> HIDE DEF n, m, w
<1>3. PICK at : Layed(d, n, w, at) /\ Applied(s, m, w, at[n])
  BY <1>1
<1>4. at[n] \in Nat \ {0} /\ at[n] <= Len(w) /\ Len(w) \in Nat \ {0}
  BY <1>1, <1>3, LayedEnds
<1>5. w[at[n]] = m
  BY <1>3 DEF Applied
<1>6. PICK start : (Beyond(c, w, start) \/ start = at[n]) /\ Reading(c, junk, start)
  BY <1>1, <1>2, <1>3, <1>4, ReadTypes
<1>7. Cell(c, start, junk.count) \in Nat
  <2>1. CASE Beyond(c, w, start)
    <3>1. Cell(c, start, junk.count) = junk.count
      BY <2>1, <1>2 DEF Beyond, Begins, Cell
    <3> QED  BY <3>1
  <2>2. CASE start = at[n]
    <3>1. start \in Nat \ {0}
      BY <1>4, <2>2
    <3>2. Cell(c, start, junk.count) = IF start <= Len(c) THEN w[start] ELSE junk.count
      BY <1>2, <3>1, CellIs
    <3> QED  BY <1>1, <1>5, <2>2, <3>2
  <2> QED  BY <1>6, <2>1, <2>2
<1> QED  BY <1>6, <1>7 DEF Reading

LEMMA BeginsAll ==
  ASSUME NEW w, Len(w) \in Nat
  PROVE  Begins(w, w)
BY DEF Begins

LEMMA TypesReturn ==
  ASSUME NEW d, Plain(d), NEW s, IsTable(s), NEW junk, junk.count \in Nat
  PROVE  ReadApplied(WriteTypes(d, s), junk) = s
<1> DEFINE n == Cardinality(DOMAIN d)
           m == Cardinality(DOMAIN s)
           w == WriteTypes(d, s)
           K == Keys(s)
           T == [i \in 1..m |-> s[K[i]]]
           r == ReadApplied(w, junk)
<1>1. n \in Nat /\ m \in Nat /\ \E at : Layed(d, n, w, at) /\ Applied(s, m, w, at[n])
  BY TypesAre
<1>2. /\ K \in [1..m -> DOMAIN s]
      /\ \A i, j \in 1..m : K[i] = K[j] => i = j
      /\ \A a \in DOMAIN s : \E i \in 1..m : K[i] = a
  BY KeysAre DEF IsTable
<1>3. \A i \in 1..m : T[i] = s[K[i]]
  OBVIOUS
<1>4. s = [a \in DOMAIN s |-> s[a]]
  BY DEF IsTable
<1> HIDE DEF n, m, w, T, r
<1>5. PICK at : Layed(d, n, w, at) /\ Applied(s, m, w, at[n])
  BY <1>1
<1> DEFINE x == at[n]
<1>6. x \in Nat /\ Len(w) = x + 2 * m /\ w[x] = m
      /\ \A i \in 1..m : w[x + 2 * i - 1] = K[i] /\ w[x + 2 * i] = s[K[i]]
  <2>1. at \in [0..n -> Nat] /\ n \in 0..n
    BY <1>1, <1>5 DEF Layed
  <2>2. x \in Nat
    BY <2>1
  <2> QED  BY <1>5, <2>2 DEF Applied
<1>7. Layed(d, n, w, at) /\ x <= Len(w) /\ Len(w) \in Nat \ {0}
  BY <1>1, <1>5, LayedEnds
<1>8. Begins(w, w)
  BY <1>7, BeginsAll
<1> HIDE DEF K
<1>9. PICK start : (Beyond(w, w, start) \/ start = at[n]) /\ Reading(w, junk, start)
  BY <1>1, <1>7, <1>8, ReadTypes
<1>10. \A k \in Nat : \A A, B : AppliedAt(w, junk, start, k, A, B) =>
         LET q == ReadApplied(w, junk)
         IN /\ q = [a \in DOMAIN q |-> q[a]]
            /\ \A i \in 1..k : A[i] \in DOMAIN q /\ q[A[i]] = B[i]
            /\ \A a \in DOMAIN q : \E i \in 1..k : a = A[i]
  BY <1>9 DEF Reading
<1>11. start = x
  <2>1. ~ Beyond(w, w, start)
    BY <1>7 DEF Beyond
  <2> QED  BY <1>9, <2>1
<1> HIDE DEF x
<1>12. AppliedAt(w, junk, start, m, K, T)
  <2>1. Cell(w, x, junk.count) = m
    BY <1>1, <1>6 DEF Cell
  <2>2. ASSUME NEW i \in 1..m
        PROVE  /\ Cell(w, x + 2 * i - 1, junk.addr) = K[i]
               /\ Cell(w, x + 2 * i, junk.count) = T[i]
    <3>1. x + 2 * i - 1 <= Len(w) /\ x + 2 * i <= Len(w)
      BY <1>1, <1>6
    <3> QED  BY <1>3, <1>6, <3>1 DEF Cell
  <2> QED  BY <1>2, <1>11, <2>1, <2>2 DEF AppliedAt
<1>13. /\ r = [a \in DOMAIN r |-> r[a]]
       /\ \A i \in 1..m : K[i] \in DOMAIN r /\ r[K[i]] = T[i]
       /\ \A a \in DOMAIN r : \E i \in 1..m : a = K[i]
  BY <1>1, <1>10, <1>12 DEF r
<1>14. DOMAIN r = DOMAIN s
  <2>1. \A i \in 1..m : K[i] \in DOMAIN s
    BY <1>2
  <2>2. DOMAIN s \subseteq DOMAIN r
    BY <1>2, <1>13
  <2>3. DOMAIN r \subseteq DOMAIN s
    BY <1>13, <2>1
  <2> QED  BY <2>2, <2>3
<1>15. ASSUME NEW a \in DOMAIN s PROVE r[a] = s[a]
  <2>1. PICK i \in 1..m : K[i] = a
    BY <1>2
  <2> QED  BY <1>3, <1>13, <2>1
<1>16. r = s
  BY <1>4, <1>13, <1>14, <1>15
<1> QED  BY <1>16 DEF r, w

-----------------------------------------------------------------------------
(* The tables of an open file are finite, whatever is typed in, moved or loaded. *)
Finite(d) == IsTable(d.names) /\ IsTable(d.comments) /\ IsTable(d.types) /\ Plain(d.defs)
Filed == db # None => Finite(db)

LEMMA FiniteOf ==
  ASSUME NEW S, IsFiniteSet(S), NEW f
  PROVE  IsFiniteSet({f[a] : a \in S})
<1> DEFINE T == {f[a] : a \in S}
           g == [a \in S |-> f[a]]
<1>1. g \in Surjection(S, T)
  BY DEF Surjection
<1> QED  BY <1>1, FS_Surjection

LEMMA MovedFinite ==
  ASSUME NEW S, IsFiniteSet(S), NEW delta
  PROVE  IsFiniteSet(MoveAll(S, delta))
<1> DEFINE f == [a \in S |-> Moved(a, delta)]
<1>1. MoveAll(S, delta) = {f[a] : a \in S}
  BY DEF MoveAll
<1> HIDE DEF f
<1> QED  BY <1>1, FiniteOf

LEMMA TablesChange ==
  ASSUME NEW t, IsTable(t)
  PROVE  /\ \A a, v : IsTable(With(t, a, v))
         /\ \A new : IsTable(new) => IsTable(Over(t, new))
         /\ \A delta : IsTable(MoveKeys(t, delta))
         /\ \A a : IsTable([b \in DOMAIN t \ {a} |-> t[b]])
<1>0. IsFiniteSet(DOMAIN t)
  BY DEF IsTable
<1>1. ASSUME NEW a, NEW v PROVE IsTable(With(t, a, v))
  <2> DEFINE u == With(t, a, v)
  <2>1. DOMAIN u = DOMAIN t \cup {a} /\ u = [b \in DOMAIN u |-> u[b]]
    BY DEF With
  <2>2. IsFiniteSet(DOMAIN t \cup {a})
    BY <1>0, FS_AddElement
  <2> HIDE DEF u
  <2>3. IsTable(u)
    BY <2>1, <2>2 DEF IsTable
  <2> QED  BY <2>3 DEF u
<1>2. ASSUME NEW new, IsTable(new) PROVE IsTable(Over(t, new))
  <2> DEFINE u == Over(t, new)
  <2>1. DOMAIN u = DOMAIN t \cup DOMAIN new /\ u = [b \in DOMAIN u |-> u[b]]
    BY DEF Over
  <2>2. IsFiniteSet(DOMAIN t \cup DOMAIN new)
    BY <1>0, <1>2, FS_Union DEF IsTable
  <2> HIDE DEF u
  <2>3. IsTable(u)
    BY <2>1, <2>2 DEF IsTable
  <2> QED  BY <2>3 DEF u
<1>3. ASSUME NEW delta PROVE IsTable(MoveKeys(t, delta))
  <2> DEFINE u == MoveKeys(t, delta)
  <2>1. DOMAIN u = MoveAll(DOMAIN t, delta) /\ u = [b \in DOMAIN u |-> u[b]]
    BY DEF MoveKeys, MoveAll
  <2>2. IsFiniteSet(MoveAll(DOMAIN t, delta))
    BY <1>0, MovedFinite
  <2> HIDE DEF u
  <2>3. IsTable(u)
    BY <2>1, <2>2 DEF IsTable
  <2> QED  BY <2>3 DEF u
<1>4. ASSUME NEW a PROVE IsTable([b \in DOMAIN t \ {a} |-> t[b]])
  <2> DEFINE u == [b \in DOMAIN t \ {a} |-> t[b]]
  <2>1. DOMAIN u = DOMAIN t \ {a} /\ u = [b \in DOMAIN u |-> u[b]]
    OBVIOUS
  <2>2. IsFiniteSet(DOMAIN t \ {a})
    BY <1>0, FS_Difference
  <2> HIDE DEF u
  <2>3. IsTable(u)
    BY <2>1, <2>2 DEF IsTable
  <2> QED  BY <2>3 DEF u
<1> QED  BY <1>1, <1>2, <1>3, <1>4

LEMMA EmptyTable == IsTable(<< >>) /\ Plain(<< >>)
<1> DEFINE t == << >>
<1>1. DOMAIN t = {} /\ t = [a \in DOMAIN t |-> t[a]]
  OBVIOUS
<1> HIDE DEF t
<1>2. IsFiniteSet(DOMAIN t)
  BY <1>1, FS_EmptySet
<1>3. IsTable(t) /\ Plain(t)
  BY <1>1, <1>2 DEF IsTable, Plain
<1> QED  BY <1>3 DEF t

LEMMA AnalysedFinite ==
  ASSUME NEW base
  PROVE  Finite(Analysed(base))
<1> DEFINE d == Analysed(base)
           S == MoveAll(DOMAIN Layout.funcs, base)
           defs == [i \in {1} |-> [kind |-> "struct", fields |-> <<0>>, members |-> << >>, as |-> 1]]
<1>1. /\ d.names = [e \in S |-> Layout.funcs[Moved(e, -base)].name]
      /\ d.comments = << >> /\ d.types = << >> /\ d.defs = defs
  BY DEF Analysed
<1>2. IsFiniteSet(S)
  BY MovedFinite, LayoutAssumption
<1> HIDE DEF d, S
<1>3. IsTable(d.names)
  <2>1. DOMAIN d.names = S /\ d.names = [e \in DOMAIN d.names |-> d.names[e]]
    BY <1>1
  <2> QED  BY <1>2, <2>1 DEF IsTable
<1>4. Plain(defs)
  <2>1. DOMAIN defs = {1} /\ IsFiniteSet({1})
    BY FS_Singleton
  <2>2. defs[1] = [kind |-> "struct", fields |-> <<0>>, members |-> << >>, as |-> 1]
    OBVIOUS
  <2> HIDE DEF defs
  <2>3. <<0>> \in Seq({0}) /\ << >> \in Seq({0})
    OBVIOUS
  <2>4. DOMAIN defs[1] = {"kind", "fields", "members", "as"} /\ defs[1].fields = <<0>>
        /\ defs[1].members = << >>
    BY <2>2
  <2>5. \A i \in DOMAIN defs : i = 1
    BY <2>1
  <2> QED  BY <2>1, <2>3, <2>4, <2>5 DEF Plain
<1> HIDE DEF defs
<1>5. Finite(d)
  BY <1>1, <1>3, <1>4, EmptyTable DEF Finite
<1> QED  BY <1>5 DEF d

\* definitions that are made, extended, shrunk and deleted
IsEntry(d) == /\ DOMAIN d = {"kind", "fields", "members", "as"}
              /\ d.fields \in Seq({0}) /\ d.members \in Seq({0})

LEMMA PlainIs ==
  ASSUME NEW defs
  PROVE  Plain(defs) <=> IsFiniteSet(DOMAIN defs) /\ \A i \in DOMAIN defs : IsEntry(defs[i])
BY DEF Plain, IsEntry

LEMMA PlainWith ==
  ASSUME NEW defs, Plain(defs), NEW i, NEW d, IsEntry(d)
  PROVE  Plain(With(defs, i, d))
<1> DEFINE e == With(defs, i, d)
<1>0. IsFiniteSet(DOMAIN defs) /\ \A k \in DOMAIN defs : IsEntry(defs[k])
  BY PlainIs
<1>1. /\ DOMAIN e = DOMAIN defs \cup {i}
      /\ \A k \in DOMAIN e : e[k] = IF k = i THEN d ELSE defs[k]
  BY DEF With
<1>2. IsFiniteSet(DOMAIN defs \cup {i})
  BY <1>0, FS_AddElement
<1> HIDE DEF e
<1>3. ASSUME NEW k \in DOMAIN e PROVE IsEntry(e[k])
  <2>1. CASE k = i
    BY <1>1, <2>1
  <2>2. CASE k # i
    <3>1. e[k] = defs[k] /\ k \in DOMAIN defs
      BY <1>1, <2>2
    <3> QED  BY <1>0, <3>1
  <2> QED  BY <2>1, <2>2
<1>4. Plain(e)
  BY <1>1, <1>2, <1>3, PlainIs
<1> QED  BY <1>4 DEF e

LEMMA PlainLess ==
  ASSUME NEW defs, Plain(defs), NEW i
  PROVE  Plain([k \in DOMAIN defs \ {i} |-> defs[k]])
<1> DEFINE e == [k \in DOMAIN defs \ {i} |-> defs[k]]
<1>0. IsFiniteSet(DOMAIN defs) /\ \A k \in DOMAIN defs : IsEntry(defs[k])
  BY PlainIs
<1>1. DOMAIN e = DOMAIN defs \ {i} /\ \A k \in DOMAIN e : k \in DOMAIN defs /\ e[k] = defs[k]
  OBVIOUS
<1>2. IsFiniteSet(DOMAIN defs \ {i})
  BY <1>0, FS_Difference
<1> HIDE DEF e
<1>3. ASSUME NEW k \in DOMAIN e PROVE IsEntry(e[k])
  BY <1>0, <1>1
<1>4. Plain(e)
  BY <1>1, <1>2, <1>3, PlainIs
<1> QED  BY <1>4 DEF e

LEMMA PlainWhere ==
  ASSUME NEW defs, Plain(defs), NEW i \in DOMAIN defs, NEW e, DOMAIN e = DOMAIN defs,
         \A k \in DOMAIN defs \ {i} : e[k] = defs[k], IsEntry(e[i])
  PROVE  Plain(e)
<1>0. IsFiniteSet(DOMAIN defs) /\ \A k \in DOMAIN defs : IsEntry(defs[k])
  BY PlainIs
<1>1. ASSUME NEW k \in DOMAIN e PROVE IsEntry(e[k])
  <2>1. CASE k = i
    BY <2>1
  <2>2. CASE k # i
    <3>1. e[k] = defs[k] /\ k \in DOMAIN defs
      BY <2>2
    <3> QED  BY <1>0, <3>1
  <2> QED  BY <2>1, <2>2
<1> QED  BY <1>0, <1>1, PlainIs

LEMMA EntryWith ==
  ASSUME NEW d, IsEntry(d), NEW t \in Seq({0})
  PROVE  IsEntry([d EXCEPT !.fields = t]) /\ IsEntry([d EXCEPT !.members = t])
<1> DEFINE e == [d EXCEPT !.fields = t]
           g == [d EXCEPT !.members = t]
<1>1. DOMAIN e = DOMAIN d /\ e.fields = t /\ e.members = d.members
  BY DEF IsEntry
<1>2. DOMAIN g = DOMAIN d /\ g.fields = d.fields /\ g.members = t
  BY DEF IsEntry
<1> HIDE DEF e, g
<1>3. IsEntry(e) /\ IsEntry(g)
  BY <1>1, <1>2 DEF IsEntry
<1> QED  BY <1>3 DEF e, g

-----------------------------------------------------------------------------
(* What a file of a project holds: the beginning of what some table was written
   as, and all of it when it is known what it is made from.                     *)
TableFile(r) ==
    \E t : /\ IsTable(t) /\ Begins(r.cells, WriteTable(t))
           /\ r.of # None => r.of = t /\ r.cells = WriteTable(t)
TypesFile(r) ==
    \E d, s : /\ Plain(d) /\ IsTable(s) /\ Begins(r.cells, WriteTypes(d, s))
              /\ r.of # None => r.of = s /\ r.cells = WriteTypes(d, s)
Holds(f, r) == (f \in {"names", "comments"} => TableFile(r)) /\ (f = "types" => TypesFile(r))
Archived == \A p \in Path : \A f \in DOMAIN disk[p] : Holds(f, disk[p][f])

LEMMA RewrittenArchive ==
  ASSUME DeskInv, Archived, NEW cells, NEW of, disk' = Rewritten(path, cells, of),
         Holds(Head(saving), [cells |-> cells, of |-> of])
  PROVE  Archived'
<1> SUFFICES ASSUME NEW p \in Path, NEW f \in DOMAIN disk'[p]
             PROVE  Holds(f, disk'[p][f])
  BY DEF Archived
<1>1. DOMAIN disk = Path
  BY DEF DeskInv, Projects
<1>2. CASE path = p
  <2>1. disk'[p] = [g \in DOMAIN disk[p] \cup {Head(saving)} |->
                      IF g = Head(saving) THEN [cells |-> cells, of |-> of] ELSE disk[p][g]]
    BY <1>1, <1>2 DEF Rewritten
  <2>2. CASE f = Head(saving)
    <3>1. disk'[p][f] = [cells |-> cells, of |-> of]
      BY <2>1, <2>2
    <3> QED  BY <3>1, <2>2
  <2>3. CASE f # Head(saving)
    <3>1. f \in DOMAIN disk[p] /\ disk'[p][f] = disk[p][f]
      BY <2>1, <2>3
    <3> QED  BY <3>1 DEF Archived
  <2> QED  BY <2>2, <2>3
<1>3. CASE path # p
  <2>1. disk'[p] = disk[p]
    BY <1>1, <1>3 DEF Rewritten
  <2> QED  BY <2>1 DEF Archived
<1> QED  BY <1>2, <1>3

\* a table of which the first k cells were written
LEMMA TableTorn ==
  ASSUME NEW t, IsTable(t)
  PROVE  /\ TableFile([cells |-> WriteTable(t), of |-> t])
         /\ \A k \in 0..Len(WriteTable(t)) :
              TableFile([cells |-> SubSeq(WriteTable(t), 1, k), of |-> None])
<1> DEFINE w == WriteTable(t)
<1>1. \E V : w \in Seq(V)
  BY TableIs DEF IsTable
<1> HIDE DEF w
<1>2. Begins(w, w) /\ \A j \in 0..Len(w) : Begins(SubSeq(w, 1, j), w)
  BY <1>1 DEF Begins
<1>3. TableFile([cells |-> w, of |-> t])
  BY <1>2 DEF TableFile, w
<1>4. ASSUME NEW k \in 0..Len(w) PROVE TableFile([cells |-> SubSeq(w, 1, k), of |-> None])
  BY <1>2 DEF TableFile, w
<1> QED  BY <1>3, <1>4 DEF w

LEMMA TypesTorn ==
  ASSUME NEW d, NEW s, Plain(d), IsTable(s)
  PROVE  /\ TypesFile([cells |-> WriteTypes(d, s), of |-> s])
         /\ \A k \in 0..Len(WriteTypes(d, s)) :
              TypesFile([cells |-> SubSeq(WriteTypes(d, s), 1, k), of |-> None])
<1> DEFINE w == WriteTypes(d, s)
<1>1. \E V : w \in Seq(V)
  BY TypesAre DEF Layed
<1> HIDE DEF w
<1>2. Begins(w, w) /\ \A j \in 0..Len(w) : Begins(SubSeq(w, 1, j), w)
  BY <1>1 DEF Begins
<1>3. TypesFile([cells |-> w, of |-> s])
  BY <1>2 DEF TypesFile, w
<1>4. ASSUME NEW k \in 0..Len(w) PROVE TypesFile([cells |-> SubSeq(w, 1, k), of |-> None])
  BY <1>2 DEF TypesFile, w
<1> QED  BY <1>3, <1>4 DEF w

LEMMA FileTorn ==
  ASSUME Finite(db), NEW f
  PROVE  /\ Holds(f, [cells |-> Contents(f, img, db), of |-> Table(f)])
         /\ \A k \in 0..Len(Contents(f, img, db)) :
              Holds(f, [cells |-> SubSeq(Contents(f, img, db), 1, k), of |-> None])
<1>1. CASE f = "names"
  <2>1. Contents(f, img, db) = WriteTable(db.names) /\ Table(f) = db.names
    BY <1>1 DEF Contents, Table
  <2> QED  BY <1>1, <2>1, TableTorn DEF Holds, Finite
<1>2. CASE f = "comments"
  <2>1. Contents(f, img, db) = WriteTable(db.comments) /\ Table(f) = db.comments
    BY <1>2 DEF Contents, Table
  <2> QED  BY <1>2, <2>1, TableTorn DEF Holds, Finite
<1>3. CASE f = "types"
  <2>1. Contents(f, img, db) = WriteTypes(db.defs, db.types) /\ Table(f) = db.types
    BY <1>3 DEF Contents, Table
  <2> QED  BY <1>3, <2>1, TypesTorn DEF Holds, Finite
<1> QED  BY <1>1, <1>2, <1>3 DEF Holds

LEMMA ArchiveStep == DeskInv /\ Filed /\ Archived /\ [Next]_vars => Archived'
<1> SUFFICES ASSUME DeskInv, Filed, Archived, [Next]_vars PROVE Archived'  OBVIOUS
<1>1. CASE WriteFile \/ Crash
  <2>1. Finite(db)
    BY <1>1 DEF WriteFile, Crash, DeskInv, Saving, Filed
  <2>2. CASE WriteFile
    <3>1. disk' = Rewritten(path, Contents(Head(saving), img, db), Table(Head(saving)))
      BY <2>2 DEF WriteFile
    <3>2. Holds(Head(saving), [cells |-> Contents(Head(saving), img, db), of |-> Table(Head(saving))])
      BY <2>1, FileTorn
    <3> QED  BY <3>1, <3>2, RewrittenArchive
  <2>3. CASE Crash
    <3>1. PICK k \in 0..Len(Contents(Head(saving), img, db)) :
            disk' = Rewritten(path, SubSeq(Contents(Head(saving), img, db), 1, k), None)
      BY <2>3 DEF Crash, Torn
    <3>2. Holds(Head(saving), [cells |-> SubSeq(Contents(Head(saving), img, db), 1, k), of |-> None])
      BY <2>1, FileTorn
    <3> QED  BY <3>1, <3>2, RewrittenArchive
  <2> QED  BY <1>1, <2>2, <2>3
<1>2. CASE UNCHANGED disk
  BY <1>2 DEF Archived
<1> QED  BY <1>1, <1>2, Writers

-----------------------------------------------------------------------------
LEMMA SameFinite ==
  ASSUME NEW d, Finite(d), NEW e, e.names = d.names, e.comments = d.comments,
         e.types = d.types, e.defs = d.defs
  PROVE  Finite(e)
BY DEF Finite

\* one table of a database is another one
LEMMA OneTable ==
  ASSUME NEW d, Finite(d), DOMAIN d = Tables, NEW t
  PROVE  /\ IsTable(t) => /\ Finite([d EXCEPT !.names = t]) /\ Finite([d EXCEPT !.comments = t])
                          /\ Finite([d EXCEPT !.types = t])
         /\ Plain(t) => Finite([d EXCEPT !.defs = t])
         /\ Finite([d EXCEPT !.patches = t])
<1>1. ASSUME NEW e, e = [d EXCEPT !.names = t], IsTable(t) PROVE Finite(e)
  <2>1. e.names = t /\ e.comments = d.comments /\ e.types = d.types /\ e.defs = d.defs
    BY <1>1 DEF Tables
  <2> QED  BY <1>1, <2>1 DEF Finite
<1>2. ASSUME NEW e, e = [d EXCEPT !.comments = t], IsTable(t) PROVE Finite(e)
  <2>1. e.names = d.names /\ e.comments = t /\ e.types = d.types /\ e.defs = d.defs
    BY <1>2 DEF Tables
  <2> QED  BY <1>2, <2>1 DEF Finite
<1>3. ASSUME NEW e, e = [d EXCEPT !.types = t], IsTable(t) PROVE Finite(e)
  <2>1. e.names = d.names /\ e.comments = d.comments /\ e.types = t /\ e.defs = d.defs
    BY <1>3 DEF Tables
  <2> QED  BY <1>3, <2>1 DEF Finite
<1>4. ASSUME NEW e, e = [d EXCEPT !.defs = t], Plain(t) PROVE Finite(e)
  <2>1. e.names = d.names /\ e.comments = d.comments /\ e.types = d.types /\ e.defs = t
    BY <1>4 DEF Tables
  <2> QED  BY <1>4, <2>1 DEF Finite
<1>5. ASSUME NEW e, e = [d EXCEPT !.patches = t] PROVE Finite(e)
  <2>1. e.names = d.names /\ e.comments = d.comments /\ e.types = d.types /\ e.defs = d.defs
    BY <1>5 DEF Tables
  <2> QED  BY <2>1, SameFinite
<1> QED  BY <1>1, <1>2, <1>3, <1>4, <1>5

LEMMA NewFinite ==
  ASSUME Finite(db), DOMAIN db = Tables, NEW kind
  PROVE  Finite(NewDefinition(kind))
<1> DEFINE d == Definition(kind)
           e == NewDefinition(kind)
<1>1. IsEntry(d)
  BY DEF Definition, IsEntry
<1>2. e.names = db.names /\ e.comments = db.comments /\ e.types = db.types
      /\ e.defs = With(db.defs, db.nextId, d)
  BY DEF NewDefinition, Tables
<1> HIDE DEF d, e
<1>3. Finite(e)
  BY <1>1, <1>2, PlainWith DEF Finite
<1> QED  BY <1>3 DEF e

\* a definition of the table gets other fields or members
LEMMA GrownFinite ==
  ASSUME Finite(db), DOMAIN db = Tables, NEW i \in DOMAIN db.defs, NEW t \in Seq({0})
  PROVE  /\ Finite([db EXCEPT !.defs[i].fields = t])
         /\ Finite([db EXCEPT !.defs[i].members = t])
<1> DEFINE defs == db.defs
           r == defs[i]
           e == [db EXCEPT !.defs[i].fields = t]
           g == [db EXCEPT !.defs[i].members = t]
<1>1. Plain(defs) /\ IsEntry(r) /\ i \in DOMAIN defs
  BY PlainIs DEF Finite
<1>2. /\ e.names = db.names /\ e.comments = db.comments /\ e.types = db.types
      /\ DOMAIN e.defs = DOMAIN defs /\ e.defs[i] = [r EXCEPT !.fields = t]
      /\ \A k \in DOMAIN defs \ {i} : e.defs[k] = defs[k]
  BY DEF Tables
<1>3. /\ g.names = db.names /\ g.comments = db.comments /\ g.types = db.types
      /\ DOMAIN g.defs = DOMAIN defs /\ g.defs[i] = [r EXCEPT !.members = t]
      /\ \A k \in DOMAIN defs \ {i} : g.defs[k] = defs[k]
  BY DEF Tables
<1> HIDE DEF defs, r, e, g
<1>4. Finite(e)
  <2>0. IsEntry([r EXCEPT !.fields = t])
    BY <1>1, EntryWith, Zenon
  <2>1. IsEntry(e.defs[i])
    BY <1>2, <2>0, Zenon
  <2>2. Plain(e.defs)
    BY <1>1, <1>2, <2>1, PlainWhere
  <2> QED  BY <1>2, <2>2 DEF Finite
<1>5. Finite(g)
  <2>0. IsEntry([r EXCEPT !.members = t])
    BY <1>1, EntryWith, Zenon
  <2>1. IsEntry(g.defs[i])
    BY <1>3, <2>0, Zenon
  <2>2. Plain(g.defs)
    BY <1>1, <1>3, <2>1, PlainWhere
  <2> QED  BY <1>3, <2>2 DEF Finite
<1> QED  BY <1>4, <1>5 DEF e, g, defs, r

LEMMA EditedFinite ==
  ASSUME Finite(db), DOMAIN db = Tables,
         Rename \/ Comment \/ Patch \/ AddDefinition \/ ExtendDefinition
           \/ ShrinkDefinition \/ DeleteDefinition \/ ApplyType \/ RemoveApplied
  PROVE  Finite(db')
<1>1. IsTable(db.names) /\ IsTable(db.comments) /\ IsTable(db.types) /\ Plain(db.defs)
  BY DEF Finite
<1>2. CASE Rename
  <2>1. PICK t : db' = [db EXCEPT !.names = With(db.names, cursor, t)]
    BY <1>2 DEF Rename, Edit
  <2>2. IsTable(With(db.names, cursor, t))
    BY <1>1, TablesChange
  <2> QED  BY <2>1, <2>2, OneTable
<1>3. CASE Comment
  <2>1. PICK t : db' = [db EXCEPT !.comments = With(db.comments, cursor, t)]
    BY <1>3 DEF Comment, Edit
  <2>2. IsTable(With(db.comments, cursor, t))
    BY <1>1, TablesChange
  <2> QED  BY <2>1, <2>2, OneTable
<1>4. CASE Patch
  <2>1. db' = [db EXCEPT !.patches = With(db.patches, cursor, <<Nop>>)]
    BY <1>4 DEF Patch, Edit
  <2> QED  BY <2>1, OneTable
<1>5. CASE AddDefinition
  <2>1. PICK kind : db' = NewDefinition(kind)
    BY <1>5 DEF AddDefinition
  <2> QED  BY <2>1, NewFinite
<1>6. CASE ExtendDefinition
  <2>1. /\ selected \in DOMAIN db.defs
        /\ \/ db' = [db EXCEPT !.defs[selected].fields = Append(db.defs[selected].fields, 0)]
           \/ db' = [db EXCEPT !.defs[selected].members = Append(db.defs[selected].members, 0)]
    BY <1>6 DEF ExtendDefinition, Edit
  <2>2. IsEntry(db.defs[selected])
    BY <1>1, <2>1, PlainIs
  <2>3. /\ Append(db.defs[selected].fields, 0) \in Seq({0})
        /\ Append(db.defs[selected].members, 0) \in Seq({0})
    BY <2>2 DEF IsEntry
  <2> QED  BY <2>1, <2>3, GrownFinite
<1>7. CASE ShrinkDefinition
  <2>1. /\ selected \in DOMAIN db.defs
        /\ \/ /\ db.defs[selected].fields # << >>
              /\ db' = [db EXCEPT !.defs[selected].fields = Tail(db.defs[selected].fields)]
           \/ /\ db.defs[selected].members # << >>
              /\ db' = [db EXCEPT !.defs[selected].members = Tail(db.defs[selected].members)]
    BY <1>7 DEF ShrinkDefinition, Edit
  <2>2. IsEntry(db.defs[selected])
    BY <1>1, <2>1, PlainIs
  <2>3. \A s \in Seq({0}) : s # << >> => Tail(s) \in Seq({0})
    OBVIOUS
  <2>4. CASE /\ db.defs[selected].fields # << >>
             /\ db' = [db EXCEPT !.defs[selected].fields = Tail(db.defs[selected].fields)]
    <3>1. Tail(db.defs[selected].fields) \in Seq({0})
      BY <2>2, <2>3, <2>4 DEF IsEntry
    <3> QED  BY <2>1, <2>4, <3>1, GrownFinite
  <2>5. CASE /\ db.defs[selected].members # << >>
             /\ db' = [db EXCEPT !.defs[selected].members = Tail(db.defs[selected].members)]
    <3>1. Tail(db.defs[selected].members) \in Seq({0})
      BY <2>2, <2>3, <2>5 DEF IsEntry
    <3> QED  BY <2>1, <2>5, <3>1, GrownFinite
  <2> QED  BY <2>1, <2>4, <2>5
<1>8. CASE DeleteDefinition
  <2>1. db' = [db EXCEPT !.defs = [i \in DOMAIN db.defs \ {selected} |-> db.defs[i]]]
    BY <1>8 DEF DeleteDefinition
  <2>2. Plain([i \in DOMAIN db.defs \ {selected} |-> db.defs[i]])
    BY <1>1, PlainLess
  <2> QED  BY <2>1, <2>2, OneTable
<1>9. CASE ApplyType
  <2>1. PICK id : db' = [db EXCEPT !.types = With(db.types, cursor, id)]
    BY <1>9 DEF ApplyType
  <2>2. IsTable(With(db.types, cursor, id))
    BY <1>1, TablesChange
  <2> QED  BY <2>1, <2>2, OneTable
<1>10. CASE RemoveApplied
  <2>1. db' = [db EXCEPT !.types = [a \in DOMAIN db.types \ {cursor} |-> db.types[a]]]
    BY <1>10 DEF RemoveApplied
  <2>2. IsTable([a \in DOMAIN db.types \ {cursor} |-> db.types[a]])
    BY <1>1, TablesChange
  <2> QED  BY <2>1, <2>2, OneTable
<1> QED  BY <1>2, <1>3, <1>4, <1>5, <1>6, <1>7, <1>8, <1>9, <1>10

LEMMA RebasedFinite ==
  ASSUME NEW d, Finite(d), DOMAIN d = Tables, NEW delta
  PROVE  Finite(Rebased(d, delta))
<1> DEFINE e == Rebased(d, delta)
<1>1. /\ e.names = MoveKeys(d.names, delta) /\ e.comments = MoveKeys(d.comments, delta)
      /\ e.types = d.types /\ e.defs = d.defs
  BY DEF Rebased, Tables
<1> HIDE DEF e
<1>2. Finite(e)
  BY <1>1, TablesChange DEF Finite
<1> QED  BY <1>2 DEF e

-----------------------------------------------------------------------------
\* a project without types.bin is read as one without types
NoFile == <<0, 0>>
CellsOf(p, f) == IF f \in DOMAIN disk[p] THEN disk[p][f].cells ELSE NoFile

LEMMA NoFileRead ==
  ASSUME NEW junk, junk.count \in Nat
  PROVE  IsTable(ReadTable(NoFile, junk)) /\ IsTable(ReadApplied(NoFile, junk))
<1> DEFINE d == << >>
           s == << >>
           w == WriteTypes(d, s)
<1>1. Plain(d) /\ IsTable(s)
  BY EmptyTable
<1>2. Cardinality(DOMAIN d) = 0 /\ Cardinality(DOMAIN s) = 0
  <2>1. DOMAIN d = {} /\ DOMAIN s = {}
    OBVIOUS
  <2> HIDE DEF d, s
  <2> QED  BY <2>1, FS_EmptySet
<1> HIDE DEF d, s
<1>3. \E at : Layed(d, 0, w, at) /\ Applied(s, 0, w, at[0])
  BY <1>1, <1>2, TypesAre
<1> HIDE DEF w
<1>4. w[1] = 0 /\ w[2] = 0 /\ Len(w) = 2
  <2>1. PICK at : Layed(d, 0, w, at) /\ Applied(s, 0, w, at[0])
    BY <1>3
  <2>2. at[0] = 2 /\ w[1] = 0
    BY <2>1 DEF Layed
  <2>3. w[at[0]] = 0 /\ Len(w) = at[0] + 2 * 0
    BY <2>1 DEF Applied
  <2> QED  BY <2>2, <2>3
<1>5. Begins(NoFile, w)
  <2>1. Len(NoFile) = 2 /\ \A i \in 1..2 : NoFile[i] = 0
    BY DEF NoFile
  <2> HIDE DEF NoFile
  <2>2. \A i \in 1..2 : i = 1 \/ i = 2
    OBVIOUS
  <2> QED  BY <1>4, <2>1, <2>2 DEF Begins
<1>6. IsTable(ReadApplied(NoFile, junk))
  BY <1>1, <1>5, TypesFinite DEF w
<1>7. Cell(NoFile, 1, junk.count) \in Nat
  BY DEF Cell, NoFile
<1> QED  BY <1>6, <1>7, ReadFinite

LEMMA ArchiveRead ==
  ASSUME Archived, NEW p \in Path, NEW junk, junk.count \in Nat
  PROVE  /\ IsTable(ReadTable(CellsOf(p, "names"), junk))
         /\ IsTable(ReadTable(CellsOf(p, "comments"), junk))
         /\ IsTable(ReadApplied(CellsOf(p, "types"), junk))
<1>1. ASSUME NEW f \in {"names", "comments"}
      PROVE  IsTable(ReadTable(CellsOf(p, f), junk))
  <2>1. CASE f \in DOMAIN disk[p]
    <3>1. TableFile(disk[p][f]) /\ CellsOf(p, f) = disk[p][f].cells
      BY <2>1 DEF Archived, Holds, CellsOf
    <3> DEFINE c == disk[p][f].cells
    <3>2. PICK t : IsTable(t) /\ Begins(c, WriteTable(t))
      BY <3>1 DEF TableFile
    <3> HIDE DEF c
    <3>3. IsTable(ReadTable(c, junk))
      BY <3>2, PrefixFinite
    <3> QED  BY <3>1, <3>3 DEF c
  <2>2. CASE f \notin DOMAIN disk[p]
    BY <2>2, NoFileRead DEF CellsOf
  <2> QED  BY <2>1, <2>2
<1>2. IsTable(ReadApplied(CellsOf(p, "types"), junk))
  <2>1. CASE "types" \in DOMAIN disk[p]
    <3>1. TypesFile(disk[p]["types"]) /\ CellsOf(p, "types") = disk[p]["types"].cells
      BY <2>1 DEF Archived, Holds, CellsOf
    <3> DEFINE c == disk[p]["types"].cells
    <3>2. PICK d, s : Plain(d) /\ IsTable(s) /\ Begins(c, WriteTypes(d, s))
      BY <3>1 DEF TypesFile
    <3> HIDE DEF c
    <3>3. IsTable(ReadApplied(c, junk))
      BY <3>2, TypesFinite
    <3> QED  BY <3>1, <3>3 DEF c
  <2>2. CASE "types" \notin DOMAIN disk[p]
    BY <2>2, NoFileRead DEF CellsOf
  <2> QED  BY <2>1, <2>2
<1> QED  BY <1>1, <1>2

\* what load puts in the place of the tables
LEMMA LoadIs ==
  ASSUME NEW p, Load(p)
  PROVE  \E junk : /\ junk.count \in Nat
                   /\ db' = [db EXCEPT !.names = Over(db.names, ReadTable(CellsOf(p, "names"), junk)),
                                       !.comments = Over(db.comments, ReadTable(CellsOf(p, "comments"), junk)),
                                       !.types = Over(db.types, ReadApplied(CellsOf(p, "types"), junk))]
<1> DEFINE J == {[count |-> n, addr |-> 0, text |-> [id |-> "zeros", len |-> 0]] : n \in JunkCounts}
<1>1. \E junk \in J :
        db' = [db EXCEPT !.names = Over(db.names, ReadTable(CellsOf(p, "names"), junk)),
                         !.comments = Over(db.comments, ReadTable(CellsOf(p, "comments"), junk)),
                         !.types = Over(db.types, ReadApplied(CellsOf(p, "types"), junk))]
  BY DEF Load, CellsOf, NoFile
<1>2. \A junk \in J : junk.count \in Nat
  BY JunkAssumption
<1> HIDE DEF J
<1> QED  BY <1>1, <1>2

LEMMA LoadedFinite ==
  ASSUME DeskInv, Archived, db # None, Finite(db), LoadProject
  PROVE  Finite(db')
<1>1. path \in Path /\ DOMAIN db = Tables
  BY DEF DeskInv, Image, Cited
<1>2. Load(path)
  BY DEF LoadProject
<1>3. PICK junk : /\ junk.count \in Nat
                  /\ db' = [db EXCEPT !.names = Over(db.names, ReadTable(CellsOf(path, "names"), junk)),
                              !.comments = Over(db.comments, ReadTable(CellsOf(path, "comments"), junk)),
                              !.types = Over(db.types, ReadApplied(CellsOf(path, "types"), junk))]
  BY <1>2, LoadIs
<1> DEFINE n == ReadTable(CellsOf(path, "names"), junk)
           c == ReadTable(CellsOf(path, "comments"), junk)
           s == ReadApplied(CellsOf(path, "types"), junk)
<1>4. IsTable(n) /\ IsTable(c) /\ IsTable(s)
  BY <1>1, <1>3, ArchiveRead
<1>5. db' = [db EXCEPT !.names = Over(db.names, n), !.comments = Over(db.comments, c),
                       !.types = Over(db.types, s)]
  BY <1>3
<1> HIDE DEF n, c, s
<1>6. /\ db'.names = Over(db.names, n) /\ db'.comments = Over(db.comments, c)
      /\ db'.types = Over(db.types, s) /\ db'.defs = db.defs
  BY <1>1, <1>5 DEF Tables
<1> QED  BY <1>4, <1>6, TablesChange DEF Finite

LEMMA FiledStep == DeskInv /\ Archived /\ Filed /\ [Next]_vars => Filed'
<1> SUFFICES ASSUME DeskInv, Archived, Filed, [Next]_vars PROVE Filed'  OBVIOUS
<1>0. db # None => Finite(db) /\ DOMAIN db = Tables
  BY DEF Filed, DeskInv, Image, Cited
<1>1. CASE OpenAny
  <2>1. PICK p \in Path : db' = Analysed(Base[p])
    BY <1>1 DEF OpenAny, Open
  <2> QED  BY <2>1, AnalysedFinite DEF Filed
<1>2. CASE \/ GoToDialog \/ FollowBookmark \/ NavBack \/ NavForward \/ UserClicks \/ Bookmark
           \/ SelectDefinition \/ Save \/ WriteFile \/ SaveFails \/ UNCHANGED vars
  <2>1. UNCHANGED db
    BY <1>2 DEF GoToDialog, FollowBookmark, UserGoesTo, NavBack, NavForward, UserClicks, Bookmark,
                SelectDefinition, Save, WriteFile, SaveFails, vars, desk
  <2> QED  BY <2>1 DEF Filed
<1>3. CASE Crash \/ Quit
  BY <1>3 DEF Crash, Quit, CloseDesk, Filed
<1>4. CASE \/ Rename \/ Comment \/ Patch \/ AddDefinition \/ ExtendDefinition
           \/ ShrinkDefinition \/ DeleteDefinition \/ ApplyType \/ RemoveApplied
  <2>1. db # None
    BY <1>4 DEF Rename, Comment, Patch, AddDefinition, ExtendDefinition, ShrinkDefinition,
                DeleteDefinition, ApplyType, RemoveApplied, Desk
  <2> QED  BY <1>0, <1>4, <2>1, EditedFinite DEF Filed
<1>5. CASE RebaseTo
  <2>1. db # None /\ \E delta : db' = Rebased(db, delta)
    BY <1>5 DEF RebaseTo, Rebase, Desk
  <2> QED  BY <1>0, <2>1, RebasedFinite DEF Filed
<1>6. CASE LoadProject
  <2>1. db # None
    BY <1>6 DEF LoadProject, Desk
  <2> QED  BY <1>0, <1>6, <2>1, LoadedFinite DEF Filed
<1> QED  BY <1>1, <1>2, <1>3, <1>4, <1>5, <1>6 DEF Next

LEMMA FilesHold == Spec => [](DeskInv /\ Filed /\ Archived)
<1>1. Init => Filed /\ Archived
  <2>1. Init => Filed
    BY DEF Init, Closed, Filed
  <2>2. Init => Archived
    <3> SUFFICES ASSUME Init, NEW p \in Path, NEW f \in DOMAIN disk[p] PROVE FALSE
      BY DEF Archived
    <3>1. disk[p] = << >>
      BY DEF Init
    <3> QED  BY <3>1
  <2> QED  BY <2>1, <2>2
<1>2. DeskInv /\ Filed /\ Archived /\ [Next]_vars => (Filed /\ Archived)'
  BY FiledStep, ArchiveStep
<1> QED  BY <1>1, <1>2, DeskHolds, PTL DEF Spec

(* For any project, whatever happened to it before: a file that a save finished
   gives back its table when the project is loaded, into a table that has other
   entries too, even when a crash has torn the files around it (Database::save,
   Database::load).                                                             *)
THEOREM SavedIsLoaded == Spec => LoadGivesSaved
<1>1. DeskInv /\ Archived /\ [Next]_vars =>
        [\A p \in Path : Desk /\ Load(p) =>
           /\ Kept(p, "names", Cut, db.names) /\ Kept(p, "comments", Cut, db.comments)
           /\ Kept(p, "types", LAMBDA s : s, db.types)]_vars
  <2> SUFFICES ASSUME DeskInv, Archived, NEW p \in Path, Desk, Load(p)
               PROVE  /\ Kept(p, "names", Cut, db.names) /\ Kept(p, "comments", Cut, db.comments)
                      /\ Kept(p, "types", LAMBDA s : s, db.types)
    OBVIOUS
  <2>1. DOMAIN db = Tables
    BY DEF Desk, DeskInv, Image, Cited
  <2>2. PICK junk : /\ junk.count \in Nat
                    /\ db' = [db EXCEPT !.names = Over(db.names, ReadTable(CellsOf(p, "names"), junk)),
                                !.comments = Over(db.comments, ReadTable(CellsOf(p, "comments"), junk)),
                                !.types = Over(db.types, ReadApplied(CellsOf(p, "types"), junk))]
    BY LoadIs
  <2>3. /\ db'.names = Over(db.names, ReadTable(CellsOf(p, "names"), junk))
        /\ db'.comments = Over(db.comments, ReadTable(CellsOf(p, "comments"), junk))
        /\ db'.types = Over(db.types, ReadApplied(CellsOf(p, "types"), junk))
    BY <2>1, <2>2 DEF Tables
  <2>4. ASSUME NEW f \in {"names", "comments"}, f \in DOMAIN disk[p], disk[p][f].of # None
        PROVE  ReadTable(CellsOf(p, f), junk) = Cut(disk[p][f].of)
    <3>1. TableFile(disk[p][f]) /\ CellsOf(p, f) = disk[p][f].cells
      BY <2>4 DEF Archived, Holds, CellsOf
    <3>2. PICK t : IsTable(t) /\ disk[p][f].of = t /\ disk[p][f].cells = WriteTable(t)
      BY <2>4, <3>1 DEF TableFile
    <3>3. ReadTable(WriteTable(t), junk) = Cut(t)
      BY <3>2, TableReturns
    <3> QED  BY <3>1, <3>2, <3>3
  <2>5. ASSUME "types" \in DOMAIN disk[p], disk[p]["types"].of # None
        PROVE  ReadApplied(CellsOf(p, "types"), junk) = disk[p]["types"].of
    <3>1. TypesFile(disk[p]["types"]) /\ CellsOf(p, "types") = disk[p]["types"].cells
      BY <2>5 DEF Archived, Holds, CellsOf
    <3>2. PICK d, s : /\ Plain(d) /\ IsTable(s) /\ disk[p]["types"].of = s
                      /\ disk[p]["types"].cells = WriteTypes(d, s)
      BY <2>5, <3>1 DEF TypesFile
    <3>3. ReadApplied(WriteTypes(d, s), junk) = s
      BY <2>2, <3>2, TypesReturn
    <3> QED  BY <3>1, <3>2, <3>3
  <2>6. Kept(p, "names", Cut, db.names) /\ Kept(p, "comments", Cut, db.comments)
    BY <2>3, <2>4 DEF Kept
  <2>7. Kept(p, "types", LAMBDA s : s, db.types)
    BY <2>3, <2>5 DEF Kept
  <2> QED  BY <2>6, <2>7
<1> QED  BY <1>1, FilesHold, PTL DEF Spec, LoadGivesSaved
=============================================================================
