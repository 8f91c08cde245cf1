---------------------------- MODULE OpenFile_proofs ----------------------------
(***************************************************************************)
(* What the loaders make of every file, of any size and contents.           *)
(*                                                                         *)
(* A file that was cut short: what lies inside the part that has arrived is *)
(* read as in the whole file, and what does not is refused or left out, so *)
(* that every table is a part of the whole file's (CutPE, CutELF, CutMachO). *)
(*                                                                         *)
(* A .NET file: the scan for methods and the decoder both go on behind what *)
(* they found (ScanRises), so that no two methods share a byte, and no two *)
(* instructions (AllMethodsAre, ListingIs).                                *)
(***************************************************************************)
EXTENDS OpenFile, FiniteSetTheorems, WellFoundedInduction, TLAPS

(* Induction over the natural numbers, for a set.                          *)
LEMMA Least ==
  ASSUME NEW S \in SUBSET Nat, S # {}
  PROVE  \E m \in S : \A k \in S : m <= k
<1> DEFINE R == {p \in Nat \X Nat : p[1] < p[2]}
<1>1. IsWellFoundedOn(R, Nat)
  BY NatLessThanWellFounded DEF OpToRel
<1> HIDE DEF R
<1>2. PICK m \in S : \A k \in S : <<k, m>> \notin R
  BY <1>1, WFMin
<1>3. \A k \in S : ~(k < m)
  BY <1>2 DEF R
<1> QED  BY <1>3

LEMMA SetInduction ==
  ASSUME NEW S, 0 \in S, \A n \in Nat : n \in S => n + 1 \in S
  PROVE  Nat \subseteq S
<1> DEFINE R == {ss \in Nat \X Nat : ss[1] < ss[2]}
<1> SUFFICES ASSUME Nat \ S # {} PROVE FALSE
  OBVIOUS
<1>1. IsWellFoundedOn(R, Nat)
  BY NatLessThanWellFounded DEF OpToRel
<1>2. \E x \in Nat \ S : \A y \in Nat \ S : ~ (<<y, x>> \in R)
  <2>1. Nat \ S \subseteq Nat
    OBVIOUS
  <2> HIDE DEF R
  <2> QED  BY <1>1, <2>1, WFMin
<1>3. PICK x \in Nat \ S : \A y \in Nat \ S : ~ (<<y, x>> \in R)
  BY <1>2
<1>4. x # 0 /\ x - 1 \in Nat
  OBVIOUS
<1>5. <<x - 1, x>> \in R
  BY <1>4
<1>6. x - 1 \in S
  BY <1>3, <1>4, <1>5
<1> QED  BY <1>4, <1>6

----------------------------------------------------------------------------
(* A file and the cells of it that have arrived.                           *)
IsCut(p, f) ==
  /\ IsFile(f) /\ DOMAIN p \subseteq DOMAIN f /\ \A o \in DOMAIN p : p[o] = f[o]
  /\ Size(p) \in Nat /\ Size(f) \in Nat /\ Size(p) <= Size(f)
  /\ DOMAIN p = 0..(Size(p) - 1) /\ DOMAIN f = 0..(Size(f) - 1)

LEMMA FileIsCut ==
  ASSUME NEW f, IsFile(f)
  PROVE  Size(f) \in Nat /\ DOMAIN f = 0..(Size(f) - 1)
BY FS_CardinalityType DEF IsFile, Size

LEMMA PrefixIsCut ==
  ASSUME NEW f, IsFile(f), NEW n \in 0..Size(f)
  PROVE  IsCut(Prefix(f, n), f)
<1>1. Size(f) \in Nat /\ DOMAIN f = 0..(Size(f) - 1)
  BY FileIsCut
<1> DEFINE p == Prefix(f, n)
<1>2. DOMAIN p = 0..(n - 1) /\ \A o \in DOMAIN p : p[o] = f[o]
  BY DEF Prefix
<1>3. Cardinality(0..(n - 1)) = n
  BY <1>1, FS_Interval
<1> HIDE DEF p
<1>4. Size(p) = n
  BY <1>2, <1>3 DEF Size
<1> QED  BY <1>1, <1>2, <1>4 DEF IsCut, p

LEMMA CutCell ==
  ASSUME NEW p, NEW f, IsCut(p, f), NEW o \in Int, InFile(p, o)
  PROVE  /\ InFile(f, o)
         /\ o >= 0 => /\ o \in DOMAIN p /\ o \in DOMAIN f /\ p[o] = f[o] /\ Magic(p, o) = Magic(f, o)
                      /\ Text(p, o) = Text(f, o)
                      /\ \A name : Field(p, o, name) = Field(f, o, name)
                      /\ \A name \in Numbers : Field(p, o, name) \in Nat
<1>1. InFile(f, o)
  BY DEF InFile, IsCut
<1>2. ASSUME o >= 0 PROVE o \in DOMAIN p /\ o \in DOMAIN f /\ p[o] = f[o]
  BY <1>2 DEF InFile, IsCut
<1>3. ASSUME o >= 0 PROVE \A name : Field(p, o, name) = Field(f, o, name)
  BY <1>2, <1>3 DEF Field
<1>4. ASSUME o >= 0 PROVE Magic(p, o) = Magic(f, o) /\ Text(p, o) = Text(f, o)
  BY <1>1, <1>2, <1>4 DEF Magic, Text
<1>5. ASSUME o >= 0 PROVE \A name \in Numbers : Field(p, o, name) \in Nat
  <2>1. \A name \in Numbers : Field(f, o, name) \in Nat
    BY <1>2, <1>5 DEF IsCut, IsFile
  <2> QED  BY <1>3, <1>5, <2>1
<1> QED  BY <1>1, <1>2, <1>3, <1>4, <1>5

LEMMA CutIn ==
  ASSUME NEW p, NEW f, IsCut(p, f), NEW o \in DOMAIN p
  PROVE  o \in Nat /\ InFile(p, o)
BY DEF IsCut, InFile

(* How many cells are good: no more when fewer are.                        *)
LEMMA RunIs ==
  ASSUME NEW off \in Int, NEW limit \in Nat, NEW good
  PROVE  /\ RunOf(off, limit, good) \in 0..limit
         /\ \A i \in 0..(RunOf(off, limit, good) - 1) : off + i \in good
         /\ RunOf(off, limit, good) = limit \/ off + RunOf(off, limit, good) \notin good
<1> DEFINE Ends == {k \in 0..limit : k = limit \/ off + k \notin good}
<1>1. limit \in Ends /\ Ends \in SUBSET Nat
  OBVIOUS
<1>2. PICK k \in Ends : \A j \in Ends : k <= j
  BY <1>1, Least
<1>3. \A i \in 0..(k - 1) : off + i \in good
  BY <1>1, <1>2
<1>4. k \in 0..limit /\ (\A i \in 0..(k - 1) : off + i \in good) /\ (k = limit \/ off + k \notin good)
  BY <1>2, <1>3
<1> QED  BY <1>4 DEF RunOf

LEMMA RunGrows ==
  ASSUME NEW off \in Int, NEW limit \in Nat, NEW good, NEW better, good \subseteq better
  PROVE  /\ RunOf(off, limit, good) \in Nat /\ RunOf(off, limit, better) \in Nat
         /\ RunOf(off, limit, good) <= RunOf(off, limit, better)
         /\ \A i \in 1..RunOf(off, limit, good) : off + i - 1 \in good
         /\ \A i \in 1..RunOf(off, limit, good) : i \in 1..RunOf(off, limit, better)
<1> DEFINE k == RunOf(off, limit, good)
           m == RunOf(off, limit, better)
<1>1. k \in 0..limit /\ \A i \in 0..(k - 1) : off + i \in good
  BY RunIs
<1>2. m \in 0..limit /\ (m = limit \/ off + m \notin better)
  BY RunIs
<1> HIDE DEF k, m
<1>3. k <= m
  BY <1>1, <1>2
<1>4. ASSUME NEW i \in 1..k PROVE off + i - 1 \in good
  <2>1. i - 1 \in 0..(k - 1) /\ off + (i - 1) = off + i - 1
    BY <1>1
  <2> QED  BY <1>1, <2>1
<1> QED  BY <1>1, <1>2, <1>3, <1>4 DEF k, m

(* The bytes of a segment: all of them or none.                            *)
LEMMA CutData ==
  ASSUME NEW p, NEW f, IsCut(p, f), NEW off \in Nat, NEW fileSize \in Nat, NEW size
  PROVE  SegmentData(p, off, fileSize, size) \in {<<>>, SegmentData(f, off, fileSize, size)}
<1>1. CASE off + fileSize > Size(p)
  BY <1>1 DEF SegmentData
<1>2. CASE ~(off + fileSize > Size(p))
  <2>1. ~(off + fileSize > Size(f))
    BY <1>2 DEF IsCut
  <2>2. ASSUME NEW i \in Int, 1 <= i, i <= fileSize PROVE p[off + i - 1] = f[off + i - 1]
    BY <1>2, <2>2 DEF IsCut
  <2> DEFINE top == Max({fileSize, size})
  <2>3. [i \in 1..top |-> IF i <= fileSize THEN p[off + i - 1] ELSE Zero]
        = [i \in 1..top |-> IF i <= fileSize THEN f[off + i - 1] ELSE Zero]
    <3> HIDE DEF top
    <3> QED  BY <2>2
  <2> HIDE DEF top
  <2> QED  BY <1>2, <2>1, <2>3 DEF SegmentData, top
<1> QED  BY <1>1, <1>2

(* A segment read from the cells that have arrived and from all of them.   *)
IsCutSegment(s, w) == s.va = w.va /\ s.off = w.off /\ s.fileSize = w.fileSize /\ s.data \in {<<>>, w.data}

LEMMA CutSegment ==
  ASSUME NEW p, NEW f, IsCut(p, f), NEW off \in Nat, NEW fileSize \in Nat,
         NEW size, NEW va, NEW name, NEW exec
  PROVE  IsCutSegment(Segment(p, name, va, size, off, fileSize, exec),
                      Segment(f, name, va, size, off, fileSize, exec))
BY CutData DEF IsCutSegment, Segment

LEMMA MinIs ==
  ASSUME NEW S \in SUBSET Int, NEW m \in S, \A k \in S : m <= k
  PROVE  Min(S) = m
<1> DEFINE x == Min(S)
<1>1. x \in S /\ \A k \in S : x <= k
  BY DEF Min
<1> HIDE DEF x
<1>2. x = m
  BY <1>1
<1> QED  BY <1>2 DEF x

LEMMA MaxIs ==
  ASSUME NEW S \in SUBSET Int, NEW m \in S, \A k \in S : k <= m
  PROVE  Max(S) = m
<1> DEFINE x == Max(S)
<1>1. x \in S /\ \A k \in S : k <= x
  BY DEF Max
<1> HIDE DEF x
<1>2. x = m
  BY <1>1
<1> QED  BY <1>2 DEF x
----------------------------------------------------------------------------
(* PE files.                                                               *)
IsCutImage(part, whole) ==
  /\ part.base = whole.base /\ part.base \in Nat /\ part.arch = whole.arch
  /\ Len(part.segments) \in Nat /\ Len(whole.segments) \in Nat
  /\ Len(part.segments) <= Len(whole.segments)
  /\ DOMAIN part.segments = 1..Len(part.segments) /\ DOMAIN whole.segments = 1..Len(whole.segments)
  /\ \A i \in 1..Len(part.segments) :
       /\ IsCutSegment(part.segments[i], whole.segments[i])
       /\ part.segments[i].va \in Nat /\ part.segments[i].off \in Nat
       /\ part.segments[i].fileSize \in Nat

LEMMA CutRaw ==
  ASSUME NEW part, NEW whole, IsCutImage(part, whole), NEW rva \in Nat, RvaToRaw(part, rva) # 0
  PROVE  RvaToRaw(part, rva) \in Nat /\ RvaToRaw(whole, rva) = RvaToRaw(part, rva)
<1> DEFINE In(seg) == rva >= seg.va - part.base /\ rva < seg.va - part.base + seg.fileSize
           P == {i \in 1..Len(part.segments) : In(part.segments[i])}
           W == {i \in 1..Len(whole.segments) : In(whole.segments[i])}
           Raw(seg) == seg.off + rva - (seg.va - part.base)
<1>1. \A i \in 1..Len(part.segments) : i \in P <=> i \in W
  BY DEF IsCutImage, IsCutSegment
<1>2. /\ RvaToRaw(part, rva) = IF P = {} THEN 0 ELSE Raw(part.segments[Min(P)])
      /\ RvaToRaw(whole, rva) = IF W = {} THEN 0 ELSE Raw(whole.segments[Min(W)])
  BY DEF RvaToRaw, IsCutImage
<1>3. P # {}
  BY <1>2
<1>4. Min(P) \in P /\ Min(W) = Min(P)
  <2>1. P \in SUBSET Nat /\ W \in SUBSET Nat
    OBVIOUS
  <2> HIDE DEF P, W
  <2>2. PICK m \in P : \A k \in P : m <= k
    BY <1>3, <2>1, Least
  <2>3. m \in 1..Len(part.segments) /\ m \in W
    BY <1>1, <2>2 DEF P
  <2>4. \A k \in W : m <= k
    <3> TAKE k \in W
    <3>1. CASE k \in 1..Len(part.segments)
      BY <1>1, <2>2, <3>1
    <3>2. CASE k \notin 1..Len(part.segments)
      <4>1. k \in Nat /\ 1 <= k /\ Len(part.segments) \in Nat
        BY DEF W, IsCutImage
      <4> QED  BY <2>3, <3>2, <4>1
    <3> QED  BY <3>1, <3>2
  <2>5. Min(P) = m
    BY <2>1, <2>2, MinIs
  <2>6. Min(W) = m
    BY <2>1, <2>3, <2>4, MinIs
  <2> QED  BY <2>2, <2>5, <2>6
<1>5. Min(P) \in 1..Len(part.segments)
  BY <1>4
<1> DEFINE m == Min(P)
<1>6. /\ part.segments[m].off = whole.segments[m].off /\ part.segments[m].va = whole.segments[m].va
      /\ part.segments[m].off \in Nat /\ part.segments[m].va \in Nat /\ part.base \in Nat
  BY <1>5 DEF IsCutImage, IsCutSegment
<1>7. In(part.segments[m])
  BY <1>4
<1>8. W # {}
  BY <1>1, <1>4, <1>5
<1>9. RvaToRaw(part, rva) = Raw(part.segments[m]) /\ RvaToRaw(whole, rva) = Raw(whole.segments[m])
  BY <1>2, <1>3, <1>4, <1>8
<1> HIDE DEF m, P, W
<1>10. Raw(part.segments[m]) = Raw(whole.segments[m]) /\ Raw(part.segments[m]) \in Nat
  BY <1>6, <1>7
<1> QED  BY <1>9, <1>10

(* The headers are all there or the file is refused.                       *)
LEMMA CutHeaders ==
  ASSUME NEW p, NEW f, IsCut(p, f), PEHeadersOk(p)
  PROVE  /\ PEHeadersOk(f) /\ PEAt(p) = PEAt(f) /\ CoffAt(p) = CoffAt(f) /\ OptAt(p) = OptAt(f)
         /\ CoffAt(p) \in Nat /\ InFile(p, CoffAt(p)) /\ OptAt(p) \in Nat /\ InFile(p, OptAt(p))
<1>1. InFile(p, 0) /\ InFile(p, PEAt(p)) /\ InFile(p, CoffAt(p)) /\ InFile(p, OptAt(p))
  BY DEF PEHeadersOk
<1>2. PEAt(p) = PEAt(f) /\ PEAt(p) \in Nat /\ Magic(p, 0) = Magic(f, 0) /\ InFile(f, 0)
  BY <1>1, CutCell DEF PEAt, Numbers
<1>3. Magic(p, PEAt(p)) = Magic(f, PEAt(p)) /\ InFile(f, PEAt(p))
  BY <1>1, <1>2, CutCell
<1>4. CoffAt(p) = CoffAt(f) /\ OptAt(p) = OptAt(f) /\ CoffAt(p) \in Nat /\ OptAt(p) \in Nat
  BY <1>2 DEF CoffAt, OptAt
<1>5. Field(p, CoffAt(p), "sections") = Field(f, CoffAt(p), "sections") /\ InFile(f, CoffAt(p))
  BY <1>1, <1>4, CutCell
<1>6. Magic(p, OptAt(p)) = Magic(f, OptAt(p)) /\ InFile(f, OptAt(p))
  BY <1>1, <1>4, CutCell
<1> QED  BY <1>1, <1>2, <1>3, <1>4, <1>5, <1>6 DEF PEHeadersOk

LEMMA CutBare ==
  ASSUME NEW p, NEW f, IsCut(p, f), PEHeadersOk(p)
  PROVE  IsCutImage(PEBare(p), PEBare(f))
<1>1. /\ CoffAt(p) = CoffAt(f) /\ OptAt(p) = OptAt(f) /\ CoffAt(p) \in Nat /\ OptAt(p) \in Nat
      /\ InFile(p, CoffAt(p)) /\ InFile(p, OptAt(p))
  BY CutHeaders
<1> DEFINE base == Field(p, OptAt(p), "base")
           at == OptAt(p) + Field(p, CoffAt(p), "optSize")
           n == Field(p, CoffAt(p), "sections")
           P == RunOf(at, n, DOMAIN p)
           W == RunOf(at, n, DOMAIN f)
           Seg(g, i) == Segment(g, g[at + i - 1].name, base + Field(g, at + i - 1, "rva"),
                                Field(g, at + i - 1, "size"), Field(g, at + i - 1, "raw"),
                                Field(g, at + i - 1, "rawSize"), g[at + i - 1].exec)
<1>2. /\ base = Field(f, OptAt(f), "base") /\ base \in Nat
      /\ Magic(p, OptAt(p)) = Magic(f, OptAt(f))
  BY <1>1, CutCell DEF Numbers
<1>3. /\ Field(p, CoffAt(p), "optSize") = Field(f, CoffAt(f), "optSize") /\ n = Field(f, CoffAt(f), "sections")
      /\ Field(p, CoffAt(p), "optSize") \in Nat /\ n \in Nat
  BY <1>1, CutCell DEF Numbers
<1>4. at \in Nat /\ at = OptAt(f) + Field(f, CoffAt(f), "optSize")
  BY <1>1, <1>3
<1>5. PESections(p, base) = [i \in 1..P |-> Seg(p, i)]
  BY DEF PESections
<1>6. PESections(f, base) = [i \in 1..W |-> Seg(f, i)]
  BY <1>3, <1>4 DEF PESections
<1> HIDE DEF at, n, base
<1>7. P \in Nat /\ W \in Nat /\ P <= W /\ \A i \in 1..P : at + i - 1 \in DOMAIN p /\ i \in 1..W
  <2>1. DOMAIN p \subseteq DOMAIN f
    BY DEF IsCut
  <2> QED  BY <1>3, <1>4, <2>1, RunGrows
<1>8. ASSUME NEW i \in 1..P
      PROVE  /\ IsCutSegment(Seg(p, i), Seg(f, i))
             /\ Seg(p, i).va \in Nat /\ Seg(p, i).off \in Nat /\ Seg(p, i).fileSize \in Nat
  <2> DEFINE o == at + i - 1
  <2>1. o \in Nat /\ InFile(p, o)
    BY <1>7, CutIn
  <2>2. /\ p[o] = f[o] /\ Field(p, o, "rva") = Field(f, o, "rva") /\ Field(p, o, "raw") = Field(f, o, "raw")
        /\ Field(p, o, "rawSize") = Field(f, o, "rawSize") /\ Field(p, o, "size") = Field(f, o, "size")
        /\ Field(p, o, "rva") \in Nat /\ Field(p, o, "raw") \in Nat /\ Field(p, o, "rawSize") \in Nat
    <3> HIDE DEF o
    <3> QED  BY <2>1, CutCell DEF Numbers
  <2>3. IsCutSegment(Seg(p, i), Seg(f, i))
    BY <2>2, CutSegment
  <2>4. Seg(p, i).va = base + Field(p, o, "rva") /\ Seg(p, i).off = Field(p, o, "raw")
        /\ Seg(p, i).fileSize = Field(p, o, "rawSize")
    BY DEF Segment
  <2> QED  BY <1>2, <2>2, <2>3, <2>4
<1> HIDE DEF P, W, Seg
<1>9. /\ Len(PESections(p, base)) = P /\ Len(PESections(f, base)) = W
      /\ DOMAIN PESections(p, base) = 1..P /\ DOMAIN PESections(f, base) = 1..W
      /\ \A i \in 1..P : PESections(p, base)[i] = Seg(p, i) /\ PESections(f, base)[i] = Seg(f, i)
  BY <1>5, <1>6, <1>7
<1>10. /\ PEBare(p).base = base /\ PEBare(f).base = base
       /\ PEBare(p).arch = PEBare(f).arch
       /\ PEBare(p).segments = PESections(p, base) /\ PEBare(f).segments = PESections(f, base)
  BY <1>2 DEF PEBare, base
<1> QED  BY <1>2, <1>7, <1>8, <1>9, <1>10 DEF IsCutImage

LEMMA CutDirectory ==
  ASSUME NEW p, NEW f, IsCut(p, f), PEHeadersOk(p), NEW name
  PROVE  /\ Directory(p, name) = Directory(f, name)
         /\ Directory(p, name).rva \in Nat /\ Directory(p, name).size \in Nat
<1>1. OptAt(p) = OptAt(f) /\ OptAt(p) \in Nat /\ InFile(p, OptAt(p))
  BY CutHeaders
<1>2. p[OptAt(p)] = f[OptAt(p)] /\ OptAt(p) \in DOMAIN f /\ Magic(p, OptAt(p)) = Magic(f, OptAt(p))
  BY <1>1, CutCell
<1>3. Magic(f, OptAt(p)) \in {"PE32", "PE32+"}
  BY <1>2 DEF PEHeadersOk
<1>4. Directory(p, name) = Directory(f, name)
  BY <1>1, <1>2 DEF Directory
<1> DEFINE dirs == f[OptAt(p)].dirs
<1>5. \A d \in DOMAIN dirs : dirs[d].rva \in Nat /\ dirs[d].size \in Nat
  BY <1>2, <1>3 DEF IsCut, IsFile
<1>6. Directory(p, name) = IF name \in DOMAIN dirs THEN dirs[name] ELSE [rva |-> 0, size |-> 0]
  BY <1>2 DEF Directory
<1> HIDE DEF dirs
<1>7. Directory(p, name).rva \in Nat /\ Directory(p, name).size \in Nat
  <2>1. CASE name \in DOMAIN dirs
    BY <1>5, <1>6, <2>1
  <2>2. CASE name \notin DOMAIN dirs
    BY <1>6, <2>2
  <2> QED  BY <2>1, <2>2
<1> QED  BY <1>4, <1>7

LEMMA CutNonZero ==
  ASSUME NEW p, NEW f, IsCut(p, f), NEW name
  PROVE  NonZero(p, name) \subseteq NonZero(f, name) /\ NonZero(p, name) \subseteq DOMAIN p
<1>1. ASSUME NEW o \in NonZero(p, name) PROVE o \in NonZero(f, name)
  <2>1. o \in DOMAIN p /\ o \in DOMAIN f /\ p[o] = f[o]
    BY DEF NonZero, IsCut
  <2> QED  BY <2>1 DEF NonZero, Field
<1> QED  BY <1>1 DEF NonZero

LEMMA CutImportsOf ==
  ASSUME NEW p, NEW f, IsCut(p, f), NEW part, NEW whole, IsCutImage(part, whole),
         NEW desc \in DOMAIN p, NEW x \in ImportsOf(p, part, desc)
  PROVE  \E y \in ImportsOf(f, whole, desc) : y.slot = x.slot
<1> DEFINE slots == Field(p, desc, "thunk")
           names == IF Field(p, desc, "lookup") # 0 THEN Field(p, desc, "lookup") ELSE slots
           at == RvaToRaw(part, names)
           Count(g, from0) == IF from0 = 0 THEN 0 ELSE RunOf(from0, MaxThunks, NonZero(g, "value"))
<1>1. /\ Field(p, desc, "thunk") = Field(f, desc, "thunk") /\ Field(p, desc, "lookup") = Field(f, desc, "lookup")
      /\ slots \in Nat /\ names \in Nat
  <2>1. desc \in Nat /\ InFile(p, desc)
    BY CutIn
  <2> QED  BY <2>1, CutCell DEF Numbers
<1>2. PICK i \in 1..Count(p, at) : x.slot = part.base + slots + i - 1
  BY DEF ImportsOf
<1> HIDE DEF slots, names
<1>3. at # 0
  BY <1>2
<1>4. at \in Nat /\ at = RvaToRaw(whole, names)
  BY <1>1, <1>3, CutRaw
<1>5. NonZero(p, "value") \subseteq NonZero(f, "value") /\ MaxThunks \in Nat
  BY CutNonZero, LimitsAreNumbers
<1> HIDE DEF at
<1>6. i \in 1..Count(f, at)
  BY <1>2, <1>3, <1>4, <1>5, RunGrows
<1> DEFINE hint(j) == RvaToRaw(whole, Field(f, at + j - 1, "value"))
           Entry(j) == [dll |-> Text(f, RvaToRaw(whole, Field(f, desc, "name"))),
                        name |-> IF Field(f, at + j - 1, "ordinal") # 0 THEN "ord"
                                 ELSE IF hint(j) # 0 THEN Text(f, hint(j)) ELSE NoText,
                        slot |-> whole.base + slots + j - 1]
<1>7. ImportsOf(f, whole, desc) = {Entry(j) : j \in 1..Count(f, at)}
  <2>1. at = RvaToRaw(whole, IF Field(f, desc, "lookup") # 0 THEN Field(f, desc, "lookup")
                             ELSE Field(f, desc, "thunk"))
    BY <1>1, <1>4 DEF names, slots
  <2>2. slots = Field(f, desc, "thunk")
    BY <1>1 DEF slots
  <2> QED  BY <2>1, <2>2 DEF ImportsOf
<1>8. Entry(i).slot = x.slot
  BY <1>2 DEF IsCutImage
<1> HIDE DEF Entry, Count
<1> QED  BY <1>6, <1>7, <1>8

LEMMA CutImports ==
  ASSUME NEW p, NEW f, IsCut(p, f), PEHeadersOk(p), NEW part, NEW whole, IsCutImage(part, whole),
         NEW x \in PEImports(p, part)
  PROVE  \E y \in PEImports(f, whole) : y.slot = x.slot
<1> DEFINE dir == Directory(p, "imports").rva
           at == RvaToRaw(part, dir)
           Good(g) == NonZero(g, "lookup") \cup NonZero(g, "thunk")
           Count(g) == RunOf(at, MaxImports, Good(g))
<1>1. dir = Directory(f, "imports").rva /\ dir \in Nat
  BY CutDirectory
<1>2. dir # 0 /\ at # 0 /\ PEImports(p, part) = UNION {ImportsOf(p, part, at + i - 1) : i \in 1..Count(p)}
  BY DEF PEImports
<1> HIDE DEF dir
<1>3. at \in Nat /\ at = RvaToRaw(whole, dir)
  BY <1>1, <1>2, CutRaw
<1>4. PEImports(f, whole) = UNION {ImportsOf(f, whole, at + i - 1) : i \in 1..Count(f)}
  BY <1>1, <1>2, <1>3 DEF PEImports, dir
<1>5. Good(p) \subseteq Good(f) /\ MaxImports \in Nat /\ Good(p) \subseteq DOMAIN p
  BY CutNonZero, LimitsAreNumbers
<1>6. PICK i \in 1..Count(p) : x \in ImportsOf(p, part, at + i - 1)
  BY <1>2
<1> HIDE DEF at, Good
<1>7. i \in 1..Count(f) /\ at + i - 1 \in Good(p)
  BY <1>3, <1>5, <1>6, RunGrows
<1>8. \E y \in ImportsOf(f, whole, at + i - 1) : y.slot = x.slot
  BY <1>5, <1>6, <1>7, CutImportsOf
<1> QED  BY <1>4, <1>7, <1>8

LEMMA CutExports ==
  ASSUME NEW p, NEW f, IsCut(p, f), PEHeadersOk(p), NEW part, NEW whole, IsCutImage(part, whole),
         NEW x \in PEExports(p, part)
  PROVE  x.addr = part.base \/ \E y \in PEExports(f, whole) : y.addr = x.addr
<1> DEFINE dir == Directory(p, "exports").rva
           at == RvaToRaw(part, dir)
           funcs == RvaToRaw(part, Field(p, at, "funcs"))
           names == RvaToRaw(part, Field(p, at, "names"))
           ords  == RvaToRaw(part, Field(p, at, "ords"))
           num == Field(p, at, "numNames")
           nfuncs == Field(p, at, "numFuncs")
           Good(g) == {o \in DOMAIN g : InFile(g, ords + o - names)}
           Count(g) == RunOf(names, num, Good(g))
           Addr(g, fs, i) == whole.base + ExportAddress(g, fs, nfuncs, Field(g, ords + i - 1, "value"))
<1>1. dir = Directory(f, "exports").rva /\ dir \in Nat
  BY CutDirectory
<1>2. /\ dir # 0 /\ at # 0 /\ InFile(p, at) /\ names # 0 /\ ords # 0
      /\ ~(nfuncs > MaxExports \/ num > MaxExports)
      /\ \E i \in 1..Count(p) : x.addr = part.base + ExportAddress(p, funcs, nfuncs, Field(p, ords + i - 1, "value"))
  BY DEF PEExports
<1> HIDE DEF dir
<1>3. at \in Nat /\ at = RvaToRaw(whole, dir)
  BY <1>1, <1>2, CutRaw
<1> HIDE DEF at
<1>4. /\ InFile(f, at) /\ \A name : Field(p, at, name) = Field(f, at, name)
      /\ Field(p, at, "funcs") \in Nat /\ Field(p, at, "names") \in Nat /\ Field(p, at, "ords") \in Nat
      /\ num \in Nat
  BY <1>2, <1>3, CutCell DEF Numbers
<1>5. names \in Nat /\ names = RvaToRaw(whole, Field(f, at, "names"))
  BY <1>2, <1>4, CutRaw
<1>6. ords \in Nat /\ ords = RvaToRaw(whole, Field(f, at, "ords"))
  BY <1>2, <1>4, CutRaw
<1>7. funcs = 0 \/ (funcs \in Nat /\ funcs = RvaToRaw(whole, Field(f, at, "funcs")))
  BY <1>4, CutRaw
<1> DEFINE wfuncs == RvaToRaw(whole, Field(f, at, "funcs"))
<1>8. ASSUME NEW i \in 1..Count(f) PROVE \E y \in PEExports(f, whole) : y.addr = Addr(f, wfuncs, i)
  <2> DEFINE Entry(j) == [name |-> Text(f, RvaToRaw(whole, Field(f, names + j - 1, "value"))),
                          addr |-> Addr(f, wfuncs, j)]
  <2>1. at = RvaToRaw(whole, Directory(f, "exports").rva) /\ Directory(f, "exports").rva # 0
    BY <1>1, <1>2, <1>3 DEF dir
  <2> HIDE DEF at
  <2>2. /\ num = Field(f, at, "numNames") /\ nfuncs = Field(f, at, "numFuncs")
        /\ names = RvaToRaw(whole, Field(f, at, "names")) /\ ords = RvaToRaw(whole, Field(f, at, "ords"))
    BY <1>4, <1>5, <1>6
  <2>3. ~(at = 0 \/ ~InFile(f, at) \/ nfuncs > MaxExports \/ num > MaxExports \/ names = 0 \/ ords = 0)
    BY <1>2, <1>4
  <2> HIDE DEF names, ords, num, nfuncs
  <2>4. PEExports(f, whole) = {Entry(j) : j \in 1..Count(f)}
    BY <2>1, <2>2, <2>3 DEF PEExports
  <2>5. Entry(i).addr = Addr(f, wfuncs, i)
    OBVIOUS
  <2> HIDE DEF Entry, Count, Addr
  <2> QED  BY <2>4, <2>5
<1>9. part.base = whole.base /\ part.base \in Nat
  BY DEF IsCutImage
<1>10. PICK i \in 1..Count(p) : x.addr = part.base + ExportAddress(p, funcs, nfuncs, Field(p, ords + i - 1, "value"))
  BY <1>2
<1> HIDE DEF funcs, names, ords, num, nfuncs, wfuncs
<1>11. Good(p) \subseteq Good(f)
  <2> SUFFICES ASSUME NEW o \in DOMAIN p, InFile(p, ords + o - names) PROVE o \in Good(f)
    OBVIOUS
  <2>1. o \in Nat /\ ords + o - names \in Int
    BY <1>5, <1>6, CutIn
  <2>2. InFile(f, ords + o - names)
    BY <2>1, CutCell
  <2> QED  BY <2>2 DEF IsCut
<1>12. i \in 1..Count(f) /\ i \in Nat /\ names + i - 1 \in Good(p)
  <2> HIDE DEF Good
  <2> QED  BY <1>4, <1>5, <1>10, <1>11, RunGrows
<1>13. InFile(p, ords + i - 1) /\ ords + i - 1 \in Nat
  <2>1. InFile(p, ords + (names + i - 1) - names)
    BY <1>12
  <2>2. ords + (names + i - 1) - names = ords + i - 1 /\ ords + i - 1 \in Nat
    BY <1>5, <1>6, <1>10, <1>12
  <2> QED  BY <2>1, <2>2
<1> DEFINE index == Field(p, ords + i - 1, "value")
<1>14. index = Field(f, ords + i - 1, "value") /\ index \in Nat
  BY <1>13, CutCell DEF Numbers
<1> HIDE DEF index
<1>15. CASE funcs # 0 /\ index < nfuncs /\ InFile(p, funcs + index)
  <2>1. funcs + index \in Nat /\ wfuncs = funcs
    BY <1>7, <1>14, <1>15 DEF wfuncs
  <2>2. Field(p, funcs + index, "value") = Field(f, funcs + index, "value") /\ InFile(f, funcs + index)
    BY <1>15, <2>1, CutCell
  <2>3. ExportAddress(p, funcs, nfuncs, index) = ExportAddress(f, wfuncs, nfuncs, index)
    BY <1>15, <2>1, <2>2 DEF ExportAddress
  <2>4. x.addr = Addr(f, wfuncs, i)
    BY <1>9, <1>10, <1>14, <2>3 DEF index
  <2> HIDE DEF Addr, Count
  <2> QED  BY <1>8, <1>12, <2>4
<1>16. CASE ~(funcs # 0 /\ index < nfuncs /\ InFile(p, funcs + index))
  <2>1. ExportAddress(p, funcs, nfuncs, index) = 0
    BY <1>16 DEF ExportAddress
  <2> QED  BY <1>9, <1>10, <2>1 DEF index
<1> QED  BY <1>15, <1>16

LEMMA PrefixOfShorter ==
  ASSUME NEW s, NEW t, NEW m \in Nat, NEW n \in Nat, m <= n,
         NEW E, s = [i \in 1..m |-> E[i]], t = [i \in 1..n |-> E[i]]
  PROVE  IsPrefix(s, t)
<1>1. Len(s) = m /\ Len(t) = n
  OBVIOUS
<1>2. SubSeq(s, 1, m) = [i \in 1..m |-> E[i]]
  OBVIOUS
<1>3. SubSeq(t, 1, m) = [i \in 1..m |-> E[i]]
  OBVIOUS
<1> QED  BY <1>1, <1>2, <1>3 DEF IsPrefix

LEMMA EmptyIsPrefix ==
  ASSUME NEW t, Len(t) \in Nat
  PROVE  IsPrefix(<<>>, t)
<1>1. SubSeq(t, 1, 0) = <<>> /\ SubSeq(<<>>, 1, 0) = <<>> /\ Len(<<>>) = 0
  OBVIOUS
<1> QED  BY <1>1 DEF IsPrefix

LEMMA CutFunctions ==
  ASSUME NEW p, NEW f, IsCut(p, f), PEHeadersOk(p), NEW part, NEW whole, IsCutImage(part, whole), IsCutImage(whole, whole)
  PROVE  IsPrefix(PEFunctions(p, part), PEFunctions(f, whole))
<1> DEFINE dir == Directory(p, "exceptions")
           at == RvaToRaw(part, dir.rva)
           wat == RvaToRaw(whole, dir.rva)
           Count(g, o) == RunOf(o, dir.size, NonZero(g, "begin"))
           Entry(g, o, i) == [first |-> whole.base + Field(g, o + i - 1, "begin"),
                              last |-> whole.base + Field(g, o + i - 1, "end")]
<1>1. dir = Directory(f, "exceptions") /\ dir.rva \in Nat /\ dir.size \in Nat
  BY CutDirectory
<1> HIDE DEF dir
<1>2. PEFunctions(f, whole) = IF whole.arch # "X64" \/ dir.rva = 0 \/ wat = 0 THEN <<>>
                              ELSE [i \in 1..Count(f, wat) |-> Entry(f, wat, i)]
  BY <1>1 DEF PEFunctions
<1>3. PEFunctions(p, part) = IF whole.arch # "X64" \/ dir.rva = 0 \/ at = 0 THEN <<>>
                              ELSE [i \in 1..Count(p, at) |-> Entry(p, at, i)]
  BY DEF PEFunctions, dir, IsCutImage
<1> HIDE DEF at, wat
<1>4. CASE whole.arch # "X64" \/ dir.rva = 0
  <2>1. PEFunctions(p, part) = <<>> /\ PEFunctions(f, whole) = <<>>
    BY <1>2, <1>3, <1>4
  <2> QED  BY <2>1, EmptyIsPrefix
<1>5. CASE ~(whole.arch # "X64" \/ dir.rva = 0) /\ at = 0
  <2>1. PEFunctions(p, part) = <<>>
    BY <1>3, <1>5
  <2>2. wat # 0 => Count(f, wat) \in Nat
    <3>1. wat # 0 => wat \in Int
      BY <1>1, CutRaw DEF wat
    <3> QED  BY <1>1, <3>1, RunGrows
  <2>3. Len(PEFunctions(f, whole)) \in Nat
    <3> HIDE DEF Count, Entry
    <3> QED  BY <1>2, <2>2
  <2> QED  BY <2>1, <2>3, EmptyIsPrefix
<1>6. CASE ~(whole.arch # "X64" \/ dir.rva = 0) /\ at # 0
  <2>1. at \in Nat /\ wat = at
    BY <1>1, <1>6, CutRaw DEF at, wat
  <2>2. /\ Count(p, at) \in Nat /\ Count(f, at) \in Nat /\ Count(p, at) <= Count(f, at)
        /\ \A i \in 1..Count(p, at) : at + i - 1 \in NonZero(p, "begin")
    BY <1>1, <2>1, CutNonZero, RunGrows
  <2>3. ASSUME NEW i \in 1..Count(p, at) PROVE Entry(p, at, i) = Entry(f, at, i)
    <3>1. at + i - 1 \in DOMAIN p
      BY <2>2, <2>3, CutNonZero
    <3>2. at + i - 1 \in Nat /\ InFile(p, at + i - 1)
      BY <3>1, CutIn
    <3> DEFINE o == at + i - 1
    <3>3. Field(p, o, "begin") = Field(f, o, "begin") /\ Field(p, o, "end") = Field(f, o, "end")
      BY <3>2, CutCell
    <3> QED  BY <3>3
  <2> DEFINE m == Count(p, at)
             n == Count(f, at)
             E == [i \in 1..n |-> Entry(f, at, i)]
  <2>4. PEFunctions(p, part) = [i \in 1..m |-> E[i]] /\ PEFunctions(f, whole) = [i \in 1..n |-> E[i]]
    <3> HIDE DEF Count, Entry
    <3>1. \A i \in 1..m : E[i] = Entry(p, at, i)
      BY <2>2, <2>3
    <3>2. PEFunctions(p, part) = [i \in 1..m |-> Entry(p, at, i)]
      BY <1>3, <1>6
    <3>3. PEFunctions(f, whole) = E
      BY <1>2, <1>6, <2>1
    <3> HIDE DEF E
    <3>4. PEFunctions(p, part) = [i \in 1..m |-> E[i]]
      BY <3>1, <3>2
    <3>5. E = [i \in 1..n |-> E[i]]
      BY DEF E
    <3> QED  BY <3>3, <3>4, <3>5
  <2> HIDE DEF m, n, E
  <2> QED  BY <2>2, <2>4, PrefixOfShorter DEF m, n
<1> QED  BY <1>4, <1>5, <1>6

LEMMA SetOfSeq ==
  ASSUME NEW s
  PROVE  \A x : x \in ToSet(s) <=> \E i \in DOMAIN s : x = s[i]
BY DEF ToSet

(* A PE file that was cut short, whatever the file.                        *)
LEMMA CutPE ==
  ASSUME NEW p, NEW f, IsCut(p, f), LoadPE(p) # NoImage
  PROVE  IsPartOf(LoadPE(p), LoadPE(f))
<1> DEFINE part == PEBare(p)
           whole == PEBare(f)
<1>1. PEHeadersOk(p) /\ PEHeadersOk(f)
  BY CutHeaders DEF LoadPE
<1>2. IsCutImage(part, whole) /\ IsCutImage(whole, whole)
  <2>1. IsCut(f, f)
    BY DEF IsCut
  <2> QED  BY <1>1, <2>1, CutBare
<1>3. /\ LoadPE(p).segments = part.segments /\ LoadPE(f).segments = whole.segments
      /\ LoadPE(p).imports = PEImports(p, part) /\ LoadPE(f).imports = PEImports(f, whole)
      /\ LoadPE(p).exports = PEExports(p, part) /\ LoadPE(f).exports = PEExports(f, whole)
      /\ LoadPE(p).functions = PEFunctions(p, part) /\ LoadPE(f).functions = PEFunctions(f, whole)
      /\ LoadPE(p).base = part.base
  BY <1>1 DEF LoadPE
<1>4. /\ DOMAIN part.segments = 1..Len(part.segments) /\ DOMAIN whole.segments = 1..Len(whole.segments)
  BY <1>2 DEF IsCutImage
<1> HIDE DEF part, whole
<1>5. \A s \in ToSet(part.segments) : \E w \in ToSet(whole.segments) :
        s.va = w.va /\ s.off = w.off /\ s.data \in {<<>>, w.data}
  <2> SUFFICES ASSUME NEW i \in 1..Len(part.segments)
               PROVE  \E w \in ToSet(whole.segments) : IsCutSegment(part.segments[i], w)
    BY <1>4, SetOfSeq DEF IsCutSegment
  <2>1. i \in 1..Len(whole.segments) /\ IsCutSegment(part.segments[i], whole.segments[i])
    BY <1>2 DEF IsCutImage
  <2> QED  BY <1>4, <2>1, SetOfSeq
<1>6. \A x \in PEImports(p, part) : \E y \in PEImports(f, whole) : y.slot = x.slot
  BY <1>1, <1>2, CutImports
<1>7. \A x \in PEExports(p, part) : x.addr = part.base \/ \E y \in PEExports(f, whole) : y.addr = x.addr
  BY <1>1, <1>2, CutExports
<1>8. IsPrefix(PEFunctions(p, part), PEFunctions(f, whole))
  BY <1>1, <1>2, CutFunctions
<1>9. {x.slot : x \in PEImports(p, part)} \subseteq {x.slot : x \in PEImports(f, whole)}
  BY <1>6
<1>10. {x.addr : x \in PEExports(p, part)} \subseteq {x.addr : x \in PEExports(f, whole)} \cup {part.base}
  BY <1>7
<1> QED  BY <1>3, <1>5, <1>8, <1>9, <1>10 DEF IsPartOf

----------------------------------------------------------------------------
(* Sequences that are made entry by entry.                                 *)
\* the function whose i-th value is F[i] of the one before
IsChain(g, n, x0, F) == g = [i \in 1..n |-> IF i = 1 THEN x0 ELSE F[i][g[i - 1]]]

LEMMA StepsFromOne ==
  ASSUME NEW n \in Nat, NEW X, NEW x0 \in X, NEW F, \A m \in 1..n : \A x \in X : F[m][x] \in X
  PROVE  \E g \in [1..n -> X] : IsChain(g, n, x0, F)
<1> DEFINE Steps(g, k) == g \in [1..k -> X] /\ \A i \in 1..k : g[i] = IF i = 1 THEN x0 ELSE F[i][g[i - 1]]
           S == {k \in Nat : k <= n => \E g : Steps(g, k)}
<1>1. 0 \in S
  <2>1. [i \in 1..0 |-> x0] \in [1..0 -> X] /\ \A i \in 1..0 : FALSE
    OBVIOUS
  <2>2. Steps([i \in 1..0 |-> x0], 0)
    BY <2>1
  <2> HIDE DEF Steps
  <2> QED  BY <2>2
<1>2. ASSUME NEW k \in Nat, k \in S PROVE k + 1 \in S
  <2> SUFFICES ASSUME k + 1 <= n PROVE \E g : Steps(g, k + 1)
    OBVIOUS
  <2>1. PICK g : Steps(g, k)
    BY <1>2
  <2> DEFINE last == IF k + 1 = 1 THEN x0 ELSE F[k + 1][g[k]]
             h == [i \in 1..(k + 1) |-> IF i = k + 1 THEN last ELSE g[i]]
  <2>2. last \in X
    <3>1. k # 0 => g[k] \in X /\ k + 1 \in 1..n
      BY <2>1
    <3> QED  BY <3>1
  <2>3. h \in [1..(k + 1) -> X]
    <3>1. \A i \in 1..(k + 1) : i # k + 1 => i \in 1..k
      OBVIOUS
    <3> HIDE DEF last
    <3> QED  BY <2>1, <2>2, <3>1
  <2>4. ASSUME NEW i \in 1..(k + 1) PROVE h[i] = IF i = 1 THEN x0 ELSE F[i][h[i - 1]]
    <3>1. CASE i = k + 1
      <4>1. i # 1 => i - 1 \in 1..(k + 1) /\ i - 1 # k + 1 /\ i - 1 = k
        BY <3>1
      <4>2. i # 1 => h[i - 1] = g[k]
        BY <4>1
      <4>3. h[i] = last
        BY <3>1
      <4> QED  BY <3>1, <4>2, <4>3
    <3>2. CASE i # k + 1
      <4>1. i \in 1..k /\ h[i] = g[i]
        BY <3>2
      <4>2. i # 1 => i - 1 \in 1..(k + 1) /\ i - 1 # k + 1
        BY <4>1
      <4>3. i # 1 => h[i - 1] = g[i - 1]
        BY <4>2
      <4> HIDE DEF h
      <4> QED  BY <2>1, <4>1, <4>3
    <3> QED  BY <3>1, <3>2
  <2> HIDE DEF h
  <2> QED  BY <2>3, <2>4
<1> HIDE DEF S
<1>3. Nat \subseteq S
  BY <1>1, <1>2, SetInduction
<1>4. PICK g : Steps(g, n)
  <2>1. n \in S
    BY <1>3
  <2> HIDE DEF Steps
  <2> QED  BY <2>1 DEF S
<1>5. g = [i \in 1..n |-> IF i = 1 THEN x0 ELSE F[i][g[i - 1]]]
  <2>1. g = [i \in 1..n |-> g[i]]
    BY <1>4
  <2> QED  BY <1>4, <2>1
<1> QED  BY <1>4, <1>5 DEF IsChain

LEMMA Appended ==
  ASSUME NEW E, NEW a \in Seq(E), NEW b \in Seq(E)
  PROVE  \A x : x \in ToSet(a \o b) <=> x \in ToSet(a) \/ x \in ToSet(b)
<1> DEFINE c == a \o b
           m == Len(a)
           n == Len(b)
<1>1. /\ DOMAIN a = 1..m /\ DOMAIN b = 1..n /\ DOMAIN c = 1..(m + n) /\ m \in Nat /\ n \in Nat
      /\ \A i \in 1..m : c[i] = a[i]
      /\ \A i \in 1..n : c[m + i] = b[i]
  OBVIOUS
<1> HIDE DEF c, m, n
<1>2. ASSUME NEW x \in ToSet(c) PROVE x \in ToSet(a) \/ x \in ToSet(b)
  <2>1. PICK i \in 1..(m + n) : x = c[i]
    BY <1>1 DEF ToSet
  <2>2. CASE i <= m
    <3>1. i \in 1..m /\ x = a[i]
      BY <1>1, <2>1, <2>2
    <3> QED  BY <1>1, <3>1 DEF ToSet
  <2>3. CASE ~(i <= m)
    <3>1. i - m \in 1..n /\ m + (i - m) = i
      BY <1>1, <2>3
    <3>2. x = b[i - m]
      BY <1>1, <2>1, <3>1
    <3> QED  BY <1>1, <3>1, <3>2 DEF ToSet
  <2> QED  BY <2>2, <2>3
<1>3. ASSUME NEW x \in ToSet(a) PROVE x \in ToSet(c)
  <2>1. PICK i \in 1..m : x = a[i]
    BY <1>1 DEF ToSet
  <2>2. i \in 1..(m + n) /\ x = c[i]
    BY <1>1, <2>1
  <2> QED  BY <1>1, <2>2 DEF ToSet
<1>4. ASSUME NEW x \in ToSet(b) PROVE x \in ToSet(c)
  <2>1. PICK i \in 1..n : x = b[i]
    BY <1>1 DEF ToSet
  <2>2. m + i \in 1..(m + n) /\ x = c[m + i]
    BY <1>1, <2>1
  <2> QED  BY <1>1, <2>2 DEF ToSet
<1> QED  BY <1>2, <1>3, <1>4 DEF c

\* the sequences joined so far, one more with every step
IsFlat(flat, n, ss, E) ==
  /\ FlattenSeq(ss) = flat[n]
  /\ \A i \in 1..n : flat[i] = IF i = 1 THEN ss[i] ELSE flat[i - 1] \o ss[i]
  /\ \A i \in 1..n : flat[i] \in Seq(E)

LEMMA FlattenSteps ==
  ASSUME NEW n \in Nat, n # 0, NEW E, NEW ss \in [1..n -> Seq(E)]
  PROVE  \E flat : IsFlat(flat, n, ss, E)
<1> DEFINE Flat(g) == g = [i \in 1..n |-> IF i = 1 THEN ss[i] ELSE g[i - 1] \o ss[i]]
           F == [m \in 1..n |-> [x \in Seq(E) |-> x \o ss[m]]]
<1>1. \E g : Flat(g)
  <2>1. \A m \in 1..n : \A x \in Seq(E) : F[m][x] \in Seq(E)
    OBVIOUS
  <2>2. ss[1] \in Seq(E)
    OBVIOUS
  <2> DEFINE X == Seq(E)
             x0 == ss[1]
  <2> HIDE DEF F, X, x0
  <2>3. \E g \in [1..n -> X] : IsChain(g, n, x0, F)
    <3>1. x0 \in X /\ \A m \in 1..n : \A x \in X : F[m][x] \in X
      BY <2>1, <2>2 DEF X, x0
    <3> QED  BY <3>1, StepsFromOne
  <2>4. PICK g \in [1..n -> Seq(E)] : g = [i \in 1..n |-> IF i = 1 THEN ss[1] ELSE F[i][g[i - 1]]]
    BY <2>3 DEF X, x0, IsChain
  <2>5. ASSUME NEW i \in 1..n, i # 1 PROVE F[i][g[i - 1]] = g[i - 1] \o ss[i]
    <3>1. g[i - 1] \in Seq(E)
      BY <2>5
    <3> QED  BY <3>1 DEF F
  <2>6. \A i \in 1..n : (IF i = 1 THEN ss[1] ELSE F[i][g[i - 1]]) = IF i = 1 THEN ss[i] ELSE g[i - 1] \o ss[i]
    BY <2>5
  <2>7. [i \in 1..n |-> IF i = 1 THEN ss[1] ELSE F[i][g[i - 1]]]
        = [i \in 1..n |-> IF i = 1 THEN ss[i] ELSE g[i - 1] \o ss[i]]
    BY <2>6
  <2>8. Flat(g)
    BY <2>4, <2>7
  <2> QED  BY <2>8
<1> DEFINE flat == CHOOSE g : Flat(g)
<1>2. FlattenSeq(ss) = flat[n]
  <2>1. Len(ss) = n
    OBVIOUS
  <2> QED  BY <2>1 DEF FlattenSeq
<1>3. Flat(flat)
  BY <1>1
<1> HIDE DEF flat, F
<1>4. \A i \in 1..n : flat[i] = IF i = 1 THEN ss[i] ELSE flat[i - 1] \o ss[i]
  BY <1>3
<1> HIDE DEF Flat
<1> DEFINE S == {k \in Nat : k + 1 <= n => flat[k + 1] \in Seq(E)}
<1>5. 0 \in S
  <2>1. flat[1] = ss[1] /\ ss[1] \in Seq(E)
    BY <1>4
  <2> QED  BY <2>1
<1>6. ASSUME NEW k \in Nat, k \in S PROVE k + 1 \in S
  <2> SUFFICES ASSUME k + 1 + 1 <= n PROVE flat[k + 1 + 1] \in Seq(E)
    OBVIOUS
  <2>1. flat[k + 1] \in Seq(E)
    BY <1>6
  <2> HIDE DEF S
  <2> DEFINE m == k + 1 + 1
  <2>2. m \in 1..n /\ m # 1 /\ m - 1 = k + 1
    OBVIOUS
  <2> HIDE DEF m
  <2>3. flat[m] = flat[k + 1] \o ss[m] /\ ss[m] \in Seq(E)
    BY <1>4, <2>2
  <2>4. flat[m] \in Seq(E)
    BY <2>1, <2>3
  <2> QED  BY <2>4 DEF m
<1> HIDE DEF S
<1>7. Nat \subseteq S
  BY <1>5, <1>6, SetInduction
<1>8. ASSUME NEW k \in 1..n PROVE flat[k] \in Seq(E)
  <2>1. k - 1 \in S /\ (k - 1) + 1 = k
    BY <1>7
  <2> QED  BY <2>1 DEF S
<1> QED  BY <1>2, <1>4, <1>8 DEF IsFlat

\* what is in one sequence after the other is in one of them
LEMMA Flattened ==
  ASSUME NEW n \in Nat, NEW E, NEW ss \in [1..n -> Seq(E)]
  PROVE  /\ FlattenSeq(ss) \in Seq(E)
         /\ \A x : x \in ToSet(FlattenSeq(ss)) <=> \E i \in 1..n : x \in ToSet(ss[i])
<1>1. CASE n = 0
  <2>1. Len(ss) = 0 /\ DOMAIN ss = {} /\ ss \in Seq(E)
    BY <1>1
  <2>2. FlattenSeq(ss) = ss
    BY <2>1 DEF FlattenSeq
  <2> QED  BY <1>1, <2>1, <2>2, SetOfSeq
<1>2. CASE n # 0
  <2> PICK flat : IsFlat(flat, n, ss, E)
    BY <1>2, FlattenSteps
  <2>1. /\ FlattenSeq(ss) = flat[n] /\ flat[1] = ss[1]
        /\ \A i \in 1..n : i # 1 => flat[i] = flat[i - 1] \o ss[i]
        /\ \A i \in 1..n : flat[i] \in Seq(E)
    <3>1. 1 \in 1..n
      BY <1>2
    <3>2. \A i \in 1..n : flat[i] = IF i = 1 THEN ss[i] ELSE flat[i - 1] \o ss[i]
      BY Zenon DEF IsFlat
    <3>3. flat[1] = ss[1]
      BY <3>1, <3>2
    <3>4. FlattenSeq(ss) = flat[n] /\ \A i \in 1..n : flat[i] \in Seq(E)
      BY Zenon DEF IsFlat
    <3> QED  BY <3>2, <3>3, <3>4
  <2> DEFINE Ok(k) == \A x : x \in ToSet(flat[k]) <=> \E i \in 1..k : x \in ToSet(ss[i])
             S == {k \in Nat : k + 1 <= n => Ok(k + 1)}
  <2>2. 0 \in S
    <3>1. 1..1 = {1}
      OBVIOUS
    <3>2. Ok(1)
      BY <2>1, <3>1
    <3> QED  BY <3>2
  <2>3. ASSUME NEW k \in Nat, k \in S PROVE k + 1 \in S
    <3> SUFFICES ASSUME k + 1 + 1 <= n PROVE Ok(k + 1 + 1)
      OBVIOUS
    <3>1. Ok(k + 1)
      BY <2>3
    <3> HIDE DEF S, Ok
    <3> DEFINE m == k + 1 + 1
    <3>9. m \in 1..n /\ m # 1 /\ m - 1 = k + 1 /\ k + 1 \in 1..n
      OBVIOUS
    <3>2. flat[m] = flat[k + 1] \o ss[m] /\ flat[k + 1] \in Seq(E) /\ ss[m] \in Seq(E)
      <4> HIDE DEF m
      <4> QED  BY <2>1, <3>9
    <3>3. \A x : x \in ToSet(flat[m]) <=> x \in ToSet(flat[k + 1]) \/ x \in ToSet(ss[m])
      BY <3>2, Appended
    <3>4. \A i : i \in 1..m <=> i \in 1..(k + 1) \/ i = m
      OBVIOUS
    <3> HIDE DEF m
    <3>5. Ok(m)
      BY <3>1, <3>3, <3>4 DEF Ok
    <3> QED  BY <3>5 DEF m
  <2> HIDE DEF S
  <2>4. Nat \subseteq S
    BY <2>2, <2>3, SetInduction
  <2>5. n - 1 \in S /\ (n - 1) + 1 = n
    BY <1>2, <2>4
  <2> HIDE DEF Ok
  <2>6. Ok((n - 1) + 1)
    BY <2>5 DEF S
  <2>7. Ok(n)
    BY <2>5, <2>6
  <2> QED  BY <1>2, <2>1, <2>7 DEF Ok
<1> QED  BY <1>1, <1>2

\* a relation that holds inside each sequence and from each to the later ones
LEMMA FlattenedInOrder ==
  ASSUME NEW n \in Nat, NEW E, NEW ss \in [1..n -> Seq(E)], NEW R,
         \A i \in 1..n : \A a, b \in DOMAIN ss[i] : a < b => <<ss[i][a], ss[i][b]>> \in R,
         \A i, j \in 1..n : i < j => \A x \in ToSet(ss[i]), y \in ToSet(ss[j]) : <<x, y>> \in R
  PROVE  \A a, b \in DOMAIN FlattenSeq(ss) : a < b => <<FlattenSeq(ss)[a], FlattenSeq(ss)[b]>> \in R
<1>1. CASE n = 0
  <2>1. Len(ss) = 0 /\ DOMAIN ss = {}
    BY <1>1
  <2>2. FlattenSeq(ss) = ss
    BY <2>1 DEF FlattenSeq
  <2> QED  BY <2>1, <2>2
<1>2. CASE n # 0
  <2> PICK flat : IsFlat(flat, n, ss, E)
    BY <1>2, FlattenSteps
  <2>1. /\ FlattenSeq(ss) = flat[n] /\ flat[1] = ss[1]
        /\ \A i \in 1..n : i # 1 => flat[i] = flat[i - 1] \o ss[i]
        /\ \A i \in 1..n : flat[i] \in Seq(E)
    <3>1. 1 \in 1..n
      BY <1>2
    <3>2. \A i \in 1..n : flat[i] = IF i = 1 THEN ss[i] ELSE flat[i - 1] \o ss[i]
      BY Zenon DEF IsFlat
    <3>3. flat[1] = ss[1]
      BY <3>1, <3>2
    <3>4. FlattenSeq(ss) = flat[n] /\ \A i \in 1..n : flat[i] \in Seq(E)
      BY Zenon DEF IsFlat
    <3> QED  BY <3>2, <3>3, <3>4
  <2> DEFINE Sorted(s) == \A a, b \in DOMAIN s : a < b => <<s[a], s[b]>> \in R
             From(s, k) == \A x \in ToSet(s) : \E i \in 1..k : x \in ToSet(ss[i])
             S == {k \in Nat : k + 1 <= n => Sorted(flat[k + 1]) /\ From(flat[k + 1], k + 1)}
  <2>2. 0 \in S
    <3>1. Sorted(flat[1])
      BY <1>2, <2>1
    <3>2. From(flat[1], 1)
      BY <2>1
    <3> QED  BY <3>1, <3>2
  <2>3. ASSUME NEW k \in Nat, k \in S PROVE k + 1 \in S
    <3> SUFFICES ASSUME k + 1 + 1 <= n PROVE Sorted(flat[k + 1 + 1]) /\ From(flat[k + 1 + 1], k + 1 + 1)
      OBVIOUS
    <3>1. Sorted(flat[k + 1]) /\ From(flat[k + 1], k + 1)
      BY <2>3
    <3> DEFINE m == k + 1 + 1
               s == flat[k + 1]
               t == ss[m]
    <3>9. m \in 1..n /\ m # 1 /\ m - 1 = k + 1 /\ k + 1 \in 1..n
      OBVIOUS
    <3>2. flat[m] = s \o t /\ s \in Seq(E) /\ t \in Seq(E)
      <4> HIDE DEF m, S, Sorted, From
      <4> QED  BY <2>1, <3>9
    <3>3. \A i \in 1..(k + 1) : i \in 1..m /\ i \in 1..n /\ i < m
      OBVIOUS
    <3>4. Sorted(t)
      BY <3>9
    <3>5. \A x \in ToSet(s), y \in ToSet(t) : <<x, y>> \in R
      BY <3>1, <3>3, <3>9
    <3>6. From(s \o t, m)
      <4>1. \A x \in ToSet(s \o t) : x \in ToSet(s) \/ x \in ToSet(t)
        BY <3>2, Appended
      <4>2. m \in 1..m
        OBVIOUS
      <4> QED  BY <3>1, <3>3, <4>1, <4>2
    <3>7. Sorted(s) /\ Sorted(s \o t)
      <4> HIDE DEF s, t, m, From, S
      <4>1. Sorted(s)
        BY <3>1 DEF s
      <4>2. /\ DOMAIN s = 1..Len(s) /\ DOMAIN t = 1..Len(t) /\ DOMAIN (s \o t) = 1..(Len(s) + Len(t))
            /\ Len(s) \in Nat /\ Len(t) \in Nat
            /\ \A i \in 1..Len(s) : (s \o t)[i] = s[i]
            /\ \A i \in 1..Len(t) : (s \o t)[Len(s) + i] = t[i]
        BY <3>2
      <4> SUFFICES ASSUME NEW a \in 1..(Len(s) + Len(t)), NEW b \in 1..(Len(s) + Len(t)), a < b
                   PROVE  <<(s \o t)[a], (s \o t)[b]>> \in R
        BY <4>1, <4>2
      <4>3. CASE b <= Len(s)
        <5>1. a \in 1..Len(s) /\ b \in 1..Len(s)
          BY <4>2, <4>3
        <5>2. (s \o t)[a] = s[a] /\ (s \o t)[b] = s[b]
          BY <4>2, <5>1
        <5> QED  BY <4>1, <4>2, <5>1, <5>2
      <4>4. CASE a <= Len(s) /\ ~(b <= Len(s))
        <5>1. a \in 1..Len(s) /\ b - Len(s) \in 1..Len(t) /\ b = Len(s) + (b - Len(s))
          BY <4>2, <4>4
        <5>2. (s \o t)[a] = s[a] /\ (s \o t)[b] = t[b - Len(s)]
          BY <4>2, <5>1
        <5>3. s[a] \in ToSet(s) /\ t[b - Len(s)] \in ToSet(t)
          BY <4>2, <5>1 DEF ToSet
        <5> QED  BY <3>5, <5>2, <5>3
      <4>5. CASE ~(a <= Len(s))
        <5>1. /\ a - Len(s) \in 1..Len(t) /\ a = Len(s) + (a - Len(s))
              /\ b - Len(s) \in 1..Len(t) /\ b = Len(s) + (b - Len(s)) /\ a - Len(s) < b - Len(s)
          BY <4>2, <4>5
        <5>2. (s \o t)[a] = t[a - Len(s)] /\ (s \o t)[b] = t[b - Len(s)]
          BY <4>2, <5>1
        <5> QED  BY <3>4, <4>2, <5>1, <5>2
      <4> QED  BY <4>2, <4>3, <4>4, <4>5
    <3> HIDE DEF Sorted, From, s, t
    <3> QED  BY <3>2, <3>6, <3>7
  <2> HIDE DEF S
  <2>4. Nat \subseteq S
    BY <2>2, <2>3, SetInduction
  <2>5. n - 1 \in S /\ (n - 1) + 1 = n
    BY <1>2, <2>4
  <2> HIDE DEF Sorted, From
  <2>6. Sorted(flat[(n - 1) + 1])
    BY <2>5 DEF S
  <2>7. Sorted(flat[n])
    BY <2>5, <2>6
  <2> QED  BY <2>1, <2>7 DEF Sorted
<1> QED  BY <1>1, <1>2

----------------------------------------------------------------------------
(* ELF files.                                                              *)
LEMMA CutELFHeader ==
  ASSUME NEW p, NEW f, IsCut(p, f), ELFHeaderOk(p)
  PROVE  /\ ELFHeaderOk(f) /\ p[0] = f[0] /\ \A name : Field(p, 0, name) = Field(f, 0, name)
         /\ \A name \in Numbers : Field(p, 0, name) \in Nat
<1>1. InFile(p, 0)
  BY DEF ELFHeaderOk
<1>2. /\ InFile(f, 0) /\ p[0] = f[0] /\ Magic(p, 0) = Magic(f, 0)
      /\ \A name : Field(p, 0, name) = Field(f, 0, name)
      /\ \A name \in Numbers : Field(p, 0, name) \in Nat
  BY <1>1, CutCell
<1> QED  BY <1>2 DEF ELFHeaderOk

LEMMA CutTable ==
  ASSUME NEW p, NEW f, IsCut(p, f), NEW start \in Nat, NEW n \in Nat
  PROVE  /\ Table(p, start, n) \subseteq Table(f, start, n)
         /\ \A o \in Table(p, start, n) : o \in Nat /\ InFile(p, o)
<1>1. ASSUME NEW o \in Table(p, start, n) PROVE o \in Nat /\ InFile(p, o) /\ o \in Table(f, start, n)
  <2>1. o \in start..(start + n - 1) /\ InFile(p, o) /\ o \in Nat
    BY DEF Table
  <2>2. InFile(f, o)
    BY <2>1, CutCell
  <2> QED  BY <2>1, <2>2 DEF Table
<1> QED  BY <1>1

LEMMA CutSections ==
  ASSUME NEW p, NEW f, IsCut(p, f), ELFHeaderOk(p)
  PROVE  /\ Sections(p) \subseteq Sections(f)
         /\ \A o \in Sections(p) : o \in Nat /\ InFile(p, o)
<1> DEFINE start == Field(p, 0, "shoff")
           n == Field(p, 0, "shnum")
<1>1. start = Field(f, 0, "shoff") /\ n = Field(f, 0, "shnum") /\ start \in Nat /\ n \in Nat
  BY CutELFHeader DEF Numbers
<1>2. Sections(p) = Table(p, start, n) /\ Sections(f) = Table(f, start, n)
  BY <1>1 DEF Sections
<1> HIDE DEF start, n
<1> QED  BY <1>1, <1>2, CutTable

\* a string table that has all arrived
LEMMA CutStrings ==
  ASSUME NEW p, NEW f, IsCut(p, f), ELFHeaderOk(p), NEW n \in Nat, HasStrings(p, n)
  PROVE  HasStrings(f, n) /\ \A index \in Nat : String(p, n, index) = String(f, n, index)
<1> DEFINE sh == Field(p, 0, "shoff") + n
<1>1. sh = Field(f, 0, "shoff") + n /\ sh \in Nat
  BY CutELFHeader DEF Numbers
<1> DEFINE off == Field(p, sh, "off")
           size == Field(p, sh, "size")
<1>2. InFile(p, sh) /\ off + size <= Size(p)
  BY DEF HasStrings
<1> HIDE DEF sh
<1>3. /\ InFile(f, sh) /\ off = Field(f, sh, "off") /\ size = Field(f, sh, "size")
      /\ off \in Nat /\ size \in Nat
  BY <1>1, <1>2, CutCell DEF Numbers
<1>4. HasStrings(f, n)
  BY <1>1, <1>2, <1>3 DEF HasStrings, IsCut
<1>5. ASSUME NEW index \in Nat PROVE String(p, n, index) = String(f, n, index)
  <2>1. String(p, n, index) = IF index >= size THEN NoText ELSE Text(p, off + index)
    BY DEF String, sh
  <2>2. String(f, n, index) = IF index >= size THEN NoText ELSE Text(f, off + index)
    BY <1>1, <1>3 DEF String
  <2> HIDE DEF off, size
  <2>3. ASSUME ~(index >= size) PROVE Text(p, off + index) = Text(f, off + index)
    <3>1. off + index \in Nat /\ off + index + 1 <= Size(p)
      BY <1>2, <1>3, <2>3 DEF IsCut
    <3>2. InFile(p, off + index)
      BY <3>1 DEF InFile
    <3> DEFINE o == off + index
    <3> HIDE DEF o
    <3>3. o \in Int /\ o >= 0 /\ InFile(p, o)
      BY <3>1, <3>2 DEF o
    <3> QED  BY <3>3, CutCell DEF o
  <2> QED  BY <2>1, <2>2, <2>3
<1> QED  BY <1>4, <1>5

\* the segment of a program header
SegmentAt(f, ph) ==
  Segment(f, "LOAD", f[ph].va, f[ph].size, Field(f, ph, "off"), Field(f, ph, "fileSize"), f[ph].exec)
ProgramHeaders(f) ==
  {ph \in Field(f, 0, "phoff")..(Field(f, 0, "phoff") + Field(f, 0, "phnum") - 1) : InFile(f, ph) /\ f[ph].load}

LEMMA ProgramSegmentsAre ==
  ASSUME NEW f, IsFile(f), ELFHeaderOk(f)
  PROVE  /\ \E E : ProgramSegments(f) \in Seq(E)
         /\ \A x : x \in ToSet(ProgramSegments(f)) <=> \E ph \in ProgramHeaders(f) : x = SegmentAt(f, ph)
<1> DEFINE n == Field(f, 0, "phnum")
           off == Field(f, 0, "phoff")
           Here(ph) == InFile(f, ph) /\ f[ph].load
           ss == [i \in 1..n |-> IF Here(off + i - 1) THEN <<SegmentAt(f, off + i - 1)>> ELSE <<>>]
           E == {SegmentAt(f, ph) : ph \in off..(off + n - 1)}
<1>1. n \in Nat /\ off \in Nat
  <2>1. IsCut(f, f)
    BY FileIsCut DEF IsCut
  <2> QED  BY <2>1, CutELFHeader DEF Numbers
<1>2. ProgramSegments(f) = FlattenSeq(ss)
  <2>1. ASSUME NEW i \in 1..n
        PROVE  (IF ~InFile(f, off + i - 1) \/ ~f[off + i - 1].load THEN <<>> ELSE <<SegmentAt(f, off + i - 1)>>)
               = IF Here(off + i - 1) THEN <<SegmentAt(f, off + i - 1)>> ELSE <<>>
    OBVIOUS
  <2>2. [i \in 1..n |-> IF ~InFile(f, off + i - 1) \/ ~f[off + i - 1].load THEN <<>>
                        ELSE <<SegmentAt(f, off + i - 1)>>] = ss
    BY <2>1
  <2> QED  BY <2>2 DEF ProgramSegments, SegmentAt
<1>3. ss \in [1..n -> Seq(E)]
  <2> SUFFICES ASSUME NEW i \in 1..n
               PROVE  (IF Here(off + i - 1) THEN <<SegmentAt(f, off + i - 1)>> ELSE <<>>) \in Seq(E)
    OBVIOUS
  <2>1. off + i - 1 \in off..(off + n - 1)
    BY <1>1
  <2>2. SegmentAt(f, off + i - 1) \in E
    BY <2>1
  <2> HIDE DEF E
  <2> QED  BY <2>2
<1>4. \A i \in 1..n : ss[i] = IF Here(off + i - 1) THEN <<SegmentAt(f, off + i - 1)>> ELSE <<>>
  OBVIOUS
<1> HIDE DEF ss, E
<1>5. /\ FlattenSeq(ss) \in Seq(E)
      /\ \A x : x \in ToSet(FlattenSeq(ss)) <=> \E i \in 1..n : x \in ToSet(ss[i])
  BY <1>1, <1>3, Flattened
<1>6. \A x : \A i \in 1..n : x \in ToSet(ss[i]) <=> Here(off + i - 1) /\ x = SegmentAt(f, off + i - 1)
  <2> TAKE x
  <2> TAKE i \in 1..n
  <2>1. CASE Here(off + i - 1)
    <3>1. ss[i] = <<SegmentAt(f, off + i - 1)>>
      BY <1>4, <2>1
    <3>2. DOMAIN ss[i] = {1} /\ ss[i][1] = SegmentAt(f, off + i - 1)
      BY <3>1
    <3> QED  BY <2>1, <3>2 DEF ToSet
  <2>2. CASE ~Here(off + i - 1)
    <3>1. ss[i] = <<>>
      BY <1>4, <2>2
    <3>2. ToSet(<<>>) = {}
      BY DEF ToSet
    <3> QED  BY <2>2, <3>1, <3>2
  <2> QED  BY <2>1, <2>2
<1>7. ASSUME NEW x
      PROVE  (\E i \in 1..n : Here(off + i - 1) /\ x = SegmentAt(f, off + i - 1))
             <=> \E ph \in ProgramHeaders(f) : x = SegmentAt(f, ph)
  <2>1. ASSUME NEW i \in 1..n, Here(off + i - 1) PROVE off + i - 1 \in ProgramHeaders(f)
    <3>1. off + i - 1 \in off..(off + n - 1)
      BY <1>1
    <3> QED  BY <2>1, <3>1 DEF ProgramHeaders
  <2>2. ASSUME NEW ph \in ProgramHeaders(f) PROVE ph - off + 1 \in 1..n /\ off + (ph - off + 1) - 1 = ph /\ Here(ph)
    BY <1>1 DEF ProgramHeaders
  <2> HIDE DEF Here, n, off
  <2> QED  BY <2>1, <2>2
<1> QED  BY <1>2, <1>5, <1>6, <1>7

LEMMA ELFSegmentsAre ==
  ASSUME NEW f, IsFile(f), ELFHeaderOk(f)
  PROVE  /\ Len(ELFSegments(f)) \in Nat /\ DOMAIN ELFSegments(f) = 1..Len(ELFSegments(f))
         /\ \A i \in DOMAIN ELFSegments(f) : \E ph \in ProgramHeaders(f) :
              /\ ELFSegments(f)[i].va = SegmentAt(f, ph).va /\ ELFSegments(f)[i].off = SegmentAt(f, ph).off
              /\ ELFSegments(f)[i].data = SegmentAt(f, ph).data
         /\ \A ph \in ProgramHeaders(f) : \E i \in DOMAIN ELFSegments(f) :
              /\ ELFSegments(f)[i].va = SegmentAt(f, ph).va /\ ELFSegments(f)[i].off = SegmentAt(f, ph).off
              /\ ELFSegments(f)[i].data = SegmentAt(f, ph).data
<1> DEFINE L == ProgramSegments(f)
           Same(s, w) == s.va = w.va /\ s.off = w.off /\ s.data = w.data
<1>1. PICK E : L \in Seq(E)
  BY ProgramSegmentsAre
<1>2. \A x : x \in ToSet(L) <=> \E ph \in ProgramHeaders(f) : x = SegmentAt(f, ph)
  BY ProgramSegmentsAre
<1>3. Len(L) \in Nat /\ DOMAIN L = 1..Len(L)
  BY <1>1
<1> HIDE DEF L
<1>4. /\ DOMAIN ELFSegments(f) = 1..Len(L)
      /\ \A i \in 1..Len(L) : \/ ELFSegments(f)[i] = L[i]
                             \/ \E name : ELFSegments(f)[i] = [L[i] EXCEPT !.name = name]
  <2> DEFINE in(sh) == FirstSegment([segments |-> L], f[sh].addr)
             by(i) == {sh \in Sections(f) : f[sh].addr # 0 /\ f[sh].size # 0 /\ in(sh) = i /\ NameOf(f, sh) # NoText}
             strings == Field(f, 0, "shnum") # 0 /\ Field(f, 0, "shstrndx") # 0 /\ HasStrings(f, Field(f, 0, "shstrndx"))
  <2>1. ELFSegments(f) = [i \in 1..Len(L) |->
           IF strings /\ by(i) # {} THEN [L[i] EXCEPT !.name = NameOf(f, Max(by(i)))] ELSE L[i]]
    BY DEF ELFSegments, L
  <2> HIDE DEF by, strings
  <2> QED  BY <2>1
<1>5. Len(ELFSegments(f)) = Len(L)
  BY <1>3, <1>4
<1>6. ASSUME NEW i \in 1..Len(L) PROVE Same(ELFSegments(f)[i], L[i])
  <2>1. PICK ph \in ProgramHeaders(f) : L[i] = SegmentAt(f, ph)
    <3>1. L[i] \in ToSet(L)
      BY <1>3 DEF ToSet
    <3> QED  BY <1>2, <3>1
  <2> DEFINE s == L[i]
  <2>2. \A name : /\ [s EXCEPT !.name = name].va = s.va /\ [s EXCEPT !.name = name].off = s.off
                  /\ [s EXCEPT !.name = name].data = s.data
    BY <2>1 DEF SegmentAt, Segment
  <2>3. ELFSegments(f)[i] = s \/ \E name : ELFSegments(f)[i] = [s EXCEPT !.name = name]
    BY <1>4
  <2> HIDE DEF s
  <2>4. Same(ELFSegments(f)[i], s)
    BY <2>2, <2>3
  <2> QED  BY <2>4 DEF s
<1>7. ASSUME NEW i \in 1..Len(L) PROVE \E ph \in ProgramHeaders(f) : Same(ELFSegments(f)[i], SegmentAt(f, ph))
  <2>1. L[i] \in ToSet(L)
    BY <1>3 DEF ToSet
  <2>2. PICK ph \in ProgramHeaders(f) : L[i] = SegmentAt(f, ph)
    BY <1>2, <2>1
  <2>3. Same(ELFSegments(f)[i], SegmentAt(f, ph))
    BY <1>6, <2>2
  <2> HIDE DEF Same
  <2> QED  BY <2>3
<1>8. ASSUME NEW ph \in ProgramHeaders(f) PROVE \E i \in 1..Len(L) : Same(ELFSegments(f)[i], SegmentAt(f, ph))
  <2>1. SegmentAt(f, ph) \in ToSet(L)
    BY <1>2
  <2>2. PICK i \in 1..Len(L) : L[i] = SegmentAt(f, ph)
    BY <1>3, <2>1 DEF ToSet
  <2>3. Same(ELFSegments(f)[i], SegmentAt(f, ph))
    BY <1>6, <2>2
  <2> HIDE DEF Same
  <2> QED  BY <2>3
<1> QED  BY <1>3, <1>4, <1>5, <1>7, <1>8

LEMMA CutIsFile ==
  ASSUME NEW p, NEW f, IsCut(p, f)
  PROVE  IsFile(p)
<1>1. IsFiniteSet(DOMAIN p) /\ DOMAIN p = 0..(Size(p) - 1)
  BY FS_Interval DEF IsCut
<1>2. \A o \in DOMAIN p : o \in DOMAIN f /\ p[o] = f[o]
  BY DEF IsCut
<1>3. \A o \in DOMAIN p, name \in Numbers : Field(p, o, name) \in Nat
  BY <1>2 DEF Field, IsCut, IsFile
<1>4. \A o \in DOMAIN p : Magic(p, o) \in {"PE32", "PE32+"} =>
        \A d \in DOMAIN p[o].dirs : p[o].dirs[d].rva \in Nat /\ p[o].dirs[d].size \in Nat
  BY <1>2 DEF Magic, IsCut, IsFile
<1> QED  BY <1>1, <1>3, <1>4 DEF IsFile

LEMMA CutSymbols ==
  ASSUME NEW p, NEW f, IsCut(p, f), ELFHeaderOk(p), NEW sh \in Nat, InFile(p, sh)
  PROVE  SymbolsOf(p, sh) \subseteq SymbolsOf(f, sh)
<1> SUFFICES ASSUME SymbolsOf(p, sh) # {} PROVE SymbolsOf(p, sh) = SymbolsOf(f, sh)
  OBVIOUS
<1> DEFINE off == Field(p, sh, "off")
           link == Field(p, sh, "link")
           size == Field(p, sh, "size")
           Is(g, sym) == /\ g[sym].value # 0 /\ g[sym].defined
                         /\ String(g, link, Field(g, sym, "strx")) # NoText
                         /\ g[sym].func /\ g[sym].bind \in {"global", "weak"}
           Taken(g) == {sym \in (off + 1)..(off + size - 1) : Is(g, sym)}
           Symbol(g, sym) == [name |-> String(g, link, Field(g, sym, "strx")), addr |-> g[sym].value]
<1>1. /\ off = Field(f, sh, "off") /\ link = Field(f, sh, "link") /\ size = Field(f, sh, "size")
      /\ off \in Nat /\ link \in Nat /\ size \in Nat
  BY CutCell DEF Numbers
<1>2. SymbolsOf(p, sh) = IF off + size > Size(p) \/ ~HasStrings(p, link) THEN {} ELSE {Symbol(p, sym) : sym \in Taken(p)}
  BY DEF SymbolsOf
<1>3. SymbolsOf(f, sh) = IF off + size > Size(f) \/ ~HasStrings(f, link) THEN {} ELSE {Symbol(f, sym) : sym \in Taken(f)}
  BY <1>1 DEF SymbolsOf
<1>4. off + size <= Size(p) /\ HasStrings(p, link) /\ SymbolsOf(p, sh) = {Symbol(p, sym) : sym \in Taken(p)}
  <2> HIDE DEF off, size, link, Symbol, Taken
  <2> QED  BY <1>1, <1>2 DEF IsCut
<1>5. HasStrings(f, link) /\ \A index \in Nat : String(p, link, index) = String(f, link, index)
  <2> HIDE DEF link
  <2> QED  BY <1>1, <1>4, CutStrings
<1>6. SymbolsOf(f, sh) = {Symbol(f, sym) : sym \in Taken(f)}
  <2> HIDE DEF off, size, link, Symbol, Taken
  <2> QED  BY <1>1, <1>3, <1>4, <1>5 DEF IsCut
<1> HIDE DEF off, size, link
<1>7. ASSUME NEW sym \in (off + 1)..(off + size - 1)
      PROVE  Symbol(p, sym) = Symbol(f, sym) /\ (Is(p, sym) <=> Is(f, sym))
  <2>1. sym \in Nat /\ InFile(p, sym)
    <3>1. Size(p) \in Nat
      BY DEF IsCut
    <3> QED  BY <1>1, <1>4, <3>1 DEF InFile
  <2>2. p[sym] = f[sym] /\ Field(p, sym, "strx") = Field(f, sym, "strx") /\ Field(p, sym, "strx") \in Nat
    BY <2>1, CutCell DEF Numbers
  <2>3. String(p, link, Field(p, sym, "strx")) = String(f, link, Field(f, sym, "strx"))
    BY <1>5, <2>2
  <2> QED  BY <2>2, <2>3
<1> HIDE DEF Symbol, Is
<1> QED  BY <1>4, <1>6, <1>7

LEMMA CutELFExports ==
  ASSUME NEW p, NEW f, IsCut(p, f), ELFHeaderOk(p)
  PROVE  ELFExports(p) \subseteq ELFExports(f)
<1> SUFFICES ASSUME NEW x \in ELFExports(p) PROVE x \in ELFExports(f)
  OBVIOUS
<1>1. PICK sh \in Sections(p) : p[sh].type \in {"symtab", "dynsym"} /\ x \in SymbolsOf(p, sh)
  BY DEF ELFExports
<1>2. sh \in Sections(f) /\ sh \in Nat /\ InFile(p, sh)
  BY CutSections
<1>3. f[sh].type \in {"symtab", "dynsym"}
  BY <1>1, <1>2, CutCell
<1>4. x \in SymbolsOf(f, sh)
  BY <1>1, <1>2, CutSymbols
<1> QED  BY <1>2, <1>3, <1>4 DEF ELFExports

LEMMA MaxOfOne == ASSUME NEW o \in Int PROVE Max({o}) = o
<1>1. {o} \in SUBSET Int /\ o \in {o} /\ \A k \in {o} : k <= o
  OBVIOUS
<1> QED  BY <1>1, MaxIs

LEMMA CutDynSyms ==
  ASSUME NEW p, NEW f, IsCut(p, f), ELFHeaderOk(p)
  PROVE  DynSyms(p) \subseteq DynSyms(f) /\ \A sh \in DynSyms(p) : sh \in Nat /\ InFile(p, sh)
<1> SUFFICES ASSUME NEW sh \in DynSyms(p) PROVE sh \in DynSyms(f) /\ sh \in Nat /\ InFile(p, sh)
  OBVIOUS
<1>1. sh \in Sections(p) /\ p[sh].type = "dynsym"
  BY DEF DynSyms
<1>2. sh \in Sections(f) /\ sh \in Nat /\ InFile(p, sh)
  BY <1>1, CutSections
<1>3. p[sh] = f[sh]
  BY <1>2, CutCell
<1> QED  BY <1>1, <1>2, <1>3 DEF DynSyms

LEMMA CutPltRels ==
  ASSUME NEW p, NEW f, IsCut(p, f), ELFHeaderOk(p)
  PROVE  PltRels(p) \subseteq PltRels(f) /\ \A sh \in PltRels(p) : sh \in Nat /\ InFile(p, sh)
<1> DEFINE relType == IF f[0].class = 64 THEN "rela" ELSE "rel"
           plt == relType \o ".plt"
           names == Field(p, 0, "shstrndx")
<1>1. p[0] = f[0] /\ names = Field(f, 0, "shstrndx") /\ names \in Nat
  BY CutELFHeader DEF Numbers
<1>2. /\ PltRels(p) = {sh \in Sections(p) : p[sh].type = relType /\ HasStrings(p, names) /\ NameOf(p, sh) = plt}
      /\ PltRels(f) = {sh \in Sections(f) : f[sh].type = relType /\ HasStrings(f, names) /\ NameOf(f, sh) = plt}
  BY <1>1 DEF PltRels
<1>3. ASSUME NEW sh \in PltRels(p) PROVE sh \in PltRels(f) /\ sh \in Nat /\ InFile(p, sh)
  <2> HIDE DEF relType, plt, names
  <2>1. sh \in Sections(p) /\ p[sh].type = relType /\ HasStrings(p, names) /\ NameOf(p, sh) = plt
    BY <1>2, <1>3
  <2>2. sh \in Sections(f) /\ sh \in Nat /\ InFile(p, sh)
    BY <2>1, CutSections
  <2>3. p[sh] = f[sh] /\ Field(p, sh, "strx") = Field(f, sh, "strx") /\ Field(p, sh, "strx") \in Nat
    BY <2>2, CutCell DEF Numbers
  <2>4. HasStrings(f, names) /\ \A index \in Nat : String(p, names, index) = String(f, names, index)
    BY <1>1, <2>1, CutStrings
  <2>5. NameOf(p, sh) = String(p, names, Field(p, sh, "strx")) /\ NameOf(f, sh) = String(f, names, Field(f, sh, "strx"))
    BY <1>1 DEF NameOf, names
  <2>6. NameOf(f, sh) = plt
    BY <2>1, <2>3, <2>4, <2>5
  <2> QED  BY <1>2, <2>1, <2>2, <2>3, <2>4, <2>6
<1> QED  BY <1>3

\* where the sections are the only ones of their kind, a part has the same
LEMMA CutELFImports ==
  ASSUME NEW p, NEW f, IsCut(p, f), ELFHeaderOk(p), HasOneOfEach(f), NEW x \in ELFImports(p)
  PROVE  \E y \in ELFImports(f) : y.slot = x.slot
<1> DEFINE Linked(g) == {sh \in DynSyms(g) : HasStrings(g, Field(g, sh, "link"))}
<1>1. ELFHeaderOk(f)
  BY CutELFHeader
<1>2. (\A s, t \in DynSyms(f) : s = t) /\ (\A s, t \in PltRels(f) : s = t)
  BY <1>1 DEF HasOneOfEach
<1>3. Linked(p) # {} /\ PltRels(p) # {}
  BY DEF ELFImports
<1>4. PICK d : d \in Linked(p)
  BY <1>3
<1>5. PICK rel : rel \in PltRels(p)
  BY <1>3
<1>6. d \in DynSyms(p) /\ d \in DynSyms(f) /\ d \in Nat /\ InFile(p, d) /\ HasStrings(p, Field(p, d, "link"))
  BY <1>4, CutDynSyms
<1>7. rel \in PltRels(f) /\ rel \in Nat /\ InFile(p, rel)
  BY <1>5, CutPltRels
<1> DEFINE link == Field(p, d, "link")
           off == Field(p, d, "off")
           start == Field(p, rel, "off")
           n == Field(p, rel, "size")
<1>8. /\ link = Field(f, d, "link") /\ off = Field(f, d, "off") /\ link \in Nat /\ off \in Nat
      /\ start = Field(f, rel, "off") /\ n = Field(f, rel, "size") /\ start \in Nat /\ n \in Nat
  BY <1>6, <1>7, CutCell DEF Numbers
<1>9. HasStrings(f, link) /\ \A index \in Nat : String(p, link, index) = String(f, link, index)
  <2>1. HasStrings(p, link)
    BY <1>6
  <2> HIDE DEF link
  <2> QED  BY <1>8, <2>1, CutStrings
<1>10. /\ DynSyms(p) = {d} /\ DynSyms(f) = {d} /\ PltRels(p) = {rel} /\ PltRels(f) = {rel}
       /\ Linked(p) = {d} /\ Linked(f) = {d}
  <2>1. DynSyms(p) = {d} /\ DynSyms(f) = {d} /\ PltRels(p) = {rel} /\ PltRels(f) = {rel}
    <3>1. DynSyms(p) \subseteq DynSyms(f) /\ PltRels(p) \subseteq PltRels(f)
      BY CutDynSyms, CutPltRels
    <3> QED  BY <1>2, <1>5, <1>6, <1>7, <3>1
  <2>2. HasStrings(f, Field(f, d, "link"))
    BY <1>8, <1>9
  <2> QED  BY <1>4, <2>1, <2>2
<1>11. Max({d}) = d /\ Max({rel}) = rel
  BY <1>6, <1>7, MaxOfOne
<1> DEFINE symbol(g, r) == off + Field(g, r, "symbol")
           Import(g, r) == String(g, link, Field(g, symbol(g, r), "strx"))
           Slots(g) == {r \in Table(g, start, n) : InFile(g, symbol(g, r)) /\ Import(g, r) # NoText}
           Entry(g, r) == [dll |-> "extern", name |-> Import(g, r), slot |-> g[r].slot]
<1>12. ELFImports(p) = {Entry(p, r) : r \in Slots(p)}
  BY <1>10, <1>11 DEF ELFImports
<1>13. ELFImports(f) = {Entry(f, r) : r \in Slots(f)}
  <2> HIDE DEF link, off, start, n
  <2>1. /\ link = Field(f, d, "link") /\ off = Field(f, d, "off")
        /\ start = Field(f, rel, "off") /\ n = Field(f, rel, "size")
    BY <1>8
  <2> QED  BY <1>10, <1>11, <2>1 DEF ELFImports
<1> HIDE DEF link, off, start, n
<1>14. PICK r \in Slots(p) : x = Entry(p, r)
  BY <1>12
<1>15. r \in Table(p, start, n) /\ r \in Table(f, start, n) /\ r \in Nat /\ InFile(p, r) /\ InFile(p, symbol(p, r))
  BY <1>8, <1>14, CutTable
<1>16. p[r] = f[r] /\ Field(p, r, "symbol") = Field(f, r, "symbol") /\ Field(p, r, "symbol") \in Nat
  BY <1>15, CutCell DEF Numbers
<1> DEFINE sym == off + Field(f, r, "symbol")
<1>17. symbol(p, r) = sym /\ symbol(f, r) = sym /\ sym \in Nat /\ InFile(p, sym)
  BY <1>8, <1>15, <1>16
<1> HIDE DEF symbol, sym
<1>18. InFile(f, sym) /\ Field(p, sym, "strx") = Field(f, sym, "strx") /\ Field(p, sym, "strx") \in Nat
  BY <1>17, CutCell DEF Numbers
<1>19. Import(p, r) = Import(f, r)
  BY <1>9, <1>17, <1>18
<1>20. r \in Slots(f) /\ Entry(f, r).slot = x.slot
  BY <1>14, <1>15, <1>16, <1>17, <1>18, <1>19
<1> HIDE DEF Entry, Slots
<1> QED  BY <1>13, <1>20

LEMMA CutELFSegments ==
  ASSUME NEW p, NEW f, IsCut(p, f), ELFHeaderOk(p), NEW s \in ToSet(ELFSegments(p))
  PROVE  \E w \in ToSet(ELFSegments(f)) : s.va = w.va /\ s.off = w.off /\ s.data \in {<<>>, w.data}
<1>1. IsFile(f) /\ IsFile(p) /\ ELFHeaderOk(f)
  <2>1. IsFile(p)
    BY CutIsFile
  <2> QED  BY <2>1, CutELFHeader DEF IsCut
<1>2. PICK i \in DOMAIN ELFSegments(p) : s = ELFSegments(p)[i]
  BY DEF ToSet
<1>3. PICK ph \in ProgramHeaders(p) : s.va = SegmentAt(p, ph).va /\ s.off = SegmentAt(p, ph).off /\ s.data = SegmentAt(p, ph).data
  BY <1>1, <1>2, ELFSegmentsAre
<1>4. Field(p, 0, "phoff") = Field(f, 0, "phoff") /\ Field(p, 0, "phnum") = Field(f, 0, "phnum") /\ Field(p, 0, "phoff") \in Nat
  BY CutELFHeader DEF Numbers
<1>5. ph \in Nat /\ InFile(p, ph) /\ p[ph].load
  BY <1>3, <1>4 DEF ProgramHeaders
<1>6. /\ InFile(f, ph) /\ p[ph] = f[ph] /\ Field(p, ph, "off") = Field(f, ph, "off")
      /\ Field(p, ph, "fileSize") = Field(f, ph, "fileSize")
      /\ Field(p, ph, "off") \in Nat /\ Field(p, ph, "fileSize") \in Nat
  BY <1>5, CutCell DEF Numbers
<1>7. ph \in ProgramHeaders(f)
  BY <1>3, <1>4, <1>5, <1>6 DEF ProgramHeaders
<1>8. IsCutSegment(SegmentAt(p, ph), SegmentAt(f, ph))
  BY <1>6, CutSegment DEF SegmentAt
<1>9. PICK j \in DOMAIN ELFSegments(f) :
        /\ ELFSegments(f)[j].va = SegmentAt(f, ph).va /\ ELFSegments(f)[j].off = SegmentAt(f, ph).off
        /\ ELFSegments(f)[j].data = SegmentAt(f, ph).data
  BY <1>1, <1>7, ELFSegmentsAre
<1>10. ELFSegments(f)[j] \in ToSet(ELFSegments(f))
  BY DEF ToSet
<1> QED  BY <1>3, <1>8, <1>9, <1>10 DEF IsCutSegment

(* An ELF file that was cut short.                                         *)
LEMMA CutELF ==
  ASSUME NEW p, NEW f, IsCut(p, f), HasOneOfEach(f), LoadELF(p) # NoImage
  PROVE  IsPartOf(LoadELF(p), LoadELF(f))
<1>1. ELFHeaderOk(p) /\ ELFSegments(p) # <<>>
  BY DEF LoadELF
<1>2. ELFHeaderOk(f)
  BY <1>1, CutELFHeader
<1>3. \A s \in ToSet(ELFSegments(p)) : \E w \in ToSet(ELFSegments(f)) :
        s.va = w.va /\ s.off = w.off /\ s.data \in {<<>>, w.data}
  BY <1>1, CutELFSegments
<1>4. ELFSegments(f) # <<>>
  <2>1. IsCut(p, f) /\ IsFile(f)
    BY DEF IsCut
  <2>2. ToSet(ELFSegments(p)) # {}
    <3>1. DOMAIN ELFSegments(p) = {} => ELFSegments(p) = <<>>
      <4>1. IsFile(p)
        BY <1>1, CutIsFile
      <4>2. Len(ELFSegments(p)) \in Nat /\ DOMAIN ELFSegments(p) = 1..Len(ELFSegments(p))
        BY <1>1, <4>1, ELFSegmentsAre
      <4>3. ELFSegments(p) = [i \in 1..Len(ProgramSegments(p)) |-> ELFSegments(p)[i]]
        BY DEF ELFSegments
      <4> QED  BY <4>2, <4>3
    <3> QED  BY <1>1, <3>1 DEF ToSet
  <2>3. ToSet(ELFSegments(f)) # {}
    BY <1>3, <2>2
  <2>4. DOMAIN <<>> = {}
    OBVIOUS
  <2> QED  BY <2>3, <2>4 DEF ToSet
<1>5. /\ LoadELF(p).segments = ELFSegments(p) /\ LoadELF(f).segments = ELFSegments(f)
      /\ LoadELF(p).imports = ELFImports(p) /\ LoadELF(f).imports = ELFImports(f)
      /\ LoadELF(p).exports = ELFExports(p) /\ LoadELF(f).exports = ELFExports(f)
      /\ LoadELF(p).functions = <<>> /\ LoadELF(f).functions = <<>>
  BY <1>1, <1>2, <1>4 DEF LoadELF
<1>6. {x.slot : x \in ELFImports(p)} \subseteq {x.slot : x \in ELFImports(f)}
  BY <1>1, CutELFImports
<1>7. {x.addr : x \in ELFExports(p)} \subseteq {x.addr : x \in ELFExports(f)} \cup {LoadELF(p).base}
  BY <1>1, CutELFExports
<1>8. IsPrefix(<<>>, <<>>)
  <2>1. Len(<<>>) \in Nat
    OBVIOUS
  <2> QED  BY <2>1, EmptyIsPrefix
<1> QED  BY <1>3, <1>5, <1>6, <1>7, <1>8 DEF IsPartOf

----------------------------------------------------------------------------
(* Mach-O files.                                                           *)
LEMMA CutMachHeader ==
  ASSUME NEW p, NEW f, IsCut(p, f), MachHeaderOk(p)
  PROVE  /\ MachHeaderOk(f) /\ p[0] = f[0] /\ Field(p, 0, "ncmds") = Field(f, 0, "ncmds")
         /\ Field(p, 0, "ncmds") \in Nat
<1>1. InFile(p, 0)
  BY DEF MachHeaderOk
<1>2. /\ InFile(f, 0) /\ p[0] = f[0] /\ Magic(p, 0) = Magic(f, 0)
      /\ Field(p, 0, "ncmds") = Field(f, 0, "ncmds") /\ Field(p, 0, "ncmds") \in Nat
  BY <1>1, CutCell DEF Numbers
<1> QED  BY <1>2 DEF MachHeaderOk

LEMMA CutCommand ==
  ASSUME NEW p, NEW f, IsCut(p, f), NEW o \in Nat, IsCommand(p, o)
  PROVE  /\ IsCommand(f, o) /\ InFile(p, o) /\ p[o] = f[o]
         /\ Field(p, o, "size") = Field(f, o, "size") /\ Field(p, o, "size") \in Nat
<1>1. InFile(p, o) /\ Field(p, o, "size") >= 1 /\ o + Field(p, o, "size") <= Size(p)
  BY DEF IsCommand
<1>2. InFile(f, o) /\ p[o] = f[o] /\ Field(p, o, "size") = Field(f, o, "size") /\ Field(p, o, "size") \in Nat
  BY <1>1, CutCell DEF Numbers
<1>3. Size(p) \in Nat /\ Size(f) \in Nat /\ Size(p) <= Size(f)
  BY DEF IsCut
<1>4. o + Field(f, o, "size") <= Size(f)
  BY <1>1, <1>2, <1>3
<1> QED  BY <1>1, <1>2, <1>4 DEF IsCommand

LEMMA CommandsAre ==
  ASSUME NEW f, IsFile(f), NEW n \in Nat, n = Field(f, 0, "ncmds")
  PROVE  /\ CommandAt(f) \in [1..n -> Nat]
         /\ \A i \in 1..n : CommandAt(f)[i] =
              IF i = 1 THEN 1
              ELSE IF IsCommand(f, CommandAt(f)[i - 1])
                   THEN CommandAt(f)[i - 1] + Field(f, CommandAt(f)[i - 1], "size")
                   ELSE CommandAt(f)[i - 1]
<1> DEFINE Step(o) == IF IsCommand(f, o) THEN o + Field(f, o, "size") ELSE o
           F == [m \in 1..n |-> [o \in Nat |-> Step(o)]]
           Is(g) == g = [i \in 1..n |-> IF i = 1 THEN 1 ELSE Step(g[i - 1])]
<1>1. \A o \in Nat : Step(o) \in Nat
  <2>1. IsCut(f, f)
    BY FileIsCut DEF IsCut
  <2> QED  BY <2>1, CutCommand
<1> HIDE DEF Step
<1>2. \A m \in 1..n : \A o \in Nat : F[m][o] \in Nat /\ F[m][o] = Step(o)
  BY <1>1
<1> HIDE DEF F
<1>3. PICK g \in [1..n -> Nat] : IsChain(g, n, 1, F)
  BY <1>2, StepsFromOne
<1>4. Is(g)
  <2>1. \A i \in 1..n : i # 1 => i - 1 \in 1..n
    OBVIOUS
  <2>2. \A i \in 1..n : i # 1 => F[i][g[i - 1]] = Step(g[i - 1])
    BY <1>2, <2>1
  <2>3. [i \in 1..n |-> IF i = 1 THEN 1 ELSE F[i][g[i - 1]]] = [i \in 1..n |-> IF i = 1 THEN 1 ELSE Step(g[i - 1])]
    BY <2>2
  <2> QED  BY <1>3, <2>3 DEF IsChain
<1>5. CommandAt(f) = CHOOSE h : Is(h)
  BY DEF CommandAt, Step
<1>6. Is(CommandAt(f))
  <2> HIDE DEF Is
  <2> QED  BY <1>4, <1>5
<1> DEFINE c == CommandAt(f)
           S == {k \in Nat : k + 1 <= n => c[k + 1] \in Nat}
<1> HIDE DEF c
<1>7. DOMAIN c = 1..n /\ \A i \in 1..n : c[i] = IF i = 1 THEN 1 ELSE Step(c[i - 1])
  BY <1>6 DEF c
<1>8. 0 \in S
  BY <1>7
<1>9. ASSUME NEW k \in Nat, k \in S PROVE k + 1 \in S
  <2> SUFFICES ASSUME k + 1 + 1 <= n PROVE c[k + 1 + 1] \in Nat
    OBVIOUS
  <2>1. c[k + 1] \in Nat
    BY <1>9
  <2>2. k + 1 + 1 \in 1..n /\ k + 1 + 1 # 1 /\ k + 1 + 1 - 1 = k + 1
    OBVIOUS
  <2>3. c[k + 1 + 1] = Step(c[k + 1])
    BY <1>7, <2>2
  <2> QED  BY <1>1, <2>1, <2>3
<1> HIDE DEF S
<1>10. Nat \subseteq S
  BY <1>8, <1>9, SetInduction
<1>11. ASSUME NEW i \in 1..n PROVE c[i] \in Nat
  <2>1. i - 1 \in S
    BY <1>10
  <2>2. (i - 1) + 1 = i
    OBVIOUS
  <2> QED  BY <2>1, <2>2 DEF S
<1>12. c = [i \in 1..n |-> c[i]]
  BY <1>6 DEF c
<1>13. c \in [1..n -> Nat]
  BY <1>11, <1>12
<1> QED  BY <1>7, <1>13 DEF c, Step

\* the commands that have arrived are where they are in the whole file
LEMMA CutCommands ==
  ASSUME NEW p, NEW f, IsCut(p, f), MachHeaderOk(p), NEW n \in Nat, n = Field(p, 0, "ncmds"),
         NEW i \in 1..n, IsCommand(p, CommandAt(p)[i])
  PROVE  CommandAt(p)[i] \in Nat /\ CommandAt(f)[i] = CommandAt(p)[i]
<1> DEFINE a == CommandAt(p)
           b == CommandAt(f)
           S == {k \in Nat : k + 1 <= n /\ IsCommand(p, a[k + 1]) => b[k + 1] = a[k + 1]}
<1>1. IsFile(p) /\ IsFile(f) /\ n = Field(f, 0, "ncmds")
  BY CutIsFile, CutMachHeader DEF IsCut
<1>2. /\ a \in [1..n -> Nat]
      /\ \A k \in 1..n : a[k] = IF k = 1 THEN 1 ELSE IF IsCommand(p, a[k - 1])
                                THEN a[k - 1] + Field(p, a[k - 1], "size") ELSE a[k - 1]
  BY <1>1, CommandsAre
<1>3. \A k \in 1..n : b[k] = IF k = 1 THEN 1 ELSE IF IsCommand(f, b[k - 1])
                             THEN b[k - 1] + Field(f, b[k - 1], "size") ELSE b[k - 1]
  BY <1>1, CommandsAre
<1> HIDE DEF a, b
<1>4. 0 \in S
  BY <1>2, <1>3
<1>5. ASSUME NEW k \in Nat, k \in S PROVE k + 1 \in S
  <2> SUFFICES ASSUME k + 1 + 1 <= n, IsCommand(p, a[k + 1 + 1]) PROVE b[k + 1 + 1] = a[k + 1 + 1]
    OBVIOUS
  <2>1. k + 1 \in 1..n /\ k + 1 + 1 \in 1..n /\ k + 1 + 1 # 1 /\ k + 1 + 1 - 1 = k + 1
    OBVIOUS
  <2>2. a[k + 1] \in Nat
    BY <1>2, <2>1
  <2>3. a[k + 1 + 1] = IF IsCommand(p, a[k + 1]) THEN a[k + 1] + Field(p, a[k + 1], "size") ELSE a[k + 1]
    BY <1>2, <2>1
  <2>4. b[k + 1 + 1] = IF IsCommand(f, b[k + 1]) THEN b[k + 1] + Field(f, b[k + 1], "size") ELSE b[k + 1]
    BY <1>3, <2>1
  <2>5. IsCommand(p, a[k + 1])
    BY <2>3
  <2>6. b[k + 1] = a[k + 1]
    BY <1>5, <2>1, <2>5
  <2>7. IsCommand(f, a[k + 1]) /\ Field(p, a[k + 1], "size") = Field(f, a[k + 1], "size")
    BY <2>2, <2>5, CutCommand
  <2> QED  BY <2>3, <2>4, <2>5, <2>6, <2>7
<1> HIDE DEF S
<1>6. Nat \subseteq S
  BY <1>4, <1>5, SetInduction
<1>7. i - 1 \in S /\ (i - 1) + 1 = i
  BY <1>6
<1>8. b[i] = a[i]
  BY <1>7 DEF S, a
<1> QED  BY <1>2, <1>8 DEF a, b

LEMMA CutCommandSet ==
  ASSUME NEW p, NEW f, IsCut(p, f), MachHeaderOk(p), NEW o \in Commands(p)
  PROVE  o \in Commands(f) /\ o \in Nat /\ IsCommand(p, o)
<1> DEFINE n == Field(p, 0, "ncmds")
<1>1. n \in Nat /\ n = Field(f, 0, "ncmds") /\ IsFile(p) /\ IsFile(f)
  BY CutMachHeader, CutIsFile DEF IsCut
<1> HIDE DEF n
<1>2. DOMAIN CommandAt(p) = 1..n /\ DOMAIN CommandAt(f) = 1..n
  <2>1. CommandAt(p) \in [1..n -> Nat]
    BY <1>1, CommandsAre DEF n
  <2>2. CommandAt(f) \in [1..n -> Nat]
    BY <1>1, CommandsAre DEF n
  <2> QED  BY <2>1, <2>2
<1>3. IsCommand(p, o) /\ o \in ToSet(CommandAt(p))
  BY DEF Commands
<1>4. PICK i \in 1..n : o = CommandAt(p)[i]
  BY <1>2, <1>3 DEF ToSet
<1>5. o \in Nat /\ CommandAt(f)[i] = o
  BY <1>1, <1>3, <1>4, CutCommands DEF n
<1>6. IsCommand(f, o)
  BY <1>3, <1>5, CutCommand
<1>7. o \in ToSet(CommandAt(f))
  BY <1>2, <1>5 DEF ToSet
<1> QED  BY <1>3, <1>5, <1>6, <1>7 DEF Commands

\* the segments of a load command
LEMMA SegmentsOfAre ==
  ASSUME NEW f, IsFile(f), NEW o \in Nat, IsCommand(f, o)
  PROVE  \E E : SegmentsOf(f, o) \in Seq(E)
<1> DEFINE k == RunOf(o + 1, Field(f, o, "nsects"), DOMAIN f)
           Only == Segment(f, f[o].segname, f[o].va, f[o].vmSize, Field(f, o, "off"),
                             Field(f, o, "fileSize"), f[o].exec)
           Sect(s) == Segment(f, Named(f, o + s), f[o + s].addr, f[o + s].bytes, Field(f, o + s, "off"),
                              Field(f, o + s, "bytes"), f[o].exec)
<1>1. k \in Nat
  <2>1. IsCut(f, f)
    BY FileIsCut DEF IsCut
  <2>2. Field(f, o, "nsects") \in Nat
    BY <2>1, CutCell DEF IsCommand, Numbers
  <2> QED  BY <2>2, RunGrows
<1>2. \/ SegmentsOf(f, o) = <<>>
      \/ SegmentsOf(f, o) = <<Only>>
      \/ SegmentsOf(f, o) = [s \in 1..k |-> Sect(s)]
  BY DEF SegmentsOf
<1> HIDE DEF k, Only, Sect
<1>3. <<>> \in Seq({}) /\ <<Only>> \in Seq({Only})
  OBVIOUS
<1>4. [s \in 1..k |-> Sect(s)] \in Seq({Sect(s) : s \in 1..k})
  BY <1>1
<1> QED  BY <1>2, <1>3, <1>4

LEMMA CutSegmentsOf ==
  ASSUME NEW p, NEW f, IsCut(p, f), NEW o \in Nat, IsCommand(p, o), NEW x \in ToSet(SegmentsOf(p, o))
  PROVE  \E w \in ToSet(SegmentsOf(f, o)) : IsCutSegment(x, w)
<1> DEFINE n == Field(p, o, "nsects")
           Count(g) == RunOf(o + 1, n, DOMAIN g)
           One(g) == Segment(g, g[o].segname, g[o].va, g[o].vmSize, Field(g, o, "off"),
                             Field(g, o, "fileSize"), g[o].exec)
           Sect(g, s) == Segment(g, Named(g, o + s), g[o + s].addr, g[o + s].bytes, Field(g, o + s, "off"),
                                 Field(g, o + s, "bytes"), g[o].exec)
           Sects(g) == [s \in 1..Count(g) |-> Sect(g, s)]
           Empty(g) == g[o].vmSize = 0 /\ g[o].fileSize = 0
<1>1. /\ p[o] = f[o] /\ \A name : Field(p, o, name) = Field(f, o, name)
      /\ \A name \in Numbers : Field(p, o, name) \in Nat
  <2>1. InFile(p, o)
    BY DEF IsCommand
  <2> QED  BY <2>1, CutCell
<1>2. n = Field(f, o, "nsects") /\ n \in Nat
  BY <1>1 DEF Numbers
<1>3. SegmentsOf(p, o) = IF Empty(p) THEN <<>> ELSE IF n = 0 THEN <<One(p)>> ELSE Sects(p)
  BY DEF SegmentsOf
<1>4. SegmentsOf(f, o) = IF Empty(p) THEN <<>> ELSE IF n = 0 THEN <<One(f)>> ELSE Sects(f)
  BY <1>1, <1>2 DEF SegmentsOf
<1> HIDE DEF n, One, Sects, Empty
<1>5. CASE Empty(p)
  <2>1. ToSet(<<>>) = {}
    BY DEF ToSet
  <2> QED  BY <1>3, <1>5, <2>1
<1>6. CASE ~Empty(p) /\ n = 0
  <2>1. \A y : ToSet(<<y>>) = {y}
    BY DEF ToSet
  <2>2. x = One(p) /\ ToSet(SegmentsOf(f, o)) = {One(f)}
    BY <1>3, <1>4, <1>6, <2>1
  <2>3. IsCutSegment(One(p), One(f))
    <3>1. Field(p, o, "off") = Field(f, o, "off") /\ Field(p, o, "fileSize") = Field(f, o, "fileSize")
          /\ Field(p, o, "off") \in Nat /\ Field(p, o, "fileSize") \in Nat
      BY <1>1 DEF Numbers
    <3> QED  BY <1>1, <3>1, CutSegment DEF One
  <2> QED  BY <2>2, <2>3
<1>7. CASE ~Empty(p) /\ n # 0
  <2>1. SegmentsOf(p, o) = Sects(p) /\ SegmentsOf(f, o) = Sects(f)
    BY <1>3, <1>4, <1>7
  <2>2. PICK s \in 1..Count(p) : x = Sect(p, s)
    BY <2>1 DEF ToSet, Sects
  <2>3. s \in 1..Count(f) /\ o + s \in DOMAIN p
    <3>1. DOMAIN p \subseteq DOMAIN f
      BY DEF IsCut
    <3>2. s \in 1..Count(f) /\ (o + 1) + s - 1 \in DOMAIN p /\ Count(p) \in Nat
      BY <1>2, <2>2, <3>1, RunGrows
    <3>3. (o + 1) + s - 1 = o + s
      BY <2>2, <3>2
    <3> QED  BY <3>2, <3>3
  <2>4. Sect(f, s) \in ToSet(SegmentsOf(f, o))
    <3> HIDE DEF Sect, Count
    <3> QED  BY <2>1, <2>3 DEF ToSet, Sects
  <2> DEFINE q == o + s
  <2> HIDE DEF q
  <2>5. q \in Nat /\ InFile(p, q)
    BY <2>3, CutIn DEF q
  <2>6. /\ p[q] = f[q] /\ Field(p, q, "off") = Field(f, q, "off") /\ Field(p, q, "bytes") = Field(f, q, "bytes")
        /\ Field(p, q, "off") \in Nat /\ Field(p, q, "bytes") \in Nat
    BY <2>5, CutCell DEF Numbers
  <2>7. Named(p, q) = Named(f, q)
    BY <2>6 DEF Named
  <2>8. IsCutSegment(Sect(p, s), Sect(f, s))
    BY <1>1, <2>6, <2>7, CutSegment DEF q
  <2> HIDE DEF Sect
  <2> QED  BY <2>2, <2>4, <2>8
<1> QED  BY <1>5, <1>6, <1>7

LEMMA CutMachExports ==
  ASSUME NEW p, NEW f, IsCut(p, f), NEW o \in Nat, InFile(p, o), NEW x \in MachExports(p, o)
  PROVE  x \in MachExports(f, o)
<1> DEFINE symoff == Field(p, o, "symoff")
           n == Field(p, o, "nsyms")
           stroff == Field(p, o, "stroff")
           size == Field(p, o, "strSize")
           NameIn(g, sym) == Text(g, stroff + Field(g, sym, "strx"))
           Is(g, sym) == /\ g[sym].inSection /\ g[sym].value # 0 /\ g[sym].external
                         /\ Field(g, sym, "strx") < size /\ NameIn(g, sym) # NoText
           Symbols(g) == {[name |-> NameIn(g, sym), addr |-> g[sym].value] :
                            sym \in {sy \in symoff..(symoff + n - 1) : Is(g, sy)}}
           Missing(g) == n = 0 \/ size = 0 \/ stroff + size > Size(g) \/ symoff + n > Size(g)
<1>1. /\ symoff = Field(f, o, "symoff") /\ n = Field(f, o, "nsyms") /\ stroff = Field(f, o, "stroff")
      /\ size = Field(f, o, "strSize")
      /\ symoff \in Nat /\ n \in Nat /\ stroff \in Nat /\ size \in Nat
  BY CutCell DEF Numbers
<1>2. MachExports(p, o) = IF Missing(p) THEN {} ELSE Symbols(p)
  BY DEF MachExports
<1> HIDE DEF symoff, n, stroff, size
<1>3. MachExports(f, o) = IF Missing(f) THEN {} ELSE Symbols(f)
  BY <1>1 DEF MachExports
<1>4. Size(p) \in Nat /\ Size(f) \in Nat /\ Size(p) <= Size(f)
  BY DEF IsCut
<1>5. ~Missing(p) /\ x \in Symbols(p)
  <2> HIDE DEF Missing, Symbols
  <2> QED  BY <1>2
<1>6. ~Missing(f)
  BY <1>1, <1>4, <1>5
<1>7. PICK sym \in symoff..(symoff + n - 1) : Is(p, sym) /\ x = [name |-> NameIn(p, sym), addr |-> p[sym].value]
  BY <1>5
<1>8. sym \in Nat /\ InFile(p, sym)
  BY <1>1, <1>4, <1>5 DEF InFile
<1>9. p[sym] = f[sym] /\ Field(p, sym, "strx") = Field(f, sym, "strx") /\ Field(p, sym, "strx") \in Nat
  BY <1>8, CutCell DEF Numbers
<1> DEFINE q == stroff + Field(p, sym, "strx")
<1>10. q \in Nat /\ InFile(p, q)
  <2>1. Field(p, sym, "strx") < size
    BY <1>7
  <2> QED  BY <1>1, <1>4, <1>5, <1>9, <2>1 DEF InFile
<1>11. NameIn(p, sym) = NameIn(f, sym)
  <2>1. NameIn(p, sym) = Text(p, q) /\ NameIn(f, sym) = Text(f, q)
    BY <1>9
  <2> HIDE DEF q, NameIn
  <2> QED  BY <1>10, <2>1, CutCell
<1>12. Is(f, sym) /\ x = [name |-> NameIn(f, sym), addr |-> f[sym].value]
  BY <1>7, <1>9, <1>11
<1>13. x \in Symbols(f)
  <2> HIDE DEF Is, NameIn
  <2> QED  BY <1>12
<1> QED  BY <1>3, <1>6, <1>13

LEMMA SeqOfItsSet ==
  ASSUME NEW E, NEW s \in Seq(E)
  PROVE  s \in Seq(ToSet(s))
<1>1. Len(s) \in Nat /\ DOMAIN s = 1..Len(s) /\ s = [i \in 1..Len(s) |-> s[i]]
  OBVIOUS
<1>2. \A i \in 1..Len(s) : s[i] \in ToSet(s)
  BY <1>1 DEF ToSet
<1> QED  BY <1>1, <1>2

LEMMA MachSegmentsAre ==
  ASSUME NEW f, IsFile(f), NEW n \in Nat, n = Field(f, 0, "ncmds")
  PROVE  /\ \E E : MachSegments(f) \in Seq(E)
         /\ \A x : x \in ToSet(MachSegments(f)) <=>
              \E i \in 1..n : /\ IsCommand(f, CommandAt(f)[i]) /\ f[CommandAt(f)[i]].cmd = "segment"
                              /\ x \in ToSet(SegmentsOf(f, CommandAt(f)[i]))
<1> DEFINE c == CommandAt(f)
           Here(i) == IsCommand(f, c[i]) /\ f[c[i]].cmd = "segment"
           ss == [i \in 1..n |-> IF Here(i) THEN SegmentsOf(f, c[i]) ELSE <<>>]
           E == UNION {ToSet(ss[i]) : i \in 1..n}
<1>1. c \in [1..n -> Nat]
  BY CommandsAre
<1>2. MachSegments(f) = FlattenSeq(ss)
  BY DEF MachSegments
<1> HIDE DEF c
<1>3. \A i \in 1..n : ss[i] = IF Here(i) THEN SegmentsOf(f, c[i]) ELSE <<>>
  OBVIOUS
<1>4. DOMAIN ss = 1..n /\ ss = [i \in 1..n |-> ss[i]]
  OBVIOUS
<1> HIDE DEF ss
<1>5. ASSUME NEW i \in 1..n PROVE ss[i] \in Seq(E)
  <2>1. \E D : ss[i] \in Seq(D)
    <3>1. CASE Here(i)
      <4>1. \E D : SegmentsOf(f, c[i]) \in Seq(D)
        BY <1>1, <3>1, SegmentsOfAre
      <4> QED  BY <1>3, <3>1, <4>1
    <3>2. CASE ~Here(i)
      <4>1. <<>> \in Seq({})
        OBVIOUS
      <4> QED  BY <1>3, <3>2, <4>1
    <3> QED  BY <3>1, <3>2
  <2>2. ss[i] \in Seq(ToSet(ss[i]))
    BY <2>1, SeqOfItsSet
  <2>3. ToSet(ss[i]) \subseteq E
    OBVIOUS
  <2> HIDE DEF E
  <2> QED  BY <2>2, <2>3
<1> HIDE DEF E
<1>6. ss \in [1..n -> Seq(E)]
  BY <1>4, <1>5
<1>7. /\ FlattenSeq(ss) \in Seq(E)
      /\ \A x : x \in ToSet(FlattenSeq(ss)) <=> \E i \in 1..n : x \in ToSet(ss[i])
  BY <1>6, Flattened
<1>8. \A x : \A i \in 1..n : x \in ToSet(ss[i]) <=> Here(i) /\ x \in ToSet(SegmentsOf(f, c[i]))
  <2>1. ToSet(<<>>) = {}
    BY DEF ToSet
  <2> HIDE DEF Here
  <2> QED  BY <1>3, <2>1
<1> QED  BY <1>2, <1>7, <1>8 DEF c

LEMMA CutMachSegments ==
  ASSUME NEW p, NEW f, IsCut(p, f), MachHeaderOk(p), NEW s \in ToSet(MachSegments(p))
  PROVE  \E w \in ToSet(MachSegments(f)) : IsCutSegment(s, w)
<1> DEFINE n == Field(p, 0, "ncmds")
<1>1. n \in Nat /\ n = Field(f, 0, "ncmds") /\ IsFile(p) /\ IsFile(f)
  BY CutMachHeader, CutIsFile DEF IsCut
<1> HIDE DEF n
<1>2. PICK i \in 1..n : /\ IsCommand(p, CommandAt(p)[i]) /\ p[CommandAt(p)[i]].cmd = "segment"
                        /\ s \in ToSet(SegmentsOf(p, CommandAt(p)[i]))
  BY <1>1, MachSegmentsAre DEF n
<1> DEFINE o == CommandAt(p)[i]
<1>3. o \in Nat /\ CommandAt(f)[i] = o
  BY <1>1, <1>2, CutCommands DEF n
<1>4. IsCommand(p, o) /\ p[o].cmd = "segment" /\ s \in ToSet(SegmentsOf(p, o))
  BY <1>2
<1> HIDE DEF o
<1>5. IsCommand(f, o) /\ f[o].cmd = "segment"
  BY <1>3, <1>4, CutCommand
<1>6. PICK w \in ToSet(SegmentsOf(f, o)) : IsCutSegment(s, w)
  BY <1>3, <1>4, CutSegmentsOf
<1>7. w \in ToSet(MachSegments(f))
  BY <1>1, <1>3, <1>5, <1>6, MachSegmentsAre
<1> QED  BY <1>6, <1>7

\* what was loaded before does not matter
LEMMA SlicesAreAlike ==
  ASSUME NEW before, NEW f
  PROVE  LoadSlice(before, f) = LoadSlice(0, f)
BY DEF LoadSlice, BaseAddr

(* A Mach-O file of one architecture that was cut short.                   *)
LEMMA CutMachO ==
  ASSUME NEW p, NEW f, IsCut(p, f), LoadSlice(0, p) # NoImage
  PROVE  IsPartOf(LoadSlice(0, p), LoadSlice(0, f))
<1> DEFINE Exports(g) == UNION {MachExports(g, o) : o \in {c \in Commands(g) : g[c].cmd = "symtab"}}
<1>1. MachHeaderOk(p) /\ MachSegments(p) # <<>>
  BY DEF LoadSlice
<1>2. MachHeaderOk(f) /\ IsFile(p) /\ IsFile(f)
  BY <1>1, CutMachHeader, CutIsFile DEF IsCut
<1>3. \A s \in ToSet(MachSegments(p)) : \E w \in ToSet(MachSegments(f)) : IsCutSegment(s, w)
  BY <1>1, CutMachSegments
<1>4. MachSegments(f) # <<>>
  <2>1. \E E : MachSegments(p) \in Seq(E)
    <3>1. Field(p, 0, "ncmds") \in Nat
      BY <1>1, CutMachHeader
    <3> QED  BY <1>2, <3>1, MachSegmentsAre
  <2> DEFINE s == MachSegments(p)
  <2> HIDE DEF s
  <2>2. ToSet(s) # {}
    <3>1. PICK E : s \in Seq(E)
      BY <2>1 DEF s
    <3>2. s # <<>>
      BY <1>1 DEF s
    <3>3. Len(s) # 0
      BY <3>1, <3>2
    <3>4. 1 \in DOMAIN s
      BY <3>1, <3>3
    <3> QED  BY <3>4 DEF ToSet
  <2>3. ToSet(MachSegments(f)) # {}
    BY <1>3, <2>2 DEF s
  <2>4. ToSet(<<>>) = {}
    BY DEF ToSet
  <2> QED  BY <2>3, <2>4
<1>5. /\ LoadSlice(0, p).segments = MachSegments(p) /\ LoadSlice(0, f).segments = MachSegments(f)
      /\ LoadSlice(0, p).imports = {} /\ LoadSlice(0, f).imports = {}
      /\ LoadSlice(0, p).exports = Exports(p) /\ LoadSlice(0, f).exports = Exports(f)
      /\ LoadSlice(0, p).functions = <<>> /\ LoadSlice(0, f).functions = <<>>
  BY <1>1, <1>2, <1>4 DEF LoadSlice
<1>6. ASSUME NEW x \in Exports(p) PROVE x \in Exports(f)
  <2>1. PICK o \in Commands(p) : p[o].cmd = "symtab" /\ x \in MachExports(p, o)
    BY <1>6
  <2>2. o \in Commands(f) /\ o \in Nat /\ IsCommand(p, o)
    BY <1>1, CutCommandSet
  <2>3. InFile(p, o) /\ p[o] = f[o]
    BY <2>2, CutCommand
  <2>4. x \in MachExports(f, o)
    BY <2>1, <2>2, <2>3, CutMachExports
  <2> QED  BY <2>1, <2>2, <2>3, <2>4
<1> HIDE DEF Exports
<1>7. {x.addr : x \in Exports(p)} \subseteq {x.addr : x \in Exports(f)} \cup {LoadSlice(0, p).base}
  BY <1>6
<1>8. IsPrefix(<<>>, <<>>)
  <2>1. Len(<<>>) \in Nat
    OBVIOUS
  <2> QED  BY <2>1, EmptyIsPrefix
<1>9. {x.slot : x \in {}} \subseteq {x.slot : x \in {}}
  OBVIOUS
<1> QED  BY <1>3, <1>5, <1>7, <1>8, <1>9 DEF IsPartOf, IsCutSegment

----------------------------------------------------------------------------
(* What the application loads.                                             *)
LEMMA CutLoad ==
  ASSUME NEW p, NEW f, IsCut(p, f), HasOneOfEach(f), Load(0, p) # NoImage
  PROVE  IsPartOf(Load(0, p), Load(0, f))
<1>1. InFile(p, 0)
  BY DEF Load, Detected
<1>2. InFile(f, 0) /\ Magic(p, 0) = Magic(f, 0)
  BY <1>1, CutCell
<1>3. Detected(p) = Magic(p, 0) /\ Detected(f) = Magic(p, 0)
  BY <1>1, <1>2 DEF Detected
<1>4. CASE Magic(p, 0) = "MZ"
  <2>1. Load(0, p) = LoadPE(p) /\ Load(0, f) = LoadPE(f)
    BY <1>3, <1>4 DEF Load
  <2> QED  BY <2>1, CutPE
<1>5. CASE Magic(p, 0) = "ELF"
  <2>1. Load(0, p) = LoadELF(p) /\ Load(0, f) = LoadELF(f)
    BY <1>3, <1>5 DEF Load
  <2> QED  BY <2>1, CutELF
<1>6. CASE Magic(p, 0) \in {"MachO32", "MachO64"}
  <2>1. Load(0, p) = LoadMachO(0, p) /\ Load(0, f) = LoadMachO(0, f)
    BY <1>3, <1>6 DEF Load
  <2>2. LoadMachO(0, p) = LoadSlice(0, p) /\ LoadMachO(0, f) = LoadSlice(0, f)
    BY <1>1, <1>2, <1>6 DEF LoadMachO
  <2> QED  BY <2>1, <2>2, CutMachO
<1>7. CASE Magic(p, 0) \notin {"MZ", "ELF", "MachO32", "MachO64"}
  BY <1>3, <1>7 DEF Load
<1> QED  BY <1>4, <1>5, <1>6, <1>7

LEMMA LoadsAreAlike ==
  ASSUME NEW before, NEW f
  PROVE  Load(before, f) = Load(0, f)
<1>1. LoadMachO(before, f) = LoadMachO(0, f)
  BY SlicesAreAlike DEF LoadMachO
<1> QED  BY <1>1 DEF Load

\* A file on disk is the whole file or the part of it that has arrived, and the
\* image is what a new loader makes of one of them.
DiskInv ==
  /\ slow \in Path /\ DOMAIN disk = Path \cup {Out}
  /\ \A p \in Path : IsCut(disk[p], Whole[p])
LoadInv ==
  from # Nothing => /\ image = Load(0, from.cells) /\ image # NoImage
                    /\ from.path # Out => from.path \in Path /\ IsCut(from.cells, Whole[from.path])

LEMMA WholeIsCut ==
  ASSUME NEW p \in Path
  PROVE  IsFile(Whole[p]) /\ HasOneOfEach(Whole[p]) /\ IsCut(Whole[p], Whole[p])
<1>1. IsFile(Whole[p]) /\ HasOneOfEach(Whole[p])
  BY FilesAreFiles
<1>2. IsCut(Whole[p], Whole[p])
  BY <1>1, FileIsCut DEF IsCut
<1> QED  BY <1>1, <1>2

\* While a file arrives, and whatever was opened, patched and exported before, the
\* image is what a loader that was never used makes of the file that was opened,
\* and part of the whole of it: for every file (App::open_file and the loaders
\* of src/core/loader).
THEOREM LoadsInventNothing == OpenSpec => []LoadInventsNothing
<1>1. OpenInit => DiskInv /\ LoadInv
  <2> SUFFICES ASSUME OpenInit PROVE DiskInv /\ LoadInv
    OBVIOUS
  <2>1. slow \in Path /\ from = Nothing
    BY DEF OpenInit
  <2>2. PICK n \in 0..Size(Whole[slow]) :
          disk = [p \in Path \cup {Out} |->
                    IF p = Out THEN Prefix(Whole[slow], 0)
                    ELSE IF p = slow THEN Prefix(Whole[p], n) ELSE Whole[p]]
    BY DEF OpenInit
  <2>3. ASSUME NEW p \in Path PROVE IsCut(disk[p], Whole[p])
    <3>1. p # Out
      BY FilesAreFiles
    <3>2. CASE p = slow
      <4>1. disk[p] = Prefix(Whole[p], n) /\ n \in 0..Size(Whole[p])
        BY <2>2, <3>1, <3>2
      <4> QED  BY <4>1, WholeIsCut, PrefixIsCut
    <3>3. CASE p # slow
      <4>1. disk[p] = Whole[p]
        BY <2>2, <3>1, <3>3
      <4> QED  BY <4>1, WholeIsCut
    <3> QED  BY <3>2, <3>3
  <2> QED  BY <2>1, <2>2, <2>3 DEF DiskInv, LoadInv
<1>2. DiskInv /\ LoadInv /\ [OpenNext]_openVars => DiskInv' /\ LoadInv'
  <2> SUFFICES ASSUME DiskInv, LoadInv, [OpenNext]_openVars PROVE DiskInv' /\ LoadInv'
    OBVIOUS
  <2>1. CASE Arrive
    <3>1. slow' = slow /\ disk' = [disk EXCEPT ![slow] = Whole[slow]] /\ image' = image /\ from' = from
      BY <2>1 DEF Arrive
    <3>2. \A p \in Path : IsCut(disk'[p], Whole[p])
      BY <3>1, WholeIsCut DEF DiskInv
    <3> QED  BY <3>1, <3>2 DEF DiskInv, LoadInv
  <2>2. ASSUME NEW p \in Path \cup {Out}, Open(p) PROVE DiskInv' /\ LoadInv'
    <3>1. slow' = slow /\ disk' = disk
      BY <2>2 DEF Open
    <3>2. CASE Load(machBase, disk[p]) = NoImage
      <4>1. image' = image /\ from' = from
        BY <2>2, <3>2 DEF Open
      <4> QED  BY <3>1, <4>1 DEF DiskInv, LoadInv
    <3>3. CASE Load(machBase, disk[p]) # NoImage
      <4>1. image' = Load(machBase, disk[p]) /\ from' = [path |-> p, cells |-> disk[p]]
        BY <2>2, <3>3 DEF Open
      <4>2. image' = Load(0, from'.cells) /\ image' # NoImage
        BY <3>3, <4>1, LoadsAreAlike
      <4>3. from'.path # Out => from'.path \in Path /\ IsCut(from'.cells, Whole[from'.path])
        BY <4>1 DEF DiskInv
      <4> QED  BY <3>1, <4>2, <4>3 DEF DiskInv, LoadInv
    <3> QED  BY <3>2, <3>3
  <2>3. ASSUME NEW va \in DOMAIN Shown(image), Patch(va) PROVE DiskInv' /\ LoadInv'
    <3>1. slow' = slow /\ disk' = disk /\ image' = image /\ from' = from
      BY <2>3 DEF Patch
    <3> QED  BY <3>1 DEF DiskInv, LoadInv
  <2>4. CASE Export
    <3>1. slow' = slow /\ image' = image /\ from' = from
          /\ \E g : disk' = [disk EXCEPT ![Out] = g]
      BY <2>4 DEF Export
    <3>2. \A p \in Path : disk'[p] = disk[p]
      BY <3>1, FilesAreFiles DEF DiskInv
    <3>3. DOMAIN disk' = DOMAIN disk
      BY <3>1
    <3> QED  BY <3>1, <3>2, <3>3 DEF DiskInv, LoadInv
  <2>5. CASE UNCHANGED openVars
    BY <2>5 DEF openVars, DiskInv, LoadInv
  <2> QED  BY <2>1, <2>2, <2>3, <2>4, <2>5 DEF OpenNext
<1>3. DiskInv /\ LoadInv => LoadInventsNothing
  <2> SUFFICES ASSUME LoadInv, from # Nothing
               PROVE  /\ image = Load(0, from.cells)
                      /\ from.path # Out => IsPartOf(image, WholeImage[from.path])
    BY DEF LoadInventsNothing
  <2>1. image = Load(0, from.cells) /\ image # NoImage
    BY DEF LoadInv
  <2>2. ASSUME from.path # Out PROVE IsPartOf(image, WholeImage[from.path])
    <3>1. from.path \in Path /\ IsCut(from.cells, Whole[from.path])
      BY <2>2 DEF LoadInv
    <3>2. WholeImage[from.path] = Load(0, Whole[from.path])
      BY <3>1 DEF WholeImage
    <3>3. HasOneOfEach(Whole[from.path])
      BY <3>1, WholeIsCut
    <3> QED  BY <2>1, <3>1, <3>2, <3>3, CutLoad
  <2> QED  BY <2>1, <2>2
<1> QED  BY <1>1, <1>2, <1>3, PTL DEF OpenSpec

----------------------------------------------------------------------------
(* The methods of a .NET file.                                             *)
\* the bytes of a segment, or of a method
IsData(d) ==
  /\ Len(d) \in Nat /\ DOMAIN d = 1..Len(d) /\ d \in Seq(ToSet(d))
  /\ \A i \in 1..Len(d), name \in Numbers : Field(d, i, name) \in Nat

LEMMA IsDataOf ==
  ASSUME NEW n \in Nat, NEW d, DOMAIN d = 1..n, d = [i \in 1..n |-> d[i]],
         \A i \in 1..n, name \in Numbers : Field(d, i, name) \in Nat
  PROVE  IsData(d) /\ Len(d) = n
<1>1. \A i \in 1..n : d[i] \in ToSet(d)
  BY DEF ToSet
<1>2. d \in [1..n -> ToSet(d)]
  BY <1>1
<1>3. d \in Seq(ToSet(d)) /\ Len(d) = n
  BY <1>2
<1> QED  BY <1>3 DEF IsData

LEMMA SegmentIsData ==
  ASSUME NEW f, IsFile(f), NEW off \in Nat, NEW fileSize \in Nat, NEW size \in Nat
  PROVE  IsData(SegmentData(f, off, fileSize, size))
<1>1. Size(f) \in Nat /\ DOMAIN f = 0..(Size(f) - 1)
  BY FileIsCut
<1>2. CASE off + fileSize > Size(f)
  <2>1. SegmentData(f, off, fileSize, size) = <<>>
    BY <1>2 DEF SegmentData
  <2>2. Len(<<>>) = 0 /\ DOMAIN <<>> = {} /\ 1..0 = {} /\ \A S : <<>> \in Seq(S)
    OBVIOUS
  <2>3. IsData(<<>>)
    BY <2>2 DEF IsData
  <2> QED  BY <2>1, <2>3
<1>3. CASE ~(off + fileSize > Size(f))
  <2> DEFINE top == Max({fileSize, size})
             d == [i \in 1..top |-> IF i <= fileSize THEN f[off + i - 1] ELSE Zero]
  <2>1. top \in Nat
    <3> DEFINE m == IF fileSize <= size THEN size ELSE fileSize
    <3>1. {fileSize, size} \in SUBSET Int /\ m \in {fileSize, size} /\ \A k \in {fileSize, size} : k <= m
      OBVIOUS
    <3> HIDE DEF m
    <3>2. Max({fileSize, size}) = m
      BY <3>1, MaxIs
    <3> QED  BY <3>1, <3>2
  <2> HIDE DEF top
  <2>2. ASSUME NEW i \in 1..top, NEW name \in Numbers PROVE Field(d, i, name) \in Nat
    <3>1. CASE i <= fileSize
      <4>1. d[i] = f[off + i - 1] /\ off + i - 1 \in DOMAIN f
        BY <1>1, <1>3, <3>1
      <4>2. Field(d, i, name) = Field(f, off + i - 1, name)
        BY <4>1 DEF Field
      <4> QED  BY <4>1, <4>2 DEF IsFile
    <3>2. CASE ~(i <= fileSize)
      <4>1. d[i] = Zero
        BY <3>2
      <4>2. name \notin DOMAIN Zero
        BY DEF Zero, Numbers
      <4> QED  BY <4>1, <4>2 DEF Field
    <3> QED  BY <3>1, <3>2
  <2>3. DOMAIN d = 1..top /\ d = [i \in 1..top |-> d[i]]
    OBVIOUS
  <2>4. SegmentData(f, off, fileSize, size) = d
    BY <1>3 DEF SegmentData, top
  <2> HIDE DEF d
  <2>5. IsData(d)
    BY <2>1, <2>2, <2>3, IsDataOf
  <2> QED  BY <2>4, <2>5
<1> QED  BY <1>2, <1>3

IsImage(img) ==
  /\ Len(img.segments) \in Nat /\ DOMAIN img.segments = 1..Len(img.segments)
  /\ \A i \in 1..Len(img.segments) : img.segments[i].va \in Nat /\ IsData(img.segments[i].data)

LEMMA PEIsImage ==
  ASSUME NEW f, IsFile(f), LoadPE(f) # NoImage
  PROVE  IsImage(LoadPE(f))
<1>1. PEHeadersOk(f) /\ LoadPE(f).segments = PEBare(f).segments
  BY DEF LoadPE
<1>2. IsCut(f, f)
  BY FileIsCut DEF IsCut
<1>3. IsCutImage(PEBare(f), PEBare(f))
  BY <1>1, <1>2, CutBare
<1> DEFINE segs == PEBare(f).segments
<1>4. ASSUME NEW i \in 1..Len(segs) PROVE IsData(segs[i].data)
  <2> DEFINE base == Field(f, OptAt(f), "base")
             at == OptAt(f) + Field(f, CoffAt(f), "optSize")
             n == Field(f, CoffAt(f), "sections")
             W == RunOf(at, n, DOMAIN f)
             o == at + i - 1
             Data(a) == SegmentData(f, Field(f, a, "raw"), Field(f, a, "rawSize"), Field(f, a, "size"))
  <2>1. CoffAt(f) \in Nat /\ OptAt(f) \in Nat /\ InFile(f, CoffAt(f)) /\ InFile(f, OptAt(f))
    BY <1>1, <1>2, CutHeaders
  <2>2. Field(f, CoffAt(f), "optSize") \in Nat /\ n \in Nat
    BY <1>2, <2>1, CutCell DEF Numbers
  <2>3. at \in Nat
    BY <2>1, <2>2
  <2> HIDE DEF at, n
  <2>4. W \in Nat /\ \A k \in 1..W : at + k - 1 \in DOMAIN f
    BY <2>2, <2>3, RunGrows
  <2> HIDE DEF W
  <2>5. /\ segs = PESections(f, base)
        /\ DOMAIN PESections(f, base) = 1..W
        /\ \A k \in 1..W : PESections(f, base)[k].data = Data(at + k - 1)
    BY DEF PEBare, PESections, Segment, at, n, W
  <2>6. i \in 1..W
    BY <1>3, <2>5 DEF IsCutImage
  <2>7. o \in Nat /\ InFile(f, o)
    BY <1>2, <2>4, <2>6, CutIn
  <2> HIDE DEF o
  <2>8. Field(f, o, "raw") \in Nat /\ Field(f, o, "rawSize") \in Nat /\ Field(f, o, "size") \in Nat
    BY <1>2, <2>7, CutCell DEF Numbers
  <2>9. IsData(Data(o))
    BY <2>8, SegmentIsData
  <2> QED  BY <2>5, <2>6, <2>9 DEF o
<1> QED  BY <1>1, <1>3, <1>4 DEF IsImage, IsCutImage

LEMMA CodeIsData ==
  ASSUME NEW d, IsData(d), NEW a \in Nat, a >= 1, NEW n \in Nat, a - 1 + n <= Len(d)
  PROVE  IsData(SubSeq(d, a, a + n - 1)) /\ Len(SubSeq(d, a, a + n - 1)) = n
<1> DEFINE c == SubSeq(d, a, a + n - 1)
<1>1. Len(d) \in Nat /\ DOMAIN d = 1..Len(d) /\ d \in Seq(ToSet(d))
  BY DEF IsData
<1>2. DOMAIN c = 1..n /\ c = [i \in 1..n |-> c[i]] /\ \A i \in 1..n : c[i] = d[a + i - 1]
  BY <1>1
<1> HIDE DEF c
<1>3. ASSUME NEW i \in 1..n, NEW name \in Numbers PROVE Field(c, i, name) \in Nat
  <2>1. a + i - 1 \in 1..Len(d) /\ c[i] = d[a + i - 1]
    BY <1>1, <1>2
  <2>2. Field(c, i, name) = Field(d, a + i - 1, name)
    BY <2>1 DEF Field
  <2> QED  BY <2>1, <2>2 DEF IsData
<1> QED  BY <1>2, <1>3, IsDataOf DEF c

\* the method behind a header lies inside the segment
LEMMA HeaderIs ==
  ASSUME NEW d, IsData(d), NEW i \in 1..Len(d)
  PROVE  /\ HeaderAt(d, i).head \in Nat /\ HeaderAt(d, i).size \in Nat
         /\ HeaderAt(d, i).size > 0 =>
              /\ i - 1 + HeaderAt(d, i).head + HeaderAt(d, i).size <= Len(d)
              /\ Advance(HeaderAt(d, i)) = HeaderAt(d, i).head + HeaderAt(d, i).size
         /\ Advance(HeaderAt(d, i)) \in Nat
<1> DEFINE tiny == Field(d, i, "tiny")
           fat == Field(d, i, "fat")
           head == Max({FatHeader, Field(d, i, "head")})
           h == HeaderAt(d, i)
<1>1. tiny \in Nat /\ fat \in Nat /\ Field(d, i, "head") \in Nat /\ Len(d) \in Nat
  BY DEF IsData, Numbers
<1>2. head \in Nat
  <2> DEFINE k == Field(d, i, "head")
             m == IF FatHeader <= k THEN k ELSE FatHeader
  <2>1. k \in Nat /\ FatHeader \in Nat
    BY <1>1, FatHeaderIsNumber
  <2> HIDE DEF k
  <2>2. {FatHeader, k} \in SUBSET Int /\ m \in {FatHeader, k} /\ \A x \in {FatHeader, k} : x <= m
    BY <2>1
  <2> HIDE DEF m
  <2>3. Max({FatHeader, k}) = m
    BY <2>2, MaxIs
  <2> QED  BY <2>1, <2>2, <2>3 DEF k
<1>3. h = IF tiny > 0 /\ i + tiny <= Len(d) THEN [head |-> 1, size |-> tiny]
          ELSE IF fat > 0 /\ i - 1 + FatHeader <= Len(d) /\ i - 1 + head + fat <= Len(d)
          THEN [head |-> head, size |-> fat]
          ELSE [head |-> 0, size |-> 0]
  BY DEF HeaderAt
<1> HIDE DEF tiny, fat, head, h
<1>4. /\ h.head \in Nat /\ h.size \in Nat
      /\ h.size > 0 => i - 1 + h.head + h.size <= Len(d)
  BY <1>1, <1>2, <1>3
<1>5. Advance(h) = IF h.size = 0 THEN 1 ELSE h.head + h.size
  BY DEF Advance
<1> QED  BY <1>4, <1>5 DEF h

\* two pieces that share nothing
Apart(a, n, b, m) == a + n <= b \/ b + m <= a

\* instructions in the order of the code, each with its bytes to itself
InOrder(ils, n) ==
  /\ Len(ils) \in Nat /\ DOMAIN ils = 1..Len(ils)
  /\ \A k \in 1..Len(ils) : /\ ils[k].offset \in Nat /\ ils[k].len \in Nat /\ ils[k].len >= 1
                           /\ ils[k].offset + ils[k].len <= n
  /\ \A a, b \in 1..Len(ils) : a < b => ils[a].offset + ils[a].len <= ils[b].offset

(* A scan that goes on from each place to a later one.                     *)
IsScan(g, n, x0, next) == \A k \in 1..n : g[k] = IF k = 1 THEN x0 ELSE next[g[k - 1]]

LEMMA ScanRises ==
  ASSUME NEW n \in Nat, NEW x0 \in Nat, NEW next \in [Nat -> Nat], \A x \in Nat : x <= next[x],
         NEW g, IsScan(g, n, x0, next)
  PROVE  /\ \A k \in 1..n : g[k] \in Nat /\ x0 <= g[k]
         /\ \A a, b \in 1..n : a < b => next[g[a]] <= g[b]
<1> DEFINE S == {k \in Nat : k + 1 <= n => g[k + 1] \in Nat /\ x0 <= g[k + 1]}
<1>1. 0 \in S
  <2>1. 1 <= n => g[1] = x0
    BY DEF IsScan
  <2> QED  BY <2>1
<1>2. ASSUME NEW k \in Nat, k + 1 + 1 <= n PROVE g[k + 1 + 1] = next[g[k + 1]]
  <2> DEFINE m == k + 1 + 1
  <2>1. m \in 1..n /\ m # 1 /\ m - 1 = k + 1
    BY <1>2
  <2> HIDE DEF m
  <2>2. g[m] = next[g[k + 1]]
    BY <2>1 DEF IsScan
  <2> QED  BY <2>2 DEF m
<1>3. ASSUME NEW k \in Nat, k \in S PROVE k + 1 \in S
  <2> SUFFICES ASSUME k + 1 + 1 <= n PROVE g[k + 1 + 1] \in Nat /\ x0 <= g[k + 1 + 1]
    OBVIOUS
  <2>1. g[k + 1] \in Nat /\ x0 <= g[k + 1]
    BY <1>3
  <2>2. next[g[k + 1]] \in Nat /\ g[k + 1] <= next[g[k + 1]]
    BY <2>1
  <2> QED  BY <1>2, <2>1, <2>2
<1>4. Nat \subseteq S
  <2> HIDE DEF S
  <2> QED  BY <1>1, <1>3, SetInduction
<1>5. ASSUME NEW k \in 1..n PROVE g[k] \in Nat /\ x0 <= g[k]
  <2>1. k - 1 \in S /\ (k - 1) + 1 = k
    BY <1>4
  <2> QED  BY <2>1
<1> DEFINE T == {d \in Nat : \A a \in 1..n : a + d + 1 <= n => next[g[a]] <= g[a + d + 1]}
<1>6. 0 \in T
  <2>1. ASSUME NEW a \in 1..n, a + 0 + 1 <= n PROVE next[g[a]] <= g[a + 0 + 1]
    <3>1. a - 1 \in Nat /\ (a - 1) + 1 + 1 <= n /\ (a - 1) + 1 = a /\ (a - 1) + 1 + 1 = a + 0 + 1
      BY <2>1
    <3>2. g[a + 0 + 1] = next[g[a]]
      BY <1>2, <3>1
    <3>3. next[g[a]] \in Nat
      BY <1>5
    <3> QED  BY <3>2, <3>3
  <2> QED  BY <2>1
<1>7. ASSUME NEW d \in Nat, d \in T PROVE d + 1 \in T
  <2>1. ASSUME NEW a \in 1..n, a + (d + 1) + 1 <= n PROVE next[g[a]] <= g[a + (d + 1) + 1]
    <3>1. next[g[a]] <= g[a + d + 1]
      BY <1>7, <2>1
    <3>2. a + d \in Nat /\ (a + d) + 1 + 1 <= n /\ (a + d) + 1 = a + d + 1 /\ (a + d) + 1 + 1 = a + (d + 1) + 1
      BY <2>1
    <3>3. g[a + (d + 1) + 1] = next[g[a + d + 1]]
      BY <1>2, <3>2
    <3>4. next[g[a]] \in Nat /\ g[a + d + 1] \in Nat
      <4>1. a + d + 1 \in 1..n
        BY <2>1
      <4> QED  BY <1>5, <4>1
    <3>5. g[a + d + 1] <= next[g[a + d + 1]] /\ next[g[a + d + 1]] \in Nat
      BY <3>4
    <3> QED  BY <3>1, <3>3, <3>4, <3>5
  <2> QED  BY <2>1
<1> HIDE DEF T
<1>8. Nat \subseteq T
  BY <1>6, <1>7, SetInduction
<1>9. ASSUME NEW a \in 1..n, NEW b \in 1..n, a < b PROVE next[g[a]] <= g[b]
  <2>1. b - a - 1 \in T /\ a + (b - a - 1) + 1 = b
    BY <1>8, <1>9
  <2> QED  BY <2>1 DEF T
<1> QED  BY <1>5, <1>9

\* the scan there is
ScanOf(g, n, x0, next) == g = [k \in 1..n |-> IF k = 1 THEN x0 ELSE next[g[k - 1]]]

LEMMA ScanExists ==
  ASSUME NEW n \in Nat, NEW x0 \in Nat, NEW next \in [Nat -> Nat]
  PROVE  \E g \in [1..n -> Nat] : ScanOf(g, n, x0, next)
<1> DEFINE F == [m \in 1..n |-> next]
<1>1. \A m \in 1..n : \A x \in Nat : F[m][x] \in Nat
  OBVIOUS
<1>2. \A m \in 1..n : F[m] = next
  OBVIOUS
<1> HIDE DEF F
<1>3. PICK g \in [1..n -> Nat] : IsChain(g, n, x0, F)
  BY <1>1, StepsFromOne
<1>4. g = [k \in 1..n |-> IF k = 1 THEN x0 ELSE F[k][g[k - 1]]]
  BY <1>3 DEF IsChain
<1>5. [k \in 1..n |-> IF k = 1 THEN x0 ELSE F[k][g[k - 1]]] = [k \in 1..n |-> IF k = 1 THEN x0 ELSE next[g[k - 1]]]
  BY <1>2
<1> QED  BY <1>4, <1>5 DEF ScanOf

LEMMA InsnIs ==
  ASSUME NEW code, IsData(code), NEW p \in Nat, p < Len(code)
  PROVE  /\ Behind(code, p) \in Nat /\ p < Behind(code, p) /\ Behind(code, p) <= Len(code)
         /\ ILInsn(code, p).offset = p /\ ILInsn(code, p).len \in Nat /\ ILInsn(code, p).len >= 1
         /\ p + ILInsn(code, p).len <= Behind(code, p)
<1> DEFINE opcode == p + (IF Prefixed(code, p) /\ p + 1 < Len(code) THEN 2 ELSE 1)
           width == Field(code, p + 1, "width")
<1>1. Len(code) \in Nat /\ p + 1 \in 1..Len(code)
  BY DEF IsData
<1>2. width \in Nat
  BY <1>1 DEF IsData, Numbers
<1>3. opcode \in Nat /\ p < opcode /\ opcode <= Len(code)
  BY <1>1
<1>4. Behind(code, p) = IF Known(code, p) /\ opcode + width <= Len(code) THEN opcode + width ELSE opcode
  BY DEF Behind
<1> HIDE DEF opcode, width
<1>5. Behind(code, p) \in Nat /\ p < Behind(code, p) /\ Behind(code, p) <= Len(code)
  BY <1>1, <1>2, <1>3, <1>4
<1>6. ILInsn(code, p).offset = p
  BY DEF ILInsn
<1>7. ILInsn(code, p).len = IF Known(code, p) THEN Behind(code, p) - p ELSE 1
  BY DEF ILInsn
<1> QED  BY <1>5, <1>6, <1>7

LEMMA ListOfOne ==
  ASSUME NEW x
  PROVE  Len(<<x>>) = 1 /\ DOMAIN <<x>> = 1..1 /\ <<x>>[1] = x /\ ToSet(<<x>>) = {x}
<1>1. DOMAIN <<x>> = 1..1 /\ <<x>>[1] = x /\ Len(<<x>>) = 1
  OBVIOUS
<1>2. \A i \in 1..1 : i = 1
  OBVIOUS
<1>3. ToSet(<<x>>) = {x}
  BY <1>1, <1>2 DEF ToSet
<1> QED  BY <1>1, <1>3

LEMMA ListOfNone ==
  Len(<<>>) = 0 /\ DOMAIN <<>> = {} /\ ToSet(<<>>) = {} /\ 1..0 = {}
<1>1. Len(<<>>) = 0 /\ DOMAIN <<>> = {} /\ 1..0 = {}
  OBVIOUS
<1>2. ToSet(<<>>) = {}
  BY <1>1 DEF ToSet
<1> QED  BY <1>1, <1>2

LEMMA DecodeIs ==
  ASSUME NEW code, IsData(code)
  PROVE  InOrder(DecodeIL(code), Len(code))
<1> DEFINE n == Len(code)
           next == [p \in Nat |-> IF p < n THEN Behind(code, p) ELSE p]
           Scan(g) == g = [k \in 1..n |-> IF k = 1 THEN 0
                                          ELSE IF g[k - 1] < n THEN Behind(code, g[k - 1]) ELSE g[k - 1]]
           pos == CHOOSE g : Scan(g)
           insn(p) == IF p < n THEN <<ILInsn(code, p)>> ELSE <<>>
           ss == [k \in 1..n |-> insn(pos[k])]
<1>1. n \in Nat
  BY DEF IsData
<1>2. DecodeIL(code) = FlattenSeq(ss)
  BY DEF DecodeIL
<1>3. next \in [Nat -> Nat] /\ \A p \in Nat : p <= next[p]
  <2>1. ASSUME NEW p \in Nat PROVE (IF p < n THEN Behind(code, p) ELSE p) \in Nat
                                   /\ p <= (IF p < n THEN Behind(code, p) ELSE p)
    BY InsnIs
  <2> QED  BY <2>1
<1>4. \E g : Scan(g)
  <2> HIDE DEF n, next, Scan, pos, ss
  <2>0. PICK g \in [1..n -> Nat] : ScanOf(g, n, 0, next)
    BY <1>1, <1>3, ScanExists
  <2>1. g = [k \in 1..n |-> IF k = 1 THEN 0 ELSE next[g[k - 1]]]
    BY <2>0 DEF ScanOf
  <2>2. ASSUME NEW k \in 1..n, k # 1
        PROVE  next[g[k - 1]] = IF g[k - 1] < n THEN Behind(code, g[k - 1]) ELSE g[k - 1]
    <3>1. k - 1 \in 1..n
      BY <1>1, <2>2
    <3>2. g[k - 1] \in Nat
      BY <3>1
    <3> QED  BY <3>2 DEF next
  <2>3. [k \in 1..n |-> IF k = 1 THEN 0 ELSE next[g[k - 1]]]
        = [k \in 1..n |-> IF k = 1 THEN 0 ELSE IF g[k - 1] < n THEN Behind(code, g[k - 1]) ELSE g[k - 1]]
    BY <2>2
  <2> QED  BY <2>1, <2>3 DEF Scan
<1>5. Scan(pos)
  BY <1>4
<1> HIDE DEF pos
<1>6. \A k \in 1..n : pos[k] = IF k = 1 THEN 0 ELSE IF pos[k - 1] < n THEN Behind(code, pos[k - 1]) ELSE pos[k - 1]
  BY <1>5
<1> HIDE DEF Scan
<1>7. IsScan(pos, n, 0, next) /\ \A k \in 1..n : pos[k] \in Nat
  <2> DEFINE S == {k \in Nat : k + 1 <= n => pos[k + 1] \in Nat}
  <2>1. 0 \in S
    <3>1. 1 <= n => pos[1] = 0
      BY <1>1, <1>6
    <3> QED  BY <3>1
  <2>2. ASSUME NEW k \in Nat, k \in S PROVE k + 1 \in S
    <3> SUFFICES ASSUME k + 1 + 1 <= n PROVE pos[k + 1 + 1] \in Nat
      OBVIOUS
    <3>1. pos[k + 1] \in Nat
      BY <2>2, <1>1
    <3> DEFINE m == k + 1 + 1
    <3> HIDE DEF S, n, next
    <3>2. m \in 1..n /\ m # 1 /\ m - 1 = k + 1
      BY <1>1
    <3> HIDE DEF m
    <3>3. pos[m] = IF pos[k + 1] < n THEN Behind(code, pos[k + 1]) ELSE pos[k + 1]
      BY <1>6, <3>2
    <3>4. pos[m] \in Nat
      BY <3>1, <3>3, InsnIs DEF n
    <3> QED  BY <3>4 DEF m
  <2> HIDE DEF S
  <2>3. Nat \subseteq S
    BY <2>1, <2>2, SetInduction
  <2>4. ASSUME NEW k \in 1..n PROVE pos[k] \in Nat
    <3>1. k - 1 \in S /\ (k - 1) + 1 = k
      BY <1>1, <2>3
    <3> QED  BY <3>1 DEF S
  <2>5. ASSUME NEW k \in 1..n PROVE pos[k] = IF k = 1 THEN 0 ELSE next[pos[k - 1]]
    <3>1. k # 1 => k - 1 \in 1..n
      BY <1>1
    <3>2. k # 1 => pos[k - 1] \in Nat
      BY <2>4, <3>1
    <3> QED  BY <1>6, <3>2
  <2> QED  BY <2>4, <2>5 DEF IsScan
<1>8. \A a, b \in 1..n : a < b => next[pos[a]] <= pos[b]
  <2> HIDE DEF next, n
  <2> QED  BY <1>1, <1>3, <1>7, ScanRises
<1> DEFINE E == {ILInsn(code, p) : p \in 0..(n - 1)}
           R == {xy \in E \X E : xy[1].offset + xy[1].len <= xy[2].offset}
<1>9. \A k \in 1..n : ss[k] = insn(pos[k])
  OBVIOUS
<1>10. ASSUME NEW k \in 1..n
       PROVE  /\ ss[k] \in Seq(E)
              /\ \A x \in ToSet(ss[k]) : pos[k] < n /\ x = ILInsn(code, pos[k])
              /\ \A a, b \in DOMAIN ss[k] : ~(a < b)
  <2> HIDE DEF ss
  <2>1. CASE pos[k] < n
    <3>1. ss[k] = <<ILInsn(code, pos[k])>>
      BY <1>9, <2>1
    <3>2. ILInsn(code, pos[k]) \in E
      BY <1>1, <1>7, <2>1
    <3> HIDE DEF E, n
    <3>3. <<ILInsn(code, pos[k])>> \in Seq(E)
      BY <3>2
    <3> QED  BY <2>1, <3>1, <3>3, ListOfOne
  <2>2. CASE ~(pos[k] < n)
    <3>1. ss[k] = <<>>
      BY <1>9, <2>2
    <3> HIDE DEF E, n
    <3>2. <<>> \in Seq(E)
      OBVIOUS
    <3> QED  BY <3>1, <3>2, ListOfNone
  <2> QED  BY <2>1, <2>2
<1>11. ss \in [1..n -> Seq(E)]
  <2> HIDE DEF E
  <2> QED  BY <1>10
<1>12. \A i, j \in 1..n : i < j => \A x \in ToSet(ss[i]), y \in ToSet(ss[j]) : <<x, y>> \in R
  <2> SUFFICES ASSUME NEW i \in 1..n, NEW j \in 1..n, i < j, NEW x \in ToSet(ss[i]), NEW y \in ToSet(ss[j])
               PROVE  <<x, y>> \in R
    OBVIOUS
  <2>1. pos[i] < n /\ x = ILInsn(code, pos[i]) /\ pos[j] < n /\ y = ILInsn(code, pos[j])
    BY <1>10
  <2>2. pos[i] \in Nat /\ pos[j] \in Nat /\ Behind(code, pos[i]) <= pos[j]
    <3>1. next[pos[i]] = Behind(code, pos[i])
      BY <1>7, <2>1
    <3> QED  BY <1>7, <1>8, <3>1
  <2>3. x \in E /\ y \in E
    BY <1>1, <2>1, <2>2
  <2>4. x.offset = pos[i] /\ x.len \in Nat /\ pos[i] + x.len <= Behind(code, pos[i]) /\ y.offset = pos[j]
        /\ Behind(code, pos[i]) \in Nat
    BY <2>1, <2>2, InsnIs
  <2> HIDE DEF E
  <2> QED  BY <2>2, <2>3, <2>4
<1> DEFINE ils == FlattenSeq(ss)
<1>13. ils \in Seq(E)
  <2> HIDE DEF ss, E
  <2> QED  BY <1>1, <1>11, Flattened
<1>14. \A a, b \in DOMAIN ils : a < b => <<ils[a], ils[b]>> \in R
  <2> HIDE DEF ss, E, R, n
  <2> QED  BY <1>1, <1>10, <1>11, <1>12, FlattenedInOrder
<1> HIDE DEF ils
<1>15. Len(ils) \in Nat /\ DOMAIN ils = 1..Len(ils) /\ \A k \in 1..Len(ils) : ils[k] \in E
  <2> HIDE DEF E
  <2> QED  BY <1>13
<1>16. ASSUME NEW x \in E
       PROVE  /\ x.offset \in Nat /\ x.len \in Nat /\ x.len >= 1 /\ x.offset + x.len <= n
  <2>1. PICK p \in 0..(n - 1) : x = ILInsn(code, p)
    OBVIOUS
  <2>2. p \in Nat /\ p < n
    BY <1>1
  <2>3. Behind(code, p) <= n /\ Behind(code, p) \in Nat /\ p + x.len <= Behind(code, p)
        /\ x.offset = p /\ x.len \in Nat /\ x.len >= 1
    BY <2>1, <2>2, InsnIs
  <2> QED  BY <1>1, <2>2, <2>3
<1>17. \A a, b \in 1..Len(ils) : a < b => ils[a].offset + ils[a].len <= ils[b].offset
  BY <1>14, <1>15
<1> HIDE DEF E, n
<1>18. InOrder(ils, n)
  BY <1>15, <1>16, <1>17 DEF InOrder
<1> QED  BY <1>2, <1>18 DEF ils, n

\* a method of a segment whose code is at first..(first + n - 1)
IsMethodOf(m, first, n) ==
  /\ m.rva \in Nat /\ m.head \in Nat /\ m.size \in Nat /\ InOrder(m.il, m.size)
  /\ first <= m.rva /\ m.rva + m.head + m.size <= first + n

LEMMA MethodIs ==
  ASSUME NEW seg, seg.va \in Nat, IsData(seg.data), NEW i \in 1..Len(seg.data),
         IsMethod(MethodAt(seg, i))
  PROVE  /\ IsMethodOf(MethodAt(seg, i), seg.va, Len(seg.data))
         /\ MethodAt(seg, i).rva = seg.va + i - 1
         /\ MethodAt(seg, i).head + MethodAt(seg, i).size = Advance(HeaderAt(seg.data, i))
<1> DEFINE h == HeaderAt(seg.data, i)
           m == MethodAt(seg, i)
           code == SubSeq(seg.data, i + h.head, i + h.head + h.size - 1)
<1>1. m.rva = seg.va + i - 1 /\ m.head = h.head /\ m.size = h.size /\ m.il = DecodeIL(code)
  BY DEF MethodAt
<1>2. h.size > 0
  BY <1>1 DEF IsMethod
<1>3. h.head \in Nat /\ h.size \in Nat /\ i - 1 + h.head + h.size <= Len(seg.data)
      /\ Advance(h) = h.head + h.size
  BY <1>2, HeaderIs
<1>4. Len(seg.data) \in Nat
  BY DEF IsData
<1> HIDE DEF h, m
<1>5. IsData(code) /\ Len(code) = h.size
  <2>1. i + h.head \in Nat /\ i + h.head >= 1 /\ (i + h.head) - 1 + h.size <= Len(seg.data)
    BY <1>3, <1>4
  <2> QED  BY <1>3, <2>1, CodeIsData
<1> HIDE DEF code
<1>6. InOrder(m.il, m.size)
  BY <1>1, <1>5, DecodeIs
<1>7. m.rva \in Nat /\ seg.va <= m.rva /\ m.rva + m.head + m.size <= seg.va + Len(seg.data)
  BY <1>1, <1>3, <1>4
<1> QED  BY <1>1, <1>3, <1>6, <1>7 DEF IsMethodOf, m, h

\* the methods of a segment, and those of all of them: none shares a byte
MethodsIn(ms, E) ==
  /\ ms \in Seq(E) /\ Len(ms) \in Nat /\ DOMAIN ms = 1..Len(ms)
  /\ \A a, b \in 1..Len(ms) : a < b =>
        Apart(ms[a].rva, ms[a].head + ms[a].size, ms[b].rva, ms[b].head + ms[b].size)

LEMMA MethodsAre ==
  ASSUME NEW seg, seg.va \in Nat, IsData(seg.data),
         NEW E, \A m : m \in E <=> seg.exec /\ \E i \in 1..Len(seg.data) : m = MethodAt(seg, i) /\ IsMethod(m)
  PROVE  MethodsIn(MethodsOf(seg), E)
<1> DEFINE n == Len(seg.data)
           step(p) == p + Advance(HeaderAt(seg.data, p))
           next == [p \in Nat |-> IF p \in 1..n THEN step(p) ELSE p]
           Scan(g) == g = [k \in 1..n |-> IF k = 1 THEN 1
                                          ELSE IF g[k - 1] <= n THEN step(g[k - 1]) ELSE g[k - 1]]
           place == CHOOSE g : Scan(g)
           found(i) == IF i <= n /\ IsMethod(MethodAt(seg, i)) THEN <<MethodAt(seg, i)>> ELSE <<>>
           ss == [k \in 1..n |-> found(place[k])]
<1>1. n \in Nat
  BY DEF IsData
<1>2. MethodsOf(seg) = IF ~seg.exec THEN <<>> ELSE FlattenSeq(ss)
  BY DEF MethodsOf
<1>3. next \in [Nat -> Nat] /\ \A p \in Nat : p <= next[p]
  <2>1. ASSUME NEW p \in Nat PROVE (IF p \in 1..n THEN step(p) ELSE p) \in Nat
                                   /\ p <= (IF p \in 1..n THEN step(p) ELSE p)
    BY HeaderIs
  <2> QED  BY <2>1
<1> HIDE DEF step
<1>4. \E g : Scan(g)
  <2> HIDE DEF n, next, Scan, place, ss
  <2>1. PICK g \in [1..n -> Nat] : ScanOf(g, n, 1, next)
    <3>1. 1 \in Nat
      OBVIOUS
    <3> QED  BY <1>1, <1>3, <3>1, ScanExists
  <2>2. g = [k \in 1..n |-> IF k = 1 THEN 1 ELSE next[g[k - 1]]]
    BY <2>1 DEF ScanOf
  <2>3. \A k \in 1..n : g[k] \in Nat /\ 1 <= g[k]
    <3>1. IsScan(g, n, 1, next)
      BY <2>2 DEF IsScan
    <3> QED  BY <1>1, <1>3, <3>1, ScanRises
  <2>4. ASSUME NEW k \in 1..n, k # 1
        PROVE  next[g[k - 1]] = IF g[k - 1] <= n THEN step(g[k - 1]) ELSE g[k - 1]
    <3>1. k - 1 \in 1..n
      BY <1>1, <2>4
    <3>2. g[k - 1] \in Nat /\ 1 <= g[k - 1]
      BY <2>3, <3>1
    <3> QED  BY <1>1, <3>2 DEF next
  <2>5. [k \in 1..n |-> IF k = 1 THEN 1 ELSE next[g[k - 1]]]
        = [k \in 1..n |-> IF k = 1 THEN 1 ELSE IF g[k - 1] <= n THEN step(g[k - 1]) ELSE g[k - 1]]
    BY <2>4
  <2> QED  BY <2>2, <2>5 DEF Scan
<1>5. Scan(place)
  BY <1>4
<1> HIDE DEF place
<1>6. \A k \in 1..n : place[k] = IF k = 1 THEN 1 ELSE IF place[k - 1] <= n THEN step(place[k - 1]) ELSE place[k - 1]
  BY <1>5
<1> HIDE DEF Scan
<1>7. IsScan(place, n, 1, next) /\ \A k \in 1..n : place[k] \in Nat /\ 1 <= place[k]
  <2> DEFINE S == {k \in Nat : k + 1 <= n => place[k + 1] \in Nat /\ 1 <= place[k + 1]}
  <2>1. 0 \in S
    <3>1. 1 <= n => place[1] = 1
      BY <1>1, <1>6
    <3> QED  BY <3>1
  <2>2. ASSUME NEW k \in Nat, k \in S PROVE k + 1 \in S
    <3> SUFFICES ASSUME k + 1 + 1 <= n PROVE place[k + 1 + 1] \in Nat /\ 1 <= place[k + 1 + 1]
      OBVIOUS
    <3>1. place[k + 1] \in Nat /\ 1 <= place[k + 1]
      BY <2>2, <1>1
    <3> DEFINE m == k + 1 + 1
    <3> HIDE DEF S, n, next
    <3>2. m \in 1..n /\ m # 1 /\ m - 1 = k + 1
      BY <1>1
    <3> HIDE DEF m
    <3>3. place[m] = IF place[k + 1] <= n THEN step(place[k + 1]) ELSE place[k + 1]
      BY <1>6, <3>2
    <3>4. place[m] = next[place[k + 1]]
      BY <1>1, <3>1, <3>3 DEF next
    <3>5. next[place[k + 1]] \in Nat /\ place[k + 1] <= next[place[k + 1]]
      BY <1>3, <3>1
    <3>6. place[m] \in Nat /\ 1 <= place[m]
      BY <3>1, <3>4, <3>5
    <3> QED  BY <3>6 DEF m
  <2> HIDE DEF S
  <2>3. Nat \subseteq S
    BY <2>1, <2>2, SetInduction
  <2>4. ASSUME NEW k \in 1..n PROVE place[k] \in Nat /\ 1 <= place[k]
    <3>1. k - 1 \in S /\ (k - 1) + 1 = k
      BY <1>1, <2>3
    <3> QED  BY <3>1 DEF S
  <2>5. ASSUME NEW k \in 1..n PROVE place[k] = IF k = 1 THEN 1 ELSE next[place[k - 1]]
    <3>1. k # 1 => k - 1 \in 1..n
      BY <1>1
    <3>2. k # 1 => place[k - 1] \in Nat /\ 1 <= place[k - 1]
      BY <2>4, <3>1
    <3> QED  BY <1>1, <1>6, <3>2
  <2> QED  BY <2>4, <2>5 DEF IsScan
<1>8. \A a, b \in 1..n : a < b => next[place[a]] <= place[b]
  <2> HIDE DEF next, n
  <2>1. 1 \in Nat
    OBVIOUS
  <2> QED  BY <1>1, <1>3, <1>7, <2>1, ScanRises
<1> DEFINE R == {xy \in E \X E : Apart(xy[1].rva, xy[1].head + xy[1].size, xy[2].rva, xy[2].head + xy[2].size)}
<1>9. \A k \in 1..n : ss[k] = found(place[k])
  OBVIOUS
<1>10. ASSUME NEW k \in 1..n, seg.exec
       PROVE  /\ ss[k] \in Seq(E)
              /\ \A x \in ToSet(ss[k]) : place[k] \in 1..n /\ x = MethodAt(seg, place[k]) /\ IsMethod(x)
              /\ \A a, b \in DOMAIN ss[k] : ~(a < b)
  <2> HIDE DEF ss
  <2>1. CASE place[k] <= n /\ IsMethod(MethodAt(seg, place[k]))
    <3>1. ss[k] = <<MethodAt(seg, place[k])>>
      BY <1>9, <2>1
    <3>2. place[k] \in 1..n
      BY <1>1, <1>7, <2>1
    <3>3. MethodAt(seg, place[k]) \in E
      BY <1>10, <2>1, <3>2
    <3> HIDE DEF n
    <3>4. <<MethodAt(seg, place[k])>> \in Seq(E)
      BY <3>3
    <3> QED  BY <2>1, <3>1, <3>2, <3>4, ListOfOne
  <2>2. CASE ~(place[k] <= n /\ IsMethod(MethodAt(seg, place[k])))
    <3>1. ss[k] = <<>>
      BY <1>9, <2>2
    <3> HIDE DEF n
    <3>2. <<>> \in Seq(E)
      OBVIOUS
    <3> QED  BY <3>1, <3>2, ListOfNone
  <2> QED  BY <2>1, <2>2
<1>11. seg.exec => ss \in [1..n -> Seq(E)]
  BY <1>10
<1>12. ASSUME seg.exec
       PROVE  \A i, j \in 1..n : i < j => \A x \in ToSet(ss[i]), y \in ToSet(ss[j]) : <<x, y>> \in R
  <2> SUFFICES ASSUME NEW i \in 1..n, NEW j \in 1..n, i < j, NEW x \in ToSet(ss[i]), NEW y \in ToSet(ss[j])
               PROVE  <<x, y>> \in R
    OBVIOUS
  <2>1. /\ place[i] \in 1..n /\ x = MethodAt(seg, place[i]) /\ IsMethod(x)
        /\ place[j] \in 1..n /\ y = MethodAt(seg, place[j]) /\ IsMethod(y)
    BY <1>10, <1>12
  <2>2. step(place[i]) <= place[j]
    <3>1. next[place[i]] = step(place[i])
      BY <1>7, <2>1
    <3> QED  BY <1>8, <3>1
  <2>3. x \in E /\ y \in E
    BY <1>12, <2>1
  <2>4. /\ x.rva = seg.va + place[i] - 1 /\ x.head + x.size = Advance(HeaderAt(seg.data, place[i]))
        /\ y.rva = seg.va + place[j] - 1 /\ IsMethodOf(x, seg.va, n)
    BY <2>1, MethodIs
  <2>5. x.rva + (x.head + x.size) <= y.rva
    <3>1. x.head \in Nat /\ x.size \in Nat
      BY <2>4 DEF IsMethodOf
    <3>2. place[i] + (x.head + x.size) <= place[j]
      BY <2>2, <2>4 DEF step
    <3> HIDE DEF n, place
    <3>3. place[i] \in Nat /\ place[j] \in Nat
      BY <1>7, <2>1
    <3>4. \A va, p, q, s \in Nat : p + s <= q => (va + p - 1) + s <= va + q - 1
      OBVIOUS
    <3>5. x.head + x.size \in Nat
      BY <3>1
    <3>6. (seg.va + place[i] - 1) + (x.head + x.size) <= seg.va + place[j] - 1
      BY <3>2, <3>3, <3>4, <3>5
    <3> QED  BY <2>4, <3>6
  <2>6. Apart(x.rva, x.head + x.size, y.rva, y.head + y.size)
    BY <2>5 DEF Apart
  <2> QED  BY <2>3, <2>6
<1> DEFINE ms == FlattenSeq(ss)
<1>13. CASE seg.exec
  <2>1. ms \in Seq(E)
    <3> HIDE DEF ss
    <3> QED  BY <1>1, <1>11, <1>13, Flattened
  <2>2. \A a, b \in DOMAIN ms : a < b => <<ms[a], ms[b]>> \in R
    <3> HIDE DEF ss, R, n
    <3> QED  BY <1>1, <1>10, <1>11, <1>12, <1>13, FlattenedInOrder
  <2> HIDE DEF ms
  <2>3. Len(ms) \in Nat /\ DOMAIN ms = 1..Len(ms)
    BY <2>1
  <2>4. MethodsIn(ms, E)
    BY <2>1, <2>2, <2>3 DEF MethodsIn
  <2> QED  BY <1>2, <1>13, <2>4 DEF ms
<1>14. CASE ~seg.exec
  <2>1. MethodsOf(seg) = <<>>
    BY <1>2, <1>14
  <2>2. <<>> \in Seq(E)
    OBVIOUS
  <2> QED  BY <2>1, <2>2, ListOfNone DEF MethodsIn
<1> QED  BY <1>13, <1>14

Within(a, n, c, k) == /\ a \in Nat /\ n \in Nat /\ c \in Nat /\ k \in Nat
                      /\ c <= a /\ a + n <= c + k

LEMMA ApartInside ==
  ASSUME NEW a, NEW n, NEW b, NEW m, NEW c, NEW k, NEW d, NEW l,
         Within(a, n, c, k), Within(b, m, d, l), Apart(c, k, d, l)
  PROVE  Apart(a, n, b, m)
BY DEF Apart, Within

MethodSet(seg) ==
  {MethodAt(seg, i) : i \in {k \in 1..Len(seg.data) : seg.exec /\ IsMethod(MethodAt(seg, k))}}
IsMethodRecord(m) == m.rva \in Nat /\ m.head \in Nat /\ m.size \in Nat /\ InOrder(m.il, m.size)

\* no two segments of code share an address
CodeApart(image0) ==
  \A i, j \in 1..Len(image0.segments) :
    i # j /\ image0.segments[i].exec /\ image0.segments[j].exec =>
      Apart(image0.segments[i].va, Len(image0.segments[i].data),
            image0.segments[j].va, Len(image0.segments[j].data))

LEMMA MethodSetIs ==
  ASSUME NEW seg, seg.va \in Nat, IsData(seg.data), NEW m \in MethodSet(seg)
  PROVE  seg.exec /\ IsMethodOf(m, seg.va, Len(seg.data)) /\ IsMethodRecord(m)
<1>1. PICK i \in 1..Len(seg.data) : seg.exec /\ IsMethod(MethodAt(seg, i)) /\ m = MethodAt(seg, i)
  BY DEF MethodSet
<1>2. IsMethodOf(m, seg.va, Len(seg.data))
  BY <1>1, MethodIs
<1> QED  BY <1>1, <1>2 DEF IsMethodOf, IsMethodRecord

LEMMA AllMethodsAre ==
  ASSUME NEW image0, IsImage(image0), CodeApart(image0)
  PROVE  \E E : /\ MethodsIn(LoadDotNet(image0).methods, E)
                /\ \A m \in E : IsMethodRecord(m)
<1> DEFINE segs == image0.segments
           n == Len(segs)
           ss == [i \in 1..n |-> MethodsOf(segs[i])]
           E == UNION {MethodSet(segs[i]) : i \in 1..n}
           R == {xy \in E \X E : Apart(xy[1].rva, xy[1].head + xy[1].size, xy[2].rva, xy[2].head + xy[2].size)}
           ms == FlattenSeq(ss)
<1>1. n \in Nat /\ \A i \in 1..n : segs[i].va \in Nat /\ IsData(segs[i].data)
  BY DEF IsImage
<1>2. ASSUME NEW m \in E PROVE IsMethodRecord(m)
  <2>1. PICK i \in 1..n : m \in MethodSet(segs[i])
    OBVIOUS
  <2> QED  BY <1>1, <2>1, MethodSetIs
<1>3. ASSUME NEW i \in 1..n PROVE MethodsIn(ss[i], MethodSet(segs[i]))
  <2> DEFINE seg == segs[i]
  <2>1. \A m : m \in MethodSet(seg) <=> seg.exec /\ \E k \in 1..Len(seg.data) : m = MethodAt(seg, k) /\ IsMethod(m)
    BY DEF MethodSet
  <2>2. seg.va \in Nat /\ IsData(seg.data) /\ ss[i] = MethodsOf(seg)
    BY <1>1
  <2> HIDE DEF seg
  <2>3. MethodsIn(MethodsOf(seg), MethodSet(seg))
    BY <2>1, <2>2, MethodsAre
  <2> QED  BY <2>2, <2>3 DEF seg
<1>4. ASSUME NEW i \in 1..n
      PROVE  /\ ss[i] \in Seq(E)
             /\ \A x \in ToSet(ss[i]) : x \in MethodSet(segs[i]) /\ x \in E
             /\ \A a, b \in DOMAIN ss[i] : a < b => <<ss[i][a], ss[i][b]>> \in R
  <2>1. ss[i] \in Seq(MethodSet(segs[i])) /\ DOMAIN ss[i] = 1..Len(ss[i])
        /\ \A a, b \in 1..Len(ss[i]) : a < b =>
             Apart(ss[i][a].rva, ss[i][a].head + ss[i][a].size, ss[i][b].rva, ss[i][b].head + ss[i][b].size)
    BY <1>3 DEF MethodsIn
  <2>2. MethodSet(segs[i]) \subseteq E
    OBVIOUS
  <2> HIDE DEF ss, E, segs
  <2>3. \A a \in 1..Len(ss[i]) : ss[i][a] \in MethodSet(segs[i]) /\ ss[i][a] \in E
    BY <2>1, <2>2
  <2>4. ss[i] \in Seq(E)
    BY <2>1, <2>2
  <2> QED  BY <2>1, <2>3, <2>4 DEF ToSet
<1>5. \A i, j \in 1..n : i < j => \A x \in ToSet(ss[i]), y \in ToSet(ss[j]) : <<x, y>> \in R
  <2> SUFFICES ASSUME NEW i \in 1..n, NEW j \in 1..n, i < j, NEW x \in ToSet(ss[i]), NEW y \in ToSet(ss[j])
               PROVE  <<x, y>> \in R
    OBVIOUS
  <2>1. x \in MethodSet(segs[i]) /\ y \in MethodSet(segs[j]) /\ x \in E /\ y \in E
    BY <1>4
  <2>2. segs[i].exec /\ IsMethodOf(x, segs[i].va, Len(segs[i].data)) /\ IsMethodRecord(x)
    BY <1>1, <2>1, MethodSetIs
  <2>3. segs[j].exec /\ IsMethodOf(y, segs[j].va, Len(segs[j].data)) /\ IsMethodRecord(y)
    BY <1>1, <2>1, MethodSetIs
  <2>4. i # j
    BY <1>1
  <2>5. Apart(segs[i].va, Len(segs[i].data), segs[j].va, Len(segs[j].data))
    BY <2>2, <2>3, <2>4 DEF CodeApart
  <2>6. Apart(x.rva, x.head + x.size, y.rva, y.head + y.size)
    <3>1. Len(segs[i].data) \in Nat /\ Len(segs[j].data) \in Nat /\ segs[i].va \in Nat /\ segs[j].va \in Nat
      BY <1>1 DEF IsData
    <3> HIDE DEF segs
    <3>2. /\ x.rva \in Nat /\ x.head \in Nat /\ x.size \in Nat
          /\ segs[i].va <= x.rva /\ x.rva + x.head + x.size <= segs[i].va + Len(segs[i].data)
      BY <2>2 DEF IsMethodOf
    <3>3. /\ y.rva \in Nat /\ y.head \in Nat /\ y.size \in Nat
          /\ segs[j].va <= y.rva /\ y.rva + y.head + y.size <= segs[j].va + Len(segs[j].data)
      BY <2>3 DEF IsMethodOf
    <3>4. /\ x.head + x.size \in Nat /\ x.rva + (x.head + x.size) <= segs[i].va + Len(segs[i].data)
          /\ y.head + y.size \in Nat /\ y.rva + (y.head + y.size) <= segs[j].va + Len(segs[j].data)
      <4>1. \A r, h, z \in Nat : h + z \in Nat /\ r + h + z = r + (h + z)
        OBVIOUS
      <4>2. x.head + x.size \in Nat /\ x.rva + x.head + x.size = x.rva + (x.head + x.size)
        BY <3>2, <4>1, Zenon
      <4>3. y.head + y.size \in Nat /\ y.rva + y.head + y.size = y.rva + (y.head + y.size)
        BY <3>3, <4>1, Zenon
      <4> QED  BY <3>2, <3>3, <4>2, <4>3, Zenon
    <3>5. /\ Within(x.rva, x.head + x.size, segs[i].va, Len(segs[i].data))
          /\ Within(y.rva, y.head + y.size, segs[j].va, Len(segs[j].data))
      BY <3>1, <3>2, <3>3, <3>4, Zenon DEF Within
    <3> QED  BY <2>5, <3>5, ApartInside
  <2> HIDE DEF E
  <2> QED  BY <2>1, <2>6
<1>6. ss \in [1..n -> Seq(E)]
  <2> HIDE DEF E
  <2> QED  BY <1>4
<1>7. ms \in Seq(E)
  <2> HIDE DEF ss, E
  <2> QED  BY <1>1, <1>6, Flattened
<1>8. \A a, b \in DOMAIN ms : a < b => <<ms[a], ms[b]>> \in R
  <2> HIDE DEF ss, R, n, E
  <2> QED  BY <1>1, <1>4, <1>5, <1>6, FlattenedInOrder
<1>9. MethodsIn(ms, E)
  <2> HIDE DEF ms, E
  <2>1. Len(ms) \in Nat /\ DOMAIN ms = 1..Len(ms)
    BY <1>7
  <2> QED  BY <1>7, <1>8, <2>1 DEF MethodsIn
<1>10. LoadDotNet(image0).methods \in {<<>>, ms}
  BY DEF LoadDotNet
<1> HIDE DEF ms
<1>11. MethodsIn(<<>>, E)
  <2> HIDE DEF E
  <2>1. <<>> \in Seq(E)
    OBVIOUS
  <2> QED  BY <2>1, ListOfNone DEF MethodsIn
<1> HIDE DEF E
<1>12. MethodsIn(LoadDotNet(image0).methods, E)
  BY <1>9, <1>10, <1>11
<1> QED  BY <1>2, <1>12

(* Their instructions.                                                     *)
Inside(x, m) ==
  /\ x.addr \in Nat /\ x.insn.len \in Nat /\ x.insn.len >= 1
  /\ m.rva <= x.addr /\ x.addr + x.insn.len <= m.rva + (m.head + m.size)

LEMMA ListingIs ==
  ASSUME NEW E, NEW ms, MethodsIn(ms, E), \A m \in E : IsMethodRecord(m)
  PROVE  /\ Len(Listing(ms)) \in Nat /\ DOMAIN Listing(ms) = 1..Len(Listing(ms))
         /\ \A k \in 1..Len(Listing(ms)) : \E i \in 1..Len(ms) : Inside(Listing(ms)[k], ms[i])
         /\ \A a, b \in 1..Len(Listing(ms)) : a < b =>
              Apart(Listing(ms)[a].addr, Listing(ms)[a].insn.len, Listing(ms)[b].addr, Listing(ms)[b].insn.len)
<1> DEFINE n == Len(ms)
           Entry(i, k) == [addr |-> ms[i].rva + ms[i].il[k].offset, insn |-> ms[i].il[k]]
           ss == [i \in 1..n |-> [k \in 1..Len(ms[i].il) |-> Entry(i, k)]]
           C == UNION {{Entry(i, k) : k \in 1..Len(ms[i].il)} : i \in 1..n}
           R == {xy \in C \X C : Apart(xy[1].addr, xy[1].insn.len, xy[2].addr, xy[2].insn.len)}
           all == Listing(ms)
<1>1. n \in Nat /\ \A i \in 1..n : IsMethodRecord(ms[i])
  BY DEF MethodsIn
<1>2. all = FlattenSeq(ss)
  BY DEF Listing
<1>3. ASSUME NEW i \in 1..n, NEW k \in 1..Len(ms[i].il)
      PROVE  Inside(Entry(i, k), ms[i]) /\ Entry(i, k) \in C
  <2>1. /\ ms[i].rva \in Nat /\ ms[i].head \in Nat /\ ms[i].size \in Nat
        /\ ms[i].il[k].offset \in Nat /\ ms[i].il[k].len \in Nat /\ ms[i].il[k].len >= 1
        /\ ms[i].il[k].offset + ms[i].il[k].len <= ms[i].size
    BY <1>1 DEF IsMethodRecord, InOrder
  <2>2. Entry(i, k).addr = ms[i].rva + ms[i].il[k].offset /\ Entry(i, k).insn = ms[i].il[k]
    OBVIOUS
  <2>3. Entry(i, k) \in C
    OBVIOUS
  <2>4. /\ Entry(i, k).addr \in Nat /\ Entry(i, k).insn.len \in Nat /\ Entry(i, k).insn.len >= 1
        /\ ms[i].rva <= Entry(i, k).addr
        /\ Entry(i, k).addr + Entry(i, k).insn.len <= ms[i].rva + (ms[i].head + ms[i].size)
    <3> HIDE DEF Entry, C
    <3>1. \A rva, head, size, offset, len \in Nat :
             offset + len <= size => (rva + offset) + len <= rva + (head + size) /\ rva <= rva + offset
      OBVIOUS
    <3>2. Entry(i, k).insn.len = ms[i].il[k].len
      BY <2>2
    <3>3. /\ (ms[i].rva + ms[i].il[k].offset) + ms[i].il[k].len <= ms[i].rva + (ms[i].head + ms[i].size)
          /\ ms[i].rva <= ms[i].rva + ms[i].il[k].offset
      BY <2>1, <3>1, Zenon
    <3>4. ms[i].rva + ms[i].il[k].offset \in Nat
      <4>1. \A rva, offset \in Nat : rva + offset \in Nat
        OBVIOUS
      <4> QED  BY <2>1, <4>1, Zenon
    <3> QED  BY <2>1, <2>2, <3>2, <3>3, <3>4, Zenon
  <2> HIDE DEF Entry, C
  <2> QED  BY <2>3, <2>4 DEF Inside
<1>4. ASSUME NEW i \in 1..n
      PROVE  /\ ss[i] \in Seq(C) /\ Len(ss[i]) = Len(ms[i].il) /\ DOMAIN ss[i] = 1..Len(ms[i].il)
             /\ \A k \in 1..Len(ms[i].il) : ss[i][k] = Entry(i, k)
  <2>1. Len(ms[i].il) \in Nat /\ ss[i] = [k \in 1..Len(ms[i].il) |-> Entry(i, k)]
    BY <1>1 DEF IsMethodRecord, InOrder
  <2> HIDE DEF ss, C, Entry
  <2> QED  BY <1>3, <2>1
<1>5. ASSUME NEW i \in 1..n, NEW x \in ToSet(ss[i])
      PROVE  Inside(x, ms[i]) /\ x \in C
  <2>1. PICK k \in 1..Len(ms[i].il) : x = Entry(i, k)
    <3> HIDE DEF Entry, ss, C
    <3> QED  BY <1>4 DEF ToSet
  <2> HIDE DEF Entry, ss, C
  <2> QED  BY <1>3, <2>1
<1>6. ASSUME NEW i \in 1..n, NEW a \in DOMAIN ss[i], NEW b \in DOMAIN ss[i], a < b
      PROVE  <<ss[i][a], ss[i][b]>> \in R
  <2>1. a \in 1..Len(ms[i].il) /\ b \in 1..Len(ms[i].il) /\ ss[i][a] = Entry(i, a) /\ ss[i][b] = Entry(i, b)
    BY <1>4
  <2>2. /\ ms[i].il[a].offset + ms[i].il[a].len <= ms[i].il[b].offset /\ ms[i].rva \in Nat
        /\ ms[i].il[a].offset \in Nat /\ ms[i].il[a].len \in Nat /\ ms[i].il[b].offset \in Nat
    BY <1>1, <1>6, <2>1 DEF IsMethodRecord, InOrder
  <2>3. /\ Entry(i, a).addr = ms[i].rva + ms[i].il[a].offset /\ Entry(i, a).insn.len = ms[i].il[a].len
        /\ Entry(i, b).addr = ms[i].rva + ms[i].il[b].offset
    OBVIOUS
  <2> HIDE DEF Entry, C, ss
  <2>4. Entry(i, a).addr + Entry(i, a).insn.len <= Entry(i, b).addr
    BY <2>2, <2>3
  <2>5. Entry(i, a) \in C /\ Entry(i, b) \in C
    BY <1>3, <2>1
  <2>6. Apart(Entry(i, a).addr, Entry(i, a).insn.len, Entry(i, b).addr, Entry(i, b).insn.len)
    BY <2>4 DEF Apart
  <2> QED  BY <2>1, <2>5, <2>6
<1>7. \A i, j \in 1..n : i < j => \A x \in ToSet(ss[i]), y \in ToSet(ss[j]) : <<x, y>> \in R
  <2> SUFFICES ASSUME NEW i \in 1..n, NEW j \in 1..n, i < j, NEW x \in ToSet(ss[i]), NEW y \in ToSet(ss[j])
               PROVE  <<x, y>> \in R
    OBVIOUS
  <2>1. Inside(x, ms[i]) /\ x \in C /\ Inside(y, ms[j]) /\ y \in C
    BY <1>5
  <2>2. Apart(ms[i].rva, ms[i].head + ms[i].size, ms[j].rva, ms[j].head + ms[j].size)
    BY DEF MethodsIn
  <2>3. ms[i].rva \in Nat /\ ms[i].head + ms[i].size \in Nat /\ ms[j].rva \in Nat /\ ms[j].head + ms[j].size \in Nat
    BY <1>1 DEF IsMethodRecord
  <2> HIDE DEF C, ss
  <2>4. Apart(x.addr, x.insn.len, y.addr, y.insn.len)
    <3>1. /\ x.addr \in Nat /\ x.insn.len \in Nat /\ y.addr \in Nat /\ y.insn.len \in Nat
          /\ ms[i].rva <= x.addr /\ x.addr + x.insn.len <= ms[i].rva + (ms[i].head + ms[i].size)
          /\ ms[j].rva <= y.addr /\ y.addr + y.insn.len <= ms[j].rva + (ms[j].head + ms[j].size)
      BY <2>1 DEF Inside
    <3>2. /\ Within(x.addr, x.insn.len, ms[i].rva, ms[i].head + ms[i].size)
          /\ Within(y.addr, y.insn.len, ms[j].rva, ms[j].head + ms[j].size)
      BY <2>3, <3>1, Zenon DEF Within
    <3> QED  BY <2>2, <3>2, ApartInside
  <2> QED  BY <2>1, <2>4
<1>8. ss \in [1..n -> Seq(C)]
  <2> HIDE DEF C, Entry
  <2> QED  BY <1>4
<1>9. all \in Seq(C) /\ ToSet(all) = {x \in C : \E i \in 1..n : x \in ToSet(ss[i])}
  <2> HIDE DEF ss, C
  <2>1. FlattenSeq(ss) \in Seq(C) /\ \A x : x \in ToSet(FlattenSeq(ss)) <=> \E i \in 1..n : x \in ToSet(ss[i])
    BY <1>1, <1>8, Flattened
  <2> QED  BY <1>2, <1>5, <2>1
<1>10. \A a, b \in DOMAIN all : a < b => <<all[a], all[b]>> \in R
  <2> HIDE DEF ss, R, n, C
  <2>1. \A a, b \in DOMAIN FlattenSeq(ss) : a < b => <<FlattenSeq(ss)[a], FlattenSeq(ss)[b]>> \in R
    BY <1>1, <1>6, <1>7, <1>8, FlattenedInOrder
  <2> QED  BY <1>2, <2>1
<1> HIDE DEF all
<1>11. Len(all) \in Nat /\ DOMAIN all = 1..Len(all)
  <2> HIDE DEF C
  <2> QED  BY <1>9
<1>12. ASSUME NEW k \in 1..Len(all) PROVE \E i \in 1..n : Inside(all[k], ms[i])
  <2>1. all[k] \in ToSet(all)
    BY <1>11 DEF ToSet
  <2>2. PICK i \in 1..n : all[k] \in ToSet(ss[i])
    BY <1>9, <2>1
  <2> QED  BY <1>5, <2>2
<1> QED  BY <1>10, <1>11, <1>12 DEF all

LEMMA DatabaseIs ==
  ASSUME NEW dn, NEW all, all = Listing(dn.methods), Len(all) \in Nat, DOMAIN all = 1..Len(all),
         \A k \in 1..Len(all) : all[k].addr \in Nat /\ all[k].insn.len \in Nat /\ all[k].insn.len >= 1,
         \A a, b \in 1..Len(all) : a < b =>
              Apart(all[a].addr, all[a].insn.len, all[b].addr, all[b].insn.len)
  PROVE  \A a \in DOMAIN ILDatabase(dn).insns :
            \E k \in 1..Len(all) : a = all[k].addr /\ ILDatabase(dn).insns[a] = all[k].insn
<1> DEFINE last(a) == Max({k \in DOMAIN all : all[k].addr = a})
           db == [a \in {all[k].addr : k \in DOMAIN all} |-> all[last(a)].insn]
<1>1. ILDatabase(dn).insns = db
  BY DEF ILDatabase
<1>2. ASSUME NEW k \in 1..Len(all), NEW m \in 1..Len(all), all[m].addr = all[k].addr PROVE m = k
  <2>1. ASSUME NEW a \in 1..Len(all), NEW b \in 1..Len(all), a < b PROVE all[a].addr # all[b].addr
    <3> DEFINE x == all[a].addr
               n == all[a].insn.len
               y == all[b].addr
               l == all[b].insn.len
    <3>1. Apart(x, n, y, l) /\ x \in Nat /\ n \in Nat /\ n >= 1 /\ y \in Nat /\ l \in Nat /\ l >= 1
      BY <2>1
    <3> HIDE DEF x, n, y, l
    <3>2. x # y
      BY <3>1 DEF Apart
    <3> QED  BY <3>2 DEF x, y
  <2>2. ~(m < k) /\ ~(k < m)
    BY <1>2, <2>1
  <2> QED  BY <2>2
<1>3. ASSUME NEW k \in 1..Len(all) PROVE last(all[k].addr) = k
  <2> DEFINE S == {m \in DOMAIN all : all[m].addr = all[k].addr}
  <2>1. S = {k}
    BY <1>2
  <2>2. {k} \in SUBSET Int /\ k \in {k} /\ \A m \in {k} : m <= k
    OBVIOUS
  <2>3. Max({k}) = k
    BY <2>2, MaxIs
  <2> QED  BY <2>1, <2>3
<1> HIDE DEF last
<1>4. ASSUME NEW a \in DOMAIN db PROVE \E k \in 1..Len(all) : a = all[k].addr /\ db[a] = all[k].insn
  <2>1. PICK k \in DOMAIN all : a = all[k].addr
    OBVIOUS
  <2>2. k \in 1..Len(all) /\ last(a) = k
    BY <1>3, <2>1
  <2>3. db[a] = all[last(a)].insn
    OBVIOUS
  <2> QED  BY <2>1, <2>2, <2>3
<1> HIDE DEF db
<1> QED  BY <1>1, <1>4

LEMMA BytesWithin ==
  ASSUME NEW r \in Nat, NEW h \in Nat, NEW z \in Nat, NEW x \in Nat, NEW n \in Nat,
         r <= x, x + n <= r + (h + z)
  PROVE  x..(x + n - 1) \subseteq r..(r + h + z - 1)
OBVIOUS

\* the places of a method, and of an instruction
SpanOf(m) == m.rva..(m.rva + m.head + m.size - 1)
BytesAt(a, x) == a..(a + x.len - 1)

LEMMA SpansOf ==
  ASSUME NEW m, NEW w, IsMethodRecord(m), IsMethodRecord(w),
         Apart(m.rva, m.head + m.size, w.rva, w.head + w.size)
  PROVE  SpanOf(m) \cap SpanOf(w) = {}
<1> DEFINE r == m.rva
           h == m.head
           z == m.size
           q == w.rva
           g == w.head
           y == w.size
<1>1. r \in Nat /\ h \in Nat /\ z \in Nat /\ q \in Nat /\ g \in Nat /\ y \in Nat
  BY DEF IsMethodRecord
<1>2. Apart(r, h + z, q, g + y)
  OBVIOUS
<1>3. SpanOf(m) = r..(r + h + z - 1) /\ SpanOf(w) = q..(q + g + y - 1)
  BY DEF SpanOf
<1> HIDE DEF r, h, z, q, g, y
<1>4. (r..(r + h + z - 1)) \cap (q..(q + g + y - 1)) = {}
  BY <1>1, <1>2 DEF Apart
<1> QED  BY <1>3, <1>4

LEMMA BytesOf ==
  ASSUME NEW x, NEW m, IsMethodRecord(m), Inside(x, m)
  PROVE  BytesAt(x.addr, x.insn) \subseteq SpanOf(m)
<1> DEFINE r == m.rva
           h == m.head
           z == m.size
           a == x.addr
           n == x.insn.len
<1>1. r \in Nat /\ h \in Nat /\ z \in Nat
  BY DEF IsMethodRecord
<1>2. a \in Nat /\ n \in Nat /\ r <= a /\ a + n <= r + (h + z)
  BY DEF Inside
<1>3. SpanOf(m) = r..(r + h + z - 1) /\ BytesAt(x.addr, x.insn) = a..(a + n - 1)
  BY DEF SpanOf, BytesAt
<1> HIDE DEF r, h, z, a, n
<1> QED  BY <1>1, <1>2, <1>3, BytesWithin

\* the methods and the listing of an image, as the property has them
LEMMA ListingsAreApart ==
  ASSUME IsImage(image), CodeApart(image), il = ILDatabase(LoadDotNet(image))
  PROVE  MethodsAreApart
<1> DEFINE ms == LoadDotNet(image).methods
           Bytes(a) == a..(a + il.insns[a].len - 1)
<1>1. PICK E : MethodsIn(ms, E) /\ \A m \in E : IsMethodRecord(m)
  BY AllMethodsAre
<1>2. ASSUME NEW i \in 1..Len(ms) PROVE IsMethodRecord(ms[i]) /\ ms[i] \in ToSet(ms)
  BY <1>1 DEF MethodsIn, ToSet
<1>3. ASSUME NEW a \in Nat, NEW n \in Nat, NEW b \in Nat, NEW m \in Nat, Apart(a, n, b, m)
      PROVE  (a..(a + n - 1)) \cap (b..(b + m - 1)) = {}
  BY <1>3 DEF Apart
<1>4. ASSUME NEW i \in 1..Len(ms), NEW j \in 1..Len(ms), i # j
      PROVE  SpanOf(ms[i]) \cap SpanOf(ms[j]) = {}
  <2>1. Len(ms) \in Nat /\ \A a, b \in 1..Len(ms) : a < b =>
           Apart(ms[a].rva, ms[a].head + ms[a].size, ms[b].rva, ms[b].head + ms[b].size)
    BY <1>1 DEF MethodsIn
  <2>2. i < j \/ j < i
    BY <1>4, <2>1
  <2>3. Apart(ms[i].rva, ms[i].head + ms[i].size, ms[j].rva, ms[j].head + ms[j].size)
    BY <2>1, <2>2 DEF Apart
  <2> HIDE DEF ms
  <2> QED  BY <1>2, <2>3, SpansOf
<1> DEFINE all == Listing(ms)
<1>5. /\ Len(all) \in Nat /\ DOMAIN all = 1..Len(all)
      /\ \A k \in 1..Len(all) : \E i \in 1..Len(ms) : Inside(all[k], ms[i])
      /\ \A a, b \in 1..Len(all) : a < b =>
              Apart(all[a].addr, all[a].insn.len, all[b].addr, all[b].insn.len)
  <2> HIDE DEF ms
  <2> QED  BY <1>1, ListingIs
<1>6. ASSUME NEW a \in DOMAIN il.insns
      PROVE  \E k \in 1..Len(all) : a = all[k].addr /\ il.insns[a] = all[k].insn
  <2>1. \A k \in 1..Len(all) : all[k].addr \in Nat /\ all[k].insn.len \in Nat /\ all[k].insn.len >= 1
    BY <1>5 DEF Inside
  <2> HIDE DEF all
  <2> QED  BY <1>5, <2>1, DatabaseIs DEF all
<1> HIDE DEF ms, all
<1>7. ASSUME NEW a \in DOMAIN il.insns, NEW b \in DOMAIN il.insns, a # b PROVE Bytes(a) \cap Bytes(b) = {}
  <2>1. PICK k \in 1..Len(all) : a = all[k].addr /\ il.insns[a] = all[k].insn
    BY <1>6
  <2>2. PICK l \in 1..Len(all) : b = all[l].addr /\ il.insns[b] = all[l].insn
    BY <1>6
  <2>3. k < l \/ l < k
    BY <1>5, <1>7, <2>1, <2>2
  <2>4. Apart(a, il.insns[a].len, b, il.insns[b].len)
    BY <1>5, <2>1, <2>2, <2>3 DEF Apart
  <2>5. a \in Nat /\ b \in Nat /\ il.insns[a].len \in Nat /\ il.insns[b].len \in Nat
    BY <1>5, <2>1, <2>2 DEF Inside
  <2> DEFINE n == il.insns[a].len
             m == il.insns[b].len
  <2>6. Bytes(a) = a..(a + n - 1) /\ Bytes(b) = b..(b + m - 1)
    OBVIOUS
  <2>7. n \in Nat /\ m \in Nat /\ Apart(a, n, b, m)
    BY <2>4, <2>5
  <2> HIDE DEF Bytes, n, m
  <2>8. (a..(a + n - 1)) \cap (b..(b + m - 1)) = {}
    BY <1>3, <2>5, <2>7
  <2> QED  BY <2>6, <2>8
<1>8. ASSUME NEW a \in DOMAIN il.insns PROVE \E m \in ToSet(ms) : Bytes(a) \subseteq SpanOf(m)
  <2>1. PICK k \in 1..Len(all) : a = all[k].addr /\ il.insns[a] = all[k].insn
    BY <1>6
  <2>2. PICK i \in 1..Len(ms) : Inside(all[k], ms[i])
    BY <1>5
  <2>3. Bytes(a) = BytesAt(all[k].addr, all[k].insn)
    BY <2>1 DEF BytesAt
  <2>4. Bytes(a) \subseteq SpanOf(ms[i])
    BY <1>2, <2>2, <2>3, BytesOf
  <2> HIDE DEF Bytes
  <2> QED  BY <1>2, <2>4
<1> QED  BY <1>4, <1>7, <1>8 DEF MethodsAreApart, SpanOf, ms

\* The files on disk are files, patched ones as well; a database of a .NET file is
\* that of the image.
FilesInv ==
  /\ \A p \in Path \cup {Out} : IsFile(disk[p])
  /\ \A va \in DOMAIN patches : patches[va] = Nop
  /\ image # NoImage => filePath \in Path \cup {Out}
ListingInv == il # Nothing => il = ILDatabase(LoadDotNet(image)) /\ IsImage(image)

LEMMA PatchedIsFile ==
  ASSUME NEW f, IsFile(f), \A va \in DOMAIN patches : patches[va] = Nop
  PROVE  IsFile(Patched(f))
<1> DEFINE g == Patched(f)
           one == [o \in {0} |-> Nop]
<1>1. DOMAIN g = DOMAIN f /\ \A o \in DOMAIN f : g[o] = Nop \/ g[o] = f[o]
  <2> DEFINE at(va) == OffsetOf(image.segments[FirstSegment(image, va)], va)
             inFile == {va \in DOMAIN patches : FirstSegment(image, va) # 0 /\ InFile(f, at(va))}
  <2>1. g = [o \in DOMAIN f |-> IF \E va \in inFile : at(va) = o
                                THEN patches[CHOOSE va \in inFile : at(va) = o] ELSE f[o]]
    BY DEF Patched
  <2>2. \A va \in inFile : patches[va] = Nop
    OBVIOUS
  <2> HIDE DEF at, inFile, g
  <2>3. ASSUME NEW o \in DOMAIN f, \E va \in inFile : at(va) = o
        PROVE  patches[CHOOSE va \in inFile : at(va) = o] = Nop
    BY <2>2, <2>3
  <2> QED  BY <2>1, <2>3
<1> HIDE DEF g
<1>2. Size(g) = Size(f)
  BY <1>1 DEF Size
<1>3. /\ IsFiniteSet(DOMAIN f) /\ DOMAIN f = 0..(Size(f) - 1)
      /\ \A o \in DOMAIN f, name \in Numbers : Field(f, o, name) \in Nat
      /\ \A o \in DOMAIN f : Magic(f, o) \in {"PE32", "PE32+"} =>
           \A d \in DOMAIN f[o].dirs : f[o].dirs[d].rva \in Nat /\ f[o].dirs[d].size \in Nat
  BY DEF IsFile
<1>4. /\ \A name \in Numbers : Field(one, 0, name) \in Nat
      /\ Magic(one, 0) \in {"PE32", "PE32+"} =>
           \A d \in DOMAIN one[0].dirs : one[0].dirs[d].rva \in Nat /\ one[0].dirs[d].size \in Nat
  <2>1. IsFile(one) /\ 0 \in DOMAIN one
    BY FilesAreFiles
  <2> HIDE DEF one
  <2> QED  BY <2>1 DEF IsFile
<1>5. one[0] = Nop
  OBVIOUS
<1> HIDE DEF one
<1>6. ASSUME NEW o \in DOMAIN f
      PROVE  /\ \A name \in Numbers : Field(g, o, name) \in Nat
             /\ Magic(g, o) \in {"PE32", "PE32+"} =>
                  \A d \in DOMAIN g[o].dirs : g[o].dirs[d].rva \in Nat /\ g[o].dirs[d].size \in Nat
  <2>1. CASE g[o] = Nop
    <3>1. Magic(g, o) = Magic(one, 0) /\ \A name : Field(g, o, name) = Field(one, 0, name)
      BY <1>5, <2>1 DEF Magic, Field
    <3>2. g[o] = one[0]
      BY <1>5, <2>1
    <3> QED  BY <1>4, <3>1, <3>2
  <2>2. CASE g[o] = f[o]
    <3>1. Magic(g, o) = Magic(f, o) /\ \A name : Field(g, o, name) = Field(f, o, name)
      BY <2>2 DEF Magic, Field
    <3> QED  BY <1>3, <2>2, <3>1
  <2> QED  BY <1>1, <2>1, <2>2
<1>7. IsFile(g)
  BY <1>1, <1>2, <1>3, <1>6 DEF IsFile
<1> QED  BY <1>7 DEF g

LEMMA PEsAreLoaded ==
  ASSUME NEW before, NEW f, Load(before, f) # NoImage, Load(before, f).kind = "PE"
  PROVE  Load(before, f) = LoadPE(f) /\ LoadPE(f) # NoImage
<1>1. CASE Detected(f) = "MZ"
  BY <1>1 DEF Load
<1>2. CASE Detected(f) = "ELF"
  <2>1. Load(before, f) = LoadELF(f)
    BY <1>2 DEF Load
  <2>2. LoadELF(f).kind = "ELF"
    BY <2>1 DEF LoadELF
  <2> QED  BY <2>1, <2>2
<1>3. CASE Detected(f) \in {"MachO32", "MachO64"}
  <2>1. Load(before, f) = LoadMachO(before, f)
    BY <1>3 DEF Load
  <2>2. \A g : LoadSlice(before, g) = NoImage \/ LoadSlice(before, g).kind = "MachO"
    BY DEF LoadSlice
  <2>3. \E g : LoadMachO(before, f) = LoadSlice(before, g)
    BY <2>1 DEF LoadMachO
  <2> QED  BY <2>1, <2>2, <2>3
<1>4. CASE Detected(f) \notin {"MZ", "ELF", "MachO32", "MachO64"}
  BY <1>4 DEF Load
<1> QED  BY <1>1, <1>2, <1>3, <1>4

\* In every .NET file whose segments of code do not overlap, the methods that are
\* found share no byte, and every instruction of the listing has its bytes to itself
\* and lies in its method, whatever bytes the code is made of and look like headers
\* (DotNetLoader::parse_method_bodies, decode_il and populate_db).
THEOREM ListingsHoldTogether == OpenSpec => [](CodeApart(image) => MethodsAreApart)
<1>1. OpenInit => DiskInv /\ FilesInv /\ ListingInv
  <2> SUFFICES ASSUME OpenInit PROVE DiskInv /\ FilesInv /\ ListingInv
    OBVIOUS
  <2>1. slow \in Path /\ image = NoImage /\ il = Nothing /\ patches = <<>>
    BY DEF OpenInit
  <2>2. PICK n \in 0..Size(Whole[slow]) :
          disk = [p \in Path \cup {Out} |->
                    IF p = Out THEN Prefix(Whole[slow], 0)
                    ELSE IF p = slow THEN Prefix(Whole[p], n) ELSE Whole[p]]
    BY DEF OpenInit
  <2>3. ASSUME NEW p \in Path PROVE IsCut(disk[p], Whole[p])
    <3>1. p # Out
      BY FilesAreFiles
    <3>2. CASE p = slow
      <4>1. disk[p] = Prefix(Whole[p], n) /\ n \in 0..Size(Whole[p])
        BY <2>2, <3>1, <3>2
      <4> QED  BY <4>1, WholeIsCut, PrefixIsCut
    <3>3. CASE p # slow
      <4>1. disk[p] = Whole[p]
        BY <2>2, <3>1, <3>3
      <4> QED  BY <4>1, WholeIsCut
    <3> QED  BY <3>2, <3>3
  <2>4. IsFile(disk[Out])
    <3>1. disk[Out] = Prefix(Whole[slow], 0)
      BY <2>2
    <3>2. 0 \in 0..Size(Whole[slow]) /\ IsFile(Whole[slow])
      BY <2>1, WholeIsCut, FileIsCut
    <3> QED  BY <3>1, <3>2, PrefixIsCut, CutIsFile
  <2>5. DOMAIN patches = {}
    BY <2>1
  <2> QED  BY <2>1, <2>2, <2>3, <2>4, <2>5, CutIsFile DEF DiskInv, FilesInv, ListingInv
<1>2. DiskInv /\ FilesInv /\ ListingInv /\ [OpenNext]_openVars => DiskInv' /\ FilesInv' /\ ListingInv'
  <2> SUFFICES ASSUME DiskInv, FilesInv, ListingInv, [OpenNext]_openVars
               PROVE  DiskInv' /\ FilesInv' /\ ListingInv'
    OBVIOUS
  <2>1. CASE Arrive
    <3>1. slow' = slow /\ disk' = [disk EXCEPT ![slow] = Whole[slow]] /\ slow \in Path
          /\ image' = image /\ patches' = patches /\ filePath' = filePath /\ il' = il
      BY <2>1 DEF Arrive, DiskInv
    <3>2. \A p \in Path : IsCut(disk'[p], Whole[p])
      BY <3>1, WholeIsCut DEF DiskInv
    <3>3. disk'[Out] = disk[Out] /\ DOMAIN disk' = DOMAIN disk
      BY <3>1, FilesAreFiles DEF DiskInv
    <3>4. \A p \in Path \cup {Out} : IsFile(disk'[p])
      BY <3>2, <3>3, CutIsFile DEF FilesInv
    <3> QED  BY <3>1, <3>2, <3>3, <3>4 DEF DiskInv, FilesInv, ListingInv
  <2>2. ASSUME NEW p \in Path \cup {Out}, Open(p) PROVE DiskInv' /\ FilesInv' /\ ListingInv'
    <3>1. slow' = slow /\ disk' = disk /\ filePath' = p
      BY <2>2 DEF Open
    <3>2. CASE Load(machBase, disk[p]) = NoImage
      <4>1. image' = image /\ patches' = patches /\ il' = il
        BY <2>2, <3>2 DEF Open
      <4> QED  BY <3>1, <4>1 DEF DiskInv, FilesInv, ListingInv
    <3>3. CASE Load(machBase, disk[p]) # NoImage
      <4> DEFINE loaded == Load(machBase, disk[p])
      <4>1. /\ image' = loaded /\ native' = ~(loaded.kind = "PE" /\ IsDotNet(loaded))
            /\ il' = IF native' THEN Nothing ELSE ILDatabase(LoadDotNet(loaded))
            /\ patches' = <<>>
        BY <2>2, <3>3 DEF Open
      <4>2. ASSUME il' # Nothing PROVE il' = ILDatabase(LoadDotNet(image')) /\ IsImage(image')
        <5>1. loaded.kind = "PE" /\ il' = ILDatabase(LoadDotNet(image'))
          BY <4>1, <4>2
        <5>2. loaded = LoadPE(disk[p]) /\ LoadPE(disk[p]) # NoImage
          BY <3>3, <5>1, PEsAreLoaded
        <5>3. IsFile(disk[p])
          BY DEF FilesInv
        <5> QED  BY <4>1, <5>1, <5>2, <5>3, PEIsImage
      <4>3. DOMAIN patches' = {}
        BY <4>1
      <4> QED  BY <3>1, <4>2, <4>3 DEF DiskInv, FilesInv, ListingInv, IsImage
    <3> QED  BY <3>2, <3>3
  <2>3. ASSUME NEW va \in DOMAIN Shown(image), Patch(va) PROVE DiskInv' /\ FilesInv' /\ ListingInv'
    <3>1. slow' = slow /\ disk' = disk /\ image' = image /\ filePath' = filePath /\ il' = il
          /\ patches' = [a \in DOMAIN patches \cup {va} |-> IF a = va THEN Nop ELSE patches[a]]
      BY <2>3 DEF Patch
    <3>2. \A a \in DOMAIN patches' : patches'[a] = Nop
      BY <3>1 DEF FilesInv
    <3> QED  BY <3>1, <3>2 DEF DiskInv, FilesInv, ListingInv
  <2>4. CASE Export
    <3>1. slow' = slow /\ image' = image /\ patches' = patches /\ filePath' = filePath /\ il' = il
          /\ disk' = [disk EXCEPT ![Out] = Patched(disk[filePath])] /\ image # NoImage
      BY <2>4 DEF Export
    <3>2. \A p \in Path : disk'[p] = disk[p]
      BY <3>1, FilesAreFiles DEF DiskInv
    <3>3. DOMAIN disk' = DOMAIN disk
      BY <3>1
    <3>4. IsFile(disk'[Out])
      <4>1. IsFile(disk[filePath]) /\ \A va \in DOMAIN patches : patches[va] = Nop
        BY <3>1 DEF FilesInv
      <4>2. disk'[Out] = Patched(disk[filePath])
        BY <3>1 DEF DiskInv
      <4> QED  BY <4>1, <4>2, PatchedIsFile
    <3> QED  BY <3>1, <3>2, <3>3, <3>4 DEF DiskInv, FilesInv, ListingInv
  <2>5. CASE UNCHANGED openVars
    BY <2>5 DEF openVars, DiskInv, FilesInv, ListingInv
  <2> QED  BY <2>1, <2>2, <2>3, <2>4, <2>5 DEF OpenNext
<1>3. ListingInv => (CodeApart(image) => MethodsAreApart)
  <2> SUFFICES ASSUME ListingInv, CodeApart(image) PROVE MethodsAreApart
    OBVIOUS
  <2>1. CASE il = Nothing
    BY <2>1 DEF MethodsAreApart
  <2>2. CASE il # Nothing
    <3>1. il = ILDatabase(LoadDotNet(image)) /\ IsImage(image)
      BY <2>2 DEF ListingInv
    <3> QED  BY <3>1, ListingsAreApart
  <2> QED  BY <2>1, <2>2
<1> QED  BY <1>1, <1>2, <1>3, PTL DEF OpenSpec
=============================================================================
