------------------------- MODULE EditHistory_proofs -------------------------
(***************************************************************************)
(* Undo and redo are exact for every size of the segment, every program,   *)
(* every cap of the stack and every number of commands.  The idea: the     *)
(* states before, between and after the commands form a timeline, and each *)
(* entry is a link between two neighbours: its undo closure leads from the *)
(* later to the earlier one and its redo closure back.  The closures work  *)
(* cell by cell, so a change elsewhere only unlinks the cells it stains.   *)
(* What must hold of the present through undo and redo, that the listing   *)
(* is code or data and that patched bytes are NOPs, is shown of the states  *)
(* that undo can bring back as well.                                       *)
(***************************************************************************)
EXTENDS EditHistory, SequenceTheorems, TLAPS

Ops == {"define", "undefine", "hex", "nop", "text", "type", "addMark", "removeMark"}

AnyValue == UNION {ValueOf(t) : t \in Table}
Tables == {d \in [Table -> [Addr -> AnyValue]] :
             \A t \in Table, a \in Addr : d[t][a] \in ValueOf(t)}
Moment == [db : Tables, marks : Seq(Addr)]

Undone(e, x) == [db |-> UndoOf(e, x.db), marks |-> UndoMarks(e, x.marks)]
Redone(e, x) == [db |-> RedoOf(e, x.db), marks |-> RedoMarks(e, x.marks)]

Same(x, y, S) ==
  /\ x.marks = y.marks
  /\ \A t \in Table, a \in Addr : <<t, a>> \notin S => x.db[t][a] = y.db[t][a]

Link(e, before, after, S) ==
  Same(Undone(e, after), before, S) /\ Same(Redone(e, before), after, S)
-----------------------------------------------------------------------------
(* The tables.                                                             *)

(* Tables are what the type invariant says they are.                       *)
LEMMA TablesType ==
  ASSUME NEW d \in Tables PROVE TablesOK(d)
BY DEF Tables, TablesOK

(* Writing one cell changes that cell and no other.                        *)
LEMMA PutCell ==
  ASSUME NEW d \in Tables, NEW t \in Table, NEW a \in Addr, NEW v \in ValueOf(t)
  PROVE  /\ Put(d, t, a, v) \in Tables
         /\ \A u \in Table, b \in Addr :
              Put(d, t, a, v)[u][b] = IF u = t /\ b = a THEN v ELSE d[u][b]
<1>1. v \in AnyValue  BY DEF AnyValue
<1>2. Put(d, t, a, v) \in [Table -> [Addr -> AnyValue]]  BY <1>1 DEF Put, Tables
<1>3. \A u \in Table, b \in Addr :
        Put(d, t, a, v)[u][b] = IF u = t /\ b = a THEN v ELSE d[u][b]
  BY <1>1 DEF Put, Tables
<1>4. \A u \in Table, b \in Addr : Put(d, t, a, v)[u][b] \in ValueOf(u)
  BY <1>3 DEF Tables
<1> QED  BY <1>2, <1>3, <1>4 DEF Tables

(* The types of the tables by name.                                        *)
LEMMA Values ==
  /\ ValueOf("byte") = Byte
  /\ ValueOf("insn") = InsnValue \union {None}
  /\ ValueOf("item") = Item \union {None}
  /\ ValueOf("patch") = 0..Size
  /\ ValueOf("hex") = {0, 1} /\ ValueOf("func") = {0, 1}
  /\ ValueOf("type") = TypeId \union {None}
  /\ ValueOf("name") = Text \union {None} /\ ValueOf("comment") = Text \union {None}
BY DEF ValueOf

(* Writing a run of bytes changes those bytes and nothing else.            *)
LEMMA BlitCell ==
  ASSUME NEW d \in Tables, NEW a \in Addr, NEW n \in 0..Size, NEW s \in [1..n -> Byte]
  PROVE  /\ Blit(d, a, s) \in Tables
         /\ \A u \in Table, b \in Addr :
              Blit(d, a, s)[u][b] =
                IF u = "byte" /\ b \in a..(a + n - 1) THEN s[b - a + 1] ELSE d[u][b]
<1>1. Len(s) = n  OBVIOUS
<1> DEFINE new == [b \in Addr |-> IF b \in a..(a + n - 1) THEN s[b - a + 1] ELSE d["byte"][b]]
<1>2. "byte" \in Table  BY DEF Table
<1>3. Blit(d, a, s) = [d EXCEPT !["byte"] = new]  BY <1>1, <1>2 DEF Blit, Tables
<1>4. \A b \in Addr : new[b] \in Byte
  <2> TAKE b \in Addr
  <2>1. CASE b \in a..(a + n - 1)
    <3>1. b - a + 1 \in 1..n  BY <2>1 DEF Addr
    <3> QED  BY <3>1, <2>1
  <2>2. CASE b \notin a..(a + n - 1)  BY <2>2, <1>2, Values DEF Tables
  <2> QED  BY <2>1, <2>2
<1>5. Byte \subseteq AnyValue  BY <1>2, Values DEF AnyValue
<1>6. new \in [Addr -> AnyValue]  BY <1>4, <1>5
<1> HIDE DEF new
<1>7. Blit(d, a, s) \in [Table -> [Addr -> AnyValue]]  BY <1>3, <1>6 DEF Tables
<1>8. \A u \in Table : Blit(d, a, s)[u] = IF u = "byte" THEN new ELSE d[u]
  BY <1>3 DEF Tables
<1>9. \A u \in Table, b \in Addr :
        Blit(d, a, s)[u][b] =
          IF u = "byte" /\ b \in a..(a + n - 1) THEN s[b - a + 1] ELSE d[u][b]
  BY <1>8 DEF new
<1>10. \A u \in Table, b \in Addr : Blit(d, a, s)[u][b] \in ValueOf(u)
  BY <1>8, <1>4, Values DEF Tables
<1> QED  BY <1>7, <1>9, <1>10 DEF Tables

(* Putting back what a closure captured, a text, and a switch.             *)
LEMMA PutBackCell ==
  ASSUME NEW d \in Tables, NEW t \in Table, NEW a \in Addr, NEW v \in ValueOf(t)
  PROVE  /\ PutBack(d, t, a, v) \in Tables
         /\ \A u \in Table, b \in Addr :
              PutBack(d, t, a, v)[u][b] =
                IF u = t /\ b = a /\ v # None THEN v ELSE d[u][b]
BY PutCell DEF PutBack

LEMMA PutTextCell ==
  ASSUME NEW d \in Tables, NEW t \in {"name", "comment"}, NEW a \in Addr, NEW v \in Text
  PROVE  /\ PutText(d, t, a, v) \in Tables
         /\ \A u \in Table, b \in Addr :
              PutText(d, t, a, v)[u][b] =
                IF u = t /\ b = a THEN IF v = Empty THEN None ELSE v ELSE d[u][b]
<1>1. t \in Table /\ Text \union {None} = ValueOf(t)  BY Values DEF Table
<1> QED  BY <1>1, PutCell DEF PutText

LEMMA ToggleHexCell ==
  ASSUME NEW d \in Tables, NEW a \in Addr
  PROVE  /\ ToggleHex(d, a) \in Tables
         /\ d["hex"][a] \in {0, 1}
         /\ \A u \in Table, b \in Addr :
              ToggleHex(d, a)[u][b] = IF u = "hex" /\ b = a THEN 1 - d["hex"][a] ELSE d[u][b]
<1>1. "hex" \in Table /\ ValueOf("hex") = {0, 1}  BY Values DEF Table
<1>2. d["hex"][a] \in {0, 1}  BY <1>1 DEF Tables
<1>3. (1 - d["hex"][a]) \in ValueOf("hex")  BY <1>1, <1>2
<1> QED  BY <1>1, <1>2, <1>3, PutCell DEF ToggleHex

LEMMA PatchNopCell ==
  ASSUME NEW d \in Tables, NEW a \in Addr, NEW n \in 1..Size
  PROVE  /\ PatchNop(d, a, n) \in Tables
         /\ \A u \in Table, b \in Addr :
              PatchNop(d, a, n)[u][b] =
                IF u = "patch" /\ b = a THEN n
                ELSE IF u = "byte" /\ b \in a..(a + n - 1) THEN Nop ELSE d[u][b]
<1>1. "patch" \in Table /\ "byte" \in Table /\ n \in ValueOf("patch")
  BY EditAssumption, Values DEF Table
<1> DEFINE e == Put(d, "patch", a, n)  s == [i \in 1..n |-> Nop]
<1>2. /\ e \in Tables
      /\ \A u \in Table, b \in Addr : e[u][b] = IF u = "patch" /\ b = a THEN n ELSE d[u][b]
  BY <1>1, PutCell
<1>3. s \in [1..n -> Byte] /\ n \in 0..Size  BY EditAssumption
<1>4. PatchNop(d, a, n) = Blit(e, a, s)  BY DEF PatchNop
<1> HIDE DEF e
<1>5. /\ Blit(e, a, s) \in Tables
      /\ \A u \in Table, b \in Addr :
           Blit(e, a, s)[u][b] =
             IF u = "byte" /\ b \in a..(a + n - 1) THEN s[b - a + 1] ELSE e[u][b]
  BY <1>2, <1>3, BlitCell
<1>6. \A b \in Addr : b \in a..(a + n - 1) => s[b - a + 1] = Nop
  BY EditAssumption DEF Addr
<1> HIDE DEF s
<1>7. ASSUME NEW u \in Table, NEW b \in Addr
      PROVE  PatchNop(d, a, n)[u][b] =
                IF u = "patch" /\ b = a THEN n
                ELSE IF u = "byte" /\ b \in a..(a + n - 1) THEN Nop ELSE d[u][b]
  <2>1. CASE u = "patch" /\ b = a  BY <2>1, <1>2, <1>4, <1>5
  <2>2. CASE u = "byte" /\ b \in a..(a + n - 1)  BY <2>2, <1>4, <1>5, <1>6
  <2>3. CASE ~(u = "patch" /\ b = a) /\ ~(u = "byte" /\ b \in a..(a + n - 1))
    BY <2>3, <1>2, <1>4, <1>5
  <2> QED  BY <2>1, <2>2, <2>3
<1> QED  BY <1>4, <1>5, <1>7

(* Decoding yields an instruction of the bytes there.                      *)
LEMMA DecodeType ==
  ASSUME NEW b \in [Addr -> Byte], NEW a \in Addr
  PROVE  Decode(b, a) \in ValueOf("insn")
<1> DEFINE n == InsnLen[b[a]]
<1>1. n \in Nat  BY EditAssumption
<1>2. CASE n = 0 \/ a + n - 1 > Size
  <2>1. Decode(b, a) = None  BY <1>2 DEF Decode
  <2> QED  BY <2>1, Values
<1>3. CASE ~(n = 0 \/ a + n - 1 > Size)
  <2>1. n \in 1..Size  BY <1>1, <1>3, EditAssumption DEF Addr
  <2>2. \A i \in 1..n : a + i - 1 \in Addr  BY <1>1, <1>3, EditAssumption DEF Addr
  <2>3. [i \in 1..n |-> b[a + i - 1]] \in [1..n -> Byte]  BY <2>2
  <2>4. Decode(b, a) = [i \in 1..n |-> b[a + i - 1]]  BY <1>3 DEF Decode
  <2>5. [1..n -> Byte] \in {[1..m -> Byte] : m \in 1..Size}  BY <2>1
  <2>6. Decode(b, a) \in InsnValue  BY <2>3, <2>4, <2>5 DEF InsnValue
  <2> QED  BY <2>6, Values
<1> QED  BY <1>2, <1>3
-----------------------------------------------------------------------------
(* The closures.                                                           *)

(* What the entries of each command captured.                              *)
LEMMA EntryFields ==
  ASSUME NEW e \in Entry
  PROVE  /\ e.op \in Ops /\ e.at \in Addr
         /\ e.op \in {"define", "undefine"} =>
              e.item \in ValueOf("item") /\ e.insn \in ValueOf("insn")
         /\ e.op = "define" => e.new \in Item
         /\ e.op = "nop" => e.bytes \in InsnValue
         /\ e.op = "text" =>
              e.table \in {"name", "comment"} /\ e.old \in Text /\ e.new \in Text
         /\ e.op = "type" => e.old \in ValueOf("type") /\ e.new \in ValueOf("type")
         /\ e.op \in {"addMark", "removeMark"} => e.index \in Nat \ {0}
BY DEF Entry, Ops

(* The bytes a NOP saved are a run of the length of its instruction.       *)
LEMMA InsnLength ==
  ASSUME NEW s \in InsnValue
  PROVE  Len(s) \in 1..Size /\ s \in [1..Len(s) -> Byte] /\ DOMAIN s = 1..Len(s)
<1>1. PICK n \in 1..Size : s \in [1..n -> Byte]  BY DEF InsnValue
<1>2. Len(s) = n  BY <1>1, EditAssumption
<1> QED  BY <1>1, <1>2

LEMMA TableNames ==
  /\ "insn" \in Table /\ "item" \in Table /\ "hex" \in Table /\ "patch" \in Table
  /\ "byte" \in Table /\ "name" \in Table /\ "comment" \in Table /\ "type" \in Table
  /\ "func" \in Table
BY DEF Table

LEMMA PutListingCell ==
  ASSUME NEW d \in Tables, NEW e, e.at \in Addr,
         e.item \in ValueOf("item"), e.insn \in ValueOf("insn")
  PROVE  /\ PutListing(d, e) \in Tables
         /\ \A u \in Table, b \in Addr :
              PutListing(d, e)[u][b] =
                IF u = "item" /\ b = e.at /\ e.item # None THEN e.item
                ELSE IF u = "insn" /\ b = e.at /\ e.insn # None THEN e.insn ELSE d[u][b]
<1> DEFINE d1 == PutBack(d, "item", e.at, e.item)
           d2 == PutBack(d1, "insn", e.at, e.insn)
<1>1. /\ d1 \in Tables
      /\ \A u \in Table, b \in Addr :
           d1[u][b] = IF u = "item" /\ b = e.at /\ e.item # None THEN e.item ELSE d[u][b]
  BY PutBackCell, TableNames
<1> HIDE DEF d1
<1>2. /\ d2 \in Tables
      /\ \A u \in Table, b \in Addr :
           d2[u][b] = IF u = "insn" /\ b = e.at /\ e.insn # None THEN e.insn ELSE d1[u][b]
  BY <1>1, PutBackCell, TableNames
<1>3. PutListing(d, e) = d2  BY DEF PutListing, d1
<1> HIDE DEF d2
<1> QED  BY <1>1, <1>2, <1>3

(* Two writes to the listing of an address.                                *)
LEMMA PutTwice ==
  ASSUME NEW d \in Tables, NEW a \in Addr,
         NEW x \in ValueOf("insn"), NEW y \in ValueOf("item")
  PROVE  /\ Put(Put(d, "insn", a, x), "item", a, y) \in Tables
         /\ \A u \in Table, b \in Addr :
              Put(Put(d, "insn", a, x), "item", a, y)[u][b] =
                IF u = "insn" /\ b = a THEN x
                ELSE IF u = "item" /\ b = a THEN y ELSE d[u][b]
<1> DEFINE d1 == Put(d, "insn", a, x)
           d2 == Put(d1, "item", a, y)
<1>1. /\ d1 \in Tables
      /\ \A u \in Table, b \in Addr : d1[u][b] = IF u = "insn" /\ b = a THEN x ELSE d[u][b]
  BY PutCell, TableNames
<1> HIDE DEF d1
<1>2. /\ d2 \in Tables
      /\ \A u \in Table, b \in Addr : d2[u][b] = IF u = "item" /\ b = a THEN y ELSE d1[u][b]
  BY <1>1, PutCell, TableNames
<1>3. Put(Put(d, "insn", a, x), "item", a, y) = d2  BY DEF d1
<1> HIDE DEF d2
<1> QED  BY <1>1, <1>2, <1>3

(* What the undo closure of an entry makes of the cell <<u, b>> holding v.  *)
CellUndo(e, u, b, v) ==
  CASE e.op = "define" ->
         IF u = "item" /\ b = e.at THEN e.item
         ELSE IF u = "insn" /\ b = e.at /\ e.insn # None THEN e.insn ELSE v
    [] e.op = "undefine" ->
         IF u = "item" /\ b = e.at /\ e.item # None THEN e.item
         ELSE IF u = "insn" /\ b = e.at /\ e.insn # None THEN e.insn ELSE v
    [] e.op = "hex" -> IF u = "hex" /\ b = e.at THEN 1 - v ELSE v
    [] e.op = "nop" ->
         IF u = "patch" /\ b = e.at THEN 0
         ELSE IF u = "byte" /\ b \in e.at..(e.at + Len(e.bytes) - 1)
           THEN e.bytes[b - e.at + 1] ELSE v
    [] e.op = "text" ->
         IF u = e.table /\ b = e.at THEN IF e.old = Empty THEN None ELSE e.old ELSE v
    [] e.op = "type" -> IF u = "type" /\ b = e.at THEN e.old ELSE v
    [] OTHER -> v

(* What the redo closure makes of it.                                      *)
CellRedo(e, u, b, v) ==
  CASE e.op = "define" ->
         IF u = "insn" /\ b = e.at THEN None ELSE IF u = "item" /\ b = e.at THEN e.new ELSE v
    [] e.op = "undefine" -> IF u \in {"insn", "item"} /\ b = e.at THEN None ELSE v
    [] e.op = "hex" -> IF u = "hex" /\ b = e.at THEN 1 - v ELSE v
    [] e.op = "nop" ->
         IF u = "patch" /\ b = e.at THEN Len(e.bytes)
         ELSE IF u = "byte" /\ b \in e.at..(e.at + Len(e.bytes) - 1) THEN Nop ELSE v
    [] e.op = "text" ->
         IF u = e.table /\ b = e.at THEN IF e.new = Empty THEN None ELSE e.new ELSE v
    [] e.op = "type" -> IF u = "type" /\ b = e.at THEN e.new ELSE v
    [] OTHER -> v

(* The undo closure works cell by cell.                                    *)
LEMMA UndoCells ==
  ASSUME NEW d \in Tables, NEW e \in Entry
  PROVE  /\ UndoOf(e, d) \in Tables
         /\ \A u \in Table, b \in Addr : UndoOf(e, d)[u][b] = CellUndo(e, u, b, d[u][b])
<1>1. CASE e.op = "define"
  <2> DEFINE d1 == Put(d, "item", e.at, None)
  <2>1. e.at \in Addr /\ e.item \in ValueOf("item") /\ e.insn \in ValueOf("insn")
    BY <1>1, EntryFields
  <2>2. None \in ValueOf("item")  BY Values
  <2>3. /\ d1 \in Tables
        /\ \A u \in Table, b \in Addr : d1[u][b] = IF u = "item" /\ b = e.at THEN None ELSE d[u][b]
    BY <2>1, <2>2, PutCell, TableNames
  <2>4. UndoOf(e, d) = PutListing(d1, e)  BY <1>1 DEF UndoOf
  <2> HIDE DEF d1
  <2>5. /\ PutListing(d1, e) \in Tables
        /\ \A u \in Table, b \in Addr :
             PutListing(d1, e)[u][b] =
               IF u = "item" /\ b = e.at /\ e.item # None THEN e.item
               ELSE IF u = "insn" /\ b = e.at /\ e.insn # None THEN e.insn ELSE d1[u][b]
    BY <2>1, <2>3, PutListingCell
  <2> QED  BY <1>1, <2>3, <2>4, <2>5 DEF CellUndo
<1>2. CASE e.op = "undefine"
  <2>1. e.at \in Addr /\ e.item \in ValueOf("item") /\ e.insn \in ValueOf("insn")
    BY <1>2, EntryFields
  <2>2. UndoOf(e, d) = PutListing(d, e)  BY <1>2 DEF UndoOf
  <2> QED  BY <1>2, <2>1, <2>2, PutListingCell DEF CellUndo
<1>3. CASE e.op = "hex"
  <2>1. UndoOf(e, d) = ToggleHex(d, e.at)  BY <1>3 DEF UndoOf
  <2> QED  BY <1>3, <2>1, EntryFields, ToggleHexCell DEF CellUndo
<1>4. CASE e.op = "nop"
  <2> DEFINE d1 == Put(d, "patch", e.at, 0)
  <2>1. e.at \in Addr /\ e.bytes \in InsnValue  BY <1>4, EntryFields
  <2>2. 0 \in ValueOf("patch")  BY EditAssumption, Values
  <2>3. /\ d1 \in Tables
        /\ \A u \in Table, b \in Addr : d1[u][b] = IF u = "patch" /\ b = e.at THEN 0 ELSE d[u][b]
    BY <2>1, <2>2, PutCell, TableNames
  <2>4. UndoOf(e, d) = Blit(d1, e.at, e.bytes)  BY <1>4 DEF UndoOf
  <2> HIDE DEF d1
  <2>5. Len(e.bytes) \in 0..Size /\ e.bytes \in [1..Len(e.bytes) -> Byte]
    BY <2>1, InsnLength
  <2>6. /\ Blit(d1, e.at, e.bytes) \in Tables
        /\ \A u \in Table, b \in Addr :
             Blit(d1, e.at, e.bytes)[u][b] =
               IF u = "byte" /\ b \in e.at..(e.at + Len(e.bytes) - 1)
                 THEN e.bytes[b - e.at + 1] ELSE d1[u][b]
    BY <2>1, <2>3, <2>5, BlitCell
  <2> QED  BY <1>4, <2>3, <2>4, <2>6 DEF CellUndo
<1>5. CASE e.op = "text"
  <2>1. UndoOf(e, d) = PutText(d, e.table, e.at, e.old)  BY <1>5 DEF UndoOf
  <2> QED  BY <1>5, <2>1, EntryFields, PutTextCell DEF CellUndo
<1>6. CASE e.op = "type"
  <2>1. UndoOf(e, d) = Put(d, "type", e.at, e.old)  BY <1>6 DEF UndoOf
  <2> QED  BY <1>6, <2>1, EntryFields, PutCell, TableNames DEF CellUndo
<1>7. CASE e.op \in {"addMark", "removeMark"}
  <2>1. UndoOf(e, d) = d  BY <1>7 DEF UndoOf
  <2> QED  BY <1>7, <2>1 DEF CellUndo
<1> QED  BY <1>1, <1>2, <1>3, <1>4, <1>5, <1>6, <1>7, EntryFields DEF Ops

(* The redo closure works cell by cell.                                    *)
LEMMA RedoCells ==
  ASSUME NEW d \in Tables, NEW e \in Entry
  PROVE  /\ RedoOf(e, d) \in Tables
         /\ \A u \in Table, b \in Addr : RedoOf(e, d)[u][b] = CellRedo(e, u, b, d[u][b])
<1>0. None \in ValueOf("insn") /\ None \in ValueOf("item") /\ Item \subseteq ValueOf("item")
  BY Values
<1>1. CASE e.op = "define"
  <2>1. RedoOf(e, d) = Put(Put(d, "insn", e.at, None), "item", e.at, e.new)
    BY <1>1 DEF RedoOf, Define
  <2> QED  BY <1>0, <1>1, <2>1, EntryFields, PutTwice DEF CellRedo
<1>2. CASE e.op = "undefine"
  <2>1. RedoOf(e, d) = Put(Put(d, "insn", e.at, None), "item", e.at, None)
    BY <1>2 DEF RedoOf, Undefine
  <2> QED  BY <1>0, <1>2, <2>1, EntryFields, PutTwice DEF CellRedo
<1>3. CASE e.op = "hex"
  <2>1. RedoOf(e, d) = ToggleHex(d, e.at)  BY <1>3 DEF RedoOf
  <2> QED  BY <1>3, <2>1, EntryFields, ToggleHexCell DEF CellRedo
<1>4. CASE e.op = "nop"
  <2>1. e.at \in Addr /\ Len(e.bytes) \in 1..Size  BY <1>4, EntryFields, InsnLength
  <2>2. RedoOf(e, d) = PatchNop(d, e.at, Len(e.bytes))  BY <1>4 DEF RedoOf
  <2> QED  BY <1>4, <2>1, <2>2, PatchNopCell DEF CellRedo
<1>5. CASE e.op = "text"
  <2>1. RedoOf(e, d) = PutText(d, e.table, e.at, e.new)  BY <1>5 DEF RedoOf
  <2> QED  BY <1>5, <2>1, EntryFields, PutTextCell DEF CellRedo
<1>6. CASE e.op = "type"
  <2>1. RedoOf(e, d) = Put(d, "type", e.at, e.new)  BY <1>6 DEF RedoOf
  <2> QED  BY <1>6, <2>1, EntryFields, PutCell, TableNames DEF CellRedo
<1>7. CASE e.op \in {"addMark", "removeMark"}
  <2>1. RedoOf(e, d) = d  BY <1>7 DEF RedoOf
  <2> QED  BY <1>7, <2>1 DEF CellRedo
<1> QED  BY <1>1, <1>2, <1>3, <1>4, <1>5, <1>6, <1>7, EntryFields DEF Ops

(* Erasing and inserting a bookmark.                                       *)
LEMMA EraseMarkSeq ==
  ASSUME NEW m \in Seq(Addr), NEW i \in Nat \ {0}
  PROVE  /\ EraseMark(m, i) \in Seq(Addr)
         /\ i <= Len(m) =>
              /\ Len(EraseMark(m, i)) = Len(m) - 1
              /\ \A j \in 1..(Len(m) - 1) :
                   EraseMark(m, i)[j] = IF j < i THEN m[j] ELSE m[j + 1]
<1>1. CASE i > Len(m)  BY <1>1 DEF EraseMark
<1>2. CASE i <= Len(m)
  <2> DEFINE s1 == SubSeq(m, 1, i - 1)  s2 == SubSeq(m, i + 1, Len(m))
  <2>1. s1 \in Seq(Addr) /\ Len(s1) = i - 1 /\ \A j \in 1..(i - 1) : s1[j] = m[j]
    BY <1>2
  <2>2. s2 \in Seq(Addr) /\ Len(s2) = Len(m) - i
        /\ \A j \in 1..(Len(m) - i) : s2[j] = m[i + j]
    BY <1>2
  <2>3. EraseMark(m, i) = s1 \o s2  BY <1>2 DEF EraseMark, RemoveAt
  <2> HIDE DEF s1, s2
  <2>4. /\ s1 \o s2 \in Seq(Addr)
        /\ Len(s1 \o s2) = Len(m) - 1
        /\ \A j \in 1..(Len(m) - 1) :
             (s1 \o s2)[j] = IF j <= i - 1 THEN s1[j] ELSE s2[j - (i - 1)]
    <3>1. /\ s1 \o s2 \in Seq(Addr) /\ Len(s1 \o s2) = Len(s1) + Len(s2)
          /\ \A j \in 1..(Len(s1) + Len(s2)) :
               (s1 \o s2)[j] = IF j <= Len(s1) THEN s1[j] ELSE s2[j - Len(s1)]
      BY <2>1, <2>2, ConcatProperties
    <3>2. Len(m) \in Nat /\ Len(s1) + Len(s2) = Len(m) - 1  BY <2>1, <2>2
    <3> QED  BY <2>1, <3>1, <3>2
  <2>5. ASSUME NEW j \in 1..(Len(m) - 1)
        PROVE  (s1 \o s2)[j] = IF j < i THEN m[j] ELSE m[j + 1]
    <3>1. CASE j < i  BY <3>1, <2>1, <2>4
    <3>2. CASE ~(j < i)
      <4>1. j - (i - 1) \in 1..(Len(m) - i) /\ i + (j - (i - 1)) = j + 1  BY <3>2, <1>2
      <4> QED  BY <3>2, <4>1, <2>2, <2>4
    <3> QED  BY <3>1, <3>2
  <2> QED  BY <2>3, <2>4, <2>5
<1> QED  BY <1>1, <1>2

LEMMA InsertMarkSeq ==
  ASSUME NEW m \in Seq(Addr), NEW i \in Nat \ {0}, NEW a \in Addr
  PROVE  /\ InsertMark(m, i, a) \in Seq(Addr)
         /\ i <= Len(m) + 1 =>
              /\ Len(InsertMark(m, i, a)) = Len(m) + 1
              /\ \A j \in 1..(Len(m) + 1) :
                   InsertMark(m, i, a)[j] =
                     IF j < i THEN m[j] ELSE IF j = i THEN a ELSE m[j - 1]
<1> DEFINE k == IF i <= Len(m) + 1 THEN i ELSE Len(m) + 1
           s1 == SubSeq(m, 1, k - 1)
           s2 == SubSeq(m, k, Len(m))
           s3 == s1 \o <<a>>
<1>0. k \in 1..(Len(m) + 1)  OBVIOUS
<1>6. i <= Len(m) + 1 => k = i  OBVIOUS
<1>3. InsertMark(m, i, a) = s3 \o s2  BY DEF InsertMark, InsertAt
<1> HIDE DEF k
<1>1. s1 \in Seq(Addr) /\ Len(s1) = k - 1 /\ \A j \in 1..(k - 1) : s1[j] = m[j]
  BY <1>0
<1>2. s2 \in Seq(Addr) /\ Len(s2) = Len(m) - k + 1
      /\ \A j \in 1..(Len(m) - k + 1) : s2[j] = m[k + j - 1]
  <2>1. k \in Int /\ Len(m) \in Int /\ \A j \in k..Len(m) : m[j] \in Addr  BY <1>0
  <2>2. /\ s2 \in Seq(Addr) /\ Len(s2) = IF k <= Len(m) THEN Len(m) - k + 1 ELSE 0
        /\ \A j \in 1..(Len(m) - k + 1) : s2[j] = m[k + j - 1]
    BY <2>1, SubSeqProperties
  <2> QED  BY <1>0, <2>2
<1> HIDE DEF s1, s2
<1>4. /\ s3 \in Seq(Addr) /\ Len(s3) = k
      /\ \A j \in 1..k : s3[j] = IF j <= k - 1 THEN s1[j] ELSE a
  <2>1. <<a>> \in Seq(Addr) /\ Len(<<a>>) = 1 /\ <<a>>[1] = a  OBVIOUS
  <2>2. /\ s3 \in Seq(Addr) /\ Len(s3) = (k - 1) + 1
        /\ \A j \in 1..((k - 1) + 1) : s3[j] = IF j <= k - 1 THEN s1[j] ELSE <<a>>[j - (k - 1)]
    BY <1>1, <2>1, ConcatProperties
  <2>3. \A j \in 1..k : ~(j <= k - 1) => j - (k - 1) = 1  BY <1>0
  <2> QED  BY <1>0, <2>1, <2>2, <2>3
<1> HIDE DEF s3
<1>5. /\ s3 \o s2 \in Seq(Addr)
      /\ Len(s3 \o s2) = Len(m) + 1
      /\ \A j \in 1..(Len(m) + 1) : (s3 \o s2)[j] = IF j <= k THEN s3[j] ELSE s2[j - k]
  <2>1. /\ s3 \o s2 \in Seq(Addr) /\ Len(s3 \o s2) = Len(s3) + Len(s2)
        /\ \A j \in 1..(Len(s3) + Len(s2)) :
             (s3 \o s2)[j] = IF j <= Len(s3) THEN s3[j] ELSE s2[j - Len(s3)]
    BY <1>2, <1>4, ConcatProperties
  <2>2. Len(s3) + Len(s2) = Len(m) + 1  BY <1>0, <1>2, <1>4
  <2> QED  BY <1>4, <2>1, <2>2
<1>7. ASSUME NEW j \in 1..(Len(m) + 1)
      PROVE  (s3 \o s2)[j] = IF j < k THEN m[j] ELSE IF j = k THEN a ELSE m[j - 1]
  <2>1. CASE j < k  BY <2>1, <1>0, <1>1, <1>4, <1>5
  <2>2. CASE j = k  BY <2>2, <1>0, <1>4, <1>5
  <2>3. CASE j > k
    <3>1. j - k \in 1..(Len(m) - k + 1) /\ k + (j - k) - 1 = j - 1  BY <2>3, <1>0
    <3> QED  BY <2>3, <3>1, <1>0, <1>2, <1>5
  <2>4. j < k \/ j = k \/ j > k  BY <1>0
  <2> QED  BY <2>1, <2>2, <2>3, <2>4, Zenon
<1> QED  BY <1>3, <1>5, <1>6, <1>7

(* The bookmark added last is the one its closure erases.                  *)
LEMMA EraseAdded ==
  ASSUME NEW m \in Seq(Addr), NEW a \in Addr
  PROVE  EraseMark(Append(m, a), Len(m) + 1) = m
<1> DEFINE n == Append(m, a)
<1>1. n \in Seq(Addr) /\ Len(n) = Len(m) + 1 /\ \A j \in 1..Len(m) : n[j] = m[j]
  OBVIOUS
<1> HIDE DEF n
<1>2. /\ EraseMark(n, Len(m) + 1) \in Seq(Addr)
      /\ Len(EraseMark(n, Len(m) + 1)) = Len(m)
      /\ \A j \in 1..Len(m) : EraseMark(n, Len(m) + 1)[j] = m[j]
  <2> DEFINE i == Len(m) + 1
  <2>1. i \in Nat \ {0} /\ i <= Len(n) /\ Len(n) - 1 = Len(m)  BY <1>1
  <2>2. \A j \in 1..Len(m) : j < i  OBVIOUS
  <2> HIDE DEF i
  <2>3. /\ EraseMark(n, i) \in Seq(Addr) /\ Len(EraseMark(n, i)) = Len(n) - 1
        /\ \A j \in 1..(Len(n) - 1) : EraseMark(n, i)[j] = IF j < i THEN n[j] ELSE n[j + 1]
    BY <1>1, <2>1, EraseMarkSeq
  <2>4. /\ EraseMark(n, i) \in Seq(Addr) /\ Len(EraseMark(n, i)) = Len(m)
        /\ \A j \in 1..Len(m) : EraseMark(n, i)[j] = m[j]
    BY <1>1, <2>1, <2>2, <2>3
  <2> QED  BY <2>4 DEF i
<1> QED  BY <1>2, SeqEqual DEF n

(* The bookmark removed goes back to its place.                            *)
LEMMA InsertRemoved ==
  ASSUME NEW m \in Seq(Addr), NEW i \in 1..Len(m)
  PROVE  InsertMark(EraseMark(m, i), i, m[i]) = m
<1> DEFINE n == EraseMark(m, i)
<1>1. /\ n \in Seq(Addr) /\ Len(n) = Len(m) - 1
      /\ \A j \in 1..(Len(m) - 1) : n[j] = IF j < i THEN m[j] ELSE m[j + 1]
  <2>1. i \in Nat \ {0} /\ i <= Len(m)  OBVIOUS
  <2> QED  BY <2>1, EraseMarkSeq
<1> HIDE DEF n
<1>2. m[i] \in Addr  OBVIOUS
<1>3. /\ InsertMark(n, i, m[i]) \in Seq(Addr)
      /\ Len(InsertMark(n, i, m[i])) = Len(m)
      /\ \A j \in 1..Len(m) :
           InsertMark(n, i, m[i])[j] = IF j < i THEN n[j] ELSE IF j = i THEN m[i] ELSE n[j - 1]
  <2>1. i \in Nat \ {0} /\ i <= Len(n) + 1 /\ Len(n) + 1 = Len(m)  BY <1>1
  <2>2. ASSUME NEW x \in Addr
        PROVE  /\ InsertMark(n, i, x) \in Seq(Addr)
               /\ Len(InsertMark(n, i, x)) = Len(m)
               /\ \A j \in 1..Len(m) :
                    InsertMark(n, i, x)[j] = IF j < i THEN n[j] ELSE IF j = i THEN x ELSE n[j - 1]
    <3>1. /\ InsertMark(n, i, x) \in Seq(Addr)
          /\ i <= Len(n) + 1 =>
               /\ Len(InsertMark(n, i, x)) = Len(n) + 1
               /\ \A j \in 1..(Len(n) + 1) :
                    InsertMark(n, i, x)[j] =
                      IF j < i THEN n[j] ELSE IF j = i THEN x ELSE n[j - 1]
      <4>1. n \in Seq(Addr) /\ i \in Nat \ {0} /\ x \in Addr  BY <1>1, <2>1
      <4> QED  BY <4>1, InsertMarkSeq, ZenonT(60)
    <3> QED  BY <2>1, <3>1
  <2> QED  BY <1>2, <2>2
<1>4. ASSUME NEW j \in 1..Len(m)  PROVE  InsertMark(n, i, m[i])[j] = m[j]
  <2>1. CASE j < i  BY <2>1, <1>1, <1>3
  <2>2. CASE j = i  BY <2>2, <1>3
  <2>3. CASE j > i
    <3>1. j - 1 \in 1..(Len(m) - 1) /\ ~(j - 1 < i) /\ (j - 1) + 1 = j  BY <2>3
    <3> QED  BY <2>3, <3>1, <1>1, <1>3
  <2> QED  BY <2>1, <2>2, <2>3
<1> QED  BY <1>3, <1>4, SeqEqual DEF n
-----------------------------------------------------------------------------
(* The links of the timeline.                                              *)

LEMMA MarksType ==
  ASSUME NEW m \in Seq(Addr), NEW e \in Entry
  PROVE  UndoMarks(e, m) \in Seq(Addr) /\ RedoMarks(e, m) \in Seq(Addr)
<1>1. CASE e.op = "addMark"
  BY <1>1, EntryFields, EraseMarkSeq DEF UndoMarks, RedoMarks
<1>2. CASE e.op = "removeMark"
  BY <1>2, EntryFields, EraseMarkSeq, InsertMarkSeq DEF UndoMarks, RedoMarks
<1>3. CASE e.op # "addMark" /\ e.op # "removeMark"
  BY <1>3 DEF UndoMarks, RedoMarks
<1> QED  BY <1>1, <1>2, <1>3

LEMMA ClosureTypes ==
  ASSUME NEW x \in Moment, NEW e \in Entry
  PROVE  Undone(e, x) \in Moment /\ Redone(e, x) \in Moment
<1>1. x.db \in Tables /\ x.marks \in Seq(Addr)  BY DEF Moment
<1> QED  BY <1>1, UndoCells, RedoCells, MarksType DEF Undone, Redone, Moment

(* The closures work cell by cell.                                         *)
LEMMA Cellwise ==
  ASSUME NEW x \in Moment, NEW y \in Moment, NEW e \in Entry, NEW S, Same(x, y, S)
  PROVE  Same(Undone(e, x), Undone(e, y), S) /\ Same(Redone(e, x), Redone(e, y), S)
<1>1. x.db \in Tables /\ y.db \in Tables /\ x.marks = y.marks  BY DEF Moment, Same
<1>2. Undone(e, x).marks = Undone(e, y).marks /\ Redone(e, x).marks = Redone(e, y).marks
  BY <1>1 DEF Undone, Redone
<1>3. ASSUME NEW u \in Table, NEW b \in Addr, <<u, b>> \notin S
      PROVE  /\ UndoOf(e, x.db)[u][b] = UndoOf(e, y.db)[u][b]
             /\ RedoOf(e, x.db)[u][b] = RedoOf(e, y.db)[u][b]
  <2>1. x.db[u][b] = y.db[u][b]  BY <1>3 DEF Same
  <2> QED  BY <1>1, <2>1, UndoCells, RedoCells
<1> QED  BY <1>2, <1>3 DEF Same, Undone, Redone

(* A link joins states that differ from its own in stained cells only.      *)
LEMMA LinkSubst ==
  ASSUME NEW e \in Entry, NEW S, NEW T, S \subseteq T,
         NEW x \in Moment, NEW y \in Moment, NEW x1 \in Moment, NEW y1 \in Moment,
         Link(e, x, y, S), Same(x, x1, T), Same(y, y1, T)
  PROVE  Link(e, x1, y1, T)
<1>1. Same(Undone(e, y), x, T) /\ Same(Redone(e, x), y, T)  BY DEF Link, Same
<1>2. Same(Undone(e, y), Undone(e, y1), T) /\ Same(Redone(e, x), Redone(e, x1), T)
  BY Cellwise
<1> QED  BY <1>1, <1>2 DEF Link, Same

LEMMA LinkMono ==
  ASSUME NEW e, NEW x, NEW y, NEW S, NEW T, S \subseteq T, Link(e, x, y, S)
  PROVE  Link(e, x, y, T)
BY DEF Link, Same

LEMMA SameRefl ==
  ASSUME NEW x, NEW S  PROVE  Same(x, x, S)
BY DEF Same

(* The entry captured the state x, but for stained cells.                   *)
Captured(e, x, S) ==
  /\ e.op \in {"define", "undefine"} =>
       e.item = x.db["item"][e.at] /\ e.insn = x.db["insn"][e.at]
  /\ e.op = "nop" =>
       /\ \A b \in Addr : b \in e.at..(e.at + Len(e.bytes) - 1) =>
            e.bytes[b - e.at + 1] = x.db["byte"][b]
       /\ x.db["patch"][e.at] = 0 \/ <<"patch", e.at>> \in S
  /\ e.op = "text" =>
       /\ e.old = IF x.db[e.table][e.at] = None THEN Empty ELSE x.db[e.table][e.at]
       /\ x.db[e.table][e.at] # Empty \/ <<e.table, e.at>> \in S
  /\ e.op = "type" => e.old = x.db["type"][e.at]
  /\ e.op = "addMark" => e.index = Len(x.marks) + 1
  /\ e.op = "removeMark" => e.index \in 1..Len(x.marks) /\ e.at = x.marks[e.index]

(* Undoing what was just done brings the captured state back.               *)
LEMMA UndoInvertsRedo ==
  ASSUME NEW x \in Moment, NEW e \in Entry, NEW S, Captured(e, x, S)
  PROVE  Link(e, x, Redone(e, x), S)
<1> DEFINE r == RedoOf(e, x.db)
<1>1. x.db \in Tables /\ x.marks \in Seq(Addr)  BY DEF Moment
<1>2. r \in Tables  BY <1>1, RedoCells
<1>3. UndoMarks(e, RedoMarks(e, x.marks)) = x.marks
  <2>1. CASE e.op = "addMark"
    <3>1. e.index = Len(x.marks) + 1 /\ e.at \in Addr  BY <2>1, EntryFields DEF Captured
    <3>2. UndoMarks(e, RedoMarks(e, x.marks)) = EraseMark(Append(x.marks, e.at), e.index)
      BY <2>1 DEF UndoMarks, RedoMarks
    <3> QED  BY <1>1, <3>1, <3>2, EraseAdded
  <2>2. CASE e.op = "removeMark"
    <3>1. e.index \in 1..Len(x.marks) /\ e.at = x.marks[e.index]  BY <2>2 DEF Captured
    <3>2. UndoMarks(e, RedoMarks(e, x.marks)) =
            InsertMark(EraseMark(x.marks, e.index), e.index, e.at)
      BY <2>2 DEF UndoMarks, RedoMarks
    <3> QED  BY <1>1, <3>1, <3>2, InsertRemoved
  <2>3. CASE e.op # "addMark" /\ e.op # "removeMark"  BY <2>3 DEF UndoMarks, RedoMarks
  <2> QED  BY <2>1, <2>2, <2>3
<1> HIDE DEF r
<1>4. ASSUME NEW u \in Table, NEW b \in Addr, <<u, b>> \notin S
      PROVE  UndoOf(e, r)[u][b] = x.db[u][b]
  <2> DEFINE v == x.db[u][b]
  <2>0. UndoOf(e, r)[u][b] = CellUndo(e, u, b, CellRedo(e, u, b, v))
    BY <1>1, <1>2, UndoCells, RedoCells DEF r
  <2>1. CASE e.op = "define"
    BY <2>0, <2>1 DEF CellUndo, CellRedo, Captured
  <2>2. CASE e.op = "undefine"
    BY <2>0, <2>2 DEF CellUndo, CellRedo, Captured
  <2>3. CASE e.op = "hex"
    <3>1. u = "hex" => v \in {0, 1}  BY <1>1, Values DEF Tables
    <3> QED  BY <2>0, <2>3, <3>1 DEF CellUndo, CellRedo
  <2>4. CASE e.op = "nop"
    BY <1>4, <2>0, <2>4 DEF CellUndo, CellRedo, Captured
  <2>5. CASE e.op = "text"
    <3>1. e.old \in Text  BY <2>5, EntryFields
    <3> QED
      BY <1>4, <2>0, <2>5, <3>1, EditAssumption DEF CellUndo, CellRedo, Captured
  <2>6. CASE e.op = "type"
    BY <2>0, <2>6 DEF CellUndo, CellRedo, Captured
  <2>7. CASE e.op \in {"addMark", "removeMark"}
    BY <2>0, <2>7 DEF CellUndo, CellRedo
  <2> QED  BY <2>1, <2>2, <2>3, <2>4, <2>5, <2>6, <2>7, EntryFields DEF Ops
<1> QED  BY <1>3, <1>4, SameRefl DEF Link, Same, Undone, Redone, r
-----------------------------------------------------------------------------
(* The inductive invariant.                                                *)

Types ==
  /\ db \in Tables /\ marks \in Seq(Addr)
  /\ undoStack \in Seq(Entry) /\ past \in Seq(Moment) /\ Len(past) = Len(undoStack)
  /\ redoStack \in Seq(Entry) /\ future \in Seq(Moment) /\ Len(future) = Len(redoStack)
  /\ Len(undoStack) + Len(redoStack) <= Cap
  /\ stained \subseteq Cell
  /\ edits \in 0..MaxEdits

(* No empty text is stored, but by a script: `old_name.empty()` in a closure *)
(* means that there was none.                                              *)
NoEmpty(d, S) == \A t \in {"name", "comment"}, a \in Addr : <<t, a>> \notin S => d[t][a] # Empty

BackLinks ==
  \A i \in 1..Len(undoStack) :
    Link(undoStack[i], past[i], IF i = Len(past) THEN Now ELSE past[i + 1], stained)

FwdLinks ==
  \A j \in 1..Len(redoStack) :
    Link(redoStack[j], IF j = Len(future) THEN Now ELSE future[j + 1], future[j], stained)

IInv == Types /\ NoEmpty(db, stained) /\ BackLinks /\ FwdLinks

LEMMA NowType ==
  ASSUME Types  PROVE  Now \in Moment /\ Now.db = db /\ Now.marks = marks
BY DEF Types, Now, Moment

(* t is s with x on top, without the oldest element if s was full.          *)
Pushed(s, x, t) ==
  /\ Len(s) + 1 > Cap =>
       /\ Len(t) = Len(s)
       /\ \A i \in 1..Len(s) : t[i] = IF i = Len(s) THEN x ELSE s[i + 1]
  /\ Len(s) + 1 <= Cap =>
       /\ Len(t) = Len(s) + 1
       /\ \A i \in 1..(Len(s) + 1) : t[i] = IF i = Len(s) + 1 THEN x ELSE s[i]

LEMMA DropFirstSeq ==
  ASSUME NEW S, NEW s \in Seq(S), NEW x \in S
  PROVE  /\ DropFirst(Append(s, x)) \in Seq(S)
         /\ Pushed(s, x, DropFirst(Append(s, x)))
<1> DEFINE t == Append(s, x)
<1>0. Cap \in Nat /\ Len(s) \in Nat  BY EditAssumption
<1>1. /\ t \in Seq(S) /\ Len(t) = Len(s) + 1
      /\ \A i \in 1..(Len(s) + 1) : t[i] = IF i = Len(s) + 1 THEN x ELSE s[i]
  OBVIOUS
<1> HIDE DEF t
<1>2. CASE Len(s) + 1 > Cap
  <2>1. t # <<>>  BY <1>0, <1>1
  <2>2. /\ Tail(t) \in Seq(S) /\ Len(Tail(t)) = Len(t) - 1
        /\ \A i \in 1..Len(Tail(t)) : Tail(t)[i] = t[i + 1]
    BY <1>1, <2>1, HeadTailProperties
  <2>3. DropFirst(t) = Tail(t)  BY <1>1, <1>2 DEF DropFirst
  <2>4. Len(Tail(t)) = Len(s)  BY <1>0, <1>1, <2>2
  <2>5. ASSUME NEW i \in 1..Len(s)
        PROVE  Tail(t)[i] = IF i = Len(s) THEN x ELSE s[i + 1]
    <3>1. i + 1 \in 1..(Len(s) + 1) /\ (i + 1 = Len(s) + 1 <=> i = Len(s))  BY <1>0
    <3> QED  BY <1>1, <2>2, <2>4, <3>1
  <2> QED  BY <1>0, <1>2, <2>2, <2>3, <2>4, <2>5 DEF t, Pushed
<1>3. CASE Len(s) + 1 <= Cap
  <2>1. DropFirst(t) = t  BY <1>0, <1>1, <1>3 DEF DropFirst
  <2> QED  BY <1>0, <1>1, <1>3, <2>1 DEF t, Pushed
<1> QED  BY <1>0, <1>2, <1>3

(* A command extends the timeline by one link.                             *)
LEMMA CommandStep ==
  ASSUME IInv, NEW e \in Entry, NEW y \in Moment, NEW stain \in SUBSET Cell,
         Command(e, y.db, y.marks, stain),
         Link(e, Now, y, stained \union stain), NoEmpty(y.db, stained \union stain)
  PROVE  IInv'
<1>1. Types /\ Now \in Moment  BY NowType DEF IInv
<1>2. /\ edits < MaxEdits /\ edits' = edits + 1
      /\ db' = y.db /\ marks' = y.marks
      /\ undoStack' = DropFirst(Append(undoStack, e)) /\ redoStack' = <<>>
      /\ past' = DropFirst(Append(past, Now)) /\ future' = <<>>
      /\ stained' = stained \union stain
  BY DEF Command, Push
<1>3. y.db \in Tables /\ y.marks \in Seq(Addr) /\ y = [db |-> y.db, marks |-> y.marks]
  BY DEF Moment
<1>4. Now' = y  BY <1>2, <1>3 DEF Now
<1> DEFINE n == Len(undoStack)
<1>5. n \in Nat /\ Cap \in Nat \ {0} /\ n = Len(past) /\ n <= Cap
  BY <1>1, EditAssumption DEF Types
<1>6. /\ undoStack' \in Seq(Entry)
      /\ n + 1 > Cap => Len(undoStack') = n
           /\ \A i \in 1..n : undoStack'[i] = IF i = n THEN e ELSE undoStack[i + 1]
      /\ n + 1 <= Cap => Len(undoStack') = n + 1
           /\ \A i \in 1..(n + 1) : undoStack'[i] = IF i = n + 1 THEN e ELSE undoStack[i]
  <2>1. undoStack \in Seq(Entry)  BY <1>1 DEF Types
  <2>2. undoStack' \in Seq(Entry) /\ Pushed(undoStack, e, undoStack')
    BY <1>2, <2>1, DropFirstSeq
  <2> QED  BY <2>2 DEF Pushed
<1>7. /\ past' \in Seq(Moment)
      /\ n + 1 > Cap => Len(past') = n
           /\ \A i \in 1..n : past'[i] = IF i = n THEN Now ELSE past[i + 1]
      /\ n + 1 <= Cap => Len(past') = n + 1
           /\ \A i \in 1..(n + 1) : past'[i] = IF i = n + 1 THEN Now ELSE past[i]
  <2>1. past \in Seq(Moment) /\ Len(past) = n  BY <1>1 DEF Types
  <2>2. past' \in Seq(Moment) /\ Pushed(past, Now, past')
    BY <1>1, <1>2, <2>1, DropFirstSeq
  <2> QED  BY <2>1, <2>2 DEF Pushed
<1>8. Types'
  <2>1. Len(undoStack') + Len(redoStack') <= Cap /\ Len(past') = Len(undoStack')
    BY <1>2, <1>5, <1>6, <1>7
  <2>2. edits' \in 0..MaxEdits  BY <1>1, <1>2, EditAssumption DEF Types
  <2> QED  BY <1>1, <1>2, <1>3, <1>6, <1>7, <2>1, <2>2 DEF Types
<1>9. NoEmpty(db, stained)'  BY <1>2 DEF NoEmpty
<1>10. ASSUME NEW k \in 1..n
       PROVE  Link(undoStack[k], past[k], IF k = n THEN Now ELSE past[k + 1], stained')
  <2>1. Link(undoStack[k], past[k], IF k = n THEN Now ELSE past[k + 1], stained)
    BY <1>5 DEF IInv, BackLinks
  <2>2. stained \subseteq stained'  BY <1>2
  <2> QED  BY <2>1, <2>2, LinkMono
<1>11. BackLinks'
  <2> SUFFICES ASSUME NEW i \in 1..Len(undoStack')
               PROVE  Link(undoStack'[i], past'[i],
                           IF i = Len(past') THEN y ELSE past'[i + 1], stained')
    BY <1>4 DEF BackLinks
  <2>1. Link(e, Now, y, stained')  BY <1>2
  <2>2. CASE n + 1 > Cap
    <3>1. Len(undoStack') = n /\ Len(past') = n /\ i \in 1..n  BY <2>2, <1>6, <1>7
    <3>2. CASE i = n  BY <2>1, <2>2, <3>1, <3>2, <1>6, <1>7
    <3>3. CASE i # n
      <4>1. i + 1 \in 1..n /\ (i + 1 = n => (i + 1) = n)  BY <3>1, <3>3, <1>5
      <4>2. undoStack'[i] = undoStack[i + 1] /\ past'[i] = past[i + 1]
        BY <2>2, <3>1, <3>3, <1>6, <1>7
      <4>3. past'[i + 1] = IF i + 1 = n THEN Now ELSE past[(i + 1) + 1]
        BY <2>2, <4>1, <1>7
      <4>4. Link(undoStack[i + 1], past[i + 1],
                 IF i + 1 = n THEN Now ELSE past[(i + 1) + 1], stained')
        BY <4>1, <1>10
      <4> QED  BY <3>1, <3>3, <4>2, <4>3, <4>4
    <3> QED  BY <3>2, <3>3
  <2>3. CASE n + 1 <= Cap
    <3>1. Len(undoStack') = n + 1 /\ Len(past') = n + 1 /\ i \in 1..(n + 1)
      BY <2>3, <1>6, <1>7
    <3>2. CASE i = n + 1  BY <2>1, <2>3, <3>1, <3>2, <1>6, <1>7
    <3>3. CASE i # n + 1
      <4>1. i \in 1..n /\ i + 1 \in 1..(n + 1) /\ (i + 1 = n + 1 <=> i = n)
        BY <3>1, <3>3, <1>5
      <4>2. undoStack'[i] = undoStack[i] /\ past'[i] = past[i]
        BY <2>3, <3>1, <3>3, <1>6, <1>7
      <4>3. past'[i + 1] = IF i = n THEN Now ELSE past[i + 1]
        BY <2>3, <4>1, <1>7
      <4>4. Link(undoStack[i], past[i], IF i = n THEN Now ELSE past[i + 1], stained')
        BY <4>1, <1>10
      <4> QED  BY <3>1, <3>3, <4>2, <4>3, <4>4
    <3> QED  BY <3>2, <3>3
  <2> QED  BY <2>2, <2>3, <1>5
<1>12. FwdLinks'  BY <1>2 DEF FwdLinks
<1> QED  BY <1>8, <1>9, <1>11, <1>12 DEF IInv

(* The last link, and what becomes of the others when the present changes.  *)
LEMMA LastLink ==
  ASSUME IInv, undoStack # <<>>
  PROVE  /\ Len(undoStack) \in 1..Len(undoStack)
         /\ Last(undoStack) = undoStack[Len(undoStack)] /\ Last(undoStack) \in Entry
         /\ Last(past) = past[Len(undoStack)] /\ Last(past) \in Moment
         /\ Link(Last(undoStack), Last(past), Now, stained)
<1>1. Types /\ BackLinks  BY DEF IInv
<1>2. Len(undoStack) \in Nat \ {0} /\ Len(past) = Len(undoStack)
  BY <1>1, EmptySeq DEF Types
<1>3. Last(undoStack) = undoStack[Len(undoStack)] /\ Last(past) = past[Len(undoStack)]
  BY <1>2 DEF Last
<1>4. Last(undoStack) \in Entry /\ Last(past) \in Moment
  BY <1>1, <1>2, <1>3 DEF Types
<1> QED  BY <1>1, <1>2, <1>3, <1>4 DEF BackLinks

LEMMA LastRedoLink ==
  ASSUME IInv, redoStack # <<>>
  PROVE  /\ Len(redoStack) \in 1..Len(redoStack)
         /\ Last(redoStack) = redoStack[Len(redoStack)] /\ Last(redoStack) \in Entry
         /\ Last(future) = future[Len(redoStack)] /\ Last(future) \in Moment
         /\ Link(Last(redoStack), Now, Last(future), stained)
<1>1. Types /\ FwdLinks  BY DEF IInv
<1>2. Len(redoStack) \in Nat \ {0} /\ Len(future) = Len(redoStack)
  BY <1>1, EmptySeq DEF Types
<1>3. Last(redoStack) = redoStack[Len(redoStack)] /\ Last(future) = future[Len(redoStack)]
  BY <1>2 DEF Last
<1>4. Last(redoStack) \in Entry /\ Last(future) \in Moment
  BY <1>1, <1>2, <1>3 DEF Types
<1> QED  BY <1>1, <1>2, <1>3, <1>4 DEF FwdLinks

(* A link to the present survives a change of stained cells.               *)
LEMMA LinkAfter ==
  ASSUME NEW e \in Entry, NEW x \in Moment, NEW y \in Moment, NEW y1 \in Moment,
         NEW S, NEW T, S \subseteq T, Link(e, x, y, S), Same(y, y1, T)
  PROVE  Link(e, x, y1, T)
BY LinkSubst, SameRefl

LEMMA LinkBefore ==
  ASSUME NEW e \in Entry, NEW x \in Moment, NEW y \in Moment, NEW x1 \in Moment,
         NEW S, NEW T, S \subseteq T, Link(e, x, y, S), Same(x, x1, T)
  PROVE  Link(e, x1, y, T)
BY LinkSubst, SameRefl

(* A change behind the undo stack stains what it writes.                   *)
LEMMA UntrackedStep ==
  ASSUME IInv, NEW d \in Tables, NEW stain \in SUBSET Cell, Untracked(d, stain),
         \A t \in Table, a \in Addr : <<t, a>> \notin stain => d[t][a] = db[t][a],
         NoEmpty(d, stained \union stain)
  PROVE  IInv'
<1>1. Types /\ Now \in Moment /\ Now.db = db /\ Now.marks = marks  BY NowType DEF IInv
<1>2. /\ edits < MaxEdits /\ edits' = edits + 1 /\ db' = d
      /\ stained' = stained \union stain
      /\ UNCHANGED <<marks, undoStack, redoStack, past, future>>
  BY DEF Untracked
<1>3. Types'
  <2>1. edits' \in 0..MaxEdits  BY <1>1, <1>2, EditAssumption DEF Types
  <2> QED  BY <1>1, <1>2, <2>1 DEF Types
<1>4. Now' \in Moment /\ Now'.db = d /\ Now'.marks = marks
  BY <1>1, <1>2 DEF Now, Moment, Types
<1>5. Same(Now, Now', stained') /\ stained \subseteq stained'
  BY <1>1, <1>2, <1>4 DEF Same
<1>6. BackLinks'
  <2> SUFFICES ASSUME NEW i \in 1..Len(undoStack)
               PROVE  Link(undoStack[i], past[i],
                           IF i = Len(past) THEN Now' ELSE past[i + 1], stained')
    BY <1>2 DEF BackLinks
  <2>1. Link(undoStack[i], past[i], IF i = Len(past) THEN Now ELSE past[i + 1], stained)
    BY DEF IInv, BackLinks
  <2>2. undoStack[i] \in Entry /\ past[i] \in Moment  BY <1>1 DEF Types
  <2>3. CASE i = Len(past)
    <3>1. Link(undoStack[i], past[i], Now, stained)  BY <2>1, <2>3
    <3>2. Link(undoStack[i], past[i], Now', stained')
      BY <1>1, <1>4, <1>5, <2>2, <3>1, LinkAfter
    <3> QED  BY <2>3, <3>2
  <2>4. CASE i # Len(past)  BY <2>1, <2>4, <1>5, LinkMono
  <2> QED  BY <2>3, <2>4
<1>7. FwdLinks'
  <2> SUFFICES ASSUME NEW j \in 1..Len(redoStack)
               PROVE  Link(redoStack[j], IF j = Len(future) THEN Now' ELSE future[j + 1],
                           future[j], stained')
    BY <1>2 DEF FwdLinks
  <2>1. Link(redoStack[j], IF j = Len(future) THEN Now ELSE future[j + 1], future[j], stained)
    BY DEF IInv, FwdLinks
  <2>2. redoStack[j] \in Entry /\ future[j] \in Moment  BY <1>1 DEF Types
  <2>3. CASE j = Len(future)
    <3>1. Link(redoStack[j], Now, future[j], stained)  BY <2>1, <2>3
    <3>2. Link(redoStack[j], Now', future[j], stained')
      BY <1>1, <1>4, <1>5, <2>2, <3>1, LinkBefore
    <3> QED  BY <2>3, <3>2
  <2>4. CASE j # Len(future)  BY <2>1, <2>4, <1>5, LinkMono
  <2> QED  BY <2>3, <2>4
<1> QED  BY <1>2, <1>3, <1>6, <1>7 DEF IInv, NoEmpty

(* The closures store no empty text.                                       *)
LEMMA ClosuresNoEmpty ==
  ASSUME NEW d \in Tables, NEW e \in Entry, NEW S, NoEmpty(d, S)
  PROVE  NoEmpty(UndoOf(e, d), S) /\ NoEmpty(RedoOf(e, d), S)
<1> SUFFICES ASSUME NEW t \in {"name", "comment"}, NEW a \in Addr, <<t, a>> \notin S
             PROVE  UndoOf(e, d)[t][a] # Empty /\ RedoOf(e, d)[t][a] # Empty
  BY DEF NoEmpty
<1>1. t \in Table /\ d[t][a] # Empty  BY TableNames DEF NoEmpty
<1>2. /\ UndoOf(e, d)[t][a] = CellUndo(e, t, a, d[t][a])
      /\ RedoOf(e, d)[t][a] = CellRedo(e, t, a, d[t][a])
  BY <1>1, UndoCells, RedoCells
<1>3. Empty # None  BY EditAssumption
<1>4. CellUndo(e, t, a, d[t][a]) # Empty  BY <1>1, <1>3 DEF CellUndo
<1>5. CellRedo(e, t, a, d[t][a]) # Empty  BY <1>1, <1>3 DEF CellRedo
<1> QED  BY <1>2, <1>4, <1>5

LEMMA FrontSeq ==
  ASSUME NEW S, NEW s \in Seq(S), s # <<>>
  PROVE  /\ Front(s) \in Seq(S) /\ Len(Front(s)) = Len(s) - 1
         /\ \A i \in 1..(Len(s) - 1) : Front(s)[i] = s[i]
<1>1. Len(s) \in Nat \ {0}  BY EmptySeq
<1>2. 1 \in Int /\ Len(s) - 1 \in Int /\ \A i \in 1..(Len(s) - 1) : s[i] \in S  BY <1>1
<1>3. /\ SubSeq(s, 1, Len(s) - 1) \in Seq(S)
      /\ Len(SubSeq(s, 1, Len(s) - 1)) = IF 1 <= Len(s) - 1 THEN (Len(s) - 1) - 1 + 1 ELSE 0
      /\ \A i \in 1..((Len(s) - 1) - 1 + 1) : SubSeq(s, 1, Len(s) - 1)[i] = s[1 + i - 1]
  BY <1>2, SubSeqProperties
<1>4. (Len(s) - 1) - 1 + 1 = Len(s) - 1  BY <1>1
<1> QED  BY <1>1, <1>3, <1>4 DEF Front

(* Ctrl+Z: the present becomes the state before the command.               *)
LEMMA UndoResult ==
  ASSUME IInv, Undo
  PROVE  /\ Now' = Undone(Last(undoStack), Now) /\ Now' \in Moment
         /\ Same(Now', Last(past), stained)
         /\ Link(Last(undoStack), Now', Now, stained)
<1>1. Types /\ Now \in Moment /\ Now.db = db /\ Now.marks = marks  BY NowType DEF IInv
<1>2. undoStack # <<>>  BY DEF Undo
<1>3. /\ Last(undoStack) \in Entry /\ Last(past) \in Moment
      /\ Link(Last(undoStack), Last(past), Now, stained)
  BY <1>2, LastLink
<1>4. Now' = Undone(Last(undoStack), Now)  BY <1>1 DEF Undo, Now, Undone
<1>5. Now' \in Moment  BY <1>1, <1>3, <1>4, ClosureTypes
<1>6. Same(Now', Last(past), stained)  BY <1>3, <1>4 DEF Link
<1>7. Same(Last(past), Now', stained)  BY <1>6 DEF Same
<1>8. Link(Last(undoStack), Now', Now, stained)
  BY <1>1, <1>3, <1>5, <1>7, LinkBefore
<1> QED  BY <1>4, <1>5, <1>6, <1>8

(* Ctrl+Y: the present becomes the state that was undone.                  *)
LEMMA RedoResult ==
  ASSUME IInv, Redo
  PROVE  /\ Now' = Redone(Last(redoStack), Now) /\ Now' \in Moment
         /\ Same(Now', Last(future), stained)
         /\ Link(Last(redoStack), Now, Now', stained)
<1>1. Types /\ Now \in Moment /\ Now.db = db /\ Now.marks = marks  BY NowType DEF IInv
<1>2. redoStack # <<>>  BY DEF Redo
<1>3. /\ Last(redoStack) \in Entry /\ Last(future) \in Moment
      /\ Link(Last(redoStack), Now, Last(future), stained)
  BY <1>2, LastRedoLink
<1>4. Now' = Redone(Last(redoStack), Now)  BY <1>1 DEF Redo, Now, Redone
<1>5. Now' \in Moment  BY <1>1, <1>3, <1>4, ClosureTypes
<1>6. Same(Now', Last(future), stained)  BY <1>3, <1>4 DEF Link
<1>7. Same(Last(future), Now', stained)  BY <1>6 DEF Same
<1>8. Link(Last(redoStack), Now, Now', stained)
  BY <1>1, <1>3, <1>5, <1>7, LinkAfter
<1> QED  BY <1>4, <1>5, <1>6, <1>8

LEMMA UndoStep ==
  ASSUME IInv, Undo
  PROVE  IInv'
<1> DEFINE e == Last(undoStack)  n == Len(undoStack)  m == Len(redoStack)
<1>1. Types /\ Now \in Moment /\ Now.db = db /\ Now.marks = marks  BY NowType DEF IInv
<1>2. /\ undoStack # <<>> /\ db' = UndoOf(e, db) /\ marks' = UndoMarks(e, marks)
      /\ redoStack' = Append(redoStack, e) /\ undoStack' = Front(undoStack)
      /\ past' = Front(past) /\ future' = Append(future, Now)
      /\ UNCHANGED <<stained, edits>>
  BY DEF Undo
<1>3. /\ n \in 1..n /\ e = undoStack[n] /\ e \in Entry
      /\ Last(past) = past[n] /\ past[n] \in Moment
  BY <1>2, LastLink
<1>4. /\ Now' \in Moment /\ Same(past[n], Now', stained) /\ Link(e, Now', Now, stained)
  BY <1>3, UndoResult DEF Same
<1>5. /\ n \in Nat \ {0} /\ m \in Nat /\ Len(past) = n /\ Len(future) = m
      /\ undoStack \in Seq(Entry) /\ past \in Seq(Moment)
      /\ redoStack \in Seq(Entry) /\ future \in Seq(Moment)
  BY <1>1, <1>3 DEF Types
<1>6. /\ undoStack' \in Seq(Entry) /\ Len(undoStack') = n - 1
      /\ \A i \in 1..(n - 1) : undoStack'[i] = undoStack[i]
  BY <1>2, <1>5, FrontSeq
<1>7. /\ past' \in Seq(Moment) /\ Len(past') = n - 1
      /\ \A i \in 1..(n - 1) : past'[i] = past[i]
  <2>1. past # <<>>  BY <1>5
  <2> QED  BY <1>2, <1>5, <2>1, FrontSeq
<1>8. /\ redoStack' \in Seq(Entry) /\ Len(redoStack') = m + 1
      /\ \A j \in 1..(m + 1) : redoStack'[j] = IF j = m + 1 THEN e ELSE redoStack[j]
  BY <1>2, <1>3, <1>5
<1>9. /\ future' \in Seq(Moment) /\ Len(future') = m + 1
      /\ \A j \in 1..(m + 1) : future'[j] = IF j = m + 1 THEN Now ELSE future[j]
  BY <1>1, <1>2, <1>5
<1> HIDE DEF e, n, m
<1>10. Types'
  <2>1. db' \in Tables /\ marks' \in Seq(Addr)
    BY <1>1, <1>2, <1>3, UndoCells, MarksType DEF Types
  <2>2. Len(undoStack') + Len(redoStack') <= Cap
    BY <1>1, <1>5, <1>6, <1>8, EditAssumption DEF Types, n, m
  <2> QED  BY <1>1, <1>2, <1>6, <1>7, <1>8, <1>9, <2>1, <2>2 DEF Types
<1>11. NoEmpty(db, stained)'
  <2>1. NoEmpty(UndoOf(e, db), stained)
    BY <1>1, <1>3, ClosuresNoEmpty DEF IInv, Types
  <2> QED  BY <1>2, <2>1 DEF NoEmpty
<1>12. BackLinks'
  <2> SUFFICES ASSUME NEW i \in 1..(n - 1)
               PROVE  Link(undoStack[i], past[i],
                           IF i = n - 1 THEN Now' ELSE past'[i + 1], stained)
    BY <1>2, <1>6, <1>7 DEF BackLinks
  <2>1. i \in 1..n /\ i # n  BY <1>5
  <2>2. Link(undoStack[i], past[i], past[i + 1], stained)
    BY <1>5, <2>1 DEF IInv, BackLinks, n
  <2>3. undoStack[i] \in Entry /\ past[i] \in Moment /\ past[i + 1] \in Moment
    BY <1>5, <2>1 DEF n
  <2>4. CASE i = n - 1
    <3>1. i + 1 = n  BY <1>5, <2>4
    <3>2. Link(undoStack[i], past[i], past[n], stained)  BY <2>2, <3>1
    <3>3. Link(undoStack[i], past[i], Now', stained)
      BY <1>3, <1>4, <2>3, <3>2, LinkAfter
    <3> QED  BY <2>4, <3>3
  <2>5. CASE i # n - 1
    <3>1. i + 1 \in 1..(n - 1)  BY <1>5, <2>5
    <3> QED  BY <1>7, <2>2, <2>5, <3>1
  <2> QED  BY <2>4, <2>5
<1>13. FwdLinks'
  <2> SUFFICES ASSUME NEW j \in 1..(m + 1)
               PROVE  Link(redoStack'[j], IF j = m + 1 THEN Now' ELSE future'[j + 1],
                           future'[j], stained)
    BY <1>2, <1>8, <1>9 DEF FwdLinks
  <2>1. CASE j = m + 1  BY <1>4, <1>5, <1>8, <1>9, <2>1
  <2>2. CASE j # m + 1
    <3>1. j \in 1..m /\ j + 1 \in 1..(m + 1) /\ (j + 1 = m + 1 <=> j = m)  BY <1>5, <2>2
    <3>2. Link(redoStack[j], IF j = m THEN Now ELSE future[j + 1], future[j], stained)
      BY <1>5, <3>1 DEF IInv, FwdLinks, m
    <3>3. redoStack'[j] = redoStack[j] /\ future'[j] = future[j]
      BY <1>8, <1>9, <2>2
    <3>4. future'[j + 1] = IF j = m THEN Now ELSE future[j + 1]
      BY <1>9, <3>1
    <3> QED  BY <2>2, <3>2, <3>3, <3>4
  <2> QED  BY <2>1, <2>2
<1> QED  BY <1>10, <1>11, <1>12, <1>13 DEF IInv

LEMMA RedoStep ==
  ASSUME IInv, Redo
  PROVE  IInv'
<1> DEFINE e == Last(redoStack)  n == Len(undoStack)  m == Len(redoStack)
<1>1. Types /\ Now \in Moment /\ Now.db = db /\ Now.marks = marks  BY NowType DEF IInv
<1>2. /\ redoStack # <<>> /\ db' = RedoOf(e, db) /\ marks' = RedoMarks(e, marks)
      /\ undoStack' = Append(undoStack, e) /\ redoStack' = Front(redoStack)
      /\ future' = Front(future) /\ past' = Append(past, Now)
      /\ UNCHANGED <<stained, edits>>
  BY DEF Redo
<1>3. /\ m \in 1..m /\ e = redoStack[m] /\ e \in Entry
      /\ Last(future) = future[m] /\ future[m] \in Moment
  BY <1>2, LastRedoLink
<1>4. /\ Now' \in Moment /\ Same(future[m], Now', stained) /\ Link(e, Now, Now', stained)
  BY <1>3, RedoResult DEF Same
<1>5. /\ n \in Nat /\ m \in Nat \ {0} /\ Len(past) = n /\ Len(future) = m
      /\ undoStack \in Seq(Entry) /\ past \in Seq(Moment)
      /\ redoStack \in Seq(Entry) /\ future \in Seq(Moment)
  BY <1>1, <1>3 DEF Types
<1>6. /\ redoStack' \in Seq(Entry) /\ Len(redoStack') = m - 1
      /\ \A j \in 1..(m - 1) : redoStack'[j] = redoStack[j]
  BY <1>2, <1>5, FrontSeq
<1>7. /\ future' \in Seq(Moment) /\ Len(future') = m - 1
      /\ \A j \in 1..(m - 1) : future'[j] = future[j]
  <2>1. future # <<>>  BY <1>5
  <2> QED  BY <1>2, <1>5, <2>1, FrontSeq
<1>8. /\ undoStack' \in Seq(Entry) /\ Len(undoStack') = n + 1
      /\ \A i \in 1..(n + 1) : undoStack'[i] = IF i = n + 1 THEN e ELSE undoStack[i]
  BY <1>2, <1>3, <1>5
<1>9. /\ past' \in Seq(Moment) /\ Len(past') = n + 1
      /\ \A i \in 1..(n + 1) : past'[i] = IF i = n + 1 THEN Now ELSE past[i]
  BY <1>1, <1>2, <1>5
<1> HIDE DEF e, n, m
<1>10. Types'
  <2>1. db' \in Tables /\ marks' \in Seq(Addr)
    BY <1>1, <1>2, <1>3, RedoCells, MarksType DEF Types
  <2>2. Len(undoStack') + Len(redoStack') <= Cap
    BY <1>1, <1>5, <1>6, <1>8, EditAssumption DEF Types, n, m
  <2> QED  BY <1>1, <1>2, <1>6, <1>7, <1>8, <1>9, <2>1, <2>2 DEF Types
<1>11. NoEmpty(db, stained)'
  <2>1. NoEmpty(RedoOf(e, db), stained)
    BY <1>1, <1>3, ClosuresNoEmpty DEF IInv, Types
  <2> QED  BY <1>2, <2>1 DEF NoEmpty
<1>12. FwdLinks'
  <2> SUFFICES ASSUME NEW j \in 1..(m - 1)
               PROVE  Link(redoStack[j], IF j = m - 1 THEN Now' ELSE future'[j + 1],
                           future[j], stained)
    BY <1>2, <1>6, <1>7 DEF FwdLinks
  <2>1. j \in 1..m /\ j # m  BY <1>5
  <2>2. Link(redoStack[j], future[j + 1], future[j], stained)
    BY <1>5, <2>1 DEF IInv, FwdLinks, m
  <2>3. redoStack[j] \in Entry /\ future[j] \in Moment /\ future[j + 1] \in Moment
    BY <1>5, <2>1 DEF m
  <2>4. CASE j = m - 1
    <3>1. j + 1 = m  BY <1>5, <2>4
    <3>2. Link(redoStack[j], future[m], future[j], stained)  BY <2>2, <3>1
    <3>3. Link(redoStack[j], Now', future[j], stained)
      BY <1>3, <1>4, <2>3, <3>2, LinkBefore
    <3> QED  BY <2>4, <3>3
  <2>5. CASE j # m - 1
    <3>1. j + 1 \in 1..(m - 1)  BY <1>5, <2>5
    <3> QED  BY <1>7, <2>2, <2>5, <3>1
  <2> QED  BY <2>4, <2>5
<1>13. BackLinks'
  <2> SUFFICES ASSUME NEW i \in 1..(n + 1)
               PROVE  Link(undoStack'[i], past'[i],
                           IF i = n + 1 THEN Now' ELSE past'[i + 1], stained)
    BY <1>2, <1>8, <1>9 DEF BackLinks
  <2>1. CASE i = n + 1  BY <1>4, <1>5, <1>8, <1>9, <2>1
  <2>2. CASE i # n + 1
    <3>1. i \in 1..n /\ i + 1 \in 1..(n + 1) /\ (i + 1 = n + 1 <=> i = n)  BY <1>5, <2>2
    <3>2. Link(undoStack[i], past[i], IF i = n THEN Now ELSE past[i + 1], stained)
      BY <1>5, <3>1 DEF IInv, BackLinks, n
    <3>3. undoStack'[i] = undoStack[i] /\ past'[i] = past[i]
      BY <1>8, <1>9, <2>2
    <3>4. past'[i + 1] = IF i = n THEN Now ELSE past[i + 1]
      BY <1>9, <3>1
    <3> QED  BY <2>2, <3>2, <3>3, <3>4
  <2> QED  BY <2>1, <2>2
<1> QED  BY <1>10, <1>11, <1>12, <1>13 DEF IInv
-----------------------------------------------------------------------------
(* The commands.                                                           *)

(* A command whose change is what its redo closure does.                   *)
LEMMA TrackedStep ==
  ASSUME IInv, NEW e \in Entry, Captured(e, Now, stained),
         Command(e, RedoOf(e, db), RedoMarks(e, marks), {})
  PROVE  IInv'
<1> DEFINE y == Redone(e, Now)
<1>1. Types /\ Now \in Moment /\ Now.db = db /\ Now.marks = marks  BY NowType DEF IInv
<1>2. y \in Moment /\ y.db = RedoOf(e, db) /\ y.marks = RedoMarks(e, marks)
  BY <1>1, ClosureTypes DEF Redone
<1>3. Link(e, Now, y, stained)  BY <1>1, UndoInvertsRedo
<1>4. NoEmpty(y.db, stained)
  BY <1>1, <1>2, ClosuresNoEmpty DEF IInv, Types
<1>5. stained \union {} = stained /\ {} \in SUBSET Cell  OBVIOUS
<1> HIDE DEF y
<1>6. Command(e, y.db, y.marks, {})  BY <1>2
<1> QED  BY <1>2, <1>3, <1>4, <1>5, <1>6, CommandStep

LEMMA Lookup ==
  ASSUME IInv, NEW t \in Table, NEW a \in Addr
  PROVE  db[t][a] \in ValueOf(t) /\ Now.db = db /\ Now.marks = marks
BY NowType DEF IInv, Types, Tables

LEMMA DefineStep ==
  ASSUME IInv, NEW a \in Addr, NEW item \in Item, CmdDefine(a, item)
  PROVE  IInv'
<1> DEFINE e == [op |-> "define", at |-> a, new |-> item, item |-> ItemAt(a), insn |-> InsnAt(a)]
<1>1. ItemAt(a) \in ValueOf("item") /\ InsnAt(a) \in ValueOf("insn")
  BY Lookup, TableNames DEF ItemAt, InsnAt
<1>2. e \in Entry  BY <1>1 DEF Entry
<1>3. Captured(e, Now, stained)  BY Lookup, TableNames DEF Captured, ItemAt, InsnAt
<1>4. RedoOf(e, db) = Define(db, a, item) /\ RedoMarks(e, marks) = marks
  BY DEF RedoOf, RedoMarks
<1>5. Command(e, Define(db, a, item), marks, {})  BY DEF CmdDefine
<1> HIDE DEF e
<1> QED  BY <1>2, <1>3, <1>4, <1>5, TrackedStep

LEMMA UndefineStep ==
  ASSUME IInv, NEW a \in Addr, CmdUndefine(a)
  PROVE  IInv'
<1> DEFINE e == [op |-> "undefine", at |-> a, item |-> ItemAt(a), insn |-> InsnAt(a)]
<1>1. ItemAt(a) \in ValueOf("item") /\ InsnAt(a) \in ValueOf("insn")
  BY Lookup, TableNames DEF ItemAt, InsnAt
<1>2. e \in Entry  BY <1>1 DEF Entry
<1>3. Captured(e, Now, stained)  BY Lookup, TableNames DEF Captured, ItemAt, InsnAt
<1>4. RedoOf(e, db) = Undefine(db, a) /\ RedoMarks(e, marks) = marks
  BY DEF RedoOf, RedoMarks
<1>5. Command(e, Undefine(db, a), marks, {})  BY DEF CmdUndefine
<1> HIDE DEF e
<1> QED  BY <1>2, <1>3, <1>4, <1>5, TrackedStep

LEMMA ToggleHexStep ==
  ASSUME IInv, NEW a \in Addr, CmdToggleHex(a)
  PROVE  IInv'
<1> DEFINE e == [op |-> "hex", at |-> a]
<1>1. e \in Entry  BY DEF Entry
<1>2. Captured(e, Now, stained)  BY DEF Captured
<1>3. RedoOf(e, db) = ToggleHex(db, a) /\ RedoMarks(e, marks) = marks
  BY DEF RedoOf, RedoMarks
<1>4. Command(e, ToggleHex(db, a), marks, {})  BY DEF CmdToggleHex
<1> HIDE DEF e
<1> QED  BY <1>1, <1>2, <1>3, <1>4, TrackedStep

LEMMA TextStep ==
  ASSUME IInv, NEW t \in {"name", "comment"}, NEW a \in Addr, NEW text \in Text,
         PutTextCmd(t, a, text)
  PROVE  IInv'
<1> DEFINE e == [op |-> "text", table |-> t, at |-> a, old |-> OldText(t, a), new |-> text]
<1>1. t \in Table /\ db[t][a] \in Text \union {None}  BY Lookup, TableNames, Values
<1>2. OldText(t, a) \in Text  BY <1>1, EditAssumption DEF OldText
<1>3. e \in Entry  BY <1>2 DEF Entry
<1>4. Captured(e, Now, stained)
  BY <1>1, Lookup DEF Captured, OldText, IInv, NoEmpty
<1>5. RedoOf(e, db) = PutText(db, t, a, text) /\ RedoMarks(e, marks) = marks
  BY DEF RedoOf, RedoMarks
<1>6. Command(e, PutText(db, t, a, text), marks, {})  BY DEF PutTextCmd
<1> HIDE DEF e
<1> QED  BY <1>3, <1>4, <1>5, <1>6, TrackedStep

LEMMA TypeStep ==
  ASSUME IInv, NEW a \in Addr, NEW id \in TypeId \union {None}, ApplyType(a, id)
  PROVE  IInv'
<1> DEFINE e == [op |-> "type", at |-> a, old |-> db["type"][a], new |-> id]
<1>1. db["type"][a] \in ValueOf("type") /\ id \in ValueOf("type")
  BY Lookup, TableNames, Values
<1>2. e \in Entry  BY <1>1 DEF Entry
<1>3. Captured(e, Now, stained)  BY Lookup, TableNames DEF Captured
<1>4. RedoOf(e, db) = Put(db, "type", a, id) /\ RedoMarks(e, marks) = marks
  BY DEF RedoOf, RedoMarks
<1>5. Command(e, Put(db, "type", a, id), marks, {})  BY DEF ApplyType
<1> HIDE DEF e
<1> QED  BY <1>2, <1>3, <1>4, <1>5, TrackedStep

LEMMA AddBookmarkStep ==
  ASSUME IInv, NEW a \in Addr, AddBookmark(a)
  PROVE  IInv'
<1> DEFINE e == [op |-> "addMark", at |-> a, index |-> Len(marks) + 1]
<1>1. marks \in Seq(Addr) /\ Len(marks) + 1 \in Nat \ {0}  BY DEF IInv, Types
<1>2. e \in Entry  BY <1>1 DEF Entry
<1>3. Captured(e, Now, stained)  BY Lookup, TableNames DEF Captured
<1>4. RedoOf(e, db) = db /\ RedoMarks(e, marks) = Append(marks, a)
  BY DEF RedoOf, RedoMarks
<1>5. Command(e, db, Append(marks, a), {})  BY DEF AddBookmark
<1> HIDE DEF e
<1> QED  BY <1>2, <1>3, <1>4, <1>5, TrackedStep

LEMMA RemoveBookmarkStep ==
  ASSUME IInv, NEW i \in DOMAIN marks, RemoveBookmark(i)
  PROVE  IInv'
<1> DEFINE e == [op |-> "removeMark", at |-> marks[i], index |-> i]
<1>1. marks \in Seq(Addr)  BY DEF IInv, Types
<1>2. i \in 1..Len(marks) /\ marks[i] \in Addr /\ i \in Nat \ {0}  BY <1>1
<1>3. e \in Entry  BY <1>2 DEF Entry
<1>4. Captured(e, Now, stained)  BY <1>2, Lookup, TableNames DEF Captured
<1>5. RedoOf(e, db) = db /\ RedoMarks(e, marks) = RemoveAt(marks, i)
  BY <1>1, <1>2 DEF RedoOf, RedoMarks, EraseMark
<1>6. Command(e, db, RemoveAt(marks, i), {})  BY DEF RemoveBookmark
<1> HIDE DEF e
<1> QED  BY <1>3, <1>4, <1>5, <1>6, TrackedStep

(* Decoding again writes the listing of the address only.                  *)
LEMMA ForceCodeCell ==
  ASSUME NEW d \in Tables, NEW a \in Addr
  PROVE  /\ ForceCode(d, a) \in Tables
         /\ \A u \in Table, b \in Addr :
              <<u, b>> \notin Listing(a) => ForceCode(d, a)[u][b] = d[u][b]
<1> DEFINE x == Decode(d["byte"], a)
<1>1. d["byte"] \in [Addr -> Byte]
  <2>1. TablesOK(d)  BY TablesType
  <2> QED  BY <2>1, TableNames, Values DEF TablesOK
<1>2. x \in ValueOf("insn") /\ None \in ValueOf("item")
  BY <1>1, DecodeType, Values
<1>3. ForceCode(d, a) = IF x = None THEN d ELSE Put(Put(d, "insn", a, x), "item", a, None)
  BY DEF ForceCode
<1> HIDE DEF x
<1>4. /\ Put(Put(d, "insn", a, x), "item", a, None) \in Tables
      /\ \A u \in Table, b \in Addr :
           Put(Put(d, "insn", a, x), "item", a, None)[u][b] =
             IF u = "insn" /\ b = a THEN x
             ELSE IF u = "item" /\ b = a THEN None ELSE d[u][b]
  BY <1>2, PutTwice
<1> QED  BY <1>3, <1>4 DEF Listing

LEMMA NopStep ==
  ASSUME IInv, NEW a \in Addr, CmdNop(a)
  PROVE  IInv'
<1> DEFINE n == Len(InsnAt(a))
           Old(b) == IF b \in Addr THEN db["byte"][b] ELSE Nop
           bytes == [i \in 1..n |-> Old(a + i - 1)]
           e == [op |-> "nop", at |-> a, bytes |-> bytes]
           stain == Listing(a) \union (IF db["patch"][a] = 0 THEN {} ELSE {<<"patch", a>>})
           S == stained \union stain
           y0 == Redone(e, Now)
           y == [db |-> ForceCode(y0.db, a), marks |-> marks]
<1>1. Types /\ Now \in Moment /\ Now.db = db /\ Now.marks = marks  BY NowType DEF IInv
<1>2. InsnAt(a) \in InsnValue
  <2>1. InsnAt(a) # None  BY DEF CmdNop
  <2> QED  BY <2>1, Lookup, TableNames, Values DEF InsnAt
<1>3. n \in 1..Size  BY <1>2, InsnLength
<1>4. \A b \in Addr : db["byte"][b] \in Byte  BY Lookup, TableNames, Values
<1>5. bytes \in [1..n -> Byte]
  <2>1. \A b : Old(b) \in Byte  BY <1>4, EditAssumption
  <2> QED  BY <2>1
<1>6. Command(e, ForceCode(PatchNop(db, a, n), a), marks, stain)  BY DEF CmdNop
<1>7. /\ bytes \in InsnValue /\ Len(bytes) = n
      /\ \A b \in Addr : b \in a..(a + n - 1) => bytes[b - a + 1] = db["byte"][b]
  <2>1. bytes \in InsnValue
    <3>1. [1..n -> Byte] \in {[1..m -> Byte] : m \in 1..Size}  BY <1>3
    <3> QED  BY <1>5, <3>1 DEF InsnValue
  <2>2. Len(bytes) = n  BY <1>3, <1>5, EditAssumption
  <2>3. ASSUME NEW b \in Addr, b \in a..(a + n - 1)
        PROVE  bytes[b - a + 1] = db["byte"][b]
    <3>1. b - a + 1 \in 1..n /\ a + (b - a + 1) - 1 = b  BY <2>3, <1>3, EditAssumption DEF Addr
    <3> QED  BY <3>1
  <2> QED  BY <2>1, <2>2, <2>3
<1> HIDE DEF n, bytes
<1>8. e \in Entry  BY <1>7 DEF Entry
<1>9. e.op = "nop" /\ e.at = a /\ e.bytes = bytes  OBVIOUS
<1>10. stain \in SUBSET Cell /\ Listing(a) \subseteq S /\ stained \subseteq S
  BY TableNames DEF Listing, Cell
<1>11. db["patch"][a] = 0 \/ <<"patch", a>> \in S  OBVIOUS
<1> HIDE DEF e, stain
<1>12. Captured(e, Now, S)  BY <1>1, <1>7, <1>9, <1>11 DEF Captured
<1>13. Link(e, Now, y0, S)  BY <1>1, <1>8, <1>12, UndoInvertsRedo
<1>14. y0 \in Moment /\ y0.db = PatchNop(db, a, n) /\ y0.marks = marks
  <2>1. y0 \in Moment  BY <1>1, <1>8, ClosureTypes
  <2>2. y0.db = RedoOf(e, db) /\ y0.marks = RedoMarks(e, marks)  BY <1>1 DEF Redone
  <2>3. RedoOf(e, db) = PatchNop(db, a, n)  BY <1>7, <1>9 DEF RedoOf
  <2>4. RedoMarks(e, marks) = marks  BY <1>9 DEF RedoMarks
  <2> QED  BY <2>1, <2>2, <2>3, <2>4
<1>15. NoEmpty(y0.db, stained)
  <2>1. NoEmpty(RedoOf(e, db), stained)
    BY <1>1, <1>8, ClosuresNoEmpty DEF IInv, Types
  <2> QED  BY <1>1, <2>1 DEF Redone
<1> HIDE DEF y0
<1>16. y0.db \in Tables /\ y0.marks \in Seq(Addr)  BY <1>14 DEF Moment
<1>17. /\ ForceCode(y0.db, a) \in Tables
       /\ \A u \in Table, b \in Addr :
            <<u, b>> \notin Listing(a) => ForceCode(y0.db, a)[u][b] = y0.db[u][b]
  BY <1>16, ForceCodeCell
<1>18. y \in Moment /\ y.db = ForceCode(PatchNop(db, a, n), a) /\ y.marks = marks
  BY <1>14, <1>16, <1>17 DEF Moment
<1>19. Same(y0, y, S)  BY <1>10, <1>14, <1>17 DEF Same
<1>20. NoEmpty(y.db, S)
  <2>1. \A t \in {"name", "comment"}, b \in Addr : t \in Table /\ <<t, b>> \notin Listing(a)
    BY TableNames DEF Listing
  <2> QED  BY <1>10, <1>15, <1>17, <2>1 DEF NoEmpty
<1> HIDE DEF y, S
<1>21. Link(e, Now, y, S)
  <2>1. S \subseteq S  OBVIOUS
  <2> QED  BY <1>1, <1>8, <1>13, <1>14, <1>18, <1>19, <2>1, LinkAfter
<1>22. Command(e, y.db, y.marks, stain)  BY <1>6, <1>18
<1> QED  BY <1>8, <1>10, <1>18, <1>20, <1>21, <1>22, CommandStep DEF S
-----------------------------------------------------------------------------
(* Changes behind the undo stack.                                          *)

LEMMA ForceCodeStep ==
  ASSUME IInv, NEW a \in Addr, CmdForceCode(a)
  PROVE  IInv'
<1>1. db \in Tables /\ NoEmpty(db, stained)  BY DEF IInv, Types
<1>2. Untracked(ForceCode(db, a), Listing(a))  BY DEF CmdForceCode
<1>3. Listing(a) \in SUBSET Cell  BY TableNames DEF Listing, Cell
<1>4. /\ ForceCode(db, a) \in Tables
      /\ \A u \in Table, b \in Addr :
           <<u, b>> \notin Listing(a) => ForceCode(db, a)[u][b] = db[u][b]
  BY <1>1, ForceCodeCell
<1>5. \A t \in {"name", "comment"}, b \in Addr : t \in Table /\ <<t, b>> \notin Listing(a)
  BY TableNames DEF Listing
<1>6. NoEmpty(ForceCode(db, a), stained \union Listing(a))
  BY <1>1, <1>4, <1>5 DEF NoEmpty
<1> QED  BY <1>2, <1>3, <1>4, <1>6, UntrackedStep

(* Writing one cell and staining it.                                       *)
LEMMA UntrackedPut ==
  ASSUME IInv, NEW t \in Table, NEW a \in Addr, NEW v \in ValueOf(t),
         Untracked(Put(db, t, a, v), {<<t, a>>})
  PROVE  IInv'
<1>1. db \in Tables /\ NoEmpty(db, stained)  BY DEF IInv, Types
<1>2. {<<t, a>>} \in SUBSET Cell  BY DEF Cell
<1>3. /\ Put(db, t, a, v) \in Tables
      /\ \A u \in Table, b \in Addr :
           Put(db, t, a, v)[u][b] = IF u = t /\ b = a THEN v ELSE db[u][b]
  BY <1>1, PutCell
<1>4. \A u \in Table, b \in Addr :
        <<u, b>> \notin {<<t, a>>} => Put(db, t, a, v)[u][b] = db[u][b]
  BY <1>3
<1>5. NoEmpty(Put(db, t, a, v), stained \union {<<t, a>>})
  BY <1>1, <1>4, TableNames DEF NoEmpty
<1> QED  BY <1>2, <1>3, <1>4, <1>5, UntrackedStep

LEMMA HexEditStep ==
  ASSUME IInv, NEW a \in Addr, NEW b \in Byte, HexEdit(a, b)
  PROVE  IInv'
BY UntrackedPut, TableNames, Values DEF HexEdit

LEMMA ScriptSetTextStep ==
  ASSUME IInv, NEW t \in {"name", "comment"}, NEW a \in Addr, NEW text \in Text,
         ScriptSetText(t, a, text)
  PROVE  IInv'
<1>1. t \in Table /\ text \in ValueOf(t)  BY TableNames, Values
<1> QED  BY <1>1, UntrackedPut DEF ScriptSetText

LEMMA HexNopStep ==
  ASSUME IInv, NEW lo \in Addr, NEW hi \in Addr, HexNopSelection(lo, hi)
  PROVE  IInv'
<1> DEFINE n == hi - lo + 1  s == [i \in 1..n |-> Nop]  stain == {"byte"} \X (lo..hi)
<1>1. db \in Tables /\ NoEmpty(db, stained)  BY DEF IInv, Types
<1>2. lo < hi /\ Untracked(Blit(db, lo, s), stain)  BY DEF HexNopSelection
<1>3. n \in 0..Size /\ s \in [1..n -> Byte] /\ lo + n - 1 = hi
  <2>1. lo < hi /\ lo \in 1..Size /\ hi \in 1..Size /\ Size \in Nat
    BY <1>2, EditAssumption DEF Addr
  <2>2. n \in 0..Size /\ lo + n - 1 = hi  BY <2>1
  <2>3. s \in [1..n -> Byte]  BY EditAssumption
  <2> QED  BY <2>2, <2>3
<1>4. stain \in SUBSET Cell
  <2>1. lo..hi \subseteq Addr  BY EditAssumption DEF Addr
  <2> QED  BY <2>1, TableNames DEF Cell
<1>5. "name" # "byte" /\ "comment" # "byte"  OBVIOUS
<1>6. \A u, b : <<u, b>> \in stain <=> u = "byte" /\ b \in lo..hi  OBVIOUS
<1> HIDE DEF n, s, stain
<1>7. /\ Blit(db, lo, s) \in Tables
      /\ \A u \in Table, b \in Addr :
           Blit(db, lo, s)[u][b] =
             IF u = "byte" /\ b \in lo..(lo + n - 1) THEN s[b - lo + 1] ELSE db[u][b]
  BY <1>1, <1>3, BlitCell
<1>8. \A u \in Table, b \in Addr :
        <<u, b>> \notin stain => Blit(db, lo, s)[u][b] = db[u][b]
  BY <1>3, <1>6, <1>7
<1>9. NoEmpty(Blit(db, lo, s), stained \union stain)
  BY <1>1, <1>5, <1>7, TableNames DEF NoEmpty
<1> QED  BY <1>2, <1>4, <1>7, <1>8, <1>9, UntrackedStep

LEMMA CreateFuncStep ==
  ASSUME IInv, NEW a \in Addr, NEW name \in Text \ {Empty}, CreateFunc(a, name)
  PROVE  IInv'
<1> DEFINE d1 == Put(db, "func", a, 1)  d2 == Put(d1, "name", a, name)
           stain == {<<"func", a>>, <<"name", a>>}
<1>1. db \in Tables /\ NoEmpty(db, stained)  BY DEF IInv, Types
<1>2. Untracked(d2, stain)  BY DEF CreateFunc
<1>3. 1 \in ValueOf("func") /\ name \in ValueOf("name")  BY Values
<1>4. /\ d1 \in Tables
      /\ \A u \in Table, b \in Addr : d1[u][b] = IF u = "func" /\ b = a THEN 1 ELSE db[u][b]
  BY <1>1, <1>3, PutCell, TableNames
<1> HIDE DEF d1
<1>5. /\ d2 \in Tables
      /\ \A u \in Table, b \in Addr : d2[u][b] = IF u = "name" /\ b = a THEN name ELSE d1[u][b]
  BY <1>3, <1>4, PutCell, TableNames
<1>6. stain \in SUBSET Cell  BY TableNames DEF Cell
<1> HIDE DEF d2
<1>7. \A u \in Table, b \in Addr : <<u, b>> \notin stain => d2[u][b] = db[u][b]
  BY <1>4, <1>5
<1>8. NoEmpty(d2, stained \union stain)
  BY <1>1, <1>7, TableNames DEF NoEmpty
<1> QED  BY <1>2, <1>5, <1>6, <1>7, <1>8, UntrackedStep
-----------------------------------------------------------------------------
(* The invariant is inductive.                                             *)

LEMMA InitInv ==
  ASSUME Init  PROVE  IInv
<1>1. db \in Tables /\ NoEmpty(db, stained)
  <2>1. \A a \in Addr : Decode(File, a) \in ValueOf("insn")
    BY DecodeType, EditAssumption
  <2>2. DOMAIN db = Table /\ db \in [Table -> {db[t] : t \in Table}]  BY DEF Init
  <2>3. /\ db["byte"] = File
        /\ db["insn"] = [a \in Addr |-> IF a \in Code THEN Decode(File, a) ELSE None]
        /\ \A t \in {"patch", "hex", "func"} : db[t] = [a \in Addr |-> 0]
        /\ \A t \in {"item", "name", "comment", "type"} : db[t] = [a \in Addr |-> None]
    BY TableNames DEF Init
  <2>4. ASSUME NEW t \in Table  PROVE  db[t] \in [Addr -> ValueOf(t)]
    <3>1. CASE t = "byte"  BY <3>1, <2>3, Values, EditAssumption
    <3>2. CASE t = "insn"  BY <3>2, <2>1, <2>3, Values
    <3>3. CASE t \in {"patch", "hex", "func"}
      <4>1. 0 \in ValueOf(t)  BY <3>3, Values, EditAssumption
      <4> QED  BY <3>3, <2>3, <4>1
    <3>4. CASE t \in {"item", "name", "comment", "type"}
      <4>1. None \in ValueOf(t)  BY <3>4, Values
      <4> QED  BY <3>4, <2>3, <4>1
    <3> QED  BY <3>1, <3>2, <3>3, <3>4 DEF Table
  <2>5. \A t \in Table : ValueOf(t) \subseteq AnyValue  BY DEF AnyValue
  <2>6. \A t \in Table : db[t] \in [Addr -> AnyValue]  BY <2>4, <2>5
  <2>7. db \in [Table -> [Addr -> AnyValue]]  BY <2>2, <2>6
  <2>8. db \in Tables  BY <2>4, <2>7 DEF Tables
  <2>9. NoEmpty(db, stained)  BY <2>3, EditAssumption DEF NoEmpty
  <2> QED  BY <2>8, <2>9
<1>2. Types  BY <1>1, EditAssumption DEF Init, Types
<1>3. BackLinks /\ FwdLinks  BY DEF Init, BackLinks, FwdLinks
<1> QED  BY <1>1, <1>2, <1>3 DEF IInv

LEMMA CommandAtStep ==
  ASSUME IInv, NEW a \in Addr, CommandAt(a)
  PROVE  IInv'
<1>1. CASE CmdDefineData(a)
  <2> DEFINE s == IF ItemAt(a) = None THEN "byte" ELSE NextSize[ItemAt(a).size]
  <2>1. ItemAt(a) \in Item \union {None}  BY Lookup, TableNames, Values DEF ItemAt
  <2>2. s \in DataSize
    <3>1. CASE ItemAt(a) = None  BY <3>1 DEF DataSize
    <3>2. CASE ItemAt(a) # None
      <4>1. ItemAt(a).size \in DataSize  BY <2>1, <3>2 DEF Item
      <4> QED  BY <3>2, <4>1 DEF DataSize, NextSize
    <3> QED  BY <3>1, <3>2
  <2>3. CmdDefine(a, Raw(s))  BY <1>1 DEF CmdDefineData
  <2> HIDE DEF s
  <2>4. Raw(s) \in Item  BY <2>2 DEF Raw, Item
  <2> QED  BY <2>3, <2>4, DefineStep
<1>2. CASE CmdDefineString(a)
  <2>1. String \in Item  BY DEF String, Item, DataSize
  <2> QED  BY <1>2, <2>1, DefineStep DEF CmdDefineString
<1>3. CASE CmdUndefine(a)  BY <1>3, UndefineStep
<1>4. CASE CmdToggleHex(a)  BY <1>4, ToggleHexStep
<1>5. CASE CmdNop(a)  BY <1>5, NopStep
<1>6. CASE \E text \in Text : Rename(a, text) \/ Comment(a, text)
  BY <1>6, TextStep DEF Rename, Comment
<1>7. CASE \E id \in TypeId : ApplyType(a, id)  BY <1>7, TypeStep
<1>8. CASE RemoveType(a)  BY <1>8, TypeStep DEF RemoveType
<1>9. CASE AddBookmark(a)  BY <1>9, AddBookmarkStep
<1> QED  BY <1>1, <1>2, <1>3, <1>4, <1>5, <1>6, <1>7, <1>8, <1>9 DEF CommandAt

LEMMA UntrackedAtStep ==
  ASSUME IInv, NEW a \in Addr, UntrackedAt(a)
  PROVE  IInv'
<1>1. CASE CmdForceCode(a)  BY <1>1, ForceCodeStep
<1>2. CASE \E b \in Byte : HexEdit(a, b)  BY <1>2, HexEditStep
<1>3. CASE \E hi \in Addr : HexNopSelection(a, hi)  BY <1>3, HexNopStep
<1>4. CASE \E name \in Text \ {Empty} : CreateFunc(a, name)  BY <1>4, CreateFuncStep
<1>5. CASE \E t \in {"name", "comment"}, text \in Text : ScriptSetText(t, a, text)
  BY <1>5, ScriptSetTextStep
<1> QED  BY <1>1, <1>2, <1>3, <1>4, <1>5 DEF UntrackedAt

LEMMA NextInv ==
  ASSUME IInv, [Next]_vars  PROVE  IInv'
<1>1. CASE \E a \in Addr : CommandAt(a)  BY <1>1, CommandAtStep
<1>2. CASE \E a \in Addr : UntrackedAt(a)  BY <1>2, UntrackedAtStep
<1>3. CASE \E i \in DOMAIN marks : RemoveBookmark(i)  BY <1>3, RemoveBookmarkStep
<1>4. CASE Undo  BY <1>4, UndoStep
<1>5. CASE Redo  BY <1>5, RedoStep
<1>6. CASE UNCHANGED vars
  BY <1>6 DEF vars, IInv, Types, NoEmpty, BackLinks, FwdLinks, Now
<1> QED  BY <1>1, <1>2, <1>3, <1>4, <1>5, <1>6 DEF Next

(* Every state of a behaviour is on an unbroken timeline.                  *)
THEOREM TimelineHolds == Spec => []IInv
BY InitInv, NextInv, PTL DEF Spec

(* The tables, the stacks and the histories have their types; the two      *)
(* stacks hold at most the cap (TypeOK of the run).                        *)
THEOREM TypeCorrect == Spec => []TypeOK
<1>1. ASSUME IInv  PROVE  TypeOK
  <2>1. Types /\ TablesOK(db)  BY <1>1, TablesType DEF IInv, Types
  <2>2. Len(undoStack) <= Cap  BY <2>1, EditAssumption DEF Types
  <2> QED  BY <2>1, <2>2 DEF Types, TypeOK
<1> QED  BY <1>1, TimelineHolds, PTL

(* Ctrl+Z restores the tables and the bookmarks as they were before the     *)
(* command of undo.h it undoes, but for the stained cells.                 *)
THEOREM UndoExact == Spec => UndoRestores
<1>1. ASSUME IInv, Undo
      PROVE  SameDb(db', Last(past).db) /\ marks' = Last(past).marks
  <2>1. Same(Now', Last(past), stained)  BY <1>1, UndoResult
  <2>2. Now'.db = db' /\ Now'.marks = marks'  BY DEF Now
  <2> QED  BY <2>1, <2>2 DEF Same, SameDb
<1>2. IInv => [Undo => SameDb(db', Last(past).db) /\ marks' = Last(past).marks]_vars
  BY <1>1
<1> QED  BY <1>2, TimelineHolds, PTL DEF UndoRestores

(* Ctrl+Y leads back to the state the Ctrl+Z started from, but for the      *)
(* stained cells.                                                          *)
THEOREM RedoExact == Spec => RedoRepeats
<1>1. ASSUME IInv, Redo
      PROVE  /\ future # <<>>
             /\ SameDb(db', Last(future).db) /\ marks' = Last(future).marks
  <2>0. future # <<>>
    <3>1. redoStack # <<>> /\ redoStack \in Seq(Entry) /\ Len(future) = Len(redoStack)
      BY <1>1 DEF IInv, Types, Redo
    <3> QED  BY <3>1
  <2>1. Same(Now', Last(future), stained)  BY <1>1, RedoResult
  <2>2. Now'.db = db' /\ Now'.marks = marks'  BY DEF Now
  <2> QED  BY <2>0, <2>1, <2>2 DEF Same, SameDb
<1>2. IInv => [Redo => /\ future # <<>>
                       /\ SameDb(db', Last(future).db) /\ marks' = Last(future).marks]_vars
  BY <1>1
<1> QED  BY <1>2, TimelineHolds, PTL DEF RedoRepeats
-----------------------------------------------------------------------------
(* Code or data: not only now, but at every moment of the timeline, because *)
(* undo and redo may bring any of them back.                               *)

Apart(d, S) ==
  \A a \in Addr : Listing(a) \intersect S = {} => d["insn"][a] = None \/ d["item"][a] = None

AllApart ==
  /\ Apart(db, stained)
  /\ \A i \in 1..Len(past) : Apart(past[i].db, stained)
  /\ \A j \in 1..Len(future) : Apart(future[j].db, stained)

(* What keeps the listing of an address, or leaves no instruction there.    *)
LEMMA ApartKept ==
  ASSUME NEW d1, NEW d2, NEW S, NEW T, S \subseteq T, Apart(d1, S),
         \A a \in Addr : Listing(a) \intersect T = {} =>
            \/ d2["insn"][a] = d1["insn"][a] /\ d2["item"][a] = d1["item"][a]
            \/ d2["insn"][a] = None
  PROVE  Apart(d2, T)
<1> SUFFICES ASSUME NEW a \in Addr, Listing(a) \intersect T = {}
             PROVE  d2["insn"][a] = None \/ d2["item"][a] = None
  BY DEF Apart
<1>1. Listing(a) \intersect S = {}
  OBVIOUS
<1>2. d1["insn"][a] = None \/ d1["item"][a] = None
  BY <1>1 DEF Apart
<1> QED  BY <1>2

LEMMA ApartSame ==
  ASSUME NEW x, NEW y, NEW S, Same(x, y, S), Apart(x.db, S)
  PROVE  Apart(y.db, S)
<1>1. ASSUME NEW a \in Addr, Listing(a) \intersect S = {}
      PROVE  y.db["insn"][a] = x.db["insn"][a] /\ y.db["item"][a] = x.db["item"][a]
  <2>1. <<"insn", a>> \notin S /\ <<"item", a>> \notin S
    BY <1>1 DEF Listing
  <2> QED  BY <2>1, TableNames DEF Same
<1> QED  BY <1>1, ApartKept

(* A command, and a change behind the stack, that leave the tables apart.   *)
LEMMA CommandApart ==
  ASSUME IInv, AllApart, NEW e, NEW d, NEW m, NEW stain, Command(e, d, m, stain),
         \A a \in Addr : Listing(a) \intersect stain = {} =>
            \/ d["insn"][a] = db["insn"][a] /\ d["item"][a] = db["item"][a]
            \/ d["insn"][a] = None
  PROVE  AllApart'
<1>1. /\ db' = d /\ stained' = stained \union stain
      /\ past' = DropFirst(Append(past, Now)) /\ future' = <<>>
  BY DEF Command
<1>2. Types /\ Now \in Moment /\ Now.db = db
  BY NowType DEF IInv
<1>3. past \in Seq(Moment) /\ Len(past) \in Nat /\ Cap \in Nat
  BY <1>2, EditAssumption DEF Types
<1>4. Pushed(past, Now, past')
  BY <1>1, <1>2, <1>3, DropFirstSeq
<1>5. Apart(db', stained')
  <2>1. ASSUME NEW a \in Addr, Listing(a) \intersect stained' = {}
        PROVE  Listing(a) \intersect stain = {}
    BY <1>1, <2>1
  <2> QED  BY <1>1, <2>1, ApartKept DEF AllApart
<1>6. \A x : Apart(x, stained) => Apart(x, stained')
  <2>1. stained \subseteq stained'
    BY <1>1
  <2> QED  BY <2>1, ApartKept
<1>7. ASSUME NEW i \in 1..Len(past') PROVE Apart(past'[i].db, stained')
  <2>1. \A k \in 1..Len(past) : Apart(past[k].db, stained')
    BY <1>6 DEF AllApart
  <2>2. Apart(Now.db, stained')
    BY <1>2, <1>6 DEF AllApart
  <2>3. CASE Len(past) + 1 > Cap
    <3>1. i \in 1..Len(past) /\ past'[i] = IF i = Len(past) THEN Now ELSE past[i + 1]
      BY <1>4, <2>3 DEF Pushed
    <3>2. i # Len(past) => i + 1 \in 1..Len(past)
      BY <1>3, <3>1
    <3> QED  BY <2>1, <2>2, <3>1, <3>2
  <2>4. CASE Len(past) + 1 <= Cap
    <3>1. i \in 1..(Len(past) + 1) /\ past'[i] = IF i = Len(past) + 1 THEN Now ELSE past[i]
      BY <1>4, <2>4 DEF Pushed
    <3>2. i # Len(past) + 1 => i \in 1..Len(past)
      BY <1>3, <3>1
    <3> QED  BY <2>1, <2>2, <3>1, <3>2
  <2> QED  BY <1>3, <2>3, <2>4
<1>8. Len(future') = 0
  BY <1>1, EmptySeq
<1> QED  BY <1>5, <1>7, <1>8 DEF AllApart

LEMMA UntrackedApart ==
  ASSUME AllApart, NEW d, NEW stain, Untracked(d, stain),
         \A a \in Addr : Listing(a) \intersect stain = {} =>
            d["insn"][a] = db["insn"][a] /\ d["item"][a] = db["item"][a]
  PROVE  AllApart'
<1>1. db' = d /\ stained' = stained \union stain /\ UNCHANGED <<past, future>>
  BY DEF Untracked
<1>2. stained \subseteq stained' /\ stain \subseteq stained'
  BY <1>1
<1>3. \A x : Apart(x, stained) => Apart(x, stained')
  BY <1>2, ApartKept
<1>4. ASSUME NEW a \in Addr, Listing(a) \intersect stained' = {}
      PROVE  d["insn"][a] = db["insn"][a] /\ d["item"][a] = db["item"][a]
  BY <1>2, <1>4
<1>5. Apart(db', stained')
  BY <1>1, <1>2, <1>4, ApartKept DEF AllApart
<1> QED  BY <1>1, <1>3, <1>5 DEF AllApart

LEMMA CommandAtApart ==
  ASSUME IInv, AllApart, NEW a \in Addr, CommandAt(a)
  PROVE  AllApart'
<1>0. db \in Tables /\ db["item"][a] \in Item \union {None} /\ db["insn"][a] \in InsnValue \union {None}
  BY Lookup, TableNames, Values DEF IInv, Types
<1>1. ASSUME NEW item \in Item, CmdDefine(a, item) PROVE AllApart'
  <2>1. None \in ValueOf("insn") /\ item \in ValueOf("item")
    BY Values
  <2>2. \A b \in Addr : \/ Define(db, a, item)["insn"][b] = None
                        \/ /\ Define(db, a, item)["insn"][b] = db["insn"][b]
                           /\ Define(db, a, item)["item"][b] = db["item"][b]
    BY <1>0, <2>1, PutTwice, TableNames DEF Define
  <2> QED  BY <1>1, <2>2, CommandApart DEF CmdDefine
<1>2. CASE CmdDefineData(a)
  <2> DEFINE s == IF ItemAt(a) = None THEN "byte" ELSE NextSize[ItemAt(a).size]
  <2>1. s \in DataSize
    <3>1. ItemAt(a) # None => ItemAt(a).size \in DataSize
      BY <1>0 DEF Item, ItemAt
    <3> QED  BY <3>1 DEF DataSize, NextSize
  <2>2. CmdDefine(a, Raw(s))
    BY <1>2 DEF CmdDefineData
  <2> HIDE DEF s
  <2>3. Raw(s) \in Item
    BY <2>1 DEF Raw, Item
  <2> QED  BY <1>1, <2>2, <2>3
<1>3. CASE CmdDefineString(a)
  <2>1. String \in Item
    BY DEF String, Item, DataSize
  <2> QED  BY <1>1, <1>3, <2>1 DEF CmdDefineString
<1>4. CASE CmdUndefine(a)
  <2>1. None \in ValueOf("insn") /\ None \in ValueOf("item")
    BY Values
  <2>2. \A b \in Addr : \/ Undefine(db, a)["insn"][b] = None
                        \/ /\ Undefine(db, a)["insn"][b] = db["insn"][b]
                           /\ Undefine(db, a)["item"][b] = db["item"][b]
    BY <1>0, <2>1, PutTwice, TableNames DEF Undefine
  <2> QED  BY <1>4, <2>2, CommandApart DEF CmdUndefine
<1>5. CASE CmdToggleHex(a)
  <2>1. \A b \in Addr : /\ ToggleHex(db, a)["insn"][b] = db["insn"][b]
                        /\ ToggleHex(db, a)["item"][b] = db["item"][b]
    BY <1>0, ToggleHexCell, TableNames
  <2> QED  BY <1>5, <2>1, CommandApart DEF CmdToggleHex
<1>6. CASE CmdNop(a)
  <2> DEFINE n == Len(InsnAt(a))
             stain == Listing(a) \union (IF db["patch"][a] = 0 THEN {} ELSE {<<"patch", a>>})
             d == PatchNop(db, a, n)
  <2>1. n \in 1..Size
    <3>1. InsnAt(a) \in InsnValue
      BY <1>0, <1>6 DEF CmdNop, InsnAt
    <3> QED  BY <3>1, InsnLength
  <2>2. \E e : Command(e, ForceCode(d, a), marks, stain)
    BY <1>6 DEF CmdNop
  <2> HIDE DEF n
  <2>3. /\ d \in Tables
        /\ \A b \in Addr : d["insn"][b] = db["insn"][b] /\ d["item"][b] = db["item"][b]
    BY <1>0, <2>1, PatchNopCell, TableNames
  <2> HIDE DEF d
  <2>4. \A u \in Table, b \in Addr : <<u, b>> \notin Listing(a) => ForceCode(d, a)[u][b] = d[u][b]
    BY <2>3, ForceCodeCell
  <2>5. ASSUME NEW b \in Addr, Listing(b) \intersect stain = {}
        PROVE  ForceCode(d, a)["insn"][b] = db["insn"][b] /\ ForceCode(d, a)["item"][b] = db["item"][b]
    <3>1. <<"insn", b>> \notin Listing(a) /\ <<"item", b>> \notin Listing(a)
      BY <2>5 DEF Listing
    <3> QED  BY <2>3, <2>4, <3>1, TableNames
  <2> HIDE DEF stain
  <2> QED  BY <2>2, <2>5, CommandApart
<1>7. ASSUME NEW t \in {"name", "comment"}, NEW text \in Text, PutTextCmd(t, a, text) PROVE AllApart'
  <2>1. \A b \in Addr : /\ PutText(db, t, a, text)["insn"][b] = db["insn"][b]
                        /\ PutText(db, t, a, text)["item"][b] = db["item"][b]
    BY <1>0, PutTextCell, TableNames
  <2> QED  BY <1>7, <2>1, CommandApart DEF PutTextCmd
<1>8. ASSUME NEW id \in TypeId \union {None}, ApplyType(a, id) PROVE AllApart'
  <2>1. id \in ValueOf("type")
    BY Values
  <2>2. \A b \in Addr : /\ Put(db, "type", a, id)["insn"][b] = db["insn"][b]
                        /\ Put(db, "type", a, id)["item"][b] = db["item"][b]
    BY <1>0, <2>1, PutCell, TableNames
  <2> QED  BY <1>8, <2>2, CommandApart DEF ApplyType
<1>9. CASE AddBookmark(a)
  BY <1>9, CommandApart DEF AddBookmark
<1> QED  BY <1>2, <1>3, <1>4, <1>5, <1>6, <1>7, <1>8, <1>9 DEF CommandAt, Rename, Comment, RemoveType

LEMMA UntrackedAtApart ==
  ASSUME IInv, AllApart, NEW a \in Addr, UntrackedAt(a)
  PROVE  AllApart'
<1>0. db \in Tables
  BY DEF IInv, Types
<1>1. CASE CmdForceCode(a)
  <2>1. \A u \in Table, b \in Addr : <<u, b>> \notin Listing(a) => ForceCode(db, a)[u][b] = db[u][b]
    BY <1>0, ForceCodeCell
  <2>2. ASSUME NEW b \in Addr, Listing(b) \intersect Listing(a) = {}
        PROVE  ForceCode(db, a)["insn"][b] = db["insn"][b] /\ ForceCode(db, a)["item"][b] = db["item"][b]
    <3>1. <<"insn", b>> \notin Listing(a) /\ <<"item", b>> \notin Listing(a)
      BY <2>2 DEF Listing
    <3> QED  BY <2>1, <3>1, TableNames
  <2> QED  BY <1>1, <2>2, UntrackedApart DEF CmdForceCode
<1>2. ASSUME NEW t \in {"byte", "name", "comment"}, NEW v \in ValueOf(t), Untracked(Put(db, t, a, v), {<<t, a>>})
      PROVE  AllApart'
  <2>1. \A b \in Addr : /\ Put(db, t, a, v)["insn"][b] = db["insn"][b]
                        /\ Put(db, t, a, v)["item"][b] = db["item"][b]
    BY <1>0, PutCell, TableNames
  <2> QED  BY <1>2, <2>1, UntrackedApart
<1>3. CASE \E b \in Byte : HexEdit(a, b)
  BY <1>2, <1>3, Values DEF HexEdit
<1>4. CASE \E t \in {"name", "comment"}, text \in Text : ScriptSetText(t, a, text)
  BY <1>2, <1>4, Values DEF ScriptSetText
<1>5. ASSUME NEW hi \in Addr, HexNopSelection(a, hi) PROVE AllApart'
  <2> DEFINE n == hi - a + 1  s == [i \in 1..n |-> Nop]
  <2>1. a < hi /\ Untracked(Blit(db, a, s), {"byte"} \X (a..hi))
    BY <1>5 DEF HexNopSelection
  <2>2. n \in 0..Size
    BY <2>1, EditAssumption DEF Addr
  <2>3. s \in [1..n -> Byte]
    BY EditAssumption
  <2> HIDE DEF s, n
  <2>4. \A b \in Addr : Blit(db, a, s)["insn"][b] = db["insn"][b] /\ Blit(db, a, s)["item"][b] = db["item"][b]
    BY <1>0, <2>2, <2>3, BlitCell, TableNames
  <2> QED  BY <2>1, <2>4, UntrackedApart
<1>6. ASSUME NEW name \in Text \ {Empty}, CreateFunc(a, name) PROVE AllApart'
  <2> DEFINE d1 == Put(db, "func", a, 1)  d2 == Put(d1, "name", a, name)
  <2>1. 1 \in ValueOf("func") /\ name \in ValueOf("name")
    BY Values
  <2>2. Untracked(d2, {<<"func", a>>, <<"name", a>>})
    BY <1>6 DEF CreateFunc
  <2>3. d1 \in Tables /\ \A b \in Addr : d1["insn"][b] = db["insn"][b] /\ d1["item"][b] = db["item"][b]
    BY <1>0, <2>1, PutCell, TableNames
  <2> HIDE DEF d1
  <2>4. \A b \in Addr : d2["insn"][b] = db["insn"][b] /\ d2["item"][b] = db["item"][b]
    BY <2>1, <2>3, PutCell, TableNames
  <2> HIDE DEF d2
  <2> QED  BY <2>2, <2>4, UntrackedApart
<1> QED  BY <1>1, <1>3, <1>4, <1>5, <1>6 DEF UntrackedAt

LEMMA UndoApart ==
  ASSUME IInv, AllApart, Undo
  PROVE  AllApart'
<1>1. /\ undoStack # <<>> /\ past' = Front(past) /\ future' = Append(future, Now)
      /\ stained' = stained
  BY DEF Undo
<1>2. /\ Types /\ Now \in Moment /\ Now.db = db
      /\ past \in Seq(Moment) /\ future \in Seq(Moment) /\ Len(past) \in Nat /\ Len(future) \in Nat
  BY NowType DEF IInv, Types
<1>3. Len(past) \in 1..Len(past) /\ Last(past) = past[Len(past)]
  BY <1>1, <1>2, LastLink DEF Types
<1>4. Apart(db', stained)
  <2>1. Same(Last(past), Now', stained)
    BY UndoResult DEF Same
  <2>2. Apart(Last(past).db, stained)
    BY <1>3 DEF AllApart
  <2>3. Now'.db = db'
    BY DEF Now
  <2> QED  BY <2>1, <2>2, <2>3, ApartSame
<1>5. ASSUME NEW i \in 1..Len(past') PROVE Apart(past'[i].db, stained)
  <2>1. Len(past') = Len(past) - 1 /\ \A k \in 1..(Len(past) - 1) : past'[k] = past[k]
    <3>1. past # <<>>
      BY <1>3
    <3> QED  BY <1>1, <1>2, <3>1, FrontSeq
  <2>2. i \in 1..Len(past) /\ past'[i] = past[i]
    BY <1>2, <2>1
  <2> QED  BY <2>2 DEF AllApart
<1>6. ASSUME NEW j \in 1..Len(future') PROVE Apart(future'[j].db, stained)
  <2>1. Len(future') = Len(future) + 1 /\ future'[j] = IF j = Len(future) + 1 THEN Now ELSE future[j]
    BY <1>1, <1>2
  <2>2. j # Len(future) + 1 => j \in 1..Len(future)
    BY <1>2, <2>1
  <2> QED  BY <1>2, <2>1, <2>2 DEF AllApart
<1> QED  BY <1>1, <1>4, <1>5, <1>6 DEF AllApart

LEMMA RedoApart ==
  ASSUME IInv, AllApart, Redo
  PROVE  AllApart'
<1>1. /\ redoStack # <<>> /\ future' = Front(future) /\ past' = Append(past, Now)
      /\ stained' = stained
  BY DEF Redo
<1>2. /\ Types /\ Now \in Moment /\ Now.db = db
      /\ past \in Seq(Moment) /\ future \in Seq(Moment) /\ Len(past) \in Nat /\ Len(future) \in Nat
  BY NowType DEF IInv, Types
<1>3. Len(future) \in 1..Len(future) /\ Last(future) = future[Len(future)]
  BY <1>1, <1>2, LastRedoLink DEF Types
<1>4. Apart(db', stained)
  <2>1. Same(Last(future), Now', stained)
    BY RedoResult DEF Same
  <2>2. Apart(Last(future).db, stained)
    BY <1>3 DEF AllApart
  <2>3. Now'.db = db'
    BY DEF Now
  <2> QED  BY <2>1, <2>2, <2>3, ApartSame
<1>5. ASSUME NEW j \in 1..Len(future') PROVE Apart(future'[j].db, stained)
  <2>1. Len(future') = Len(future) - 1 /\ \A k \in 1..(Len(future) - 1) : future'[k] = future[k]
    <3>1. future # <<>>
      BY <1>3
    <3> QED  BY <1>1, <1>2, <3>1, FrontSeq
  <2>2. j \in 1..Len(future) /\ future'[j] = future[j]
    BY <1>2, <2>1
  <2> QED  BY <2>2 DEF AllApart
<1>6. ASSUME NEW i \in 1..Len(past') PROVE Apart(past'[i].db, stained)
  <2>1. Len(past') = Len(past) + 1 /\ past'[i] = IF i = Len(past) + 1 THEN Now ELSE past[i]
    BY <1>1, <1>2
  <2>2. i # Len(past) + 1 => i \in 1..Len(past)
    BY <1>2, <2>1
  <2> QED  BY <1>2, <2>1, <2>2 DEF AllApart
<1> QED  BY <1>1, <1>4, <1>5, <1>6 DEF AllApart

LEMMA AllApartHolds == Spec => []AllApart
<1>1. Init => AllApart
  <2> SUFFICES ASSUME Init PROVE AllApart
    OBVIOUS
  <2>1. Len(past) = 0 /\ Len(future) = 0
    BY EmptySeq DEF Init
  <2>2. db["item"] = [a \in Addr |-> None]
    BY TableNames DEF Init
  <2> QED  BY <2>1, <2>2 DEF AllApart, Apart
<1>2. ASSUME IInv, AllApart, [Next]_vars PROVE AllApart'
  <2>1. ASSUME NEW a \in Addr, CommandAt(a) PROVE AllApart'
    BY <1>2, <2>1, CommandAtApart
  <2>2. ASSUME NEW a \in Addr, UntrackedAt(a) PROVE AllApart'
    BY <1>2, <2>2, UntrackedAtApart
  <2>3. ASSUME NEW i \in DOMAIN marks, RemoveBookmark(i) PROVE AllApart'
    BY <1>2, <2>3, CommandApart DEF RemoveBookmark
  <2>4. CASE Undo
    BY <1>2, <2>4, UndoApart
  <2>5. CASE Redo
    BY <1>2, <2>5, RedoApart
  <2>6. CASE UNCHANGED vars
    BY <1>2, <2>6 DEF vars, AllApart, Apart
  <2> QED  BY <1>2, <2>1, <2>2, <2>3, <2>4, <2>5, <2>6 DEF Next
<1>3. IInv /\ AllApart /\ [Next]_vars => AllApart'
  BY <1>2
<1> QED  BY <1>1, <1>3, TimelineHolds, PTL DEF Spec

(* No address is listed as an instruction and as data at once, through any  *)
(* number of commands, undos and redos, unless force_code or a NOP listed   *)
(* it anew behind the undo stack.                                          *)
THEOREM NeverBoth == Spec => []CodeOrData
<1>1. AllApart => CodeOrData
  BY DEF AllApart, Apart, CodeOrData, InsnAt, ItemAt
<1> QED  BY <1>1, AllApartHolds, PTL
-----------------------------------------------------------------------------
(* What a patch covers is a NOP, at present and before each command that can *)
(* be undone.  Two facts carry it through an undo: no instruction, listed or *)
(* captured, ends past the segment, and from one state to the next a patch   *)
(* is kept or forgotten, unless the command between them is a NOP there.     *)

Fits(d) ==
  \A a \in Addr : /\ d["insn"][a] # None => a + Len(d["insn"][a]) - 1 <= Size
                  /\ a + d["patch"][a] - 1 <= Size

EntryFits(e) ==
  /\ e.op \in {"define", "undefine"} /\ e.insn # None => e.at + Len(e.insn) - 1 <= Size
  /\ e.op = "nop" => e.at + Len(e.bytes) - 1 <= Size

Covered(d, S) ==
  \A a, b \in Addr :
    b \in a..(a + d["patch"][a] - 1) /\ <<"byte", b>> \notin S => d["byte"][b] = Nop

KeptOrForgotten(e, d1, d2) ==
  \A a \in Addr : \/ e.op = "nop" /\ e.at = a
                  \/ d2["patch"][a] = 0 \/ d2["patch"][a] = d1["patch"][a]

AllFit ==
  /\ Fits(db)
  /\ \A i \in 1..Len(undoStack) : EntryFits(undoStack[i])
  /\ \A j \in 1..Len(redoStack) : EntryFits(redoStack[j])

AllCovered ==
  /\ Covered(db, stained)
  /\ \A i \in 1..Len(past) : Covered(past[i].db, stained)
  /\ \A i \in 1..Len(past) :
       KeptOrForgotten(undoStack[i], past[i].db, IF i = Len(past) THEN db ELSE past[i + 1].db)

Patched == AllFit /\ AllCovered

LEMMA CoveredMono ==
  ASSUME NEW d, NEW S, NEW T, S \subseteq T, Covered(d, S)
  PROVE  Covered(d, T)
BY DEF Covered

(* A patch that is there is one of the state before.                       *)
LEMMA KeptTwice ==
  ASSUME NEW d1, NEW d2, NEW d3, NEW e1, NEW e2,
         KeptOrForgotten(e1, d1, d2),
         \A a \in Addr : d3["patch"][a] = 0 \/ d3["patch"][a] = d2["patch"][a]
  PROVE  KeptOrForgotten(e1, d1, d3)
BY DEF KeptOrForgotten

(* Decoding again at an address: the listing there still fits.             *)
LEMMA DecodeFits ==
  ASSUME NEW b \in [Addr -> Byte], NEW a \in Addr, Decode(b, a) # None
  PROVE  a + Len(Decode(b, a)) - 1 <= Size
<1> DEFINE n == InsnLen[b[a]]
<1>1. n \in Nat /\ ~(n = 0 \/ a + n - 1 > Size) /\ a \in Int /\ Size \in Int
  BY EditAssumption DEF Decode, Addr
<1>2. Decode(b, a) = [i \in 1..n |-> b[a + i - 1]]
  BY <1>1 DEF Decode
<1> HIDE DEF n
<1>3. Len([i \in 1..n |-> b[a + i - 1]]) = n
  BY <1>1
<1> QED  BY <1>1, <1>2, <1>3

LEMMA ForceCodeFits ==
  ASSUME NEW d \in Tables, NEW a \in Addr, Fits(d)
  PROVE  Fits(ForceCode(d, a))
<1> DEFINE x == Decode(d["byte"], a)
<1>1. d["byte"] \in [Addr -> Byte]
  <2>1. TablesOK(d)
    BY TablesType
  <2> QED  BY <2>1, TableNames, Values DEF TablesOK
<1>2. x \in ValueOf("insn") /\ None \in ValueOf("item")
  BY <1>1, DecodeType, Values
<1>3. x # None => a + Len(x) - 1 <= Size
  BY <1>1, DecodeFits
<1>4. ForceCode(d, a) = IF x = None THEN d ELSE Put(Put(d, "insn", a, x), "item", a, None)
  BY DEF ForceCode
<1> HIDE DEF x
<1>5. x # None => \A b \in Addr :
        /\ ForceCode(d, a)["insn"][b] = IF b = a THEN x ELSE d["insn"][b]
        /\ ForceCode(d, a)["patch"][b] = d["patch"][b]
  BY <1>2, <1>4, PutTwice, TableNames
<1>6. CASE x = None
  BY <1>4, <1>6
<1>7. CASE x # None
  BY <1>3, <1>5, <1>7 DEF Fits
<1> QED  BY <1>6, <1>7

(* A command whose outcome is covered extends the timeline by one state.    *)
LEMMA CommandPatched ==
  ASSUME IInv, Patched, NEW e \in Entry, NEW d, NEW m, NEW stain, Command(e, d, m, stain),
         EntryFits(e), Fits(d), Covered(d, stained \union stain), KeptOrForgotten(e, db, d)
  PROVE  Patched'
<1> DEFINE n == Len(past)
<1>1. /\ db' = d /\ stained' = stained \union stain /\ stained \subseteq stained'
      /\ undoStack' = DropFirst(Append(undoStack, e)) /\ redoStack' = <<>>
      /\ past' = DropFirst(Append(past, Now)) /\ future' = <<>>
  BY DEF Command, Push
<1>2. Types /\ Now \in Moment /\ Now.db = db
  BY NowType DEF IInv
<1>3. /\ past \in Seq(Moment) /\ undoStack \in Seq(Entry) /\ Len(undoStack) = n
      /\ n \in Nat /\ Cap \in Nat \ {0}
  BY <1>2, EditAssumption DEF Types
<1>4. Pushed(past, Now, past')
  BY <1>1, <1>2, <1>3, DropFirstSeq
<1>5. Pushed(undoStack, e, undoStack')
  BY <1>1, <1>3, DropFirstSeq
<1> HIDE DEF n
<1>6. /\ \A k \in 1..n : EntryFits(undoStack[k]) /\ Covered(past[k].db, stained')
      /\ \A k \in 1..n : KeptOrForgotten(undoStack[k], past[k].db,
                                         IF k = n THEN Now.db ELSE past[k + 1].db)
      /\ Covered(Now.db, stained')
  BY <1>1, <1>2, <1>3, CoveredMono DEF Patched, AllFit, AllCovered, n
<1>7. ASSUME NEW i \in 1..Len(past')
      PROVE  /\ EntryFits(undoStack'[i]) /\ Covered(past'[i].db, stained')
             /\ KeptOrForgotten(undoStack'[i], past'[i].db,
                                IF i = Len(past') THEN d ELSE past'[i + 1].db)
  <2>1. CASE n + 1 > Cap
    <3>1. /\ Len(past') = n /\ i \in 1..n
          /\ \A k \in 1..n : /\ past'[k] = IF k = n THEN Now ELSE past[k + 1]
                             /\ undoStack'[k] = IF k = n THEN e ELSE undoStack[k + 1]
      BY <1>3, <1>4, <1>5, <2>1 DEF Pushed, n
    <3>2. CASE i = n
      BY <1>2, <1>6, <3>1, <3>2
    <3>3. CASE i # n
      <4>1. i + 1 \in 1..n
        BY <1>3, <3>1, <3>3
      <4>2. /\ undoStack'[i] = undoStack[i + 1] /\ past'[i] = past[i + 1]
            /\ past'[i + 1] = IF i + 1 = n THEN Now ELSE past[(i + 1) + 1]
        BY <3>1, <3>3, <4>1
      <4>3. KeptOrForgotten(undoStack[i + 1], past[i + 1].db,
                            IF i + 1 = n THEN Now.db ELSE past[(i + 1) + 1].db)
        BY <1>6, <4>1
      <4>4. EntryFits(undoStack[i + 1]) /\ Covered(past[i + 1].db, stained')
        BY <1>6, <4>1
      <4>5. past'[i + 1].db = IF i + 1 = n THEN Now.db ELSE past[(i + 1) + 1].db
        BY <4>2
      <4> QED  BY <3>1, <3>3, <4>2, <4>3, <4>4, <4>5
    <3> QED  BY <3>2, <3>3
  <2>2. CASE n + 1 <= Cap
    <3>1. /\ Len(past') = n + 1 /\ i \in 1..(n + 1)
          /\ \A k \in 1..(n + 1) : /\ past'[k] = IF k = n + 1 THEN Now ELSE past[k]
                                   /\ undoStack'[k] = IF k = n + 1 THEN e ELSE undoStack[k]
      BY <1>3, <1>4, <1>5, <2>2 DEF Pushed, n
    <3>2. CASE i = n + 1
      BY <1>2, <1>6, <3>1, <3>2
    <3>3. CASE i # n + 1
      <4>1. i \in 1..n /\ i + 1 \in 1..(n + 1) /\ (i + 1 = n + 1 <=> i = n)
        BY <1>3, <3>1, <3>3
      <4>2. /\ undoStack'[i] = undoStack[i] /\ past'[i] = past[i]
            /\ past'[i + 1] = IF i = n THEN Now ELSE past[i + 1]
        BY <3>1, <3>3, <4>1
      <4>3. KeptOrForgotten(undoStack[i], past[i].db, IF i = n THEN Now.db ELSE past[i + 1].db)
        BY <1>6, <4>1
      <4>4. EntryFits(undoStack[i]) /\ Covered(past[i].db, stained')
        BY <1>6, <4>1
      <4>5. past'[i + 1].db = IF i = n THEN Now.db ELSE past[i + 1].db
        BY <4>2
      <4> QED  BY <3>1, <3>3, <4>2, <4>3, <4>4, <4>5
    <3> QED  BY <3>2, <3>3
  <2> QED  BY <1>3, <2>1, <2>2
<1>8. Len(redoStack') = 0 /\ Len(undoStack') = Len(past')
  <2>1. Len(undoStack') = Len(past')
    BY <1>3, <1>4, <1>5 DEF Pushed, n
  <2> QED  BY <1>1, <2>1, EmptySeq
<1>9. AllFit'
  BY <1>1, <1>7, <1>8 DEF AllFit
<1> QED  BY <1>1, <1>7, <1>9 DEF Patched, AllCovered

(* A command that writes neither a byte nor a patch and lists no new        *)
(* instruction.                                                            *)
LEMMA QuietCommand ==
  ASSUME IInv, Patched, NEW e \in Entry, NEW d, NEW m, Command(e, d, m, {}), EntryFits(e),
         \A b \in Addr : /\ d["insn"][b] = db["insn"][b] \/ d["insn"][b] = None
                         /\ d["patch"][b] = db["patch"][b] /\ d["byte"][b] = db["byte"][b]
  PROVE  Patched'
<1>1. Fits(db) /\ Covered(db, stained)
  BY DEF Patched, AllFit, AllCovered
<1>2. Fits(d)
  BY <1>1 DEF Fits
<1>3. Covered(d, stained \union {})
  BY <1>1 DEF Covered
<1>4. KeptOrForgotten(e, db, d)
  BY DEF KeptOrForgotten
<1> QED  BY <1>2, <1>3, <1>4, CommandPatched

(* A change behind the undo stack that stains the bytes it writes.         *)
LEMMA UntrackedPatched ==
  ASSUME IInv, Patched, NEW d, NEW stain, Untracked(d, stain), Fits(d),
         \A b \in Addr : /\ d["patch"][b] = db["patch"][b]
                         /\ <<"byte", b>> \notin stain => d["byte"][b] = db["byte"][b]
  PROVE  Patched'
<1>1. /\ db' = d /\ stained' = stained \union stain
      /\ UNCHANGED <<past, undoStack, redoStack>>
  BY DEF Untracked
<1>2. stained \subseteq stained' /\ stain \subseteq stained'
  BY <1>1
<1>3. Covered(d, stained')
  BY <1>2 DEF Covered, Patched, AllCovered
<1>4. ASSUME NEW i \in 1..Len(past)
      PROVE  /\ Covered(past[i].db, stained')
             /\ KeptOrForgotten(undoStack[i], past[i].db,
                                IF i = Len(past) THEN d ELSE past[i + 1].db)
  <2>1. Covered(past[i].db, stained)
    BY DEF Patched, AllCovered
  <2>2. KeptOrForgotten(undoStack[i], past[i].db, IF i = Len(past) THEN db ELSE past[i + 1].db)
    BY DEF Patched, AllCovered
  <2>3. i = Len(past) => KeptOrForgotten(undoStack[i], past[i].db, d)
    BY <2>2 DEF KeptOrForgotten
  <2> QED  BY <1>2, <2>1, <2>2, <2>3, CoveredMono
<1> QED  BY <1>1, <1>3, <1>4 DEF Patched, AllFit, AllCovered

LEMMA NopPatched ==
  ASSUME IInv, Patched, NEW a \in Addr, CmdNop(a)
  PROVE  Patched'
<1> DEFINE n == Len(InsnAt(a))
           Old(b) == IF b \in Addr THEN db["byte"][b] ELSE Nop
           bytes == [i \in 1..n |-> Old(a + i - 1)]
           e == [op |-> "nop", at |-> a, bytes |-> bytes]
           stain == Listing(a) \union (IF db["patch"][a] = 0 THEN {} ELSE {<<"patch", a>>})
           d == PatchNop(db, a, n)
<1>1. db \in Tables /\ Fits(db) /\ Covered(db, stained)
  BY DEF IInv, Types, Patched, AllFit, AllCovered
<1>2. InsnAt(a) \in InsnValue /\ InsnAt(a) # None
  <2>1. InsnAt(a) # None
    BY DEF CmdNop
  <2> QED  BY <2>1, Lookup, TableNames, Values DEF InsnAt
<1>3. n \in 1..Size /\ a + n - 1 <= Size
  BY <1>1, <1>2, InsnLength DEF InsnAt, Fits
<1>4. bytes \in InsnValue /\ Len(bytes) = n
  <2>1. \A b \in Addr : db["byte"][b] \in Byte
    BY Lookup, TableNames, Values
  <2>2. \A b : Old(b) \in Byte
    BY <2>1, EditAssumption
  <2>3. bytes \in [1..n -> Byte]
    BY <2>2
  <2>4. [1..n -> Byte] \in {[1..m -> Byte] : m \in 1..Size}
    BY <1>3
  <2>5. Len(bytes) = n
    BY <1>3, EditAssumption
  <2> QED  BY <2>3, <2>4, <2>5 DEF InsnValue
<1>5. Command(e, ForceCode(d, a), marks, stain)
  BY DEF CmdNop
<1> HIDE DEF n, bytes
<1>6. e \in Entry /\ e.op = "nop" /\ e.at = a /\ EntryFits(e)
  BY <1>3, <1>4 DEF Entry, EntryFits
<1>7. /\ d \in Tables
      /\ \A b \in Addr : /\ d["insn"][b] = db["insn"][b]
                         /\ d["patch"][b] = IF b = a THEN n ELSE db["patch"][b]
                         /\ d["byte"][b] = IF b \in a..(a + n - 1) THEN Nop ELSE db["byte"][b]
  BY <1>1, <1>3, PatchNopCell, TableNames
<1> HIDE DEF d, e, stain
<1>8. Fits(d)
  BY <1>1, <1>3, <1>7 DEF Fits
<1>9. \A b \in Addr : /\ ForceCode(d, a)["patch"][b] = d["patch"][b]
                      /\ ForceCode(d, a)["byte"][b] = d["byte"][b]
  <2>1. \A u \in Table, b \in Addr : <<u, b>> \notin Listing(a) => ForceCode(d, a)[u][b] = d[u][b]
    BY <1>7, ForceCodeCell
  <2>2. \A b \in Addr : <<"patch", b>> \notin Listing(a) /\ <<"byte", b>> \notin Listing(a)
    BY DEF Listing
  <2> QED  BY <2>1, <2>2, TableNames
<1>10. Fits(ForceCode(d, a))
  BY <1>7, <1>8, ForceCodeFits
<1>11. Covered(ForceCode(d, a), stained \union stain)
  <2> SUFFICES ASSUME NEW x \in Addr, NEW b \in Addr, b \in x..(x + d["patch"][x] - 1),
                      <<"byte", b>> \notin stained
               PROVE  d["byte"][b] = Nop
    BY <1>9 DEF Covered
  <2>1. CASE b \in a..(a + n - 1)
    BY <1>7, <2>1
  <2>2. CASE b \notin a..(a + n - 1)
    <3>1. x # a /\ d["patch"][x] = db["patch"][x] /\ d["byte"][b] = db["byte"][b]
      BY <1>7, <2>2
    <3> QED  BY <1>1, <3>1 DEF Covered
  <2> QED  BY <2>1, <2>2
<1>12. KeptOrForgotten(e, db, ForceCode(d, a))
  BY <1>6, <1>7, <1>9 DEF KeptOrForgotten
<1> QED  BY <1>5, <1>6, <1>10, <1>11, <1>12, CommandPatched

LEMMA CommandAtPatched ==
  ASSUME IInv, Patched, NEW a \in Addr, CommandAt(a)
  PROVE  Patched'
<1>0. /\ db \in Tables /\ InsnAt(a) \in ValueOf("insn") /\ ItemAt(a) \in ValueOf("item")
      /\ ItemAt(a) \in Item \union {None}
      /\ InsnAt(a) # None => a + Len(InsnAt(a)) - 1 <= Size
  BY Lookup, TableNames, Values DEF IInv, Types, InsnAt, ItemAt, Patched, AllFit, Fits
<1>1. ASSUME NEW item \in Item, CmdDefine(a, item) PROVE Patched'
  <2> DEFINE e == [op |-> "define", at |-> a, new |-> item, item |-> ItemAt(a), insn |-> InsnAt(a)]
  <2>1. None \in ValueOf("insn") /\ item \in ValueOf("item")
    BY Values
  <2>2. \A b \in Addr : /\ \/ Define(db, a, item)["insn"][b] = db["insn"][b]
                           \/ Define(db, a, item)["insn"][b] = None
                        /\ Define(db, a, item)["patch"][b] = db["patch"][b]
                        /\ Define(db, a, item)["byte"][b] = db["byte"][b]
    BY <1>0, <2>1, PutTwice, TableNames DEF Define
  <2>3. e \in Entry /\ EntryFits(e)
    BY <1>0 DEF Entry, EntryFits
  <2>4. Command(e, Define(db, a, item), marks, {})
    BY <1>1 DEF CmdDefine
  <2> HIDE DEF e
  <2> QED  BY <2>2, <2>3, <2>4, QuietCommand
<1>2. CASE CmdDefineData(a)
  <2> DEFINE s == IF ItemAt(a) = None THEN "byte" ELSE NextSize[ItemAt(a).size]
  <2>1. s \in DataSize
    <3>1. ItemAt(a) # None => ItemAt(a).size \in DataSize
      BY <1>0 DEF Item
    <3> QED  BY <3>1 DEF DataSize, NextSize
  <2>2. CmdDefine(a, Raw(s))
    BY <1>2 DEF CmdDefineData
  <2> HIDE DEF s
  <2>3. Raw(s) \in Item
    BY <2>1 DEF Raw, Item
  <2> QED  BY <1>1, <2>2, <2>3
<1>3. CASE CmdDefineString(a)
  <2>1. String \in Item
    BY DEF String, Item, DataSize
  <2> QED  BY <1>1, <1>3, <2>1 DEF CmdDefineString
<1>4. CASE CmdUndefine(a)
  <2> DEFINE e == [op |-> "undefine", at |-> a, item |-> ItemAt(a), insn |-> InsnAt(a)]
  <2>1. None \in ValueOf("insn") /\ None \in ValueOf("item")
    BY Values
  <2>2. \A b \in Addr : /\ \/ Undefine(db, a)["insn"][b] = db["insn"][b]
                           \/ Undefine(db, a)["insn"][b] = None
                        /\ Undefine(db, a)["patch"][b] = db["patch"][b]
                        /\ Undefine(db, a)["byte"][b] = db["byte"][b]
    BY <1>0, <2>1, PutTwice, TableNames DEF Undefine
  <2>3. e \in Entry /\ EntryFits(e)
    BY <1>0 DEF Entry, EntryFits
  <2>4. Command(e, Undefine(db, a), marks, {})
    BY <1>4 DEF CmdUndefine
  <2> HIDE DEF e
  <2> QED  BY <2>2, <2>3, <2>4, QuietCommand
<1>5. CASE CmdToggleHex(a)
  <2> DEFINE e == [op |-> "hex", at |-> a]
  <2>1. \A b \in Addr : /\ ToggleHex(db, a)["insn"][b] = db["insn"][b]
                        /\ ToggleHex(db, a)["patch"][b] = db["patch"][b]
                        /\ ToggleHex(db, a)["byte"][b] = db["byte"][b]
    BY <1>0, ToggleHexCell, TableNames
  <2>2. e \in Entry /\ EntryFits(e)
    BY DEF Entry, EntryFits
  <2>3. Command(e, ToggleHex(db, a), marks, {})
    BY <1>5 DEF CmdToggleHex
  <2> HIDE DEF e
  <2> QED  BY <2>1, <2>2, <2>3, QuietCommand
<1>6. CASE CmdNop(a)
  BY <1>6, NopPatched
<1>7. ASSUME NEW t \in {"name", "comment"}, NEW text \in Text, PutTextCmd(t, a, text) PROVE Patched'
  <2> DEFINE e == [op |-> "text", table |-> t, at |-> a, old |-> OldText(t, a), new |-> text]
  <2>1. \A b \in Addr : /\ PutText(db, t, a, text)["insn"][b] = db["insn"][b]
                        /\ PutText(db, t, a, text)["patch"][b] = db["patch"][b]
                        /\ PutText(db, t, a, text)["byte"][b] = db["byte"][b]
    BY <1>0, PutTextCell, TableNames
  <2>2. OldText(t, a) \in Text
    <3>1. db[t][a] \in Text \union {None}
      BY Lookup, TableNames, Values
    <3> QED  BY <3>1, EditAssumption DEF OldText
  <2>3. e \in Entry /\ EntryFits(e)
    BY <2>2 DEF Entry, EntryFits
  <2>4. Command(e, PutText(db, t, a, text), marks, {})
    BY <1>7 DEF PutTextCmd
  <2> HIDE DEF e
  <2> QED  BY <2>1, <2>3, <2>4, QuietCommand
<1>8. ASSUME NEW id \in TypeId \union {None}, ApplyType(a, id) PROVE Patched'
  <2> DEFINE e == [op |-> "type", at |-> a, old |-> db["type"][a], new |-> id]
  <2>1. id \in ValueOf("type") /\ db["type"][a] \in ValueOf("type")
    BY Lookup, TableNames, Values
  <2>2. \A b \in Addr : /\ Put(db, "type", a, id)["insn"][b] = db["insn"][b]
                        /\ Put(db, "type", a, id)["patch"][b] = db["patch"][b]
                        /\ Put(db, "type", a, id)["byte"][b] = db["byte"][b]
    BY <1>0, <2>1, PutCell, TableNames
  <2>3. e \in Entry /\ EntryFits(e)
    BY <2>1 DEF Entry, EntryFits
  <2>4. Command(e, Put(db, "type", a, id), marks, {})
    BY <1>8 DEF ApplyType
  <2> HIDE DEF e
  <2> QED  BY <2>2, <2>3, <2>4, QuietCommand
<1>9. CASE AddBookmark(a)
  <2> DEFINE e == [op |-> "addMark", at |-> a, index |-> Len(marks) + 1]
  <2>1. Len(marks) \in Nat
    BY DEF IInv, Types
  <2>2. e \in Entry /\ EntryFits(e)
    BY <2>1 DEF Entry, EntryFits
  <2>3. Command(e, db, Append(marks, a), {})
    BY <1>9 DEF AddBookmark
  <2> HIDE DEF e
  <2> QED  BY <2>2, <2>3, QuietCommand
<1> QED  BY <1>2, <1>3, <1>4, <1>5, <1>6, <1>7, <1>8, <1>9 DEF CommandAt, Rename, Comment, RemoveType

LEMMA RemoveBookmarkPatched ==
  ASSUME IInv, Patched, NEW i \in DOMAIN marks, RemoveBookmark(i)
  PROVE  Patched'
<1> DEFINE e == [op |-> "removeMark", at |-> marks[i], index |-> i]
<1>1. marks[i] \in Addr /\ i \in Nat \ {0}
  BY DEF IInv, Types
<1>2. e \in Entry /\ EntryFits(e)
  BY <1>1 DEF Entry, EntryFits
<1>3. Command(e, db, RemoveAt(marks, i), {})
  BY DEF RemoveBookmark
<1> HIDE DEF e
<1> QED  BY <1>2, <1>3, QuietCommand

LEMMA UntrackedAtPatched ==
  ASSUME IInv, Patched, NEW a \in Addr, UntrackedAt(a)
  PROVE  Patched'
<1>0. db \in Tables /\ Fits(db)
  BY DEF IInv, Types, Patched, AllFit
<1>1. CASE CmdForceCode(a)
  <2>1. \A u \in Table, b \in Addr : <<u, b>> \notin Listing(a) => ForceCode(db, a)[u][b] = db[u][b]
    BY <1>0, ForceCodeCell
  <2>2. \A b \in Addr : <<"patch", b>> \notin Listing(a) /\ <<"byte", b>> \notin Listing(a)
    BY DEF Listing
  <2>3. \A b \in Addr : /\ ForceCode(db, a)["patch"][b] = db["patch"][b]
                        /\ ForceCode(db, a)["byte"][b] = db["byte"][b]
    BY <2>1, <2>2, TableNames
  <2>4. Fits(ForceCode(db, a))
    BY <1>0, ForceCodeFits
  <2> QED  BY <1>1, <2>3, <2>4, UntrackedPatched DEF CmdForceCode
<1>2. ASSUME NEW t \in {"byte", "name", "comment"}, NEW v \in ValueOf(t),
             Untracked(Put(db, t, a, v), {<<t, a>>})
      PROVE  Patched'
  <2>1. \A b \in Addr : /\ Put(db, t, a, v)["insn"][b] = db["insn"][b]
                        /\ Put(db, t, a, v)["patch"][b] = db["patch"][b]
                        /\ <<"byte", b>> \notin {<<t, a>>} =>
                             Put(db, t, a, v)["byte"][b] = db["byte"][b]
    BY <1>0, PutCell, TableNames
  <2>2. Fits(Put(db, t, a, v))
    BY <1>0, <2>1 DEF Fits
  <2> QED  BY <1>2, <2>1, <2>2, UntrackedPatched
<1>3. CASE \E b \in Byte : HexEdit(a, b)
  BY <1>2, <1>3, Values DEF HexEdit
<1>4. CASE \E t \in {"name", "comment"}, text \in Text : ScriptSetText(t, a, text)
  BY <1>2, <1>4, Values DEF ScriptSetText
<1>5. ASSUME NEW hi \in Addr, HexNopSelection(a, hi) PROVE Patched'
  <2> DEFINE n == hi - a + 1  s == [i \in 1..n |-> Nop]  stain == {"byte"} \X (a..hi)
  <2>1. a < hi /\ Untracked(Blit(db, a, s), stain)
    BY <1>5 DEF HexNopSelection
  <2>2. n \in 0..Size /\ a + n - 1 = hi
    BY <2>1, EditAssumption DEF Addr
  <2>3. s \in [1..n -> Byte]
    BY EditAssumption
  <2>4. \A b : <<"byte", b>> \in stain <=> b \in a..hi
    OBVIOUS
  <2> HIDE DEF s, n, stain
  <2>5. \A b \in Addr : /\ Blit(db, a, s)["insn"][b] = db["insn"][b]
                        /\ Blit(db, a, s)["patch"][b] = db["patch"][b]
                        /\ <<"byte", b>> \notin stain => Blit(db, a, s)["byte"][b] = db["byte"][b]
    <3>1. \A u \in Table, b \in Addr :
            Blit(db, a, s)[u][b] =
              IF u = "byte" /\ b \in a..(a + n - 1) THEN s[b - a + 1] ELSE db[u][b]
      BY <1>0, <2>2, <2>3, BlitCell
    <3> QED  BY <2>2, <2>4, <3>1, TableNames
  <2>6. Fits(Blit(db, a, s))
    BY <1>0, <2>5 DEF Fits
  <2> QED  BY <2>1, <2>5, <2>6, UntrackedPatched
<1>6. ASSUME NEW name \in Text \ {Empty}, CreateFunc(a, name) PROVE Patched'
  <2> DEFINE d1 == Put(db, "func", a, 1)  d2 == Put(d1, "name", a, name)
  <2>1. 1 \in ValueOf("func") /\ name \in ValueOf("name")
    BY Values
  <2>2. Untracked(d2, {<<"func", a>>, <<"name", a>>})
    BY <1>6 DEF CreateFunc
  <2>3. /\ d1 \in Tables
        /\ \A b \in Addr : /\ d1["insn"][b] = db["insn"][b] /\ d1["patch"][b] = db["patch"][b]
                           /\ d1["byte"][b] = db["byte"][b]
    BY <1>0, <2>1, PutCell, TableNames
  <2> HIDE DEF d1
  <2>4. \A b \in Addr : /\ d2["insn"][b] = db["insn"][b] /\ d2["patch"][b] = db["patch"][b]
                        /\ d2["byte"][b] = db["byte"][b]
    BY <2>1, <2>3, PutCell, TableNames
  <2> HIDE DEF d2
  <2>5. Fits(d2)
    BY <1>0, <2>4 DEF Fits
  <2> QED  BY <2>2, <2>4, <2>5, UntrackedPatched
<1> QED  BY <1>1, <1>3, <1>4, <1>5, <1>6 DEF UntrackedAt

(* What the closures make of the patches and of the listing.               *)
LEMMA UndoPatch ==
  ASSUME NEW d \in Tables, NEW e \in Entry, Fits(d), EntryFits(e)
  PROVE  /\ Fits(UndoOf(e, d))
         /\ \A a \in Addr :
              UndoOf(e, d)["patch"][a] = IF e.op = "nop" /\ e.at = a THEN 0 ELSE d["patch"][a]
<1>1. ASSUME NEW a \in Addr
      PROVE  UndoOf(e, d)["patch"][a] = IF e.op = "nop" /\ e.at = a THEN 0 ELSE d["patch"][a]
  <2>1. UndoOf(e, d)["patch"][a] = CellUndo(e, "patch", a, d["patch"][a])
    BY UndoCells, TableNames
  <2>2. e.op = "text" => e.table # "patch"
    BY EntryFields
  <2> QED  BY <2>1, <2>2, EntryFields DEF CellUndo, Ops
<1>2. ASSUME NEW a \in Addr
      PROVE  \/ UndoOf(e, d)["insn"][a] = d["insn"][a]
             \/ UndoOf(e, d)["insn"][a] = e.insn /\ a = e.at /\ e.op \in {"define", "undefine"}
  <2>1. UndoOf(e, d)["insn"][a] = CellUndo(e, "insn", a, d["insn"][a])
    BY UndoCells, TableNames
  <2>2. e.op = "text" => e.table # "insn"
    BY EntryFields
  <2> QED  BY <2>1, <2>2, EntryFields DEF CellUndo, Ops
<1>3. ASSUME NEW a \in Addr
      PROVE  /\ UndoOf(e, d)["insn"][a] # None => a + Len(UndoOf(e, d)["insn"][a]) - 1 <= Size
             /\ a + UndoOf(e, d)["patch"][a] - 1 <= Size
  <2>1. UndoOf(e, d)["insn"][a] # None => a + Len(UndoOf(e, d)["insn"][a]) - 1 <= Size
    BY <1>2 DEF Fits, EntryFits
  <2>2. a + 0 - 1 <= Size
    BY EditAssumption DEF Addr
  <2> QED  BY <1>1, <2>1, <2>2 DEF Fits
<1> QED  BY <1>1, <1>3 DEF Fits

LEMMA RedoPatch ==
  ASSUME NEW d \in Tables, NEW e \in Entry, Fits(d), EntryFits(e), NEW S, Covered(d, S)
  PROVE  /\ Fits(RedoOf(e, d)) /\ Covered(RedoOf(e, d), S)
         /\ KeptOrForgotten(e, d, RedoOf(e, d))
<1> DEFINE r == RedoOf(e, d)
           nopped == {b \in Addr : e.op = "nop" /\ b \in e.at..(e.at + Len(e.bytes) - 1)}
<1>1. ASSUME NEW a \in Addr
      PROVE  /\ r["patch"][a] = IF e.op = "nop" /\ a = e.at THEN Len(e.bytes) ELSE d["patch"][a]
             /\ r["byte"][a] = IF a \in nopped THEN Nop ELSE d["byte"][a]
             /\ r["insn"][a] = d["insn"][a] \/ r["insn"][a] = None
  <2>1. /\ r["patch"][a] = CellRedo(e, "patch", a, d["patch"][a])
        /\ r["byte"][a] = CellRedo(e, "byte", a, d["byte"][a])
        /\ r["insn"][a] = CellRedo(e, "insn", a, d["insn"][a])
    BY RedoCells, TableNames
  <2>2. e.op = "text" => e.table \notin {"patch", "byte", "insn"}
    BY EntryFields
  <2>3. r["patch"][a] = IF e.op = "nop" /\ a = e.at THEN Len(e.bytes) ELSE d["patch"][a]
    BY <2>1, <2>2, EntryFields DEF CellRedo, Ops
  <2>4. r["byte"][a] = IF a \in nopped THEN Nop ELSE d["byte"][a]
    BY <2>1, <2>2, EntryFields DEF CellRedo, Ops
  <2>5. r["insn"][a] = d["insn"][a] \/ r["insn"][a] = None
    BY <2>1, <2>2, EntryFields DEF CellRedo, Ops
  <2> QED  BY <2>3, <2>4, <2>5
<1> HIDE DEF r
<1>2. Fits(r)
  BY <1>1 DEF Fits, EntryFits
<1>3. Covered(r, S)
  <2> SUFFICES ASSUME NEW a \in Addr, NEW b \in Addr, b \in a..(a + r["patch"][a] - 1),
                      <<"byte", b>> \notin S
               PROVE  r["byte"][b] = Nop
    BY DEF Covered
  <2>1. CASE b \in nopped
    BY <1>1, <2>1
  <2>2. CASE b \notin nopped
    <3>1. r["patch"][a] = d["patch"][a]
      BY <1>1, <2>2
    <3>2. d["byte"][b] = Nop
      BY <3>1 DEF Covered
    <3> QED  BY <1>1, <2>2, <3>2
  <2> QED  BY <2>1, <2>2
<1>4. KeptOrForgotten(e, d, r)
  BY <1>1 DEF KeptOrForgotten
<1> QED  BY <1>2, <1>3, <1>4 DEF r

(* Ctrl+Z: a patch that is left was there before the command, when what it  *)
(* covers was a NOP, and the bytes are those of then.                      *)
LEMMA UndoPatched ==
  ASSUME IInv, Patched, Undo
  PROVE  Patched'
<1> DEFINE n == Len(past)  e == Last(undoStack)
<1>1. /\ undoStack # <<>> /\ db' = UndoOf(e, db) /\ redoStack' = Append(redoStack, e)
      /\ undoStack' = Front(undoStack) /\ past' = Front(past) /\ stained' = stained
  BY DEF Undo
<1>2. /\ db \in Tables /\ past \in Seq(Moment) /\ Len(undoStack) = n /\ n \in 1..n /\ n \in Nat
      /\ undoStack \in Seq(Entry) /\ redoStack \in Seq(Entry)
      /\ e = undoStack[n] /\ e \in Entry /\ Last(past) = past[n]
  BY <1>1, LastLink DEF IInv, Types
<1>3. Fits(db) /\ EntryFits(e)
  BY <1>2 DEF Patched, AllFit
<1>4. /\ Covered(past[n].db, stained) /\ KeptOrForgotten(e, past[n].db, db)
      /\ \A i \in 1..n : Covered(past[i].db, stained)
      /\ \A i \in 1..n : i # n => KeptOrForgotten(undoStack[i], past[i].db, past[i + 1].db)
  BY <1>2 DEF Patched, AllCovered
<1>5. /\ past' \in Seq(Moment) /\ Len(past') = n - 1 /\ \A i \in 1..(n - 1) : past'[i] = past[i]
      /\ Len(undoStack') = n - 1 /\ \A i \in 1..(n - 1) : undoStack'[i] = undoStack[i]
  <2>1. past # <<>>
    BY <1>2
  <2> QED  BY <1>1, <1>2, <2>1, FrontSeq
<1>6. /\ Len(redoStack') = Len(redoStack) + 1 /\ Len(redoStack) \in Nat
      /\ \A j \in 1..(Len(redoStack) + 1) :
           redoStack'[j] = IF j = Len(redoStack) + 1 THEN e ELSE redoStack[j]
  BY <1>1, <1>2
<1> HIDE DEF n, e
<1>7. /\ Fits(db')
      /\ \A a \in Addr : db'["patch"][a] = IF e.op = "nop" /\ e.at = a THEN 0 ELSE db["patch"][a]
  BY <1>1, <1>2, <1>3, UndoPatch
<1>8. \A a \in Addr : db'["patch"][a] = 0 \/ db'["patch"][a] = past[n].db["patch"][a]
  BY <1>4, <1>7 DEF KeptOrForgotten
<1>9. \A b \in Addr : <<"byte", b>> \notin stained => db'["byte"][b] = past[n].db["byte"][b]
  <2>1. Same(Now', past[n], stained) /\ Now'.db = db'
    BY <1>2, UndoResult DEF Now
  <2> QED  BY <2>1, TableNames DEF Same
<1>10. Covered(db', stained)
  <2> SUFFICES ASSUME NEW a \in Addr, NEW b \in Addr, b \in a..(a + db'["patch"][a] - 1),
                      <<"byte", b>> \notin stained
               PROVE  db'["byte"][b] = Nop
    BY DEF Covered
  <2>1. db'["patch"][a] # 0
    BY DEF Addr
  <2>2. b \in a..(a + past[n].db["patch"][a] - 1)
    BY <1>8, <2>1
  <2> QED  BY <1>4, <1>9, <2>2 DEF Covered
<1>11. ASSUME NEW i \in 1..(n - 1)
       PROVE  KeptOrForgotten(undoStack[i], past[i].db, IF i = n - 1 THEN db' ELSE past[i + 1].db)
  <2>1. i \in 1..n /\ i # n /\ (i = n - 1 => i + 1 = n)
    BY <1>2
  <2>2. KeptOrForgotten(undoStack[i], past[i].db, past[i + 1].db)
    BY <1>4, <2>1
  <2>3. i = n - 1 => KeptOrForgotten(undoStack[i], past[i].db, db')
    BY <1>8, <2>1, <2>2, KeptTwice
  <2> QED  BY <2>2, <2>3
<1>12. ASSUME NEW i \in 1..(n - 1)
       PROVE  /\ Covered(past'[i].db, stained')
              /\ KeptOrForgotten(undoStack'[i], past'[i].db,
                                 IF i = n - 1 THEN db' ELSE past'[i + 1].db)
  <2>1. i \in 1..n /\ (i # n - 1 => i + 1 \in 1..(n - 1))
    BY <1>2
  <2>2. i # n - 1 => past'[i + 1] = past[i + 1]
    BY <1>5, <2>1
  <2>3. past'[i] = past[i] /\ undoStack'[i] = undoStack[i]
    BY <1>5
  <2> QED  BY <1>1, <1>4, <1>11, <2>1, <2>2, <2>3
<1>13. AllFit'
  <2>1. \A i \in 1..(n - 1) : EntryFits(undoStack'[i])
    <3>1. \A i \in 1..(n - 1) : i \in 1..n
      BY <1>2
    <3> QED  BY <1>2, <1>5, <3>1 DEF Patched, AllFit
  <2>2. ASSUME NEW j \in 1..(Len(redoStack) + 1) PROVE EntryFits(redoStack'[j])
    <3>1. j # Len(redoStack) + 1 => j \in 1..Len(redoStack)
      BY <1>6
    <3> QED  BY <1>3, <1>6, <3>1 DEF Patched, AllFit
  <2> QED  BY <1>5, <1>6, <1>7, <2>1, <2>2 DEF AllFit
<1>14. AllCovered'
  BY <1>1, <1>5, <1>10, <1>12 DEF AllCovered
<1> QED  BY <1>13, <1>14 DEF Patched

LEMMA RedoPatched ==
  ASSUME IInv, Patched, Redo
  PROVE  Patched'
<1> DEFINE n == Len(past)  m == Len(redoStack)  e == Last(redoStack)
<1>1. /\ redoStack # <<>> /\ db' = RedoOf(e, db) /\ undoStack' = Append(undoStack, e)
      /\ redoStack' = Front(redoStack) /\ past' = Append(past, Now) /\ stained' = stained
  BY DEF Redo
<1>2. /\ db \in Tables /\ Now \in Moment /\ Now.db = db
      /\ past \in Seq(Moment) /\ Len(undoStack) = n /\ n \in Nat
      /\ undoStack \in Seq(Entry) /\ redoStack \in Seq(Entry)
      /\ m \in 1..m /\ m \in Nat /\ e = redoStack[m] /\ e \in Entry
  BY <1>1, LastRedoLink, NowType DEF IInv, Types
<1>3. Fits(db) /\ EntryFits(e) /\ Covered(db, stained)
  BY <1>2 DEF Patched, AllFit, AllCovered
<1>4. /\ Len(undoStack') = n + 1 /\ Len(past') = n + 1
      /\ \A i \in 1..(n + 1) : /\ undoStack'[i] = IF i = n + 1 THEN e ELSE undoStack[i]
                               /\ past'[i] = IF i = n + 1 THEN Now ELSE past[i]
  BY <1>1, <1>2
<1>5. Len(redoStack') = m - 1 /\ \A j \in 1..(m - 1) : redoStack'[j] = redoStack[j]
  BY <1>1, <1>2, FrontSeq
<1>6. /\ \A i \in 1..n : EntryFits(undoStack[i]) /\ Covered(past[i].db, stained)
      /\ \A i \in 1..n : KeptOrForgotten(undoStack[i], past[i].db,
                                         IF i = n THEN db ELSE past[i + 1].db)
      /\ \A j \in 1..m : EntryFits(redoStack[j])
  BY <1>2 DEF Patched, AllFit, AllCovered
<1> HIDE DEF n, m, e
<1>7. Fits(db') /\ Covered(db', stained) /\ KeptOrForgotten(e, db, db')
  BY <1>1, <1>2, <1>3, RedoPatch
<1>8. ASSUME NEW i \in 1..(n + 1)
      PROVE  /\ EntryFits(undoStack'[i]) /\ Covered(past'[i].db, stained)
             /\ KeptOrForgotten(undoStack'[i], past'[i].db,
                                IF i = n + 1 THEN db' ELSE past'[i + 1].db)
  <2>1. CASE i = n + 1
    BY <1>2, <1>3, <1>4, <1>7, <2>1
  <2>2. CASE i # n + 1
    <3>1. i \in 1..n /\ i + 1 \in 1..(n + 1) /\ (i + 1 = n + 1 <=> i = n)
      BY <1>2, <2>2
    <3>2. /\ undoStack'[i] = undoStack[i] /\ past'[i] = past[i]
          /\ past'[i + 1].db = IF i = n THEN db ELSE past[i + 1].db
      BY <1>2, <1>4, <2>2, <3>1
    <3> QED  BY <1>6, <2>2, <3>1, <3>2
  <2> QED  BY <2>1, <2>2
<1>9. \A j \in 1..(m - 1) : EntryFits(redoStack'[j])
  <2>1. \A j \in 1..(m - 1) : j \in 1..m
    BY <1>2
  <2> QED  BY <1>5, <1>6, <2>1
<1>10. AllFit'
  BY <1>4, <1>5, <1>7, <1>8, <1>9 DEF AllFit
<1>11. AllCovered'
  BY <1>1, <1>4, <1>7, <1>8 DEF AllCovered
<1> QED  BY <1>10, <1>11 DEF Patched

LEMMA InitPatched ==
  ASSUME Init PROVE Patched
<1>1. Len(past) = 0 /\ Len(undoStack) = 0 /\ Len(redoStack) = 0
  BY EmptySeq DEF Init
<1>2. /\ db["insn"] = [a \in Addr |-> IF a \in Code THEN Decode(File, a) ELSE None]
      /\ db["patch"] = [a \in Addr |-> 0]
  BY TableNames DEF Init
<1>3. ASSUME NEW a \in Addr, db["insn"][a] # None
      PROVE  a + Len(db["insn"][a]) - 1 <= Size
  BY <1>2, <1>3, DecodeFits, EditAssumption
<1>4. \A a \in Addr : a + 0 - 1 <= Size /\ a..(a + 0 - 1) = {}
  BY EditAssumption DEF Addr
<1>5. Fits(db) /\ Covered(db, stained)
  BY <1>2, <1>3, <1>4 DEF Fits, Covered
<1> QED  BY <1>1, <1>5 DEF Patched, AllFit, AllCovered

(* The table of patches, from which export_patched writes, never says more  *)
(* than the image shows: through any number of commands, undos and redos,   *)
(* overlapping NOPs and a full stack, a byte that a patch covers is a NOP,   *)
(* but where the hex editor wrote (PatchIsInImage).                        *)
THEOREM PatchesAreInImage == Spec => []PatchIsInImage
<1>1. ASSUME IInv, Patched, [Next]_vars PROVE Patched'
  <2>1. ASSUME NEW a \in Addr, CommandAt(a) PROVE Patched'
    BY <1>1, <2>1, CommandAtPatched
  <2>2. ASSUME NEW a \in Addr, UntrackedAt(a) PROVE Patched'
    BY <1>1, <2>2, UntrackedAtPatched
  <2>3. ASSUME NEW i \in DOMAIN marks, RemoveBookmark(i) PROVE Patched'
    BY <1>1, <2>3, RemoveBookmarkPatched
  <2>4. CASE Undo
    BY <1>1, <2>4, UndoPatched
  <2>5. CASE Redo
    BY <1>1, <2>5, RedoPatched
  <2>6. CASE UNCHANGED vars
    BY <1>1, <2>6 DEF vars, Patched, AllFit, AllCovered
  <2> QED  BY <1>1, <2>1, <2>2, <2>3, <2>4, <2>5, <2>6 DEF Next
<1>2. IInv /\ Patched /\ [Next]_vars => Patched'
  BY <1>1
<1>3. ASSUME IInv, Patched PROVE PatchIsInImage
  <2> SUFFICES ASSUME NEW a \in Addr, NEW b \in a..(a + db["patch"][a] - 1),
                      <<"byte", b>> \notin stained
               PROVE  db["byte"][b] = Nop
    BY DEF PatchIsInImage
  <2>1. a + db["patch"][a] - 1 <= Size
    BY <1>3 DEF Patched, AllFit, Fits
  <2>2. db["patch"][a] \in 0..Size
    BY <1>3, Lookup, TableNames, Values
  <2>3. b \in Addr
    BY <2>1, <2>2, EditAssumption DEF Addr
  <2> QED  BY <1>3, <2>3 DEF Patched, AllCovered, Covered
<1>4. IInv /\ Patched => PatchIsInImage
  BY <1>3
<1> QED  BY InitPatched, <1>2, <1>4, TimelineHolds, PTL DEF Spec
=============================================================================
