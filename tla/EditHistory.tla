----------------------------- MODULE EditHistory -----------------------------
(***************************************************************************)
(* hype::UndoManager (src/core/undo.h) and the commands of the user        *)
(* interface that change what is known of the loaded binary: the tables of *)
(* AnalysisDB, the bytes of the image, the bookmarks.  Most commands push  *)
(* a pair of closures that captured what they need to take the change back *)
(* and to make it again; force_code, create_func, the hex editor and the   *)
(* scripts change the same tables behind the back of the undo stack.       *)
(* All of them run on the thread of the user interface, one at a time.     *)
(***************************************************************************)
EXTENDS Integers, Sequences, SequencesExt

CONSTANTS
  Size,        \* the addresses are 1..Size, of one segment
  Byte, Nop,   \* the values of a byte; 0x90
  InsnLen,     \* the length of the x86 instruction a byte begins, 0: none
  File,        \* the bytes of the loaded file
  Code,        \* where the analysis found instructions
  Text, Empty, \* names and comments; the empty string
  TypeId,      \* the structures and enums that can be applied
  None,        \* no entry in a table
  Cap,         \* the longest undo stack; 4096 in the code
  MaxEdits     \* bound: the changes made in a behaviour

Addr == 1..Size

ASSUME EditAssumption ==
  /\ Size \in Nat \ {0}
  /\ Nop \in Byte /\ InsnLen \in [Byte -> Nat] /\ InsnLen[Nop] = 1
  /\ File \in [Addr -> Byte] /\ Code \subseteq Addr
  /\ Empty \in Text
  /\ None \notin Text \union TypeId
  /\ Cap \in Nat \ {0} /\ MaxEdits \in Nat

VARIABLES
  db,         \* the tables, by name and address
  marks,      \* bookmarks_
  undoStack, redoStack,
  past,       \* history: for each entry to undo, the state before its command
  future,     \* history: for each entry to redo, the state it leads to
  stained,    \* history: the cells whose changes the undo stack does not follow
  edits       \* history: the changes so far

vars == <<db, marks, undoStack, redoStack, past, future, stained, edits>>

Table == {"insn", "item", "hex", "patch", "byte", "name", "comment", "type", "func"}
Cell == Table \X Addr
Now == [db |-> db, marks |-> marks]

DataSize == {"byte", "word", "dword", "qword"}
Item == [size : DataSize, style : {"raw", "string"}]
Raw(s) == [size |-> s, style |-> "raw"]
String == [size |-> "byte", style |-> "string"]

(* An instruction is the bytes it was decoded from.  None when the byte     *)
(* begins no instruction or the segment ends within it.                    *)
Decode(bytes, a) ==
  LET n == InsnLen[bytes[a]]
  IN  IF n = 0 \/ a + n - 1 > Size THEN None ELSE [i \in 1..n |-> bytes[a + i - 1]]

Init ==
  /\ db = [t \in Table |->
             CASE t = "byte"  -> File
               [] t = "insn"  -> [a \in Addr |-> IF a \in Code THEN Decode(File, a) ELSE None]
               [] t \in {"patch", "hex", "func"} -> [a \in Addr |-> 0]
               [] OTHER -> [a \in Addr |-> None]]
  /\ marks = <<>>
  /\ undoStack = <<>> /\ redoStack = <<>>
  /\ past = <<>> /\ future = <<>>
  /\ stained = {}
  /\ edits = 0
----------------------------------------------------------------------------
(* What the commands and their closures write.                             *)
Put(d, t, a, v) == [d EXCEPT ![t][a] = v]

Define(d, a, item) == Put(Put(d, "insn", a, None), "item", a, item)
Undefine(d, a) == Put(Put(d, "insn", a, None), "item", a, None)
ToggleHex(d, a) == Put(d, "hex", a, 1 - d["hex"][a])
PutText(d, t, a, text) == Put(d, t, a, IF text = Empty THEN None ELSE text)

Blit(d, a, bytes) ==
  [d EXCEPT !["byte"] = [b \in Addr |-> IF b \in a..(a + Len(bytes) - 1)
                                        THEN bytes[b - a + 1] ELSE @[b]]]
PatchNop(d, a, n) == Blit(Put(d, "patch", a, n), a, [i \in 1..n |-> Nop])

ForceCode(d, a) ==
  LET insn == Decode(d["byte"], a)
  IN  IF insn = None THEN d ELSE Put(Put(d, "insn", a, insn), "item", a, None)

(* `if (had_data) ...; if (had_insn) ...`: what was absent is left alone.   *)
PutBack(d, t, a, old) == IF old = None THEN d ELSE Put(d, t, a, old)
PutListing(d, e) == PutBack(PutBack(d, "item", e.at, e.item), "insn", e.at, e.insn)

UndoKeepingItem(e, d) ==   \* mutant: undo of a definition does not erase the item first
  CASE e.op = "define"   -> PutListing(d, e)
    [] e.op = "undefine" -> PutListing(d, e)
    [] e.op = "hex"      -> ToggleHex(d, e.at)
    [] e.op = "nop"      -> Blit(Put(d, "patch", e.at, 0), e.at, e.bytes)
    [] e.op = "text"     -> PutText(d, e.table, e.at, e.old)
    [] e.op = "type"     -> Put(d, "type", e.at, e.old)
    [] OTHER             -> d

(* The undo closure of an entry.  That of NOP does not touch the listing.   *)
UndoOf(e, d) ==
  CASE e.op = "define"   -> PutListing(Put(d, "item", e.at, None), e)
    [] e.op = "undefine" -> PutListing(d, e)
    [] e.op = "hex"      -> ToggleHex(d, e.at)
    [] e.op = "nop"      -> Blit(Put(d, "patch", e.at, 0), e.at, e.bytes)
    [] e.op = "text"     -> PutText(d, e.table, e.at, e.old)
    [] e.op = "type"     -> Put(d, "type", e.at, e.old)
    [] OTHER             -> d

(* The redo closure.  That of NOP does not decode again.                   *)
RedoOf(e, d) ==
  CASE e.op = "define"   -> Define(d, e.at, e.new)
    [] e.op = "undefine" -> Undefine(d, e.at)
    [] e.op = "hex"      -> ToggleHex(d, e.at)
    [] e.op = "nop"      -> PatchNop(d, e.at, Len(e.bytes))
    [] e.op = "text"     -> PutText(d, e.table, e.at, e.new)
    [] e.op = "type"     -> Put(d, "type", e.at, e.new)
    [] OTHER             -> d

(* The closures of the bookmarks hold an index, not an iterator.           *)
EraseMark(m, i) == IF i <= Len(m) THEN RemoveAt(m, i) ELSE m
InsertMark(m, i, a) ==
  LET k == IF i <= Len(m) + 1 THEN i ELSE Len(m) + 1 IN InsertAt(m, k, a)

UndoMarks(e, m) ==
  CASE e.op = "addMark"    -> EraseMark(m, e.index)
    [] e.op = "removeMark" -> InsertMark(m, e.index, e.at)
    [] OTHER -> m

RedoMarks(e, m) ==
  CASE e.op = "addMark"    -> Append(m, e.at)
    [] e.op = "removeMark" -> EraseMark(m, e.index)
    [] OTHER -> m
----------------------------------------------------------------------------
DropFirst(s) == IF Len(s) > Cap THEN Tail(s) ELSE s

PushKeepingRedo(e) ==   \* mutant: the redo stack survives a new command
  /\ undoStack' = DropFirst(Append(undoStack, e))
  /\ UNCHANGED redoStack

PushDroppingNewest(e) ==   \* mutant: a full stack drops the wrong end
  /\ undoStack' = IF Len(undoStack) = Cap THEN undoStack ELSE Append(undoStack, e)
  /\ redoStack' = <<>>

Push(e) ==
  /\ undoStack' = DropFirst(Append(undoStack, e))
  /\ redoStack' = <<>>

(* A command that can be undone: its changes and the entry it pushes.       *)
Command(e, d, m, stain) ==
  /\ edits < MaxEdits
  /\ edits' = edits + 1
  /\ db' = d /\ marks' = m
  /\ Push(e)
  /\ past' = DropFirst(Append(past, Now)) /\ future' = <<>>
  /\ stained' = stained \union stain

(* A change that is not on the undo stack.                                 *)
Untracked(d, stain) ==
  /\ edits < MaxEdits
  /\ edits' = edits + 1
  /\ db' = d
  /\ stained' = stained \union stain
  /\ UNCHANGED <<marks, undoStack, redoStack, past, future>>

Listing(a) == {<<"insn", a>>, <<"item", a>>}
InsnAt(a) == db["insn"][a]
ItemAt(a) == db["item"][a]
----------------------------------------------------------------------------
(* The commands of the disassembly view, at the cursor.                    *)
NextSize ==
  [byte |-> "word", word |-> "dword", dword |-> "qword", qword |-> "byte"]

CmdDefine(a, item) ==
  Command([op |-> "define", at |-> a, new |-> item, item |-> ItemAt(a), insn |-> InsnAt(a)],
          Define(db, a, item), marks, {})

CmdDefineData(a) ==
  CmdDefine(a, Raw(IF ItemAt(a) = None THEN "byte" ELSE NextSize[ItemAt(a).size]))

CmdDefineString(a) == CmdDefine(a, String)

CmdUndefine(a) ==
  Command([op |-> "undefine", at |-> a, item |-> ItemAt(a), insn |-> InsnAt(a)],
          Undefine(db, a), marks, {})

CmdForceCode(a) ==
  /\ Decode(db["byte"], a) # None
  /\ Untracked(ForceCode(db, a), Listing(a))

CmdToggleHex(a) ==
  Command([op |-> "hex", at |-> a], ToggleHex(db, a), marks, {})

(* The listing at the cursor is decoded again, and the closures do not know *)
(* it; a second NOP forgets the patch of the first.                        *)
CmdNop(a) ==
  /\ InsnAt(a) # None
  /\ LET n == Len(InsnAt(a))
         Old(b) == IF b \in Addr THEN db["byte"][b] ELSE Nop   \* past the segment: not used
     IN  Command([op |-> "nop", at |-> a, bytes |-> [i \in 1..n |-> Old(a + i - 1)]],
                 ForceCode(PatchNop(db, a, n), a), marks,
                 Listing(a) \union (IF db["patch"][a] = 0 THEN {} ELSE {<<"patch", a>>}))

(* Dialogs.  A missing entry and an empty text are the same to `old`.       *)
OldText(t, a) == IF db[t][a] = None THEN Empty ELSE db[t][a]

PutTextCmd(t, a, text) ==
  Command([op |-> "text", table |-> t, at |-> a, old |-> OldText(t, a), new |-> text],
          PutText(db, t, a, text), marks, {})

Rename(a, text) == text # Empty /\ PutTextCmd("name", a, text)
Comment(a, text) == PutTextCmd("comment", a, text)

ApplyType(a, id) ==
  Command([op |-> "type", at |-> a, old |-> db["type"][a], new |-> id],
          Put(db, "type", a, id), marks, {})

RemoveType(a) == db["type"][a] # None /\ ApplyType(a, None)

AddBookmark(a) ==
  Command([op |-> "addMark", at |-> a, index |-> Len(marks) + 1], db, Append(marks, a), {})

RemoveBookmark(i) ==
  Command([op |-> "removeMark", at |-> marks[i], index |-> i], db, RemoveAt(marks, i), {})

(* Ctrl+Z and Ctrl+Y.                                                      *)
Undo ==
  /\ undoStack # <<>>
  /\ LET e == Last(undoStack)
     IN  /\ db' = UndoOf(e, db) /\ marks' = UndoMarks(e, marks)
         /\ redoStack' = Append(redoStack, e)
  /\ undoStack' = Front(undoStack)
  /\ past' = Front(past) /\ future' = Append(future, Now)
  /\ UNCHANGED <<stained, edits>>

Redo ==
  /\ redoStack # <<>>
  /\ LET e == Last(redoStack)
     IN  /\ db' = RedoOf(e, db) /\ marks' = RedoMarks(e, marks)
         /\ undoStack' = Append(undoStack, e)
  /\ redoStack' = Front(redoStack)
  /\ future' = Front(future) /\ past' = Append(past, Now)
  /\ UNCHANGED <<stained, edits>>
----------------------------------------------------------------------------
(* Changes without an entry: the hex editor, create_func, scripts and MCP.  *)
HexEdit(a, b) == Untracked(Put(db, "byte", a, b), {<<"byte", a>>})

HexNopSelection(lo, hi) ==
  /\ lo < hi
  /\ Untracked(Blit(db, lo, [i \in 1..(hi - lo + 1) |-> Nop]), {"byte"} \X (lo..hi))

CreateFunc(a, name) ==
  /\ db["func"][a] = 0
  /\ Untracked(Put(Put(db, "func", a, 1), "name", a, name), {<<"func", a>>, <<"name", a>>})

ScriptSetText(t, a, text) == Untracked(Put(db, t, a, text), {<<t, a>>})
----------------------------------------------------------------------------
CommandAt(a) ==
  \/ CmdDefineData(a) \/ CmdDefineString(a) \/ CmdUndefine(a)
  \/ CmdToggleHex(a) \/ CmdNop(a)
  \/ \E text \in Text : Rename(a, text) \/ Comment(a, text)
  \/ \E id \in TypeId : ApplyType(a, id)
  \/ RemoveType(a) \/ AddBookmark(a)

UntrackedAt(a) ==
  \/ CmdForceCode(a)
  \/ \E b \in Byte : HexEdit(a, b)
  \/ \E hi \in Addr : HexNopSelection(a, hi)
  \/ \E name \in Text \ {Empty} : CreateFunc(a, name)
  \/ \E t \in {"name", "comment"}, text \in Text : ScriptSetText(t, a, text)

Next ==
  \/ \E a \in Addr : CommandAt(a) \/ UntrackedAt(a)
  \/ \E i \in DOMAIN marks : RemoveBookmark(i)
  \/ Undo \/ Redo

Spec == Init /\ [][Next]_vars
----------------------------------------------------------------------------
InsnValue == UNION {[1..n -> Byte] : n \in 1..Size}

(* What a table holds for an address.                                      *)
ValueOf(t) ==
  CASE t = "byte"  -> Byte
    [] t = "insn"  -> InsnValue \union {None}
    [] t = "item"  -> Item \union {None}
    [] t = "patch" -> 0..Size
    [] t \in {"hex", "func"} -> {0, 1}
    [] t = "type"  -> TypeId \union {None}
    [] OTHER       -> Text \union {None}

TablesOK(d) == DOMAIN d = Table /\ \A t \in Table : d[t] \in [Addr -> ValueOf(t)]

(* What the closures captured.                                             *)
Entry ==
       [op : {"define"}, at : Addr, new : Item, item : ValueOf("item"), insn : ValueOf("insn")]
  \union [op : {"undefine"}, at : Addr, item : ValueOf("item"), insn : ValueOf("insn")]
  \union [op : {"hex"}, at : Addr]
  \union [op : {"nop"}, at : Addr, bytes : InsnValue]
  \union [op : {"text"}, table : {"name", "comment"}, at : Addr, old : Text, new : Text]
  \union [op : {"type"}, at : Addr, old : ValueOf("type"), new : ValueOf("type")]
  \union [op : {"addMark", "removeMark"}, at : Addr, index : Nat \ {0}]

TypeOK ==
  /\ TablesOK(db)
  /\ marks \in Seq(Addr)
  /\ undoStack \in Seq(Entry) /\ Len(undoStack) <= Cap /\ Len(past) = Len(undoStack)
  /\ redoStack \in Seq(Entry) /\ Len(future) = Len(redoStack)
  /\ stained \subseteq Cell
  /\ edits \in 0..MaxEdits

(* Two states are the same but for the cells the undo stack lost track of.  *)
SameDb(d1, d2) == \A t \in Table, a \in Addr : <<t, a>> \notin stained => d1[t][a] = d2[t][a]

(* Ctrl+Z brings back the state before the command, for every table and     *)
(* the bookmarks, whatever was undone, redone, dropped at the cap or        *)
(* changed elsewhere in between; only the cells that a script, the hex      *)
(* editor, force_code or the new listing of a NOP wrote may differ.         *)
UndoRestores ==
  [][Undo => SameDb(db', Last(past).db) /\ marks' = Last(past).marks]_vars

(* "Full undo/redo for all operations" (README.md:106): when every change made  *)
(* so far is on one of the stacks, Ctrl+Z brings back all of the state.  Not so *)
(* after a NOP: the listing stays as cmd_nop decoded it anew.               *)
EveryCommandIsUndone ==
  [][Undo /\ edits = Len(undoStack) + Len(redoStack) =>
       db' = Last(past).db /\ marks' = Last(past).marks]_vars

(* Ctrl+Y leads to the state before the Ctrl+Z it takes back, and finds     *)
(* nothing to take back once a new command was given.                      *)
RedoRepeats ==
  [][Redo => /\ future # <<>>
             /\ SameDb(db', Last(future).db) /\ marks' = Last(future).marks]_vars

(* An address is listed as an instruction or as data, never both, unless    *)
(* force_code or a NOP listed it anew behind the undo stack.               *)
CodeOrData ==
  \A a \in Addr : Listing(a) \intersect stained = {} => InsnAt(a) = None \/ ItemAt(a) = None

(* Exporting writes no byte that is not in the image on the screen: what a  *)
(* patch covers is a NOP, but where the hex editor wrote.                   *)
PatchIsInImage ==
  \A a \in Addr : \A b \in a..(a + db["patch"][a] - 1) :
    <<"byte", b>> \notin stained => db["byte"][b] = Nop
=============================================================================
