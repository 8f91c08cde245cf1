------------------------------ MODULE FileCells ------------------------------
(* A binary as the loaders of src/core/loader read it, and the image they make
   of it (PEImage, which all of them fill).

   A file is a function from offsets to cells.  A cell stands for one structure
   of the file: a header, a table entry, a name, a slot or a unit of code; all
   are one unit long.  It is a record, and reading a field it does not have
   gives zero.  A file that was cut short has the cells below its size.        *)
EXTENDS Integers, Sequences, SequencesExt, FiniteSets, FiniteSetsExt

Size(f) == Cardinality(DOMAIN f)
Prefix(f, n) == [i \in 0..(n - 1) |-> f[i]]
Slice(f, off, n) == [i \in 0..(n - 1) |-> f[off + i]]

\* ptr_at: the whole structure lies inside the file
InFile(f, off) == off + 1 <= Size(f)
Field(f, off, name) == IF name \in DOMAIN f[off] THEN f[off][name] ELSE 0
Magic(f, off) == IF "magic" \in DOMAIN f[off] THEN f[off].magic ELSE "other"

\* the fields that say where something is and how much of it there is
Numbers == {"lfanew", "sections", "optSize", "base", "rva", "raw", "rawSize", "lookup", "thunk",
            "funcs", "names", "ords", "numNames", "value", "phoff", "phnum", "shoff", "shnum",
            "shstrndx", "off", "size", "fileSize", "strx", "link", "symbol", "ncmds", "nsects",
            "bytes", "symoff", "nsyms", "stroff", "strSize", "tiny", "fat", "head", "width"}
IsFile(f) ==
    /\ IsFiniteSet(DOMAIN f) /\ DOMAIN f = 0..(Size(f) - 1)
    /\ \A o \in DOMAIN f, name \in Numbers : Field(f, o, name) \in Nat
    /\ \A o \in DOMAIN f : Magic(f, o) \in {"PE32", "PE32+"} =>
          \A d \in DOMAIN f[o].dirs : f[o].dirs[d].rva \in Nat /\ f[o].dirs[d].size \in Nat

\* safe_string: the text that begins here, empty behind the end of the file
NoText == ""
Text(f, off) == IF InFile(f, off) /\ "text" \in DOMAIN f[off] THEN f[off].text ELSE NoText

NonZero(f, name) == {o \in DOMAIN f : Field(f, o, name) # 0}

\* how many cells from `off` on are good, no more than `limit`
RunOf(off, limit, good) ==
    CHOOSE k \in 0..limit : /\ \A i \in 0..(k - 1) : off + i \in good
                            /\ k = limit \/ off + k \notin good

Zero == [zero |-> TRUE]     \* a cell that the loader fills, not the file

PartOfData(f, off, fileSize, size) ==   \* mutant: what there is of the bytes, then zeros
    [i \in 1..Max({fileSize, size}) |->
       IF i <= fileSize /\ InFile(f, off + i - 1) THEN f[off + i - 1] ELSE Zero]

\* the bytes of a segment: none when the file ends before them, and filled with
\* zeros up to the size in memory
SegmentData(f, off, fileSize, size) ==
    IF off + fileSize > Size(f) THEN <<>>
    ELSE [i \in 1..Max({fileSize, size}) |-> IF i <= fileSize THEN f[off + i - 1] ELSE Zero]

Segment(f, name, va, size, off, fileSize, exec) ==
    [name |-> name, va |-> va, size |-> size, off |-> off, fileSize |-> fileSize,
     exec |-> exec, data |-> SegmentData(f, off, fileSize, size)]

Holds(seg, va) == seg.va <= va /\ va < seg.va + seg.size

\* the first segment that holds an address
FirstSegment(img, va) ==
    LET holds == {i \in 1..Len(img.segments) : Holds(img.segments[i], va)}
    IN IF holds = {} THEN 0 ELSE Min(holds)

\* Analyzer::va_to_ptr
ByteAt(img, va) ==
    LET s == FirstSegment(img, va)
    IN IF s = 0 \/ va - img.segments[s].va >= Len(img.segments[s].data) THEN Zero
       ELSE img.segments[s].data[va - img.segments[s].va + 1]

\* a load that failed: std::nullopt
NoImage == [segments |-> <<>>]
=============================================================================
