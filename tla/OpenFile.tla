------------------------------ MODULE OpenFile ------------------------------
(* Opening files with the loaders, patching what was loaded and exporting the
   patched file (App::open_file and App::export_patched of src/ui/app.cpp).

   One of the files was cut short: it is still being copied or downloaded.  The
   user may open it as it is, at any length, and again when the rest of it has
   arrived.  The loaders are members of the application and used again for
   every file.                                                                *)
EXTENDS PELoader, ELFLoader, MachOLoader, DotNetLoader

CONSTANTS
  Path,         \* files the user may open
  Whole,        \* the cells of each of them
  Out,          \* the path of the exported file
  Nop,          \* what a patch writes
  Nothing,
  MaxActs       \* bound: files opened, patches and exports

ASSUME FilesAreFiles ==
    /\ Out \notin Path
    /\ \A p \in Path : IsFile(Whole[p]) /\ HasOneOfEach(Whole[p])
    /\ IsFile([o \in {0} |-> Nop])

VARIABLES
  disk,         \* path -> cells
  slow,         \* the file that is arriving
  filePath,     \* file_path_
  image,          \* img_
  native,       \* analyzer_ # nullptr
  il,           \* the database of a .NET file, Nothing for another
  machBase,     \* macho_loader_.base_addr_
  patches,      \* analyzer_->db().patches
  from,         \* history: the path and the cells image was loaded from
  promised,     \* history: what the exported file must show, by address, and which of
                \* the patches lie in memory the loader filled
  acts

openVars == <<disk, slow, filePath, image, native, il, machBase, patches, from, promised, acts>>

\* what a loader that was never used makes of a file, by its first bytes; the
\* application does not know the first bytes of a fat file
Detected(f) == IF InFile(f, 0) THEN Magic(f, 0) ELSE "none"
Load(before, f) ==
    CASE Detected(f) = "MZ"                       -> LoadPE(f)
      [] Detected(f) = "ELF"                      -> LoadELF(f)
      [] Detected(f) \in {"MachO32", "MachO64"}   -> LoadMachO(before, f)
      [] OTHER                                    -> NoImage

OpenInit ==
    /\ slow \in Path
    /\ \E n \in 0..Size(Whole[slow]) :
         disk = [p \in Path \cup {Out} |->
                   IF p = Out THEN Prefix(Whole[slow], 0)
                   ELSE IF p = slow THEN Prefix(Whole[p], n) ELSE Whole[p]]
    /\ filePath = Nothing /\ image = NoImage /\ native = FALSE /\ il = Nothing /\ machBase = 0
    /\ patches = <<>> /\ from = Nothing /\ promised = Nothing /\ acts = 0

\* the rest of the file arrives
Arrive ==
    /\ disk[slow] # Whole[slow]
    /\ disk' = [disk EXCEPT ![slow] = Whole[slow]]
    /\ UNCHANGED <<slow, filePath, image, native, il, machBase, patches, from, promised, acts>>

\* the handler forgets the path before it knows whether the file can be loaded;
\* what was open before stays when it cannot
Open(p) ==
    LET f == disk[p]
    IN /\ acts < MaxActs /\ acts' = acts + 1
       /\ Size(f) > 0 \/ p # Out
       /\ filePath' = p
       /\ machBase' = IF Detected(f) \in {"MachO32", "MachO64"} /\ MachHeaderOk(f)
                      THEN BaseAddr(machBase, f, Commands(f)) ELSE machBase
       /\ \E loaded \in {Load(machBase, f)} :
            IF loaded = NoImage
            THEN UNCHANGED <<image, native, il, patches, from>>
            ELSE /\ image' = loaded
                 /\ native' = ~(loaded.kind = "PE" /\ IsDotNet(loaded))
                 /\ il' = IF native' THEN Nothing ELSE ILDatabase(LoadDotNet(loaded))
                 /\ patches' = <<>>
                 /\ from' = [path |-> p, cells |-> f]
       /\ UNCHANGED <<disk, slow, promised>>

\* an instruction is listed wherever the bytes of an executable segment decode,
\* and zeros do
Listed(va) ==
    LET s == FirstSegment(image, va)
        seg == image.segments[s]
    IN /\ s # 0 /\ seg.exec /\ va - seg.va < Len(seg.data)
       /\ "code" \in DOMAIN ByteAt(image, va) \/ ByteAt(image, va) = Zero

\* the bytes of a segment that the file does not have
Filled(va) ==
    LET seg == image.segments[FirstSegment(image, va)]
    IN va - seg.va >= seg.fileSize

\* the user replaces an instruction of the listing
Patch(va) ==
    /\ acts < MaxActs /\ acts' = acts + 1
    /\ native /\ Listed(va)
    /\ patches' = [a \in DOMAIN patches \cup {va} |-> IF a = va THEN Nop ELSE patches[a]]
    /\ UNCHANGED <<disk, slow, filePath, image, native, il, machBase, from, promised>>

OffsetByOne(seg, va) == seg.off + va - seg.va + 1      \* mutant: counted from one

\* where a patch goes in the file
OffsetOf(seg, va) == seg.off + va - seg.va

Patched(f) ==
    LET at(va) == OffsetOf(image.segments[FirstSegment(image, va)], va)
        inFile == {va \in DOMAIN patches : FirstSegment(image, va) # 0 /\ InFile(f, at(va))}
    IN [o \in DOMAIN f |-> IF \E va \in inFile : at(va) = o
                           THEN patches[CHOOSE va \in inFile : at(va) = o] ELSE f[o]]

Shown(i) == [va \in UNION {i.segments[s].va..(i.segments[s].va + Len(i.segments[s].data) - 1) :
                              s \in 1..Len(i.segments)} |-> ByteAt(i, va)]

\* the patches go into a copy of the file at file_path_, whichever was loaded
Export ==
    /\ acts < MaxActs /\ acts' = acts + 1
    /\ image # NoImage /\ native
    /\ disk' = [disk EXCEPT ![Out] = Patched(disk[filePath])]
    /\ promised' = IF disk[filePath] = from.cells
                   THEN [shown |-> patches @@ Shown(image),
                         filled |-> {va \in DOMAIN patches : Filled(va)}]
                   ELSE Nothing
    /\ UNCHANGED <<slow, filePath, image, native, il, machBase, patches, from>>

OpenNext ==
    \/ Arrive
    \/ \E p \in Path \cup {Out} : Open(p)
    \/ \E va \in DOMAIN Shown(image) : Patch(va)
    \/ Export

OpenSpec == OpenInit /\ [][OpenNext]_openVars

-----------------------------------------------------------------------------
WholeImage == [p \in Path |-> Load(0, Whole[p])]

\* A file that ends too early gives less than the whole file and nothing that
\* is not in it: each segment is one of the whole file's, with all its bytes or
\* with none, and every import slot, exported address and function is one of the
\* whole file's.  The exception is an exported name whose function the file ends
\* before: it has the address of the image.
IsPartOf(part, whole) ==
    LET Addrs(exports) == {e.addr : e \in exports}
        Slots(imports) == {i.slot : i \in imports}
    IN /\ \A s \in ToSet(part.segments) : \E w \in ToSet(whole.segments) :
            s.va = w.va /\ s.off = w.off /\ s.data \in {<<>>, w.data}
       /\ Slots(part.imports) \subseteq Slots(whole.imports)
       /\ Addrs(part.exports) \subseteq Addrs(whole.exports) \cup {part.base}
       /\ IsPrefix(part.functions, whole.functions)

\* The image is of its file alone: a loader used for many files makes of each what
\* a new loader would, with nothing of a file that was opened before or whose load
\* failed half way, and a file that was cut short gives a part of the whole file.
LoadInventsNothing ==
    from # Nothing =>
        /\ image = Load(0, from.cells)
        /\ from.path # Out => IsPartOf(image, WholeImage[from.path])

Reopened == from # Nothing /\ from.path = Out /\ promised # Nothing /\ from.cells = disk[Out]

\* A file that was patched and exported shows the patches when it is opened, at
\* the addresses that were patched, and is otherwise what it was, as long as only
\* bytes that the file has were patched.
PatchComesBack ==
    (Reopened /\ promised.filled = {}) => Shown(image) = promised.shown

\* README.md:97, "Patched binary": the exported file is the binary with its patches,
\* whichever instructions of the listing they replace.
EveryPatchComesBack ==
    Reopened => Shown(image) = promised.shown

\* The methods found in a .NET file do not share a byte, and every instruction
\* of the listing has its bytes to itself and lies in the method it belongs to.
MethodsAreApart ==
    il # Nothing =>
        LET dn == LoadDotNet(image)
            Span(m) == m.rva..(m.rva + m.head + m.size - 1)
            Bytes(a) == a..(a + il.insns[a].len - 1)
        IN /\ \A i, j \in 1..Len(dn.methods) :
                i # j => Span(dn.methods[i]) \cap Span(dn.methods[j]) = {}
           /\ \A a, b \in DOMAIN il.insns : a # b => Bytes(a) \cap Bytes(b) = {}
           /\ \A a \in DOMAIN il.insns :
                \E m \in ToSet(dn.methods) : Bytes(a) \subseteq Span(m)
=============================================================================
