------------------------------ MODULE PELoader ------------------------------
(* Loading a PE file (src/core/loader/pe_loader.cpp).  A failure of the headers
   refuses the file; a table that is missing, or that the file ends in, is left
   as far as it was read.                                                      *)
EXTENDS FileCells

CONSTANTS
  MaxSections,  \* kMaxSections
  MaxImports,   \* kMaxImports, descriptors
  MaxThunks,    \* kMaxILTEntries, imports of a descriptor
  MaxExports    \* kMaxExports

ASSUME LimitsAreNumbers == {MaxSections, MaxImports, MaxThunks, MaxExports} \subseteq Nat

PEAt(f)   == Field(f, 0, "lfanew")
CoffAt(f) == PEAt(f) + 1
OptAt(f)  == CoffAt(f) + 1

PEHeadersOk(f) ==
    /\ InFile(f, 0) /\ Magic(f, 0) = "MZ"
    /\ InFile(f, PEAt(f)) /\ Magic(f, PEAt(f)) = "PE"
    /\ InFile(f, CoffAt(f)) /\ Field(f, CoffAt(f), "sections") <= MaxSections
    /\ InFile(f, OptAt(f)) /\ Magic(f, OptAt(f)) \in {"PE32", "PE32+"}

\* the section table follows the optional header; it ends where the file ends
PESections(f, base) ==
    LET first == OptAt(f) + Field(f, CoffAt(f), "optSize")
        count == RunOf(first, Field(f, CoffAt(f), "sections"), DOMAIN f)
        Section(at) == Segment(f, f[at].name, base + Field(f, at, "rva"), Field(f, at, "size"),
                               Field(f, at, "raw"), Field(f, at, "rawSize"), f[at].exec)
    IN [i \in 1..count |-> Section(first + i - 1)]

\* 0 for an address that no section has
RvaToRaw(img, rva) ==
    LET holds == {i \in 1..Len(img.segments) :
                    LET seg == img.segments[i]
                    IN rva >= seg.va - img.base /\ rva < seg.va - img.base + seg.fileSize}
        seg == img.segments[Min(holds)]
    IN IF holds = {} THEN 0 ELSE seg.off + rva - (seg.va - img.base)

\* the directory: its address and size, 0 when the header has none
Directory(f, name) ==
    LET dirs == f[OptAt(f)].dirs
    IN IF name \in DOMAIN dirs THEN dirs[name] ELSE [rva |-> 0, size |-> 0]

\* the imports of one descriptor: the names are taken from the lookup table, or
\* from the slots where there is none; slot i belongs to name i
ImportsOf(f, img, desc) ==
    LET slots == Field(f, desc, "thunk")
        names == IF Field(f, desc, "lookup") # 0 THEN Field(f, desc, "lookup") ELSE slots
        at == RvaToRaw(img, names)
        count == IF at = 0 THEN 0
                 ELSE RunOf(at, MaxThunks, NonZero(f, "value"))
        hint(i) == RvaToRaw(img, Field(f, at + i - 1, "value"))
    IN {[dll |-> Text(f, RvaToRaw(img, Field(f, desc, "name"))),
         name |-> IF Field(f, at + i - 1, "ordinal") # 0 THEN "ord"
                  ELSE IF hint(i) # 0 THEN Text(f, hint(i)) ELSE NoText,
         slot |-> img.base + slots + i - 1] : i \in 1..count}

PEImports(f, img) ==
    LET dir == Directory(f, "imports").rva
        at == RvaToRaw(img, dir)
        count == RunOf(at, MaxImports, NonZero(f, "lookup") \cup NonZero(f, "thunk"))
    IN IF dir = 0 \/ at = 0 THEN {}
       ELSE UNION {ImportsOf(f, img, at + i - 1) : i \in 1..count}

\* a name whose number has no function keeps the address of the image
ExportAddress(f, funcs, count, index) ==
    IF funcs # 0 /\ index < count /\ InFile(f, funcs + index)
    THEN Field(f, funcs + index, "value") ELSE 0

PEExports(f, img) ==
    LET dir == Directory(f, "exports").rva
        at == RvaToRaw(img, dir)
        funcs == RvaToRaw(img, Field(f, at, "funcs"))
        names == RvaToRaw(img, Field(f, at, "names"))
        ords  == RvaToRaw(img, Field(f, at, "ords"))
        count == RunOf(names, Field(f, at, "numNames"),
                       {o \in DOMAIN f : InFile(f, ords + o - names)})
        index(i) == Field(f, ords + i - 1, "value")
    IN IF \/ dir = 0 \/ at = 0 \/ ~InFile(f, at)
          \/ Field(f, at, "numFuncs") > MaxExports \/ Field(f, at, "numNames") > MaxExports
          \/ names = 0 \/ ords = 0
       THEN {}
       ELSE {[name |-> Text(f, RvaToRaw(img, Field(f, names + i - 1, "value"))),
              addr |-> img.base + ExportAddress(f, funcs, Field(f, at, "numFuncs"), index(i))] :
             i \in 1..count}

\* the functions of the exception table, for 64 bits, up to an empty entry
PEFunctions(f, img) ==
    LET dir == Directory(f, "exceptions")
        at == RvaToRaw(img, dir.rva)
        count == RunOf(at, dir.size, NonZero(f, "begin"))
    IN IF img.arch # "X64" \/ dir.rva = 0 \/ at = 0 THEN <<>>
       ELSE [i \in 1..count |-> [first |-> img.base + Field(f, at + i - 1, "begin"),
                                 last |-> img.base + Field(f, at + i - 1, "end")]]

\* what the headers alone say
PEBare(f) ==
    LET base == Field(f, OptAt(f), "base")
    IN [arch |-> IF Magic(f, OptAt(f)) = "PE32+" THEN "X64" ELSE "X86", base |-> base,
        segments |-> PESections(f, base)]

LoadPE(f) ==
    LET img == PEBare(f)
    IN IF ~PEHeadersOk(f) THEN NoImage
       ELSE [kind |-> "PE", arch |-> img.arch, base |-> img.base,
             entry |-> img.base + Field(f, OptAt(f), "entry"), segments |-> img.segments,
             imports |-> PEImports(f, img), exports |-> PEExports(f, img),
             functions |-> PEFunctions(f, img)]
=============================================================================
