------------------------------ MODULE ELFLoader ------------------------------
(* Loading an ELF file (src/core/loader/elf_loader.cpp).  The 32 and the 64 bit
   paths are one text twice in the code and one definition here; they differ in
   the machines they know and in the relocation section they look for.        *)
EXTENDS FileCells

Machines(class) ==
    {"X64", "X86", "ARM", "MIPS", "PPC"} \cup (IF class = 64 THEN {"ARM64", "PPC64"} ELSE {})

ELFHeaderOk(f) ==
    /\ InFile(f, 0) /\ Magic(f, 0) = "ELF"
    /\ f[0].class \in {32, 64}
    /\ ~f[0].bigEndian
    /\ f[0].machine \in Machines(f[0].class)

\* a table in the file as far as the file has it
Table(f, at, n) == {o \in at..(at + n - 1) : InFile(f, o)}
Sections(f) == Table(f, Field(f, 0, "shoff"), Field(f, 0, "shnum"))

\* the string table in section number n is all in the file
HasStrings(f, n) ==
    LET sh == Field(f, 0, "shoff") + n
    IN InFile(f, sh) /\ Field(f, sh, "off") + Field(f, sh, "size") <= Size(f)

String(f, n, index) ==
    LET sh == Field(f, 0, "shoff") + n
    IN IF index >= Field(f, sh, "size") THEN NoText ELSE Text(f, Field(f, sh, "off") + index)

\* the name of a section
NameOf(f, sh) == String(f, Field(f, 0, "shstrndx"), Field(f, sh, "strx"))

\* the segments that are loaded
ProgramSegments(f) ==
    FlattenSeq([i \in 1..Field(f, 0, "phnum") |->
        LET ph == Field(f, 0, "phoff") + i - 1
        IN IF ~InFile(f, ph) \/ ~f[ph].load THEN <<>>
           ELSE <<Segment(f, "LOAD", f[ph].va, f[ph].size, Field(f, ph, "off"),
                          Field(f, ph, "fileSize"), f[ph].exec)>>])

\* a segment is called after the last section that begins in it
ELFSegments(f) ==
    LET loaded == ProgramSegments(f)
        in(sh) == FirstSegment([segments |-> loaded], f[sh].addr)
        named(i) == {sh \in Sections(f) :
                        f[sh].addr # 0 /\ f[sh].size # 0 /\ in(sh) = i /\ NameOf(f, sh) # NoText}
        strings == Field(f, 0, "shnum") # 0 /\ Field(f, 0, "shstrndx") # 0
                   /\ HasStrings(f, Field(f, 0, "shstrndx"))
    IN [i \in 1..Len(loaded) |->
          IF strings /\ named(i) # {}
          THEN [loaded[i] EXCEPT !.name = NameOf(f, Max(named(i)))] ELSE loaded[i]]

\* the functions a symbol table defines for others; the first entry is not looked at
SymbolsOf(f, sh) ==
    LET off == Field(f, sh, "off")
        link == Field(f, sh, "link")
        shown == {sym \in (off + 1)..(off + Field(f, sh, "size") - 1) :
                    /\ f[sym].value # 0 /\ f[sym].defined
                    /\ String(f, link, Field(f, sym, "strx")) # NoText
                    /\ f[sym].func /\ f[sym].bind \in {"global", "weak"}}
    IN IF off + Field(f, sh, "size") > Size(f) \/ ~HasStrings(f, link) THEN {}
       ELSE {[name |-> String(f, link, Field(f, sym, "strx")), addr |-> f[sym].value] : sym \in shown}

ELFExports(f) ==
    UNION {SymbolsOf(f, sh) : sh \in {s \in Sections(f) : f[s].type \in {"symtab", "dynsym"}}}

\* the sections with the dynamic symbols, and with the slots of the procedure
\* linkage table; the last of each is used
DynSyms(f) == {sh \in Sections(f) : f[sh].type = "dynsym"}
PltRels(f) ==
    LET relType == IF f[0].class = 64 THEN "rela" ELSE "rel"
    IN {sh \in Sections(f) :
          /\ f[sh].type = relType /\ HasStrings(f, Field(f, 0, "shstrndx"))
          /\ NameOf(f, sh) = relType \o ".plt"}

\* as linkers write it
HasOneOfEach(f) ==
    ELFHeaderOk(f) => /\ \A s, t \in DynSyms(f) : s = t
                      /\ \A s, t \in PltRels(f) : s = t

\* the slots, named by the dynamic symbols
ELFImports(f) ==
    LET named == {sh \in DynSyms(f) : HasStrings(f, Field(f, sh, "link"))}
        rel == Max(PltRels(f))
        rels == Table(f, Field(f, rel, "off"), Field(f, rel, "size"))
        symbol(r) == Field(f, Max(DynSyms(f)), "off") + Field(f, r, "symbol")
        Import(r) == String(f, Field(f, Max(named), "link"), Field(f, symbol(r), "strx"))
    IN IF named = {} \/ PltRels(f) = {} THEN {}
       ELSE {[dll |-> "extern", name |-> Import(r), slot |-> f[r].slot] :
               r \in {r \in rels : InFile(f, symbol(r)) /\ Import(r) # NoText}}

LoadELF(f) ==
    LET segments == ELFSegments(f)
    IN IF ~ELFHeaderOk(f) \/ segments = <<>> THEN NoImage
       ELSE [kind |-> "ELF", arch |-> IF f[0].machine = "PPC64" THEN "PPC" ELSE f[0].machine,
             base |-> Min({segments[i].va : i \in 1..Len(segments)}), entry |-> f[0].entry,
             segments |-> segments, imports |-> ELFImports(f), exports |-> ELFExports(f),
             functions |-> <<>>]
=============================================================================
