----------------------------- MODULE MachOLoader -----------------------------
(* Loading a Mach-O file (src/core/loader/macho_loader.cpp).  A fat file has one
   slice for each architecture; the loader takes one and reads only it.  The
   loader is a member of the application and keeps base_addr_ between loads.   *)
EXTENDS FileCells, TLC

\* the slice of a fat file: the first for ARM64, else the last for X64, else the
\* first for a 32 bit architecture
Chosen(f) ==
    LET archs == [i \in 1..RunOf(1, f[0].narch, DOMAIN f) |-> f[i]]
        Pick(taken, a) ==
            CASE taken.cpu = "ARM64" -> taken
              [] taken.cpu # "ARM64" /\ a.cpu \in {"X64", "ARM64"} -> a
              [] taken.cpu # "ARM64" /\ a.cpu \in {"X86", "ARM"} /\ taken.size = 0 -> a
              [] OTHER -> taken
    IN FoldLeft(Pick, [cpu |-> "none", off |-> 0, size |-> 0], archs)

MachHeaderOk(f) ==
    /\ InFile(f, 0) /\ Magic(f, 0) \in {"MachO32", "MachO64"}
    /\ f[0].cpu \in {"X64", "X86", "ARM64", "ARM"}

\* a load command that the file does not end in
IsCommand(f, at) ==
    LET size == Field(f, at, "size")
    IN InFile(f, at) /\ size >= 1 /\ at + size <= Size(f)

\* where the load commands are; the loop ends at the first that is none
CommandAt(f) ==
    LET next(c) == IF IsCommand(f, c) THEN c + Field(f, c, "size") ELSE c
        at[i \in 1..Field(f, 0, "ncmds")] == IF i = 1 THEN 1 ELSE next(at[i-1])
    IN at
Commands(f) == {at \in ToSet(CommandAt(f)) : IsCommand(f, at)}

Named(f, at) == f[at].segname \o (IF f[at].name = "" THEN "" ELSE "." \o f[at].name)

\* a segment with sections gives a segment for each of them; the bytes are read
\* from the file even for a section that has none there
SegmentsOf(f, at) ==
    IF f[at].vmSize = 0 /\ f[at].fileSize = 0 THEN <<>>
    ELSE IF Field(f, at, "nsects") = 0
    THEN <<Segment(f, f[at].segname, f[at].va, f[at].vmSize, Field(f, at, "off"),
                   Field(f, at, "fileSize"), f[at].exec)>>
    ELSE [s \in 1..RunOf(at + 1, Field(f, at, "nsects"), DOMAIN f) |->
            Segment(f, Named(f, at + s), f[at + s].addr, f[at + s].bytes, Field(f, at + s, "off"),
                    Field(f, at + s, "bytes"), f[at].exec)]

\* the external symbols of a section; the table must be all in the file
MachExports(f, at) ==
    LET symoff == Field(f, at, "symoff")
        NameOf(sym) == Text(f, Field(f, at, "stroff") + Field(f, sym, "strx"))
        shown == {sym \in symoff..(symoff + Field(f, at, "nsyms") - 1) :
                    /\ f[sym].inSection /\ f[sym].value # 0 /\ f[sym].external
                    /\ Field(f, sym, "strx") < Field(f, at, "strSize") /\ NameOf(sym) # NoText}
    IN IF \/ Field(f, at, "nsyms") = 0 \/ Field(f, at, "strSize") = 0
          \/ Field(f, at, "stroff") + Field(f, at, "strSize") > Size(f)
          \/ symoff + Field(f, at, "nsyms") > Size(f)
       THEN {}
       ELSE {[name |-> NameOf(sym), addr |-> f[sym].value] : sym \in shown}

\* the names that begin with __TEXT
TextNames == {"__TEXT", "__TEXT.__text", "__TEXT.__const"}

\* an entry below the image is an offset into the first segment of __TEXT
MachEntry(entry, base, segments) ==
    LET text == {i \in 1..Len(segments) : segments[i].name \in TextNames}
        found == CASE entry = 0                                     -> 0
                   [] entry # 0 /\ entry >= base                    -> entry
                   [] entry # 0 /\ entry < base /\ text # {}        -> segments[Min(text)].va + entry
                   [] entry # 0 /\ entry < base /\ text = {}        -> base + entry
    IN IF found = 0 THEN segments[1].va ELSE found

Lowest(addrs) == IF addrs = {} THEN 0 ELSE Min(addrs)

Mapped(f, cmds) == {f[at].va : at \in {c \in cmds :
                      f[c].cmd = "segment" /\ (f[c].vmSize # 0 \/ f[c].fileSize # 0)}}

KeepLowest(before, f, cmds) ==  \* mutant: base_addr_ is not reset
    Lowest(Mapped(f, cmds) \cup ({before} \ {0}))

\* base_addr_ behind the commands, whatever it was before them
BaseAddr(before, f, cmds) == Lowest(Mapped(f, cmds))

MachSegments(f) ==
    FlattenSeq([i \in 1..Field(f, 0, "ncmds") |->
        LET at == CommandAt(f)[i]
        IN IF IsCommand(f, at) /\ f[at].cmd = "segment" THEN SegmentsOf(f, at) ELSE <<>>])

LoadSlice(before, f) ==
    LET segments == MachSegments(f)
        base == BaseAddr(before, f, Commands(f))
        starts == {at \in Commands(f) : f[at].cmd \in {"main", "unixthread"}}
        entry == IF starts = {} THEN 0 ELSE f[Max(starts)].entry
    IN IF ~MachHeaderOk(f) \/ segments = <<>> THEN NoImage
       ELSE [kind |-> "MachO", arch |-> f[0].cpu, base |-> base,
             entry |-> MachEntry(entry, base, segments), segments |-> segments,
             imports |-> {},
             exports |-> UNION {MachExports(f, at) : at \in {c \in Commands(f) : f[c].cmd = "symtab"}},
             functions |-> <<>>]

LoadMachO(before, f) ==
    LET slice == Chosen(f)
    IN IF ~InFile(f, 0) THEN NoImage
       ELSE IF Magic(f, 0) # "Fat" THEN LoadSlice(before, f)
       ELSE IF slice.size = 0 \/ slice.off + slice.size > Size(f) THEN NoImage
       ELSE LoadSlice(before, Slice(f, slice.off, slice.size))
=============================================================================
