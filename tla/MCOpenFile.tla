----------------------------- MODULE MCOpenFile -----------------------------
(* One small file of each kind.  The PE file has a descriptor with and one
   without a lookup table, an import by number, an export whose number has no
   function and zero-filled memory; the ELF file has both symbol tables and its
   section headers behind its code; of the Mach-O files one has a segment
   without sections and one has sections, one of them with no bytes in the file;
   the .NET file has methods whose code looks like headers of other methods.   *)
EXTENDS OpenFile

MCNop == [code |-> "nop"]

Cells(seq) == [o \in 0..(Len(seq) - 1) |-> seq[o + 1]]
Empty == [end |-> TRUE]
Code(op) == [code |-> op]
Value(v) == [value |-> v]
Name(t) == [text |-> t]

PE == Cells(<<
    [magic |-> "MZ", lfanew |-> 1, text |-> "MZ"],
    [magic |-> "PE"],
    [sections |-> 3, optSize |-> 1],
    [magic |-> "PE32+", base |-> 100, entry |-> 20,
     dirs |-> [imports |-> [rva |-> 30, size |-> 3], exports |-> [rva |-> 43, size |-> 1],
               exceptions |-> [rva |-> 51, size |-> 3]]],
    [name |-> ".text", rva |-> 20, size |-> 3, raw |-> 7, rawSize |-> 2, exec |-> TRUE],
    [name |-> ".rdata", rva |-> 30, size |-> 23, raw |-> 9, rawSize |-> 23, exec |-> FALSE],
    [name |-> ".bss", rva |-> 60, size |-> 2, raw |-> 0, rawSize |-> 0, exec |-> FALSE],
    Code("push"), Code("ret"),
    \* 9, address 30: the descriptors; 33: names of the first, 36: its slots
    [lookup |-> 33, thunk |-> 36, name |-> 41], [thunk |-> 39, name |-> 41], Empty,
    Value(42), [value |-> 5, ordinal |-> 1], Empty, Value(42), [value |-> 5, ordinal |-> 1], Empty,
    Value(42), Empty, Name("kernel32"), Name("exit"),
    \* 22, address 43: the exports
    [funcs |-> 44, names |-> 46, ords |-> 48, numFuncs |-> 2, numNames |-> 2],
    Value(20), Value(21), Value(50), Value(50), Value(1), Value(7), Name("start"),
    \* 30, address 51: the exceptions
    [begin |-> 20, end |-> 21], [begin |-> 21, end |-> 22]>>)

ELF == Cells(<<
    [magic |-> "ELF", class |-> 64, bigEndian |-> FALSE, machine |-> "PPC64", entry |-> 40,
     phoff |-> 1, phnum |-> 3, shoff |-> 8, shnum |-> 7, shstrndx |-> 1],
    [load |-> TRUE, va |-> 40, size |-> 2, off |-> 4, fileSize |-> 2, exec |-> TRUE],
    [load |-> FALSE],
    [load |-> TRUE, va |-> 30, size |-> 3, off |-> 6, fileSize |-> 2, exec |-> FALSE],
    Code("stw"), Code("blr"), Value(0), Value(40),
    \* 8: the section headers
    [type |-> "null", addr |-> 0, size |-> 0, strx |-> 0],
    [type |-> "strtab", addr |-> 0, size |-> 4, strx |-> 0, off |-> 15],
    [type |-> "progbits", addr |-> 40, size |-> 2, strx |-> 1, off |-> 4],
    [type |-> "dynsym", addr |-> 0, size |-> 3, strx |-> 0, off |-> 19, link |-> 4],
    [type |-> "strtab", addr |-> 0, size |-> 2, strx |-> 0, off |-> 22],
    [type |-> "rela", addr |-> 0, size |-> 2, strx |-> 2, off |-> 24],
    [type |-> "symtab", addr |-> 0, size |-> 3, strx |-> 0, off |-> 26, link |-> 4],
    Name(""), Name(".text"), Name("rela.plt"), Name(""),
    \* 19: the dynamic symbols, their names, the slots; 26: the symbols
    Empty,
    [strx |-> 1, value |-> 0, defined |-> FALSE, func |-> TRUE, bind |-> "global"],
    [strx |-> 1, value |-> 41, defined |-> TRUE, func |-> TRUE, bind |-> "weak"],
    Name(""), Name("puts"),
    [slot |-> 30, symbol |-> 1], [slot |-> 31, symbol |-> 9],
    Empty,
    [strx |-> 1, value |-> 40, defined |-> TRUE, func |-> TRUE, bind |-> "local"],
    [strx |-> 1, value |-> 41, defined |-> TRUE, func |-> TRUE, bind |-> "global"]>>)

\* 32 bits: one segment without sections, entry by the thread state
Kext == Cells(<<
    [magic |-> "MachO32", cpu |-> "X86", ncmds |-> 3],
    [cmd |-> "segment", size |-> 1, segname |-> "__TEXT", va |-> 10, vmSize |-> 3, off |-> 5,
     fileSize |-> 2, nsects |-> 0, exec |-> TRUE],
    [cmd |-> "segment", size |-> 1, segname |-> "__EMPTY", va |-> 5, vmSize |-> 0, off |-> 0,
     fileSize |-> 0, nsects |-> 0, exec |-> FALSE],
    [cmd |-> "unixthread", size |-> 1, entry |-> 11],
    Empty, Code("push"), Code("ret")>>)

\* 64 bits: sections, symbols, entry as an offset
Dylib == Cells(<<
    [magic |-> "MachO64", cpu |-> "X64", ncmds |-> 4],
    [cmd |-> "segment", size |-> 3, segname |-> "__TEXT", va |-> 50, vmSize |-> 4, off |-> 0,
     fileSize |-> 4, nsects |-> 2, exec |-> TRUE],
    [segname |-> "__TEXT", name |-> "__text", addr |-> 52, bytes |-> 2, off |-> 8],
    [segname |-> "__TEXT", name |-> "__const", addr |-> 54, bytes |-> 1, off |-> 10],
    [cmd |-> "segment", size |-> 2, segname |-> "__DATA", va |-> 60, vmSize |-> 2, off |-> 0,
     fileSize |-> 0, nsects |-> 1, exec |-> FALSE],
    [segname |-> "__DATA", name |-> "__bss", addr |-> 60, bytes |-> 2, off |-> 0],
    [cmd |-> "main", size |-> 1, entry |-> 8],
    [cmd |-> "symtab", size |-> 1, symoff |-> 11, nsyms |-> 3, stroff |-> 14, strSize |-> 2],
    Code("push"), Code("ret"), Value(0),
    [strx |-> 1, inSection |-> TRUE, value |-> 52, external |-> TRUE],
    [strx |-> 1, inSection |-> FALSE, value |-> 0, external |-> TRUE],
    [strx |-> 9, inSection |-> TRUE, value |-> 53, external |-> TRUE],
    Name(""), Name("main")>>)

\* the bytes of the code: what they are as opcodes and as headers
ret == [op |-> "ret", tiny |-> 10]
one == [op |-> "ldloc.0", tiny |-> 1]
two == [op |-> "stloc.0", tiny |-> 2]
arg == [op |-> "ldarg.s", width |-> 1, tiny |-> 3]
fat == [op |-> "stloc.s", width |-> 1, fat |-> 2]
call == [op |-> "call", width |-> 4]
zero == [op |-> "nop"]
fe == [magic |-> "FE"]
odd == [odd |-> TRUE]

Assembly == Cells(<<
    [magic |-> "MZ", lfanew |-> 1, text |-> "MZ"],
    [magic |-> "PE"],
    [sections |-> 2, optSize |-> 1],
    [magic |-> "PE32", base |-> 200, entry |-> 10, dirs |-> <<>>],
    [name |-> ".text", rva |-> 10, size |-> 30, raw |-> 12, rawSize |-> 29, exec |-> TRUE],
    [name |-> ".meta", rva |-> 50, size |-> 6, raw |-> 6, rawSize |-> 6, exec |-> FALSE],
    [magic |-> "BSJB", streams |-> <<[name |-> "#~", off |-> 1, size |-> 1],
                                     [name |-> "#Strings", off |-> 2, size |-> 4],
                                     [name |-> "#US", off |-> 5, size |-> 9]>>],
    Empty, Empty, [type |-> "Program"], Name("main"), [type |-> "Helper"],
    one, ret, two, one, ret, two, call, ret, arg, zero, fe, ret,
    arg, arg, zero, ret, fat, zero, zero, odd, ret, zero, odd, arg, fe, one, ret, two, fe, ret, arg>>)

Fat == Cells(<<
    [magic |-> "Fat", narch |-> 2],
    [cpu |-> "X86", off |-> 3, size |-> 7], [cpu |-> "X64", off |-> 10, size |-> 16]>>
    \o [i \in 1..7 |-> Kext[i - 1]] \o [i \in 1..16 |-> Dylib[i - 1]])

MCPath == {"pe", "elf", "kext", "dylib", "assembly"}
MCWhole == [pe |-> PE, elf |-> ELF, kext |-> Kext, dylib |-> Dylib, assembly |-> Assembly]

\* The application hands no fat file to the loader, which would load the slice
\* for the wider architecture as if it were a file.
ASSUME FatIsItsSlice == LoadMachO(0, Fat) = LoadMachO(0, Dylib)
=============================================================================
