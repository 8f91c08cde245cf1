---------------------------- MODULE DotNetLoader ----------------------------
(* What the loader of .NET files finds in the image of a PE file
   (src/core/loader/dotnet_loader.cpp): the types, by the names in the metadata,
   and the methods, by scanning the code for bytes that look like the header of
   one.  Any byte of the code may look like one.

   A cell of code is a byte.  It is an opcode with `width` bytes of operand, and
   at the same time the header of a method of `tiny` bytes, or of a fat one,
   when these are not zero.                                                    *)
EXTENDS FileCells, TLC

CONSTANT FatHeader      \* the least size of a fat header, 12

ASSUME FatHeaderIsNumber == FatHeader \in Nat

HasMetadata(seg) == \E i \in 1..Len(seg.data) : Magic(seg.data, i) = "BSJB"
\* detect
IsDotNet(img) == \E i \in 1..Len(img.segments) : HasMetadata(img.segments[i])

\* the bytes of a stream, counted from the metadata root; the last of a name
\* counts, and one that the segment ends in does not
Stream(data, root, name) ==
    LET ours == SelectSeq(data[root].streams, LAMBDA st :
                    st.name = name /\ root - 1 + st.off + st.size <= Len(data))
    IN IF ours = <<>> THEN <<>>
       ELSE SubSeq(data, root + Last(ours).off, root + Last(ours).off + Last(ours).size - 1)

\* a stream of the first metadata in the image
Metadata(img, name) ==
    LET data == SelectSeq(img.segments, HasMetadata)[1].data
    IN Stream(data, Min({i \in 1..Len(data) : Magic(data, i) = "BSJB"}), name)

\* the names in the string heap that look like those of types; the first is empty
TypesIn(img) ==
    LET heap == Metadata(img, "#Strings")
    IN IF heap = <<>> THEN <<>> ELSE SelectSeq(Tail(heap), LAMBDA c : "type" \in DOMAIN c)

\* where the code goes on behind the byte at pos.  A prefix takes the next byte
\* with it; an unknown opcode is one byte long, with or without a prefix; an
\* operand that the code ends in is not read
Prefixed(code, pos) == Magic(code, pos + 1) = "FE"
Known(code, pos) == ~Prefixed(code, pos) /\ "op" \in DOMAIN code[pos + 1]
Behind(code, pos) ==
    LET opcode == pos + (IF Prefixed(code, pos) /\ pos + 1 < Len(code) THEN 2 ELSE 1)
        width == Field(code, pos + 1, "width")
    IN IF Known(code, pos) /\ opcode + width <= Len(code) THEN opcode + width ELSE opcode

ILInsn(code, pos) ==
    [offset |-> pos,
     op |-> IF Known(code, pos) THEN code[pos + 1].op ELSE "unknown",
     len |-> IF Known(code, pos) THEN Behind(code, pos) - pos ELSE 1]

\* decode_il: the instructions of the bytes of a method
DecodeIL(code) ==
    LET next(p) == IF p < Len(code) THEN Behind(code, p) ELSE p
        pos[n \in 1..Len(code)] == IF n = 1 THEN 0 ELSE next(pos[n-1])
        insn(p) == IF p < Len(code) THEN <<ILInsn(code, p)>> ELSE <<>>
    IN FlattenSeq([n \in 1..Len(code) |-> insn(pos[n])])

\* the header at place i of a segment, and the code behind it: size 0 when there
\* is none
HeaderAt(data, i) ==
    LET tiny == Field(data, i, "tiny")
        fat  == Field(data, i, "fat")
        head == Max({FatHeader, Field(data, i, "head")})
    IN IF tiny > 0 /\ i + tiny <= Len(data) THEN [head |-> 1, size |-> tiny]
       ELSE IF fat > 0 /\ i - 1 + FatHeader <= Len(data) /\ i - 1 + head + fat <= Len(data)
       THEN [head |-> head, size |-> fat]
       ELSE [head |-> 0, size |-> 0]

StepOver(header) ==     \* mutant: the scan goes on inside the method
    IF header.head = 0 THEN 1 ELSE header.head

\* the bytes the scan goes on by
Advance(header) == IF header.size = 0 THEN 1 ELSE header.head + header.size

\* the method whose header is at place i; it ends in a return
MethodAt(seg, i) ==
    LET h == HeaderAt(seg.data, i)
    IN [rva |-> seg.va + i - 1, head |-> h.head, size |-> h.size,
        il |-> DecodeIL(SubSeq(seg.data, i + h.head, i + h.head + h.size - 1))]
IsMethod(m) == m.size > 0 /\ m.il # <<>> /\ Last(m.il).op = "ret"

\* the scan of a segment
MethodsOf(seg) ==
    LET next(i) == IF i <= Len(seg.data) THEN i + Advance(HeaderAt(seg.data, i)) ELSE i
        place[n \in 1..Len(seg.data)] == IF n = 1 THEN 1 ELSE next(place[n-1])
        found(i) == LET m == MethodAt(seg, i)
                    IN IF i <= Len(seg.data) /\ IsMethod(m) THEN <<m>> ELSE <<>>
    IN IF ~seg.exec THEN <<>> ELSE FlattenSeq([n \in 1..Len(seg.data) |-> found(place[n])])

\* nothing is looked for where there is no stream of tables
LoadDotNet(img) ==
    IF Metadata(img, "#~") = <<>> THEN [types |-> <<>>, methods |-> <<>>]
    ELSE [types |-> TypesIn(img),
          methods |-> FlattenSeq([i \in 1..Len(img.segments) |-> MethodsOf(img.segments[i])])]

\* the instructions of the methods, counted from the address of the header
Listing(methods) ==
    FlattenSeq([i \in 1..Len(methods) |->
        [k \in 1..Len(methods[i].il) |->
            [addr |-> methods[i].rva + methods[i].il[k].offset, insn |-> methods[i].il[k]]]])

\* populate_db: a function for each method, and its instructions; one replaces
\* another at its address
ILDatabase(dn) ==
    LET all == Listing(dn.methods)
        last(a) == Max({k \in DOMAIN all : all[k].addr = a})
    IN [funcs |-> {m.rva : m \in ToSet(dn.methods)},
        insns |-> [a \in {all[k].addr : k \in DOMAIN all} |-> all[last(a)].insn]]
=============================================================================
