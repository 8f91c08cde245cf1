---------------------------- MODULE ProjectFile ----------------------------
(* The files of a project (src/core/database/database.cpp): what Database::save
   writes into each and what Database::load reads out of it.  A file is a
   sequence of cells: a number, an address or a text.  A text is an identity
   and a length; its length is written in LengthMod = 2^16 values, and that
   much of the text.

   A read behind the end of a file leaves its variable uninitialised: it has
   the value `junk` gives it.                                                  *)
EXTENDS Integers, Sequences, SequencesExt, FiniteSets, TLC

CONSTANT LengthMod      \* 2^16

ASSUME LengthAssumption == LengthMod \in Nat \ {0}

\* in the order save writes them
Files == <<"meta", "funcs", "names", "comments", "xrefs", "types">>

\* the keys of a hash table, in the order it has them
Keys(t) == SetToSeq(DOMAIN t)
Written(text) == [text EXCEPT !.len = @ % LengthMod]

WriteTable(t) ==
    <<Cardinality(DOMAIN t)>>
    \o FlattenSeq([i \in 1..Cardinality(DOMAIN t) |->
          LET a == Keys(t)[i] IN <<a, t[a].len % LengthMod, Written(t[a])>>])

WriteXrefs(xrefs) ==
    <<Len(xrefs)>> \o FlattenSeq([i \in 1..Len(xrefs) |-> <<xrefs[i].from, xrefs[i].to>>])

\* definitions: the id, the number of fields and the fields, the number of
\* members and the members; then the types applied to addresses
WriteTypes(defs, applied) ==
    <<Cardinality(DOMAIN defs)>>
    \o FlattenSeq([i \in 1..Cardinality(DOMAIN defs) |->
          LET id == Keys(defs)[i]
          IN <<id, Len(defs[id].fields)>> \o defs[id].fields
             \o <<Len(defs[id].members)>> \o defs[id].members])
    \o <<Cardinality(DOMAIN applied)>>
    \o FlattenSeq([i \in 1..Cardinality(DOMAIN applied) |->
          LET a == Keys(applied)[i] IN <<a, applied[a]>>])

\* what save writes into a file for an image and a database
Contents(file, img, db) ==
    CASE file = "meta"     -> <<img.base, img.entry>>
      [] file = "funcs"    -> WriteTable([e \in DOMAIN db.funcs |-> db.funcs[e].name])
      [] file = "names"    -> WriteTable(db.names)
      [] file = "comments" -> WriteTable(db.comments)
      [] file = "xrefs"    -> WriteXrefs(db.xrefs)
      [] file = "types"    -> WriteTypes(db.defs, db.types)

-----------------------------------------------------------------------------
Cell(cells, i, junk) == IF i <= Len(cells) THEN cells[i] ELSE junk

\* the entries of names.bin and comments.bin: an address, a length and as much of
\* a text; a later entry replaces an earlier
ReadTable(cells, junk) ==
    LET n == Cell(cells, 1, junk.count)
        addr(i) == Cell(cells, 3 * i - 1, junk.addr)
        text(i) == [Cell(cells, 3 * i + 1, junk.text) EXCEPT !.len = Cell(cells, 3 * i, junk.count)]
    IN [a \in {addr(i) : i \in 1..n} |->
          text(CHOOSE i \in 1..n : addr(i) = a /\ \A j \in (i + 1)..n : addr(j) # a)]

SkipNoFields(cells, at, junk) ==   \* mutant: the fields are not read
    at + 3 + Cell(cells, at + 2, junk.count)

\* the place behind the definition at `at`, which load reads and does not keep
SkipDefinition(cells, at, junk) ==
    LET members == at + 2 + Cell(cells, at + 1, junk.count)
    IN members + 1 + Cell(cells, members, junk.count)

\* the applied types of types.bin
ReadApplied(cells, junk) ==
    LET defs == Cell(cells, 1, junk.count)
        at[i \in 0..defs] == IF i = 0 THEN 2 ELSE SkipDefinition(cells, at[i - 1], junk)
        start == at[defs]
        n == Cell(cells, start, junk.count)
        addr(i) == Cell(cells, start + 2 * i - 1, junk.addr)
        type(i) == Cell(cells, start + 2 * i, junk.count)
    IN [a \in {addr(i) : i \in 1..n} |->
          type(CHOOSE i \in 1..n : addr(i) = a /\ \A j \in (i + 1)..n : addr(j) # a)]
=============================================================================
