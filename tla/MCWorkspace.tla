---------------------------- MODULE MCWorkspace ----------------------------
(* A binary of two instructions and a byte of data, one instruction referring to
   the other and to the byte, in an address space of eight.                    *)
EXTENDS Workspace

CONSTANTS exe, elf, nop

MCPath  == {exe, elf}
MCAddr  == 0..7
MCBase  == exe :> 1 @@ elf :> 2
MCTexts == {[id |-> "short", len |-> 1], [id |-> "long", len |-> 3]}
MCLayout ==
    [segs |-> <<[va |-> 0, size |-> 2, off |-> 1], [va |-> 2, size |-> 1, off |-> 3]>>,
     insns |-> {0, 1}, entry |-> 0, places |-> {0, 2},
     funcs |-> (0 :> [name |-> [id |-> "sub", len |-> 1], blocks |-> {0}]),
     refs |-> <<[from |-> 0, to |-> 1], [from |-> 1, to |-> 2]>>]
MCFileBytes == <<"header", "a", "b", "c">>
=============================================================================
