---------------------------- MODULE MCEditHistory ----------------------------
(* Two bytes, "push" "ret"-like: an instruction of two bytes whose second    *)
(* byte begins one of its own, so that NOPs can overlap.                    *)
EXTENDS EditHistory

CONSTANTS nop, long, short

MCLen == (nop :> 1) @@ (long :> 2) @@ (short :> 1)
MCFile == <<long, short>>
=============================================================================
