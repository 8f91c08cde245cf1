------------------------------ MODULE MCSession ------------------------------
(* A PE file, an ELF file, a .NET one and one that cannot be loaded.            *)
EXTENDS Session

CONSTANTS exe, elf, net, bad

MCFile == {exe, elf, net, bad}

MCKind == [f \in MCFile |->
             CASE f = net -> "dotnet" [] f = bad -> "broken" [] f = elf -> "elf" [] f = exe -> "pe"]
=============================================================================
