--------------------------- MODULE MCContractExec ---------------------------
(* Small instances of ContractExec for TLC. *)
EXTENDS ContractExec, TLC

CONSTANTS a, b, s1, s2

MCUsers == {a, b}
MCSims == {s1, s2}

Symmetry == Permutations(MCUsers) \cup Permutations(MCSims)
=============================================================================
