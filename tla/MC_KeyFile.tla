----------------------------- MODULE MC_KeyFile -----------------------------
(* Small instances of KeyFile.                                             *)
EXTENDS KeyFile, TLC

AnyStart == {Absent, OldKey}
CallSymmetry == Permutations(Calls)
=============================================================================
