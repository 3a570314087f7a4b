------------------------------ MODULE MCQuotaFs -----------------------------
(* QuotaFs for TLC: commands, names and files are interchangeable.         *)
EXTENDS QuotaFs, TLC

Interchangeable == Permutations(Commands) \cup Permutations(Names) \cup Permutations(Inodes)
=============================================================================
