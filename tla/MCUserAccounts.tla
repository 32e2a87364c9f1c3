--------------------------- MODULE MCUserAccounts ---------------------------
(* UserAccounts on small instances. *)
EXTENDS UserAccounts, TLC

Interchangeable == Permutations(Procs) \cup Permutations(Emails)
=============================================================================
