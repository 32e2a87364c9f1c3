--------------------------- MODULE MCProfileCache ---------------------------
(* ProfileCache on small instances. *)
EXTENDS ProfileCache, TLC

Interchangeable == Permutations(Procs)
=============================================================================
