--------------------------- MODULE MCAuthService ---------------------------
(* AuthService with small constants for TLC.                               *)
EXTENDS AuthService, TLC

Interchangeable == Permutations(Procs)
=============================================================================
