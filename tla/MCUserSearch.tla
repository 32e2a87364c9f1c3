---------------------------- MODULE MCUserSearch ----------------------------
(* UserSearch on small instances. *)
EXTENDS UserSearch, TLC

Interchangeable == Permutations(Uuids)

\* Pages and sizes at, next to and far from the limits, for a MaxInt of 31:
\* (-15 - 1) * 4 and (17 - 1) * 4 wrap around to 0.
SomePages == {-15, -1, 0, 2, 17}
SomeSizes == {-2, 0, 1, 2, 4, 31}
=============================================================================
