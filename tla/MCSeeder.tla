------------------------------ MODULE MCSeeder ------------------------------
(* Seeder on small instances. *)
EXTENDS Seeder, TLC

Interchangeable == Permutations(Seeders)
=============================================================================
