----------------------------- MODULE MCTransfer -----------------------------
(* Users, keys and threads for Transfer; keys and threads are interchangeable. *)
EXTENDS Transfer, TLC

Symmetry == Permutations(Users) \union Permutations(Keys) \union Permutations(Threads)
=============================================================================
