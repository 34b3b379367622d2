------------------------- MODULE MCDistributedSearch -------------------------
(* Instances of DistributedSearch for TLC. *)
EXTENDS DistributedSearch, TLC

CONSTANTS alice, bob

\* Socket objects are interchangeable, and so are peers when all of them may come to us.
MCSymmetry == Permutations(Sockets) \union Permutations(Users)
=============================================================================
