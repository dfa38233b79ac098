----------------------------- MODULE MCDocument -----------------------------
(* Small instances of the document store for TLC.                          *)
EXTENDS DocumentStore, TLC
CONSTANTS u1, u2, r1, r2, c1, c2

Symmetry == Permutations(User) \cup Permutations(Request) \cup Permutations(Content)
=============================================================================
