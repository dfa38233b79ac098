----------------------------- MODULE Iteration -----------------------------
(***************************************************************************)
(* A `for` loop of the program: F[1], F[2], ..., F[n], the bodies of its    *)
(* rounds, applied in turn.  F is a function value, not an operator, and   *)
(* the recursion is that of a recursive function, so that the module can   *)
(* be used under the proof system (the folds of the community modules take *)
(* an operator, about which no theorem can be instantiated).               *)
(***************************************************************************)
EXTENDS Integers

Iterate(F, start, n) ==
  LET after[i \in 0..n] == IF i = 0 THEN start ELSE F[i][after[i - 1]]
  IN  after[n]
=============================================================================
