------------------------------ MODULE MCTokens ------------------------------
(* Instances of Tokens for TLC. *)
EXTENDS Tokens, TLC

Symmetry == Permutations(Thread) \cup Permutations(Token)

=============================================================================
