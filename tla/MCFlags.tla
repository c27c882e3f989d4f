------------------------------ MODULE MCFlags -------------------------------
(* Instances of Flags for TLC.  Threads and flags are interchangeable.     *)
EXTENDS Flags, TLC

Symmetry == Permutations(Thread) \cup Permutations(Flag)

=============================================================================
