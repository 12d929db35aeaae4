--------------------------- MODULE MCTokenBucket ---------------------------
(***************************************************************************)
(* Instances of TokenBucket for TLC.                                       *)
(***************************************************************************)
EXTENDS TokenBucket, TLC

\* Calls of check() are interchangeable.
RequestSymmetry == Permutations(Requests)

=============================================================================
