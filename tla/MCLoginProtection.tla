------------------------- MODULE MCLoginProtection -------------------------
(***************************************************************************)
(* Instances of LoginProtection for TLC.                                   *)
(***************************************************************************)
EXTENDS LoginProtection, TLC

\* Login attempts are interchangeable.
AttemptSymmetry == Permutations(Attempts)

=============================================================================
