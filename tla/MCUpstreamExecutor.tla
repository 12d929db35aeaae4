------------------------- MODULE MCUpstreamExecutor -------------------------
(***************************************************************************)
(* Instances of UpstreamExecutor for TLC.                                  *)
(***************************************************************************)
EXTENDS UpstreamExecutor, TLC

\* Everything client.request may end with when it raises RequestErrors only.
HandledResults == AllResults \ {"unhandled_error"}

\* Tasks are interchangeable.  Used for safety only.
TaskSymmetry == Permutations(Calls)

=============================================================================
