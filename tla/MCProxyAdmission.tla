-------------------------- MODULE MCProxyAdmission --------------------------
(***************************************************************************)
(* Instances of ProxyAdmission for TLC.                                    *)
(***************************************************************************)
EXTENDS ProxyAdmission

=============================================================================
