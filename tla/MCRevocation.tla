---------------------------- MODULE MCRevocation ----------------------------
(***************************************************************************)
(* An instance of Revocation for TLC.  PDPs do not interact, and neither do  *)
(* the UCANs of a customer except through the fetches they share, so both    *)
(* are interchangeable.                                                      *)
(***************************************************************************)
EXTENDS Revocation, TLC

Symmetry == Permutations(Pdps) \cup Permutations(Cids)

=============================================================================
