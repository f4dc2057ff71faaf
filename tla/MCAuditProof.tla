---------------------------- MODULE MCAuditProof ----------------------------
(***************************************************************************)
(* An instance of AuditProof for TLC.  Events are interchangeable.          *)
(***************************************************************************)
EXTENDS AuditProof

Symmetry == Permutations(Events)

=============================================================================
