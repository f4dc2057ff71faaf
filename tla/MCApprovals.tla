---------------------------- MODULE MCApprovals ----------------------------
(***************************************************************************)
(* Instances for TLC of StepUp with all who decide and of AuditProof.  They  *)
(* share no state and their product would show nothing more than each alone, *)
(* so a behaviour is one of one of them, and the other stays as it is        *)
(* initially.                                                               *)
(***************************************************************************)
EXTENDS MCStepUp, AuditProof

VARIABLE part

approvalsVars == <<vars, proofVars, part>>

ApprovalsInit ==
    /\ Init /\ ProofInit
    /\ part \in {"stepup", "audit"}

ApprovalsNext ==
    /\ \/ part = "stepup" /\ Next
       \/ part # "stepup" /\ UNCHANGED vars
    /\ \/ part = "audit" /\ ProofNext
       \/ part # "audit" /\ UNCHANGED proofVars
    /\ UNCHANGED part

ApprovalsSpec == ApprovalsInit /\ [][ApprovalsNext]_approvalsVars

=============================================================================
