------------------------------ MODULE MCStepUp ------------------------------
(***************************************************************************)
(* An instance of StepUp for TLC: two calls of one agent ask for the same    *)
(* thing with two UCANs (the SDK re-mints an expiring UCAN), so they meet on *)
(* one row of push_approvals.                                                *)
(***************************************************************************)
EXTENDS StepUp, TLC

CONSTANTS a1, a2, c1, c2, k1, k2

Request(command, resource) == [command |-> command, resource |-> resource]

MCTarget == {Request("charge", "x")}
MCTargets == {Request("charge", "x"), Request("charge", "y"), Request("refund", "x")}
MCTargetOf == [c \in Calls |-> Request("charge", "x")]
MCCidOf == [c \in Calls |-> IF c = c1 THEN k1 ELSE k2]

(* Rows, retries and sessions are interchangeable; calls are not.           *)
Symmetry == Permutations(Approvals) \cup Permutations(Retries)
                \cup Permutations(Sessions)

=============================================================================
