------------------------------ MODULE MCGrants ------------------------------
(***************************************************************************)
(* Instances for TLC of what is granted: Delegation and GrantBundle.  They   *)
(* share no state and their product would show nothing more than each alone, *)
(* so a behaviour is one of one of them, and the other stays as it is        *)
(* initially.  The tables begin with an old grant or with a mapped policy;   *)
(* a change that an operator makes brings them together.                     *)
(***************************************************************************)
EXTENDS MCDelegation, MCGrantBundle

VARIABLE part

grantsVars == <<vars, grantVars, part>>

GrantsInit ==
    /\ Init /\ GrantInit
    /\ part \in {"ucans", "bundle"}
    /\ grants = <<>> \/ mapped = {}
    /\ part # "bundle" =>
          /\ \A a \in GrantAgents : agents[a].status = "none"
          /\ \A p \in Policies : policies[p] = {}

GrantsNext ==
    /\ \/ part = "ucans" /\ Next
       \/ part # "ucans" /\ UNCHANGED vars
    /\ \/ part = "bundle" /\ GrantNext
       \/ part # "bundle" /\ UNCHANGED grantVars
    /\ UNCHANGED part

GrantsSpec == GrantsInit /\ [][GrantsNext]_grantsVars

(* The agents of both are the same model values, so one permutation renames  *)
(* them in both.                                                            *)
GrantsSymmetry == Symmetry \cup MCSymmetry

=============================================================================
