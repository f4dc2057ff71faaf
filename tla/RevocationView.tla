--------------------------- MODULE RevocationView ---------------------------
(***************************************************************************)
(* What a PDP's revocation cache promises, apart from how it is refreshed:   *)
(* what a process denies is what the table held at some time, so that        *)
(* revocations take effect in the order in which they were committed, and    *)
(* that time only moves on.  A UCAN that was denied once is denied until the *)
(* process dies.                                                             *)
(***************************************************************************)
CONSTANTS Cids, Pdps

VARIABLES
    revoked,    \* the UCANs the customer has revoked
    versions,   \* what that set has been so far
    running,    \* the PDP processes that run
    view        \* the UCANs each PDP denies as revoked

viewVars == <<revoked, versions, running, view>>

ViewInit ==
    /\ revoked = {}
    /\ versions = {{}}
    /\ running = [p \in Pdps |-> FALSE]
    /\ view = [p \in Pdps |-> {}]

Withdraw(cids) ==
    /\ revoked' = revoked \cup cids
    /\ versions' = versions \cup {revoked'}
    /\ UNCHANGED <<running, view>>

Start(p) ==
    /\ ~running[p]
    /\ running' = [running EXCEPT ![p] = TRUE]
    /\ UNCHANGED <<revoked, versions, view>>

(* A running process moves on to what the table held then or later.         *)
Learn(p, cids) ==
    /\ running[p]
    /\ cids \in versions
    /\ view[p] \subseteq cids
    /\ view' = [view EXCEPT ![p] = cids]
    /\ UNCHANGED <<revoked, versions, running>>

(* Only with the process is its view lost.                                  *)
Stop(p) ==
    /\ running[p]
    /\ running' = [running EXCEPT ![p] = FALSE]
    /\ view' = [view EXCEPT ![p] = {}]
    /\ UNCHANGED <<revoked, versions>>

ViewNext ==
    \/ \E cids \in SUBSET Cids : Withdraw(cids)
    \/ \E p \in Pdps : Start(p) \/ Stop(p) \/ \E cids \in versions : Learn(p, cids)

ViewSpec == ViewInit /\ [][ViewNext]_viewVars

=============================================================================
