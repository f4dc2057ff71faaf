-------------------------- MODULE ApprovalLifecycle --------------------------
(***************************************************************************)
(* What a step-up approval promises, apart from how the services keep it:    *)
(* it is asked for, decided once, and an approval lets one request through.  *)
(***************************************************************************)
EXTENDS Integers

CONSTANTS Approvals, Requests

VARIABLES
    decision,   \* the state of each approval
    unlocked    \* the requests each approval has let through

lifecycleVars == <<decision, unlocked>>

LifecycleInit ==
    /\ decision = [a \in Approvals |-> "absent"]
    /\ unlocked = [a \in Approvals |-> {}]

Ask(a) ==
    /\ decision[a] = "absent"
    /\ decision' = [decision EXCEPT ![a] = "pending"]
    /\ UNCHANGED unlocked

Resolve(a, verdict) ==
    /\ decision[a] = "pending"
    /\ decision' = [decision EXCEPT ![a] = verdict]
    /\ UNCHANGED unlocked

Unlock(a, r) ==
    /\ decision[a] = "approved"
    /\ unlocked[a] = {}
    /\ unlocked' = [unlocked EXCEPT ![a] = {r}]
    /\ UNCHANGED decision

LifecycleNext ==
    \E a \in Approvals :
        \/ Ask(a)
        \/ \E verdict \in {"approved", "denied"} : Resolve(a, verdict)
        \/ \E r \in Requests : Unlock(a, r)

LifecycleSpec == LifecycleInit /\ [][LifecycleNext]_lifecycleVars

=============================================================================
