------------------------------ MODULE Minting ------------------------------
(***************************************************************************)
(* The life of an agent in the control plane: operators suspend, restore and *)
(* delete it and issue and revoke its API keys while calls mint UCANs for    *)
(* it, against the customer's monthly counter.  Every await of a route is a  *)
(* step; nothing but single statements is atomic.                            *)
(*                                                                          *)
(* One agent, in one month.  The parents that mint child UCANs for it and    *)
(* their keys stay valid; ucans.revoke is in Revocation, and what a UCAN      *)
(* grants in Delegation.                                                     *)
(***************************************************************************)
EXTENDS Integers, Sequences, FiniteSets

CONSTANTS
    Mints,          \* requests the control plane serves at the same time
    Keys,           \* the agent's API keys
    Cap,            \* mintPerMonth of the customer's plan
    MaxCommands,    \* bound on the commands of one request
    MaxUcans        \* bound on the UCANs that are issued

ASSUME MintAssumption ==
    /\ {Cap, MaxCommands, MaxUcans} \subseteq Nat \ {0}
    /\ IsFiniteSet(Mints)

VARIABLES
    agentRow,       \* the agent's status and whether its connection is approved
    apiKeys,        \* its rows of api_keys
    mintCount,      \* the month's row of usage_counters
    calls,          \* the requests
    ucans,          \* the agent's rows of ucan_issues
    deletion        \* agents.delete

mintVars == <<agentRow, apiKeys, mintCount, calls, ucans, deletion>>

-----------------------------------------------------------------------------
(* State                                                                    *)

(* "key" to "count" are those of the middleware and of usage.increment, then *)
(* mintUcan checks and inserts for one command after the other.  overtaken   *)
(* remembers that the agent was deleted between the check and the insert.    *)
MintCalls == [pc : {"idle", "agent", "usage", "count", "check", "insert"},
              via : {"key", "child", "dashboard"},
              left : 0 .. MaxCommands, overtaken : BOOLEAN]

NoCall == [pc |-> "idle", via |-> "key", left |-> 0, overtaken |-> FALSE]

Issues == [via : {"key", "child", "dashboard"}, overtaken : BOOLEAN,
           revoked : BOOLEAN]

Deletions == [pc : {"none", "list", "revoke", "keys", "done"}, cids : SUBSET Nat]

MintTypeOK ==
    /\ agentRow \in [status : {"active", "disabled", "deleted"}, approved : BOOLEAN]
    /\ apiKeys \in [Keys -> {"none", "live", "revoked"}]
    /\ mintCount \in Nat
    /\ calls \in [Mints -> MintCalls]
    /\ ucans \in Seq(Issues)
    /\ deletion \in Deletions

(* agents.create, with or without requireApproval.                          *)
MintInit ==
    /\ agentRow \in [status : {"active"}, approved : BOOLEAN]
    /\ apiKeys = [k \in Keys |-> "none"]
    /\ mintCount = 0
    /\ calls = [c \in Mints |-> NoCall]
    /\ ucans = <<>>
    /\ deletion = [pc |-> "none", cids |-> {}]

-----------------------------------------------------------------------------
(* Operators                                                                *)

(* agents.update and denyConnection: no look at the status the row has.     *)
SetStatus(status) ==
    /\ agentRow' = [agentRow EXCEPT !.status = status]
    /\ UNCHANGED <<apiKeys, mintCount, calls, ucans, deletion>>

ApproveConnection ==
    /\ agentRow' = [agentRow EXCEPT !.approved = TRUE]
    /\ UNCHANGED <<apiKeys, mintCount, calls, ucans, deletion>>

(* apiKeys.create needs the agent to exist, not to be active.               *)
CreateKey(k) ==
    /\ apiKeys[k] = "none"
    /\ apiKeys' = [apiKeys EXCEPT ![k] = "live"]
    /\ UNCHANGED <<agentRow, mintCount, calls, ucans, deletion>>

RevokeKey(k) ==
    /\ apiKeys[k] = "live"
    /\ apiKeys' = [apiKeys EXCEPT ![k] = "revoked"]
    /\ UNCHANGED <<agentRow, mintCount, calls, ucans, deletion>>

(* agents.delete, statement by statement.  One delete at a time.            *)
DeleteStatus ==
    /\ deletion.pc \in {"none", "done"}
    /\ agentRow' = [agentRow EXCEPT !.status = "deleted"]
    /\ calls' = [c \in Mints |->
                    IF calls[c].pc = "insert"
                    THEN [calls[c] EXCEPT !.overtaken = TRUE] ELSE calls[c]]
    /\ deletion' = [pc |-> "list", cids |-> {}]
    /\ UNCHANGED <<apiKeys, mintCount, ucans>>

DeleteList ==
    /\ deletion.pc = "list"
    /\ deletion' = [pc |-> "revoke", cids |-> DOMAIN ucans]
    /\ UNCHANGED <<agentRow, apiKeys, mintCount, calls, ucans>>

DeleteRevokes ==
    /\ deletion.pc = "revoke"
    /\ ucans' = [i \in DOMAIN ucans |->
                    IF i \in deletion.cids
                    THEN [ucans[i] EXCEPT !.revoked = TRUE] ELSE ucans[i]]
    /\ deletion' = [deletion EXCEPT !.pc = "keys"]
    /\ UNCHANGED <<agentRow, apiKeys, mintCount, calls>>

DeleteKeys ==
    /\ deletion.pc = "keys"
    /\ apiKeys' = [k \in Keys |->
                      IF apiKeys[k] = "live" THEN "revoked" ELSE apiKeys[k]]
    /\ deletion' = [pc |-> "done", cids |-> {}]
    /\ UNCHANGED <<agentRow, mintCount, calls, ucans>>

(* A statement fails, or the process stops, half way: what was done stays.  *)
DeleteAborts ==
    /\ deletion.pc \in {"list", "revoke", "keys"}
    /\ deletion' = [pc |-> "none", cids |-> {}]
    /\ UNCHANGED <<agentRow, apiKeys, mintCount, calls, ucans>>

-----------------------------------------------------------------------------
(* Calls                                                                    *)

Goes(c, pc) == calls' = [calls EXCEPT ![c].pc = pc]

Refused(c) == calls' = [calls EXCEPT ![c] = NoCall]

(* POST /v1/mint-ucan: apiKeyAuth selects a key that is not revoked.        *)
KeyCall(c) ==
    /\ calls[c].pc = "idle"
    /\ \E k \in Keys : apiKeys[k] = "live"
    /\ calls' = [calls EXCEPT ![c] = [NoCall EXCEPT !.pc = "agent"]]
    /\ UNCHANGED <<agentRow, apiKeys, mintCount, ucans, deletion>>

(* POST /v1/mint-child-ucan with a parent's key.                            *)
ChildCall(c) ==
    /\ calls[c].pc = "idle"
    /\ calls' = [calls EXCEPT ![c] =
                    [NoCall EXCEPT !.pc = "usage", !.via = "child"]]
    /\ UNCHANGED <<agentRow, apiKeys, mintCount, ucans, deletion>>

(* ucans.mint from the dashboard: neither a key nor a counter.              *)
DashboardCall(c) ==
    /\ calls[c].pc = "idle"
    /\ calls' = [calls EXCEPT ![c] =
                    [NoCall EXCEPT !.pc = "check", !.via = "dashboard", !.left = 1]]
    /\ UNCHANGED <<agentRow, apiKeys, mintCount, ucans, deletion>>

(* apiKeyAuth: the agent the key is bound to.                               *)
AuthAgent(c) ==
    /\ calls[c].pc = "agent"
    /\ IF agentRow.approved /\ agentRow.status = "active"
       THEN Goes(c, "usage") ELSE Refused(c)
    /\ UNCHANGED <<agentRow, apiKeys, mintCount, ucans, deletion>>

(* usage.increment: getUsage, then the upsert, which does not look again.   *)
ReadUsage(c) ==
    /\ calls[c].pc = "usage"
    /\ IF mintCount >= Cap THEN Refused(c) ELSE Goes(c, "count")
    /\ UNCHANGED <<agentRow, apiKeys, mintCount, ucans, deletion>>

(* Only then is the body parsed; it may be refused, and any number of        *)
(* commands has been counted as one.                                         *)
CountUsage(c) ==
    /\ calls[c].pc = "count"
    /\ mintCount' = mintCount + 1
    /\ \/ Refused(c)
       \/ \E n \in 1 .. IF calls[c].via = "key" THEN MaxCommands ELSE 1 :
             calls' = [calls EXCEPT ![c].pc = "check", ![c].left = n]
    /\ UNCHANGED <<agentRow, apiKeys, ucans, deletion>>

(* trusts the middleware's look at the agent *)
CheckAgentTrusts(c) ==
    /\ calls[c].pc = "check"
    /\ Goes(c, "insert")
    /\ UNCHANGED <<agentRow, apiKeys, mintCount, ucans, deletion>>

(* mintUcan reads the agent.  mintChildUcan reads the child's row too, but   *)
(* not its status.                                                           *)
CheckAgent(c) ==
    /\ calls[c].pc = "check"
    /\ IF calls[c].via = "child" \/ agentRow.status = "active"
       THEN Goes(c, "insert") ELSE Refused(c)
    /\ UNCHANGED <<agentRow, apiKeys, mintCount, ucans, deletion>>

Issue(c) ==
    /\ calls[c].pc = "insert"
    /\ Len(ucans) < MaxUcans
    /\ ucans' = Append(ucans, [via |-> calls[c].via,
                               overtaken |-> calls[c].overtaken, revoked |-> FALSE])
    /\ IF calls[c].left > 1
       THEN calls' = [calls EXCEPT ![c].pc = "check", ![c].left = @ - 1,
                                   ![c].overtaken = FALSE]
       ELSE Refused(c)
    /\ UNCHANGED <<agentRow, apiKeys, mintCount, deletion>>

-----------------------------------------------------------------------------

MintNext ==
    \/ \E status \in {"active", "disabled"} : SetStatus(status)
    \/ ApproveConnection
    \/ \E k \in Keys : CreateKey(k) \/ RevokeKey(k)
    \/ DeleteStatus \/ DeleteList \/ DeleteRevokes \/ DeleteKeys \/ DeleteAborts
    \/ \E c \in Mints :
          \/ KeyCall(c) \/ ChildCall(c) \/ DashboardCall(c) \/ AuthAgent(c)
          \/ ReadUsage(c) \/ CountUsage(c) \/ CheckAgent(c) \/ Issue(c)

MintSpec == MintInit /\ [][MintNext]_mintVars

-----------------------------------------------------------------------------
(* Properties                                                               *)

(* Of a deleted agent's UCANs, a delete that ran to its end leaves valid only*)
(* those whose minting had read the agent before the delete and inserted     *)
(* after its list, and those a parent minted, for which no code reads the    *)
(* child's status.                                                           *)
DeleteLeavesFew ==
    agentRow.status = "deleted" /\ deletion.pc = "done" =>
        \A i \in DOMAIN ucans :
            ~ucans[i].revoked => ucans[i].overtaken \/ ucans[i].via = "child"

(* "so concurrent callers can't double-spend the cap" (usage.ts): the month's *)
(* counter never passes what the plan allows.                                *)
CapHolds == mintCount <= Cap

(* What does hold: it passes the cap by the calls that had read it below the *)
(* cap at the same time, never by more, however many are made.               *)
CapPassedByFew == mintCount <= Cap + Cardinality(Mints) - 1

=============================================================================
