-------------------------- MODULE IntentEnvelopes --------------------------
(***************************************************************************)
(* POST /v1/intent: an agent in dynamic mode states what it is about to do.  *)
(* Inside an envelope an operator approved before, the control plane mints a *)
(* UCAN silently; outside, or when the intent is risky, it asks for a        *)
(* step-up, and the retry with the cosigner creates the envelope.            *)
(*                                                                          *)
(* One agent.  A resource constraint is the set of resources it admits, so   *)
(* constraintCovers is inclusion.  Windows end in steps of their own.        *)
(***************************************************************************)
EXTENDS Integers, Sequences, FiniteSets

CONSTANTS
    Resources,      \* what constraints are about
    Actions,        \* commands an intent may name
    Risky,          \* what hasHighRiskAction, hasSensitivePath and
                    \* isOrgAdminAction find: actions and resources
    Calls,          \* requests served at the same time
    MaxRequests,    \* bound on the rows of push_approvals
    MaxEnvelopes    \* bound on the rows of envelopes

VARIABLES
    dynamicAgent,   \* the agent's status and mode
    requests,       \* rows of push_approvals for /__envelope__
    envelopes,      \* rows of envelopes, oldest first
    intents,        \* the calls
    minted          \* what has been minted, and from which envelope

intentVars == <<dynamicAgent, requests, envelopes, intents, minted>>

-----------------------------------------------------------------------------
(* State                                                                    *)

Intents == [constraint : (SUBSET Resources) \ {{}}, actions : (SUBSET Actions) \ {{}}]

Covers(outer, inner) ==
    /\ inner.constraint \subseteq outer.constraint
    /\ inner.actions \subseteq outer.actions

RiskyIntent(intent) == (intent.actions \cup intent.constraint) \cap Risky # {}

Requests == [intent : Intents, state : {"pending", "approved", "denied", "expired"},
             originalUcan : BOOLEAN, standing : BOOLEAN,
             cosigner : {"none", "live", "expired"}]

Envelopes == [intent : Intents, standing : BOOLEAN,
              state : {"active", "expired", "revoked"}]

IntentCalls == [pc : {"idle", "list", "verify", "validate", "create", "envelope", "mint"},
                intent : Intents, row : Nat, envelope : Nat]

IntentTypeOK ==
    /\ dynamicAgent \in [active : BOOLEAN, mode : {"static", "dynamic"}]
    /\ requests \in Seq(Requests)
    /\ envelopes \in Seq(Envelopes)
    /\ \A c \in Calls : intents[c] \in IntentCalls
    /\ minted \subseteq [intent : Intents, envelope : Nat]

NoIntent == [pc |-> "idle", intent |-> CHOOSE i \in Intents : TRUE, row |-> 0,
             envelope |-> 0]

IntentInit ==
    /\ dynamicAgent = [active |-> TRUE, mode |-> "dynamic"]
    /\ requests = <<>>
    /\ envelopes = <<>>
    /\ intents = [c \in Calls |-> NoIntent]
    /\ minted = {}

-----------------------------------------------------------------------------
(* The route                                                                *)

(* The agent's mode is read, and the call goes one of two ways.             *)
Intent(c, intent, row) ==
    /\ intents[c].pc = "idle"
    /\ dynamicAgent.mode = "dynamic"
    /\ intents' = [intents EXCEPT ![c] =
           [NoIntent EXCEPT !.pc = IF row = 0 THEN "list" ELSE "validate",
                            !.intent = intent, !.row = row]]
    /\ UNCHANGED <<dynamicAgent, requests, envelopes, minted>>

Covering(intent) ==
    {e \in DOMAIN envelopes :
        envelopes[e].state = "active" /\ Covers(envelopes[e].intent, intent)}

(* listActiveEnvelopes and the heuristics of classifyIntent; the newest      *)
(* envelope that covers the intent.                                          *)
Classify(c) ==
    /\ intents[c].pc = "list"
    /\ LET covering == Covering(intents[c].intent)
           silent == ~RiskyIntent(intents[c].intent) /\ covering # {}
       IN  intents' = [intents EXCEPT ![c].pc = IF silent THEN "verify" ELSE "create",
                                      ![c].envelope =
              IF silent THEN CHOOSE e \in covering : \A d \in covering : d <= e ELSE 0]
    /\ UNCHANGED <<dynamicAgent, requests, envelopes, minted>>

(* The coherence verifier, if there is one: a model's verdict, "incoherent"  *)
(* on every failure.                                                         *)
Verify(c) ==
    /\ intents[c].pc = "verify"
    /\ \E pc \in {"mint", "create"} : intents' = [intents EXCEPT ![c].pc = pc]
    /\ UNCHANGED <<dynamicAgent, requests, envelopes, minted>>

(* createStepUpApproval: the pending row of the same intent again, refreshed *)
(* if its time had passed, or a new one, without the CID of any UCAN.        *)
Ask(c) ==
    /\ intents[c].pc = "create"
    /\ LET same == {i \in DOMAIN requests : /\ requests[i].intent = intents[c].intent
                                            /\ requests[i].state \in {"pending", "expired"}}
       IN  IF same # {}
           THEN requests' = [i \in DOMAIN requests |->
                    IF i \in same THEN [requests[i] EXCEPT !.state = "pending"]
                    ELSE requests[i]]
           ELSE /\ Len(requests) < MaxRequests
                /\ requests' = Append(requests,
                      [intent |-> intents[c].intent, state |-> "pending",
                       originalUcan |-> FALSE, standing |-> FALSE, cosigner |-> "none"])
    /\ intents' = [intents EXCEPT ![c] = NoIntent]
    /\ UNCHANGED <<dynamicAgent, envelopes, minted>>

(* validateCosignerForIntent; the intent must be the approved one exactly.   *)
(* The row is not marked as used.                                            *)
ValidateCosigner(c) ==
    /\ intents[c].pc = "validate"
    /\ LET row == requests[intents[c].row]
           valid == /\ row.state = "approved"
                    /\ row.cosigner = "live"
                    /\ row.intent = intents[c].intent
       IN  intents' = [intents EXCEPT ![c] =
              IF valid THEN [@ EXCEPT !.pc = "envelope"] ELSE NoIntent]
    /\ UNCHANGED <<dynamicAgent, requests, envelopes, minted>>

CreateEnvelope(c) ==
    /\ intents[c].pc = "envelope"
    /\ Len(envelopes) < MaxEnvelopes
    /\ envelopes' = Append(envelopes,
          [intent |-> intents[c].intent, state |-> "active",
           standing |-> requests[intents[c].row].standing])
    /\ intents' = [intents EXCEPT ![c].pc = "mint",
                                  ![c].envelope = Len(envelopes) + 1]
    /\ UNCHANGED <<dynamicAgent, requests, minted>>

(* mintUcan, for the first of the actions; the envelope is not read again.   *)
MintInside(c) ==
    /\ intents[c].pc = "mint"
    /\ minted' = IF dynamicAgent.active
                 THEN minted \cup {[intent |-> intents[c].intent,
                                    envelope |-> intents[c].envelope]}
                 ELSE minted
    /\ intents' = [intents EXCEPT ![c] = NoIntent]
    /\ UNCHANGED <<dynamicAgent, requests, envelopes>>

-----------------------------------------------------------------------------
(* Operators and the clock                                                  *)

(* stepup.approve: mintCosignerForApproval refuses a row without the CID of  *)
(* the UCAN that was stepped up.                                             *)
Approve(i, standing) ==
    /\ requests[i].state = "pending"
    /\ requests[i].originalUcan
    /\ requests' = [requests EXCEPT ![i].state = "approved", ![i].cosigner = "live",
                                    ![i].standing = standing]
    /\ UNCHANGED <<dynamicAgent, envelopes, intents, minted>>

Deny(i) ==
    /\ requests[i].state = "pending"
    /\ requests' = [requests EXCEPT ![i].state = "denied"]
    /\ UNCHANGED <<dynamicAgent, envelopes, intents, minted>>

(* A button in Telegram decides without a cosigner.                         *)
DecideInTelegram(i) ==
    /\ requests[i].state = "pending"
    /\ \E state \in {"approved", "denied"} :
          requests' = [requests EXCEPT ![i].state = state]
    /\ UNCHANGED <<dynamicAgent, envelopes, intents, minted>>

WindowEnds(i) ==
    /\ \/ /\ requests[i].state = "pending"
          /\ requests' = [requests EXCEPT ![i].state = "expired"]
       \/ /\ requests[i].cosigner = "live"
          /\ requests' = [requests EXCEPT ![i].cosigner = "expired"]
    /\ UNCHANGED <<dynamicAgent, envelopes, intents, minted>>

(* envelopes.revoke, and the 24 hours of an envelope that is not standing.   *)
EnvelopeEnds(e) ==
    /\ envelopes[e].state = "active"
    /\ \E state \in IF envelopes[e].standing THEN {"revoked"} ELSE {"revoked", "expired"} :
          envelopes' = [envelopes EXCEPT ![e].state = state]
    /\ UNCHANGED <<dynamicAgent, requests, intents, minted>>

(* agents.update and agents.setMode.                                        *)
ChangeAgent ==
    /\ dynamicAgent' \in [active : BOOLEAN, mode : {"static", "dynamic"}]
    /\ UNCHANGED <<requests, envelopes, intents, minted>>

-----------------------------------------------------------------------------

IntentNext ==
    \/ ChangeAgent
    \/ \E i \in DOMAIN requests :
          \/ \E standing \in BOOLEAN : Approve(i, standing)
          \/ Deny(i) \/ DecideInTelegram(i) \/ WindowEnds(i)
    \/ \E e \in DOMAIN envelopes : EnvelopeEnds(e)
    \/ \E c \in Calls :
          \/ \E intent \in Intents, row \in 0 .. Len(requests) : Intent(c, intent, row)
          \/ Classify(c) \/ Verify(c) \/ Ask(c)
          \/ ValidateCosigner(c) \/ CreateEnvelope(c) \/ MintInside(c)

IntentSpec == IntentInit /\ [][IntentNext]_intentVars

-----------------------------------------------------------------------------
(* Properties                                                               *)

(* "step-up otherwise - the SDK polls the existing approval flow and retries *)
(* the call with cosignerJwt": a request that is pending can be approved.    *)
PendingCanBeApproved ==
    \A i \in DOMAIN requests :
        requests[i].state = "pending" => ENABLED Approve(i, FALSE)

=============================================================================
