-------------------------------- MODULE Proxy --------------------------------
(***************************************************************************)
(* POST /v1/proxy of the PDP: calls of one leaf UCAN that are decided,       *)
(* recorded and, when allowed, made at the upstream on the agent's behalf.   *)
(* A call awaits the bundle, its cosigner, the claim of the approval, the    *)
(* audit emitter and the upstream; policies and revocations change between.  *)
(*                                                                          *)
(* policy is what the bundle the PDP holds says of the calls; how it comes   *)
(* to say so is in Delegation and GrantBundle, how the bundle and the        *)
(* revocations arrive in PolicyCache and Revocation, how the approval is     *)
(* given in StepUp and how events reach the table in AuditChain.  The        *)
(* upstream is external: it may execute a request, refuse it, refuse the     *)
(* token, or do either and have its answer lost.                             *)
(***************************************************************************)
EXTENDS Naturals

CONSTANTS
    ProxyCalls,     \* calls of /v1/proxy
    Nobody          \* the approval was not claimed

ASSUME ProxyAssumption == Nobody \notin ProxyCalls

VARIABLES
    policy,         \* what the bundle in the policy cache says of the calls
    leafRevoked,    \* whether the revocation cache has the leaf's CID
    claimant,       \* the call that claimed the approval
    proxied,        \* the calls
    recorded,       \* calls whose allow the audit emitter took
    executed,       \* how often the upstream executed each call's request
    chances         \* verdicts each call could have met while it was served

proxyVars == <<policy, leafRevoked, claimant, proxied, recorded, executed, chances>>

-----------------------------------------------------------------------------
(* State                                                                    *)

Permits == {"allow", "stepup"}
Verdicts == Permits \cup {"deny", "unknown"}

Waits == {"lazy", "validate", "claim", "asking", "denying", "auditing",
          "sending", "resending", "reporting", "failing"}

ProxyStates == [pc : {"idle", "answered"} \cup Waits,
                kind : {"cloud", "oauth", "local"},
                hasJwt : BOOLEAN, cosigned : BOOLEAN,
                policy : Verdicts, revoked : BOOLEAN,
                answer : {"none", "relayed", "refused", "error"}]

ProxyTypeOK ==
    /\ policy \in Verdicts
    /\ leafRevoked \in BOOLEAN
    /\ claimant \in ProxyCalls \cup {Nobody}
    /\ proxied \in [ProxyCalls -> ProxyStates]
    /\ recorded \subseteq ProxyCalls
    /\ executed \in [ProxyCalls -> Nat]
    /\ chances \in [ProxyCalls -> SUBSET Permits]

NoProxied == [pc |-> "idle", kind |-> "oauth", hasJwt |-> FALSE,
              cosigned |-> FALSE, policy |-> "unknown", revoked |-> FALSE,
              answer |-> "none"]

ProxyInit ==
    /\ policy = "unknown"
    /\ leafRevoked = FALSE
    /\ claimant = Nobody
    /\ proxied = [c \in ProxyCalls |-> NoProxied]
    /\ recorded = {}
    /\ executed = [c \in ProxyCalls |-> 0]
    /\ chances = [c \in ProxyCalls |-> {}]

-----------------------------------------------------------------------------
(* What the PDP holds changes under the calls                               *)

(* The verdicts a call meets when the caches are like this.                 *)
Met(verdict, isRevoked) == IF isRevoked THEN {} ELSE {verdict} \cap Permits

InService(c) == proxied[c].pc \in Waits

Meets(verdict, isRevoked) ==
    chances' = [c \in ProxyCalls |-> IF InService(c)
                    THEN chances[c] \cup Met(verdict, isRevoked) ELSE chances[c]]

PolicyArrives(verdict) ==
    /\ verdict # "unknown"
    /\ policy' = verdict
    /\ Meets(verdict, leafRevoked)
    /\ UNCHANGED <<leafRevoked, claimant, proxied, recorded, executed>>

RevocationArrives ==
    /\ leafRevoked' = TRUE
    /\ UNCHANGED <<policy, claimant, proxied, recorded, executed, chances>>

(* The process ends with its bundle and with the calls it serves, of which   *)
(* the upstream may execute those that were sent.  It listens again only     *)
(* with a fresh snapshot of the revocations.                                 *)
ProxyStops ==
    /\ policy' = "unknown"
    /\ \E sent \in SUBSET {c \in ProxyCalls : proxied[c].pc \in {"sending", "resending"}} :
          executed' = [c \in ProxyCalls |-> executed[c] + (IF c \in sent THEN 1 ELSE 0)]
    /\ proxied' = [c \in ProxyCalls |->
           IF InService(c) THEN [NoProxied EXCEPT !.pc = "answered", !.answer = "error"]
           ELSE proxied[c]]
    /\ UNCHANGED <<leafRevoked, claimant, recorded, chances>>

-----------------------------------------------------------------------------
(* Deciding                                                                 *)

ProxyGoes(c, call) == proxied' = [proxied EXCEPT ![c] = call]

Responds(c, answer) ==
    ProxyGoes(c, [NoProxied EXCEPT !.pc = "answered", !.answer = answer])

Denied == [NoProxied EXCEPT !.pc = "denying"]

(* decide, on what the call read of the caches, and step-up detection.      *)
Decided(call) ==
    IF call.revoked \/ call.policy = "deny" THEN Denied
    ELSE IF call.policy = "stepup" /\ ~call.cosigned
    THEN [NoProxied EXCEPT !.pc = "asking"]
    ELSE [NoProxied EXCEPT !.pc = "auditing", !.kind = call.kind]

(* From the bundle to decide nothing is awaited, unless there is a cosigner. *)
Reads(call, isRevoked) ==
    LET read == [call EXCEPT !.policy = policy, !.revoked = isRevoked]
    IN  IF call.hasJwt THEN [read EXCEPT !.pc = "validate"] ELSE Decided(read)

Proxied(c, kind, hasJwt) ==
    /\ proxied[c].pc = "idle"
    /\ chances' = [chances EXCEPT ![c] = Met(policy, leafRevoked)]
    /\ LET call == [NoProxied EXCEPT !.kind = kind, !.hasJwt = hasJwt]
       IN  ProxyGoes(c, IF policy = "unknown" THEN [call EXCEPT !.pc = "lazy"]
                   ELSE Reads(call, leafRevoked))
    /\ UNCHANGED <<policy, leafRevoked, claimant, recorded, executed>>

(* schema_missing, schema_violation or resource_mismatch, once a bundle is   *)
(* held; an unknown command is refused before.                               *)
Malformed(c) ==
    /\ proxied[c].pc \in {"idle", "lazy"}
    /\ policy # "unknown"
    /\ ProxyGoes(c, Denied)
    /\ UNCHANGED <<policy, leafRevoked, claimant, recorded, executed, chances>>

(* The one refresh ended: unknown_customer without a bundle.                *)
LazyRefreshed(c) ==
    /\ proxied[c].pc = "lazy"
    /\ ProxyGoes(c, IF policy = "unknown" THEN Denied ELSE Reads(proxied[c], leafRevoked))
    /\ UNCHANGED <<policy, leafRevoked, claimant, recorded, executed, chances>>

(* validateCosigner: of the approval of the request, or of none.            *)
Validated(c) ==
    /\ proxied[c].pc = "validate"
    /\ \E call \in {[proxied[c] EXCEPT !.pc = "claim"], Denied} : ProxyGoes(c, call)
    /\ UNCHANGED <<policy, leafRevoked, claimant, recorded, executed, chances>>

(* reads the bundle again once the approval is claimed *)
ClaimedReadsAgain(c) ==
    /\ proxied[c].pc = "claim"
    /\ IF claimant = Nobody
       THEN /\ claimant' = c
            /\ ProxyGoes(c, Decided([proxied[c] EXCEPT !.cosigned = TRUE, !.policy = policy]))
       ELSE /\ UNCHANGED claimant
            /\ ProxyGoes(c, Denied)
    /\ UNCHANGED <<policy, leafRevoked, recorded, executed, chances>>

(* consumeApproval: cosigner_already_used unless nobody has claimed it.     *)
Claimed(c) ==
    /\ proxied[c].pc = "claim"
    /\ IF claimant = Nobody
       THEN /\ claimant' = c
            /\ ProxyGoes(c, Decided([proxied[c] EXCEPT !.cosigned = TRUE]))
       ELSE /\ UNCHANGED claimant
            /\ ProxyGoes(c, Denied)
    /\ UNCHANGED <<policy, leafRevoked, recorded, executed, chances>>

(* The claim may be made and its answer lost: the approval is spent.        *)
ClaimLost(c) ==
    /\ proxied[c].pc = "claim"
    /\ claimant' \in IF claimant = Nobody THEN {Nobody, c} ELSE {claimant}
    /\ Responds(c, "error")
    /\ UNCHANGED <<policy, leafRevoked, recorded, executed, chances>>

(* stepup.create: whether or not it fails, the call is not allowed.         *)
Asked(c) ==
    /\ proxied[c].pc = "asking"
    /\ ProxyGoes(c, Denied)
    /\ UNCHANGED <<policy, leafRevoked, claimant, recorded, executed, chances>>

DenyRecorded(c) ==
    /\ proxied[c].pc = "denying"
    /\ Responds(c, "refused")
    /\ UNCHANGED <<policy, leafRevoked, claimant, recorded, executed, chances>>

AllowRecorded(c) ==
    /\ proxied[c].pc = "auditing"
    /\ recorded' = recorded \cup {c}
    /\ ProxyGoes(c, [proxied[c] EXCEPT !.pc = "sending"])
    /\ UNCHANGED <<policy, leafRevoked, claimant, executed, chances>>

(* The emitter rejects.  Of an allowed call nothing has been done then, but  *)
(* a cloud call that reports was made.                                       *)
EmitRejected(c) ==
    /\ proxied[c].pc \in {"denying", "auditing", "reporting", "failing"}
    /\ Responds(c, "error")
    /\ UNCHANGED <<policy, leafRevoked, claimant, recorded, executed, chances>>

-----------------------------------------------------------------------------
(* Calling the upstream                                                     *)

(* cloud_proxy_disabled, missing_agent_id, or refused as destructive.        *)
CloudNotSent(c) ==
    /\ proxied[c].pc = "sending"
    /\ proxied[c].kind = "cloud"
    /\ \E answer \in {"error", "refused"} : Responds(c, answer)
    /\ UNCHANGED <<policy, leafRevoked, claimant, recorded, executed, chances>>

(* No binding, no token or an unknown connector.                            *)
NotSent(c) ==
    /\ proxied[c].pc = "sending"
    /\ proxied[c].kind = "oauth"
    /\ Responds(c, "error")
    /\ UNCHANGED <<policy, leafRevoked, claimant, recorded, executed, chances>>

(* resource_out_of_scope: what the path or the body names is not what the    *)
(* UCAN is constrained to.                                                   *)
OutOfScope(c) ==
    /\ proxied[c].pc = "sending"
    /\ proxied[c].kind = "oauth"
    /\ Responds(c, "refused")
    /\ UNCHANGED <<policy, leafRevoked, claimant, recorded, executed, chances>>

(* The upstream executes the request of a call, or does not.                *)
Upstream(c) == \E n \in {0, 1} : executed' = [executed EXCEPT ![c] = @ + n]

(* What the cloud answers is recorded before it is relayed, ...             *)
CloudAnswered(c) ==
    /\ proxied[c].pc = "sending"
    /\ proxied[c].kind = "cloud"
    /\ Upstream(c)
    /\ ProxyGoes(c, [proxied[c] EXCEPT !.pc = "reporting"])
    /\ UNCHANGED <<policy, leafRevoked, claimant, recorded, chances>>

(* ... and so is a CloudCallError.                                          *)
CloudUnanswered(c) ==
    /\ proxied[c].pc = "sending"
    /\ proxied[c].kind = "cloud"
    /\ Upstream(c)
    /\ \/ Responds(c, "error")
       \/ ProxyGoes(c, [proxied[c] EXCEPT !.pc = "failing"])
    /\ UNCHANGED <<policy, leafRevoked, claimant, recorded, chances>>

Reported(c) ==
    /\ proxied[c].pc \in {"reporting", "failing"}
    /\ Responds(c, IF proxied[c].pc = "reporting" THEN "relayed" ELSE "error")
    /\ UNCHANGED <<policy, leafRevoked, claimant, recorded, executed, chances>>

(* A file or an ssh command, which the PDP executes itself.                 *)
LocalDone(c) ==
    /\ proxied[c].pc = "sending"
    /\ proxied[c].kind = "local"
    /\ Upstream(c)
    /\ \E answer \in {"relayed", "error"} : Responds(c, answer)
    /\ UNCHANGED <<policy, leafRevoked, claimant, recorded, chances>>

AtProvider(c) ==
    proxied[c].pc \in {"sending", "resending"} /\ proxied[c].kind = "oauth"

Relayed(c) ==
    /\ AtProvider(c)
    /\ Upstream(c)
    /\ Responds(c, "relayed")
    /\ UNCHANGED <<policy, leafRevoked, claimant, recorded, chances>>

(* sends again what may have been executed *)
CallRetried(c) ==
    /\ AtProvider(c)
    /\ Upstream(c)
    /\ ProxyGoes(c, [proxied[c] EXCEPT !.pc = "resending"])
    /\ UNCHANGED <<policy, leafRevoked, claimant, recorded, chances>>

(* upstream_call_failed: no answer, and nothing is tried again.             *)
CallFails(c) ==
    /\ AtProvider(c)
    /\ Upstream(c)
    /\ Responds(c, "error")
    /\ UNCHANGED <<policy, leafRevoked, claimant, recorded, chances>>

(* A 401 of an OAuth provider: the token is refreshed and the call sent once *)
(* more.                                                                     *)
Unauthorized(c) ==
    /\ proxied[c].pc = "sending"
    /\ proxied[c].kind = "oauth"
    /\ ProxyGoes(c, [proxied[c] EXCEPT !.pc = "resending"])
    /\ UNCHANGED <<policy, leafRevoked, claimant, recorded, executed, chances>>

(* oauth_token_invalid.                                                     *)
RefreshFails(c) ==
    /\ proxied[c].pc = "resending"
    /\ Responds(c, "error")
    /\ UNCHANGED <<policy, leafRevoked, claimant, recorded, executed, chances>>

-----------------------------------------------------------------------------

ProxyNext ==
    \/ \E verdict \in Verdicts : PolicyArrives(verdict)
    \/ RevocationArrives \/ ProxyStops
    \/ \E c \in ProxyCalls :
          \/ Malformed(c)
          \/ \E kind \in {"cloud", "oauth", "local"}, hasJwt \in BOOLEAN :
                Proxied(c, kind, hasJwt)
          \/ LazyRefreshed(c) \/ Validated(c) \/ Claimed(c) \/ ClaimLost(c)
          \/ Asked(c) \/ DenyRecorded(c) \/ AllowRecorded(c) \/ EmitRejected(c)
          \/ CloudNotSent(c) \/ CloudAnswered(c) \/ CloudUnanswered(c) \/ Reported(c)
          \/ LocalDone(c)
          \/ NotSent(c) \/ OutOfScope(c) \/ Relayed(c) \/ CallFails(c)
          \/ Unauthorized(c) \/ RefreshFails(c)

ProxySpec == ProxyInit /\ [][ProxyNext]_proxyVars

-----------------------------------------------------------------------------
(* Properties                                                               *)

(* Whatever changes while a call waits, the upstream executes it only if the *)
(* bundle and the revocations the PDP held at one moment while it served the *)
(* call allowed it, or would with a cosigner and the call alone claimed the  *)
(* approval.                                                                 *)
ExecutedWasAllowed ==
    \A c \in ProxyCalls : executed[c] > 0 =>
        "allow" \in chances[c] \/ ("stepup" \in chances[c] /\ claimant = c)

(* Lost answers, refreshes and a failing emitter included, the upstream      *)
(* executes a call at most once, only after the emitter took its allow, and  *)
(* never one the agent is told was refused.                                  *)
ExecutedOnceOnRecord ==
    \A c \in ProxyCalls :
        /\ executed[c] <= 1
        /\ executed[c] > 0 => c \in recorded /\ proxied[c].answer # "refused"

=============================================================================
