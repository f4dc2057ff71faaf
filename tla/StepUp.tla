------------------------------- MODULE StepUp -------------------------------
(***************************************************************************)
(* The step-up approval of a denied agent call, from the row the PDP asks   *)
(* the control plane to create, through the operator's decision on the      *)
(* dashboard or in Telegram, to the single use of the cosigner UCAN that a  *)
(* passkey approval mints.                                                  *)
(*                                                                          *)
(* Four kinds of actors interleave at their awaits: agent calls (the SDK's  *)
(* runGuarded with the PDP's and the control plane's create handlers),      *)
(* cosigner-carrying requests (the PDP's authorize and proxy handlers),     *)
(* dashboard sessions, and the Telegram bot.  The push_approvals table is   *)
(* the only state they share.                                               *)
(***************************************************************************)
EXTENDS Integers, FiniteSets

CONSTANTS
    Approvals,      \* ids of push_approvals rows
    Targets,        \* [command, resource] pairs one agent may ask for, each
                    \* permitted by its policies with a cosigner only
    Cids,           \* content ids of the agent's UCANs
    Revocable,      \* the UCANs that may be revoked meanwhile
    Calls,          \* agent calls that need a step-up
    Retries,        \* requests that carry a cosigner JWT
    Sessions,       \* dashboard sessions of operators with grants:update
    TelegramOn,     \* whether the Telegram bot may decide approvals
    TargetOf,       \* what each call asks for
    CidOf,          \* the UCAN each call presents
    ApprovalTtl,    \* DEFAULT_TTL_SECONDS of a pending approval
    CosignerTtl,    \* lifetime of a cosigner UCAN
    MaxTime,        \* bound on the clock
    None

ASSUME CallsAssumption ==
    /\ TargetOf \in [Calls -> Targets]
    /\ CidOf \in [Calls -> Cids]
    /\ Revocable \subseteq Cids

ASSUME TimeAssumption ==
    /\ ApprovalTtl \in Nat \ {0}
    /\ CosignerTtl \in Nat \ {0}
    /\ MaxTime \in Nat

ASSUME NoneAssumption == None \notin Approvals \cup Targets \cup Cids

VARIABLES
    now,        \* the clock the services share
    approval,   \* the push_approvals table
    call,       \* agent calls
    retry,      \* PDP requests that carry a cosigner
    session,    \* stepup.approve mutations in progress
    signed,     \* history: every cosigner UCAN written to a row
    revoked     \* the PDP's revocation set

vars == <<now, approval, call, retry, session, signed, revoked>>

-----------------------------------------------------------------------------
(* State                                                                    *)

Times == 0 .. MaxTime
Expiries == 0 .. MaxTime + ApprovalTtl + CosignerTtl

(* A cosigner UCAN: cosigner_for, approval_id, decided_by, cmd and exp.  Two *)
(* mints with the same content are the same JWT.                             *)
Cosigners == [approval : Approvals, target : Targets, cid : Cids,
              by : Sessions, exp : Expiries]

NoCosigner == [approval |-> None]

Absent == [state |-> "absent", target |-> None, cid |-> None, expiresAt |-> 0,
           jwt |-> NoCosigner, used |-> FALSE]

Rows == [state : {"pending", "approved", "denied"}, target : Targets,
         cid : Cids, expiresAt : Expiries, jwt : Cosigners \cup {NoCosigner},
         used : BOOLEAN]

CallStates == [pc : {"idle", "select", "write", "polling", "resumed",
                     "failed", "refused"},
               at : Times, seen : Approvals \cup {None},
               jwt : Cosigners \cup {NoCosigner}]

Outcomes == {"allowed", "cosigner_expired", "cosigner_invalid",
             "cosigner_already_used", "revoked", "error"}

RetryStates == [pc : {"idle", "fetch", "consume", "decide"} \cup Outcomes,
                call : Calls, target : Targets, jwt : Cosigners,
                claimed : BOOLEAN, known : SUBSET Cids]

NoRetry == [pc |-> "idle", claimed |-> FALSE]

SessionStates == [pc : {"mint"}, approval : Approvals, target : Targets,
                  cid : Cids, at : Times]

NoSession == [pc |-> "idle"]

TypeOK ==
    /\ now \in Times
    /\ approval \in [Approvals -> Rows \cup {Absent}]
    /\ call \in [Calls -> CallStates]
    /\ retry \in [Retries -> RetryStates \cup {NoRetry}]
    /\ session \in [Sessions -> SessionStates \cup {NoSession}]
    /\ signed \subseteq Cosigners
    /\ revoked \subseteq Cids

Init ==
    /\ now = 0
    /\ approval = [a \in Approvals |-> Absent]
    /\ call = [c \in Calls |-> [pc |-> "idle", at |-> 0, seen |-> None,
                                jwt |-> NoCosigner]]
    /\ retry = [r \in Retries |-> NoRetry]
    /\ session = [s \in Sessions |-> NoSession]
    /\ signed = {}
    /\ revoked = {}

Tick ==
    /\ now < MaxTime
    /\ now' = now + 1
    /\ UNCHANGED <<approval, call, retry, session, signed, revoked>>

(* A refresh replaces the PDP's revocation set, at times by an older one     *)
(* (module Revocation says when).                                            *)
RefreshRevocations(cids) ==
    /\ revoked' = cids
    /\ UNCHANGED <<now, approval, call, retry, session, signed>>

-----------------------------------------------------------------------------
(* Creating the approval                                                    *)

(* isExpired: a pending row past its expiry counts as expired on every read. *)
Expired(a) == approval[a].state = "pending" /\ approval[a].expiresAt <= now

PendingFor(t) == {a \in Approvals : /\ approval[a].state = "pending"
                                    /\ approval[a].target = t}

(* The unique partial index on pending rows admits another one for t.        *)
IndexFreeNoIndex(t) == TRUE
IndexFree(t) == PendingFor(t) = {}

(* The PDP denies the call for policy reasons, finds that a cosigner would   *)
(* let it through, and calls the control plane, whose handler takes `now`.   *)
(* A revoked UCAN is denied as such and never reaches step-up detection.     *)
AskStepUp(c) ==
    /\ call[c].pc = "idle"
    /\ CidOf[c] \notin revoked
    /\ call' = [call EXCEPT ![c].pc = "select", ![c].at = now]
    /\ UNCHANGED <<now, approval, retry, session, signed, revoked>>

(* The dedup SELECT: a live pending row is reused as it is; otherwise the    *)
(* handler goes on to summarise the risk and look up the owner.              *)
CreateSelect(c) ==
    /\ call[c].pc = "select"
    /\ \/ \E a \in PendingFor(TargetOf[c]) :
            call' = [call EXCEPT
                ![c].pc = IF approval[a].expiresAt > call[c].at
                          THEN "polling" ELSE "write",
                ![c].seen = a]
       \/ /\ PendingFor(TargetOf[c]) = {}
          /\ call' = [call EXCEPT ![c].pc = "write"]
    /\ UNCHANGED <<now, approval, retry, session, signed, revoked>>

(* An expired row found by the SELECT is refreshed in place, by id alone.    *)
CreateRefresh(c) ==
    LET a == call[c].seen IN
    /\ call[c].pc = "write" /\ a # None
    /\ approval' = [approval EXCEPT
           ![a].expiresAt = call[c].at + ApprovalTtl,
           ![a].cid = CidOf[c]]
    /\ call' = [call EXCEPT ![c].pc = "polling"]
    /\ UNCHANGED <<now, retry, session, signed, revoked>>

(* The pending rows of a target are unique by a partial index: a second     *)
(* insert fails, the PDP logs it and the call stays a plain policy denial.   *)
CreateInsert(c) ==
    /\ call[c].pc = "write" /\ call[c].seen = None
    /\ \/ /\ IndexFree(TargetOf[c])
          /\ \E a \in Approvals :
                /\ approval[a] = Absent
                /\ approval' = [approval EXCEPT ![a] =
                       [state |-> "pending", target |-> TargetOf[c],
                        cid |-> CidOf[c],
                        expiresAt |-> call[c].at + ApprovalTtl,
                        jwt |-> NoCosigner, used |-> FALSE]]
                /\ call' = [call EXCEPT ![c].pc = "polling", ![c].seen = a]
       \/ /\ ~IndexFree(TargetOf[c])
          /\ call' = [call EXCEPT ![c].pc = "failed"]
          /\ UNCHANGED approval
    /\ UNCHANGED <<now, retry, session, signed, revoked>>

(* The create request fails before it writes: the error is logged and the   *)
(* agent gets the policy denial.                                             *)
CreateFail(c) ==
    /\ call[c].pc \in {"select", "write"}
    /\ call' = [call EXCEPT ![c].pc = "failed"]
    /\ UNCHANGED <<now, approval, retry, session, signed, revoked>>

(* waitForApproval returns on the first answer that is not pending; the call *)
(* goes on only when it is an approval with a cosigner.                      *)
Poll(c) ==
    LET row == approval[call[c].seen] IN
    /\ call[c].pc = "polling"
    /\ row.state # "pending" \/ Expired(call[c].seen)
    /\ call' = [call EXCEPT
           ![c].pc = IF row.state = "approved" /\ row.jwt # NoCosigner
                     THEN "resumed" ELSE "refused",
           ![c].jwt = IF row.state = "approved" THEN row.jwt ELSE NoCosigner]
    /\ UNCHANGED <<now, approval, retry, session, signed, revoked>>

(* The wait runs into its deadline while the row is still pending.          *)
PollTimeoutNone(c) == FALSE

PollTimeout(c) ==
    /\ call[c].pc = "polling"
    /\ approval[call[c].seen].state = "pending"
    /\ call' = [call EXCEPT ![c].pc = "refused"]
    /\ UNCHANGED <<now, approval, retry, session, signed, revoked>>

-----------------------------------------------------------------------------
(* Deciding the approval                                                    *)

(* mintCosignerForApproval, after the passkey assertion: the row is read and *)
(* checked...                                                                *)
ApproveRead(s, a) ==
    /\ session[s] = NoSession
    /\ approval[a].state = "pending"
    /\ approval[a].expiresAt > now
    /\ session' = [session EXCEPT ![s] =
           [pc |-> "mint", approval |-> a, target |-> approval[a].target,
            cid |-> approval[a].cid, at |-> now]]
    /\ UNCHANGED <<now, approval, call, retry, signed, revoked>>

CosignerOf(s) ==
    [approval |-> session[s].approval, target |-> session[s].target,
     cid |-> session[s].cid, by |-> s, exp |-> session[s].at + CosignerTtl]

(* ...and, after the agent lookup and the signature, written by id alone.   *)
ApproveWrite(s) ==
    LET a == session[s].approval IN
    /\ session[s].pc = "mint"
    /\ approval' = [approval EXCEPT ![a].state = "approved",
                                    ![a].jwt = CosignerOf(s)]
    /\ signed' = signed \cup {CosignerOf(s)}
    /\ session' = [session EXCEPT ![s] = NoSession]
    /\ UNCHANGED <<now, call, retry, revoked>>

(* The agent row is gone, or the mutation dies between its two statements.  *)
ApproveFail(s) ==
    /\ session[s].pc = "mint"
    /\ session' = [session EXCEPT ![s] = NoSession]
    /\ UNCHANGED <<now, approval, call, retry, signed, revoked>>

(* denyApproval: one guarded UPDATE, with no look at the expiry.            *)
DeniableAnyState(a) == approval[a].state # "absent"
Deniable(a) == approval[a].state = "pending"

Deny(s, a) ==
    /\ session[s] = NoSession
    /\ Deniable(a)
    /\ approval' = [approval EXCEPT ![a].state = "denied"]
    /\ UNCHANGED <<now, call, retry, session, signed, revoked>>

(* resolveApproval: the bot's button, one guarded UPDATE that mints nothing. *)
TelegramDecide(a) ==
    /\ TelegramOn
    /\ approval[a].state = "pending"
    /\ \E verdict \in {"approved", "denied"} :
          approval' = [approval EXCEPT ![a].state = verdict]
    /\ UNCHANGED <<now, call, retry, session, signed, revoked>>

-----------------------------------------------------------------------------
(* Using the cosigner                                                       *)

(* Cosigners some call has polled.                                          *)
Polled == {call[c].jwt : c \in {d \in Calls : call[d].pc = "resumed"}}

(* The synchronous part of validateCosigner, in the order of the code.      *)
LocalCheckNoBinding(c, t, j) ==
    IF j.exp <= now THEN "cosigner_expired"
    ELSE IF j.target.command # t.command THEN "cosigner_invalid" ELSE "fetch"

LocalCheck(c, t, j) ==
    IF j.exp <= now THEN "cosigner_expired"
    ELSE IF j.target.command # t.command \/ j.cid # CidOf[c]
         THEN "cosigner_invalid" ELSE "fetch"

(* A request arrives with a cosigner and the UCAN of a call that went on; it *)
(* names a command and a resource of its own.  The handler takes the         *)
(* revocation set it will decide with, then validates the JWT.               *)
StartRetry(r, c, t, j) ==
    /\ retry[r] = NoRetry
    /\ call[c].pc = "resumed"
    /\ retry' = [retry EXCEPT ![r] =
           [pc |-> LocalCheck(c, t, j), call |-> c, target |-> t, jwt |-> j,
            claimed |-> FALSE, known |-> revoked]]
    /\ UNCHANGED <<now, approval, call, session, signed, revoked>>

(* fetchApproval: the row must be approved and hold this very JWT.          *)
FetchApproval(r) ==
    LET row == approval[retry[r].jwt.approval] IN
    /\ retry[r].pc = "fetch"
    /\ retry' = [retry EXCEPT ![r].pc =
           IF row.state = "approved" /\ row.jwt = retry[r].jwt
           THEN "consume" ELSE "cosigner_invalid"]
    /\ UNCHANGED <<now, approval, call, session, signed, revoked>>

(* The single-use claim: UPDATE ... WHERE state = 'approved' AND             *)
(* cosigner_used_at IS NULL.                                                 *)
ConsumableAgain(a) == approval[a].state = "approved"
Consumable(a) == approval[a].state = "approved" /\ ~approval[a].used

ConsumeNoConflict(r) ==
    /\ retry[r].pc = "consume"
    /\ Consumable(retry[r].jwt.approval)
    /\ approval' = [approval EXCEPT ![retry[r].jwt.approval].used = TRUE]
    /\ retry' = [retry EXCEPT ![r].pc = "decide", ![r].claimed = TRUE]
    /\ UNCHANGED <<now, call, session, signed, revoked>>

Consume(r) ==
    LET a == retry[r].jwt.approval IN
    /\ retry[r].pc = "consume"
    /\ \/ /\ Consumable(a)
          /\ approval' = [approval EXCEPT ![a].used = TRUE]
          /\ retry' = [retry EXCEPT ![r].pc = "decide", ![r].claimed = TRUE]
       \/ /\ ~Consumable(a)
          /\ retry' = [retry EXCEPT ![r].pc = "cosigner_already_used"]
          /\ UNCHANGED approval
    /\ UNCHANGED <<now, call, session, signed, revoked>>

(* decide() with context.cosigner = true and the revocation set taken when   *)
(* the request came in.                                                      *)
Decide(r) ==
    /\ retry[r].pc = "decide"
    /\ retry' = [retry EXCEPT ![r].pc =
           IF CidOf[retry[r].call] \in retry[r].known THEN "revoked" ELSE "allowed"]
    /\ UNCHANGED <<now, approval, call, session, signed, revoked>>

(* A control-plane request fails, its answer is lost or the PDP dies: the   *)
(* handler answers 500 and whatever it had written stays.                    *)
RetryFail(r) ==
    /\ retry[r].pc \in {"fetch", "consume", "decide"}
    /\ retry' = [retry EXCEPT ![r].pc = "error"]
    /\ UNCHANGED <<now, approval, call, session, signed, revoked>>

-----------------------------------------------------------------------------

CallStep(c) ==
    \/ AskStepUp(c)
    \/ CreateSelect(c)
    \/ CreateRefresh(c)
    \/ CreateInsert(c)
    \/ CreateFail(c)
    \/ Poll(c)
    \/ PollTimeout(c)

SessionStep(s) ==
    \/ \E a \in Approvals : ApproveRead(s, a) \/ Deny(s, a)
    \/ ApproveWrite(s)
    \/ ApproveFail(s)

RetryStep(r) ==
    \/ \E c \in Calls, t \in Targets, j \in Polled : StartRetry(r, c, t, j)
    \/ FetchApproval(r)
    \/ Consume(r)
    \/ Decide(r)
    \/ RetryFail(r)

Next ==
    \/ Tick
    \/ \E cids \in SUBSET Revocable : RefreshRevocations(cids)
    \/ \E c \in Calls : CallStep(c)
    \/ \E s \in Sessions : SessionStep(s)
    \/ \E a \in Approvals : TelegramDecide(a)
    \/ \E r \in Retries : RetryStep(r)

Spec == Init /\ [][Next]_vars

(* The services finish what they started: a handler's next step, the SDK's   *)
(* next poll.  Operators and agents owe nothing.                             *)
CreateProgress(c) ==
    CreateSelect(c) \/ CreateRefresh(c) \/ CreateInsert(c) \/ CreateFail(c)

PollProgress(c) == Poll(c) \/ PollTimeout(c)

RetryProgress(r) == FetchApproval(r) \/ Consume(r) \/ Decide(r)

Fairness ==
    /\ \A c \in Calls : WF_vars(CreateProgress(c)) /\ WF_vars(PollProgress(c))
    /\ \A r \in Retries : WF_vars(RetryProgress(r))

FairSpec == Spec /\ Fairness

-----------------------------------------------------------------------------
(* Properties                                                               *)

(* One approval lets at most one request through, however many retries race  *)
(* and however often the row is re-signed (authorize.ts, audit C5).          *)
SingleUse ==
    \A r1, r2 \in Retries :
        /\ retry[r1].pc = "allowed" /\ retry[r2].pc = "allowed"
        /\ retry[r1].jwt.approval = retry[r2].jwt.approval
        => r1 = r2

(* Whatever a cosigner lets through was approved with a passkey for the same *)
(* UCAN and command, and the row it names is still approved: the Telegram    *)
(* path, a refreshed row or a denied one never unlock anything.  The         *)
(* resource is not among what is bound: see ExactRequest.                    *)
AllowedWasCosigned ==
    \A r \in Retries : retry[r].pc = "allowed" =>
        /\ retry[r].jwt \in signed
        /\ retry[r].jwt.cid = CidOf[retry[r].call]
        /\ retry[r].jwt.target.command = retry[r].target.command
        /\ approval[retry[r].jwt.approval].state = "approved"

(* The cosigner is bound "to the exact request the user approved"            *)
(* (cosigner.ts): a request for another resource is not let through by it.   *)
ExactRequest ==
    \A r \in Retries :
        retry[r].pc = "allowed" => retry[r].jwt.target = retry[r].target

(* The partial unique index and the handler that reuses or refreshes keep    *)
(* one pending row per (agent, command, resource).                           *)
OnePendingPerTarget ==
    \A t \in Targets : Cardinality(PendingFor(t)) <= 1

(* Sessions that have read row a pending and have yet to write it.          *)
Approving(a) ==
    {s \in Sessions : session[s].pc = "mint" /\ session[s].approval = a}

(* Deciders race each other and the refresh of an expired row.  An approval  *)
(* is never withdrawn; a denial gives way only to the write, by id alone, of *)
(* a passkey approval that had read the row before it was decided, and no    *)
(* approval takes up a decided row.                                          *)
DecisionStands ==
    [][\A a \in Approvals : approval[a].state \in {"approved", "denied"} =>
          /\ \/ approval'[a].state = approval[a].state
             \/ /\ approval[a].state = "denied"
                /\ approval'[a].state = "approved"
                /\ \E s \in Approving(a) : ApproveWrite(s)
          /\ Approving(a)' \subseteq Approving(a)]_vars

(* mintCosignerForApproval "can only sign pending approvals": a decision,    *)
(* approval or denial, is never replaced by another one.                     *)
DecisionFinal ==
    [][\A a \in Approvals : approval[a].state \in {"approved", "denied"} =>
          approval'[a].state = approval[a].state]_vars

(* A call that was handed a cosigner by the approval it waited for is not    *)
(* refused because that cosigner is for another UCAN.                        *)
ApprovedCallResumes ==
    \A r \in Retries :
        /\ retry[r].pc = "cosigner_invalid"
        /\ retry[r].jwt = call[retry[r].call].jwt
        => retry[r].jwt.cid = CidOf[retry[r].call]

(* The services keep the approval's promise: asked, decided once, used once. *)
UnlockedBy(a) ==
    {r \in Retries : retry[r].pc = "allowed" /\ retry[r].jwt.approval = a}

Lifecycle == INSTANCE ApprovalLifecycle WITH
    Requests <- Retries,
    decision <- [a \in Approvals |-> approval[a].state],
    unlocked <- [a \in Approvals |-> UnlockedBy(a)]

ImplementsLifecycle == Lifecycle!LifecycleSpec

(* Every call that asked for a step-up is answered, whether or not anybody   *)
(* decides it, and every retry gets a verdict.                               *)
CallAnswered ==
    \A c \in Calls :
        call[c].pc = "select" ~> call[c].pc \in {"resumed", "failed", "refused"}

RetryAnswered ==
    \A r \in Retries : retry[r].pc = "fetch" ~> retry[r].pc \in Outcomes

=============================================================================
