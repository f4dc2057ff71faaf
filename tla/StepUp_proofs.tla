--------------------------- MODULE StepUp_proofs ---------------------------
(***************************************************************************)
(* Proofs about StepUp for every number of rows, calls, retries, sessions    *)
(* and every clock.                                                          *)
(***************************************************************************)
EXTENDS StepUp, FiniteSetTheorems, TLAPS

(* A row some handler holds the id of exists: the refresh and the mint write *)
(* by id alone, so what they write is a row only because of this.            *)
Referenced ==
    /\ \A c \in Calls :
          call[c].pc \in {"write", "polling"} /\ call[c].seen # None =>
              approval[call[c].seen] # Absent
    /\ \A c \in Calls : call[c].pc = "polling" => call[c].seen # None
    /\ \A c \in Calls : call[c].pc \in {"idle", "select"} => call[c].seen = None
    /\ \A c \in Calls : call[c].pc = "resumed" => call[c].jwt \in Cosigners
    /\ \A s \in Sessions :
          session[s].pc = "mint" => approval[session[s].approval] # Absent

TInv == TypeOK /\ Referenced

LEMMA AbsentNotRow == Absent \notin Rows
  BY DEF Absent, Rows

LEMMA PresentIsRow ==
    ASSUME TypeOK, NEW a \in Approvals, approval[a] # Absent
    PROVE  approval[a] \in Rows
  BY DEF TypeOK

LEMMA PendingIsRow ==
    ASSUME TypeOK, NEW a \in Approvals,
           approval[a].state \in {"pending", "approved", "denied"}
    PROVE  approval[a] \in Rows
  BY DEF TypeOK, Absent

(* The four ways the code rewrites a row leave a row.                        *)
LEMMA RewrittenRow ==
    ASSUME NEW row \in Rows
    PROVE  /\ \A st \in {"pending", "approved", "denied"} :
                 [row EXCEPT !.state = st] \in Rows
           /\ \A st \in {"pending", "approved", "denied"}, j \in Cosigners :
                 [row EXCEPT !.state = st, !.jwt = j] \in Rows
           /\ \A e \in Expiries, k \in Cids :
                 [row EXCEPT !.expiresAt = e, !.cid = k] \in Rows
           /\ [row EXCEPT !.used = TRUE] \in Rows
  BY DEF Rows

(* The ways a call record moves on.                                          *)
CallPcs == {"idle", "select", "write", "polling", "resumed", "failed", "refused"}

LEMMA RewrittenCall ==
    ASSUME NEW x \in CallStates, NEW pc \in CallPcs
    PROVE  /\ [x EXCEPT !.pc = pc] \in CallStates
           /\ \A a \in Approvals : [x EXCEPT !.pc = pc, !.seen = a] \in CallStates
           /\ \A j \in Cosigners \cup {NoCosigner} :
                 [x EXCEPT !.pc = pc, !.jwt = j] \in CallStates
  BY DEF CallStates, CallPcs

(* Storing a row at an id keeps the table's type and every reference.        *)
LEMMA StoreRow ==
    ASSUME TInv, NEW a \in Approvals, NEW row \in Rows,
           approval' = [approval EXCEPT ![a] = row]
    PROVE  /\ approval' \in [Approvals -> Rows \cup {Absent}]
           /\ \A b \in Approvals : approval[b] # Absent => approval'[b] # Absent
           /\ approval'[a] # Absent
  BY AbsentNotRow DEF TInv, TypeOK

(* A step that leaves the handlers where they are, or takes a session out of  *)
(* its mint, keeps every reference as long as no row disappears.             *)
LEMMA ReferencesHold ==
    ASSUME TInv, call' = call,
           \A s \in Sessions : session'[s].pc = "mint" => session'[s] = session[s],
           \A b \in Approvals : approval[b] # Absent => approval'[b] # Absent
    PROVE  Referenced'
<1>1. \A c \in Calls : call[c].seen \in Approvals \cup {None}
  BY DEF TInv, TypeOK, CallStates
<1>2. \A s \in Sessions : session[s].pc = "mint" => session[s].approval \in Approvals
  BY DEF TInv, TypeOK, SessionStates, NoSession
<1>3. QED
  BY <1>1, <1>2 DEF TInv, Referenced

LEMMA NoCosignerNotOne == NoCosigner \notin Cosigners
  BY NoneAssumption DEF NoCosigner, Cosigners

LEMMA InitTInv == Init => TInv
  BY CallsAssumption, TimeAssumption, NoneAssumption
  DEF Init, TInv, TypeOK, Referenced, Times, CallStates, NoSession, NoRetry


LEMMA StepTInv == TInv /\ [Next]_vars => TInv'
<1> SUFFICES ASSUME TInv, [Next]_vars PROVE TInv'
  OBVIOUS
<1> USE CallsAssumption, TimeAssumption, NoneAssumption, AbsentNotRow
    DEF TInv, TypeOK, Referenced
<1>1. CASE Tick
  BY <1>1 DEF Tick, Times
<1>2. ASSUME NEW cids \in SUBSET Cids, RefreshRevocations(cids) PROVE TInv'
  BY <1>2 DEF RefreshRevocations
<1>3. ASSUME NEW c \in Calls, AskStepUp(c) PROVE TInv'
  BY <1>3 DEF AskStepUp, CallStates
<1>4. ASSUME NEW c \in Calls, CreateSelect(c) PROVE TInv'
  <2>1. ASSUME NEW a \in PendingFor(TargetOf[c]),
               call' = [call EXCEPT
                   ![c].pc = IF approval[a].expiresAt > call[c].at
                             THEN "polling" ELSE "write",
                   ![c].seen = a],
               UNCHANGED <<approval, session, now, retry, signed, revoked>>
        PROVE TInv'
    <3>1. a \in Approvals /\ approval[a] # Absent
      BY <2>1 DEF PendingFor, Absent
    <3>2. call' \in [Calls -> CallStates]
      <4> DEFINE pc == IF approval[a].expiresAt > call[c].at THEN "polling" ELSE "write"
      <4>1. pc \in {"polling", "write"}
        OBVIOUS
      <4>2. call' = [call EXCEPT ![c].pc = pc, ![c].seen = a]
        BY <2>1
      <4> HIDE DEF pc
      <4>3. QED
        BY <3>1, <4>1, <4>2, RewrittenCall DEF CallPcs
    <3>3. call'[c].seen = a /\ call'[c].pc \in {"polling", "write"}
      BY <2>1 DEF CallStates
    <3>4. \A d \in Calls : d # c => call'[d] = call[d]
      BY <2>1
    <3>5. QED
      BY <2>1, <3>1, <3>2, <3>3, <3>4
  <2>2. ASSUME call' = [call EXCEPT ![c].pc = "write"], call[c].pc = "select",
               UNCHANGED <<approval, session, now, retry, signed, revoked>>
        PROVE TInv'
    BY <2>2 DEF CallStates
  <2>3. QED
    BY <1>4, <2>1, <2>2 DEF CreateSelect
<1>5. ASSUME NEW c \in Calls, CreateRefresh(c) PROVE TInv'
  <2> DEFINE a == call[c].seen
             row == [approval[a] EXCEPT !.expiresAt = call[c].at + ApprovalTtl,
                                        !.cid = CidOf[c]]
  <2>1. a \in Approvals /\ approval[a] # Absent
    BY <1>5 DEF CreateRefresh, CallStates
  <2>2. call[c].at + ApprovalTtl \in Expiries /\ CidOf[c] \in Cids
    BY DEF CallStates, Times, Expiries
  <2>3. row \in Rows
    BY <2>1, <2>2, PresentIsRow, RewrittenRow
  <2>4. approval' = [approval EXCEPT ![a] = row]
    BY <1>5 DEF CreateRefresh
  <2>5. call' \in [Calls -> CallStates]
    BY <1>5 DEF CreateRefresh, CallStates
  <2>6. /\ approval' \in [Approvals -> Rows \cup {Absent}]
        /\ \A b \in Approvals : approval[b] # Absent => approval'[b] # Absent
    BY <2>1, <2>3, <2>4, StoreRow
  <2>7. /\ \A d \in Calls : call'[d].seen = call[d].seen
        /\ call'[c].pc = "polling"
        /\ \A d \in Calls : d # c => call'[d] = call[d]
    BY <1>5 DEF CreateRefresh, CallStates
  <2>8. Referenced'
    <3>1. \A d \in Calls : call[d].seen \in Approvals \cup {None}
      BY DEF CallStates
    <3>2. \A s \in Sessions : session[s].pc = "mint" => session[s].approval \in Approvals
      BY DEF SessionStates, NoSession
    <3>3. session' = session
      BY <1>5 DEF CreateRefresh
    <3>4. QED
      BY <1>5, <2>1, <2>6, <2>7, <3>1, <3>2, <3>3 DEF CreateRefresh
  <2>9. QED
    BY <1>5, <2>5, <2>6, <2>8 DEF CreateRefresh
<1>6. ASSUME NEW c \in Calls, CreateInsert(c) PROVE TInv'
  <2>1. CASE call' = [call EXCEPT ![c].pc = "failed"] /\ approval' = approval
    <3>1. call' \in [Calls -> CallStates]
      BY <2>1, RewrittenCall DEF CallPcs
    <3>2. /\ call'[c].pc = "failed"
          /\ \A d \in Calls : d # c => call'[d] = call[d]
      BY <2>1 DEF CallStates
    <3>3. UNCHANGED <<now, retry, session, signed, revoked>>
      BY <1>6 DEF CreateInsert
    <3>4. QED
      BY <2>1, <3>1, <3>2, <3>3
  <2>2. ASSUME NEW a \in Approvals,
               approval' = [approval EXCEPT ![a] =
                   [state |-> "pending", target |-> TargetOf[c], cid |-> CidOf[c],
                    expiresAt |-> call[c].at + ApprovalTtl,
                    jwt |-> NoCosigner, used |-> FALSE]],
               call' = [call EXCEPT ![c].pc = "polling", ![c].seen = a]
        PROVE TInv'
    <3>1. [state |-> "pending", target |-> TargetOf[c], cid |-> CidOf[c],
           expiresAt |-> call[c].at + ApprovalTtl, jwt |-> NoCosigner,
           used |-> FALSE] \in Rows
      BY DEF Rows, CallStates, Times, Expiries
    <3>2. /\ approval' \in [Approvals -> Rows \cup {Absent}]
          /\ \A b \in Approvals : approval[b] # Absent => approval'[b] # Absent
          /\ approval'[a] # Absent
      BY <2>2, <3>1, StoreRow
    <3>3. call' \in [Calls -> CallStates]
      BY <2>2, RewrittenCall DEF CallPcs
    <3>4. /\ call'[c].seen = a /\ call'[c].pc = "polling"
          /\ \A d \in Calls : d # c => call'[d] = call[d]
      BY <2>2 DEF CallStates
    <3>5. /\ \A d \in Calls : call[d].seen \in Approvals \cup {None}
          /\ \A s \in Sessions :
                session[s].pc = "mint" => session[s].approval \in Approvals
      BY DEF CallStates, SessionStates, NoSession
    <3>6. Referenced'
      BY <1>6, <3>2, <3>4, <3>5 DEF CreateInsert
    <3>7. QED
      BY <1>6, <3>2, <3>3, <3>6 DEF CreateInsert
  <2>3. QED
    BY <1>6, <2>1, <2>2 DEF CreateInsert
<1>7. ASSUME NEW c \in Calls, CreateFail(c) PROVE TInv'
  BY <1>7 DEF CreateFail, CallStates
<1>8. ASSUME NEW c \in Calls, Poll(c) PROVE TInv'
  <2> DEFINE row == approval[call[c].seen]
             pc == IF row.state = "approved" /\ row.jwt # NoCosigner
                   THEN "resumed" ELSE "refused"
             j == IF row.state = "approved" THEN row.jwt ELSE NoCosigner
  <2>1. row \in Rows
    BY <1>8, PresentIsRow DEF Poll, CallStates
  <2>2. /\ pc \in {"resumed", "refused"}
        /\ j \in Cosigners \cup {NoCosigner}
        /\ pc = "resumed" => j \in Cosigners
    BY <2>1 DEF Rows
  <2>3. call' = [call EXCEPT ![c].pc = pc, ![c].jwt = j]
    BY <1>8 DEF Poll
  <2> HIDE DEF pc, j, row
  <2>4. call' \in [Calls -> CallStates]
    BY <2>2, <2>3, RewrittenCall DEF CallPcs
  <2>5. /\ call'[c].pc = pc /\ call'[c].jwt = j
        /\ \A d \in Calls : d # c => call'[d] = call[d]
    BY <2>3 DEF CallStates
  <2>6. QED
    BY <1>8, <2>2, <2>4, <2>5 DEF Poll
<1>9. ASSUME NEW c \in Calls, PollTimeout(c) PROVE TInv'
  BY <1>9 DEF PollTimeout, CallStates
<1>10. ASSUME NEW s \in Sessions, NEW a \in Approvals, ApproveRead(s, a) PROVE TInv'
  <2>1. approval[a] \in Rows
    BY <1>10, PendingIsRow DEF ApproveRead
  <2>2. [pc |-> "mint", approval |-> a, target |-> approval[a].target,
         cid |-> approval[a].cid, at |-> now] \in SessionStates
    BY <2>1 DEF SessionStates, Rows
  <2>3. QED
    BY <1>10, <2>1, <2>2 DEF ApproveRead, NoSession
<1>11. ASSUME NEW s \in Sessions, ApproveWrite(s) PROVE TInv'
  <2> DEFINE a == session[s].approval
             row == [approval[a] EXCEPT !.state = "approved", !.jwt = CosignerOf(s)]
  <2>1. session[s] \in SessionStates
    BY <1>11 DEF ApproveWrite, NoSession
  <2>2. a \in Approvals /\ approval[a] # Absent
    BY <1>11, <2>1 DEF ApproveWrite, SessionStates
  <2>3. CosignerOf(s) \in Cosigners
    BY <2>1 DEF CosignerOf, Cosigners, SessionStates, Times, Expiries
  <2>4. row \in Rows
    BY <2>2, <2>3, PresentIsRow, RewrittenRow
  <2>5. approval' = [approval EXCEPT ![a] = row]
    BY <1>11 DEF ApproveWrite
  <2>6. /\ approval' \in [Approvals -> Rows \cup {Absent}]
        /\ \A b \in Approvals : approval[b] # Absent => approval'[b] # Absent
    BY <2>2, <2>4, <2>5, StoreRow
  <2>7. /\ \A t \in Sessions : t # s => session'[t] = session[t]
        /\ session'[s].pc # "mint"
        /\ session' \in [Sessions -> SessionStates \cup {NoSession}]
    BY <1>11 DEF ApproveWrite, NoSession
  <2>8. QED
    BY <1>11, <2>3, <2>6, <2>7, ReferencesHold DEF ApproveWrite
<1>12. ASSUME NEW s \in Sessions, ApproveFail(s) PROVE TInv'
  BY <1>12 DEF ApproveFail, NoSession
<1>13. ASSUME NEW s \in Sessions, NEW a \in Approvals, Deny(s, a) PROVE TInv'
  <2>1. [approval[a] EXCEPT !.state = "denied"] \in Rows
    BY <1>13, PendingIsRow, RewrittenRow DEF Deny, Deniable
  <2>2. /\ approval' \in [Approvals -> Rows \cup {Absent}]
        /\ \A b \in Approvals : approval[b] # Absent => approval'[b] # Absent
    BY <1>13, <2>1, StoreRow DEF Deny
  <2>3. QED
    BY <1>13, <2>2, ReferencesHold DEF Deny
<1>14. ASSUME NEW a \in Approvals, TelegramDecide(a) PROVE TInv'
  <2>1. PICK verdict \in {"approved", "denied"} :
           approval' = [approval EXCEPT ![a].state = verdict]
    BY <1>14 DEF TelegramDecide
  <2>2. [approval[a] EXCEPT !.state = verdict] \in Rows
    BY <1>14, PendingIsRow, RewrittenRow DEF TelegramDecide
  <2>3. /\ approval' \in [Approvals -> Rows \cup {Absent}]
        /\ \A b \in Approvals : approval[b] # Absent => approval'[b] # Absent
    BY <2>1, <2>2, StoreRow
  <2>4. QED
    BY <1>14, <2>3, ReferencesHold DEF TelegramDecide
<1>15. ASSUME NEW r \in Retries, NEW c \in Calls, NEW t \in Targets,
             NEW j \in Polled, StartRetry(r, c, t, j)
       PROVE TInv'
  <2>1. j \in Cosigners
    BY DEF Polled
  <2>2. LocalCheck(c, t, j) \in {"fetch"} \cup Outcomes
    BY DEF LocalCheck, Outcomes
  <2>3. QED
    BY <1>15, <2>1, <2>2 DEF StartRetry, RetryStates
<1>16. ASSUME NEW r \in Retries, FetchApproval(r) PROVE TInv'
  BY <1>16 DEF FetchApproval, RetryStates, Outcomes, NoRetry
<1>17. ASSUME NEW r \in Retries, Consume(r) PROVE TInv'
  <2> DEFINE a == retry[r].jwt.approval
  <2>1. retry' \in [Retries -> RetryStates \cup {NoRetry}]
    BY <1>17 DEF Consume, RetryStates, Outcomes, NoRetry
  <2>2. CASE approval' = approval
    BY <1>17, <2>1, <2>2 DEF Consume
  <2>3. CASE Consumable(a) /\ approval' = [approval EXCEPT ![a].used = TRUE]
    <3>1. a \in Approvals
      BY <1>17 DEF Consume, RetryStates, NoRetry, Cosigners
    <3>2. [approval[a] EXCEPT !.used = TRUE] \in Rows
      BY <2>3, <3>1, PendingIsRow, RewrittenRow DEF Consumable
    <3>3. /\ approval' \in [Approvals -> Rows \cup {Absent}]
          /\ \A b \in Approvals : approval[b] # Absent => approval'[b] # Absent
      BY <2>3, <3>1, <3>2, StoreRow
    <3>4. QED
      BY <1>17, <2>1, <3>3, ReferencesHold DEF Consume
  <2>4. QED
    BY <1>17, <2>2, <2>3 DEF Consume
<1>18. ASSUME NEW r \in Retries, Decide(r) PROVE TInv'
  BY <1>18 DEF Decide, RetryStates, Outcomes, NoRetry
<1>19. ASSUME NEW r \in Retries, RetryFail(r) PROVE TInv'
  BY <1>19 DEF RetryFail, RetryStates, Outcomes, NoRetry
<1>20. CASE UNCHANGED vars
  BY <1>20 DEF vars
<1>21. QED
  BY <1>1, <1>2, <1>3, <1>4, <1>5, <1>6, <1>7, <1>8, <1>9, <1>10, <1>11, <1>12,
     <1>13, <1>14, <1>15, <1>16, <1>17, <1>18, <1>19, <1>20
  DEF Next, CallStep, SessionStep, RetryStep

(* Every variable of StepUp keeps its type, and no handler ever writes to a  *)
(* row that does not exist (create.ts and cosigner.ts update by id alone).   *)
THEOREM StepUpTypeCorrect == Spec => []TypeOK
<1>1. Spec => []TInv
  BY InitTInv, StepTInv, PTL DEF Spec
<1>2. TInv => TypeOK
  BY DEF TInv
<1>3. QED
  BY <1>1, <1>2, PTL

-----------------------------------------------------------------------------
(* Single use.  A retry is counted from its claim, not from its answer: the  *)
(* claim marks the row used, the mark is never cleared, and a second claim   *)
(* of a used row fails.                                                      *)

ClaimInv ==
    /\ \A r \in Retries : retry[r].claimed =>
          approval[retry[r].jwt.approval].used
    /\ \A r1, r2 \in Retries :
          /\ retry[r1].claimed /\ retry[r2].claimed
          /\ retry[r1].jwt.approval = retry[r2].jwt.approval
          => r1 = r2
    /\ \A r \in Retries :
          retry[r].pc \in {"decide", "allowed"} => retry[r].claimed

LEMMA StepClaimInv == TInv /\ ClaimInv /\ [Next]_vars => ClaimInv'
<1> SUFFICES ASSUME TInv, ClaimInv, [Next]_vars PROVE ClaimInv'
  OBVIOUS
<1>0. /\ retry \in [Retries -> RetryStates \cup {NoRetry}]
      /\ approval \in [Approvals -> Rows \cup {Absent}]
      /\ \A r \in Retries : retry[r].claimed =>
            retry[r] \in RetryStates /\ retry[r].jwt.approval \in Approvals
  BY DEF TInv, TypeOK, NoRetry, RetryStates, Cosigners
<1>1. ASSUME retry' = retry,
             \A a \in Approvals : approval[a].used => approval'[a].used
      PROVE ClaimInv'
  BY <1>0, <1>1 DEF ClaimInv
<1>2. ASSUME NEW c \in Calls, CreateRefresh(c) PROVE ClaimInv'
  BY <1>0, <1>1, <1>2 DEF CreateRefresh
<1>3. ASSUME NEW c \in Calls, CreateInsert(c) PROVE ClaimInv'
  BY <1>0, <1>1, <1>3 DEF CreateInsert, Absent
<1>4. ASSUME NEW s \in Sessions, ApproveWrite(s) PROVE ClaimInv'
  BY <1>0, <1>1, <1>4 DEF ApproveWrite
<1>5. ASSUME NEW s \in Sessions, NEW a \in Approvals, Deny(s, a) PROVE ClaimInv'
  BY <1>0, <1>1, <1>5 DEF Deny
<1>6. ASSUME NEW a \in Approvals, TelegramDecide(a) PROVE ClaimInv'
  BY <1>0, <1>1, <1>6 DEF TelegramDecide
<1>7. ASSUME NEW r \in Retries, NEW c \in Calls, NEW t \in Targets,
             NEW j \in Polled, StartRetry(r, c, t, j)
      PROVE ClaimInv'
  <2>1. LocalCheck(c, t, j) \notin {"decide", "allowed"}
    BY DEF LocalCheck
  <2>2. /\ ~retry'[r].claimed /\ retry'[r].pc \notin {"decide", "allowed"}
        /\ \A q \in Retries : q # r => retry'[q] = retry[q]
        /\ approval' = approval
    BY <1>0, <1>7, <2>1 DEF StartRetry
  <2>3. QED
    BY <2>2 DEF ClaimInv
<1>8. ASSUME NEW r \in Retries, FetchApproval(r) PROVE ClaimInv'
  BY <1>0, <1>8 DEF FetchApproval, ClaimInv
<1>9. ASSUME NEW r \in Retries, Consume(r) PROVE ClaimInv'
  <2> DEFINE a == retry[r].jwt.approval
  <2>0. a \in Approvals
    BY <1>0, <1>9 DEF Consume, NoRetry, RetryStates, Cosigners
  <2>1. CASE Consumable(a) /\ approval' = [approval EXCEPT ![a].used = TRUE]
             /\ retry' = [retry EXCEPT ![r].pc = "decide", ![r].claimed = TRUE]
    <3>1. approval'[a].used /\ ~approval[a].used
      BY <1>0, <2>0, <2>1, PendingIsRow DEF Consumable, TInv, Rows
    <3>2. \A b \in Approvals : approval[b].used => approval'[b].used
      BY <1>0, <2>1, <3>1
    <3>3. \A q \in Retries : retry[q].claimed => retry[q].jwt.approval # a
      BY <3>1 DEF ClaimInv
    <3>4. /\ retry'[r].jwt = retry[r].jwt
          /\ retry'[r].claimed
          /\ \A q \in Retries : q # r => retry'[q] = retry[q]
      BY <1>0, <1>9, <2>1 DEF Consume, NoRetry, RetryStates
    <3>5. QED
      BY <1>0, <3>1, <3>2, <3>3, <3>4 DEF ClaimInv
  <2>2. CASE approval' = approval
             /\ retry' = [retry EXCEPT ![r].pc = "cosigner_already_used"]
    BY <1>0, <2>2 DEF ClaimInv
  <2>3. QED
    BY <1>9, <2>1, <2>2 DEF Consume
<1>10. ASSUME NEW r \in Retries, Decide(r) PROVE ClaimInv'
  BY <1>0, <1>10 DEF Decide, ClaimInv
<1>11. ASSUME NEW r \in Retries, RetryFail(r) PROVE ClaimInv'
  BY <1>0, <1>11 DEF RetryFail, ClaimInv
<1>12. CASE UNCHANGED <<approval, retry>>
  BY <1>1, <1>12
<1>13. QED
  BY <1>2, <1>3, <1>4, <1>5, <1>6, <1>7, <1>8, <1>9, <1>10, <1>11, <1>12
  DEF Next, CallStep, SessionStep, RetryStep, vars, Tick, RefreshRevocations,
      AskStepUp, CreateSelect, CreateFail, Poll, PollTimeout, ApproveRead, ApproveFail

(* One approval lets at most one request through: the claim in internal.ts   *)
(* holds up against any number of concurrent retries, re-signed rows, lost    *)
(* answers and PDP failures (audit C5).                                      *)
THEOREM StepUpSingleUse == Spec => []SingleUse
<1>1. Init => ClaimInv
  BY DEF Init, ClaimInv, NoRetry
<1>2. Spec => [](TInv /\ ClaimInv)
  BY <1>1, InitTInv, StepTInv, StepClaimInv, PTL DEF Spec
<1>3. ClaimInv => SingleUse
  BY DEF ClaimInv, SingleUse
<1>4. QED
  BY <1>2, <1>3, PTL

-----------------------------------------------------------------------------
(* Approvals stand.  No write takes a row out of "approved": the two updates *)
(* by id alone leave the state or set it to "approved".                      *)

LEMMA StepApproved ==
    ASSUME TInv, [Next]_vars
    PROVE  \A b \in Approvals :
              approval[b].state = "approved" => approval'[b].state = "approved"
<1>0. approval \in [Approvals -> Rows \cup {Absent}]
  BY DEF TInv, TypeOK
<1> DEFINE Kept == \A b \in Approvals :
                      approval[b].state = "approved" => approval'[b].state = "approved"
<1>1. ASSUME NEW c \in Calls, CreateRefresh(c) PROVE Kept
  <2>1. /\ call[c].seen \in Approvals
        /\ approval[call[c].seen] \in Rows
    BY <1>1, PresentIsRow DEF CreateRefresh, TInv, TypeOK, Referenced, CallStates
  <2> QED
    BY <1>0, <1>1, <2>1 DEF CreateRefresh, Rows
<1>2. ASSUME NEW c \in Calls, CreateInsert(c) PROVE Kept
  BY <1>0, <1>2 DEF CreateInsert, Absent
<1>3. ASSUME NEW s \in Sessions, ApproveWrite(s) PROVE Kept
  <2>1. /\ session[s].approval \in Approvals
        /\ approval[session[s].approval] \in Rows
    BY <1>3, PresentIsRow DEF ApproveWrite, TInv, TypeOK, Referenced, SessionStates, NoSession
  <2> QED
    BY <1>0, <1>3, <2>1 DEF ApproveWrite, Rows
<1>4. ASSUME NEW s \in Sessions, NEW a \in Approvals, Deny(s, a) PROVE Kept
  BY <1>0, <1>4 DEF Deny, Deniable
<1>5. ASSUME NEW a \in Approvals, TelegramDecide(a) PROVE Kept
  BY <1>0, <1>5 DEF TelegramDecide
<1>6. ASSUME NEW r \in Retries, Consume(r) PROVE Kept
  BY <1>0, <1>6 DEF Consume, Rows, Absent
<1>7. CASE UNCHANGED approval
  BY <1>7
<1> QED
  BY <1>1, <1>2, <1>3, <1>4, <1>5, <1>6, <1>7
  DEF Next, CallStep, SessionStep, RetryStep, vars, Tick, RefreshRevocations,
      AskStepUp, CreateSelect, CreateFail, Poll, PollTimeout, ApproveRead, ApproveFail,
      StartRetry, FetchApproval, Decide, RetryFail

(* A decided row keeps its state but for an approval that was under way, and *)
(* no other approval comes to it: ApproveRead takes pending rows only.       *)
LEMMA StepDecided ==
    ASSUME TInv, [Next]_vars,
           NEW a \in Approvals, approval[a].state \in {"approved", "denied"}
    PROVE  /\ \/ approval'[a].state = approval[a].state
              \/ /\ approval[a].state = "denied"
                 /\ approval'[a].state = "approved"
                 /\ \E s \in Approving(a) : ApproveWrite(s)
           /\ Approving(a)' \subseteq Approving(a)
<1> DEFINE Stands == /\ \/ approval'[a].state = approval[a].state
                        \/ /\ approval[a].state = "denied"
                           /\ approval'[a].state = "approved"
                           /\ \E s \in Approving(a) : ApproveWrite(s)
                     /\ Approving(a)' \subseteq Approving(a)
<1>0. /\ approval \in [Approvals -> Rows \cup {Absent}]
      /\ session \in [Sessions -> SessionStates \cup {NoSession}]
      /\ approval[a] \in Rows
  BY PresentIsRow DEF TInv, TypeOK, Absent
<1>1. ASSUME session' = session, approval'[a].state = approval[a].state PROVE Stands
  BY <1>1 DEF Approving
<1>2. ASSUME NEW c \in Calls, CreateRefresh(c) PROVE Stands
  <2>1. approval'[a].state = approval[a].state
    BY <1>0, <1>2 DEF CreateRefresh, Rows
  <2> QED
    BY <1>1, <1>2, <2>1 DEF CreateRefresh
<1>3. ASSUME NEW c \in Calls, CreateInsert(c) PROVE Stands
  <2>1. approval'[a].state = approval[a].state
    BY <1>0, <1>3 DEF CreateInsert, Absent
  <2> QED
    BY <1>1, <1>3, <2>1 DEF CreateInsert
<1>4. ASSUME NEW s \in Sessions, NEW b \in Approvals, ApproveRead(s, b) PROVE Stands
  <2>1. b # a /\ session' = [session EXCEPT ![s] =
           [pc |-> "mint", approval |-> b, target |-> approval[b].target,
            cid |-> approval[b].cid, at |-> now]]
    BY <1>4 DEF ApproveRead
  <2>2. \A q \in Sessions : session'[q].pc = "mint" /\ session'[q].approval = a =>
           session[q].pc = "mint" /\ session[q].approval = a
    BY <1>0, <2>1
  <2> QED
    BY <1>4, <2>2 DEF ApproveRead, Approving
<1>5. ASSUME NEW s \in Sessions, ApproveFail(s) PROVE Stands
  <2>1. \A q \in Sessions : session'[q].pc = "mint" /\ session'[q].approval = a =>
           session[q].pc = "mint" /\ session[q].approval = a
    BY <1>0, <1>5 DEF ApproveFail, NoSession
  <2> QED
    BY <1>5, <2>1 DEF ApproveFail, Approving
<1>6. ASSUME NEW s \in Sessions, ApproveWrite(s) PROVE Stands
  <2>1. \A q \in Sessions : session'[q].pc = "mint" /\ session'[q].approval = a =>
           session[q].pc = "mint" /\ session[q].approval = a
    BY <1>0, <1>6 DEF ApproveWrite, NoSession
  <2>2. CASE session[s].approval = a
    <3>1. s \in Approving(a) /\ approval'[a].state = "approved"
      BY <1>0, <1>6, <2>2 DEF ApproveWrite, Approving, Rows
    <3> QED
      BY <1>6, <2>1, <3>1 DEF Approving
  <2>3. CASE session[s].approval # a
    <3>1. approval'[a].state = approval[a].state
      BY <1>0, <1>6, <2>3 DEF ApproveWrite
    <3> QED
      BY <2>1, <3>1 DEF Approving
  <2> QED
    BY <2>2, <2>3
<1>7. ASSUME NEW s \in Sessions, NEW b \in Approvals, Deny(s, b) PROVE Stands
  <2>1. approval'[a].state = approval[a].state
    BY <1>0, <1>7 DEF Deny, Deniable
  <2> QED
    BY <1>1, <1>7, <2>1 DEF Deny
<1>8. ASSUME NEW b \in Approvals, TelegramDecide(b) PROVE Stands
  <2>1. approval'[a].state = approval[a].state
    BY <1>0, <1>8 DEF TelegramDecide
  <2> QED
    BY <1>1, <1>8, <2>1 DEF TelegramDecide
<1>9. ASSUME NEW r \in Retries, Consume(r) PROVE Stands
  <2>1. approval'[a].state = approval[a].state
    BY <1>0, <1>9 DEF Consume, Rows
  <2> QED
    BY <1>1, <1>9, <2>1 DEF Consume
<1>10. CASE UNCHANGED <<approval, session>>
  BY <1>1, <1>10
<1> QED
  BY <1>2, <1>3, <1>4, <1>5, <1>6, <1>7, <1>8, <1>9, <1>10
  DEF Next, CallStep, SessionStep, RetryStep, vars, Tick, RefreshRevocations,
      AskStepUp, CreateSelect, CreateFail, Poll, PollTimeout,
      StartRetry, FetchApproval, Decide, RetryFail

(* However many operators, Telegram chats, refreshes and claims race, an     *)
(* approval is not withdrawn, and what replaces a denial is the write of a   *)
(* mintCosignerForApproval that had read the row before it (cosigner.ts).    *)
THEOREM StepUpDecisionStands == Spec => DecisionStands
<1>1. TInv /\ [Next]_vars =>
         [\A a \in Approvals : approval[a].state \in {"approved", "denied"} =>
             /\ \/ approval'[a].state = approval[a].state
                \/ /\ approval[a].state = "denied"
                   /\ approval'[a].state = "approved"
                   /\ \E s \in Approving(a) : ApproveWrite(s)
             /\ Approving(a)' \subseteq Approving(a)]_vars
  BY StepDecided
<1>2. Spec => []TInv
  BY InitTInv, StepTInv, PTL DEF Spec
<1> QED
  BY <1>1, <1>2, PTL DEF Spec, DecisionStands

(* A denial found with no approval of that row under way stands for ever:    *)
(* denyApproval and resolveApproval are overtaken by mintCosignerForApproval *)
(* within its read and its update, and never later.                          *)
THEOREM StepUpDenialStands ==
    ASSUME NEW a \in Approvals
    PROVE  Spec => [](approval[a].state = "denied" /\ Approving(a) = {} =>
                          [](approval[a].state = "denied"))
<1> DEFINE Settled == approval[a].state = "denied" /\ Approving(a) = {}
<1>1. TInv /\ Settled /\ [Next]_vars => Settled'
  BY StepDecided
<1>2. Settled => approval[a].state = "denied"
  OBVIOUS
<1>3. Spec => []TInv
  BY InitTInv, StepTInv, PTL DEF Spec
<1> HIDE DEF Settled
<1>4. Spec => [](Settled => [](approval[a].state = "denied"))
  BY <1>1, <1>2, <1>3, PTL DEF Spec
<1> QED
  BY <1>4 DEF Settled

-----------------------------------------------------------------------------
(* What unlocks.  A JWT that a handler holds was written to its row by a     *)
(* passkey approval; past the local check it is for the UCAN and command of  *)
(* the call, and past the fetch its row is approved, which stays so.         *)

CosignedInv ==
    /\ \A a \in Approvals : approval[a].jwt \in signed \cup {NoCosigner}
    /\ \A c \in Calls : call[c].pc = "resumed" => call[c].jwt \in signed
    /\ \A r \in Retries : retry[r].pc # "idle" => retry[r].jwt \in signed
    /\ \A r \in Retries :
          retry[r].pc \in {"fetch", "consume", "decide", "allowed"} =>
              /\ retry[r].jwt.cid = CidOf[retry[r].call]
              /\ retry[r].jwt.target.command = retry[r].target.command
    /\ \A r \in Retries :
          retry[r].pc \in {"consume", "decide", "allowed"} =>
              approval[retry[r].jwt.approval].state = "approved"

LEMMA StepCosignedInv == TInv /\ CosignedInv /\ [Next]_vars => CosignedInv'
<1> SUFFICES ASSUME TInv, CosignedInv, [Next]_vars PROVE CosignedInv'
  OBVIOUS
<1>0. /\ approval \in [Approvals -> Rows \cup {Absent}]
      /\ call \in [Calls -> CallStates]
      /\ retry \in [Retries -> RetryStates \cup {NoRetry}]
      /\ \A r \in Retries : retry[r].pc # "idle" =>
            retry[r] \in RetryStates /\ retry[r].jwt.approval \in Approvals
  BY DEF TInv, TypeOK, NoRetry, RetryStates, Cosigners
<1>a. \A b \in Approvals :
         approval[b].state = "approved" => approval'[b].state = "approved"
  BY StepApproved
(* A step that leaves the retries alone disturbs the first two conjuncts.   *)
<1>1. ASSUME retry' = retry, signed \subseteq signed',
             \A a \in Approvals : approval'[a].jwt \in signed' \cup {NoCosigner},
             \A c \in Calls : call'[c].pc = "resumed" => call'[c].jwt \in signed'
      PROVE  CosignedInv'
  BY <1>0, <1>a, <1>1 DEF CosignedInv
(* A step of one retry that holds on to its JWT.                            *)
<1>2. ASSUME NEW r \in Retries, retry[r].pc # "idle",
             retry'[r].jwt = retry[r].jwt, retry'[r].call = retry[r].call,
             retry'[r].target = retry[r].target,
             \A q \in Retries : q # r => retry'[q] = retry[q],
             retry'[r].pc \in {"consume", "decide", "allowed"} =>
                 approval[retry[r].jwt.approval].state = "approved",
             retry[r].pc \in {"fetch", "consume", "decide"},
             \A a \in Approvals : approval'[a].jwt = approval[a].jwt,
             UNCHANGED <<call, signed>>
      PROVE  CosignedInv'
  BY <1>0, <1>a, <1>2 DEF CosignedInv
(* The fields that such a step keeps.                                       *)
<1>b. ASSUME NEW r \in Retries, NEW pc, retry[r].pc \in {"fetch", "consume", "decide"},
             \/ retry' = [retry EXCEPT ![r].pc = pc]
             \/ retry' = [retry EXCEPT ![r].pc = pc, ![r].claimed = TRUE]
      PROVE  /\ retry'[r].pc = pc
             /\ retry'[r].jwt = retry[r].jwt /\ retry'[r].call = retry[r].call
        /\ retry'[r].target = retry[r].target
             /\ \A q \in Retries : q # r => retry'[q] = retry[q]
  BY <1>0, <1>b DEF RetryStates
<1>3. ASSUME NEW c \in Calls, CreateRefresh(c) PROVE CosignedInv'
  <2>1. \A a \in Approvals : approval'[a].jwt = approval[a].jwt
    BY <1>0, <1>3 DEF CreateRefresh, Rows, Absent
  <2>2. \A d \in Calls : call'[d].pc = "resumed" => call'[d] = call[d]
    BY <1>0, <1>3 DEF CreateRefresh, CallStates
  <2>3. UNCHANGED <<retry, signed>>
    BY <1>3 DEF CreateRefresh
  <2> QED
    BY <1>1, <2>1, <2>2, <2>3 DEF CosignedInv
<1>4. ASSUME NEW c \in Calls, CreateInsert(c) PROVE CosignedInv'
  <2>1. \A a \in Approvals : approval'[a].jwt \in {approval[a].jwt, NoCosigner}
    BY <1>0, <1>4 DEF CreateInsert
  <2>2. \A d \in Calls : call'[d].pc = "resumed" => call'[d] = call[d]
    BY <1>0, <1>4 DEF CreateInsert, CallStates
  <2> QED
    BY <1>1, <1>4, <2>1, <2>2 DEF CreateInsert, CosignedInv
<1>5. ASSUME NEW c \in Calls,
             AskStepUp(c) \/ CreateSelect(c) \/ CreateFail(c) \/ PollTimeout(c)
      PROVE  CosignedInv'
  <2>1. \A d \in Calls : call'[d].pc = "resumed" => call'[d] = call[d]
    BY <1>0, <1>5 DEF AskStepUp, CreateSelect, CreateFail, PollTimeout, CallStates
  <2> QED
    BY <1>1, <1>5, <2>1 DEF AskStepUp, CreateSelect, CreateFail, PollTimeout, CosignedInv
<1>6. ASSUME NEW c \in Calls, Poll(c) PROVE CosignedInv'
  <2>1. call[c].seen \in Approvals
    BY <1>6 DEF Poll, TInv, TypeOK, Referenced, CallStates
  <2>2. call'[c].pc = "resumed" => call'[c].jwt \in signed
    BY <1>0, <1>6, <2>1 DEF Poll, CallStates, CosignedInv
  <2>3. \A d \in Calls : d # c => call'[d] = call[d]
    BY <1>0, <1>6 DEF Poll
  <2>4. UNCHANGED <<approval, retry, signed>>
    BY <1>6 DEF Poll
  <2> QED
    BY <1>1, <2>2, <2>3, <2>4 DEF CosignedInv
<1>7. ASSUME NEW s \in Sessions, ApproveWrite(s) PROVE CosignedInv'
  <2>1. /\ session[s].approval \in Approvals
        /\ approval[session[s].approval] \in Rows
    BY <1>7, PresentIsRow DEF ApproveWrite, TInv, TypeOK, Referenced, SessionStates, NoSession
  <2>2. \A a \in Approvals : approval'[a].jwt \in {approval[a].jwt, CosignerOf(s)}
    BY <1>0, <1>7, <2>1 DEF ApproveWrite, Rows
  <2>3. UNCHANGED <<call, retry>> /\ signed' = signed \cup {CosignerOf(s)}
    BY <1>7 DEF ApproveWrite
  <2> HIDE DEF CosignerOf
  <2> QED
    BY <1>1, <2>2, <2>3 DEF CosignedInv
<1>8. ASSUME NEW s \in Sessions, NEW a \in Approvals, Deny(s, a) PROVE CosignedInv'
  <2>1. \A b \in Approvals : approval'[b].jwt = approval[b].jwt
    BY <1>0, <1>8 DEF Deny, Rows, Absent
  <2> QED
    BY <1>1, <1>8, <2>1 DEF Deny, CosignedInv
<1>9. ASSUME NEW a \in Approvals, TelegramDecide(a) PROVE CosignedInv'
  <2>1. \A b \in Approvals : approval'[b].jwt = approval[b].jwt
    BY <1>0, <1>9 DEF TelegramDecide, Rows, Absent
  <2> QED
    BY <1>1, <1>9, <2>1 DEF TelegramDecide, CosignedInv
<1>10. ASSUME NEW r \in Retries, NEW c \in Calls, NEW t \in Targets,
             NEW j \in Polled, StartRetry(r, c, t, j)
       PROVE  CosignedInv'
  <2>1. /\ retry'[r].jwt = j /\ retry'[r].call = c /\ retry'[r].target = t
        /\ retry'[r].pc = LocalCheck(c, t, j)
        /\ \A q \in Retries : q # r => retry'[q] = retry[q]
        /\ UNCHANGED <<approval, call, signed>>
    BY <1>0, <1>10 DEF StartRetry
  <2>2. j \in signed
    BY DEF Polled, CosignedInv
  <2>3. /\ LocalCheck(c, t, j) \notin {"consume", "decide", "allowed"}
        /\ LocalCheck(c, t, j) = "fetch" =>
              j.cid = CidOf[c] /\ j.target.command = t.command
    BY DEF LocalCheck
  <2> QED
    BY <2>1, <2>2, <2>3 DEF CosignedInv
<1>11. ASSUME NEW r \in Retries, FetchApproval(r) PROVE CosignedInv'
  <2> DEFINE row == approval[retry[r].jwt.approval]
             pc == IF row.state = "approved" /\ row.jwt = retry[r].jwt
                   THEN "consume" ELSE "cosigner_invalid"
  <2>1. /\ retry[r].pc = "fetch" /\ retry' = [retry EXCEPT ![r].pc = pc]
        /\ UNCHANGED <<approval, call, signed>>
    BY <1>11 DEF FetchApproval
  <2>2. pc \in {"consume", "decide", "allowed"} => row.state = "approved"
    OBVIOUS
  <2> HIDE DEF pc
  <2> QED
    BY <1>2, <1>b, <2>1, <2>2
<1>12. ASSUME NEW r \in Retries, Consume(r) PROVE CosignedInv'
  <2>1. \A b \in Approvals : approval'[b].jwt = approval[b].jwt
    BY <1>0, <1>12 DEF Consume, Rows, Absent
  <2>2. retry[r].pc = "consume" /\ UNCHANGED <<call, signed>>
    BY <1>12 DEF Consume
  <2>3. \E pc \in {"decide", "cosigner_already_used"} :
          \/ retry' = [retry EXCEPT ![r].pc = pc]
          \/ retry' = [retry EXCEPT ![r].pc = pc, ![r].claimed = TRUE]
    BY <1>12 DEF Consume
  <2>4. /\ retry'[r].jwt = retry[r].jwt /\ retry'[r].call = retry[r].call
        /\ retry'[r].target = retry[r].target
        /\ \A q \in Retries : q # r => retry'[q] = retry[q]
    BY <1>b, <2>2, <2>3
  <2>5. approval[retry[r].jwt.approval].state = "approved"
    BY <2>2 DEF CosignedInv
  <2> QED
    BY <1>2, <2>1, <2>2, <2>4, <2>5
<1>13. ASSUME NEW r \in Retries, Decide(r) PROVE CosignedInv'
  <2> DEFINE pc == IF CidOf[retry[r].call] \in retry[r].known THEN "revoked" ELSE "allowed"
  <2>1. /\ retry[r].pc = "decide" /\ retry' = [retry EXCEPT ![r].pc = pc]
        /\ UNCHANGED <<approval, call, signed>>
    BY <1>13 DEF Decide
  <2>2. approval[retry[r].jwt.approval].state = "approved"
    BY <2>1 DEF CosignedInv
  <2> HIDE DEF pc
  <2> QED
    BY <1>2, <1>b, <2>1, <2>2
<1>14. ASSUME NEW r \in Retries, RetryFail(r) PROVE CosignedInv'
  <2>1. /\ retry[r].pc \in {"fetch", "consume", "decide"}
        /\ retry' = [retry EXCEPT ![r].pc = "error"]
        /\ UNCHANGED <<approval, call, signed>>
    BY <1>14 DEF RetryFail
  <2>2. /\ retry'[r].pc = "error"
        /\ retry'[r].jwt = retry[r].jwt /\ retry'[r].call = retry[r].call
        /\ retry'[r].target = retry[r].target
        /\ \A q \in Retries : q # r => retry'[q] = retry[q]
    BY <1>0, <2>1 DEF RetryStates
  <2> QED
    BY <1>2, <2>1, <2>2
<1>15. CASE UNCHANGED <<approval, call, retry, signed>>
  BY <1>1, <1>15 DEF CosignedInv
<1> QED
  BY <1>3, <1>4, <1>5, <1>6, <1>7, <1>8, <1>9, <1>10, <1>11, <1>12, <1>13, <1>14, <1>15
  DEF Next, CallStep, SessionStep, RetryStep, vars, Tick, RefreshRevocations,
      ApproveRead, ApproveFail

(* What a cosigner lets through an operator approved with a passkey, for the *)
(* same UCAN and command, and the approval stands (cosigner-validate.ts):    *)
(* Telegram, refreshed rows and denials unlock nothing.                      *)
THEOREM StepUpAllowedWasCosigned == Spec => []AllowedWasCosigned
<1>1. Init => CosignedInv
  BY DEF Init, CosignedInv, NoRetry, Absent
<1>2. Spec => []CosignedInv
  BY <1>1, InitTInv, StepTInv, StepCosignedInv, PTL DEF Spec
<1>3. CosignedInv => AllowedWasCosigned
  BY DEF CosignedInv, AllowedWasCosigned
<1> QED
  BY <1>2, <1>3, PTL

-----------------------------------------------------------------------------
(* One pending row.  Rows become pending only by the insert, which the index *)
(* admits when there is none for the target, and no write changes a target.  *)

PendingUnique ==
    \A a, b \in Approvals :
        /\ approval[a].state = "pending" /\ approval[b].state = "pending"
        /\ approval[a].target = approval[b].target
        => a = b

LEMMA StepPendingUnique == TInv /\ PendingUnique /\ [Next]_vars => PendingUnique'
<1> SUFFICES ASSUME TInv, PendingUnique, [Next]_vars PROVE PendingUnique'
  OBVIOUS
<1>0. approval \in [Approvals -> Rows \cup {Absent}]
  BY DEF TInv, TypeOK
<1>1. ASSUME \A a \in Approvals : approval'[a].state = "pending" =>
                approval[a].state = "pending" /\ approval'[a].target = approval[a].target
      PROVE  PendingUnique'
  BY <1>1 DEF PendingUnique
<1>2. ASSUME NEW c \in Calls, CreateRefresh(c) PROVE PendingUnique'
  BY <1>0, <1>1, <1>2 DEF CreateRefresh, Rows, Absent
<1>3. ASSUME NEW c \in Calls, CreateInsert(c) PROVE PendingUnique'
  <2>1. CASE UNCHANGED approval
    BY <1>1, <2>1
  <2>2. ASSUME IndexFree(TargetOf[c]), NEW a \in Approvals,
               approval' = [approval EXCEPT ![a] =
                   [state |-> "pending", target |-> TargetOf[c], cid |-> CidOf[c],
                    expiresAt |-> call[c].at + ApprovalTtl,
                    jwt |-> NoCosigner, used |-> FALSE]]
        PROVE  PendingUnique'
    <3>1. \A b \in Approvals :
             approval[b].state = "pending" => approval[b].target # TargetOf[c]
      BY <2>2 DEF IndexFree, PendingFor
    <3>2. /\ approval'[a].target = TargetOf[c]
          /\ \A b \in Approvals : b # a => approval'[b] = approval[b]
      BY <1>0, <2>2
    <3> QED
      BY <3>1, <3>2 DEF PendingUnique
  <2> QED
    BY <1>3, <2>1, <2>2 DEF CreateInsert
<1>4. ASSUME NEW s \in Sessions, ApproveWrite(s) PROVE PendingUnique'
  <2>1. /\ session[s].approval \in Approvals
        /\ approval[session[s].approval] \in Rows
    BY <1>4, PresentIsRow DEF ApproveWrite, TInv, TypeOK, Referenced, SessionStates, NoSession
  <2> QED
    BY <1>0, <1>1, <1>4, <2>1 DEF ApproveWrite, Rows
<1>5. ASSUME NEW s \in Sessions, NEW a \in Approvals, Deny(s, a) PROVE PendingUnique'
  BY <1>0, <1>1, <1>5 DEF Deny, Deniable
<1>6. ASSUME NEW a \in Approvals, TelegramDecide(a) PROVE PendingUnique'
  BY <1>0, <1>1, <1>6 DEF TelegramDecide
<1>7. ASSUME NEW r \in Retries, Consume(r) PROVE PendingUnique'
  BY <1>0, <1>1, <1>7 DEF Consume, Rows, Absent
<1>8. CASE UNCHANGED approval
  BY <1>1, <1>8
<1> QED
  BY <1>2, <1>3, <1>4, <1>5, <1>6, <1>7, <1>8
  DEF Next, CallStep, SessionStep, RetryStep, vars, Tick, RefreshRevocations,
      AskStepUp, CreateSelect, CreateFail, Poll, PollTimeout, ApproveRead, ApproveFail,
      StartRetry, FetchApproval, Decide, RetryFail

(* However many calls ask at once, a target has one pending row: the partial *)
(* unique index of push_approvals and the refresh in place see to it.        *)
THEOREM StepUpOnePendingPerTarget == Spec => []OnePendingPerTarget
<1>1. Init => PendingUnique
  BY DEF Init, PendingUnique, Absent
<1>2. Spec => []PendingUnique
  BY <1>1, InitTInv, StepTInv, StepPendingUnique, PTL DEF Spec
<1>3. PendingUnique => OnePendingPerTarget
  <2> SUFFICES ASSUME PendingUnique, NEW t \in Targets
               PROVE  Cardinality(PendingFor(t)) <= 1
    BY DEF OnePendingPerTarget
  <2>1. CASE PendingFor(t) = {}
    BY <2>1, FS_EmptySet
  <2>2. ASSUME NEW a \in PendingFor(t)
        PROVE  Cardinality(PendingFor(t)) <= 1
    <3>1. PendingFor(t) = {a}
      BY <2>2 DEF PendingFor, PendingUnique
    <3> QED
      BY <3>1, FS_Singleton
  <2> QED
    BY <2>1, <2>2
<1> QED
  BY <1>2, <1>3, PTL

-----------------------------------------------------------------------------
(* One operator at a time.  With a single dashboard session and no Telegram   *)
(* nothing decides a row between the two halves of an approval, so the update *)
(* by id finds the row as the check left it.                                 *)

OneDecider == (\A s1, s2 \in Sessions : s1 = s2) /\ ~TelegramOn

MintPending ==
    \A s \in Sessions :
        session[s].pc = "mint" => approval[session[s].approval].state = "pending"

LEMMA StepMintPending ==
    ASSUME OneDecider, TInv, MintPending, [Next]_vars
    PROVE  MintPending'
<1>0. /\ approval \in [Approvals -> Rows \cup {Absent}]
      /\ session \in [Sessions -> SessionStates \cup {NoSession}]
      /\ \A s \in Sessions : session[s].pc = "mint" => session[s].approval \in Approvals
  BY DEF TInv, TypeOK, SessionStates, NoSession
<1>1. ASSUME session' = session,
             \A a \in Approvals : approval[a].state = "pending" => approval'[a].state = "pending"
      PROVE  MintPending'
  BY <1>0, <1>1 DEF MintPending
<1>2. ASSUME NEW c \in Calls, CreateRefresh(c) PROVE MintPending'
  BY <1>0, <1>1, <1>2 DEF CreateRefresh, Rows
<1>3. ASSUME NEW c \in Calls, CreateInsert(c) PROVE MintPending'
  BY <1>0, <1>1, <1>3 DEF CreateInsert
<1>4. ASSUME NEW s \in Sessions, NEW a \in Approvals, ApproveRead(s, a) PROVE MintPending'
  BY <1>0, <1>4 DEF ApproveRead, MintPending
<1>5. ASSUME NEW s \in Sessions, ApproveWrite(s) \/ ApproveFail(s) PROVE MintPending'
  <2>1. \A s1 \in Sessions : session'[s1] = NoSession
    BY <1>0, <1>5 DEF ApproveWrite, ApproveFail, OneDecider
  <2> QED
    BY <2>1 DEF MintPending, NoSession
<1>6. ASSUME NEW s \in Sessions, NEW a \in Approvals, Deny(s, a) PROVE MintPending'
  <2>1. \A s1 \in Sessions : session'[s1] = NoSession
    BY <1>0, <1>6 DEF Deny, OneDecider
  <2> QED
    BY <2>1 DEF MintPending, NoSession
<1>7. ASSUME NEW r \in Retries, Consume(r) PROVE MintPending'
  BY <1>0, <1>1, <1>7 DEF Consume, Rows, Absent
<1>8. CASE UNCHANGED <<approval, session>>
  BY <1>1, <1>8
<1> QED
  BY <1>2, <1>3, <1>4, <1>5, <1>6, <1>7, <1>8
  DEF Next, CallStep, SessionStep, RetryStep, vars, Tick, RefreshRevocations, OneDecider,
      AskStepUp, CreateSelect, CreateFail, Poll, PollTimeout, TelegramDecide,
      StartRetry, FetchApproval, Decide, RetryFail

(* A step that lets nothing through leaves the sets of requests alone.      *)
LEMMA NothingUnlocked ==
    ASSUME \A r \in Retries :
               /\ retry'[r].pc = "allowed" <=> retry[r].pc = "allowed"
               /\ retry[r].pc = "allowed" => retry'[r].jwt = retry[r].jwt
    PROVE  \A a \in Approvals : UnlockedBy(a)' = UnlockedBy(a)
BY DEF UnlockedBy

(* Every step of the services is a step, or a stutter, of the lifecycle.    *)
LEMMA LifecycleStep ==
    ASSUME OneDecider, TInv, ClaimInv, CosignedInv, MintPending, [Next]_vars
    PROVE  [Lifecycle!LifecycleNext]_(Lifecycle!lifecycleVars)
<1> USE DEF Lifecycle!lifecycleVars, Lifecycle!LifecycleNext
<1>0. /\ approval \in [Approvals -> Rows \cup {Absent}]
      /\ retry \in [Retries -> RetryStates \cup {NoRetry}]
      /\ session \in [Sessions -> SessionStates \cup {NoSession}]
      /\ \A r \in Retries : retry[r].pc # "idle" =>
            retry[r] \in RetryStates /\ retry[r].jwt.approval \in Approvals
  BY DEF TInv, TypeOK, NoRetry, RetryStates, Cosigners
<1>1. ASSUME \A a \in Approvals : approval'[a].state = approval[a].state,
             \A a \in Approvals : UnlockedBy(a)' = UnlockedBy(a)
      PROVE  [Lifecycle!LifecycleNext]_(Lifecycle!lifecycleVars)
  BY <1>1
<1>2. ASSUME UNCHANGED retry
      PROVE  \A a \in Approvals : UnlockedBy(a)' = UnlockedBy(a)
  BY <1>2, NothingUnlocked
<1>3. ASSUME NEW c \in Calls, CreateRefresh(c)
      PROVE  [Lifecycle!LifecycleNext]_(Lifecycle!lifecycleVars)
  <2>1. \A a \in Approvals : approval'[a].state = approval[a].state
    BY <1>0, <1>3 DEF CreateRefresh, Rows, Absent
  <2> QED
    BY <1>1, <1>2, <1>3, <2>1 DEF CreateRefresh
<1>4. ASSUME NEW c \in Calls, CreateInsert(c)
      PROVE  [Lifecycle!LifecycleNext]_(Lifecycle!lifecycleVars)
  <2>1. CASE UNCHANGED approval
    BY <1>1, <1>2, <1>4, <2>1 DEF CreateInsert
  <2>2. ASSUME NEW a \in Approvals, approval[a] = Absent,
               approval' = [approval EXCEPT ![a] =
                   [state |-> "pending", target |-> TargetOf[c], cid |-> CidOf[c],
                    expiresAt |-> call[c].at + ApprovalTtl,
                    jwt |-> NoCosigner, used |-> FALSE]]
        PROVE  Lifecycle!Ask(a)
    <3>1. approval[a].state = "absent" /\ approval'[a].state = "pending"
      BY <1>0, <2>2 DEF Absent
    <3>2. \A b \in Approvals : b # a => approval'[b].state = approval[b].state
      BY <1>0, <2>2
    <3>3. \A b \in Approvals : UnlockedBy(b)' = UnlockedBy(b)
      BY <1>2, <1>4 DEF CreateInsert
    <3> QED
      BY <3>1, <3>2, <3>3 DEF Lifecycle!Ask
  <2> QED
    BY <1>4, <2>1, <2>2 DEF CreateInsert
<1>5. ASSUME NEW s \in Sessions, ApproveWrite(s)
      PROVE  [Lifecycle!LifecycleNext]_(Lifecycle!lifecycleVars)
  <2> DEFINE a == session[s].approval
  <2>1. /\ a \in Approvals /\ approval[a] \in Rows
        /\ approval[a].state = "pending"
    BY <1>5, PresentIsRow
    DEF ApproveWrite, MintPending, TInv, TypeOK, Referenced, SessionStates, NoSession
  <2>2. /\ approval'[a].state = "approved"
        /\ \A b \in Approvals : b # a => approval'[b].state = approval[b].state
    BY <1>0, <1>5, <2>1 DEF ApproveWrite, Rows
  <2>3. \A b \in Approvals : UnlockedBy(b)' = UnlockedBy(b)
    BY <1>2, <1>5 DEF ApproveWrite
  <2>4. Lifecycle!Resolve(a, "approved")
    BY <2>1, <2>2, <2>3 DEF Lifecycle!Resolve
  <2> QED
    BY <2>1, <2>4
<1>6. ASSUME NEW s \in Sessions, NEW a \in Approvals, Deny(s, a)
      PROVE  [Lifecycle!LifecycleNext]_(Lifecycle!lifecycleVars)
  <2>1. /\ approval[a].state = "pending" /\ approval'[a].state = "denied"
        /\ \A b \in Approvals : b # a => approval'[b].state = approval[b].state
    BY <1>0, <1>6, PendingIsRow DEF Deny, Deniable, TInv, Rows
  <2>2. \A b \in Approvals : UnlockedBy(b)' = UnlockedBy(b)
    BY <1>2, <1>6 DEF Deny
  <2>3. Lifecycle!Resolve(a, "denied")
    BY <2>1, <2>2 DEF Lifecycle!Resolve
  <2> QED
    BY <2>3
<1>7. ASSUME NEW r \in Retries, NEW c \in Calls, NEW t \in Targets,
             NEW j \in Polled, StartRetry(r, c, t, j)
      PROVE  [Lifecycle!LifecycleNext]_(Lifecycle!lifecycleVars)
  <2>1. /\ retry[r].pc # "allowed" /\ retry'[r].pc = LocalCheck(c, t, j)
        /\ \A q \in Retries : q # r => retry'[q] = retry[q]
        /\ UNCHANGED approval
    BY <1>0, <1>7 DEF StartRetry, NoRetry
  <2>2. LocalCheck(c, t, j) # "allowed"
    BY DEF LocalCheck
  <2> QED
    BY <1>1, <2>1, <2>2, NothingUnlocked
<1>8. ASSUME NEW r \in Retries, FetchApproval(r) \/ RetryFail(r) \/ Consume(r)
      PROVE  [Lifecycle!LifecycleNext]_(Lifecycle!lifecycleVars)
  <2>1. \A a \in Approvals : approval'[a].state = approval[a].state
    BY <1>0, <1>8 DEF FetchApproval, RetryFail, Consume, Rows, Absent
  <2>2. /\ retry[r].pc # "allowed" /\ retry'[r].pc # "allowed"
        /\ \A q \in Retries : q # r => retry'[q] = retry[q]
    BY <1>0, <1>8 DEF FetchApproval, RetryFail, Consume, RetryStates, NoRetry
  <2> QED
    BY <1>1, <2>1, <2>2, NothingUnlocked
<1>9. ASSUME NEW r \in Retries, Decide(r)
      PROVE  [Lifecycle!LifecycleNext]_(Lifecycle!lifecycleVars)
  <2> DEFINE a == retry[r].jwt.approval
  <2>1. /\ a \in Approvals
        /\ retry[r].pc = "decide"
        /\ retry'[r].pc \in {"allowed", "revoked"}
        /\ retry'[r].jwt = retry[r].jwt
        /\ \A q \in Retries : q # r => retry'[q] = retry[q]
        /\ UNCHANGED approval
    BY <1>0, <1>9 DEF Decide, RetryStates
  <2>2. CASE retry'[r].pc = "revoked"
    BY <1>1, <2>1, <2>2, NothingUnlocked
  <2>3. CASE retry'[r].pc = "allowed"
    <3>1. approval[a].state = "approved"
      BY <2>1 DEF CosignedInv
    <3>2. \A q \in Retries : retry[q].pc = "allowed" => retry[q].jwt.approval # a
      BY <2>1 DEF ClaimInv
    <3>3. UnlockedBy(a) = {} /\ UnlockedBy(a)' = {r}
      BY <2>1, <2>3, <3>2 DEF UnlockedBy
    <3>4. \A b \in Approvals : b # a => UnlockedBy(b)' = UnlockedBy(b)
      BY <2>1, <2>3 DEF UnlockedBy
    <3>5. Lifecycle!Unlock(a, r)
      BY <2>1, <3>1, <3>3, <3>4 DEF Lifecycle!Unlock
    <3> QED
      BY <2>1, <3>5
  <2> QED
    BY <2>1, <2>2, <2>3
<1>10. CASE UNCHANGED <<approval, retry>>
  BY <1>1, <1>2, <1>10
<1> QED
  BY <1>3, <1>4, <1>5, <1>6, <1>7, <1>8, <1>9, <1>10
  DEF Next, CallStep, SessionStep, RetryStep, vars, Tick, RefreshRevocations, OneDecider,
      AskStepUp, CreateSelect, CreateFail, Poll, PollTimeout, ApproveRead, ApproveFail,
      TelegramDecide

(* With one decider at a time the services implement the lifecycle: an       *)
(* approval is asked for, decided once, and lets one request through.        *)
THEOREM StepUpImplementsLifecycle ==
    ASSUME OneDecider
    PROVE  Spec => ImplementsLifecycle
<1>1. Init => Lifecycle!LifecycleInit /\ ClaimInv /\ CosignedInv /\ MintPending
  BY DEF Init, Lifecycle!LifecycleInit, ClaimInv, CosignedInv, MintPending, UnlockedBy,
         NoRetry, NoSession, Absent
<1>2. TInv /\ MintPending /\ [Next]_vars => MintPending'
  BY StepMintPending
<1>3. TInv /\ ClaimInv /\ CosignedInv /\ MintPending /\ [Next]_vars
          => [Lifecycle!LifecycleNext]_(Lifecycle!lifecycleVars)
  BY LifecycleStep
<1> QED
  BY <1>1, <1>2, <1>3, InitTInv, StepTInv, StepClaimInv, StepCosignedInv, PTL
     DEF Spec, ImplementsLifecycle, Lifecycle!LifecycleSpec

=============================================================================
