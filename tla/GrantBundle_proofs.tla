------------------------- MODULE GrantBundle_proofs -------------------------
(***************************************************************************)
(* Theorems about GrantBundle, for any number of agents, policies, sessions  *)
(* and grants, and any number of changes overtaking a bundle.                *)
(***************************************************************************)
EXTENDS GrantBundle, FiniteSetTheorems, SequenceTheorems, TLAPS

(* Two transactions never hold the same row: an UPDATE waits for the other.  *)
LocksDisjoint ==
    \A s, u \in Sessions :
        s # u => Holds(s) \cap Holds(u) = {}

OpenTxs ==
    \A s \in Sessions :
        /\ tx[s].pc # "idle" => tx[s].agent \in GrantAgents
        /\ tx[s].pc \notin {"waiting", "insert"} => tx[s].supersedes = {}

GrantInv == GrantTypeOK /\ LocksDisjoint /\ OpenTxs

-----------------------------------------------------------------------------
(* Facts about the tables                                                   *)

LEMMA GrantUnchangedActive ==
    ASSUME UNCHANGED grants
    PROVE  \A a : Active(a)' = Active(a)
BY DEF Active

LEMMA GrantReadsTyped ==
    ASSUME GrantTypeOK
    PROVE  Snapshot \in Answers
<1>1. ReadGrants \in SUBSET Nat
  BY DEF ReadGrants, GrantTypeOK
<1>2. ReadMapped \in SUBSET (GrantAgents \X Policies)
  BY DEF ReadMapped, GrantTypeOK
<1>3. ReadStepUp \in SUBSET GrantAgents
  BY DEF ReadStepUp
<1>4. agents \in [GrantAgents -> AgentRows] /\ policies \in [Policies -> SUBSET Rules]
  BY DEF GrantTypeOK
<1>5. QED
  BY <1>1, <1>2, <1>3, <1>4 DEF Snapshot, Answers

LEMMA GrantNoAnswersTyped == NoAnswers \in Answers
<1> DEFINE As == [GrantAgents -> AgentRows] \cup {Missing}
           Ps == [Policies -> SUBSET Rules] \cup {Missing}
           Ms == (SUBSET (GrantAgents \X Policies)) \cup {Missing}
           Gs == (SUBSET Nat) \cup {Missing}
           Us == (SUBSET GrantAgents) \cup {Missing}
<1>1. Missing \in As /\ Missing \in Ps /\ Missing \in Ms /\ Missing \in Gs /\ Missing \in Us
  OBVIOUS
<1>2. Answers = [agents : As, policies : Ps, mapped : Ms, grants : Gs, stepUp : Us]
  BY DEF Answers
<1> HIDE DEF As, Ps, Ms, Gs, Us
<1>3. QED
  BY <1>1, <1>2 DEF NoAnswers

LEMMA GrantPreviewTyped ==
    ASSUME NEW w \in GrantResources \cup {Anything}
    PROVE  Preview(w) \in Rules
BY DEF Preview, Rules

-----------------------------------------------------------------------------
(* Type correctness                                                         *)

LEMMA GrantInitInv == GrantInit => GrantInv
<1> SUFFICES ASSUME GrantInit PROVE GrantInv
  OBVIOUS
<1>1. agents \in [GrantAgents -> AgentRows]
  <2> DEFINE row(st, ok) == [status |-> st, mode |-> "static", approved |-> ok]
  <2>1. agents \in [GrantAgents -> {row("none", FALSE), row("active", FALSE),
                              row("active", TRUE)}]
    BY DEF GrantInit
  <2>2. {row("none", FALSE), row("active", FALSE), row("active", TRUE)}
           \subseteq AgentRows
    BY DEF AgentRows
  <2>3. \A a \in GrantAgents : agents[a] \in AgentRows
    BY <2>1, <2>2
  <2>4. QED
    BY <2>1, <2>3
<1>2. policies \in [Policies -> SUBSET Rules]
  BY GrantTextsAssumption DEF GrantInit
<1>3. mapped \subseteq GrantAgents \X Policies
  BY DEF GrantInit
<1>4. grants \in Seq(GrantRows)
  <2>1. ASSUME NEW a \in GrantAgents, NEW w \in GrantScopes
        PROVE  [agent |-> a, what |-> w, decision |-> "deny", snippet |-> Missing,
                revoked |-> FALSE] \in GrantRows
    BY GrantScopesAssumption DEF GrantRows
  <2>2. CASE grants = <<>>
    BY <2>2
  <2>3. CASE grants # <<>>
    <3>1. PICK a \in GrantAgents, w \in GrantScopes :
             grants = <<[agent |-> a, what |-> w, decision |-> "deny",
                         snippet |-> Missing, revoked |-> FALSE]>>
      BY <2>3 DEF GrantInit
    <3>2. QED
      BY <2>1, <3>1
  <2>4. QED
    BY <2>2, <2>3
<1>5. tx \in [Sessions -> Transactions]
  <2>1. Idle \in Transactions
    BY DEF Transactions, Idle
  <2>2. QED
    BY <2>1 DEF GrantInit
<1>6. \A s \in Sessions :
         Holds(s) = {} /\ tx[s].pc = "idle" /\ tx[s].supersedes = {}
  BY DEF GrantInit, Idle, Holds
<1>7. {bundle, start} \subseteq Answers
  BY GrantNoAnswersTyped DEF GrantInit
<1>8. {commits, edits} \subseteq Nat
  BY DEF GrantInit
<1>9. QED
  BY <1>1, <1>2, <1>3, <1>4, <1>5, <1>6, <1>7, <1>8
     DEF GrantInv, GrantTypeOK, HeldRowsActive, LocksDisjoint, OpenTxs

(* What a change that leaves the grants and the transactions alone keeps.    *)
LEMMA GrantEditInv ==
    ASSUME GrantInv, Edit, UNCHANGED grants,
           agents' \in [GrantAgents -> AgentRows],
           policies' \in [Policies -> SUBSET Rules],
           mapped' \subseteq GrantAgents \X Policies
    PROVE  GrantInv'
<1>1. UNCHANGED <<grants, tx, bundle, start>>
  BY DEF Edit, pdp
<1>2. {commits', edits'} \subseteq Nat
  BY DEF GrantInv, GrantTypeOK, Edit, Commit
<1>3. QED
  BY <1>1, <1>2 DEF GrantInv, GrantTypeOK, HeldRowsActive, LocksDisjoint, OpenTxs,
                    Active, Holds

LEMMA GrantDecideInv ==
    ASSUME GrantInv, NEW a \in GrantAgents, Decide(a)
    PROVE  GrantInv'
<1>1. GrantTypeOK
  BY DEF GrantInv
<1>2. agents[a] \in AgentRows
  BY <1>1 DEF GrantTypeOK
<1>3. ASSUME NEW yes \in BOOLEAN, CreateAgent(a, yes)
      PROVE  GrantInv'
  <2>1. [status |-> "active", mode |-> "static", approved |-> ~yes] \in AgentRows
    BY DEF AgentRows
  <2>2. agents' \in [GrantAgents -> AgentRows]
    BY <1>1, <1>3, <2>1 DEF CreateAgent, GrantTypeOK
  <2>3. QED
    BY <1>1, <1>3, <2>2, GrantEditInv DEF CreateAgent, GrantTypeOK
<1>4. CASE ApproveConnection(a)
  <2>1. agents' \in [GrantAgents -> AgentRows]
    BY <1>1, <1>2, <1>4 DEF ApproveConnection, GrantTypeOK, AgentRows
  <2>2. QED
    BY <1>1, <1>4, <2>1, GrantEditInv DEF ApproveConnection, GrantTypeOK
<1>5. ASSUME NEW status \in {"active", "disabled", "deleted"}, SetStatus(a, status)
      PROVE  GrantInv'
  <2>1. agents' \in [GrantAgents -> AgentRows]
    BY <1>1, <1>2, <1>5 DEF SetStatus, GrantTypeOK, AgentRows
  <2>2. QED
    BY <1>1, <1>5, <2>1, GrantEditInv DEF SetStatus, GrantTypeOK
<1>6. ASSUME NEW mode \in {"static", "dynamic"}, SetMode(a, mode)
      PROVE  GrantInv'
  <2>1. agents' \in [GrantAgents -> AgentRows]
    BY <1>1, <1>2, <1>6 DEF SetMode, GrantTypeOK, AgentRows
  <2>2. QED
    BY <1>1, <1>6, <2>1, GrantEditInv DEF SetMode, GrantTypeOK
<1>7. ASSUME NEW p \in Policies, Assign(a, p) \/ Unassign(a, p)
      PROVE  GrantInv'
  <2>1. mapped' \subseteq GrantAgents \X Policies
    BY <1>1, <1>7 DEF Assign, Unassign, GrantTypeOK
  <2>2. QED
    BY <1>1, <1>7, <2>1, GrantEditInv DEF Assign, Unassign, GrantTypeOK
<1>8. ASSUME NEW p \in Policies, NEW text \in Texts, PersistAsPolicy(a, p, text)
      PROVE  GrantInv'
  <2>1. mapped' \subseteq GrantAgents \X Policies
    BY <1>1, <1>8 DEF PersistAsPolicy, GrantTypeOK
  <2>2. policies' \in [Policies -> SUBSET Rules]
    BY <1>1, <1>8, GrantTextsAssumption DEF PersistAsPolicy, GrantTypeOK
  <2>3. QED
    BY <1>1, <1>8, <2>1, <2>2, GrantEditInv DEF PersistAsPolicy, GrantTypeOK
<1>9. QED
  BY <1>3, <1>4, <1>5, <1>6, <1>7, <1>8 DEF Decide

LEMMA GrantUpsertPolicyInv ==
    ASSUME GrantInv, NEW p \in Policies, NEW text \in Texts, UpsertPolicy(p, text)
    PROVE  GrantInv'
<1>1. policies' \in [Policies -> SUBSET Rules]
  BY GrantTextsAssumption DEF UpsertPolicy, GrantInv, GrantTypeOK
<1>2. QED
  BY <1>1, GrantEditInv DEF UpsertPolicy, GrantInv, GrantTypeOK

(* A row that no transaction holds may be revoked.                          *)
LEMMA GrantRevokeInv ==
    ASSUME GrantInv, NEW i \in DOMAIN grants, RevokeGrant(i)
    PROVE  /\ GrantInv'
           /\ Len(grants') = Len(grants) /\ tx' = tx
           /\ DOMAIN grants' = DOMAIN grants
           /\ \A j \in DOMAIN grants : j # i => grants'[j] = grants[j]
<1>1. GrantTypeOK /\ UNCHANGED <<agents, policies, mapped, tx, bundle, start>>
  BY DEF GrantInv, RevokeGrant, Edit, pdp
<1>2. i \in 1 .. Len(grants) /\ grants[i] \in GrantRows /\ grants \in Seq(GrantRows)
  BY <1>1 DEF GrantTypeOK
<1> DEFINE row == [grants[i] EXCEPT !.revoked = TRUE]
<1>3. row \in GrantRows
  BY <1>2 DEF GrantRows
<1>4. grants' = [grants EXCEPT ![i] = row]
  BY DEF RevokeGrant
<1> HIDE DEF row
<1>5. /\ grants' \in Seq(GrantRows) /\ Len(grants') = Len(grants)
      /\ \A j \in 1 .. Len(grants) : j # i => grants'[j] = grants[j]
  BY <1>2, <1>3, <1>4, ExceptSeq
<1>6. HeldRowsActive'
  <2> SUFFICES ASSUME NEW s \in Sessions, NEW j \in Holds(s)
               PROVE  /\ j \in DOMAIN grants'
                      /\ grants'[j].agent = tx[s].agent /\ ~grants'[j].revoked
    BY <1>1 DEF HeldRowsActive, Active, Holds
  <2>1. j \in DOMAIN grants /\ grants[j].agent = tx[s].agent /\ ~grants[j].revoked
    BY <1>1 DEF GrantTypeOK, HeldRowsActive, Active
  <2>2. j # i
    BY DEF RevokeGrant
  <2>3. QED
    BY <1>2, <1>5, <2>1, <2>2
<1>7. {commits', edits'} \subseteq Nat
  BY <1>1 DEF GrantTypeOK, RevokeGrant, Edit, Commit
<1>8. GrantInv'
  BY <1>1, <1>5, <1>6, <1>7 DEF GrantInv, GrantTypeOK, LocksDisjoint, OpenTxs, Holds
<1>9. DOMAIN grants = 1 .. Len(grants) /\ DOMAIN grants' = 1 .. Len(grants')
  BY <1>2, <1>5
<1>10. QED
  BY <1>1, <1>5, <1>8, <1>9

-----------------------------------------------------------------------------
(* The transactions                                                         *)

LEMMA GrantBeginInv ==
    ASSUME GrantInv, NEW s \in Sessions, NEW a \in GrantAgents,
           NEW what \in GrantResources \cup {Anything},
           NEW decision \in {"allow", "deny"}, NEW snippet \in Rules,
           Begin(s, a, what, decision, snippet)
    PROVE  GrantInv'
<1> DEFINE t == [pc |-> "select", agent |-> a, what |-> what,
                 decision |-> decision, snippet |-> snippet, supersedes |-> {},
                 overtaken |-> FALSE]
<1>1. GrantTypeOK /\ UNCHANGED <<agents, policies, mapped, grants, bundle, start, commits>>
  BY DEF GrantInv, Begin, tables, pdp
<1>2. tx' = [tx EXCEPT ![s] = t]
  BY DEF Begin
<1>3. t \in Transactions
  BY DEF Transactions
<1>4. tx' \in [Sessions -> Transactions]
  BY <1>1, <1>2, <1>3 DEF GrantTypeOK
<1>5. tx'[s] = t /\ \A u \in Sessions \ {s} : tx'[u] = tx[u]
  BY <1>1, <1>2 DEF GrantTypeOK
<1>6. edits' \in Nat
  BY <1>1 DEF Begin, GrantTypeOK
<1> HIDE DEF t
<1>7. t.supersedes = {} /\ t.agent = a /\ t.pc = "select"
  BY DEF t
<1>8. HeldRowsActive'
  BY <1>1, <1>5, <1>7 DEF GrantTypeOK, HeldRowsActive, Active, Holds
<1>9. LocksDisjoint' /\ OpenTxs'
  BY <1>5, <1>7 DEF GrantInv, LocksDisjoint, OpenTxs, Holds
<1>10. QED
  BY <1>1, <1>4, <1>6, <1>8, <1>9 DEF GrantInv, GrantTypeOK

LEMMA GrantRememberInv ==
    ASSUME GrantInv, NEW s \in Sessions, Remember(s)
    PROVE  GrantInv'
<1>1. GrantTypeOK
  BY DEF GrantInv
<1>2. ASSUME NEW a \in GrantAgents, NEW what \in GrantScopes, RememberDeny(s, a, what)
      PROVE  GrantInv'
  BY <1>2, GrantScopesAssumption, GrantPreviewTyped, GrantBeginInv DEF RememberDeny
<1>3. ASSUME NEW a \in GrantAgents, NEW what \in GrantScopes, NEW v \in {what, Anything},
             RememberAllow(s, a, what, v)
      PROVE  GrantInv'
  BY <1>3, GrantScopesAssumption, GrantPreviewTyped, GrantBeginInv DEF RememberAllow
<1>4. ASSUME NEW i \in DOMAIN grants, Toggle(s, i)
      PROVE  GrantInv'
  <2>0. grants[i] \in GrantRows
    BY <1>1 DEF GrantTypeOK
  <2>1. grants[i].agent \in GrantAgents /\ grants[i].what \in GrantResources \cup {Anything}
    BY <2>0 DEF GrantRows
  <2>2. (IF grants[i].decision = "allow" THEN "deny" ELSE "allow") \in {"allow", "deny"}
    OBVIOUS
  <2>3. QED
    BY <1>4, <2>1, <2>2, GrantPreviewTyped, GrantBeginInv DEF Toggle
<1>5. QED
  BY <1>2, <1>3, <1>4 DEF Remember

LEMMA GrantSelectInv ==
    ASSUME GrantInv, NEW s \in Sessions, TxSelect(s)
    PROVE  GrantInv'
<1>1. GrantTypeOK
      /\ UNCHANGED <<agents, policies, mapped, grants, bundle, start, commits, edits>>
  BY DEF GrantInv, TxSelect, tables, pdp
<1>2. tx[s] \in Transactions /\ tx[s].agent \in GrantAgents
  BY <1>1 DEF GrantInv, GrantTypeOK, OpenTxs, TxSelect
<1>3. PICK p \in {"insert", "update"} : tx' = [tx EXCEPT ![s].pc = p]
  BY DEF TxSelect
<1>s. tx[s].supersedes = {}
  BY DEF GrantInv, OpenTxs, TxSelect
<1>4. [tx[s] EXCEPT !.pc = p] \in Transactions
  BY <1>2 DEF Transactions
<1>5. tx' \in [Sessions -> Transactions]
  BY <1>1, <1>3, <1>4 DEF GrantTypeOK
<1>6. \A u \in Sessions \ {s} : tx'[u] = tx[u]
  BY <1>1, <1>3 DEF GrantTypeOK
<1>7. tx'[s].pc = p /\ tx'[s].agent = tx[s].agent /\ tx'[s].supersedes = {}
  BY <1>1, <1>2, <1>3, <1>s DEF GrantTypeOK, Transactions
<1>8. Holds(s)' = {} /\ \A u \in Sessions \ {s} : Holds(u)' = Holds(u)
  BY <1>6, <1>7 DEF Holds
<1>9. HeldRowsActive'
  BY <1>1, <1>6, <1>8 DEF GrantTypeOK, HeldRowsActive, Active
<1>10. LocksDisjoint' /\ OpenTxs'
  BY <1>2, <1>6, <1>7, <1>8 DEF GrantInv, LocksDisjoint, OpenTxs
<1>11. QED
  BY <1>1, <1>5, <1>9, <1>10 DEF GrantInv, GrantTypeOK

LEMMA GrantUpdateInv ==
    ASSUME GrantInv, NEW s \in Sessions, TxUpdate(s)
    PROVE  GrantInv'
<1>1. GrantTypeOK
      /\ UNCHANGED <<agents, policies, mapped, grants, bundle, start, commits, edits>>
  BY DEF GrantInv, TxUpdate, tables, pdp
<1>2. tx[s] \in Transactions /\ tx[s].agent \in GrantAgents
  BY <1>1 DEF GrantInv, GrantTypeOK, OpenTxs, TxUpdate
<1> DEFINE found == Active(tx[s].agent)
<1>3. found \in SUBSET Nat
  BY <1>1 DEF Active, GrantTypeOK
<1>4. tx' = [tx EXCEPT ![s] = [tx[s] EXCEPT !.pc = "waiting", !.supersedes = found]]
  BY <1>1, <1>2 DEF TxUpdate, GrantTypeOK, Transactions
<1>5. [tx[s] EXCEPT !.pc = "waiting", !.supersedes = found] \in Transactions
  BY <1>2, <1>3 DEF Transactions
<1>6. tx' \in [Sessions -> Transactions]
  BY <1>1, <1>4, <1>5 DEF GrantTypeOK
<1>7. /\ tx'[s].pc = "waiting" /\ tx'[s].agent = tx[s].agent
      /\ \A u \in Sessions \ {s} : tx'[u] = tx[u]
  BY <1>1, <1>2, <1>4 DEF GrantTypeOK, Transactions
<1> HIDE DEF found
<1>8. Holds(s)' = {} /\ \A u \in Sessions \ {s} : Holds(u)' = Holds(u)
  BY <1>7 DEF Holds
<1>9. HeldRowsActive'
  BY <1>1, <1>7, <1>8 DEF GrantTypeOK, HeldRowsActive, Active
<1>10. LocksDisjoint' /\ OpenTxs'
  BY <1>2, <1>7, <1>8 DEF GrantInv, LocksDisjoint, OpenTxs
<1>11. QED
  BY <1>1, <1>6, <1>9, <1>10 DEF GrantInv, GrantTypeOK

LEMMA GrantLockInv ==
    ASSUME GrantInv, NEW s \in Sessions, TxLock(s)
    PROVE  GrantInv'
<1>1. GrantTypeOK
      /\ UNCHANGED <<agents, policies, mapped, grants, bundle, start, commits, edits>>
  BY DEF GrantInv, TxLock, tables, pdp
<1>2. tx[s] \in Transactions /\ tx[s].agent \in GrantAgents
  BY <1>1 DEF GrantInv, GrantTypeOK, OpenTxs, TxLock
<1> DEFINE held == tx[s].supersedes \cap Active(tx[s].agent)
<1>3. held \in SUBSET Nat
  BY <1>2 DEF Transactions
<1>4. tx' = [tx EXCEPT ![s] = [tx[s] EXCEPT !.pc = "insert", !.supersedes = held]]
  BY <1>1, <1>2 DEF TxLock, GrantTypeOK, Transactions
<1>5. [tx[s] EXCEPT !.pc = "insert", !.supersedes = held] \in Transactions
  BY <1>2, <1>3 DEF Transactions
<1>6. tx' \in [Sessions -> Transactions]
  BY <1>1, <1>4, <1>5 DEF GrantTypeOK
<1>7. /\ tx'[s].pc = "insert" /\ tx'[s].agent = tx[s].agent
      /\ tx'[s].supersedes = held
      /\ \A u \in Sessions \ {s} : tx'[u] = tx[u]
  BY <1>1, <1>2, <1>4 DEF GrantTypeOK, Transactions
<1>8. held \subseteq Active(tx[s].agent)
      /\ \A u \in Sessions \ {s} : Holds(u) \cap held = {}
  BY DEF TxLock
<1> HIDE DEF held
<1>9. Holds(s)' = held /\ \A u \in Sessions \ {s} : Holds(u)' = Holds(u)
  BY <1>7 DEF Holds
<1>10. HeldRowsActive'
  BY <1>1, <1>7, <1>8, <1>9 DEF GrantTypeOK, HeldRowsActive, Active
<1>11. LocksDisjoint' /\ OpenTxs'
  BY <1>2, <1>7, <1>8, <1>9 DEF GrantInv, LocksDisjoint, OpenTxs
<1>12. QED
  BY <1>1, <1>6, <1>10, <1>11 DEF GrantInv, GrantTypeOK

(* The INSERT revokes what the transaction holds and appends one row.       *)
LEMMA GrantInsertInv ==
    ASSUME GrantInv, NEW s \in Sessions, TxInsert(s)
    PROVE  /\ GrantInv'
           /\ Len(grants') = Len(grants) + 1
           /\ grants'[Len(grants) + 1].agent = tx[s].agent
           /\ ~grants'[Len(grants) + 1].revoked
           /\ \A i \in DOMAIN grants :
                 /\ grants'[i].agent = grants[i].agent
                 /\ grants'[i].revoked =
                       (grants[i].revoked \/ i \in tx[s].supersedes)
<1>1. GrantTypeOK /\ UNCHANGED <<agents, policies, mapped, bundle, start, edits>>
  BY DEF GrantInv, TxInsert, pdp
<1>2. tx[s] \in Transactions /\ tx[s].agent \in GrantAgents
  BY <1>1 DEF GrantInv, GrantTypeOK, OpenTxs, TxInsert
<1> DEFINE old == [i \in DOMAIN grants |->
                     [grants[i] EXCEPT !.revoked = @ \/ i \in tx[s].supersedes]]
           row == [agent |-> tx[s].agent, what |-> tx[s].what,
                   decision |-> tx[s].decision, snippet |-> tx[s].snippet,
                   revoked |-> FALSE]
<1>3. grants \in Seq(GrantRows) /\ DOMAIN grants = 1 .. Len(grants) /\ Len(grants) \in Nat
  BY <1>1 DEF GrantTypeOK
<1>4. row \in GrantRows
  BY <1>2 DEF Transactions, GrantRows
<1>5. \A i \in 1 .. Len(grants) :
         /\ [grants[i] EXCEPT !.revoked = @ \/ i \in tx[s].supersedes] \in GrantRows
         /\ [grants[i] EXCEPT !.revoked = @ \/ i \in tx[s].supersedes].agent
               = grants[i].agent
         /\ [grants[i] EXCEPT !.revoked = @ \/ i \in tx[s].supersedes].revoked
               = (grants[i].revoked \/ i \in tx[s].supersedes)
  <2> TAKE i \in 1 .. Len(grants)
  <2>1. grants[i] \in GrantRows
    BY <1>3, ElementOfSeq
  <2>2. (grants[i].revoked \/ i \in tx[s].supersedes) \in BOOLEAN
    OBVIOUS
  <2>3. QED
    BY <2>1, <2>2 DEF GrantRows
<1>6. old \in [1 .. Len(grants) -> GrantRows]
  BY <1>3, <1>5
<1>7. old \in Seq(GrantRows) /\ Len(old) = Len(grants)
  BY <1>3, <1>6, SeqDef
<1>8. grants' = Append(old, row)
  BY DEF TxInsert
<1>9. \A i \in DOMAIN grants :
         /\ old[i].agent = grants[i].agent
         /\ old[i].revoked = (grants[i].revoked \/ i \in tx[s].supersedes)
  BY <1>3, <1>5
<1>10. row.agent = tx[s].agent /\ row.revoked = FALSE
  OBVIOUS
<1> HIDE DEF old, row
<1>11. /\ grants' \in Seq(GrantRows) /\ Len(grants') = Len(grants) + 1
       /\ grants'[Len(grants) + 1] = row
       /\ \A i \in 1 .. Len(grants) : grants'[i] = old[i]
  BY <1>4, <1>7, <1>8, AppendProperties
<1>12. Idle \in Transactions /\ Idle.supersedes = {} /\ Idle.pc = "idle"
  BY DEF Idle, Transactions
<1>13. /\ tx' \in [Sessions -> Transactions] /\ tx'[s] = Idle
       /\ \A u \in Sessions \ {s} : /\ tx'[u].pc = tx[u].pc
                                    /\ tx'[u].agent = tx[u].agent
                                    /\ tx'[u].supersedes = tx[u].supersedes
  <2> DEFINE marked(u) == [tx[u] EXCEPT !.overtaken = @ \/ Overtakes(s, u)]
  <2>1. \A u \in Sessions : /\ marked(u) \in Transactions
                            /\ marked(u).pc = tx[u].pc
                            /\ marked(u).agent = tx[u].agent
                            /\ marked(u).supersedes = tx[u].supersedes
    <3> SUFFICES ASSUME NEW u \in Sessions
                 PROVE  /\ marked(u) \in Transactions
                        /\ marked(u).pc = tx[u].pc
                        /\ marked(u).agent = tx[u].agent
                        /\ marked(u).supersedes = tx[u].supersedes
      OBVIOUS
    <3>1. tx[u] \in Transactions
      BY <1>1 DEF GrantTypeOK
    <3>2. (tx[u].overtaken \/ Overtakes(s, u)) \in BOOLEAN
      OBVIOUS
    <3>3. QED
      BY <3>1, <3>2 DEF Transactions
  <2>2. tx' = [u \in Sessions |-> IF u = s THEN Idle ELSE marked(u)]
    BY DEF TxInsert
  <2> HIDE DEF marked
  <2>3. QED
    BY <1>12, <2>1, <2>2
<1>h. /\ Holds(s)' = {} /\ \A u \in Sessions \ {s} : Holds(u)' = Holds(u)
      /\ Holds(s) = tx[s].supersedes
  BY <1>12, <1>13 DEF Holds, TxInsert
<1>14. HeldRowsActive'
  <2> SUFFICES ASSUME NEW u \in Sessions, u # s, NEW j \in Holds(u)
               PROVE  /\ j \in DOMAIN grants'
                      /\ grants'[j].agent = tx[u].agent /\ ~grants'[j].revoked
    BY <1>13, <1>h DEF HeldRowsActive, Active
  <2>1. j \in DOMAIN grants /\ grants[j].agent = tx[u].agent /\ ~grants[j].revoked
    BY <1>1 DEF GrantTypeOK, HeldRowsActive, Active
  <2>2. j \notin tx[s].supersedes
    BY <1>h DEF GrantInv, LocksDisjoint
  <2>3. j \in 1 .. Len(grants) /\ DOMAIN grants' = 1 .. Len(grants')
    BY <1>3, <1>11, <2>1
  <2>4. j \in 1 .. Len(grants')
    BY <1>3, <1>11, <2>3
  <2>5. grants'[j] = old[j] /\ old[j].agent = grants[j].agent
    BY <1>3, <1>9, <1>11, <2>3
  <2>6. old[j].revoked = (grants[j].revoked \/ j \in tx[s].supersedes)
    BY <1>9, <2>1
  <2>7. ~grants'[j].revoked
    BY <2>1, <2>2, <2>5, <2>6
  <2>8. QED
    BY <2>1, <2>3, <2>4, <2>5, <2>7
<1>15. LocksDisjoint' /\ OpenTxs'
  BY <1>12, <1>13, <1>h DEF GrantInv, LocksDisjoint, OpenTxs
<1>16. {commits', edits'} \subseteq Nat
  BY <1>1 DEF GrantTypeOK, TxInsert, Commit
<1>17. GrantInv'
  BY <1>1, <1>11, <1>13, <1>14, <1>15, <1>16 DEF GrantInv, GrantTypeOK
<1>18. QED
  BY <1>3, <1>9, <1>10, <1>11, <1>17

-----------------------------------------------------------------------------
(* The bundle                                                               *)

LEMMA GrantFetchInv ==
    ASSUME GrantInv, FetchBundle
    PROVE  GrantInv'
<1>1. GrantTypeOK /\ UNCHANGED <<agents, policies, mapped, grants, tx, edits>>
  BY DEF GrantInv, FetchBundle, tables
<1>2. bundle' = NoAnswers /\ start' = Snapshot /\ commits' = 0
  BY DEF FetchBundle
<1>3. {bundle', start'} \subseteq Answers
  BY <1>1, <1>2, GrantReadsTyped, GrantNoAnswersTyped
<1>4. QED
  BY <1>1, <1>2, <1>3
     DEF GrantInv, GrantTypeOK, HeldRowsActive, LocksDisjoint, OpenTxs, Active, Holds

LEMMA GrantReadPartInv ==
    ASSUME GrantInv, NEW part \in Parts, ReadPart(part)
    PROVE  GrantInv'
<1>1. GrantTypeOK
      /\ UNCHANGED <<agents, policies, mapped, grants, tx, start, commits, edits>>
  BY DEF GrantInv, ReadPart, tables
<1>2. bundle \in Answers /\ Snapshot \in Answers
  BY <1>1, GrantReadsTyped DEF GrantTypeOK
<1>3. bundle' = [bundle EXCEPT ![part] = Snapshot[part]]
  BY DEF ReadPart
<1>4. bundle' \in Answers
  <2> DEFINE As == [GrantAgents -> AgentRows] \cup {Missing}
             Ps == [Policies -> SUBSET Rules] \cup {Missing}
             Ms == (SUBSET (GrantAgents \X Policies)) \cup {Missing}
             Gs == (SUBSET Nat) \cup {Missing}
             Us == (SUBSET GrantAgents) \cup {Missing}
  <2>1. Answers = [agents : As, policies : Ps, mapped : Ms, grants : Gs, stepUp : Us]
    BY DEF Answers
  <2> HIDE DEF As, Ps, Ms, Gs, Us
  <2> SUFFICES bundle' \in [agents : As, policies : Ps, mapped : Ms, grants : Gs,
                            stepUp : Us]
    BY <2>1
  <2>2. CASE part = "agents"
    BY <1>2, <1>3, <2>1, <2>2
  <2>3. CASE part = "policies"
    BY <1>2, <1>3, <2>1, <2>3
  <2>4. CASE part = "mapped"
    BY <1>2, <1>3, <2>1, <2>4
  <2>5. CASE part = "grants"
    BY <1>2, <1>3, <2>1, <2>5
  <2>6. CASE part = "stepUp"
    BY <1>2, <1>3, <2>1, <2>6
  <2>7. QED
    BY <2>2, <2>3, <2>4, <2>5, <2>6 DEF Parts
<1>5. QED
  BY <1>1, <1>4
     DEF GrantInv, GrantTypeOK, HeldRowsActive, LocksDisjoint, OpenTxs, Active, Holds

LEMMA GrantNextInv == GrantInv /\ [GrantNext]_grantVars => GrantInv'
<1> SUFFICES ASSUME GrantInv, [GrantNext]_grantVars PROVE GrantInv'
  OBVIOUS
<1>1. ASSUME NEW a \in GrantAgents, Decide(a) PROVE GrantInv'
  BY <1>1, GrantDecideInv
<1>2. ASSUME NEW p \in Policies, NEW text \in Texts, UpsertPolicy(p, text)
      PROVE  GrantInv'
  BY <1>2, GrantUpsertPolicyInv
<1>3. ASSUME NEW i \in DOMAIN grants, RevokeGrant(i) PROVE GrantInv'
  BY <1>3, GrantRevokeInv
<1>4. ASSUME NEW s \in Sessions,
             Remember(s) \/ TxSelect(s) \/ TxUpdate(s) \/ TxLock(s) \/ TxInsert(s)
      PROVE  GrantInv'
  BY <1>4, GrantRememberInv, GrantSelectInv, GrantUpdateInv, GrantLockInv, GrantInsertInv
<1>5. CASE FetchBundle
  BY <1>5, GrantFetchInv
<1>6. ASSUME NEW part \in Parts, ReadPart(part) PROVE GrantInv'
  BY <1>6, GrantReadPartInv
<1>7. CASE UNCHANGED grantVars
  BY <1>7 DEF grantVars, tables, pdp, GrantInv, GrantTypeOK, HeldRowsActive,
              LocksDisjoint, OpenTxs, Active, Holds
<1>8. QED
  BY <1>1, <1>2, <1>3, <1>4, <1>5, <1>6, <1>7 DEF GrantNext

(* Every variable keeps its type, and a transaction holds only active rows   *)
(* of its agent, which no other transaction holds.                           *)
THEOREM GrantTypeCorrect == GrantSpec => []GrantTypeOK
<1>1. GrantInv => GrantTypeOK
  BY DEF GrantInv
<1>2. QED
  BY <1>1, GrantInitInv, GrantNextInv, PTL DEF GrantSpec

-----------------------------------------------------------------------------
(* Grants are lost by hand only                                             *)

LEMMA GrantLostStep ==
    ASSUME GrantInv, GrantInv', [GrantNext]_grantVars, NEW a \in GrantAgents,
           Active(a) # {}, Active(a)' = {}
    PROVE  Cardinality(Active(a)) = 1 /\ Len(grants') = Len(grants) /\ tx' = tx
<1>1. ~ UNCHANGED grants
  BY GrantUnchangedActive
<1>2. PICK j \in DOMAIN grants : grants[j].agent = a /\ ~grants[j].revoked
  BY DEF Active
<1>3. \A k \in DOMAIN grants' : ~(grants'[k].agent = a /\ ~grants'[k].revoked)
  BY DEF Active
<1>4. ASSUME NEW i \in DOMAIN grants, RevokeGrant(i)
      PROVE  Cardinality(Active(a)) = 1 /\ Len(grants') = Len(grants) /\ tx' = tx
  <2>1. \A k \in Active(a) : k = i
    BY <1>3, <1>4, GrantRevokeInv DEF Active
  <2>2. Active(a) = {i}
    BY <2>1
  <2>3. Cardinality(Active(a)) = 1
    BY <2>2, FS_Singleton
  <2>4. QED
    BY <1>4, <2>3, GrantRevokeInv
<1>5. ASSUME NEW s \in Sessions, TxInsert(s)
      PROVE  FALSE
  <2>1. /\ Len(grants') = Len(grants) + 1
        /\ grants'[Len(grants) + 1].agent = tx[s].agent
        /\ ~grants'[Len(grants) + 1].revoked
        /\ grants'[j].agent = grants[j].agent
        /\ grants'[j].revoked = (grants[j].revoked \/ j \in tx[s].supersedes)
    BY <1>5, GrantInsertInv
  <2>2. /\ Len(grants) \in Nat /\ DOMAIN grants = 1 .. Len(grants)
        /\ DOMAIN grants' = 1 .. Len(grants')
    BY DEF GrantInv, GrantTypeOK
  <2>3. Len(grants) + 1 \in DOMAIN grants' /\ j \in DOMAIN grants'
    BY <2>1, <2>2
  <2>4. tx[s].agent # a
    BY <1>3, <2>1, <2>3
  <2>5. j \notin tx[s].supersedes
    BY <1>2, <1>5, <2>4 DEF GrantInv, GrantTypeOK, HeldRowsActive, Active, Holds, TxInsert
  <2>6. ~grants'[j].revoked
    BY <1>2, <2>1, <2>5
  <2>7. QED
    BY <1>2, <1>3, <2>1, <2>3, <2>6
<1>6. QED
  BY <1>1, <1>4, <1>5
     DEF GrantNext, Decide, Edit, CreateAgent, ApproveConnection, SetStatus, SetMode,
         UpsertPolicy, Assign, Unassign, PersistAsPolicy, Remember, RememberAllow,
         RememberDeny, Toggle, Begin, TxSelect, TxUpdate, TxLock, FetchBundle, ReadPart,
         grantVars, tables

(* Only grants.revoke takes an agent its last active grant: upsertGrant      *)
(* shows the UPDATE and the INSERT at once, however sessions overlap.        *)
THEOREM GrantLostByHand == GrantSpec => GrantLostByHandOnly
<1>1. GrantInv /\ GrantInv' /\ [GrantNext]_grantVars =>
         [\A a \in GrantAgents :
             Active(a) # {} /\ Active(a)' = {} =>
                 /\ Cardinality(Active(a)) = 1
                 /\ Len(grants') = Len(grants)
                 /\ tx' = tx]_grantVars
  BY GrantLostStep
<1>2. QED
  BY <1>1, GrantInitInv, GrantNextInv, PTL DEF GrantSpec, GrantLostByHandOnly

-----------------------------------------------------------------------------
(* Every agent may at least ask                                             *)

(* Agents never vanish, so the statement that lists them for the baseline    *)
(* finds at least those that were there when the bundle was begun.           *)
AskInv ==
    /\ start = NoAnswers => bundle = NoAnswers
    /\ start # NoAnswers =>
          \A a \in GrantAgents : start.agents[a].status # "none" => agents[a].status # "none"
    /\ bundle.stepUp # Missing =>
          \A a \in GrantAgents : start.agents[a].status # "none" => a \in bundle.stepUp
    /\ bundle.grants # Missing => bundle.grants \subseteq DOMAIN grants

LEMMA GrantTablesGrow ==
    ASSUME GrantInv, [GrantNext]_grantVars
    PROVE  /\ DOMAIN grants \subseteq DOMAIN grants'
           /\ \A a \in GrantAgents : agents[a].status # "none" => agents'[a].status # "none"
<1>1. DOMAIN grants \subseteq DOMAIN grants'
  <2>1. CASE UNCHANGED grants
    BY <2>1
  <2>2. ASSUME NEW i \in DOMAIN grants, RevokeGrant(i)
        PROVE  DOMAIN grants \subseteq DOMAIN grants'
    BY <2>2, GrantRevokeInv
  <2>3. ASSUME NEW s \in Sessions, TxInsert(s)
        PROVE  DOMAIN grants \subseteq DOMAIN grants'
    <3>1. Len(grants') = Len(grants) + 1 /\ GrantInv'
      BY <2>3, GrantInsertInv
    <3>2. /\ DOMAIN grants = 1 .. Len(grants) /\ Len(grants) \in Nat
          /\ DOMAIN grants' = 1 .. Len(grants')
      BY <3>1 DEF GrantInv, GrantTypeOK
    <3>3. QED
      BY <3>1, <3>2
  <2>4. QED
    BY <2>1, <2>2, <2>3
       DEF GrantNext, Decide, CreateAgent, ApproveConnection, SetStatus, SetMode,
           UpsertPolicy, Assign, Unassign, PersistAsPolicy, Remember, RememberAllow,
           RememberDeny, Toggle, Begin, TxSelect, TxUpdate, TxLock, FetchBundle, ReadPart,
           grantVars, tables
<1>2. \A a \in GrantAgents : agents[a].status # "none" => agents'[a].status # "none"
  <2> SUFFICES ASSUME NEW b \in GrantAgents, agents[b].status # "none"
               PROVE  agents'[b].status # "none"
    OBVIOUS
  <2>1. CASE UNCHANGED agents
    BY <2>1
  <2>2. ASSUME NEW a \in GrantAgents, Decide(a)
        PROVE  agents'[b].status # "none"
    <3>1. agents \in [GrantAgents -> AgentRows] /\ agents[b] \in AgentRows
      BY DEF GrantInv, GrantTypeOK
    <3>2. ASSUME NEW yes \in BOOLEAN, CreateAgent(a, yes)
          PROVE  agents'[b].status # "none"
      BY <3>1, <3>2 DEF CreateAgent
    <3>3. CASE ApproveConnection(a)
      BY <3>1, <3>3 DEF ApproveConnection, AgentRows
    <3>4. ASSUME NEW status \in {"active", "disabled", "deleted"}, SetStatus(a, status)
          PROVE  agents'[b].status # "none"
      BY <3>1, <3>4 DEF SetStatus, AgentRows
    <3>5. ASSUME NEW mode \in {"static", "dynamic"}, SetMode(a, mode)
          PROVE  agents'[b].status # "none"
      BY <3>1, <3>5 DEF SetMode, AgentRows
    <3>6. QED
      BY <2>2, <3>2, <3>3, <3>4, <3>5
         DEF Decide, Assign, Unassign, PersistAsPolicy
  <2>3. QED
    BY <2>1, <2>2
       DEF GrantNext, UpsertPolicy, RevokeGrant, Remember, RememberAllow,
           RememberDeny, Toggle, Begin, TxSelect, TxUpdate, TxLock, TxInsert, FetchBundle,
           ReadPart, grantVars, tables
<1>3. QED
  BY <1>1, <1>2

LEMMA AskInvInit == GrantInit => AskInv
BY DEF GrantInit, AskInv, NoAnswers

LEMMA AskInvStep == GrantInv /\ AskInv /\ [GrantNext]_grantVars => AskInv'
<1> SUFFICES ASSUME GrantInv, AskInv, [GrantNext]_grantVars PROVE AskInv'
  OBVIOUS
<1>1. CASE UNCHANGED pdp
  BY <1>1, GrantTablesGrow DEF AskInv, pdp
<1>2. CASE FetchBundle
  <2>1. bundle' = NoAnswers /\ start' = Snapshot /\ agents' = agents
    BY <1>2 DEF FetchBundle, tables
  <2>2. Snapshot.agents = agents
    BY DEF Snapshot
  <2>3. QED
    BY <2>1, <2>2 DEF AskInv, NoAnswers
<1>3. ASSUME NEW part \in Parts, ReadPart(part)
      PROVE  AskInv'
  <2>1. start # NoAnswers /\ start' = start /\ agents' = agents /\ grants' = grants
    BY <1>3 DEF ReadPart, Reading, tables
  <2>2. bundle \in Answers
    BY DEF GrantInv, GrantTypeOK
  <2>3. bundle' = [bundle EXCEPT ![part] = Snapshot[part]]
    BY <1>3 DEF ReadPart
  <2>4. Snapshot.stepUp = ReadStepUp /\ Snapshot.grants = ReadGrants
    BY DEF Snapshot
  <2>5. bundle'.stepUp \in {bundle.stepUp, ReadStepUp}
    BY <2>2, <2>3, <2>4 DEF Answers, Parts
  <2>6. bundle'.grants \in {bundle.grants, ReadGrants}
    BY <2>2, <2>3, <2>4 DEF Answers, Parts
  <2>7. \A a \in GrantAgents : start.agents[a].status # "none" => a \in ReadStepUp
    BY <2>1 DEF AskInv, ReadStepUp
  <2>8. ReadGrants \subseteq DOMAIN grants
    BY DEF ReadGrants
  <2>9. QED
    BY <2>1, <2>5, <2>6, <2>7, <2>8 DEF AskInv
<1>4. QED
  BY <1>1, <1>2, <1>3
     DEF GrantNext, Decide, Edit, CreateAgent, ApproveConnection, SetStatus, SetMode,
         UpsertPolicy, Assign, Unassign, PersistAsPolicy, RevokeGrant, Remember,
         RememberAllow, RememberDeny, Toggle, Begin, TxSelect, TxUpdate, TxLock, TxInsert,
         grantVars, pdp

(* What a whole bundle renders to is a set of rules.                        *)
LEMMA RenderTyped ==
    ASSUME GrantInv, AskInv, Whole(bundle)
    PROVE  Render(bundle) \subseteq Rules
<1>1. /\ bundle.policies \in [Policies -> SUBSET Rules]
      /\ bundle.grants \subseteq DOMAIN grants
      /\ bundle.stepUp \subseteq GrantAgents
  BY DEF GrantInv, GrantTypeOK, Answers, AskInv, Whole, Parts
<1>2. ASSUME NEW text \in SUBSET Rules, NEW dids \in SUBSET GrantAgents
      PROVE  ScopeToAgents(text, dids) \subseteq Rules
  <2>1. \A r \in text, d \in dids : [r EXCEPT !.who = d] \in Rules
    BY DEF Rules
  <2>2. QED
    BY <2>1 DEF ScopeToAgents
<1>3. RenderPolicies(bundle) \subseteq Rules
  <2> DEFINE dids(p) == {a \in GrantAgents : <<a, p>> \in bundle.mapped}
  <2>1. \A p \in Policies : /\ bundle.policies[p] \in SUBSET Rules
                            /\ dids(p) \in SUBSET GrantAgents
    BY <1>1
  <2>2. RenderPolicies(bundle) =
            UNION {ScopeToAgents(bundle.policies[p], dids(p)) :
                      p \in {q \in Policies : dids(q) # {}}}
    BY DEF RenderPolicies
  <2> HIDE DEF dids
  <2>3. \A p \in Policies : ScopeToAgents(bundle.policies[p], dids(p)) \subseteq Rules
    BY <1>2, <2>1
  <2>4. QED
    BY <2>2, <2>3
<1>4. ASSUME NEW i \in bundle.grants
      PROVE  RenderGrant(grants[i]) \in Rules
  <2>1. grants[i] \in GrantRows
    BY <1>1 DEF GrantInv, GrantTypeOK
  <2>2. QED
    BY <2>1 DEF RenderGrant, GrantRows, Rules
<1>5. \A a \in bundle.stepUp : Baseline(a) \in Rules
  BY <1>1 DEF Baseline, Rules
<1>6. QED
  BY <1>3, <1>4, <1>5 DEF Render

(* A call of an agent that was there when the bundle was begun is allowed or *)
(* sent to an approval unless a forbid rule speaks about it, whatever the    *)
(* bundle's statements missed of the changes made meanwhile.                 *)
THEOREM GrantAlwaysMayAsk == GrantSpec => []AlwaysMayAsk
<1>1. GrantInv /\ AskInv => AlwaysMayAsk
  <2> SUFFICES ASSUME GrantInv, AskInv, Whole(bundle), NEW a \in GrantAgents, NEW r \in GrantResources,
                      start.agents[a].status # "none",
                      Authorize(bundle, a, r) = "policy_denied"
               PROVE  \E x \in Render(bundle) :
                          x.effect = "forbid" /\ Matches(x, a, r, TRUE)
    BY DEF AlwaysMayAsk
  <2>1. a \in bundle.stepUp
    BY DEF AskInv, Whole, Parts
  <2>2. Baseline(a) \in Render(bundle) /\ Matches(Baseline(a), a, r, TRUE)
    BY <2>1 DEF Render, Baseline, Matches
  <2>3. ~Permitted(Render(bundle), a, r, TRUE)
    BY DEF Authorize
  <2>4. PICK x \in Render(bundle) : Matches(x, a, r, TRUE) /\ x.effect # "permit"
    BY <2>2, <2>3 DEF Permitted
  <2>5. x.effect = "forbid"
    BY <2>4, RenderTyped DEF Rules
  <2>6. QED
    BY <2>4, <2>5
<1>2. QED
  BY <1>1, GrantInitInv, GrantNextInv, AskInvInit, AskInvStep, PTL DEF GrantSpec

-----------------------------------------------------------------------------
(* A bundle that one change overtook                                        *)

(* The agents a policy is rendered for, and what it says about a call that   *)
(* carries no cosigner.                                                      *)
Dids(b, p) == {a \in GrantAgents : <<a, p>> \in b.mapped}

SaidBy(b, p, a, r) ==
    {x \in ScopeToAgents(b.policies[p], Dids(b, p)) :
        Dids(b, p) # {} /\ Matches(x, a, r, FALSE)}

GrantsSay(b, a, r) ==
    {x \in {RenderGrant(grants[i]) : i \in b.grants} : Matches(x, a, r, FALSE)}

Said(b, a, r) ==
    (UNION {SaidBy(b, p, a, r) : p \in Policies}) \cup GrantsSay(b, a, r)

MayCall(meta) ==
    meta.status # "none" =>
        meta.status = "active" /\ ~(meta.mode = "static" /\ ~meta.approved)

(* The step-up statement has no part in what is allowed without a cosigner.  *)
LEMMA AllowedWhen ==
    ASSUME NEW b, NEW a, NEW r
    PROVE  Authorize(b, a, r) = "allow" <=>
               /\ MayCall(b.agents[a])
               /\ Said(b, a, r) # {}
               /\ \A x \in Said(b, a, r) : x.effect = "permit"
<1> DEFINE hits == {x \in Render(b) : Matches(x, a, r, FALSE)}
<1>1. \A c : ~Matches(Baseline(c), a, r, FALSE)
  BY DEF Matches, Baseline
<1>2. hits = Said(b, a, r)
  <2>1. ASSUME NEW x, x \in Said(b, a, r) PROVE x \in hits
    <3>1. CASE x \in GrantsSay(b, a, r)
      BY <3>1 DEF GrantsSay, Render
    <3>2. CASE x \in UNION {SaidBy(b, p, a, r) : p \in Policies}
      <4>1. PICK p \in Policies : x \in SaidBy(b, p, a, r)
        BY <3>2
      <4>2. /\ x \in ScopeToAgents(b.policies[p], Dids(b, p))
            /\ Dids(b, p) # {} /\ Matches(x, a, r, FALSE)
        BY <4>1 DEF SaidBy
      <4>3. x \in RenderPolicies(b)
        BY <4>2 DEF RenderPolicies, Dids
      <4>4. QED
        BY <4>2, <4>3 DEF Render
    <3>3. QED
      BY <2>1, <3>1, <3>2 DEF Said
  <2>2. ASSUME NEW x, x \in hits PROVE x \in Said(b, a, r)
    <3>1. x \in RenderPolicies(b) \/ x \in {RenderGrant(grants[i]) : i \in b.grants}
      BY <1>1, <2>2 DEF Render
    <3>2. CASE x \in RenderPolicies(b)
      <4>1. PICK p \in Policies : x \in ScopeToAgents(b.policies[p], Dids(b, p))
                                  /\ Dids(b, p) # {}
        BY <3>2 DEF RenderPolicies, Dids
      <4>2. x \in SaidBy(b, p, a, r)
        BY <2>2, <4>1 DEF SaidBy
      <4>3. x \in UNION {SaidBy(b, q, a, r) : q \in Policies}
        BY <4>2
      <4>4. QED
        BY <4>3 DEF Said
    <3>3. CASE x \in {RenderGrant(grants[i]) : i \in b.grants}
      BY <2>2, <3>3 DEF Said, GrantsSay
    <3>4. QED
      BY <3>1, <3>2, <3>3
  <2>3. QED
    BY <2>1, <2>2
<1> HIDE DEF hits
<1>3. Permitted(Render(b), a, r, FALSE) <=> hits # {} /\ \A x \in hits : x.effect = "permit"
  BY DEF Permitted, hits
<1>4. MayCall(b.agents[a]) <=>
          /\ ~(b.agents[a].status # "none" /\ b.agents[a].mode = "static"
               /\ ~b.agents[a].approved)
          /\ ~(b.agents[a].status # "none" /\ b.agents[a].status # "active")
  BY DEF MayCall
<1>5. Authorize(b, a, r) = "allow" <=>
          MayCall(b.agents[a]) /\ Permitted(Render(b), a, r, FALSE)
  BY <1>4 DEF Authorize
<1>6. QED
  BY <1>2, <1>3, <1>5

LEMMA SameSayAllowedAlike ==
    ASSUME NEW b, NEW c, NEW a, NEW r,
           b.agents[a] = c.agents[a],
           \A p \in Policies : SaidBy(b, p, a, r) = SaidBy(c, p, a, r),
           b.grants = c.grants
    PROVE  (Authorize(b, a, r) = "allow") = (Authorize(c, a, r) = "allow")
<1>1. Said(b, a, r) = Said(c, a, r)
  BY DEF Said, GrantsSay
<1>2. QED
  BY <1>1, AllowedWhen

LEMMA SameTablesAllowedAlike ==
    ASSUME NEW b, NEW c, NEW a, NEW r,
           b.agents[a] = c.agents[a], b.policies = c.policies,
           b.mapped = c.mapped, b.grants = c.grants
    PROVE  (Authorize(b, a, r) = "allow") = (Authorize(c, a, r) = "allow")
<1>1. \A p \in Policies : SaidBy(b, p, a, r) = SaidBy(c, p, a, r)
  BY DEF SaidBy, Dids
<1>2. QED
  BY <1>1, SameSayAllowedAlike

(* How one change relates what generateBundle would have read before it to   *)
(* what it would read after it.                                              *)
RulesKept(s, t) ==
    s.policies = t.policies /\ s.mapped = t.mapped /\ s.grants = t.grants

DeletedAlike(s, t, a) ==
    (s.agents[a].status = "deleted") = (t.agents[a].status = "deleted")

OneTable(s, t) ==
    /\ \A a \in GrantAgents : DeletedAlike(s, t, a) => s.agents[a] = t.agents[a]
    /\ \/ s.policies = t.policies /\ s.mapped = t.mapped
       \/ s.policies = t.policies /\ s.grants = t.grants
       \/ s.mapped = t.mapped /\ s.grants = t.grants

Persisted(s, t) ==
    /\ s.agents = t.agents /\ s.grants = t.grants
    /\ \E a \in GrantAgents, p \in Policies :
          /\ s.policies[p] = {} /\ t.policies[p] \subseteq Rules
          /\ \A q \in Policies \ {p} :
                s.policies[q] = t.policies[q] /\ Dids(s, q) = Dids(t, q)
          /\ Dids(t, p) \in {Dids(s, p), Dids(s, p) \cup {a}}

OneChange(s, t) == RulesKept(s, t) \/ OneTable(s, t) \/ Persisted(s, t)

(* What a bundle has read was there at its start or is there now, and at     *)
(* most one change lies between the two.                                     *)
TornInv ==
    /\ start = NoAnswers => bundle = NoAnswers
    /\ start # NoAnswers /\ commits <= 1 =>
          /\ \A part \in Parts :
                bundle[part] \in {Missing, start[part], Snapshot[part]}
          /\ commits = 0 => start = Snapshot
          /\ commits = 1 => OneChange(start, Snapshot)

(* The rules a text without principals has for a call of one agent.          *)
Addressed(text, a, r) ==
    {x \in {[z EXCEPT !.who = a] : z \in text} : Matches(x, a, r, FALSE)}

LEMMA SaidOfText ==
    ASSUME NEW b, NEW p, NEW a \in GrantAgents, NEW r, NEW text, b.policies[p] = text,
           text \subseteq Rules, ~(\E x \in text : x.who # Anyone), Dids(b, p) # {}
    PROVE  SaidBy(b, p, a, r) = IF a \in Dids(b, p) THEN Addressed(text, a, r) ELSE {}
<1>1. ScopeToAgents(text, Dids(b, p)) = {[z EXCEPT !.who = u] : z \in text, u \in Dids(b, p)}
  BY DEF ScopeToAgents
<1>2. \A x : x \in SaidBy(b, p, a, r) <=>
               /\ x \in ScopeToAgents(text, Dids(b, p))
               /\ Matches(x, a, r, FALSE)
  BY DEF SaidBy
<1>3. Dids(b, p) \subseteq GrantAgents
  BY DEF Dids
<1>4. \A z \in text, u \in GrantAgents : Matches([z EXCEPT !.who = u], a, r, FALSE) => u = a
  <2> SUFFICES ASSUME NEW z \in text, NEW u \in GrantAgents,
                      Matches([z EXCEPT !.who = u], a, r, FALSE)
               PROVE  u = a
    OBVIOUS
  <2>1. z \in Rules
    OBVIOUS
  <2>2. [z EXCEPT !.who = u].who = u
    BY <2>1 DEF Rules
  <2>3. u \in {a, Anyone}
    BY <2>2 DEF Matches
  <2>4. QED
    BY <2>3, GrantNamesAssumption
<1>5. ASSUME NEW x, x \in SaidBy(b, p, a, r)
      PROVE  a \in Dids(b, p) /\ x \in Addressed(text, a, r)
  <2>1. Matches(x, a, r, FALSE)
    BY <1>2, <1>5
  <2>2. PICK z \in text, u \in Dids(b, p) : x = [z EXCEPT !.who = u]
    <3>1. x \in ScopeToAgents(text, Dids(b, p))
      BY <1>2, <1>5
    <3>2. x \in {[z EXCEPT !.who = u] : z \in text, u \in Dids(b, p)}
      BY <1>1, <3>1
    <3>3. QED
      BY <3>2
  <2>3. u = a
    BY <1>3, <1>4, <2>1, <2>2
  <2>4. QED
    BY <2>1, <2>2, <2>3 DEF Addressed
<1>6. ASSUME NEW x, a \in Dids(b, p), x \in Addressed(text, a, r)
      PROVE  x \in SaidBy(b, p, a, r)
  <2>1. PICK z \in text : x = [z EXCEPT !.who = a]
    BY <1>6 DEF Addressed
  <2>2. Matches(x, a, r, FALSE)
    BY <1>6 DEF Addressed
  <2>3. x \in ScopeToAgents(text, Dids(b, p))
    BY <1>1, <1>6, <2>1
  <2>4. QED
    BY <1>2, <2>2, <2>3
<1>7. CASE a \in Dids(b, p)
  BY <1>5, <1>6, <1>7
<1>8. CASE a \notin Dids(b, p)
  BY <1>5, <1>8
<1>9. QED
  BY <1>7, <1>8

(* Half of what persistAsPolicy commits decides like all of it or none: an   *)
(* empty text says nothing, and a text without its mapping speaks of the     *)
(* agents that were mapped before.                                           *)
LEMMA PersistedHalf ==
    ASSUME NEW a \in GrantAgents, NEW r, NEW s, NEW t, NEW b, Persisted(s, t),
           b.agents = s.agents, b.grants = s.grants,
           b.policies \in {s.policies, t.policies},
           b.mapped \in {s.mapped, t.mapped}
    PROVE  (Authorize(b, a, r) = "allow") \in
               {Authorize(s, a, r) = "allow", Authorize(t, a, r) = "allow"}
<1>1. PICK y \in GrantAgents, p \in Policies :
         /\ s.policies[p] = {} /\ t.policies[p] \subseteq Rules
         /\ \A q \in Policies \ {p} :
               s.policies[q] = t.policies[q] /\ Dids(s, q) = Dids(t, q)
         /\ Dids(t, p) \in {Dids(s, p), Dids(s, p) \cup {y}}
  BY DEF Persisted
<1>2. \A q \in Policies : Dids(b, q) \in {Dids(s, q), Dids(t, q)}
  BY DEF Dids
<1>3. \A q \in Policies : b.policies[q] \in {s.policies[q], t.policies[q]}
  OBVIOUS
<1>4. \A q \in Policies \ {p} :
         SaidBy(b, q, a, r) = SaidBy(s, q, a, r) /\ SaidBy(b, q, a, r) = SaidBy(t, q, a, r)
  <2> SUFFICES ASSUME NEW q \in Policies, q # p
               PROVE  SaidBy(b, q, a, r) = SaidBy(s, q, a, r)
                      /\ SaidBy(b, q, a, r) = SaidBy(t, q, a, r)
    OBVIOUS
  <2>1. Dids(b, q) = Dids(s, q) /\ Dids(b, q) = Dids(t, q)
    BY <1>1, <1>2
  <2>2. b.policies[q] = s.policies[q] /\ b.policies[q] = t.policies[q]
    BY <1>1, <1>3
  <2>3. QED
    BY <2>1, <2>2 DEF SaidBy
<1>5. SaidBy(b, p, a, r) \in {SaidBy(s, p, a, r), SaidBy(t, p, a, r)}
  <2>1. CASE b.policies[p] = {}
    <3>1. \A d : ScopeToAgents({}, d) = {}
      BY DEF ScopeToAgents
    <3>2. SaidBy(b, p, a, r) = {} /\ SaidBy(s, p, a, r) = {}
      BY <1>1, <2>1, <3>1 DEF SaidBy
    <3>3. QED
      BY <3>2
  <2>2. CASE b.policies[p] = t.policies[p]
    <3> DEFINE text == t.policies[p]
    <3>1. CASE Dids(b, p) = Dids(t, p)
      BY <2>2, <3>1 DEF SaidBy
    <3>2. CASE Dids(b, p) = Dids(s, p) /\ Dids(t, p) = Dids(s, p) \cup {y}
      <4>1. CASE Dids(b, p) = {}
        <5>1. SaidBy(b, p, a, r) = {} /\ SaidBy(s, p, a, r) = {}
          BY <3>2, <4>1 DEF SaidBy
        <5>2. QED
          BY <5>1
      <4>2. CASE Dids(b, p) # {} /\ \E x \in text : x.who # Anyone
        <5>1. ScopeToAgents(text, Dids(b, p)) = text
              /\ ScopeToAgents(text, Dids(t, p)) = text
          BY <4>2 DEF ScopeToAgents
        <5>2. Dids(t, p) # {}
          BY <3>2
        <5>3. SaidBy(b, p, a, r) = SaidBy(t, p, a, r)
          BY <2>2, <4>2, <5>1, <5>2 DEF SaidBy
        <5>4. QED
          BY <5>3
      <4>3. CASE Dids(b, p) # {} /\ ~(\E x \in text : x.who # Anyone)
        <5>1. text \subseteq Rules /\ ~(\E x \in text : x.who # Anyone)
          BY <1>1, <4>3
        <5>2. /\ Dids(b, p) \subseteq GrantAgents /\ Dids(t, p) \subseteq GrantAgents
              /\ Dids(b, p) # {} /\ Dids(t, p) # {}
          BY <3>2, <4>3 DEF Dids
        <5>3. /\ SaidBy(b, p, a, r) =
                     IF a \in Dids(b, p) THEN Addressed(text, a, r) ELSE {}
              /\ SaidBy(t, p, a, r) =
                     IF a \in Dids(t, p) THEN Addressed(text, a, r) ELSE {}
          BY <2>2, <5>1, <5>2, SaidOfText
        <5>4. CASE a \in Dids(b, p)
          BY <3>2, <5>3, <5>4
        <5>5. CASE a \notin Dids(b, p)
          <6>1. SaidBy(b, p, a, r) = {}
            BY <5>3, <5>5
          <6>2. ScopeToAgents({}, Dids(s, p)) = {}
            BY DEF ScopeToAgents
          <6>3. SaidBy(s, p, a, r) = {}
            BY <1>1, <6>2 DEF SaidBy
          <6>4. QED
            BY <6>1, <6>3
        <5>6. QED
          BY <5>4, <5>5
      <4>4. QED
        BY <4>1, <4>2, <4>3
    <3>3. QED
      BY <1>1, <1>2, <3>1, <3>2
  <2>3. QED
    BY <1>1, <1>3, <2>1, <2>2
<1>6. s.agents = t.agents /\ s.grants = t.grants
  BY DEF Persisted
<1>7. CASE SaidBy(b, p, a, r) = SaidBy(s, p, a, r)
  <2>1. \A q \in Policies : SaidBy(b, q, a, r) = SaidBy(s, q, a, r)
    BY <1>4, <1>7
  <2>2. QED
    BY <2>1, SameSayAllowedAlike
<1>8. CASE SaidBy(b, p, a, r) = SaidBy(t, p, a, r)
  <2>1. \A q \in Policies : SaidBy(b, q, a, r) = SaidBy(t, q, a, r)
    BY <1>4, <1>8
  <2>2. QED
    BY <1>6, <2>1, SameSayAllowedAlike
<1>9. QED
  BY <1>5, <1>7, <1>8

LEMMA OneChangeDecides ==
    ASSUME NEW a \in GrantAgents, NEW r, NEW s, NEW t, NEW b, OneChange(s, t),
           \A part \in Parts : b[part] \in {s[part], t[part]},
           DeletedAlike(s, t, a)
    PROVE  (Authorize(b, a, r) = "allow") \in
               {Authorize(s, a, r) = "allow", Authorize(t, a, r) = "allow"}
<1>1. /\ b.agents \in {s.agents, t.agents} /\ b.policies \in {s.policies, t.policies}
      /\ b.mapped \in {s.mapped, t.mapped} /\ b.grants \in {s.grants, t.grants}
  BY DEF Parts
<1>2. ASSUME b.agents[a] = s.agents[a], b.policies = s.policies, b.mapped = s.mapped,
             b.grants = s.grants
      PROVE  (Authorize(b, a, r) = "allow") = (Authorize(s, a, r) = "allow")
  BY <1>2, SameTablesAllowedAlike
<1>3. ASSUME b.agents[a] = t.agents[a], b.policies = t.policies, b.mapped = t.mapped,
             b.grants = t.grants
      PROVE  (Authorize(b, a, r) = "allow") = (Authorize(t, a, r) = "allow")
  BY <1>3, SameTablesAllowedAlike
<1>4. CASE RulesKept(s, t)
  BY <1>1, <1>2, <1>3, <1>4 DEF RulesKept
<1>5. CASE OneTable(s, t)
  <2>1. b.agents[a] = s.agents[a] /\ b.agents[a] = t.agents[a]
    BY <1>1, <1>5 DEF OneTable
  <2>2. QED
    BY <1>1, <1>2, <1>3, <1>5, <2>1 DEF OneTable
<1>6. CASE Persisted(s, t)
  <2>1. b.agents = s.agents /\ b.grants = s.grants
    BY <1>1, <1>6 DEF Persisted
  <2>2. QED
    BY <1>1, <1>6, <2>1, PersistedHalf
<1>7. QED
  BY <1>4, <1>5, <1>6 DEF OneChange

LEMMA TornInvDecides ==
    ASSUME TornInv, GrantInv
    PROVE  TornBundleDecides
<1> SUFFICES ASSUME Whole(bundle), commits <= 1,
                    NEW a \in GrantAgents, NEW r \in GrantResources,
                    DeletedAlike(start, Snapshot, a)
             PROVE  (Authorize(bundle, a, r) = "allow") \in
                        {Authorize(start, a, r) = "allow",
                         Authorize(Snapshot, a, r) = "allow"}
  BY DEF TornBundleDecides, DeletedAlike
<1>0. commits \in Nat
  BY DEF GrantInv, GrantTypeOK
<1>1. start # NoAnswers
  BY DEF TornInv, Whole, NoAnswers, Parts
<1>2. \A part \in Parts : bundle[part] \in {start[part], Snapshot[part]}
  BY <1>1 DEF TornInv, Whole
<1>3. OneChange(start, Snapshot)
  <2>1. CASE commits = 0
    BY <1>1, <2>1 DEF TornInv, OneChange, RulesKept
  <2>2. CASE commits = 1
    BY <1>1, <2>2 DEF TornInv
  <2>3. QED
    BY <1>0, <2>1, <2>2
<1>4. QED
  BY <1>2, <1>3, OneChangeDecides

-----------------------------------------------------------------------------

LEMMA TornInit == GrantInit => TornInv
BY DEF GrantInit, TornInv

LEMMA SnapshotSame ==
    ASSUME UNCHANGED tables
    PROVE  Snapshot' = Snapshot
BY DEF tables, Snapshot, ReadMapped, ReadGrants, ReadStepUp

(* What is mapped to a policy, of the agents that are not deleted.          *)
LEMMA SnapshotDids ==
    ASSUME NEW p
    PROVE  /\ Dids(Snapshot, p) =
                 {a \in GrantAgents : <<a, p>> \in mapped /\ agents[a].status # "deleted"}
           /\ Dids(Snapshot', p) =
                 {a \in GrantAgents : <<a, p>> \in mapped' /\ agents'[a].status # "deleted"}
BY DEF Dids, Snapshot, ReadMapped

(* Changes of an agent's row.                                               *)
LEMMA AgentChange ==
    ASSUME GrantInv, NEW a \in GrantAgents, UNCHANGED <<policies, mapped, grants>>,
           NEW row \in AgentRows, agents' = [agents EXCEPT ![a] = row]
    PROVE  OneChange(Snapshot, Snapshot')
<1>1. agents \in [GrantAgents -> AgentRows] /\ agents'[a] = row
      /\ mapped \subseteq GrantAgents \X Policies
  BY DEF GrantInv, GrantTypeOK
<1>2. \A x \in GrantAgents \ {a} : agents'[x] = agents[x]
  BY <1>1
<1>3. Snapshot'.policies = Snapshot.policies /\ Snapshot'.grants = Snapshot.grants
  BY DEF Snapshot, ReadGrants
<1>4. Snapshot.agents = agents /\ Snapshot'.agents = agents'
  BY DEF Snapshot
<1>5. CASE (agents[a].status = "deleted") = (row.status = "deleted")
  <2>1. \A x \in GrantAgents : agents'[x].status = "deleted" <=> agents[x].status = "deleted"
    BY <1>1, <1>2, <1>5
  <2>2. \A m \in mapped : agents'[m[1]].status = "deleted" <=> agents[m[1]].status = "deleted"
    BY <1>1, <2>1
  <2>3. ReadMapped' = ReadMapped
    BY <2>2 DEF ReadMapped
  <2>4. Snapshot'.mapped = Snapshot.mapped
    BY <2>3 DEF Snapshot
  <2>5. QED
    BY <1>3, <2>4 DEF OneChange, RulesKept
<1>6. CASE (agents[a].status = "deleted") # (row.status = "deleted")
  <2>1. \A x \in GrantAgents : DeletedAlike(Snapshot, Snapshot', x) =>
                              Snapshot.agents[x] = Snapshot'.agents[x]
    BY <1>1, <1>2, <1>4, <1>6 DEF DeletedAlike
  <2>2. QED
    BY <1>3, <2>1 DEF OneChange, OneTable
<1>7. QED
  BY <1>5, <1>6

LEMMA DecideChange ==
    ASSUME GrantInv, NEW a \in GrantAgents, Decide(a)
    PROVE  OneChange(Snapshot, Snapshot')
<1>1. agents \in [GrantAgents -> AgentRows] /\ agents[a] \in AgentRows
  BY DEF GrantInv, GrantTypeOK
<1>2. ASSUME NEW yes \in BOOLEAN, CreateAgent(a, yes)
      PROVE  OneChange(Snapshot, Snapshot')
  <2>1. [status |-> "active", mode |-> "static", approved |-> ~yes] \in AgentRows
    BY DEF AgentRows
  <2>2. QED
    BY <1>2, <2>1, AgentChange DEF CreateAgent
<1>3. ASSUME NEW row \in AgentRows, agents' = [agents EXCEPT ![a] = row],
             UNCHANGED <<policies, mapped, grants>>
      PROVE  OneChange(Snapshot, Snapshot')
  BY <1>3, AgentChange
<1>4. CASE ApproveConnection(a)
  <2>1. [agents[a] EXCEPT !.approved = TRUE] \in AgentRows
    BY <1>1 DEF AgentRows
  <2>2. agents' = [agents EXCEPT ![a] = [agents[a] EXCEPT !.approved = TRUE]]
    BY <1>1, <1>4 DEF ApproveConnection
  <2>3. QED
    BY <1>3, <1>4, <2>1, <2>2 DEF ApproveConnection
<1>5. ASSUME NEW status \in {"active", "disabled", "deleted"}, SetStatus(a, status)
      PROVE  OneChange(Snapshot, Snapshot')
  <2>1. [agents[a] EXCEPT !.status = status] \in AgentRows
    BY <1>1 DEF AgentRows
  <2>2. agents' = [agents EXCEPT ![a] = [agents[a] EXCEPT !.status = status]]
    BY <1>1, <1>5 DEF SetStatus
  <2>3. QED
    BY <1>3, <1>5, <2>1, <2>2 DEF SetStatus
<1>6. ASSUME NEW mode \in {"static", "dynamic"}, SetMode(a, mode)
      PROVE  OneChange(Snapshot, Snapshot')
  <2>1. [agents[a] EXCEPT !.mode = mode] \in AgentRows
    BY <1>1 DEF AgentRows
  <2>2. agents' = [agents EXCEPT ![a] = [agents[a] EXCEPT !.mode = mode]]
    BY <1>1, <1>6 DEF SetMode
  <2>3. QED
    BY <1>3, <1>6, <2>1, <2>2 DEF SetMode
<1>7. ASSUME NEW p \in Policies, Assign(a, p) \/ Unassign(a, p)
      PROVE  OneChange(Snapshot, Snapshot')
  BY <1>7 DEF Assign, Unassign, OneChange, OneTable, Snapshot, ReadGrants
<1>8. ASSUME NEW p \in Policies, NEW text \in Texts, PersistAsPolicy(a, p, text)
      PROVE  OneChange(Snapshot, Snapshot')
  <2>1. /\ policies[p] = {} /\ policies' = [policies EXCEPT ![p] = text]
        /\ mapped' = mapped \cup {<<a, p>>} /\ UNCHANGED <<agents, grants>>
    BY <1>8 DEF PersistAsPolicy
  <2>2. policies \in [Policies -> SUBSET Rules] /\ text \subseteq Rules
    BY GrantTextsAssumption DEF GrantInv, GrantTypeOK
  <2>3. /\ Snapshot.policies = policies /\ Snapshot'.policies = policies'
        /\ Snapshot.agents = Snapshot'.agents /\ Snapshot.grants = Snapshot'.grants
    BY <2>1 DEF Snapshot, ReadGrants
  <2>4. \A q \in Policies \ {p} : policies[q] = policies'[q]
    BY <2>1, <2>2
  <2>5. policies'[p] = text
    BY <2>1, <2>2
  <2>6. \A q \in Policies \ {p} : Dids(Snapshot, q) = Dids(Snapshot', q)
    BY <2>1, SnapshotDids
  <2>7. Dids(Snapshot', p) \in {Dids(Snapshot, p), Dids(Snapshot, p) \cup {a}}
    BY <2>1, SnapshotDids
  <2>8. QED
    BY <2>1, <2>2, <2>3, <2>4, <2>5, <2>6, <2>7 DEF OneChange, Persisted
<1>9. QED
  BY <1>2, <1>4, <1>5, <1>6, <1>7, <1>8 DEF Decide

LEMMA TornStep == GrantInv /\ TornInv /\ [GrantNext]_grantVars => TornInv'
<1> SUFFICES ASSUME GrantInv, TornInv, [GrantNext]_grantVars PROVE TornInv'
  OBVIOUS
<1>0. commits \in Nat
  BY DEF GrantInv, GrantTypeOK
<1>1. ASSUME UNCHANGED pdp, OneChange(Snapshot, Snapshot'),
             start # NoAnswers => commits' = commits + 1
      PROVE  TornInv'
  <2>1. bundle' = bundle /\ start' = start
    BY <1>1 DEF pdp
  <2>2. CASE start = NoAnswers
    BY <2>1, <2>2 DEF TornInv
  <2>3. CASE start # NoAnswers /\ commits = 0
    <3>1. start = Snapshot /\ commits' = 1
      BY <1>0, <1>1, <2>3 DEF TornInv
    <3>2. \A part \in Parts : bundle[part] \in {Missing, start[part]}
      BY <2>3, <3>1 DEF TornInv
    <3>3. QED
      BY <1>1, <2>1, <2>3, <3>1, <3>2 DEF TornInv
  <2>4. CASE start # NoAnswers /\ commits # 0
    <3>1. ~(commits' <= 1)
      BY <1>0, <1>1, <2>4
    <3>2. QED
      BY <2>1, <2>4, <3>1 DEF TornInv
  <2>5. QED
    BY <2>2, <2>3, <2>4
<1>2. ASSUME Commit
      PROVE  start # NoAnswers => commits' = commits + 1
  BY <1>2 DEF Commit
<1>3. ASSUME UNCHANGED <<tables, pdp, commits>> PROVE TornInv'
  <2>1. Snapshot' = Snapshot /\ bundle' = bundle /\ start' = start /\ commits' = commits
    BY <1>3, SnapshotSame DEF pdp
  <2>2. QED
    BY <2>1 DEF TornInv
<1>4. ASSUME NEW a \in GrantAgents, Decide(a) PROVE TornInv'
  <2>1. Edit
    BY <1>4 DEF Decide, CreateAgent, ApproveConnection, SetStatus, SetMode, Assign,
                Unassign, PersistAsPolicy
  <2>2. UNCHANGED pdp /\ Commit
    BY <2>1 DEF Edit
  <2>3. QED
    BY <1>1, <1>2, <1>4, <2>2, DecideChange
<1>5. ASSUME NEW p \in Policies, NEW text \in Texts, UpsertPolicy(p, text)
      PROVE  TornInv'
  <2>1. UNCHANGED pdp /\ Commit /\ UNCHANGED <<agents, mapped, grants>>
    BY <1>5 DEF UpsertPolicy, Edit
  <2>2. OneChange(Snapshot, Snapshot')
    BY <2>1 DEF OneChange, OneTable, Snapshot, ReadGrants, ReadMapped
  <2>3. QED
    BY <1>1, <1>2, <2>1, <2>2
<1>6. ASSUME UNCHANGED pdp, Commit, UNCHANGED <<agents, policies, mapped>>
      PROVE  TornInv'
  <2>1. OneChange(Snapshot, Snapshot')
    BY <1>6 DEF OneChange, OneTable, Snapshot, ReadMapped
  <2>2. QED
    BY <1>1, <1>2, <1>6, <2>1
<1>7. ASSUME NEW i \in DOMAIN grants, RevokeGrant(i) PROVE TornInv'
  BY <1>6, <1>7 DEF RevokeGrant, Edit
<1>8. ASSUME NEW s \in Sessions, TxInsert(s) PROVE TornInv'
  BY <1>6, <1>8 DEF TxInsert
<1>9. ASSUME NEW s \in Sessions, Remember(s) \/ TxSelect(s) \/ TxUpdate(s) \/ TxLock(s)
      PROVE  TornInv'
  BY <1>3, <1>9 DEF Remember, RememberAllow, RememberDeny, Toggle, Begin, TxSelect,
                    TxUpdate, TxLock
<1>10. CASE FetchBundle
  <2>1. bundle' = NoAnswers /\ start' = Snapshot /\ commits' = 0
        /\ Snapshot' = Snapshot
    BY <1>10, SnapshotSame DEF FetchBundle
  <2>2. QED
    BY <2>1 DEF TornInv, NoAnswers, Parts
<1>11. ASSUME NEW part \in Parts, ReadPart(part) PROVE TornInv'
  <2>1. /\ start # NoAnswers /\ start' = start /\ commits' = commits
        /\ Snapshot' = Snapshot
    BY <1>11, SnapshotSame DEF ReadPart, Reading
  <2>2. bundle' = [bundle EXCEPT ![part] = Snapshot[part]]
    BY <1>11 DEF ReadPart
  <2>3. bundle \in Answers
    BY DEF GrantInv, GrantTypeOK
  <2>4. \A other \in Parts : bundle'[other] \in {bundle[other], Snapshot[other]}
    BY <2>2, <2>3 DEF Answers, Parts
  <2>5. QED
    BY <2>1, <2>4 DEF TornInv
<1>12. CASE UNCHANGED grantVars
  BY <1>3, <1>12 DEF grantVars
<1>13. QED
  BY <1>4, <1>5, <1>7, <1>8, <1>9, <1>10, <1>11, <1>12 DEF GrantNext

(* A bundle whose statements see different moments, with at most one change  *)
(* committed in between, allows what was allowed before that change or is    *)
(* allowed after it, unless it deletes or restores the agent itself.         *)
THEOREM TornDecides == GrantSpec => []TornBundleDecides
<1>1. GrantInv /\ TornInv => TornBundleDecides
  BY TornInvDecides
<1>2. QED
  BY <1>1, GrantInitInv, GrantNextInv, TornInit, TornStep, PTL DEF GrantSpec

-----------------------------------------------------------------------------
(* Two active grants                                                        *)

(* A transaction that has looked for the active grants of its agent knows    *)
(* all there are until another of the agent commits.                         *)
LookInv ==
    \A s \in Sessions :
        tx[s].pc \in {"waiting", "insert"} /\ ~tx[s].overtaken =>
            Active(tx[s].agent) \subseteq tx[s].supersedes

LEMMA LookInit == GrantInit => LookInv
BY DEF GrantInit, Idle, LookInv

(* A step that adds no active grant and leaves the transactions that have    *)
(* looked as they are.                                                       *)
LEMMA LookFewer ==
    ASSUME LookInv, \A a : Active(a)' \subseteq Active(a),
           \A s \in Sessions :
               tx'[s].pc \in {"waiting", "insert"} => tx'[s] = tx[s]
    PROVE  LookInv'
<1> SUFFICES ASSUME NEW s \in Sessions, tx'[s].pc \in {"waiting", "insert"},
                    ~tx'[s].overtaken, NEW a, a = tx'[s].agent
             PROVE  Active(a)' \subseteq tx'[s].supersedes
  BY DEF LookInv, Active
<1>1. tx'[s] = tx[s]
  OBVIOUS
<1>2. Active(a) \subseteq tx[s].supersedes
  BY <1>1 DEF LookInv
<1>3. QED
  BY <1>1, <1>2

(* What a revocation by hand leaves active.                                 *)
LEMMA RevokeLeaves ==
    ASSUME GrantInv, NEW i \in DOMAIN grants, RevokeGrant(i)
    PROVE  tx' = tx /\ \A a : Active(a)' \subseteq Active(a)
<1>1. /\ tx' = tx /\ DOMAIN grants' = DOMAIN grants
      /\ \A j \in DOMAIN grants : j # i => grants'[j] = grants[j]
  BY GrantRevokeInv
<1>2. grants'[i].revoked
  <2>1. grants \in Seq(GrantRows) /\ grants' = [grants EXCEPT ![i].revoked = TRUE]
    BY DEF RevokeGrant, GrantInv, GrantTypeOK
  <2>2. grants[i] \in GrantRows
    BY <2>1
  <2>3. QED
    BY <2>1, <2>2 DEF GrantRows
<1>3. QED
  BY <1>1, <1>2 DEF Active

(* What an INSERT leaves active: the rows it does not supersede, and its own. *)
LEMMA InsertLeaves ==
    ASSUME GrantInv, NEW s \in Sessions, TxInsert(s)
    PROVE  \A a \in GrantAgents :
               /\ a # tx[s].agent => Active(a)' \subseteq Active(a)
               /\ a = tx[s].agent =>
                     /\ Len(grants) + 1 \in Active(a)'
                     /\ Active(a)' \subseteq
                           (Active(a) \ tx[s].supersedes) \cup {Len(grants) + 1}
<1> DEFINE n == Len(grants) + 1
<1>1. /\ GrantInv'
      /\ Len(grants') = n
      /\ grants'[n].agent = tx[s].agent /\ ~grants'[n].revoked
      /\ \A i \in DOMAIN grants :
            /\ grants'[i].agent = grants[i].agent
            /\ grants'[i].revoked = (grants[i].revoked \/ i \in tx[s].supersedes)
  BY GrantInsertInv
<1>2. /\ DOMAIN grants' = 1 .. n /\ DOMAIN grants = 1 .. Len(grants)
      /\ Len(grants) \in Nat
  BY <1>1 DEF GrantInv, GrantTypeOK
<1>3. \A i \in 1 .. n : i # n => i \in DOMAIN grants
  BY <1>2
<1>4. ASSUME NEW a, NEW i \in DOMAIN grants', grants'[i].agent = a,
             ~grants'[i].revoked, i # n
      PROVE  i \in Active(a) /\ i \notin tx[s].supersedes
  <2>1. i \in DOMAIN grants
    BY <1>2, <1>3, <1>4
  <2>2. grants[i].agent = a /\ ~grants[i].revoked /\ i \notin tx[s].supersedes
    BY <1>1, <1>4, <2>1
  <2>3. QED
    BY <2>1, <2>2 DEF Active
<1>5. n \in DOMAIN grants'
  BY <1>2
<1>6. QED
  <2>1. n \in {i \in DOMAIN grants' : grants'[i].agent = tx[s].agent /\ ~grants'[i].revoked}
    BY <1>1, <1>5
  <2>2. ASSUME NEW a, NEW i \in {k \in DOMAIN grants' : grants'[k].agent = a
                                                     /\ ~grants'[k].revoked}
        PROVE  \/ i \in Active(a) /\ i \notin tx[s].supersedes
               \/ i = n /\ a = tx[s].agent
    BY <1>1, <1>4, <2>2
  <2>3. \A a : {k \in DOMAIN grants' : grants'[k].agent = a /\ ~grants'[k].revoked}
                \subseteq {i \in Active(a) : i \notin tx[s].supersedes}
                            \cup {i \in {n} : a = tx[s].agent}
    BY <2>2
  <2> HIDE DEF n
  <2>4. \A a : {k \in DOMAIN grants' : grants'[k].agent = a /\ ~grants'[k].revoked} = Active(a)'
    BY DEF Active
  <2>5. ASSUME NEW a \in GrantAgents
        PROVE  /\ a # tx[s].agent => Active(a)' \subseteq Active(a)
               /\ a = tx[s].agent =>
                     /\ n \in Active(a)'
                     /\ Active(a)' \subseteq (Active(a) \ tx[s].supersedes) \cup {n}
    BY <2>1, <2>3, <2>4
  <2>6. QED
    BY <2>5 DEF n

LEMMA LookStep == GrantInv /\ LookInv /\ [GrantNext]_grantVars => LookInv'
<1> SUFFICES ASSUME GrantInv, LookInv, [GrantNext]_grantVars PROVE LookInv'
  OBVIOUS
<1>t. tx \in [Sessions -> Transactions]
  BY DEF GrantInv, GrantTypeOK
<1>1. CASE UNCHANGED <<grants, tx>>
  BY <1>1, GrantUnchangedActive, LookFewer
<1>2. ASSUME NEW i \in DOMAIN grants, RevokeGrant(i) PROVE LookInv'
  BY <1>2, RevokeLeaves, LookFewer
<1>3. ASSUME NEW s \in Sessions, Remember(s) PROVE LookInv'
  <2>1. UNCHANGED grants
    BY <1>3 DEF Remember, RememberAllow, RememberDeny, Toggle, Begin, tables
  <2>2. PICK t : t.pc = "select" /\ tx' = [tx EXCEPT ![s] = t]
    BY <1>3 DEF Remember, RememberAllow, RememberDeny, Toggle, Begin
  <2>3. \A u \in Sessions : tx'[u].pc \in {"waiting", "insert"} => tx'[u] = tx[u]
    BY <1>t, <2>2
  <2>4. QED
    BY <2>1, <2>3, GrantUnchangedActive, LookFewer
<1>4. ASSUME NEW s \in Sessions, TxSelect(s) \/ TxUpdate(s) \/ TxLock(s)
      PROVE  LookInv'
  <2>1. UNCHANGED grants
    BY <1>4 DEF TxSelect, TxUpdate, TxLock, tables
  <2>2. \A a : Active(a)' = Active(a)
    BY <2>1, GrantUnchangedActive
  <2>3. tx[s] \in Transactions
    BY <1>t
  <2>4. /\ \A u \in Sessions \ {s} : tx'[u] = tx[u]
        /\ tx'[s].agent = tx[s].agent /\ tx'[s].overtaken = tx[s].overtaken
        /\ tx'[s].pc \in {"waiting", "insert"} /\ ~tx[s].overtaken =>
              Active(tx[s].agent) \subseteq tx'[s].supersedes
    <3>1. CASE TxSelect(s)
      BY <1>t, <2>3, <3>1 DEF TxSelect, Transactions
    <3>2. CASE TxUpdate(s)
      BY <1>t, <2>3, <3>2 DEF TxUpdate, Transactions
    <3>3. CASE TxLock(s)
      <4>1. ~tx[s].overtaken => Active(tx[s].agent) \subseteq tx[s].supersedes
        BY <3>3 DEF TxLock, LookInv
      <4>2. QED
        BY <1>t, <2>3, <3>3, <4>1 DEF TxLock, Transactions
    <3>4. QED
      BY <1>4, <3>1, <3>2, <3>3
  <2>5. ASSUME NEW u \in Sessions, tx'[u].pc \in {"waiting", "insert"},
               ~tx'[u].overtaken, NEW a, a = tx'[u].agent
        PROVE  Active(a)' \subseteq tx'[u].supersedes
    <3>1. CASE u = s
      BY <2>2, <2>4, <2>5, <3>1
    <3>2. CASE u # s
      BY <2>2, <2>4, <2>5, <3>2 DEF LookInv
    <3>3. QED
      BY <3>1, <3>2
  <2>6. QED
    BY <2>5 DEF LookInv, Active
<1>5. ASSUME NEW s \in Sessions, TxInsert(s) PROVE LookInv'
  <2>1. ASSUME NEW u \in Sessions, tx'[u].pc \in {"waiting", "insert"},
               ~tx'[u].overtaken, NEW a, a = tx'[u].agent
        PROVE  Active(a)' \subseteq tx'[u].supersedes
    <3>1. tx' = [v \in Sessions |->
                  IF v = s THEN Idle
                  ELSE [tx[v] EXCEPT !.overtaken = @ \/ Overtakes(s, v)]]
      BY <1>5 DEF TxInsert
    <3>2. u # s
      BY <2>1, <3>1 DEF Idle
    <3>3. tx[u] \in Transactions
      BY <1>t
    <3>4. tx'[u] = [tx[u] EXCEPT !.overtaken = @ \/ Overtakes(s, u)]
      BY <3>1, <3>2
    <3>5. /\ tx[u].pc = tx'[u].pc /\ tx[u].agent = tx'[u].agent
          /\ tx[u].supersedes = tx'[u].supersedes
          /\ ~tx[u].overtaken /\ ~Overtakes(s, u)
      BY <2>1, <3>3, <3>4 DEF Transactions
    <3>6. a # tx[s].agent /\ a \in GrantAgents
      BY <2>1, <3>5 DEF Overtakes, GrantInv, OpenTxs
    <3>7. Active(a)' \subseteq Active(a)
      BY <1>5, <3>6, InsertLeaves
    <3>8. Active(a) \subseteq tx[u].supersedes
      BY <2>1, <3>5 DEF LookInv
    <3>9. QED
      BY <3>5, <3>7, <3>8
  <2>2. QED
    BY <2>1 DEF LookInv, Active
<1>6. QED
  BY <1>1, <1>2, <1>3, <1>4, <1>5
     DEF GrantNext, Decide, Edit, CreateAgent, ApproveConnection, SetStatus, SetMode,
         UpsertPolicy, Assign, Unassign, PersistAsPolicy, FetchBundle, ReadPart,
         grantVars, tables

LEMMA DuplicateStep ==
    ASSUME GrantInv, LookInv, [GrantNext]_grantVars, NEW a \in GrantAgents,
           \E i \in Active(a)' : i \notin Active(a),
           Cardinality(Active(a)') # 1
    PROVE  \E s \in Sessions :
               tx[s].agent = a /\ tx[s].overtaken /\ tx'[s] = Idle
<1>1. ~(Active(a)' \subseteq Active(a))
  OBVIOUS
<1>2. ~ UNCHANGED grants
  BY <1>1, GrantUnchangedActive
<1>3. ASSUME NEW i \in DOMAIN grants, RevokeGrant(i) PROVE FALSE
  BY <1>1, <1>3, RevokeLeaves
<1>4. ASSUME NEW s \in Sessions, TxInsert(s)
      PROVE  tx[s].agent = a /\ tx[s].overtaken /\ tx'[s] = Idle
  <2>1. tx[s].agent = a
    BY <1>1, <1>4, InsertLeaves
  <2>2. tx'[s] = Idle
    BY <1>4 DEF TxInsert
  <2>3. ASSUME ~tx[s].overtaken PROVE FALSE
    <3>1. Active(a) \subseteq tx[s].supersedes
      BY <1>4, <2>1, <2>3 DEF LookInv, TxInsert
    <3>2. /\ Active(a)' \subseteq (Active(a) \ tx[s].supersedes) \cup {Len(grants) + 1}
          /\ Len(grants) + 1 \in Active(a)'
      BY <1>4, <2>1, InsertLeaves
    <3>3. Active(a)' = {Len(grants) + 1}
      BY <3>1, <3>2
    <3>4. Cardinality(Active(a)') = 1
      BY <3>3, FS_Singleton
    <3>5. QED
      BY <3>4
  <2>4. QED
    BY <2>1, <2>2, <2>3
<1>5. QED
  BY <1>2, <1>3, <1>4
     DEF GrantNext, Decide, Edit, CreateAgent, ApproveConnection, SetStatus, SetMode,
         UpsertPolicy, Assign, Unassign, PersistAsPolicy, Remember, RememberAllow,
         RememberDeny, Toggle, Begin, TxSelect, TxUpdate, TxLock, FetchBundle, ReadPart,
         grantVars, tables

(* "At most one active grant is allowed per tuple" (upsertGrant), for any    *)
(* number of sessions: a new grant is its agent's only active one unless the *)
(* transaction that inserts it was overtaken by another of the agent since   *)
(* it looked, whatever is revoked, toggled, deleted and restored.            *)
THEOREM GrantDuplicatesByOverlap == GrantSpec => DuplicatesByOverlapOnly
<1>1. GrantInv /\ LookInv /\ [GrantNext]_grantVars =>
         [\A a \in GrantAgents :
             (\E i \in Active(a)' : i \notin Active(a)) /\ Cardinality(Active(a)') # 1 =>
                 \E s \in Sessions :
                     /\ tx[s].agent = a /\ tx[s].overtaken
                     /\ tx'[s] = Idle]_grantVars
  BY DuplicateStep
<1>2. QED
  BY <1>1, LookInit, LookStep, GrantInitInv, GrantNextInv, PTL
     DEF GrantSpec, DuplicatesByOverlapOnly

=============================================================================
