---------------------------- MODULE GrantBundle ----------------------------
(***************************************************************************)
(* What operators decide about a customer's agents - their status, the       *)
(* policies mapped to them, the grants they remember for them - and how the  *)
(* policy bundle carries it to the PDP: generateBundle reads the tables in   *)
(* statements of their own, renders Cedar rules, and authorize decides from  *)
(* the bundle it has cached.                                                 *)
(*                                                                          *)
(* One customer and one command.  A Cedar rule is abstracted to its effect,  *)
(* the agent and the resource it is about, and whether it asks for a         *)
(* cosigner.  When the PDP fetches is PolicyCache's concern, not this        *)
(* module's.                                                                 *)
(***************************************************************************)
EXTENDS Integers, Sequences, FiniteSets

CONSTANTS
    GrantAgents,    \* the customer's agents
    Policies,       \* rows of the policies table
    GrantResources, \* resources the command can be about
    GrantScopes,    \* what a decision to remember may be about
    Texts,          \* Cedar texts operators save: sets of rules
    Sessions,       \* dashboard sessions that decide at the same time
    Anyone,         \* the principal of a rule that names none
    Anything,       \* the resource of a rule without a when clause
    Missing,        \* a row, a text or an answer that is not there
    MaxGrants,      \* bound on the rows of agent_grants
    MaxEdits,       \* bound on the changes operators commit
    MaxOvertaken    \* bound on those a bundle under way is overtaken by

Rules == [effect : {"permit", "forbid"}, who : GrantAgents \cup {Anyone},
          what : GrantResources \cup {Anything}, cosigned : BOOLEAN]

ASSUME GrantTextsAssumption == Texts \subseteq SUBSET Rules

ASSUME GrantScopesAssumption == GrantScopes \subseteq GrantResources \cup {Anything}

ASSUME GrantNamesAssumption ==
    /\ Anyone \notin GrantAgents
    /\ Anything \notin GrantResources
    /\ Missing \notin GrantAgents

VARIABLES
    agents,     \* the agents table
    policies,   \* the text of each policy row
    mapped,     \* the agent_policies table
    grants,     \* the agent_grants table, oldest row first
    tx,         \* each session's upsertGrant transaction
    bundle,     \* what generateBundle has read; once whole, the PDP's bundle
    start,      \* what it would have read in one go when it began
    commits,    \* changes committed since then
    edits       \* changes operators have started

tables == <<agents, policies, mapped, grants>>
pdp == <<bundle, start>>
grantVars == <<tables, tx, pdp, commits, edits>>

-----------------------------------------------------------------------------
(* State                                                                    *)

AgentRows == [status : {"none", "active", "disabled", "deleted"},
              mode : {"static", "dynamic"}, approved : BOOLEAN]

GrantRows == [agent : GrantAgents, what : GrantResources \cup {Anything},
              decision : {"allow", "deny"}, snippet : Rules \cup {Missing},
              revoked : BOOLEAN]

Transactions ==
    [pc : {"idle", "select", "update", "waiting", "insert"},
     agent : GrantAgents \cup {Missing}, what : GrantResources \cup {Anything},
     decision : {"allow", "deny"}, snippet : Rules \cup {Missing},
     supersedes : SUBSET Nat,   \* the active rows its UPDATE has found
     overtaken : BOOLEAN]       \* history: whether another has inserted since

Idle == [pc |-> "idle", agent |-> Missing, what |-> Anything,
         decision |-> "allow", snippet |-> Missing, supersedes |-> {},
         overtaken |-> FALSE]

(* The answers of generateBundle's statements, Missing while one is out.    *)
Answers == [agents : [GrantAgents -> AgentRows] \cup {Missing},
            policies : [Policies -> SUBSET Rules] \cup {Missing},
            mapped : (SUBSET (GrantAgents \X Policies)) \cup {Missing},
            grants : (SUBSET Nat) \cup {Missing},
            stepUp : (SUBSET GrantAgents) \cup {Missing}]

Parts == {"agents", "policies", "mapped", "grants", "stepUp"}

NoAnswers == [agents |-> Missing, policies |-> Missing, mapped |-> Missing,
              grants |-> Missing, stepUp |-> Missing]

Whole(b) == \A part \in Parts : b[part] # Missing

Active(a) == {i \in DOMAIN grants : grants[i].agent = a /\ ~grants[i].revoked}

(* The rows a transaction has locked, which stay active until it commits.   *)
Holds(s) == IF tx[s].pc = "insert" THEN tx[s].supersedes ELSE {}

HeldRowsActive == \A s \in Sessions : Holds(s) \subseteq Active(tx[s].agent)

GrantTypeOK ==
    /\ agents \in [GrantAgents -> AgentRows]
    /\ policies \in [Policies -> SUBSET Rules]
    /\ mapped \subseteq GrantAgents \X Policies
    /\ grants \in Seq(GrantRows)
    /\ tx \in [Sessions -> Transactions]
    /\ HeldRowsActive
    /\ {bundle, start} \subseteq Answers
    /\ {commits, edits} \subseteq Nat

(* Any database an operator may have built up, from before the snippets too. *)
GrantInit ==
    /\ agents \in [GrantAgents ->
           {[status |-> "none", mode |-> "static", approved |-> FALSE],
            [status |-> "active", mode |-> "static", approved |-> FALSE],
            [status |-> "active", mode |-> "static", approved |-> TRUE]}]
    /\ policies \in [Policies -> Texts \cup {{}}]
    /\ mapped \in SUBSET {m \in GrantAgents \X Policies :
                           agents[m[1]].status # "none" /\ policies[m[2]] # {}}
    /\ grants \in {<<>>} \cup
          {<<[agent |-> a, what |-> w, decision |-> "deny", snippet |-> Missing,
              revoked |-> FALSE]>> :
                 a \in {x \in GrantAgents : agents[x].status # "none"},
                 w \in GrantScopes}
    /\ tx = [s \in Sessions |-> Idle]
    /\ bundle = NoAnswers
    /\ start = NoAnswers
    /\ commits = 0
    /\ edits = 0

-----------------------------------------------------------------------------
(* The statements of generateBundle                                         *)

(* The mapping is joined with the agents that are not deleted.              *)
ReadMapped == {m \in mapped : agents[m[1]].status # "deleted"}

(* Grants of every agent, deleted ones included, that are not revoked.      *)
ReadGrants == {i \in DOMAIN grants : ~grants[i].revoked}

ReadStepUpMapped == {a \in GrantAgents : \E p \in Policies : <<a, p>> \in mapped}

(* step_up_on_deny is TRUE by default and nothing in the code clears it.    *)
ReadStepUp == {a \in GrantAgents : agents[a].status # "none"}

Snapshot == [agents |-> agents, policies |-> policies, mapped |-> ReadMapped,
             grants |-> ReadGrants, stepUp |-> ReadStepUp]

-----------------------------------------------------------------------------
(* Rendering                                                                *)

(* buildCedarPreview: a permit for the command, whatever the decision, with  *)
(* no principal.                                                             *)
Preview(what) == [effect |-> "permit", who |-> Anyone, what |-> what,
                  cosigned |-> FALSE]

(* renderGrantToCedar: the snippet verbatim; rows from before the snippets   *)
(* are derived from the decision.                                            *)
RenderGrant(g) ==
    IF g.snippet # Missing THEN g.snippet
    ELSE [effect |-> IF g.decision = "allow" THEN "permit" ELSE "forbid",
          who |-> g.agent, what |-> g.what, cosigned |-> FALSE]

(* scopeCedarToAgents: the text once per mapped agent, or verbatim when a    *)
(* head in it already names a principal.                                     *)
ScopeToAgents(text, dids) ==
    IF \E r \in text : r.who # Anyone THEN text
    ELSE {[r EXCEPT !.who = d] : r \in text, d \in dids}

(* renderStepUpBaseline: every agent may do anything with a cosigner.       *)
Baseline(a) == [effect |-> "permit", who |-> a, what |-> Anything,
                cosigned |-> TRUE]

(* A policy that is mapped to no agent is left out.                         *)
RenderPolicies(b) ==
    LET dids(p) == {a \in GrantAgents : <<a, p>> \in b.mapped}
    IN  UNION {ScopeToAgents(b.policies[p], dids(p)) :
                  p \in {q \in Policies : dids(q) # {}}}

Render(b) ==
    RenderPolicies(b)
    \cup {RenderGrant(grants[i]) : i \in b.grants}
    \cup {Baseline(a) : a \in b.stepUp}

-----------------------------------------------------------------------------
(* authorize                                                                *)

Matches(rule, a, r, cosigner) ==
    /\ rule.who \in {a, Anyone}
    /\ rule.what \in {r, Anything}
    /\ rule.cosigned => cosigner

(* Cedar: some permit and no forbid.                                        *)
Permitted(rules, a, r, cosigner) ==
    LET hits == {x \in rules : Matches(x, a, r, cosigner)}
    IN  hits # {} /\ \A x \in hits : x.effect = "permit"

(* The gates for the agents the bundle knows, then Cedar, then Cedar again   *)
(* with a cosigner.                                                          *)
Authorize(b, a, r) ==
    LET meta == b.agents[a]
        known == meta.status # "none"
    IN  IF known /\ meta.mode = "static" /\ ~meta.approved
        THEN "agent_not_connected"
        ELSE IF known /\ meta.status # "active" THEN "agent_disabled"
        ELSE IF Permitted(Render(b), a, r, FALSE) THEN "allow"
        ELSE IF Permitted(Render(b), a, r, TRUE) THEN "step_up_required"
        ELSE "policy_denied"

-----------------------------------------------------------------------------
(* Changes                                                                  *)

Reading == start # NoAnswers /\ ~Whole(bundle)

Commit ==
    /\ Reading => commits < MaxOvertaken
    /\ commits' = IF start = NoAnswers THEN 0 ELSE commits + 1

Edit == edits' = edits + 1 /\ Commit /\ UNCHANGED <<tx, pdp>>

(* agents.create, in the mode of the column's default.                      *)
CreateAgent(a, requireApproval) ==
    /\ agents[a].status = "none"
    /\ agents' = [agents EXCEPT ![a] = [status |-> "active", mode |-> "static",
                                        approved |-> ~requireApproval]]
    /\ Edit /\ UNCHANGED <<policies, mapped, grants>>

ApproveConnection(a) ==
    /\ agents[a].status # "none"
    /\ agents' = [agents EXCEPT ![a].approved = TRUE]
    /\ Edit /\ UNCHANGED <<policies, mapped, grants>>

(* update, denyConnection and delete: none asks for the status there was.   *)
SetStatus(a, status) ==
    /\ agents[a].status \notin {"none", status}
    /\ agents' = [agents EXCEPT ![a].status = status]
    /\ Edit /\ UNCHANGED <<policies, mapped, grants>>

SetMode(a, mode) ==
    /\ agents[a].status # "none" /\ agents[a].mode # mode
    /\ agents' = [agents EXCEPT ![a].mode = mode]
    /\ Edit /\ UNCHANGED <<policies, mapped, grants>>

UpsertPolicy(p, text) ==
    /\ policies[p] # text
    /\ policies' = [policies EXCEPT ![p] = text]
    /\ Edit /\ UNCHANGED <<agents, mapped, grants>>

(* assignAgents and assignPolicies.                                         *)
Assign(a, p) ==
    /\ agents[a].status # "none" /\ policies[p] # {}
    /\ mapped' = mapped \cup {<<a, p>>}
    /\ Edit /\ UNCHANGED <<agents, policies, grants>>

Unassign(a, p) ==
    /\ <<a, p>> \in mapped
    /\ mapped' = mapped \ {<<a, p>>}
    /\ Edit /\ UNCHANGED <<agents, policies, grants>>

(* stepup.approve with persistAsPolicy: a new row and its mapping, in one    *)
(* transaction.                                                              *)
PersistInPlace(a, p, text) ==
    /\ agents[a].status # "none"
    /\ policies' = [policies EXCEPT ![p] = text]
    /\ mapped' = mapped \cup {<<a, p>>}
    /\ Edit /\ UNCHANGED <<agents, grants>>

PersistAsPolicy(a, p, text) ==
    /\ agents[a].status # "none" /\ policies[p] = {}
    /\ policies' = [policies EXCEPT ![p] = text]
    /\ mapped' = mapped \cup {<<a, p>>}
    /\ Edit /\ UNCHANGED <<agents, grants>>

(* grants.revoke.                                                           *)
RevokeGrant(i) ==
    /\ i \in DOMAIN grants /\ ~grants[i].revoked
    /\ \A s \in Sessions : i \notin Holds(s)
    /\ grants' = [grants EXCEPT ![i].revoked = TRUE]
    /\ Edit /\ UNCHANGED <<agents, policies, mapped>>

-----------------------------------------------------------------------------
(* upsertGrant: SELECT, UPDATE and INSERT in one READ COMMITTED transaction  *)

Begin(s, a, what, decision, snippet) ==
    /\ tx[s].pc = "idle" /\ edits' = edits + 1
    /\ Len(grants) + Cardinality({u \in Sessions : tx[u].pc # "idle"}) < MaxGrants
    /\ agents[a].status # "none"
    /\ tx' = [tx EXCEPT ![s] = [pc |-> "select", agent |-> a, what |-> what,
                                decision |-> decision, snippet |-> snippet,
                                supersedes |-> {}, overtaken |-> FALSE]]
    /\ UNCHANGED <<tables, pdp, commits>>

(* stepup.approve with remember: the variant the operator picked, or the     *)
(* preview.                                                                  *)
RememberAllow(s, a, what, variant) == Begin(s, a, what, "allow", Preview(variant))

(* stepup.deny with remember.                                               *)
RememberDeny(s, a, what) == Begin(s, a, what, "deny", Preview(what))

(* grants.toggle: the opposite of the active row it has read.               *)
Toggle(s, i) ==
    /\ i \in DOMAIN grants /\ ~grants[i].revoked
    /\ Begin(s, grants[i].agent, grants[i].what,
             IF grants[i].decision = "allow" THEN "deny" ELSE "allow",
             Preview(grants[i].what))

(* Without an active row there is nothing to supersede.                     *)
TxSelect(s) ==
    /\ tx[s].pc = "select"
    /\ tx' = [tx EXCEPT ![s].pc = IF Active(tx[s].agent) = {} THEN "insert"
                                  ELSE "update"]
    /\ UNCHANGED <<tables, pdp, commits, edits>>

(* The UPDATE finds the rows that are active when it begins ...             *)
TxUpdateCommitted(s) ==
    /\ tx[s].pc = "update"
    /\ grants' = [i \in DOMAIN grants |->
                    [grants[i] EXCEPT !.revoked = @ \/ i \in Active(tx[s].agent)]]
    /\ tx' = [tx EXCEPT ![s].pc = "insert"]
    /\ Commit /\ UNCHANGED <<agents, policies, mapped, pdp, edits>>

TxUpdateSameDecision(s) ==
    /\ tx[s].pc = "update"
    /\ tx' = [tx EXCEPT ![s].pc = "waiting",
                        ![s].supersedes = {i \in Active(tx[s].agent) :
                                              grants[i].decision = tx[s].decision}]
    /\ UNCHANGED <<tables, pdp, commits, edits>>

TxUpdate(s) ==
    /\ tx[s].pc = "update"
    /\ tx' = [tx EXCEPT ![s].pc = "waiting",
                        ![s].supersedes = Active(tx[s].agent)]
    /\ UNCHANGED <<tables, pdp, commits, edits>>

(* ... and waits for a transaction that holds one of them.  Of those rows it *)
(* then leaves out the ones that are revoked by now; a row that was inserted *)
(* meanwhile it does not see.  Its effect shows at the commit.               *)
TxLock(s) ==
    /\ tx[s].pc = "waiting"
    /\ \A u \in Sessions \ {s} : Holds(u) \cap tx[s].supersedes = {}
    /\ tx' = [tx EXCEPT ![s].pc = "insert",
                        ![s].supersedes = @ \cap Active(tx[s].agent)]
    /\ UNCHANGED <<tables, pdp, commits, edits>>

(* Those that have looked for active rows of the agent before.              *)
Overtakes(s, u) == tx[u].pc \in {"waiting", "insert"} /\ tx[u].agent = tx[s].agent

(* The INSERT and the COMMIT.                                               *)
TxInsert(s) ==
    /\ tx[s].pc = "insert"
    /\ grants' = Append([i \in DOMAIN grants |->
                           [grants[i] EXCEPT !.revoked = @ \/ i \in tx[s].supersedes]],
                        [agent |-> tx[s].agent, what |-> tx[s].what,
                         decision |-> tx[s].decision, snippet |-> tx[s].snippet,
                         revoked |-> FALSE])
    /\ tx' = [u \in Sessions |->
                IF u = s THEN Idle
                ELSE [tx[u] EXCEPT !.overtaken = @ \/ Overtakes(s, u)]]
    /\ Commit /\ UNCHANGED <<agents, policies, mapped, pdp, edits>>

-----------------------------------------------------------------------------
(* The bundle                                                               *)

FetchBundle ==
    /\ ~Reading
    /\ bundle' = NoAnswers
    /\ start' = Snapshot
    /\ commits' = 0
    /\ UNCHANGED <<tables, tx, edits>>

(* Promise.all: the statements run on connections of their own.             *)
ReadPart(part) ==
    /\ Reading /\ bundle[part] = Missing
    /\ bundle' = [bundle EXCEPT ![part] = Snapshot[part]]
    /\ UNCHANGED <<tables, tx, start, commits, edits>>

-----------------------------------------------------------------------------

Decide(a) ==
    \/ \E yes \in BOOLEAN : CreateAgent(a, yes)
    \/ ApproveConnection(a)
    \/ \E status \in {"active", "disabled", "deleted"} : SetStatus(a, status)
    \/ \E mode \in {"static", "dynamic"} : SetMode(a, mode)
    \/ \E p \in Policies :
          \/ Assign(a, p) \/ Unassign(a, p)
          \/ \E text \in Texts : PersistAsPolicy(a, p, text)

Remember(s) ==
    \/ \E a \in GrantAgents, what \in GrantScopes :
          \/ RememberDeny(s, a, what)
          \/ \E variant \in {what, Anything} : RememberAllow(s, a, what, variant)
    \/ \E i \in DOMAIN grants : Toggle(s, i)

GrantNext ==
    \/ /\ edits < MaxEdits
       /\ \/ \E a \in GrantAgents : Decide(a)
          \/ \E p \in Policies, text \in Texts : UpsertPolicy(p, text)
          \/ \E i \in DOMAIN grants : RevokeGrant(i)
          \/ \E s \in Sessions : Remember(s)
    \/ \E s \in Sessions : TxSelect(s) \/ TxUpdate(s) \/ TxLock(s) \/ TxInsert(s)
    \/ FetchBundle
    \/ \E part \in Parts : ReadPart(part)

GrantSpec == GrantInit /\ [][GrantNext]_grantVars

-----------------------------------------------------------------------------
(* Properties                                                               *)

(* The statements of one bundle see different moments.  If at most one       *)
(* change is committed in between, the PDP allows what it would have allowed *)
(* before the change or would allow after it - but for an agent that is      *)
(* deleted or restored by it: its row may be read on the one side and the    *)
(* forbid rules mapped to it on the other.                                   *)
TornBundleDecides ==
    Whole(bundle) /\ commits <= 1 =>
        \A a \in GrantAgents, r \in GrantResources :
            LET allowed(b) == Authorize(b, a, r) = "allow"
                deleted(b) == b.agents[a].status = "deleted"
            IN  deleted(start) = deleted(Snapshot) =>
                    allowed(bundle) \in {allowed(start), allowed(Snapshot)}

(* upsertGrant: "the old row is marked revoked and a new row is inserted".   *)
(* However transactions overlap, no reader finds an agent whose grant was    *)
(* superseded without one: only grants.revoke takes the last active grant    *)
(* of an agent.                                                              *)
GrantLostByHandOnly ==
    [][\A a \in GrantAgents :
          Active(a) # {} /\ Active(a)' = {} =>
              /\ Cardinality(Active(a)) = 1
              /\ Len(grants') = Len(grants)
              /\ tx' = tx]_grantVars

(* "Their unmapped commands still deny via empty policy coverage and route   *)
(* through step-up": an agent that may call at all and was there when the    *)
(* bundle was begun is allowed or asked for an approval, unless a forbid     *)
(* rule speaks about its call.                                               *)
AlwaysMayAsk ==
    Whole(bundle) =>
        \A a \in GrantAgents, r \in GrantResources :
            /\ start.agents[a].status # "none"
            /\ Authorize(bundle, a, r) = "policy_denied"
            =>
                \E x \in Render(bundle) :
                    x.effect = "forbid" /\ Matches(x, a, r, TRUE)

(* "write a deny grant so future identical requests are auto-denied without  *)
(* prompting": a deny grant that was active before the bundle was begun, and *)
(* is in it, denies.                                                         *)
RememberedDenyDenies ==
    Whole(bundle) =>
        \A i \in start.grants \cap bundle.grants, r \in GrantResources :
            grants[i].decision = "deny" /\ grants[i].what \in {r, Anything} =>
                Authorize(bundle, grants[i].agent, r) # "allow"

(* "At most one active grant is allowed per tuple - a fresh decision          *)
(* supersedes the prior row": however decisions, toggles and revocations      *)
(* follow each other, a new grant is the agent's only active one, unless the  *)
(* transaction that inserts it was overtaken by another's between its look at *)
(* the active rows and its commit.                                            *)
DuplicatesByOverlapOnly ==
    [][\A a \in GrantAgents :
          (\E i \in Active(a)' : i \notin Active(a)) /\ Cardinality(Active(a)') # 1 =>
              \E s \in Sessions :
                  /\ tx[s].agent = a /\ tx[s].overtaken
                  /\ tx'[s] = Idle]_grantVars

=============================================================================
