------------------------------- MODULE Members -------------------------------
(***************************************************************************)
(* The members of one organization and the invites to it: role changes,      *)
(* removals, invites, revocations of invites and their acceptance, as the    *)
(* dashboard's requests make them, several at a time and each in separate    *)
(* statements without a transaction.                                         *)
(*                                                                          *)
(* Roles other than owner and admin may read members and no more, so one of  *)
(* them stands for all.  A membership is told apart from an earlier one of   *)
(* the same user by the number of times that user joined.                    *)
(***************************************************************************)
EXTENDS Naturals, FiniteSets

CONSTANTS
    Users,
    Requests,       \* requests served at the same time
    Invites,        \* rows that org_invites may get
    Offered,        \* roles that invites are sent for
    MaxJoins        \* bound on the times a user joins

ASSUME MembersAssumption ==
    /\ IsFiniteSet(Users) /\ IsFiniteSet(Requests)
    /\ Users # {} /\ Invites # {}
    /\ Offered \subseteq {"admin", "member"}
    /\ MaxJoins \in Nat \ {0}

VARIABLES
    roles,          \* memberships: the role of each user, "none" without one
    joins,          \* how often each user was given a membership
    invites,        \* org_invites
    requests,       \* requests under way
    uses,           \* memberships each invite brought
    failures        \* accepts of each invite that failed half-way

membersVars == <<roles, joins, invites, requests, uses, failures>>

-----------------------------------------------------------------------------
(* State                                                                    *)

Managers == {"owner", "admin"}
Roles == Managers \cup {"member"}

(* A revoked invite and an expired one are closed.                          *)
InviteStates == [state : {"none", "pending", "accepted", "closed"},
                 user : Users, role : {"admin", "member"}]

RequestStates ==
    [pc : {"idle", "select", "count", "write", "insert", "find", "join", "mark"},
     user : Users, role : Roles \cup {"none"}, row : 0 .. MaxJoins,
     invite : Invites, overtaken : BOOLEAN]

MembersTypeOK ==
    /\ roles \in [Users -> Roles \cup {"none"}]
    /\ joins \in [Users -> 0 .. MaxJoins]
    /\ invites \in [Invites -> InviteStates]
    /\ requests \in [Requests -> RequestStates]
    /\ uses \in [Invites -> Nat]
    /\ failures \in [Invites -> Nat]

Owners == {u \in Users : roles[u] = "owner"}

SomeUser == CHOOSE u \in Users : TRUE
SomeInvite == CHOOSE i \in Invites : TRUE

NoRequest == [pc |-> "idle", user |-> SomeUser, role |-> "none", row |-> 0,
              invite |-> SomeInvite, overtaken |-> FALSE]

NoInvite == [state |-> "none", user |-> SomeUser, role |-> "member"]

(* An organization starts with the user it was created for as its owner;     *)
(* the others may have joined before.                                        *)
MembersInit ==
    /\ roles \in [Users -> Roles \cup {"none"}]
    /\ Owners # {}
    /\ joins = [u \in Users |-> IF roles[u] = "none" THEN 0 ELSE 1]
    /\ invites = [i \in Invites |-> NoInvite]
    /\ requests = [q \in Requests |-> NoRequest]
    /\ uses = [i \in Invites |-> 0]
    /\ failures = [i \in Invites |-> 0]

-----------------------------------------------------------------------------
(* Requests                                                                 *)

(* withPermission: what the caller's role was when the context was made.    *)
MayManage(caller) == roles[caller] \in Managers

Begins(q, request) ==
    /\ requests[q].pc = "idle"
    /\ requests' = [requests EXCEPT ![q] = request]

Ends(q) == requests' = [requests EXCEPT ![q] = NoRequest]

At(q, pc) == requests[q].pc = pc

Proceeds(q, pc) == requests' = [requests EXCEPT ![q].pc = pc]

(* The membership a request is about.                                       *)
IsThere(q) ==
    LET u == requests[q].user IN roles[u] # "none" /\ joins[u] = requests[q].row

(* The others that looked at the members have not seen this.                *)
Overtakes(q) ==
    requests' = [r \in Requests |-> IF r = q THEN NoRequest
        ELSE [requests[r] EXCEPT !.overtaken = requests[r].pc \in {"count", "write"}]]

-----------------------------------------------------------------------------
(* members.changeRole and members.remove                                    *)

(* remove refuses the caller's own membership; "none" stands for it.        *)
ChangeRole(q, caller, u, role) ==
    /\ MayManage(caller)
    /\ roles[u] # "none"
    /\ role = "none" => caller # u
    /\ Begins(q, [NoRequest EXCEPT !.pc = "select", !.user = u, !.role = role,
                                   !.row = joins[u]])
    /\ UNCHANGED <<roles, joins, invites, uses, failures>>

(* Only taking the role away from an owner needs a count of them.           *)
SelectMember(q) ==
    /\ At(q, "select")
    /\ IF ~IsThere(q) THEN Ends(q)
       ELSE IF roles[requests[q].user] = "owner" /\ requests[q].role # "owner"
       THEN Proceeds(q, "count") ELSE Proceeds(q, "write")
    /\ UNCHANGED <<roles, joins, invites, uses, failures>>

(* counts the members instead of the owners *)
CountMembers(q) ==
    /\ At(q, "count")
    /\ IF Cardinality({u \in Users : roles[u] # "none"}) <= 1 THEN Ends(q)
       ELSE Proceeds(q, "write")
    /\ UNCHANGED <<roles, joins, invites, uses, failures>>

(* "cannot demote the last owner".                                          *)
CountOwners(q) ==
    /\ At(q, "count")
    /\ IF Cardinality(Owners) <= 1 THEN Ends(q) ELSE Proceeds(q, "write")
    /\ UNCHANGED <<roles, joins, invites, uses, failures>>

(* One row by its id, whatever its role by now.                             *)
WriteMember(q) ==
    /\ At(q, "write")
    /\ IF IsThere(q) THEN roles' = [roles EXCEPT ![requests[q].user] = requests[q].role]
       ELSE UNCHANGED roles
    /\ IF Owners' # Owners THEN Overtakes(q) ELSE Ends(q)
    /\ UNCHANGED <<joins, invites, uses, failures>>

-----------------------------------------------------------------------------
(* Invites                                                                  *)

(* No pending invite for the same address, ...                              *)
Invite(q, caller, u, role) ==
    /\ MayManage(caller)
    /\ \A i \in Invites : ~(invites[i].state = "pending" /\ invites[i].user = u)
    /\ Begins(q, [NoRequest EXCEPT !.pc = "insert", !.user = u, !.role = role])
    /\ UNCHANGED <<roles, joins, invites, uses, failures>>

(* ... and then a row: no index keeps two pending ones apart.               *)
InsertInvite(q) ==
    /\ At(q, "insert")
    /\ \E i \in Invites :
          /\ invites[i].state = "none"
          /\ invites' = [invites EXCEPT ![i] =
                [state |-> "pending", user |-> requests[q].user, role |-> requests[q].role]]
    /\ Ends(q)
    /\ UNCHANGED <<roles, joins, uses, failures>>

(* invites.revoke, in one statement.                                        *)
RevokeInvite(i) ==
    /\ invites[i].state = "pending"
    /\ \E caller \in Users : MayManage(caller)
    /\ invites' = [invites EXCEPT ![i].state = "closed"]
    /\ UNCHANGED <<roles, joins, requests, uses, failures>>

InviteExpires(i) ==
    /\ invites[i].state = "pending"
    /\ invites' = [invites EXCEPT ![i].state = "closed"]
    /\ UNCHANGED <<roles, joins, requests, uses, failures>>

(* takes an invite that was accepted *)
AcceptAgain(q, i) ==
    /\ invites[i].state \in {"pending", "accepted"}
    /\ Begins(q, [NoRequest EXCEPT !.pc = "find", !.user = invites[i].user, !.invite = i])
    /\ UNCHANGED <<roles, joins, invites, uses, failures>>

(* invites.accept by the user it was sent to: the row is read once.         *)
Accept(q, i) ==
    /\ invites[i].state = "pending"
    /\ Begins(q, [NoRequest EXCEPT !.pc = "find", !.user = invites[i].user, !.invite = i])
    /\ UNCHANGED <<roles, joins, invites, uses, failures>>

FindMember(q) ==
    /\ At(q, "find")
    /\ IF roles[requests[q].user] = "none" THEN Proceeds(q, "join") ELSE Proceeds(q, "mark")
    /\ UNCHANGED <<roles, joins, invites, uses, failures>>

(* memberships_user_customer_idx refuses a second membership.               *)
Join(q) ==
    /\ At(q, "join")
    /\ LET u == requests[q].user
           i == requests[q].invite
       IN  IF roles[u] # "none"
           THEN /\ Ends(q)
                /\ UNCHANGED <<roles, joins, uses>>
           ELSE /\ joins[u] < MaxJoins
                /\ roles' = [roles EXCEPT ![u] = invites[i].role]
                /\ joins' = [joins EXCEPT ![u] = @ + 1]
                /\ uses' = [uses EXCEPT ![i] = @ + 1]
                /\ Proceeds(q, "mark")
    /\ UNCHANGED <<invites, failures>>

(* acceptedAt, whatever became of the invite.                               *)
MarkAccepted(q) ==
    /\ At(q, "mark")
    /\ invites' = [invites EXCEPT ![requests[q].invite].state = "accepted"]
    /\ Ends(q)
    /\ UNCHANGED <<roles, joins, uses, failures>>

(* The process or the database fails between the two statements.            *)
AcceptFails(q) ==
    /\ At(q, "mark")
    /\ failures[requests[q].invite] = 0
    /\ failures' = [failures EXCEPT ![requests[q].invite] = 1]
    /\ Ends(q)
    /\ UNCHANGED <<roles, joins, invites, uses>>

-----------------------------------------------------------------------------

MembersNext ==
    \/ \E q \in Requests :
          \/ \E caller, u \in Users :
                \/ \E role \in Roles \cup {"none"} : ChangeRole(q, caller, u, role)
                \/ \E role \in Offered : Invite(q, caller, u, role)
          \/ SelectMember(q) \/ CountOwners(q) \/ WriteMember(q)
          \/ InsertInvite(q)
          \/ \E i \in Invites : Accept(q, i)
          \/ FindMember(q) \/ Join(q) \/ MarkAccepted(q) \/ AcceptFails(q)
    \/ \E i \in Invites : RevokeInvite(i) \/ InviteExpires(i)

MembersSpec == MembersInit /\ [][MembersNext]_membersVars

-----------------------------------------------------------------------------
(* Properties                                                               *)

(* "promote another member first": an organization loses its last owner only *)
(* by a request that looked at the members before another one, under way at  *)
(* the same time, changed who owns it.                                       *)
OwnerLostByOverlapOnly ==
    [][Owners # {} /\ Owners' = {} =>
          \E q \in Requests : requests[q].overtaken /\ requests'[q].pc = "idle"]_membersVars

(* However often its link is opened and the user removed in between, an      *)
(* invite brings the user in no more often than accepts of it overlap or     *)
(* fail after they let the user in.                                          *)
InviteBringsOnce ==
    \A i \in Invites : uses[i] <= Cardinality(Requests) + failures[i]

=============================================================================
