----------------------------- MODULE Delegation -----------------------------
(***************************************************************************)
(* UCANs and their delegation: the control plane mints root UCANs for agents *)
(* and, for an agent that presents a chain, child UCANs signed with that     *)
(* agent's key; the PDP decides on any chain of them that it is presented.   *)
(*                                                                          *)
(* Commands and resource scopes are sequences of names from the general to   *)
(* the special: /github/issue, or an owner, a repository and a pull request. *)
(* Granting one grants all that it is a prefix of.  UCANs are numbered in    *)
(* the order of their issue; the number stands for the CID.                  *)
(***************************************************************************)
EXTENDS Integers, SequencesExt

CONSTANTS
    Agents,
    Platform,       \* the control plane's signing DID, the PDP's trust anchor
    Commands,       \* the commands that UCANs grant and requests name
    Scopes,         \* the resource constraints
    NoScope,        \* no resource constraint
    Resources,      \* the resources of requests
    Ttls,           \* the lifetimes asked for
    Depth,          \* NOMOS_MAX_CHAIN_DEPTH, of the control plane and the PDP
    MaxTime,        \* bound: the clock
    MaxUcans,       \* bound: the UCANs issued
    MaxRevoked      \* bound: the UCANs revoked

ASSUME NamesAssumption ==
    /\ Platform \notin Agents
    /\ NoScope \notin Scopes
    /\ Commands \cup Scopes \cup Resources \subseteq Seq(STRING)

ASSUME NumbersAssumption ==
    /\ Ttls \subseteq Nat \ {0}
    /\ Depth \in Nat \ {0}
    /\ {MaxTime, MaxUcans, MaxRevoked} \subseteq Nat

VARIABLES
    now,
    ucans,      \* ucan_issues, in order
    revoked     \* the PDP's set of revoked CIDs

vars == <<now, ucans, revoked>>

Ucans ==
    [iss : Agents \cup {Platform}, aud : Agents, cmd : Commands,
     scope : Scopes \cup {NoScope}, nbf : Int, exp : Nat, prf : Nat]

TypeOK ==
    /\ now \in 0 .. MaxTime
    /\ ucans \in Seq(Ucans) /\ Len(ucans) <= MaxUcans
    /\ revoked \subseteq DOMAIN ucans
    /\ \A i \in DOMAIN ucans :
          IF ucans[i].iss = Platform THEN ucans[i].prf = 0 ELSE ucans[i].prf \in 1 .. (i - 1)

Init == now = 0 /\ ucans = <<>> /\ revoked = {}

-----------------------------------------------------------------------------
(* validateChain                                                            *)

Leaf(chain) == ucans[chain[Len(chain)]]

(* validateUcan, as far as time goes; signatures are taken to verify.       *)
InTime(u) == u.nbf <= now /\ now < u.exp

(* The scope the child is compared with: its own or its parent's.           *)
ScopeNarrows(parent, child) ==
    parent.scope # NoScope /\ child.scope # NoScope => IsPrefix(parent.scope, child.scope)

AttenuatesAnyCommand(parent, child) ==
    /\ child.iss = parent.aud
    /\ child.exp <= parent.exp
    /\ child.nbf >= parent.nbf
    /\ ScopeNarrows(parent, child)

Attenuates(parent, child) ==
    /\ child.iss = parent.aud
    /\ IsPrefix(parent.cmd, child.cmd)
    /\ child.exp <= parent.exp
    /\ child.nbf >= parent.nbf
    /\ ScopeNarrows(parent, child)

ValidChain(chain) ==
    /\ \A k \in DOMAIN chain : InTime(ucans[chain[k]])
    /\ \A k \in 1 .. (Len(chain) - 1) : Attenuates(ucans[chain[k]], ucans[chain[k + 1]])

-----------------------------------------------------------------------------
(* decide, up to the Cedar policies                                         *)

Allowed(chain, cmd, resource) ==
    /\ Len(chain) <= Depth
    /\ ValidChain(chain)
    /\ IsPrefix(Leaf(chain).cmd, cmd)
    /\ ucans[chain[1]].iss = Platform
    /\ ToSet(chain) \cap revoked = {}
    /\ Leaf(chain).scope # NoScope => IsPrefix(Leaf(chain).scope, resource)

-----------------------------------------------------------------------------
(* Minting and revoking                                                     *)

(* mintUcan: a root.                                                        *)
Mint(agent, cmd, scope, ttl) ==
    /\ ucans' = Append(ucans, [iss |-> Platform, aud |-> agent, cmd |-> cmd, scope |-> scope,
                               nbf |-> now - 1, exp |-> now + ttl, prf |-> 0])
    /\ UNCHANGED <<now, revoked>>

(* What a caller presents: any chain of UCANs, in any order, from a root or  *)
(* not.                                                                      *)
Presented == BoundedSeq(DOMAIN ucans, Depth) \ {<<>>}

(* The child's payload; it cites the chain's leaf as its proof.             *)
ChildOf(chain, child, cmd, scope, ttl) ==
    [iss |-> Leaf(chain).aud, aud |-> child, cmd |-> cmd, scope |-> scope,
     nbf |-> IF Leaf(chain).nbf > now - 1 THEN Leaf(chain).nbf ELSE now - 1,
     exp |-> now + ttl, prf |-> Last(chain)]

FitsAlways(chain, ttl) == TRUE
Fits(chain, ttl) == now + ttl <= Leaf(chain).exp

(* mintChildUcan, for the agent that the chain's leaf was issued to.        *)
MintChild(chain, child, cmd, scope, ttl) ==
    /\ ValidChain(chain)
    /\ Len(chain) + 1 <= Depth
    /\ IsPrefix(Leaf(chain).cmd, cmd)
    /\ Fits(chain, ttl)
    /\ ScopeNarrows(Leaf(chain), [scope |-> scope])
    /\ ucans' = Append(ucans, ChildOf(chain, child, cmd, scope, ttl))
    /\ UNCHANGED <<now, revoked>>

(* A revocation that has reached the PDP.                                   *)
Revoke(i) ==
    /\ Cardinality(revoked) < MaxRevoked
    /\ revoked' = revoked \cup {i}
    /\ UNCHANGED <<now, ucans>>

Tick ==
    /\ now < MaxTime
    /\ now' = now + 1
    /\ UNCHANGED <<ucans, revoked>>

-----------------------------------------------------------------------------

Next ==
    \/ /\ Len(ucans) < MaxUcans
       /\ \/ \E agent \in Agents, cmd \in Commands, scope \in Scopes \cup {NoScope},
                ttl \in Ttls :
                Mint(agent, cmd, scope, ttl)
          \/ \E chain \in Presented, child \in Agents, cmd \in Commands,
                scope \in Scopes \cup {NoScope}, ttl \in Ttls :
                MintChild(chain, child, cmd, scope, ttl)
    \/ \E i \in DOMAIN ucans \ revoked : Revoke(i)
    \/ Tick

Spec == Init /\ [][Next]_vars

-----------------------------------------------------------------------------
(* Properties                                                               *)

(* "every link can only attenuate; the leaf can never hold capabilities its  *)
(* root didn't grant": whatever is allowed with a chain is in the command of *)
(* each of its UCANs, and in the scope of each that no UCAN without a scope  *)
(* follows - however the chain is put together.                              *)
Contained ==
    \A chain \in Presented, cmd \in Commands, resource \in Resources :
        Allowed(chain, cmd, resource) =>
            \A k \in DOMAIN chain :
                /\ IsPrefix(ucans[chain[k]].cmd, cmd)
                /\ (\A m \in k .. Len(chain) : ucans[chain[m]].scope # NoScope)
                       => IsPrefix(ucans[chain[k]].scope, resource)

(* "child without constraint inherits parent constraint": the resource is in *)
(* the scope of every UCAN of the chain that has one.                        *)
ScopeContained ==
    \A chain \in Presented, cmd \in Commands, resource \in Resources :
        Allowed(chain, cmd, resource) =>
            \A k \in DOMAIN chain :
                ucans[chain[k]].scope # NoScope => IsPrefix(ucans[chain[k]].scope, resource)

(* A UCAN with those it was minted under, the root first.                   *)
Line[i \in Nat] ==
    IF i \notin DOMAIN ucans THEN <<>> ELSE Append(Line[ucans[i].prf], i)

(* What the control plane mints the PDP accepts: a UCAN under the ones that  *)
(* it cites serves its command until it expires or one of them is revoked.   *)
MintedIsUsable ==
    \A i \in DOMAIN ucans, resource \in Resources :
        /\ now < ucans[i].exp
        /\ Len(Line[i]) <= Depth
        /\ ToSet(Line[i]) \cap revoked = {}
        /\ ucans[i].scope # NoScope => IsPrefix(ucans[i].scope, resource)
        => Allowed(Line[i], ucans[i].cmd, resource)

=============================================================================
