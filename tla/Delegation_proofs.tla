------------------------- MODULE Delegation_proofs -------------------------
(***************************************************************************)
(* Proofs about Delegation for every set of agents, commands and scopes,     *)
(* every Depth and every number of UCANs.                                    *)
(***************************************************************************)
EXTENDS Delegation, SequenceTheorems, WellFoundedInduction, TLAPS

(* A child attenuates the UCAN it cites, from the mint on.                  *)
CitesAttenuate ==
    \A i \in DOMAIN ucans :
        ucans[i].prf # 0 => Attenuates(ucans[ucans[i].prf], ucans[i])

-----------------------------------------------------------------------------
(* Names                                                                    *)

(* A prefix, read name by name.                                             *)
LEMMA PrefixIsPointwise ==
    ASSUME NEW s \in Seq(STRING), NEW t \in Seq(STRING)
    PROVE  IsPrefix(s, t) <=>
             Len(s) <= Len(t) /\ \A k \in 1 .. Len(s) : s[k] = t[k]
<1>1. ASSUME Len(s) <= Len(t)
      PROVE  /\ SubSeq(s, 1, Len(s)) = [k \in 1 .. Len(s) |-> s[k]]
             /\ SubSeq(t, 1, Len(s)) = [k \in 1 .. Len(s) |-> t[k]]
  BY <1>1, LenProperties
<1> QED
  BY <1>1 DEF IsPrefix

(* What a grant's grant contains the grant contains.                        *)
LEMMA PrefixTransitive ==
    ASSUME NEW r \in Seq(STRING), NEW s \in Seq(STRING), NEW t \in Seq(STRING),
           IsPrefix(r, s), IsPrefix(s, t)
    PROVE  IsPrefix(r, t)
<1>1. /\ Len(r) \in Nat /\ Len(s) \in Nat /\ Len(t) \in Nat
      /\ Len(r) <= Len(s) /\ \A k \in 1 .. Len(r) : r[k] = s[k]
      /\ Len(s) <= Len(t) /\ \A k \in 1 .. Len(s) : s[k] = t[k]
  BY PrefixIsPointwise
<1> QED
  BY <1>1, PrefixIsPointwise

(* A set of numbers that is not empty has a least one.                      *)
LEMMA LeastNat ==
    ASSUME NEW T, T \subseteq Nat, T # {}
    PROVE  \E m \in T : \A n \in T : ~ (n < m)
<1>1. PICK m \in T : \A n \in T : ~ (<<n, m>> \in OpToRel(<, Nat))
  BY NatLessThanWellFounded, WFMin, Zenon
<1> QED
  BY <1>1 DEF OpToRel

-----------------------------------------------------------------------------
(* Issued UCANs keep their shape                                            *)

(* Minting touches no UCAN that was issued before.                          *)
LEMMA AppendKeeps ==
    ASSUME TypeOK, NEW u \in Ucans, ucans' = Append(ucans, u)
    PROVE  /\ ucans' \in Seq(Ucans)
           /\ DOMAIN ucans = 1 .. Len(ucans) /\ Len(ucans) \in Nat
           /\ DOMAIN ucans' = 1 .. (Len(ucans) + 1) /\ Len(ucans') = Len(ucans) + 1
           /\ \A i \in DOMAIN ucans : ucans'[i] = ucans[i]
           /\ ucans'[Len(ucans) + 1] = u
  BY DEF TypeOK

(* The leaf of what a caller presents is an issued UCAN.                    *)
LEMMA LeafIssued ==
    ASSUME TypeOK, NEW chain \in Presented
    PROVE  /\ Len(chain) \in 1 .. Depth
           /\ chain \in [1 .. Len(chain) -> DOMAIN ucans]
           /\ Last(chain) \in DOMAIN ucans
           /\ Leaf(chain) = ucans[Last(chain)]
           /\ Leaf(chain) \in Ucans
<1>1. PICK m \in 0 .. Depth : chain \in [1 .. m -> DOMAIN ucans]
  BY DEF Presented, BoundedSeq, SeqOf
<1>2. chain \in Seq(DOMAIN ucans) /\ Len(chain) = m
  BY <1>1, NumbersAssumption
<1>3. m # 0
  BY <1>1, <1>2 DEF Presented
<1>4. ucans \in [DOMAIN ucans -> Ucans]
  BY DEF TypeOK
<1> QED
  BY <1>1, <1>2, <1>3, <1>4 DEF Leaf, Last

(* The leaf of a chain and the child that is minted under it.               *)
LEMMA ChildTyped ==
    ASSUME TypeOK, NEW chain \in Presented, NEW child \in Agents, NEW cmd \in Commands,
           NEW scope \in Scopes \cup {NoScope}, NEW ttl \in Ttls
    PROVE  /\ ChildOf(chain, child, cmd, scope, ttl) \in Ucans
           /\ ChildOf(chain, child, cmd, scope, ttl).iss # Platform
           /\ ChildOf(chain, child, cmd, scope, ttl).prf \in 1 .. Len(ucans)
<1>1. /\ Last(chain) \in 1 .. Len(ucans) /\ Len(ucans) \in Nat
      /\ Leaf(chain) \in Ucans
  BY LeafIssued DEF TypeOK
<1>2. /\ Leaf(chain).aud \in Agents /\ Leaf(chain).nbf \in Int
      /\ now \in Nat /\ ttl \in Nat
  BY <1>1, NumbersAssumption DEF Ucans, TypeOK
<1> QED
  BY <1>1, <1>2, NamesAssumption DEF ChildOf, Ucans

(* Minting keeps the types.                                                 *)
LEMMA MintKeepsTypes ==
    ASSUME TypeOK, Len(ucans) < MaxUcans, NEW u \in Ucans, ucans' = Append(ucans, u),
           IF u.iss = Platform THEN u.prf = 0 ELSE u.prf \in 1 .. Len(ucans),
           UNCHANGED <<now, revoked>>
    PROVE  TypeOK'
<1>1. \A i \in DOMAIN ucans' :
         IF ucans'[i].iss = Platform THEN ucans'[i].prf = 0
         ELSE ucans'[i].prf \in 1 .. (i - 1)
  <2> SUFFICES ASSUME NEW i \in DOMAIN ucans'
               PROVE  IF ucans'[i].iss = Platform THEN ucans'[i].prf = 0
                      ELSE ucans'[i].prf \in 1 .. (i - 1)
    OBVIOUS
  <2>1. CASE i \in DOMAIN ucans
    BY <2>1, AppendKeeps DEF TypeOK
  <2>2. CASE i = Len(ucans) + 1
    <3>1. ucans'[i] = u /\ i - 1 = Len(ucans)
      BY <2>2, AppendKeeps
    <3> QED
      BY <3>1
  <2> QED
    BY <2>1, <2>2, AppendKeeps
<1> QED
  BY <1>1, AppendKeeps, NumbersAssumption DEF TypeOK

-----------------------------------------------------------------------------

(* Every issued UCAN has its fields, and one that an agent signed cites an   *)
(* earlier one, whatever the number of agents, chains and UCANs (mintUcan,   *)
(* mintChildUcan).                                                           *)
THEOREM DelegationTypeCorrect == Spec => []TypeOK
<1>1. Init => TypeOK
  BY NumbersAssumption DEF Init, TypeOK
<1>2. TypeOK /\ [Next]_vars => TypeOK'
  <2> SUFFICES ASSUME TypeOK, [Next]_vars
               PROVE  TypeOK'
    OBVIOUS
  <2>1. ASSUME NEW agent \in Agents, NEW cmd \in Commands,
               NEW scope \in Scopes \cup {NoScope}, NEW ttl \in Ttls,
               Len(ucans) < MaxUcans, Mint(agent, cmd, scope, ttl)
        PROVE  TypeOK'
    <3> DEFINE u == [iss |-> Platform, aud |-> agent, cmd |-> cmd, scope |-> scope,
                     nbf |-> now - 1, exp |-> now + ttl, prf |-> 0]
    <3>1. u \in Ucans
      BY NumbersAssumption DEF Ucans, TypeOK
    <3>2. u.iss = Platform /\ u.prf = 0
      OBVIOUS
    <3>3. Len(ucans) < MaxUcans /\ ucans' = Append(ucans, u) /\ UNCHANGED <<now, revoked>>
      BY <2>1 DEF Mint
    <3> HIDE DEF u
    <3> QED
      BY <3>1, <3>2, <3>3, MintKeepsTypes
  <2>2. ASSUME NEW chain \in Presented, NEW child \in Agents, NEW cmd \in Commands,
               NEW scope \in Scopes \cup {NoScope}, NEW ttl \in Ttls,
               Len(ucans) < MaxUcans, MintChild(chain, child, cmd, scope, ttl)
        PROVE  TypeOK'
    <3> DEFINE u == ChildOf(chain, child, cmd, scope, ttl)
    <3>1. u \in Ucans /\ u.iss # Platform /\ u.prf \in 1 .. Len(ucans)
      BY ChildTyped
    <3>2. Len(ucans) < MaxUcans /\ ucans' = Append(ucans, u) /\ UNCHANGED <<now, revoked>>
      BY <2>2 DEF MintChild
    <3> HIDE DEF u
    <3> QED
      BY <3>1, <3>2, MintKeepsTypes
  <2>3. ASSUME NEW i \in DOMAIN ucans \ revoked, Revoke(i)
        PROVE  TypeOK'
    BY <2>3 DEF Revoke, TypeOK
  <2>4. CASE Tick
    BY <2>4, NumbersAssumption DEF Tick, TypeOK
  <2>5. CASE UNCHANGED vars
    BY <2>5 DEF vars, TypeOK
  <2> QED
    BY <2>1, <2>2, <2>3, <2>4, <2>5 DEF Next
<1> QED
  BY <1>1, <1>2, PTL DEF Spec

(* Every UCAN that cites another attenuates it: the command is in the        *)
(* other's, the lifetime within the other's, the scope not wider, and the    *)
(* issuer is the other's audience (mintChildUcan).                           *)
THEOREM DelegationCitesAttenuate == Spec => []CitesAttenuate
<1>1. Init => CitesAttenuate
  BY DEF Init, CitesAttenuate
<1>2. TypeOK /\ CitesAttenuate /\ [Next]_vars => CitesAttenuate'
  <2> SUFFICES ASSUME TypeOK, CitesAttenuate, [Next]_vars
               PROVE  CitesAttenuate'
    OBVIOUS
  <2>1. ASSUME NEW u \in Ucans, ucans' = Append(ucans, u),
               u.prf # 0 => u.prf \in DOMAIN ucans /\ Attenuates(ucans[u.prf], u)
        PROVE  CitesAttenuate'
    <3> SUFFICES ASSUME NEW i \in DOMAIN ucans', ucans'[i].prf # 0
                 PROVE  Attenuates(ucans'[ucans'[i].prf], ucans'[i])
      BY DEF CitesAttenuate, Attenuates, ScopeNarrows
    <3>1. CASE i \in DOMAIN ucans
      <4>1. ucans'[i] = ucans[i]
        BY <2>1, <3>1, AppendKeeps
      <4>2. ucans[i].prf \in DOMAIN ucans
        BY <4>1, <3>1, AppendKeeps, <2>1 DEF TypeOK
      <4> QED
        BY <2>1, <3>1, <4>1, <4>2, AppendKeeps DEF CitesAttenuate
    <3>2. CASE i = Len(ucans) + 1
      <4>1. ucans'[i] = u
        BY <2>1, <3>2, AppendKeeps
      <4>2. u.prf \in DOMAIN ucans /\ ucans'[u.prf] = ucans[u.prf]
        BY <2>1, <4>1, AppendKeeps
      <4> QED
        BY <2>1, <4>1, <4>2
    <3>3. i \in DOMAIN ucans \/ i = Len(ucans) + 1
      BY <2>1, AppendKeeps
    <3> QED
      BY <3>1, <3>2, <3>3
  <2>2. ASSUME NEW agent \in Agents, NEW cmd \in Commands,
               NEW scope \in Scopes \cup {NoScope}, NEW ttl \in Ttls,
               Mint(agent, cmd, scope, ttl)
        PROVE  CitesAttenuate'
    <3> DEFINE u == [iss |-> Platform, aud |-> agent, cmd |-> cmd, scope |-> scope,
                     nbf |-> now - 1, exp |-> now + ttl, prf |-> 0]
    <3>1. u \in Ucans /\ u.prf = 0
      BY NumbersAssumption DEF Ucans, TypeOK
    <3>2. ucans' = Append(ucans, u)
      BY <2>2 DEF Mint
    <3> HIDE DEF u
    <3> QED
      BY <2>1, <3>1, <3>2
  <2>3. ASSUME NEW chain \in Presented, NEW child \in Agents, NEW cmd \in Commands,
               NEW scope \in Scopes \cup {NoScope}, NEW ttl \in Ttls,
               MintChild(chain, child, cmd, scope, ttl)
        PROVE  CitesAttenuate'
    <3> DEFINE u == ChildOf(chain, child, cmd, scope, ttl)
    <3>1. u \in Ucans
      BY ChildTyped
    <3>2. ucans' = Append(ucans, u)
      BY <2>3 DEF MintChild
    <3>3. u.prf = Last(chain) /\ Last(chain) \in DOMAIN ucans /\ ucans[u.prf] = Leaf(chain)
      BY LeafIssued DEF ChildOf
    <3>4. Attenuates(Leaf(chain), u)
      <4>1. /\ IsPrefix(Leaf(chain).cmd, cmd)
            /\ now + ttl <= Leaf(chain).exp
            /\ ScopeNarrows(Leaf(chain), [scope |-> scope])
        BY <2>3 DEF MintChild, Fits
      <4>2. Leaf(chain).nbf \in Int /\ now \in Int
        BY LeafIssued DEF Ucans, TypeOK
      <4> QED
        BY <4>1, <4>2 DEF Attenuates, ScopeNarrows, ChildOf
    <3> HIDE DEF u
    <3> QED
      BY <2>1, <3>1, <3>2, <3>3, <3>4
  <2>4. ASSUME NEW i \in DOMAIN ucans \ revoked, Revoke(i)
        PROVE  CitesAttenuate'
    BY <2>4 DEF Revoke, CitesAttenuate, Attenuates, ScopeNarrows
  <2>5. CASE Tick
    BY <2>5 DEF Tick, CitesAttenuate, Attenuates, ScopeNarrows
  <2>6. CASE UNCHANGED vars
    BY <2>6 DEF vars, CitesAttenuate, Attenuates, ScopeNarrows
  <2> QED
    BY <2>2, <2>3, <2>4, <2>5, <2>6 DEF Next
<1> QED
  BY <1>1, <1>2, DelegationTypeCorrect, PTL DEF Spec

-----------------------------------------------------------------------------
(* Chains                                                                   *)

(* The members of an allowed chain are issued UCANs, each attenuates the one *)
(* before, and the request is in the last one's command and scope.           *)
LEMMA AllowedChain ==
    ASSUME TypeOK, NEW chain \in Presented, NEW cmd \in Commands, NEW resource \in Resources,
           Allowed(chain, cmd, resource)
    PROVE  /\ Len(chain) \in Nat \ {0} /\ DOMAIN chain = 1 .. Len(chain)
           /\ \A k \in DOMAIN chain : ucans[chain[k]] \in Ucans
           /\ \A k \in 1 .. (Len(chain) - 1) :
                  Attenuates(ucans[chain[k]], ucans[chain[k + 1]])
           /\ IsPrefix(ucans[chain[Len(chain)]].cmd, cmd)
           /\ ucans[chain[Len(chain)]].scope # NoScope =>
                  IsPrefix(ucans[chain[Len(chain)]].scope, resource)
<1>1. ucans \in [DOMAIN ucans -> Ucans]
  BY DEF TypeOK
<1> QED
  BY <1>1, LeafIssued, NumbersAssumption DEF Allowed, ValidChain, Leaf

(* However a chain was put together, what the PDP allows with it is in the   *)
(* command of each of its UCANs, and in the scope of each that no UCAN       *)
(* without a scope follows (validateChain, decide).  The two steps go up the *)
(* chain from the leaf: the member nearest to the leaf that did not contain  *)
(* the request would be attenuated by one that does.                         *)
LEMMA AllowedIsContained ==
    ASSUME TypeOK
    PROVE  Contained
<1> SUFFICES ASSUME NEW chain \in Presented, NEW cmd \in Commands, NEW resource \in Resources,
                    Allowed(chain, cmd, resource)
             PROVE  \A k \in DOMAIN chain :
                      /\ IsPrefix(ucans[chain[k]].cmd, cmd)
                      /\ (\A m \in k .. Len(chain) : ucans[chain[m]].scope # NoScope)
                             => IsPrefix(ucans[chain[k]].scope, resource)
  BY DEF Contained
<1> DEFINE U(k) == ucans[chain[k]]
           Grants(k) ==
               /\ IsPrefix(U(k).cmd, cmd)
               /\ (\A m \in k .. Len(chain) : U(m).scope # NoScope)
                      => IsPrefix(U(k).scope, resource)
           T == {n \in 0 .. (Len(chain) - 1) : ~ Grants(Len(chain) - n)}
<1>1. /\ Len(chain) \in Nat \ {0} /\ DOMAIN chain = 1 .. Len(chain)
      /\ \A k \in 1 .. Len(chain) : U(k) \in Ucans
      /\ \A k \in 1 .. (Len(chain) - 1) : Attenuates(U(k), U(k + 1))
      /\ IsPrefix(U(Len(chain)).cmd, cmd)
      /\ U(Len(chain)).scope # NoScope => IsPrefix(U(Len(chain)).scope, resource)
  BY AllowedChain
<1>2. /\ cmd \in Seq(STRING) /\ resource \in Seq(STRING)
      /\ \A k \in 1 .. Len(chain) :
            /\ U(k).cmd \in Seq(STRING)
            /\ U(k).scope # NoScope => U(k).scope \in Seq(STRING)
  BY <1>1, NamesAssumption DEF Ucans
<1>3. Grants(Len(chain))
  BY <1>1
<1>4. ASSUME NEW k \in 1 .. (Len(chain) - 1), Grants(k + 1)
      PROVE  Grants(k)
  <2> HIDE DEF U
  <2>1. /\ k \in 1 .. Len(chain) /\ k + 1 \in 1 .. Len(chain)
        /\ IsPrefix(U(k).cmd, U(k + 1).cmd)
        /\ U(k).scope # NoScope /\ U(k + 1).scope # NoScope =>
              IsPrefix(U(k).scope, U(k + 1).scope)
    BY <1>1 DEF Attenuates, ScopeNarrows
  <2>2. IsPrefix(U(k).cmd, cmd)
    BY <1>2, <1>4, <2>1, PrefixTransitive
  <2>3. ASSUME \A m \in k .. Len(chain) : U(m).scope # NoScope
        PROVE  IsPrefix(U(k).scope, resource)
    <3>1. U(k).scope # NoScope /\ U(k + 1).scope # NoScope
      BY <1>1, <2>1, <2>3
    <3>2. IsPrefix(U(k + 1).scope, resource)
      BY <1>1, <1>4, <2>3
    <3> QED
      BY <1>2, <2>1, <3>1, <3>2, PrefixTransitive
  <2> QED
    BY <2>2, <2>3
<1>5. T = {}
  <2> SUFFICES ASSUME T # {}
               PROVE  FALSE
    OBVIOUS
  <2> HIDE DEF Grants
  <2>1. PICK n \in T : \A m \in T : ~ (m < n)
    <3>1. T \subseteq Nat
      BY <1>1
    <3> QED
      BY <3>1, LeastNat
  <2>2. n # 0 /\ n \in 1 .. (Len(chain) - 1)
    BY <1>1, <1>3, <2>1
  <2>3. n - 1 \notin T
    <3> SUFFICES ASSUME n - 1 \in T
                 PROVE  FALSE
      OBVIOUS
    <3>1. ~ (n - 1 < n)
      BY <2>1
    <3> QED
      BY <2>2, <3>1
  <2>4. Grants(Len(chain) - (n - 1))
    BY <1>1, <2>2, <2>3
  <2>5. Grants(Len(chain) - n)
    <3>1. /\ Len(chain) - n \in 1 .. (Len(chain) - 1)
          /\ (Len(chain) - n) + 1 = Len(chain) - (n - 1)
      BY <1>1, <2>2
    <3> QED
      BY <1>4, <2>4, <3>1
  <2> QED
    BY <2>1, <2>5
<1>6. \A k \in 1 .. Len(chain) : Grants(k)
  <2> SUFFICES ASSUME NEW k \in 1 .. Len(chain)
               PROVE  Grants(k)
    OBVIOUS
  <2> HIDE DEF Grants
  <2>1. Len(chain) - k \in 0 .. (Len(chain) - 1) /\ Len(chain) - (Len(chain) - k) = k
    BY <1>1
  <2> QED
    BY <1>5, <2>1
<1> QED
  BY <1>1, <1>6

(* Attenuation holds along every chain that is ever allowed.                *)
THEOREM DelegationContained == Spec => []Contained
<1>1. TypeOK => Contained
  BY AllowedIsContained
<1> QED
  BY <1>1, DelegationTypeCorrect, PTL


-----------------------------------------------------------------------------
(* Lines                                                                    *)

(* There is a function that solves the recursion of Line: one that solves it *)
(* for the first n numbers is extended by another one, since a UCAN cites an *)
(* earlier one.                                                              *)
LEMMA LineExists ==
    ASSUME TypeOK
    PROVE  \E line : line = [i \in Nat |-> IF i \notin DOMAIN ucans THEN <<>>
                                           ELSE Append(line[ucans[i].prf], i)]
<1> DEFINE Step(f, i) == IF i \notin DOMAIN ucans THEN <<>> ELSE Append(f[ucans[i].prf], i)
           Solves(f, n) == \A i \in 0 .. n : f[i] = Step(f, i)
           T == {n \in Nat : ~ \E f : Solves(f, n)}
<1>1. /\ Len(ucans) \in Nat /\ DOMAIN ucans = 1 .. Len(ucans)
      /\ \A i \in DOMAIN ucans : ucans[i].prf \in 0 .. (i - 1)
  <2>1. Len(ucans) \in Nat /\ DOMAIN ucans = 1 .. Len(ucans)
    BY DEF TypeOK
  <2> QED
    BY <2>1 DEF TypeOK
<1>2. \E f : Solves(f, 0)
  <2>1. Solves([i \in Nat |-> <<>>], 0)
    BY <1>1
  <2> HIDE DEF Solves
  <2> QED
    BY <2>1
<1>3. ASSUME NEW n \in Nat, NEW f, Solves(f, n)
      PROVE  \E g : Solves(g, n + 1)
  <2> DEFINE g == [i \in Nat |-> IF i = n + 1 THEN Step(f, i) ELSE f[i]]
  <2>1. ASSUME NEW i \in 0 .. (n + 1)
        PROVE  g[i] = Step(g, i)
    <3>1. Step(g, i) = Step(f, i)
      BY <1>1
    <3>2. CASE i = n + 1
      BY <3>1, <3>2
    <3>3. CASE i # n + 1
      <4>1. i \in 0 .. n /\ g[i] = f[i]
        BY <3>3
      <4> QED
        BY <1>3, <3>1, <4>1
    <3> QED
      BY <3>2, <3>3
  <2> HIDE DEF g, Step
  <2>2. Solves(g, n + 1)
    BY <2>1
  <2> HIDE DEF Solves
  <2> QED
    BY <2>2
<1>4. T = {}
  <2> SUFFICES ASSUME T # {}
               PROVE  FALSE
    OBVIOUS
  <2> HIDE DEF Solves
  <2>1. PICK n \in T : \A m \in T : ~ (m < n)
    BY LeastNat
  <2>2. n # 0 /\ n - 1 \in Nat /\ (n - 1) + 1 = n /\ n - 1 < n
    BY <1>2, <2>1
  <2>3. PICK f : Solves(f, n - 1)
    BY <2>1, <2>2
  <2>4. \E g : Solves(g, n)
    BY <1>3, <2>2, <2>3
  <2> QED
    BY <2>1, <2>4
<1>5. PICK f : Solves(f, Len(ucans))
  <2> HIDE DEF Solves
  <2> QED
    BY <1>1, <1>4
<1> DEFINE line == [i \in Nat |-> IF i \in DOMAIN ucans THEN f[i] ELSE <<>>]
<1>6. ASSUME NEW i \in Nat
      PROVE  line[i] = Step(line, i)
  <2>1. CASE i \notin DOMAIN ucans
    <3>1. line[i] = <<>> /\ Step(line, i) = <<>>
      <4> HIDE DEF Solves
      <4> QED
        BY <2>1, Zenon
    <3> QED
      BY <3>1
  <2>2. CASE i \in DOMAIN ucans
    <3>1. line[i] = f[i] /\ f[i] = Append(f[ucans[i].prf], i)
      <4>1. i \in 0 .. Len(ucans)
        BY <1>1, <2>2
      <4>2. f[i] = Step(f, i)
        BY <1>5, <4>1
      <4>3. line[i] = f[i]
        BY <2>2, Zenon
      <4>4. Step(f, i) = Append(f[ucans[i].prf], i)
        BY <2>2, Zenon
      <4> QED
        BY <4>2, <4>3, <4>4, Zenon
    <3>2. line[ucans[i].prf] = f[ucans[i].prf]
      <4>1. CASE ucans[i].prf \in DOMAIN ucans
        BY <1>1, <4>1
      <4>2. CASE ucans[i].prf = 0
        <5>1. f[0] = <<>> /\ line[0] = <<>>
          BY <1>1, <1>5
        <5> QED
          BY <4>2, <5>1
      <4> QED
        BY <1>1, <2>2, <4>1, <4>2
    <3> QED
      BY <2>2, <3>1, <3>2
  <2> QED
    BY <2>1, <2>2
<1>7. line = [i \in Nat |-> Step(line, i)]
  <2> HIDE DEF Step
  <2> QED
    BY <1>6
<1> HIDE DEF line
<1> QED
  BY <1>7

(* The recursion of Line, read at one UCAN.                                 *)
LEMMA LineIs ==
    ASSUME TypeOK, NEW i \in Nat
    PROVE  Line[i] = IF i \notin DOMAIN ucans THEN <<>> ELSE Append(Line[ucans[i].prf], i)
<1>1. Line = [j \in Nat |-> IF j \notin DOMAIN ucans THEN <<>>
                            ELSE Append(Line[ucans[j].prf], j)]
  BY LineExists DEF Line
<1> QED
  BY <1>1

(* A UCAN's line is a chain of issued UCANs from a root to it, in which each *)
(* attenuates the one before and none expires before the last.  The least    *)
(* UCAN whose line is not would cite an earlier one whose line is.           *)
LineSound(i) ==
    /\ Line[i] \in Seq(DOMAIN ucans)
    /\ Len(Line[i]) \in Nat \ {0}
    /\ Line[i][Len(Line[i])] = i
    /\ ucans[Line[i][1]].iss = Platform
    /\ \A k \in 1 .. (Len(Line[i]) - 1) :
          Attenuates(ucans[Line[i][k]], ucans[Line[i][k + 1]])
    /\ \A k \in 1 .. Len(Line[i]) : ucans[i].exp <= ucans[Line[i][k]].exp

LEMMA RootLineSound ==
    ASSUME TypeOK, NEW i \in DOMAIN ucans, ucans[i].prf = 0
    PROVE  LineSound(i)
<1>1. Len(ucans) \in Nat /\ DOMAIN ucans = 1 .. Len(ucans) /\ ucans[i] \in Ucans
  BY DEF TypeOK
<1>2. Line[0] = <<>>
  <2>1. 0 \in Nat /\ 0 \notin DOMAIN ucans
    BY <1>1
  <2> QED
    BY <2>1, LineIs, Zenon
<1>3. Line[i] = <<i>>
  <2>1. i \in Nat
    BY <1>1
  <2>2. Line[i] = Append(Line[0], i)
    BY <2>1, LineIs, Zenon
  <2> QED
    BY <1>2, <2>2
<1>4. ucans[i].iss = Platform
  BY DEF TypeOK
<1>5. ucans[i].exp \in Nat
  BY <1>1 DEF Ucans
<1> QED
  BY <1>3, <1>4, <1>5 DEF LineSound

LEMMA ChildLineSound ==
    ASSUME TypeOK, CitesAttenuate, NEW i \in DOMAIN ucans, NEW p \in DOMAIN ucans,
           ucans[i].prf = p, LineSound(p)
    PROVE  LineSound(i)
<1> DEFINE up == Line[p]
           line == Append(up, i)
           n == Len(up)
<1>1. /\ Len(ucans) \in Nat /\ DOMAIN ucans = 1 .. Len(ucans)
      /\ \A j \in DOMAIN ucans : ucans[j] \in Ucans
  BY DEF TypeOK
<1>2. Line[i] = line
  <2>1. i \in Nat
    BY <1>1
  <2> QED
    BY <2>1, LineIs, Zenon
<1>3. /\ up \in Seq(DOMAIN ucans) /\ n \in Nat \ {0} /\ up[n] = p
      /\ ucans[up[1]].iss = Platform
      /\ \A k \in 1 .. (n - 1) : Attenuates(ucans[up[k]], ucans[up[k + 1]])
      /\ \A k \in 1 .. n : ucans[p].exp <= ucans[up[k]].exp
  BY DEF LineSound
<1>4. Attenuates(ucans[p], ucans[i])
  BY <1>1 DEF CitesAttenuate
<1> HIDE DEF up
<1>5. /\ line \in Seq(DOMAIN ucans) /\ Len(line) = n + 1
      /\ line[n + 1] = i /\ \A k \in 1 .. n : line[k] = up[k]
  BY <1>3
<1> HIDE DEF line, n
<1>6. ASSUME NEW k \in 1 .. n
      PROVE  Attenuates(ucans[line[k]], ucans[line[k + 1]])
  <2>1. CASE k = n
    BY <1>3, <1>4, <1>5, <2>1
  <2>2. CASE k # n
    <3>1. k \in 1 .. (n - 1) /\ k + 1 \in 1 .. n
      BY <1>3, <2>2
    <3> QED
      BY <1>3, <1>5, <3>1
  <2> QED
    BY <2>1, <2>2
<1>7. ASSUME NEW k \in 1 .. (n + 1)
      PROVE  ucans[i].exp <= ucans[line[k]].exp
  <2>1. ucans[i].exp \in Nat /\ ucans[p].exp \in Nat /\ ucans[i].exp <= ucans[p].exp
    BY <1>1, <1>4 DEF Ucans, Attenuates
  <2>2. CASE k = n + 1
    BY <1>5, <2>1, <2>2
  <2>3. CASE k \in 1 .. n
    <3>1. /\ line[k] = up[k] /\ up[k] \in DOMAIN ucans
          /\ ucans[p].exp <= ucans[up[k]].exp
      BY <1>3, <1>5, <2>3 DEF n
    <3>2. ucans[up[k]].exp \in Nat
      BY <1>1, <3>1 DEF Ucans
    <3> QED
      BY <2>1, <3>1, <3>2
  <2> QED
    BY <1>3, <2>2, <2>3
<1>8. (n + 1) - 1 = n /\ n + 1 \in Nat \ {0} /\ line[1] = up[1]
  BY <1>3, <1>5
<1> QED
  BY <1>2, <1>3, <1>5, <1>6, <1>7, <1>8 DEF LineSound

LEMMA LinesSound ==
    ASSUME TypeOK, CitesAttenuate
    PROVE  \A i \in DOMAIN ucans : LineSound(i)
<1> DEFINE T == {i \in DOMAIN ucans : ~ LineSound(i)}
<1>1. Len(ucans) \in Nat /\ DOMAIN ucans = 1 .. Len(ucans)
  BY DEF TypeOK
<1> SUFFICES ASSUME T # {}
             PROVE  FALSE
  OBVIOUS
<1>2. PICK i \in T : \A m \in T : ~ (m < i)
  <2>1. T \subseteq Nat
    BY <1>1
  <2> QED
    BY <2>1, LeastNat
<1>3. i \in DOMAIN ucans /\ ~ LineSound(i)
  BY <1>2
<1>4. ucans[i].prf \in 0 .. (i - 1)
  BY <1>1, <1>3 DEF TypeOK
<1>5. CASE ucans[i].prf = 0
  BY <1>3, <1>5, RootLineSound
<1>6. CASE ucans[i].prf # 0
  <2>1. ucans[i].prf \in DOMAIN ucans /\ ucans[i].prf < i
    BY <1>1, <1>3, <1>4, <1>6
  <2>2. LineSound(ucans[i].prf)
    BY <1>2, <2>1
  <2> QED
    BY <1>3, <2>1, <2>2, ChildLineSound
<1> QED
  BY <1>5, <1>6

(* No UCAN is issued for a time to come.                                    *)
Begun == \A i \in DOMAIN ucans : ucans[i].nbf <= now

(* The UCANs that are issued are in force from their mint on: a root starts  *)
(* a second before it, a child then or with its parent (mintUcan,            *)
(* mintChildUcan).                                                           *)
THEOREM DelegationBegun == Spec => []Begun
<1>1. Init => Begun
  BY DEF Init, Begun
<1>2. TypeOK /\ Begun /\ [Next]_vars => Begun'
  <2> SUFFICES ASSUME TypeOK, Begun, [Next]_vars
               PROVE  Begun'
    OBVIOUS
  <2>1. now \in Nat
    BY NumbersAssumption DEF TypeOK
  <2>2. ASSUME NEW u \in Ucans, ucans' = Append(ucans, u), now' = now, u.nbf <= now
        PROVE  Begun'
    <3>1. ASSUME NEW i \in DOMAIN ucans'
          PROVE  ucans'[i].nbf <= now'
      <4>1. CASE i \in DOMAIN ucans
        BY <2>2, <4>1, AppendKeeps DEF Begun
      <4>2. CASE i = Len(ucans) + 1
        BY <2>2, <4>2, AppendKeeps
      <4> QED
        BY <2>2, <4>1, <4>2, AppendKeeps
    <3> QED
      BY <3>1 DEF Begun
  <2>3. ASSUME NEW agent \in Agents, NEW cmd \in Commands,
               NEW scope \in Scopes \cup {NoScope}, NEW ttl \in Ttls,
               Mint(agent, cmd, scope, ttl)
        PROVE  Begun'
    <3> DEFINE u == [iss |-> Platform, aud |-> agent, cmd |-> cmd, scope |-> scope,
                     nbf |-> now - 1, exp |-> now + ttl, prf |-> 0]
    <3>1. u \in Ucans /\ u.nbf <= now
      BY <2>1, NumbersAssumption DEF Ucans
    <3>2. ucans' = Append(ucans, u) /\ now' = now
      BY <2>3 DEF Mint
    <3> HIDE DEF u
    <3> QED
      BY <2>2, <3>1, <3>2
  <2>4. ASSUME NEW chain \in Presented, NEW child \in Agents, NEW cmd \in Commands,
               NEW scope \in Scopes \cup {NoScope}, NEW ttl \in Ttls,
               MintChild(chain, child, cmd, scope, ttl)
        PROVE  Begun'
    <3> DEFINE u == ChildOf(chain, child, cmd, scope, ttl)
    <3>1. u \in Ucans
      BY ChildTyped
    <3>2. ucans' = Append(ucans, u) /\ now' = now
      BY <2>4 DEF MintChild
    <3>3. Leaf(chain).nbf \in Int /\ Leaf(chain).nbf <= now
      BY LeafIssued DEF Begun, Ucans
    <3>4. u.nbf <= now
      BY <2>1, <3>3 DEF ChildOf
    <3> HIDE DEF u
    <3> QED
      BY <2>2, <3>1, <3>2, <3>4
  <2>5. ASSUME NEW i \in DOMAIN ucans \ revoked, Revoke(i)
        PROVE  Begun'
    BY <2>5 DEF Revoke, Begun
  <2>6. CASE Tick
    <3>1. \A i \in DOMAIN ucans : ucans[i].nbf \in Int
      <4>1. \A i \in DOMAIN ucans : ucans[i] \in Ucans
        BY DEF TypeOK
      <4> QED
        BY <4>1 DEF Ucans
    <3> QED
      BY <2>1, <2>6, <3>1 DEF Tick, Begun
  <2>7. CASE UNCHANGED vars
    BY <2>7 DEF vars, Begun
  <2> QED
    BY <2>3, <2>4, <2>5, <2>6, <2>7 DEF Next
<1> QED
  BY <1>1, <1>2, DelegationTypeCorrect, PTL DEF Spec

(* A UCAN that has not expired is allowed its own command under its line.   *)
LEMMA LineIsAllowed ==
    ASSUME TypeOK, CitesAttenuate, Begun
    PROVE  MintedIsUsable
<1> SUFFICES ASSUME NEW i \in DOMAIN ucans, NEW resource \in Resources,
                    now < ucans[i].exp,
                    Len(Line[i]) <= Depth,
                    ToSet(Line[i]) \cap revoked = {},
                    ucans[i].scope # NoScope => IsPrefix(ucans[i].scope, resource)
             PROVE  Allowed(Line[i], ucans[i].cmd, resource)
  BY DEF MintedIsUsable
<1> DEFINE line == Line[i]
<1>1. /\ line \in Seq(DOMAIN ucans) /\ Len(line) \in Nat \ {0} /\ line[Len(line)] = i
      /\ ucans[line[1]].iss = Platform
      /\ \A k \in 1 .. (Len(line) - 1) : Attenuates(ucans[line[k]], ucans[line[k + 1]])
      /\ \A k \in 1 .. Len(line) : ucans[i].exp <= ucans[line[k]].exp
  BY LinesSound DEF LineSound
<1>2. /\ Len(line) <= Depth /\ ToSet(line) \cap revoked = {}
      /\ now < ucans[i].exp
  OBVIOUS
<1>3. now \in Nat /\ \A j \in DOMAIN ucans : ucans[j] \in Ucans
  BY NumbersAssumption DEF TypeOK
<1> HIDE DEF line
<1>4. ASSUME NEW k \in DOMAIN line
      PROVE  InTime(ucans[line[k]])
  <2>1. k \in 1 .. Len(line) /\ line[k] \in DOMAIN ucans
    BY <1>1
  <2>2. ucans[i].exp \in Nat /\ ucans[line[k]].exp \in Nat
    BY <1>3, <2>1 DEF Ucans
  <2>3. ucans[line[k]].nbf <= now /\ ucans[i].exp <= ucans[line[k]].exp
    BY <1>1, <2>1 DEF Begun
  <2> QED
    BY <1>2, <1>3, <2>2, <2>3 DEF InTime
<1>5. ValidChain(line)
  BY <1>1, <1>4 DEF ValidChain
<1>6. Leaf(line) = ucans[i]
  BY <1>1 DEF Leaf
<1>7. IsPrefix(ucans[i].cmd, ucans[i].cmd)
  <2>1. ucans[i].cmd \in Seq(STRING)
    BY <1>3, NamesAssumption DEF Ucans
  <2>2. Len(ucans[i].cmd) \in Nat
    BY <2>1
  <2> QED
    BY <2>1, <2>2, PrefixIsPointwise
<1>8. Allowed(line, ucans[i].cmd, resource)
  BY <1>1, <1>2, <1>5, <1>6, <1>7 DEF Allowed
<1> QED
  BY <1>8 DEF line

(* What the control plane mints the PDP accepts: a UCAN presented under the  *)
(* ones it cites, up to the root, is allowed its command until it expires or *)
(* one of them is revoked, if they are no more than the PDP takes            *)
(* (mintChildUcan, validateChain, decide).                                   *)
THEOREM DelegationMintedUsable == Spec => []MintedIsUsable
<1>1. TypeOK /\ CitesAttenuate /\ Begun => MintedIsUsable
  BY LineIsAllowed
<1> QED
  BY <1>1, DelegationTypeCorrect, DelegationCitesAttenuate, DelegationBegun, PTL

=============================================================================
