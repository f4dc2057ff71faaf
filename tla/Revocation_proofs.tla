------------------------- MODULE Revocation_proofs -------------------------
(***************************************************************************)
(* What holds of Revocation for every number of PDPs and UCANs, every sweep  *)
(* interval and every latency.                                               *)
(***************************************************************************)
EXTENDS Revocation, TLAPS

(* Fetches, and what the table's answer and the passing of time do to them. *)
LEMMA FetchFacts ==
    /\ NoFetch \in Fetches
    /\ NewFetch \in Fetches
  BY TimingAssumption DEF NoFetch, NewFetch, Fetches

LEMMA AnswerFacts ==
    ASSUME NEW fetch \in Fetches, revoked \subseteq Cids
    PROVE  /\ Answer(fetch) \in Fetches
           /\ Answer(fetch).pc = "read"
           /\ Answer(fetch).got = revoked
           /\ Answer(fetch).age = fetch.age
  BY DEF Answer, Fetches

LEMMA OlderFacts ==
    ASSUME NEW fetch \in Fetches, fetch.pc = "none" \/ fetch.age # Latency
    PROVE  /\ Older(fetch) \in Fetches
           /\ Older(fetch).pc = fetch.pc
           /\ Older(fetch).got = fetch.got
           /\ Older(fetch).age =
                  IF fetch.pc = "none" THEN fetch.age ELSE fetch.age + 1
  <1>1. fetch.age + 1 \in 0 .. Latency \/ fetch.pc = "none"
    BY TimingAssumption DEF Fetches
  <1>2. QED
    BY <1>1 DEF Older, Fetches

LEMMA JoinFacts ==
    ASSUME NEW fetch \in Fetches
    PROVE  JoinOrFetch(fetch) \in Fetches
  BY FetchFacts DEF JoinOrFetch

-----------------------------------------------------------------------------
(* Type correctness                                                         *)

LEMMA TickType == TypeOK /\ Tick => TypeOK'
  <1> SUFFICES ASSUME TypeOK, Tick PROVE TypeOK'
    OBVIOUS
  <1>1. age' \in [Cids -> 0 .. Old]
    BY TimingAssumption DEF TypeOK, Tick, Old, Bound
  <1>2. \A p \in Pdps : Older(boot[p]) \in Fetches /\ Older(inflight[p]) \in Fetches
    <2> SUFFICES ASSUME NEW p \in Pdps
                 PROVE  Older(boot[p]) \in Fetches /\ Older(inflight[p]) \in Fetches
      OBVIOUS
    <2>1. /\ boot[p].pc = "none" \/ boot[p].age # Latency
          /\ inflight[p].pc = "none" \/ inflight[p].age # Latency
      BY DEF Tick, Due
    <2>2. QED
      BY <2>1, OlderFacts DEF TypeOK
  <1>3. boot' \in [Pdps -> Fetches] /\ inflight' \in [Pdps -> Fetches]
    BY <1>2 DEF TypeOK, Tick
  <1>4. sweepIn' \in [Pdps -> 0 .. Sweep]
    <2> SUFFICES ASSUME NEW p \in Pdps, mode[p] # "down"
                 PROVE  sweepIn[p] - 1 \in 0 .. Sweep
      BY DEF TypeOK, Tick
    <2>1. sweepIn[p] # 0
      BY DEF Tick, Due
    <2>2. sweepIn[p] \in 0 .. Sweep
      BY DEF TypeOK
    <2>3. QED
      BY <2>1, <2>2, TimingAssumption
  <1>5. QED
    BY <1>1, <1>3, <1>4 DEF TypeOK, Tick, process

LEMMA PdpType == ASSUME NEW p \in Pdps, TypeOK, PdpStep(p) PROVE TypeOK'
  <1> USE FetchFacts
  <1>1. CASE Boot(p)
    <2>1. PICK knows \in IF failing THEN BOOLEAN ELSE {TRUE} :
              /\ known' = [known EXCEPT ![p] = knows]
              /\ mode' = [mode EXCEPT ![p] = IF knows THEN "warming" ELSE "listening"]
              /\ boot' = [boot EXCEPT ![p] = IF knows THEN NewFetch ELSE NoFetch]
      BY <1>1 DEF Boot
    <2>2. known' \in [Pdps -> BOOLEAN]
      BY <2>1 DEF TypeOK
    <2>3. mode' \in [Pdps -> {"down", "warming", "listening"}]
      BY <2>1 DEF TypeOK
    <2>4. boot' \in [Pdps -> Fetches]
      BY <2>1 DEF TypeOK
    <2>5. sweepIn' \in [Pdps -> 0 .. Sweep]
      BY <1>1, TimingAssumption DEF Boot, TypeOK
    <2>6. QED
      BY <1>1, <2>2, <2>3, <2>4, <2>5 DEF TypeOK, Boot, table
  <1>2. CASE BootDone(p)
    BY <1>2 DEF TypeOK, BootDone, Fetches, table
  <1>3. CASE BootFail(p)
    BY <1>3 DEF TypeOK, BootFail, table
  <1>4. CASE Crash(p)
    BY <1>4 DEF TypeOK, Crash, table
  <1>5. CASE Discover(p)
    BY <1>5 DEF TypeOK, Discover, table
  <1>6. CASE SweepFires(p)
    BY <1>6, JoinFacts, TimingAssumption DEF TypeOK, SweepFires, table, process
  <1>7. CASE RefreshDone(p)
    BY <1>7 DEF TypeOK, RefreshDone, Acknowledge, Fetches, table, process
  <1>8. CASE RefreshFail(p)
    BY <1>8 DEF TypeOK, RefreshFail, Acknowledge, table, process
  <1>9. CASE ServeBoot(p)
    BY <1>9, AnswerFacts DEF TypeOK, ServeBoot, table, process
  <1>10. CASE ServeRefresh(p)
    BY <1>10, AnswerFacts DEF TypeOK, ServeRefresh, table, process
  <1>11. ASSUME NEW c \in Cids, PushArrives(c, p) PROVE TypeOK'
    BY <1>11, JoinFacts DEF TypeOK, PushArrives, table, process
  <1>12. ASSUME NEW c \in Cids, PushFail(c, p) PROVE TypeOK'
    BY <1>12 DEF TypeOK, PushFail, table, process
  <1>13. QED
    BY <1>1, <1>2, <1>3, <1>4, <1>5, <1>6, <1>7, <1>8, <1>9, <1>10, <1>11,
       <1>12 DEF PdpStep

(* No handler of either service leaves a variable outside its type, however  *)
(* pushes, sweeps, boots and crashes interleave.                             *)
THEOREM RevocationTypeCorrect == Spec => []TypeOK
  <1>1. Init => TypeOK
    BY FetchFacts, TimingAssumption DEF Init, TypeOK, Old, Bound
  <1>2. TypeOK /\ [Next]_vars => TypeOK'
    <2> SUFFICES ASSUME TypeOK, [Next]_vars PROVE TypeOK'
      OBVIOUS
    <2>1. CASE Tick
      BY <2>1, TickType
    <2>2. ASSUME NEW cids \in SUBSET Cids, Revoke(cids) PROVE TypeOK'
      BY <2>2 DEF TypeOK, Revoke, process
    <2>3. ASSUME NEW p \in Pdps, PdpStep(p) PROVE TypeOK'
      BY <2>3, PdpType
    <2>4. CASE UNCHANGED vars
      BY <2>4 DEF TypeOK, vars
    <2>5. QED
      BY <2>1, <2>2, <2>3, <2>4 DEF Next
  <1>3. QED
    BY <1>1, <1>2, PTL DEF Spec

-----------------------------------------------------------------------------
(* The invariants behind the guarantees                                     *)

(* While its own fetch warms the cache, a PDP has no other fetch and its     *)
(* first sweep is still to come: a warm-up that takes less than a sweep      *)
(* interval never overlaps a refresh.                                        *)
BootInv ==
    \A p \in Pdps :
        /\ mode[p] = "down" => boot[p].pc = "none"
        /\ mode[p] = "warming" => boot[p].pc # "none"
        /\ mode[p] # "listening" => inflight[p].pc = "none" /\ cache[p] = {}
        /\ boot[p].pc # "none" =>
              mode[p] = "warming" /\ sweepIn[p] = Sweep - boot[p].age

(* What a PDP knows is what the table has held, and what a refresh brings is *)
(* at least what the PDP knows: refreshes of one PDP read the table one after *)
(* another.                                                                  *)
KnowledgeInv ==
    /\ {} \in versions
    /\ \A held \in versions : held \subseteq revoked
    /\ \A p \in Pdps :
        /\ cache[p] \in versions
        /\ boot[p].pc = "read" => boot[p].got \in versions
        /\ inflight[p].pc = "read" =>
              cache[p] \subseteq inflight[p].got /\ inflight[p].got \in versions

(* How old a revocation can be that a fetch, the coming sweep or the refresh *)
(* in flight has yet to bring.                                               *)
BootMisses(p) ==
    \A c \in revoked :
        boot[p].pc = "read" /\ c \notin boot[p].got => age[c] <= boot[p].age

RefreshMisses(p) ==
    \A c \in revoked :
        inflight[p].pc = "read" /\ c \notin inflight[p].got =>
            age[c] <= inflight[p].age

AwaitsSweep(p) ==
    \A c \in revoked :
        mode[p] = "listening" /\ c \notin cache[p] /\ inflight[p].pc = "none" =>
            age[c] + sweepIn[p] <= Sweep + Latency

AwaitsRefresh(p) ==
    \A c \in revoked :
        mode[p] = "listening" /\ c \notin cache[p] /\ inflight[p].pc # "none" =>
            age[c] <= inflight[p].age + Sweep + Latency

TimeInv ==
    /\ \A c \in Cids \ revoked : age[c] = 0
    /\ \A p \in Pdps : mode[p] # "down" => known[p]
    /\ \A p \in Pdps : /\ BootMisses(p)
                       /\ RefreshMisses(p)
                       /\ AwaitsSweep(p)
                       /\ AwaitsRefresh(p)

-----------------------------------------------------------------------------
(* The boot never overlaps a refresh                                        *)

LEMMA BootInvTick ==
    ASSUME TypeOK, BootInv, Tick PROVE BootInv'
  <1> SUFFICES ASSUME NEW p \in Pdps
               PROVE  /\ mode[p] = "down" => boot'[p].pc = "none"
                      /\ mode[p] = "warming" => boot'[p].pc # "none"
                      /\ mode[p] # "listening" =>
                            inflight'[p].pc = "none" /\ cache[p] = {}
                      /\ boot'[p].pc # "none" => mode[p] = "warming" /\
                            sweepIn'[p] = Sweep - boot'[p].age
    BY DEF BootInv, Tick, process
  <1>1. boot[p] \in Fetches /\ inflight[p] \in Fetches
    BY DEF TypeOK
  <1>2. /\ boot[p].pc = "none" \/ boot[p].age # Latency
        /\ inflight[p].pc = "none" \/ inflight[p].age # Latency
    BY DEF Tick, Due
  <1>3. boot'[p] = Older(boot[p]) /\ inflight'[p] = Older(inflight[p])
    BY DEF Tick
  <1>4. /\ boot'[p].pc = boot[p].pc
        /\ inflight'[p].pc = inflight[p].pc
        /\ boot[p].pc # "none" => boot'[p].age = boot[p].age + 1
    BY <1>1, <1>2, <1>3, OlderFacts
  <1>5. mode[p] # "down" => sweepIn'[p] = sweepIn[p] - 1
    BY DEF Tick
  <1>6. boot[p].age \in Int
    BY <1>1 DEF Fetches
  <1>7. QED
    BY <1>4, <1>5, <1>6, TimingAssumption DEF BootInv

LEMMA BootInvStep ==
    ASSUME Latency < Sweep, TypeOK, BootInv, [Next]_vars
    PROVE  BootInv'
  <1> USE DEF NoFetch, NewFetch
  <1>1. CASE Tick
    BY <1>1, BootInvTick
  <1>2. ASSUME NEW cids \in SUBSET Cids, Revoke(cids) PROVE BootInv'
    BY <1>2 DEF BootInv, Revoke, process
  <1>3. ASSUME NEW p \in Pdps, PdpStep(p) PROVE BootInv'
    <2>1. CASE Boot(p)
      <3>1. PICK knows \in IF failing THEN BOOLEAN ELSE {TRUE} :
                /\ mode' = [mode EXCEPT ![p] = IF knows THEN "warming" ELSE "listening"]
                /\ boot' = [boot EXCEPT ![p] = IF knows THEN NewFetch ELSE NoFetch]
        BY <2>1 DEF Boot
      <3>2. CASE knows
        BY <2>1, <3>1, <3>2, TimingAssumption DEF BootInv, Boot, TypeOK
      <3>3. CASE ~knows
        BY <2>1, <3>1, <3>3 DEF BootInv, Boot, TypeOK
      <3>4. QED
        BY <3>2, <3>3
    <2>2. CASE BootDone(p)
      BY <2>2 DEF BootInv, BootDone, TypeOK
    <2>3. CASE BootFail(p)
      BY <2>3 DEF BootInv, BootFail, TypeOK
    <2>4. CASE Crash(p)
      BY <2>4 DEF BootInv, Crash, TypeOK
    <2>5. CASE Discover(p)
      BY <2>5 DEF BootInv, Discover
    <2>6. CASE SweepFires(p)
      <3>1. mode[p] = "listening"
        <4>1. boot[p].pc # "none" => boot[p].age \in 0 .. Latency
          BY DEF TypeOK, Fetches
        <4>2. mode[p] = "warming" => sweepIn[p] # 0
          BY <4>1, TimingAssumption DEF BootInv
        <4>3. QED
          BY <2>6, <4>2 DEF SweepFires, TypeOK
      <3>2. QED
        BY <2>6, <3>1 DEF BootInv, SweepFires, process, TypeOK
    <2>7. CASE RefreshDone(p)
      BY <2>7 DEF BootInv, RefreshDone, process, TypeOK
    <2>8. CASE RefreshFail(p)
      BY <2>8 DEF BootInv, RefreshFail, process, TypeOK
    <2>9. CASE ServeBoot(p)
      <3>1. /\ Answer(boot[p]).pc = "read"
            /\ Answer(boot[p]).age = boot[p].age
        BY AnswerFacts DEF TypeOK
      <3>2. QED
        BY <2>9, <3>1 DEF BootInv, ServeBoot, process, TypeOK
    <2>10. CASE ServeRefresh(p)
      BY <2>10 DEF BootInv, ServeRefresh, process, TypeOK
    <2>11. ASSUME NEW c \in Cids, PushArrives(c, p) PROVE BootInv'
      BY <2>11 DEF BootInv, PushArrives, process, TypeOK
    <2>12. ASSUME NEW c \in Cids, PushFail(c, p) PROVE BootInv'
      BY <2>12 DEF BootInv, PushFail, process
    <2>13. QED
      BY <1>3, <2>1, <2>2, <2>3, <2>4, <2>5, <2>6, <2>7, <2>8, <2>9, <2>10,
         <2>11, <2>12 DEF PdpStep
  <1>4. CASE UNCHANGED vars
    BY <1>4 DEF BootInv, vars
  <1>5. QED
    BY <1>1, <1>2, <1>3, <1>4 DEF Next

-----------------------------------------------------------------------------
(* What the caches know                                                     *)

LEMMA KnowledgeInvStep ==
    ASSUME Latency < Sweep, TypeOK, BootInv, KnowledgeInv, [Next]_vars
    PROVE  KnowledgeInv'
  <1> USE DEF NoFetch, NewFetch
  <1>1. CASE Tick
    <2> SUFFICES ASSUME NEW p \in Pdps
                 PROVE  /\ Older(boot[p]).pc = boot[p].pc
                        /\ Older(boot[p]).got = boot[p].got
                        /\ Older(inflight[p]).pc = inflight[p].pc
                        /\ Older(inflight[p]).got = inflight[p].got
      BY <1>1 DEF KnowledgeInv, Tick
    <2>1. /\ boot[p].pc = "none" \/ boot[p].age # Latency
          /\ inflight[p].pc = "none" \/ inflight[p].age # Latency
      BY <1>1 DEF Tick, Due
    <2>2. QED
      BY <2>1, OlderFacts DEF TypeOK
  <1>2. ASSUME NEW cids \in SUBSET Cids, Revoke(cids) PROVE KnowledgeInv'
    BY <1>2 DEF KnowledgeInv, Revoke
  <1>3. ASSUME NEW p \in Pdps, PdpStep(p) PROVE KnowledgeInv'
    <2>1. CASE Boot(p)
      <3>1. boot'[p].pc # "read" /\ \A q \in Pdps \ {p} : boot'[q] = boot[q]
        BY <2>1 DEF Boot, TypeOK
      <3>2. QED
        BY <2>1, <3>1 DEF KnowledgeInv, Boot, table
    <2>2. CASE BootDone(p)
      <3>1. inflight[p].pc = "none"
        BY <2>2 DEF BootInv, BootDone
      <3>2. QED
        BY <2>2, <3>1 DEF KnowledgeInv, BootDone, table, TypeOK
    <2>3. CASE BootFail(p)
      BY <2>3 DEF KnowledgeInv, BootFail, table, TypeOK
    <2>4. CASE Crash(p)
      BY <2>4 DEF KnowledgeInv, Crash, table, TypeOK
    <2>5. CASE Discover(p)
      BY <2>5 DEF KnowledgeInv, Discover, table
    <2>6. CASE SweepFires(p)
      BY <2>6 DEF KnowledgeInv, SweepFires, JoinOrFetch, table, TypeOK
    <2>7. CASE RefreshDone(p)
      BY <2>7 DEF KnowledgeInv, RefreshDone, table, TypeOK
    <2>8. CASE RefreshFail(p)
      BY <2>8 DEF KnowledgeInv, RefreshFail, table, TypeOK
    <2>9. CASE ServeBoot(p)
      <3>1. Answer(boot[p]).got = revoked
        BY AnswerFacts DEF TypeOK
      <3>2. QED
        BY <2>9, <3>1 DEF KnowledgeInv, ServeBoot, table, TypeOK
    <2>10. CASE ServeRefresh(p)
      <3>1. Answer(inflight[p]).got = revoked
        BY AnswerFacts DEF TypeOK
      <3>2. QED
        BY <2>10, <3>1 DEF KnowledgeInv, ServeRefresh, table, TypeOK
    <2>11. ASSUME NEW c \in Cids, PushArrives(c, p) PROVE KnowledgeInv'
      BY <2>11 DEF KnowledgeInv, PushArrives, JoinOrFetch, table, TypeOK
    <2>12. ASSUME NEW c \in Cids, PushFail(c, p) PROVE KnowledgeInv'
      BY <2>12 DEF KnowledgeInv, PushFail, table
    <2>13. QED
      BY <1>3, <2>1, <2>2, <2>3, <2>4, <2>5, <2>6, <2>7, <2>8, <2>9, <2>10,
         <2>11, <2>12 DEF PdpStep
  <1>4. CASE UNCHANGED vars
    BY <1>4 DEF KnowledgeInv, vars
  <1>5. QED
    BY <1>1, <1>2, <1>3, <1>4 DEF Next

LEMMA KnowledgeInvariant ==
    ASSUME Latency < Sweep
    PROVE  Spec => [](TypeOK /\ BootInv /\ KnowledgeInv)
  <1>1. Init => BootInv /\ KnowledgeInv
    BY DEF Init, BootInv, KnowledgeInv, NoFetch
  <1>2. TypeOK /\ BootInv /\ KnowledgeInv /\ [Next]_vars => (BootInv /\ KnowledgeInv)'
    BY BootInvStep, KnowledgeInvStep
  <1>3. QED
    BY <1>1, <1>2, RevocationTypeCorrect, PTL DEF Spec

(* Every step of the services is a step, or a stutter, of RevocationView.   *)
LEMMA ViewStep ==
    ASSUME TypeOK, BootInv, KnowledgeInv, [Next]_vars
    PROVE  [View!ViewNext]_(View!viewVars)
  <1> DEFINE Up == [p \in Pdps |-> mode[p] # "down"]
  <1> USE DEF View!viewVars, View!ViewNext
  <1>1. ASSUME NEW cids \in SUBSET Cids, Revoke(cids)
        PROVE  [View!ViewNext]_(View!viewVars)
    <2>1. View!Withdraw(cids)
      BY <1>1 DEF Revoke, View!Withdraw, process
    <2>2. QED
      BY <2>1
  <1>2. ASSUME NEW p \in Pdps, PdpStep(p)
        PROVE  [View!ViewNext]_(View!viewVars)
    <2>1. CASE BootDone(p)
      <3>1. mode[p] = "warming" /\ cache[p] = {} /\ boot[p].got \in versions
        BY <2>1 DEF BootDone, BootInv, KnowledgeInv
      <3>2. Up' = Up
        BY <2>1, <3>1 DEF BootDone, TypeOK
      <3>3. View!Learn(p, boot[p].got)
        BY <2>1, <3>1, <3>2 DEF BootDone, View!Learn, table
      <3>4. QED
        BY <3>1, <3>3
    <2>2. CASE RefreshDone(p)
      <3>1. /\ mode[p] # "down" /\ inflight[p].got \in versions
            /\ cache[p] \subseteq inflight[p].got
        BY <2>2 DEF RefreshDone, BootInv, KnowledgeInv
      <3>2. Up' = Up
        BY <2>2 DEF RefreshDone, process
      <3>3. View!Learn(p, inflight[p].got)
        BY <2>2, <3>1, <3>2 DEF RefreshDone, View!Learn, table
      <3>4. QED
        BY <3>1, <3>3
    <2>3. CASE Crash(p)
      <3>1. Up' = [Up EXCEPT ![p] = FALSE]
        BY <2>3 DEF Crash, TypeOK
      <3>2. View!Stop(p)
        BY <2>3, <3>1 DEF Crash, View!Stop, table
      <3>3. QED
        BY <3>2
    <2>4. CASE Boot(p)
      <3>1. \E knows \in BOOLEAN :
                mode' = [mode EXCEPT ![p] = IF knows THEN "warming" ELSE "listening"]
        BY <2>4 DEF Boot
      <3>2. Up' = [Up EXCEPT ![p] = TRUE]
        BY <3>1 DEF TypeOK
      <3>3. View!Start(p)
        BY <2>4, <3>2 DEF Boot, View!Start, table
      <3>4. QED
        BY <3>3
    <2>5. CASE BootFail(p)
      <3>1. mode[p] = "warming"
        BY <2>5 DEF BootFail, BootInv
      <3>2. Up' = Up
        BY <2>5, <3>1 DEF BootFail, TypeOK
      <3>3. QED
        BY <2>5, <3>2 DEF BootFail, table
    <2>6. CASE Discover(p) \/ SweepFires(p) \/ RefreshFail(p)
               \/ ServeBoot(p) \/ ServeRefresh(p)
      BY <2>6 DEF Discover, SweepFires, RefreshFail, ServeBoot, ServeRefresh,
                  table, process
    <2>7. CASE \E c \in Cids : PushArrives(c, p) \/ PushFail(c, p)
      BY <2>7 DEF PushArrives, PushFail, table, process
    <2>8. QED
      BY <1>2, <2>1, <2>2, <2>3, <2>4, <2>5, <2>6, <2>7 DEF PdpStep
  <1>3. CASE Tick
    BY <1>3 DEF Tick, process
  <1>4. CASE UNCHANGED vars
    BY <1>4 DEF vars, table, process
  <1>5. QED
    BY <1>1, <1>2, <1>3, <1>4 DEF Next

(* If a warm-up takes less than a sweep interval, the PDPs' caches keep the   *)
(* promise of RevocationView: what a PDP denies is what the table has held,   *)
(* it only moves on to later contents, and it is lost with the process only. *)
THEOREM RevocationImplementsView ==
    ASSUME Latency < Sweep
    PROVE  Spec => ImplementsView
  <1>1. Init => View!ViewInit
    BY DEF Init, View!ViewInit
  <1>2. TypeOK /\ BootInv /\ KnowledgeInv /\ [Next]_vars
            => [View!ViewNext]_(View!viewVars)
    BY ViewStep
  <1>3. QED
    BY <1>1, <1>2, KnowledgeInvariant, PTL
       DEF Spec, ImplementsView, View!ViewSpec

(* Under the same assumption a revoked UCAN never passes again in a process  *)
(* that once denied it.                                                      *)
THEOREM RevocationNeverUnrevoked ==
    ASSUME Latency < Sweep
    PROVE  Spec => NeverUnrevoked
  <1>1. ASSUME TypeOK, BootInv, KnowledgeInv, [Next]_vars
        PROVE  \A p \in Pdps : mode'[p] # "down" => cache[p] \subseteq cache'[p]
    <2> SUFFICES ASSUME NEW p \in Pdps, mode'[p] # "down"
                 PROVE  cache[p] \subseteq cache'[p]
      OBVIOUS
    <2>1. ASSUME NEW q \in Pdps, PdpStep(q)
          PROVE  cache[p] \subseteq cache'[p]
      <3>1. CASE BootDone(q)
        BY <1>1, <3>1 DEF BootDone, BootInv, TypeOK
      <3>2. CASE RefreshDone(q)
        BY <1>1, <3>2 DEF RefreshDone, KnowledgeInv, TypeOK
      <3>3. CASE Crash(q)
        BY <1>1, <2>1, <3>3 DEF Crash, TypeOK
      <3>4. CASE Boot(q) \/ BootFail(q) \/ Discover(q) \/ SweepFires(q)
                 \/ RefreshFail(q) \/ ServeBoot(q) \/ ServeRefresh(q)
        BY <3>4 DEF Boot, BootFail, Discover, SweepFires, RefreshFail,
                    ServeBoot, ServeRefresh
      <3>5. CASE \E c \in Cids : PushArrives(c, q) \/ PushFail(c, q)
        BY <3>5 DEF PushArrives, PushFail
      <3>6. QED
        BY <2>1, <3>1, <3>2, <3>3, <3>4, <3>5 DEF PdpStep
    <2>2. CASE Tick \/ (\E cids \in SUBSET Cids : Revoke(cids)) \/ UNCHANGED vars
      BY <2>2 DEF Tick, Revoke, vars
    <2>3. QED
      BY <1>1, <2>1, <2>2 DEF Next
  <1>2. TypeOK /\ BootInv /\ KnowledgeInv /\ [Next]_vars =>
            [\A p \in Pdps : mode'[p] # "down" => cache[p] \subseteq cache'[p]]_vars
    BY <1>1
  <1>3. QED
    BY <1>2, KnowledgeInvariant, PTL DEF Spec, NeverUnrevoked

-----------------------------------------------------------------------------
(* How long a revocation takes                                              *)

LEMMA Ranges ==
    ASSUME TypeOK
    PROVE  /\ \A c \in Cids : age[c] \in 0 .. Old
           /\ \A p \in Pdps : /\ sweepIn[p] \in 0 .. Sweep
                              /\ boot[p] \in Fetches
                              /\ boot[p].age \in 0 .. Latency
                              /\ inflight[p] \in Fetches
                              /\ inflight[p].age \in 0 .. Latency
           /\ Sweep \in Nat /\ Latency \in Nat
           /\ Old = Sweep + 2 * Latency + 1
  BY TimingAssumption DEF TypeOK, Fetches, Old, Bound

LEMMA TimeInvTick ==
    ASSUME TypeOK, BootInv, TimeInv, Tick
    PROVE  TimeInv'
  <1> USE DEF BootMisses, RefreshMisses, AwaitsSweep, AwaitsRefresh
  <1>1. ASSUME NEW p \in Pdps, NEW c \in revoked
        PROVE  /\ age'[c] <= age[c] + 1
               /\ Older(boot[p]).pc = boot[p].pc
               /\ Older(boot[p]).got = boot[p].got
               /\ Older(boot[p]).age =
                      IF boot[p].pc = "none" THEN boot[p].age ELSE boot[p].age + 1
               /\ Older(inflight[p]).pc = inflight[p].pc
               /\ Older(inflight[p]).got = inflight[p].got
               /\ Older(inflight[p]).age =
                      IF inflight[p].pc = "none" THEN inflight[p].age
                      ELSE inflight[p].age + 1
    <2>1. /\ boot[p].pc = "none" \/ boot[p].age # Latency
          /\ inflight[p].pc = "none" \/ inflight[p].age # Latency
      BY DEF Tick, Due
    <2>2. age'[c] <= age[c] + 1
      BY Ranges DEF Tick, TypeOK
    <2>3. QED
      BY <2>1, <2>2, OlderFacts, Ranges
  <1>2. ASSUME NEW p \in Pdps
        PROVE  (/\ BootMisses(p) /\ RefreshMisses(p)
                /\ AwaitsSweep(p) /\ AwaitsRefresh(p))'
    <2> SUFFICES ASSUME NEW c \in revoked
                 PROVE  /\ boot'[p].pc = "read" /\ c \notin boot'[p].got
                               => age'[c] <= boot'[p].age
                        /\ inflight'[p].pc = "read" /\ c \notin inflight'[p].got
                               => age'[c] <= inflight'[p].age
                        /\ mode[p] = "listening" /\ c \notin cache[p]
                           /\ inflight'[p].pc = "none"
                               => age'[c] + sweepIn'[p] <= Sweep + Latency
                        /\ mode[p] = "listening" /\ c \notin cache[p]
                           /\ inflight'[p].pc # "none"
                               => age'[c] <= inflight'[p].age + Sweep + Latency
      BY DEF Tick, process
    <2>1. /\ boot'[p] = Older(boot[p])
          /\ inflight'[p] = Older(inflight[p])
          /\ mode[p] = "listening" => sweepIn'[p] = sweepIn[p] - 1
          /\ age'[c] \in Int
      BY Ranges DEF Tick, TypeOK
    <2>2. /\ boot[p].pc = "read" /\ c \notin boot[p].got => age[c] <= boot[p].age
          /\ inflight[p].pc = "read" /\ c \notin inflight[p].got
                => age[c] <= inflight[p].age
          /\ mode[p] = "listening" /\ c \notin cache[p] /\ inflight[p].pc = "none"
                => age[c] + sweepIn[p] <= Sweep + Latency
          /\ mode[p] = "listening" /\ c \notin cache[p] /\ inflight[p].pc # "none"
                => age[c] <= inflight[p].age + Sweep + Latency
      BY DEF TimeInv
    <2>3. c \in Cids
      BY DEF TypeOK
    <2>4. /\ age[c] \in Int /\ sweepIn[p] \in Int /\ Sweep \in Int
          /\ Latency \in Int /\ boot[p].age \in Int /\ inflight[p].age \in Int
      BY <2>3, Ranges
    <2>5. QED
      BY <1>1, <2>1, <2>2, <2>4
  <1>3. \A c \in Cids \ revoked : age'[c] = 0
    BY DEF Tick, TimeInv, TypeOK
  <1>4. \A p \in Pdps : mode[p] # "down" => known[p]
    BY DEF TimeInv
  <1>5. (\A p \in Pdps : /\ BootMisses(p) /\ RefreshMisses(p)
                         /\ AwaitsSweep(p) /\ AwaitsRefresh(p))'
    BY <1>2
  <1>6. (\A c \in Cids \ revoked : age[c] = 0)'
    BY <1>3 DEF Tick
  <1>7. (\A p \in Pdps : mode[p] # "down" => known[p])'
    BY <1>4 DEF Tick, process
  <1> HIDE DEF BootMisses, RefreshMisses, AwaitsSweep, AwaitsRefresh
  <1>8. QED
    BY <1>5, <1>6, <1>7 DEF TimeInv

(* The invariant after a step that changes neither the table nor the ages,   *)
(* and no process but p.                                                     *)
LEMMA TimeInvLocal ==
    ASSUME TimeInv, NEW p \in Pdps, UNCHANGED table,
           \A q \in Pdps \ {p} :
               /\ mode'[q] = mode[q] /\ known'[q] = known[q]
               /\ cache'[q] = cache[q] /\ boot'[q] = boot[q]
               /\ inflight'[q] = inflight[q] /\ sweepIn'[q] = sweepIn[q],
           mode'[p] # "down" => known'[p],
           BootMisses(p)', RefreshMisses(p)', AwaitsSweep(p)', AwaitsRefresh(p)'
    PROVE  TimeInv'
  <1>1. ASSUME NEW q \in Pdps \ {p}
        PROVE  (/\ BootMisses(q) /\ RefreshMisses(q)
                /\ AwaitsSweep(q) /\ AwaitsRefresh(q))'
    BY DEF TimeInv, BootMisses, RefreshMisses, AwaitsSweep, AwaitsRefresh, table
  <1>2. (\A c \in Cids \ revoked : age[c] = 0)'
    BY DEF TimeInv, table
  <1>3. (\A q \in Pdps : mode[q] # "down" => known[q])'
    BY DEF TimeInv
  <1>4. QED
    BY <1>1, <1>2, <1>3 DEF TimeInv

LEMMA TimeInvPdp ==
    ASSUME Latency < Sweep, ~failing, TypeOK, BootInv, TimeInv,
           NEW p \in Pdps, PdpStep(p)
    PROVE  TimeInv'
  <1> DEFINE Kept == /\ BootMisses(p) /\ RefreshMisses(p)
                     /\ AwaitsSweep(p) /\ AwaitsRefresh(p)
  <1> USE DEF NoFetch, NewFetch, BootMisses, RefreshMisses, AwaitsSweep,
              AwaitsRefresh
  <1>0. Kept /\ (mode[p] # "down" => known[p])
    BY DEF TimeInv
  <1>r. /\ \A c \in revoked : age[c] \in 0 .. Old
        /\ sweepIn[p] \in 0 .. Sweep /\ Sweep \in Nat /\ Latency \in Nat
        /\ boot[p].age \in 0 .. Latency /\ inflight[p].age \in 0 .. Latency
        /\ Old = Sweep + 2 * Latency + 1
    BY Ranges DEF TypeOK
  <1>1. CASE Boot(p)
    <2>1. /\ known' = [known EXCEPT ![p] = TRUE]
          /\ mode' = [mode EXCEPT ![p] = "warming"]
          /\ boot' = [boot EXCEPT ![p] = NewFetch]
      BY <1>1 DEF Boot
    <2>2. Kept'
      BY <1>0, <1>1, <2>1 DEF Boot, BootInv, TypeOK, table
    <2>3. QED
      BY <1>1, <2>1, <2>2, TimeInvLocal DEF Boot, TypeOK
  <1>2. CASE BootDone(p)
    <2>1. /\ mode[p] = "warming" /\ inflight[p].pc = "none"
          /\ sweepIn[p] = Sweep - boot[p].age
      BY <1>2 DEF BootDone, BootInv
    <2>2. Kept'
      BY <1>0, <1>r, <1>2, <2>1 DEF BootDone, TypeOK, table
    <2>3. QED
      BY <1>0, <1>2, <2>1, <2>2, TimeInvLocal DEF BootDone, TypeOK
  <1>3. CASE Crash(p)
    <2>1. Kept'
      BY <1>3 DEF Crash, TypeOK, table
    <2>2. QED
      BY <1>3, <2>1, TimeInvLocal DEF Crash, TypeOK
  <1>4. CASE Discover(p)
    <2>1. Kept'
      BY <1>0, <1>4 DEF Discover, table
    <2>2. QED
      BY <1>0, <1>4, <2>1, TimeInvLocal DEF Discover, TypeOK
  <1>5. CASE SweepFires(p)
    <2>1. known[p] /\ inflight' = [inflight EXCEPT ![p] = JoinOrFetch(@)]
      BY <1>0, <1>5 DEF SweepFires
    <2>2. Kept'
      BY <1>0, <1>r, <1>5, <2>1 DEF SweepFires, JoinOrFetch, TypeOK, table, process
    <2>3. QED
      BY <1>0, <1>5, <2>1, <2>2, TimeInvLocal DEF SweepFires, TypeOK, process
  <1>6. CASE RefreshDone(p)
    <2>1. Kept'
      BY <1>0, <1>r, <1>6 DEF RefreshDone, TypeOK, table, process
    <2>2. QED
      BY <1>0, <1>6, <2>1, TimeInvLocal DEF RefreshDone, TypeOK, process
  <1>7. CASE ServeBoot(p)
    <2>1. Answer(boot[p]).got = revoked
      BY AnswerFacts DEF TypeOK
    <2>2. Kept'
      BY <1>0, <1>7, <2>1 DEF ServeBoot, TypeOK, table, process
    <2>3. QED
      BY <1>0, <1>7, <2>2, TimeInvLocal DEF ServeBoot, TypeOK, process
  <1>8. CASE ServeRefresh(p)
    <2>1. /\ Answer(inflight[p]).got = revoked
          /\ Answer(inflight[p]).pc = "read"
          /\ Answer(inflight[p]).age = inflight[p].age
      BY AnswerFacts DEF TypeOK
    <2>2. Kept'
      BY <1>0, <1>8, <2>1 DEF ServeRefresh, TypeOK, table, process
    <2>3. QED
      BY <1>0, <1>8, <2>2, TimeInvLocal DEF ServeRefresh, TypeOK, process
  <1>9. ASSUME NEW k \in Cids, PushArrives(k, p) PROVE TimeInv'
    <2>1. Kept'
      BY <1>0, <1>r, <1>9 DEF PushArrives, JoinOrFetch, TypeOK, table, process
    <2>2. QED
      BY <1>0, <1>9, <2>1, TimeInvLocal DEF PushArrives, TypeOK, process
  <1>10. ASSUME NEW k \in Cids, PushFail(k, p) PROVE TimeInv'
    <2>1. Kept'
      BY <1>0, <1>10 DEF PushFail, table, process
    <2>2. QED
      BY <1>0, <1>10, <2>1, TimeInvLocal DEF PushFail, process
  <1>11. CASE BootFail(p) \/ RefreshFail(p)
    BY <1>11 DEF BootFail, RefreshFail
  <1>12. QED
    BY <1>1, <1>2, <1>3, <1>4, <1>5, <1>6, <1>7, <1>8, <1>9, <1>10, <1>11
       DEF PdpStep

LEMMA TimeInvStep ==
    ASSUME Latency < Sweep, ~failing, TypeOK, BootInv, TimeInv,
           [Next]_vars
    PROVE  TimeInv'
  <1>1. CASE Tick
    BY <1>1, TimeInvTick
  <1>2. ASSUME NEW cids \in SUBSET Cids, Revoke(cids) PROVE TimeInv'
    <2>1. \A c \in Cids \ revoked : age[c] = 0
      BY DEF TimeInv
    <2>2. \A p \in Pdps : (BootMisses(p) /\ RefreshMisses(p))'
      BY <1>2, <2>1, Ranges
         DEF TimeInv, BootMisses, RefreshMisses, Revoke, TypeOK
    <2>3. \A p \in Pdps : (AwaitsSweep(p) /\ AwaitsRefresh(p))'
      BY <1>2, <2>1, Ranges
         DEF TimeInv, AwaitsSweep, AwaitsRefresh, Revoke, TypeOK, process
    <2>4. (\A c \in Cids \ revoked : age[c] = 0)'
      BY <1>2, <2>1 DEF Revoke
    <2>5. (\A p \in Pdps : mode[p] # "down" => known[p])'
      BY <1>2 DEF Revoke, TimeInv, process
    <2>6. QED
      BY <2>2, <2>3, <2>4, <2>5 DEF TimeInv
  <1>3. ASSUME NEW p \in Pdps, PdpStep(p) PROVE TimeInv'
    BY <1>3, TimeInvPdp
  <1>4. CASE UNCHANGED vars
    BY <1>4 DEF vars, TimeInv, BootMisses, RefreshMisses, AwaitsSweep,
                AwaitsRefresh
  <1>5. QED
    BY <1>1, <1>2, <1>3, <1>4 DEF Next

(* When requests do not fail and the customer is known, every PDP that       *)
(* serves requests enforces a revocation one sweep interval and two fetches  *)
(* after it was committed, through any pushes, sweeps, crashes and restarts. *)
THEOREM RevocationEnforcedInTime ==
    ASSUME Latency < Sweep
    PROVE  Spec => []EnforcedInTime
  <1>1. Init => (~failing => TimeInv)
    BY DEF Init, TimeInv, BootMisses, RefreshMisses, AwaitsSweep, AwaitsRefresh
  <1>2. TypeOK /\ BootInv /\ (~failing => TimeInv) /\ [Next]_vars
            => (~failing => TimeInv)'
    <2>1. [Next]_vars => failing' = failing
      BY DEF Next, vars, Tick, Revoke, PdpStep, Boot, BootDone, BootFail, Crash,
             Discover, SweepFires, RefreshDone, RefreshFail, ServeBoot,
             ServeRefresh, PushArrives, PushFail
    <2>2. QED
      BY <2>1, TimeInvStep
  <1>3. ASSUME TypeOK, ~failing => TimeInv PROVE EnforcedInTime
    <2> SUFFICES ASSUME ~failing, NEW p \in Pdps, NEW c \in revoked,
                        mode[p] = "listening", c \notin cache[p]
                 PROVE  age[c] <= Bound
      BY <1>3, Ranges DEF EnforcedInTime, TypeOK, Bound
    <2>1. AwaitsSweep(p) /\ AwaitsRefresh(p)
      BY <1>3 DEF TimeInv
    <2>2. QED
      BY <1>3, <2>1, Ranges DEF AwaitsSweep, AwaitsRefresh, TypeOK, Bound
  <1>4. TypeOK /\ (~failing => TimeInv) => EnforcedInTime
    BY <1>3
  <1>5. QED
    BY <1>1, <1>2, <1>4, KnowledgeInvariant, PTL DEF Spec

=============================================================================
