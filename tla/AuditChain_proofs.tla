------------------------- MODULE AuditChain_proofs --------------------------
(***************************************************************************)
(* Proofs about AuditChain and AuditProof for any set of events, with emits   *)
(* that overlap and everything that fails: their type correctness, that only *)
(* overlapping emits fork the chain, that a crash costs its newest events    *)
(* only, and which proofs of events verify.                                  *)
(***************************************************************************)
EXTENDS AuditProof, WellFoundedInduction, TLAPS

-----------------------------------------------------------------------------
(* Type correctness                                                         *)

TInv ==
    /\ AuditTypeOK
    /\ hydrating = "read" => found # NoEvent

(* What an emit that begins does to the state's types.                      *)
LEMMA BeginType ==
    ASSUME AuditTypeOK, NEW e \in Events, NEW s \in Statuses, Begin(e, s)
    PROVE  /\ clock' \in Nat
           /\ status' \in [Events -> Statuses]
           /\ ts' \in [Events -> Nat]
           /\ status'[e] = s
           /\ \A f \in Events : f # e => status'[f] = status[f]
  BY DEF AuditTypeOK, Begin

LEMMA MoveType ==
    ASSUME AuditTypeOK, NEW from, NEW to \in Statuses, Move(from, to)
    PROVE  /\ status' \in [Events -> Statuses]
           /\ \A f \in Events : status'[f] = IF f \in from THEN to ELSE status[f]
  BY DEF AuditTypeOK, Move

LEMMA TypeInit == AuditInit => TInv
  BY DEF AuditInit, TInv, AuditTypeOK, Statuses

LEMMA TypeStep == TInv /\ [AuditNext]_auditVars => TInv'
  <1> SUFFICES ASSUME TInv, [AuditNext]_auditVars PROVE TInv'
    OBVIOUS
  <1> USE EventsAssumption DEF TInv
  <1>1. ASSUME NEW e \in Events, EmitCached(e) PROVE TInv'
    <2>1. Begin(e, "chaining")
      BY <1>1 DEF EmitCached
    <2>2. /\ clock' \in Nat
          /\ status' \in [Events -> Statuses]
          /\ ts' \in [Events -> Nat]
          /\ \A f \in Events : f # e => status'[f] = status[f]
      BY <2>1, BeginType DEF Statuses
    <2>3. /\ prev' \in [Events -> Events \cup {Genesis, NoEvent}]
          /\ prev'[e] # NoEvent
          /\ \A f \in Events : f # e => prev'[f] = prev[f]
      BY <1>1 DEF EmitCached, AuditTypeOK
    <2>4. QED
      BY <1>1, <2>2, <2>3 DEF EmitCached, AuditTypeOK
  <1>2. ASSUME NEW e \in Events, EmitHydrating(e) PROVE TInv'
    <2>1. Begin(e, "waiting")
      BY <1>2 DEF EmitHydrating
    <2>2. /\ clock' \in Nat
          /\ status' \in [Events -> Statuses]
          /\ ts' \in [Events -> Nat]
          /\ status'[e] = "waiting"
          /\ \A f \in Events : f # e => status'[f] = status[f]
      BY <2>1, BeginType DEF Statuses
    <2>3. QED
      BY <1>2, <2>2 DEF EmitHydrating, AuditTypeOK
  <1>3. ASSUME NEW e \in Events, EmitRejected(e) PROVE TInv'
    <2>1. Begin(e, "failed")
      BY <1>3 DEF EmitRejected
    <2>2. /\ clock' \in Nat
          /\ status' \in [Events -> Statuses]
          /\ ts' \in [Events -> Nat]
          /\ status'[e] = "failed"
          /\ \A f \in Events : f # e => status'[f] = status[f]
      BY <2>1, BeginType DEF Statuses
    <2>3. QED
      BY <1>3, <2>2 DEF EmitRejected, AuditTypeOK
  <1>4. ASSUME NEW e \in Events, EmitDone(e) PROVE TInv'
    BY <1>4 DEF EmitDone, AuditTypeOK, Statuses, Having
  <1>5. CASE HydrateRead
    <2>1. /\ found' \in Events \cup {Genesis, NoEvent}
          /\ found' # NoEvent
      BY <1>5 DEF HydrateRead
    <2>2. QED
      BY <1>5, <2>1 DEF HydrateRead, AuditTypeOK
  <1>6. CASE HydrateDone
    <2>1. /\ status' \in [Events -> Statuses]
          /\ \A f \in Events :
                status'[f] = IF f \in Having("waiting") THEN "chaining" ELSE status[f]
      BY <1>6, MoveType DEF HydrateDone, Statuses
    <2>2. /\ prev' \in [Events -> Events \cup {Genesis, NoEvent}]
          /\ \A f \in Events : prev'[f] = IF status[f] = "waiting" THEN found ELSE prev[f]
      BY <1>6 DEF HydrateDone, AuditTypeOK
    <2>3. \A f \in Events :
             status'[f] \in {"chaining", "pending", "writing", "stored"} => prev'[f] # NoEvent
      BY <1>6, <2>1, <2>2 DEF HydrateDone, AuditTypeOK, Having
    <2>4. QED
      BY <1>6, <2>1, <2>2, <2>3 DEF HydrateDone, AuditTypeOK
  <1>7. CASE HydrateFail
    <2>1. /\ status' \in [Events -> Statuses]
          /\ \A f \in Events :
                status'[f] = IF f \in Having("waiting") THEN "failed" ELSE status[f]
      BY <1>7, MoveType DEF HydrateFail, Statuses
    <2>2. QED
      BY <1>7, <2>1 DEF HydrateFail, AuditTypeOK
  <1>8. CASE Flush
    <2>1. /\ status' \in [Events -> Statuses]
          /\ \A f \in Events :
                status'[f] = IF f \in Having("pending") THEN "writing" ELSE status[f]
      BY <1>8, MoveType DEF Flush, Statuses
    <2>2. QED
      BY <1>8, <2>1 DEF Flush, AuditTypeOK, Having
  <1>9. CASE Insert
    <2>1. /\ status' \in [Events -> Statuses]
          /\ \A f \in Events :
                status'[f] = IF f \in Having("writing") THEN "stored" ELSE status[f]
      BY <1>9, MoveType DEF Insert, Statuses
    <2>2. QED
      BY <1>9, <2>1 DEF Insert, AuditTypeOK, Having
  <1>10. CASE InsertFail
    <2>1. /\ status' \in [Events -> Statuses]
          /\ \A f \in Events :
                status'[f] = IF f \in Having("writing") THEN "dropped" ELSE status[f]
      BY <1>10, MoveType DEF InsertFail, Statuses
    <2>2. QED
      BY <1>10, <2>1 DEF InsertFail, AuditTypeOK
  <1>11. CASE Crash
    <2>1. status' \in [Events -> Statuses]
      BY <1>11 DEF Crash, AuditTypeOK, Statuses
    <2>2. \A f \in Events : status'[f] = "stored" => status[f] \in {"writing", "stored"}
      BY <1>11 DEF Crash, AuditTypeOK
    <2>3. \A f \in Events : status'[f] \notin {"chaining", "pending", "writing"}
      BY <1>11 DEF Crash, AuditTypeOK
    <2>4. QED
      BY <1>11, <2>1, <2>2, <2>3 DEF Crash, AuditTypeOK
  <1>12. CASE UNCHANGED auditVars
    BY <1>12 DEF auditVars, AuditTypeOK
  <1>13. QED
    BY <1>1, <1>2, <1>3, <1>4, <1>5, <1>6, <1>7, <1>8, <1>9, <1>10, <1>11, <1>12 DEF AuditNext

(* The variables keep their types, and no event is queued, written or stored *)
(* without a prev_hash, whatever overlaps and fails.                         *)
THEOREM AuditTypeCorrect == AuditSpec => []AuditTypeOK
  <1>1. AuditInit => TInv
    BY TypeInit
  <1>2. TInv /\ [AuditNext]_auditVars => TInv'
    BY TypeStep
  <1>3. TInv => AuditTypeOK
    BY DEF TInv
  <1>4. QED
    BY <1>1, <1>2, <1>3, PTL DEF AuditSpec

-----------------------------------------------------------------------------
(* The chain                                                                *)

Emitting == Having("waiting") \cup Having("chaining")

Live == Having("chaining") \cup Emitted

(* Events have different times, and emits are done in the order of these.   *)
Clock ==
    /\ \A e \in Events : status[e] # "idle" => ts[e] <= clock
    /\ \A e \in Emitting, f \in Emitted : ts[f] < ts[e]
    /\ \A e, f \in Events :
          status[e] # "idle" /\ status[f] # "idle" /\ ts[e] = ts[f] => e = f

(* The table is older than the batch being written, and that than the queue. *)
Batches ==
    \A e, f \in Events :
        \/ status[e] = "stored" /\ status[f] \in {"writing", "pending"}
        \/ status[e] = "writing" /\ status[f] = "pending"
        => ts[e] < ts[f]

(* While the last hash is not known nothing moves but the emits that wait    *)
(* for it; what their query has read is the newest row.                     *)
Hydration ==
    /\ last # NoEvent => hydrating = "none"
    /\ hydrating \in {"none", "rejected"} => Having("waiting") = {}
    /\ last = NoEvent => \A e \in Events : status[e] \notin {"chaining", "pending", "writing"}
    /\ hydrating = "read" /\ found = Genesis => Stored = {}
    /\ hydrating = "read" /\ found # Genesis => Newest(found)

(* The last hash is that of the newest event that was emitted, and so no     *)
(* emitted one's prev_hash.                                                 *)
LastIsNewest ==
    /\ last \in Events => last \in Emitted \cup Having("dropped")
    /\ last # NoEvent => \A e \in Emitted :
          last # Genesis /\ ts[e] <= ts[last] /\ prev[e] # last

(* prev_hash goes back in time, to an event that was emitted.               *)
Links ==
    \A e \in Live : prev[e] # Genesis =>
        /\ prev[e] \in Emitted \cup Having("dropped")
        /\ ts[prev[e]] < ts[e]

ChainInv == TInv /\ Clock /\ Batches /\ Hydration /\ LastIsNewest /\ Links

LEMMA ChainInit == AuditInit => ChainInv
  BY TypeInit, EventsAssumption
  DEF AuditInit, ChainInv, Clock, Batches, Hydration, LastIsNewest, Links, Live, Emitted,
      Stored, Emitting, Having

(* An emit begins after all that is there.                                  *)
LEMMA ChainBegin ==
    ASSUME ChainInv, NEW e \in Events, NEW s \in {"waiting", "chaining", "failed"},
           Begin(e, s), prev' = prev \/ prev' = [prev EXCEPT ![e] = last]
    PROVE  /\ Clock' /\ Batches'
           /\ \A f \in Events : f # e => /\ status'[f] = status[f]
                                       /\ ts'[f] = ts[f]
                                       /\ prev'[f] = prev[f]
           /\ status'[e] = s /\ status[e] = "idle" /\ ts'[e] = clock + 1
  <1> USE DEF ChainInv, TInv, AuditTypeOK
  <1>1. /\ status[e] = "idle"
        /\ clock' = clock + 1
        /\ status'[e] = s /\ ts'[e] = clock + 1
        /\ \A f \in Events : f # e => status'[f] = status[f] /\ ts'[f] = ts[f] /\ prev'[f] = prev[f]
    BY DEF Begin
  <1>2. Clock'
    <2>1. \A f \in Events : status'[f] # "idle" => ts'[f] <= clock'
      BY <1>1 DEF Clock
    <2>2. ASSUME NEW f \in Emitting', NEW g \in Emitted'
          PROVE  ts'[g] < ts'[f]
      <3>1. g \in Emitted /\ g # e /\ ts'[g] = ts[g] /\ ts[g] <= clock /\ ts[g] \in Nat
        BY <1>1 DEF Emitted, Stored, Having, Clock
      <3>2. CASE f = e
        BY <1>1, <3>1, <3>2
      <3>3. CASE f # e
        <4>1. f \in Emitting /\ ts'[f] = ts[f]
          BY <1>1, <3>3 DEF Emitting, Having
        <4> QED
          BY <3>1, <4>1 DEF Clock
      <3> QED
        BY <3>2, <3>3
    <2>3. \A f, g \in Events :
             status'[f] # "idle" /\ status'[g] # "idle" /\ ts'[f] = ts'[g] => f = g
      BY <1>1 DEF Clock
    <2>4. QED
      BY <2>1, <2>2, <2>3 DEF Clock
  <1>3. Batches'
    BY <1>1 DEF Batches
  <1>4. QED
    BY <1>1, <1>2, <1>3

LEMMA ChainStep == ChainInv /\ [AuditNext]_auditVars => ChainInv'
  <1> SUFFICES ASSUME ChainInv, [AuditNext]_auditVars
               PROVE  Clock' /\ Batches' /\ Hydration' /\ LastIsNewest' /\ Links'
    BY TypeStep DEF ChainInv
  <1> USE EventsAssumption DEF ChainInv, TInv, AuditTypeOK
  <1>1. ASSUME NEW e \in Events, EmitCached(e)
        PROVE  Clock' /\ Batches' /\ Hydration' /\ LastIsNewest' /\ Links'
    <2>1. /\ Begin(e, "chaining")
          /\ prev' = [prev EXCEPT ![e] = last]
          /\ last # NoEvent
          /\ UNCHANGED <<last, hydrating, found>>
      BY <1>1 DEF EmitCached
    <2>2. /\ Clock' /\ Batches'
          /\ \A f \in Events : f # e => /\ status'[f] = status[f]
                                      /\ ts'[f] = ts[f]
                                      /\ prev'[f] = prev[f]
          /\ status'[e] = "chaining" /\ status[e] = "idle" /\ ts'[e] = clock + 1
      BY <2>1, ChainBegin
    <2>3. prev'[e] = last
      BY <2>1
    <2>4. Hydration'
      BY <2>1, <2>2 DEF Hydration, Newest, Stored, Having
    <2>5. LastIsNewest'
      BY <2>1, <2>2, <2>3 DEF LastIsNewest, Emitted, Stored, Emitting, Having
    <2>6. Links'
      BY <2>1, <2>2, <2>3 DEF Links, LastIsNewest, Clock, Emitting, Live, Emitted, Stored, Having
    <2>7. QED
      BY <2>2, <2>4, <2>5, <2>6
  <1>2. ASSUME NEW e \in Events, EmitHydrating(e)
        PROVE  Clock' /\ Batches' /\ Hydration' /\ LastIsNewest' /\ Links'
    <2>1. /\ Begin(e, "waiting")
          /\ last = NoEvent
          /\ hydrating # "rejected"
          /\ hydrating' = IF hydrating = "none" THEN "sent" ELSE hydrating
          /\ UNCHANGED <<prev, last, found>>
      BY <1>2 DEF EmitHydrating
    <2>2. /\ Clock' /\ Batches'
          /\ \A f \in Events : f # e => /\ status'[f] = status[f]
                                      /\ ts'[f] = ts[f]
                                      /\ prev'[f] = prev[f]
          /\ status'[e] = "waiting" /\ status[e] = "idle"
      BY <2>1, ChainBegin
    <2>3. Hydration'
      BY <2>1, <2>2 DEF Hydration, Newest, Stored, Having
    <2>4. LastIsNewest'
      BY <2>1, <2>2 DEF LastIsNewest, Emitted, Stored, Having
    <2>5. Links'
      BY <2>1, <2>2 DEF Links, Live, Emitted, Stored, Having
    <2>6. QED
      BY <2>2, <2>3, <2>4, <2>5
  <1>3. ASSUME NEW e \in Events, EmitRejected(e)
        PROVE  Clock' /\ Batches' /\ Hydration' /\ LastIsNewest' /\ Links'
    <2>1. /\ Begin(e, "failed")
          /\ last = NoEvent
          /\ UNCHANGED <<prev, last, hydrating, found>>
      BY <1>3 DEF EmitRejected
    <2>2. /\ Clock' /\ Batches'
          /\ \A f \in Events : f # e => /\ status'[f] = status[f]
                                      /\ ts'[f] = ts[f]
                                      /\ prev'[f] = prev[f]
          /\ status'[e] = "failed" /\ status[e] = "idle"
      BY <2>1, ChainBegin
    <2>3. Hydration'
      BY <2>1, <2>2 DEF Hydration, Newest, Stored, Having
    <2>4. LastIsNewest'
      BY <2>1, <2>2 DEF LastIsNewest, Emitted, Stored, Having
    <2>5. Links'
      BY <2>1, <2>2 DEF Links, Live, Emitted, Stored, Having
    <2>6. QED
      BY <2>2, <2>3, <2>4, <2>5
  <1>4. ASSUME NEW e \in Events, EmitDone(e)
        PROVE  Clock' /\ Batches' /\ Hydration' /\ LastIsNewest' /\ Links'
    <2>1. /\ status[e] = "chaining"
          /\ status'[e] = "pending"
          /\ \A f \in Events : f # e => status'[f] = status[f]
          /\ last' = e
          /\ UNCHANGED <<clock, ts, prev, hydrating, found>>
      BY <1>4 DEF EmitDone, Having
    <2>2. /\ \A f \in Emitted : ts[f] < ts[e]
          /\ \A f \in Events : f # e /\ status[f] = "chaining" => ts[e] < ts[f]
          /\ Having("waiting") = {}
          /\ last # NoEvent
      <3>1. last # NoEvent
        BY <2>1 DEF Hydration
      <3>2. \A f \in Events : status[f] = "chaining" => ts[e] <= ts[f]
        BY <1>4 DEF EmitDone, Having
      <3>3. \A f \in Events : f # e /\ status[f] = "chaining" => ts[e] # ts[f]
        BY <2>1 DEF Clock
      <3> QED
        BY <2>1, <3>1, <3>2, <3>3 DEF Hydration, Clock, Emitting, Having
    <2>3. Clock'
      <3>1. ASSUME NEW f \in Emitting', NEW g \in Emitted'
            PROVE  ts[g] < ts[f]
        <4>1. f \in Emitting /\ f # e /\ status[f] = "chaining"
          BY <2>1, <2>2 DEF Emitting, Having
        <4>2. g = e \/ g \in Emitted
          BY <2>1 DEF Emitted, Stored, Having
        <4> QED
          BY <2>2, <4>1, <4>2 DEF Clock, Emitting, Having
      <3> QED
        BY <2>1, <3>1 DEF Clock
    <2>4. Batches'
      BY <2>1, <2>2 DEF Batches, Emitted, Stored, Having
    <2>5. Hydration'
      BY <2>1 DEF Hydration, Newest, Stored, Having
    <2>6. LastIsNewest'
      <3>1. ASSUME NEW f \in Emitted'
            PROVE  e # Genesis /\ ts[f] <= ts[e] /\ prev[f] # e
        <4>1. f = e \/ f \in Emitted
          BY <2>1 DEF Emitted, Stored, Having
        <4>2. ts[f] <= ts[e] /\ ts[f] \in Nat
          BY <2>2, <4>1 DEF Emitted, Stored, Having
        <4>3. f \in Live /\ (prev[f] = e => ts[e] < ts[f])
          BY <2>1, <4>1 DEF Links, Live, Having
        <4> QED
          BY <4>2, <4>3
      <3> QED
        BY <2>1, <3>1 DEF LastIsNewest, Emitted, Stored, Having
    <2>7. Links'
      BY <2>1 DEF Links, Live, Emitted, Stored, Having
    <2>8. QED
      BY <2>3, <2>4, <2>5, <2>6, <2>7
  <1>5. CASE HydrateRead
    <2>1. /\ hydrating = "sent" /\ hydrating' = "read"
          /\ found' \in IF Stored = {} THEN {Genesis} ELSE {e \in Events : Newest(e)}
          /\ UNCHANGED <<clock, status, ts, prev, last>>
      BY <1>5 DEF HydrateRead
    <2>2. Hydration'
      BY <2>1 DEF Hydration, Newest, Stored, Having
    <2>3. QED
      BY <2>1, <2>2 DEF Clock, Batches, LastIsNewest, Links, Emitting, Live, Emitted, Stored, Having
  <1>6. CASE HydrateDone
    <2>1. \A f \in Events :
             status'[f] = IF status[f] = "waiting" THEN "chaining" ELSE status[f]
      BY <1>6, MoveType DEF HydrateDone, Statuses, Having
    <2>2. /\ hydrating = "read" /\ hydrating' = "none"
          /\ last' = found
          /\ UNCHANGED <<clock, ts>>
          /\ \A f \in Events : prev'[f] = IF status[f] = "waiting" THEN found ELSE prev[f]
      BY <1>6 DEF HydrateDone
    <2>3. /\ last = NoEvent
          /\ found # NoEvent
          /\ found = Genesis => Stored = {}
          /\ found # Genesis => Newest(found)
          /\ \A f \in Events : status[f] \notin {"chaining", "pending", "writing"}
      BY <2>2 DEF Hydration
    <2>4. Clock'
      BY <2>1, <2>2 DEF Clock, Emitting, Emitted, Stored, Having
    <2>5. Batches'
      BY <2>1, <2>2 DEF Batches
    <2>6. Hydration'
      BY <2>1, <2>2, <2>3 DEF Hydration, Having
    <2>7. LastIsNewest'
      <3>1. /\ \A f \in Events : status'[f] = "stored" <=> status[f] = "stored"
            /\ \A f \in Events : status'[f] \notin {"pending", "writing"}
        BY <2>1, <2>3
      <3>2. ASSUME NEW f \in Emitted'
            PROVE  found # Genesis /\ ts[f] <= ts[found] /\ prev'[f] # found
        <4>1. f \in Stored /\ f \in Live /\ prev'[f] = prev[f]
          BY <2>2, <3>1 DEF Emitted, Live, Stored, Having
        <4>2. found # Genesis /\ found \in Stored /\ ts[f] <= ts[found]
          BY <2>3, <4>1 DEF Newest
        <4>3. prev[f] = found => ts[found] < ts[f]
          BY <4>1, <4>2 DEF Links
        <4> QED
          BY <4>1, <4>2, <4>3 DEF Stored, Having
      <3>3. found # Genesis => found \in Stored'
        BY <2>3, <3>1 DEF Newest, Stored, Having
      <3> QED
        BY <2>2, <3>2, <3>3 DEF LastIsNewest, Emitted
    <2>8. Links'
      BY <2>1, <2>2, <2>3 DEF Links, Newest, Clock, Emitting, Live, Emitted, Stored, Having
    <2>9. QED
      BY <2>4, <2>5, <2>6, <2>7, <2>8
  <1>7. CASE HydrateFail
    <2>1. \A f \in Events : status'[f] = IF status[f] = "waiting" THEN "failed" ELSE status[f]
      BY <1>7, MoveType DEF HydrateFail, Statuses, Having
    <2>2. UNCHANGED <<clock, ts, prev, last, found>>
      BY <1>7 DEF HydrateFail
    <2>3. Clock'
      BY <2>1, <2>2 DEF Clock, Emitting, Emitted, Stored, Having
    <2>4. Batches'
      BY <1>7, <2>1, <2>2 DEF HydrateFail, Batches, Having
    <2>5. Hydration'
      BY <1>7, <2>1, <2>2 DEF HydrateFail, Hydration, Newest, Stored, Having
    <2>6. LastIsNewest'
      BY <2>1, <2>2 DEF LastIsNewest, Emitted, Stored, Having
    <2>7. Links'
      BY <2>1, <2>2 DEF Links, Live, Emitted, Stored, Having
    <2>8. QED
      BY <2>3, <2>4, <2>5, <2>6, <2>7
  <1>8. CASE Flush
    <2>1. \A f \in Events : status'[f] = IF status[f] = "pending" THEN "writing" ELSE status[f]
      BY <1>8, MoveType DEF Flush, Statuses, Having
    <2>2. UNCHANGED <<clock, ts, prev, last, found>>
      BY <1>8 DEF Flush
    <2>3. Clock'
      BY <2>1, <2>2 DEF Clock, Emitting, Emitted, Stored, Having
    <2>4. Batches'
      BY <1>8, <2>1, <2>2 DEF Flush, Batches, Having
    <2>5. Hydration'
      BY <1>8, <2>1, <2>2 DEF Flush, Hydration, Newest, Stored, Having
    <2>6. LastIsNewest'
      BY <2>1, <2>2 DEF LastIsNewest, Emitted, Stored, Having
    <2>7. Links'
      BY <2>1, <2>2 DEF Links, Live, Emitted, Stored, Having
    <2>8. QED
      BY <2>3, <2>4, <2>5, <2>6, <2>7
  <1>9. CASE Insert
    <2>1. \A f \in Events : status'[f] = IF status[f] = "writing" THEN "stored" ELSE status[f]
      BY <1>9, MoveType DEF Insert, Statuses, Having
    <2>2. UNCHANGED <<clock, ts, prev, last, found>>
      BY <1>9 DEF Insert
    <2>3. Clock'
      BY <2>1, <2>2 DEF Clock, Emitting, Emitted, Stored, Having
    <2>4. Batches'
      BY <1>9, <2>1, <2>2 DEF Insert, Batches, Having
    <2>5. Hydration'
      BY <1>9, <2>1, <2>2 DEF Insert, Hydration, Newest, Stored, Having
    <2>6. LastIsNewest'
      BY <2>1, <2>2 DEF LastIsNewest, Emitted, Stored, Having
    <2>7. Links'
      BY <2>1, <2>2 DEF Links, Live, Emitted, Stored, Having
    <2>8. QED
      BY <2>3, <2>4, <2>5, <2>6, <2>7
  <1>10. CASE InsertFail
    <2>1. \A f \in Events : status'[f] = IF status[f] = "writing" THEN "dropped" ELSE status[f]
      BY <1>10, MoveType DEF InsertFail, Statuses, Having
    <2>2. UNCHANGED <<clock, ts, prev, last, found>>
      BY <1>10 DEF InsertFail
    <2>3. Clock'
      BY <2>1, <2>2 DEF Clock, Emitting, Emitted, Stored, Having
    <2>4. Batches'
      BY <1>10, <2>1, <2>2 DEF InsertFail, Batches, Having
    <2>5. Hydration'
      BY <1>10, <2>1, <2>2 DEF InsertFail, Hydration, Newest, Stored, Having
    <2>6. LastIsNewest'
      BY <2>1, <2>2 DEF LastIsNewest, Emitted, Stored, Having
    <2>7. Links'
      BY <2>1, <2>2 DEF Links, Live, Emitted, Stored, Having
    <2>8. QED
      BY <2>3, <2>4, <2>5, <2>6, <2>7
  <1>11. CASE Crash
    <2>1. /\ last' = NoEvent
          /\ hydrating' = "none"
          /\ UNCHANGED <<clock, ts, prev>>
      BY <1>11 DEF Crash
    <2>2. PICK written \in BOOLEAN :
             \A f \in Events : status'[f] =
                 IF status[f] = "writing" /\ written THEN "stored"
                 ELSE IF status[f] \in {"waiting", "chaining", "pending", "writing"} THEN "lost"
                 ELSE status[f]
      BY <1>11 DEF Crash
    <2>3. /\ \A f \in Events : status'[f] \notin {"waiting", "chaining", "pending", "writing"}
          /\ \A f \in Events : status'[f] = "stored" => status[f] \in {"writing", "stored"}
          /\ \A f \in Events : status[f] \in {"stored", "dropped"} => status'[f] = status[f]
          /\ \A f \in Events : status'[f] # "idle" => status[f] # "idle"
      BY <2>2
    <2>4. Clock'
      BY <2>1, <2>3 DEF Clock, Emitting, Emitted, Stored, Having
    <2>5. Batches'
      BY <2>3 DEF Batches
    <2>6. Hydration'
      BY <2>1, <2>3 DEF Hydration, Having
    <2>7. LastIsNewest'
      BY <2>1, <2>3 DEF LastIsNewest, Having
    <2>8. Links'
      <3> SUFFICES ASSUME NEW e \in Live'
                   PROVE  prev[e] # Genesis =>
                                /\ prev[e] \in (Emitted \cup Having("dropped"))'
                                /\ ts[prev[e]] < ts[e]
        BY <2>1 DEF Links
      <3>1. e \in Events /\ status'[e] = "stored" /\ status[e] \in {"writing", "stored"}
        BY <2>3 DEF Live, Emitted, Stored, Having
      <3>2. e \in Live /\ Live' \subseteq Live
        BY <3>1, <2>3 DEF Live, Emitted, Stored, Having
      <3>3. ASSUME prev[e] # Genesis
            PROVE  prev[e] \in (Emitted \cup Having("dropped"))'
        <4>1. /\ prev[e] \in Events
              /\ status[prev[e]] \in {"pending", "writing", "stored", "dropped"}
              /\ ts[prev[e]] < ts[e]
          BY <3>2, <3>3 DEF Links, Emitted, Stored, Having
        <4>2. \/ status[prev[e]] \in {"stored", "dropped"}
              \/ status[prev[e]] = "writing" /\ status[e] = "writing"
          BY <3>1, <4>1 DEF Batches
        <4>3. status'[prev[e]] \in {"stored", "dropped"}
          BY <2>2, <3>1, <4>1, <4>2
        <4>4. QED
          BY <4>1, <4>3 DEF Emitted, Stored, Having
      <3>4. QED
        BY <3>2, <3>3 DEF Links
    <2>9. QED
      BY <2>4, <2>5, <2>6, <2>7, <2>8
  <1>12. CASE UNCHANGED auditVars
    BY <1>12 DEF auditVars, Clock, Batches, Hydration, LastIsNewest, Links, Newest, Emitting, Live, Emitted, Stored, Having
  <1>13. QED
    BY <1>1, <1>2, <1>3, <1>4, <1>5, <1>6, <1>7, <1>8, <1>9, <1>10, <1>11, <1>12 DEF AuditNext

-----------------------------------------------------------------------------
(* The theorems                                                             *)

LEMMA ChainIsClosed == ChainInv => CrashLosesTail
  <1> SUFFICES ASSUME ChainInv, NEW e \in Stored, prev[e] # Genesis
               PROVE  prev[e] \in Stored \cup Having("dropped")
    BY DEF CrashLosesTail
  <1>1. /\ prev[e] \in Events
        /\ status[prev[e]] \in {"pending", "writing", "stored", "dropped"}
        /\ ts[prev[e]] < ts[e]
    BY DEF ChainInv, Links, Live, Emitted, Stored, Having
  <1>2. ~(ts[e] < ts[prev[e]])
    BY <1>1 DEF ChainInv, TInv, AuditTypeOK, Stored, Having
  <1>3. status[prev[e]] \in {"stored", "dropped"}
    BY <1>1, <1>2 DEF ChainInv, Batches, Stored, Having
  <1>4. QED
    BY <1>1, <1>3 DEF Stored, Having

(* A crash loses the newest events only: no row refers to one that a crash   *)
(* lost, for batches are whole and one is written at a time (flush,          *)
(* insertBatch).                                                             *)
THEOREM AuditCrashLosesTail == AuditSpec => []CrashLosesTail
  <1>1. ChainInv /\ [AuditNext]_auditVars => ChainInv'
    BY ChainStep
  <1>2. QED
    BY <1>1, ChainInit, ChainIsClosed, PTL DEF AuditSpec

LEMMA StepChains ==
    ASSUME ChainInv, [AuditNext]_auditVars, NEW f \in Events, prev'[f] # prev[f], NEW e \in Emitted
    PROVE  prev[e] # prev'[f]
  <1> USE DEF ChainInv, TInv, AuditTypeOK
  <1>1. ASSUME NEW g \in Events, EmitCached(g)
        PROVE  prev[e] # prev'[f]
    <2>1. last # NoEvent /\ prev'[f] = last
      BY <1>1 DEF EmitCached
    <2> QED
      BY <2>1 DEF LastIsNewest
  <1>2. CASE HydrateDone
    <2>1. status[f] = "waiting" /\ prev'[f] = found /\ hydrating = "read"
      BY <1>2 DEF HydrateDone
    <2>2. last = NoEvent
      BY <2>1 DEF Hydration
    <2>3. e \in Stored /\ e \in Live
      BY <2>2 DEF Hydration, Emitted, Live, Stored, Having
    <2>4. found # Genesis /\ found \in Stored /\ ts[e] <= ts[found]
      BY <2>1, <2>3 DEF Hydration, Newest
    <2>5. prev[e] = found => ts[found] < ts[e]
      BY <2>3, <2>4 DEF Links
    <2> QED
      BY <2>1, <2>3, <2>4, <2>5 DEF Stored, Having
  <1>3. CASE \/ \E g \in Events : EmitHydrating(g) \/ EmitRejected(g) \/ EmitDone(g)
             \/ HydrateRead \/ HydrateFail \/ Flush \/ Insert \/ InsertFail \/ Crash
             \/ UNCHANGED auditVars
    BY <1>3 DEF EmitHydrating, EmitRejected, EmitDone, HydrateRead, HydrateFail, Flush,
                Insert, InsertFail, Crash, auditVars
  <1> QED
    BY <1>1, <1>2, <1>3 DEF AuditNext

(* An event is never chained to a hash that one whose emit was done has for   *)
(* its own prev_hash: only emits that overlap fork the chain (emit and       *)
(* ensureLastHash), whatever crashes, batches and hydrations come between.   *)
THEOREM AuditForksByOverlapOnly == AuditSpec => ForksByOverlapOnly
  <1>1. ChainInv /\ [AuditNext]_auditVars => ChainInv'
    BY ChainStep
  <1>2. ChainInv /\ [AuditNext]_auditVars =>
           [\A f \in Events : prev'[f] # prev[f] =>
               \A e \in Emitted : prev[e] # prev'[f]]_auditVars
    BY StepChains
  <1>3. QED
    BY <1>1, <1>2, ChainInit, PTL DEF AuditSpec, ForksByOverlapOnly

-----------------------------------------------------------------------------
(* Roots                                                                    *)

(* A row stays in the table.                                                *)
LEMMA StoredGrows ==
    ASSUME AuditTypeOK, [AuditNext]_auditVars
    PROVE  Stored \subseteq Stored'
<1> SUFFICES ASSUME NEW f \in Events, status[f] = "stored"
             PROVE  status'[f] = "stored"
  BY DEF Stored, Having
<1>1. ASSUME NEW e \in Events, EmitCached(e) \/ EmitHydrating(e) \/ EmitRejected(e) \/ EmitDone(e)
      PROVE  status'[f] = "stored"
  BY <1>1 DEF EmitCached, EmitHydrating, EmitRejected, EmitDone, Begin, AuditTypeOK
<1>2. CASE HydrateDone \/ HydrateFail
  BY <1>2 DEF HydrateDone, HydrateFail, Move, Having
<1>3. CASE Flush \/ Insert \/ InsertFail
  BY <1>3 DEF Flush, Insert, InsertFail, Move, Having
<1>4. CASE HydrateRead \/ UNCHANGED auditVars
  BY <1>4 DEF HydrateRead, auditVars
<1>5. CASE Crash
  BY <1>5 DEF Crash
<1> QED
  BY <1>1, <1>2, <1>3, <1>4, <1>5 DEF AuditNext

RootTyped == root # NoRoot => root.event \in Stored /\ root.at \in Nat

LEMMA RootStep ==
    ASSUME AuditTypeOK, RootTyped, [ProofNext]_proofVars
    PROVE  RootTyped'
<1>1. CASE AuditNext /\ UNCHANGED root
  <2>1. Stored \subseteq Stored'
    BY <1>1, StoredGrows
  <2> QED
    BY <1>1, <2>1 DEF RootTyped, NoRoot
<1>2. CASE SignRoot
  <2>1. Stored' = Stored
    BY <1>2 DEF SignRoot, auditVars, Stored, Having
  <2> QED
    BY <1>2, <2>1 DEF SignRoot, RootTyped, AuditTypeOK, NoRoot
<1>3. CASE UNCHANGED proofVars
  <2>1. Stored' = Stored /\ root' = root
    BY <1>3 DEF proofVars, auditVars, Stored, Having
  <2> QED
    BY <2>1 DEF RootTyped, NoRoot
<1> QED
  BY <1>1, <1>2, <1>3 DEF ProofNext

LEMMA ProofStepIsChainStep ==
    ASSUME [ProofNext]_proofVars
    PROVE  [AuditNext]_auditVars
  BY DEF ProofNext, SignRoot, proofVars

(* Whatever the emitter, the database and the root signer do, only rows of   *)
(* the table are signed and they stay there (signRootForCustomer).           *)
THEOREM ProofTypeCorrect == ProofSpec => []ProofTypeOK
<1> DEFINE PInv == TInv /\ RootTyped
<1>1. ProofInit => PInv
  BY TypeInit DEF ProofInit, RootTyped
<1>2. PInv /\ [ProofNext]_proofVars => PInv'
  <2>1. TInv /\ [AuditNext]_auditVars => TInv'
    BY TypeStep
  <2>2. TInv /\ RootTyped /\ [ProofNext]_proofVars => RootTyped'
    BY RootStep DEF TInv
  <2> QED
    BY <2>1, <2>2, ProofStepIsChainStep
<1>3. PInv => ProofTypeOK
  BY DEF RootTyped, TInv, ProofTypeOK
<1> HIDE DEF PInv
<1> QED
  BY <1>1, <1>2, <1>3, PTL DEF ProofSpec

-----------------------------------------------------------------------------
(* What a root commits to                                                   *)

(* A set of numbers that is not empty has a least one.                      *)
LEMMA LeastNat ==
    ASSUME NEW T, T \subseteq Nat, T # {}
    PROVE  \E m \in T : \A n \in T : ~ (n < m)
<1>1. PICK m \in T : \A n \in T : ~ (<<n, m>> \in OpToRel(<, Nat))
  BY NatLessThanWellFounded, WFMin, Zenon
<1> QED
  BY <1>1 DEF OpToRel

(* What the proofs need to know of the table: times differ, and links go     *)
(* back in time.                                                            *)
Table ==
    /\ Stored \subseteq Events
    /\ clock \in Nat
    /\ \A f \in Stored : ts[f] \in Nat /\ ts[f] <= clock
    /\ \A f, g \in Stored : ts[f] = ts[g] => f = g
    /\ \A f \in Stored : prev[f] \in Events \cup {Genesis}
    /\ \A f \in Stored : prev[f] \in Stored => ts[prev[f]] < ts[f]

LEMMA ChainIsTable ==
    ASSUME ChainInv
    PROVE  Table
<1>2. /\ clock \in Nat
      /\ \A f \in Stored : ts[f] \in Nat /\ ts[f] <= clock
  BY DEF ChainInv, TInv, AuditTypeOK, Clock, Stored, Having
<1>3. \A f, g \in Stored : ts[f] = ts[g] => f = g
  BY DEF ChainInv, Clock, Stored, Having
<1>4. \A f \in Stored : prev[f] \in Events \cup {Genesis}
  BY DEF ChainInv, TInv, AuditTypeOK, Stored, Having
<1>5. \A f \in Stored : prev[f] \in Stored => ts[prev[f]] < ts[f]
  <2>1. \A f \in Stored : f \in Live /\ (prev[f] # Genesis => ts[prev[f]] < ts[f])
    BY DEF ChainInv, Links, Live, Emitted
  <2> QED
    BY <2>1, EventsAssumption DEF Stored, Having
<1> QED
  BY <1>2, <1>3, <1>4, <1>5 DEF Table, Stored, Having

(* Of rows there is an oldest.                                              *)
LEMMA OldestRow ==
    ASSUME Table, NEW W \in SUBSET Stored, W # {}
    PROVE  \E m \in W : \A f \in W : ts[m] <= ts[f]
<1> DEFINE T == {ts[f] : f \in W}
<1>1. \A f \in W : ts[f] \in Nat
  BY DEF Table
<1>2. PICK n \in T : \A k \in T : ~ (k < n)
  <2>1. T \subseteq Nat /\ T # {}
    BY <1>1
  <2> QED
    BY <2>1, LeastNat
<1>3. PICK m \in W : n = ts[m]
  BY <1>2
<1>4. ASSUME NEW f \in W
      PROVE  ts[m] <= ts[f]
  <2>1. ts[f] \in T
    OBVIOUS
  <2> QED
    BY <1>1, <1>2, <1>3, <2>1
<1> QED
  BY <1>4

(* A row commits to none that is newer.                                     *)
LEMMA CommitsToOlder ==
    ASSUME Table, NEW r \in Stored, NEW e \in Stored, CommitsFirst(r, e)
    PROVE  ts[e] <= ts[r]
<1>1. PICK W \in SUBSET Stored :
         {r, e} \subseteq W /\ \A f \in W \ {e} : prev[f] \in W /\ Eldest(f)
  BY DEF CommitsFirst
<1>2. PICK m \in W : \A f \in W : ts[m] <= ts[f]
  BY <1>1, OldestRow
<1>3. m = e
  <2> SUFFICES ASSUME m # e
               PROVE  FALSE
    OBVIOUS
  <2>1. prev[m] \in W /\ m \in Stored
    BY <1>1
  <2>2. ts[prev[m]] < ts[m] /\ ts[m] <= ts[prev[m]]
    BY <1>2, <2>1 DEF Table
  <2>3. ts[m] \in Nat /\ ts[prev[m]] \in Nat
    BY <2>1 DEF Table
  <2> QED
    BY <2>2, <2>3
<1> QED
  BY <1>1, <1>2, <1>3

(* If it commits to an older one, it commits to the oldest of the rows next   *)
(* to that as well.                                                         *)
LEMMA CommitsToNext ==
    ASSUME Table, NEW r \in Stored, NEW e \in Stored, CommitsFirst(r, e), r # e
    PROVE  \E g \in Stored : prev[g] = e /\ Eldest(g) /\ CommitsFirst(r, g)
<1>1. PICK W \in SUBSET Stored :
         {r, e} \subseteq W /\ \A f \in W \ {e} : prev[f] \in W /\ Eldest(f)
  BY DEF CommitsFirst
<1> DEFINE V == W \ {e}
<1>2. V \in SUBSET Stored /\ r \in V
  BY <1>1
<1>3. PICK g \in V : \A f \in V : ts[g] <= ts[f]
  BY <1>2, OldestRow
<1>4. prev[g] = e
  <2> SUFFICES ASSUME prev[g] # e
               PROVE  FALSE
    OBVIOUS
  <2>1. prev[g] \in V /\ g \in Stored
    BY <1>1
  <2>2. ts[prev[g]] < ts[g] /\ ts[g] <= ts[prev[g]]
    BY <1>2, <1>3, <2>1 DEF Table
  <2>3. ts[g] \in Nat /\ ts[prev[g]] \in Nat
    BY <1>2, <2>1 DEF Table
  <2> QED
    BY <2>2, <2>3
<1>5. ASSUME NEW f \in V \ {g}
      PROVE  prev[f] \in V /\ Eldest(f)
  <2>1. prev[f] \in W /\ f \in Stored /\ g \in Stored /\ f # g /\ Eldest(f) /\ Eldest(g)
    BY <1>1, <1>5
  <2>2. prev[f] # e
    <3> SUFFICES ASSUME prev[f] = e
                 PROVE  FALSE
      OBVIOUS
    <3>1. ts[f] <= ts[g] /\ ts[g] <= ts[f]
      BY <1>4, <2>1 DEF Eldest
    <3>2. ts[f] \in Nat /\ ts[g] \in Nat /\ ts[f] # ts[g]
      BY <2>1 DEF Table
    <3> QED
      BY <3>1, <3>2
  <2> QED
    BY <2>1, <2>2
<1>6. CommitsFirst(r, g)
  BY <1>2, <1>5 DEF CommitsFirst
<1> QED
  BY <1>1, <1>4, <1>6

-----------------------------------------------------------------------------
(* The walk along the rows                                                  *)

(* f begins with x and goes on from each value, and its number, by step.     *)
Follows(f, step, x) == f[0] = x /\ \A n \in Nat : f[n + 1] = step[<<f[n], n>>]

(* There is such a function: one that does so up to n is extended by one,    *)
(* and any two that do so up to n agree up to there.                        *)
LEMMA FollowsExists ==
    ASSUME NEW S, NEW step \in [S \X Nat -> S], NEW x \in S
    PROVE  \E f \in [Nat -> S] : Follows(f, step, x)
<1> DEFINE Upto(f, n) == f[0] = x /\ \A m \in 0 .. (n - 1) : f[m + 1] = step[<<f[m], m>>]
           T == {n \in Nat : ~ \E f \in [Nat -> S] : Upto(f, n)}
           F == [n \in Nat |-> CHOOSE f \in [Nat -> S] : Upto(f, n)]
<1>1. Upto([n \in Nat |-> x], 0)
  OBVIOUS
<1>2. ASSUME NEW n \in Nat, NEW f \in [Nat -> S], Upto(f, n)
      PROVE  \E g \in [Nat -> S] : Upto(g, n + 1)
  <2> DEFINE g == [f EXCEPT ![n + 1] = step[<<f[n], n>>]]
  <2>1. g \in [Nat -> S] /\ g[0] = x
    <3>1. step[<<f[n], n>>] \in S
      OBVIOUS
    <3> QED
      BY <1>2, <3>1
  <2>2. ASSUME NEW m \in 0 .. ((n + 1) - 1)
        PROVE  g[m + 1] = step[<<g[m], m>>]
    <3>1. m \in Nat /\ m + 1 \in Nat /\ m # n + 1 /\ g[m] = f[m]
      OBVIOUS
    <3>2. CASE m = n
      BY <3>1, <3>2
    <3>3. CASE m # n
      <4>1. m \in 0 .. (n - 1) /\ m + 1 # n + 1
        BY <3>3
      <4> QED
        BY <1>2, <3>1, <4>1
    <3> QED
      BY <3>2, <3>3
  <2> HIDE DEF g
  <2> QED
    BY <2>1, <2>2
<1>3. T = {}
  <2> SUFFICES ASSUME T # {}
               PROVE  FALSE
    OBVIOUS
  <2> HIDE DEF Upto
  <2>1. PICK n \in T : \A m \in T : ~ (m < n)
    BY LeastNat
  <2>2. [k \in Nat |-> x] \in [Nat -> S]
    OBVIOUS
  <2>3. n # 0 /\ n - 1 \in Nat /\ (n - 1) + 1 = n /\ n - 1 < n
    BY <1>1, <2>1, <2>2
  <2>4. \E f \in [Nat -> S] : Upto(f, n - 1)
    BY <2>1, <2>3
  <2> QED
    BY <1>2, <2>1, <2>3, <2>4
<1>4. ASSUME NEW n \in Nat
      PROVE  F[n] \in [Nat -> S] /\ Upto(F[n], n)
  <2> HIDE DEF Upto
  <2>1. \E f \in [Nat -> S] : Upto(f, n)
    BY <1>3
  <2> QED
    BY <2>1
<1> HIDE DEF F
<1>5. ASSUME NEW n \in Nat
      PROVE  F[n + 1][n] = F[n][n]
  <2> DEFINE D == {m \in 0 .. n : F[n + 1][m] # F[n][m]}
  <2>1. \A m \in 0 .. (n - 1) : /\ F[n][m + 1] = step[<<F[n][m], m>>]
                                /\ F[n + 1][m + 1] = step[<<F[n + 1][m], m>>]
    <3>1. n + 1 \in Nat /\ (n + 1) - 1 = n
      OBVIOUS
    <3>2. Upto(F[n], n) /\ Upto(F[n + 1], n + 1)
      BY <1>4, <3>1
    <3> QED
      BY <3>1, <3>2
  <2>2. F[n + 1][0] = x /\ F[n][0] = x
    BY <1>4
  <2>3. SUFFICES ASSUME D # {}
                 PROVE  FALSE
    OBVIOUS
  <2>4. PICK m \in D : \A k \in D : ~ (k < m)
    <3>1. D \subseteq Nat
      OBVIOUS
    <3> QED
      BY <2>3, <3>1, LeastNat
  <2>5. m # 0 /\ m - 1 \in 0 .. (n - 1) /\ (m - 1) + 1 = m /\ m - 1 < m
    BY <2>2, <2>4
  <2>6. F[n + 1][m - 1] = F[n][m - 1]
    BY <2>4, <2>5
  <2> QED
    BY <2>1, <2>4, <2>5, <2>6
<1> DEFINE f == [n \in Nat |-> F[n][n]]
<1>6. f \in [Nat -> S] /\ f[0] = x
  BY <1>4
<1>7. ASSUME NEW n \in Nat
      PROVE  f[n + 1] = step[<<f[n], n>>]
  <2>1. n + 1 \in Nat /\ n \in 0 .. ((n + 1) - 1)
    OBVIOUS
  <2>2. Upto(F[n + 1], n + 1)
    BY <1>4, <2>1
  <2>3. F[n + 1][n + 1] = step[<<F[n + 1][n], n>>]
    BY <2>1, <2>2
  <2> QED
    BY <1>5, <2>1, <2>3
<1> HIDE DEF f
<1>8. Follows(f, step, x)
  BY <1>6, <1>7 DEF Follows
<1> QED
  BY <1>6, <1>8

(* What the proof has gathered before a time.                               *)
Chains == [rows : Seq(Stored), next : Events \cup {Genesis}, done : BOOLEAN]
NoChain(e) == [rows |-> <<>>, next |-> prev[e], done |-> FALSE]

LEMMA TakeTyped ==
    ASSUME Table, NEW e \in Stored, NEW c \in Chains, NEW t \in Nat
    PROVE  TakeAt(e, c, t) \in Chains
<1>1. ASSUME NEW f \in Stored
      PROVE  Extend(c, f) \in Chains
  <2>1. c.rows \in Seq(Stored) /\ f \in Events
    BY DEF Chains, Table
  <2>2. Append(c.rows, f) \in Seq(Stored)
    BY <2>1
  <2> QED
    BY <2>1, <2>2 DEF Extend, Chains
<1>2. CASE \E f \in ProofRows(e) : ts[f] = t
  <2>1. (CHOOSE f \in ProofRows(e) : ts[f] = t) \in ProofRows(e)
    BY <1>2
  <2>2. (CHOOSE f \in ProofRows(e) : ts[f] = t) \in Stored
    BY <2>1 DEF ProofRows
  <2> QED
    BY <1>1, <1>2, <2>2 DEF TakeAt
<1>3. CASE ~ \E f \in ProofRows(e) : ts[f] = t
  BY <1>3 DEF TakeAt
<1> QED
  BY <1>2, <1>3

(* The proof takes the rows one after the other.                            *)
LEMMA ProofWalk ==
    ASSUME Table, NEW e \in Stored
    PROVE  \E chain \in [Nat -> Chains] :
              /\ chain[0] = NoChain(e)
              /\ \A t \in Nat : chain[t + 1] = TakeAt(e, chain[t], t)
              /\ Proof(e) = chain[clock + 1].rows
<1> DEFINE Walk(c) == c = [t \in Nat |->
                        IF t = 0 THEN [rows |-> <<>>, next |-> prev[e], done |-> FALSE]
                        ELSE TakeAt(e, c[t - 1], t - 1)]
<1>1. NoChain(e) \in Chains
  BY DEF NoChain, Chains, Table
<1>2. \E c : Walk(c)
  <2>1. PICK step \in [Chains \X Nat -> Chains] :
           \A c \in Chains, t \in Nat : step[<<c, t>>] = TakeAt(e, c, t)
    <3> DEFINE step == [p \in Chains \X Nat |-> TakeAt(e, p[1], p[2])]
    <3>1. step \in [Chains \X Nat -> Chains]
      BY TakeTyped
    <3>2. \A c \in Chains, t \in Nat : step[<<c, t>>] = TakeAt(e, c, t)
      OBVIOUS
    <3> HIDE DEF step
    <3> QED
      BY <3>1, <3>2
  <2>2. PICK f \in [Nat -> Chains] : Follows(f, step, NoChain(e))
    <3> HIDE DEF Walk
    <3> QED
      BY <1>1, FollowsExists, Zenon
  <2>3. ASSUME NEW t \in Nat
        PROVE  f[t] = IF t = 0 THEN [rows |-> <<>>, next |-> prev[e], done |-> FALSE]
                      ELSE TakeAt(e, f[t - 1], t - 1)
    <3>1. CASE t = 0
      BY <2>2, <3>1 DEF Follows, NoChain
    <3>2. CASE t # 0
      <4>1. t - 1 \in Nat /\ (t - 1) + 1 = t /\ f[t - 1] \in Chains
        BY <3>2
      <4>2. f[(t - 1) + 1] = step[<<f[t - 1], t - 1>>]
        BY <2>2, <4>1 DEF Follows
      <4> QED
        BY <2>1, <3>2, <4>1, <4>2
    <3> QED
      BY <3>1, <3>2
  <2>4. Walk(f)
    BY <2>3
  <2> HIDE DEF Walk
  <2> QED
    BY <2>4
<1> DEFINE chain == CHOOSE c : Walk(c)
<1>3. Walk(chain)
  <2> HIDE DEF Walk
  <2> QED
    BY <1>2
<1>4. Proof(e) = chain[clock + 1].rows
  BY DEF Proof
<1> HIDE DEF chain
<1>5. chain[0] = NoChain(e)
  BY <1>3 DEF NoChain
<1>6. ASSUME NEW t \in Nat
      PROVE  chain[t + 1] = TakeAt(e, chain[t], t)
  <2>1. t + 1 \in Nat /\ t + 1 # 0 /\ (t + 1) - 1 = t
    OBVIOUS
  <2>2. chain[t + 1] = IF t + 1 = 0 THEN [rows |-> <<>>, next |-> prev[e], done |-> FALSE]
                       ELSE TakeAt(e, chain[(t + 1) - 1], (t + 1) - 1)
    BY <1>3, <2>1, Zenon
  <2> QED
    BY <2>1, <2>2
<1>7. \A t \in Nat : chain[t] \in Chains
  <2> DEFINE T == {t \in Nat : chain[t] \notin Chains}
  <2> SUFFICES ASSUME T # {}
               PROVE  FALSE
    OBVIOUS
  <2>1. PICK t \in T : \A k \in T : ~ (k < t)
    BY LeastNat
  <2>2. t # 0 /\ t - 1 \in Nat /\ (t - 1) + 1 = t /\ t - 1 < t
    BY <1>1, <1>5, <2>1
  <2>3. chain[t - 1] \in Chains
    BY <2>1, <2>2
  <2>4. chain[(t - 1) + 1] \in Chains
    BY <1>6, <2>2, <2>3, TakeTyped
  <2> QED
    BY <2>1, <2>2, <2>4
<1>8. chain \in [Nat -> Chains]
  BY <1>3, <1>7
<1> QED
  BY <1>4, <1>5, <1>6, <1>8

(* What has been gathered before t begins with the event, each row being the *)
(* oldest that continues from the one before, and is complete with the root. *)
Gathered(e, c, t) ==
    /\ c.rows = <<>> => c = NoChain(e) /\ (t <= ts[e] \/ ProofRows(e) = {})
    /\ c.rows # <<>> => /\ c.rows[1] = e
                        /\ c.next = c.rows[Len(c.rows)]
                        /\ c.next \in ProofRows(e)
    /\ \A i \in 2 .. Len(c.rows) : prev[c.rows[i]] = c.rows[i - 1] /\ Eldest(c.rows[i])
    /\ c.done <=> \E i \in 1 .. Len(c.rows) : c.rows[i] = root.event
    /\ c.rows # <<>> /\ ~ c.done =>
          \A f \in ProofRows(e) : prev[f] = c.next => ts[f] >= t

(* If the root commits to the event it commits to the last row gathered.    *)
Reached(e, c) ==
    HasRoot(e) /\ CommitsFirst(root.event, e) /\ c.rows # <<>>
        => CommitsFirst(root.event, c.next)

(* The rows of a proof, if any, are those from the event to the root.       *)
LEMMA RowsOfProof ==
    ASSUME Table, RootTyped, NEW e \in Stored
    PROVE  /\ ProofRows(e) \subseteq Stored
           /\ \A f \in ProofRows(e) : ts[f] >= ts[e]
           /\ \A f \in ProofRows(e), g \in Stored :
                 ts[e] <= ts[g] /\ ts[g] <= ts[f] => g \in ProofRows(e)
<1>1. \A f \in Stored : ts[f] \in Nat
  BY DEF Table
<1>2. CASE ~ HasRoot(e)
  BY <1>1, <1>2 DEF ProofRows
<1>3. CASE HasRoot(e)
  <2>1. root.event \in Stored
    BY <1>3 DEF HasRoot, RootTyped
  <2>2. ts[root.event] \in Nat
    BY <1>1, <2>1
  <2> QED
    BY <1>1, <1>3, <2>2 DEF ProofRows
<1> QED
  BY <1>2, <1>3

(* Of the rows that share a prev_hash only one is the oldest.               *)
LEMMA OneEldest ==
    ASSUME Table, NEW f \in Stored, NEW g \in Stored, prev[f] = prev[g], Eldest(f), Eldest(g)
    PROVE  f = g
<1>1. ts[f] <= ts[g] /\ ts[g] <= ts[f]
  BY DEF Eldest
<1>2. ts[f] \in Nat /\ ts[g] \in Nat
  BY DEF Table
<1>3. ts[f] = ts[g]
  BY <1>1, <1>2
<1> QED
  BY <1>3 DEF Table

(* The row at t is the event, or the oldest to continue from the last one.  *)
LEMMA ExtendGathers ==
    ASSUME Table, RootTyped, NEW e \in Stored, NEW c \in Chains, NEW t \in Nat,
           Gathered(e, c, t), Reached(e, c),
           NEW f \in ProofRows(e), ts[f] = t, prev[f] = c.next, ~ c.done
    PROVE  LET d == [rows |-> Append(c.rows, f), next |-> f, done |-> root.event = f]
           IN  Gathered(e, d, t + 1) /\ Reached(e, d)
<1> DEFINE n == Len(c.rows)
           rows == Append(c.rows, f)
<1>1. /\ c.rows \in Seq(Stored) /\ n \in Nat
      /\ rows \in Seq(Stored) /\ Len(rows) = n + 1
      /\ rows[n + 1] = f /\ \A i \in 1 .. n : rows[i] = c.rows[i]
      /\ rows # <<>>
  <2>1. c.rows \in Seq(Stored) /\ f \in Stored
    BY RowsOfProof DEF Chains
  <2> QED
    BY <2>1
<1>2. c.rows = <<>> <=> n = 0
  BY <1>1
<1>3. /\ c.rows = <<>> => c.next = prev[e] /\ t <= ts[e]
      /\ c.rows # <<>> => c.rows[1] = e /\ c.next = c.rows[n] /\ c.next \in ProofRows(e)
      /\ \A i \in 2 .. n : prev[c.rows[i]] = c.rows[i - 1] /\ Eldest(c.rows[i])
      /\ \A i \in 1 .. n : c.rows[i] # root.event
      /\ c.rows # <<>> => \A g \in ProofRows(e) : prev[g] = c.next => ts[g] >= t
  BY DEF Gathered, NoChain
<1>4. /\ f \in Stored /\ ts[f] \in Nat /\ ts[e] \in Nat
      /\ ts[f] >= ts[e] /\ f \in Events /\ e \in Events
  BY RowsOfProof DEF Table
<1> HIDE DEF rows, n
<1>5. rows[1] = e
  <2>1. CASE n = 0
    <3>1. ts[f] = ts[e]
      BY <1>2, <1>3, <1>4, <2>1
    <3>2. f = e
      BY <1>4, <3>1 DEF Table
    <3> QED
      BY <1>1, <2>1, <3>2
  <2>2. CASE n # 0
    BY <1>1, <1>2, <1>3, <2>2
  <2> QED
    BY <2>1, <2>2
<1>6. ASSUME n # 0
      PROVE  Eldest(f)
  <2> SUFFICES ASSUME NEW g \in Stored, prev[g] = prev[f], ~ (ts[f] <= ts[g])
               PROVE  FALSE
    BY DEF Eldest
  <2>1. /\ c.next \in ProofRows(e) /\ c.next \in Stored /\ prev[g] = c.next
        /\ ts[c.next] >= ts[e]
    BY <1>2, <1>3, <1>6, RowsOfProof
  <2>2. ts[c.next] < ts[g] /\ ts[g] \in Nat /\ ts[c.next] \in Nat
    BY <2>1 DEF Table
  <2>3. ts[e] <= ts[g] /\ ts[g] <= ts[f]
    BY <1>4, <2>1, <2>2
  <2>4. g \in ProofRows(e)
    BY <2>3, RowsOfProof
  <2> QED
    BY <1>2, <1>3, <1>4, <1>6, <2>1, <2>2, <2>4
<1>7. ASSUME NEW i \in 2 .. (n + 1)
      PROVE  prev[rows[i]] = rows[i - 1] /\ Eldest(rows[i])
  <2>1. CASE i = n + 1
    <3>1. n # 0 /\ n \in 1 .. n
      BY <1>1, <2>1
    <3>2. prev[f] = c.rows[n] /\ c.rows[n] = rows[n]
      BY <1>1, <1>2, <1>3, <3>1
    <3>3. rows[i] = f /\ rows[i - 1] = rows[n]
      BY <1>1, <2>1
    <3> QED
      BY <1>6, <3>1, <3>2, <3>3
  <2>2. CASE i # n + 1
    <3>1. i \in 2 .. n /\ i \in 1 .. n /\ i - 1 \in 1 .. n
      BY <1>1, <2>2
    <3> QED
      BY <1>1, <1>3, <3>1
  <2> QED
    BY <2>1, <2>2
<1>8. root.event = f <=> \E i \in 1 .. (n + 1) : rows[i] = root.event
  <2>1. ASSUME NEW i \in 1 .. (n + 1), rows[i] = root.event
        PROVE  root.event = f
    <3>1. i = n + 1
      BY <1>1, <1>3, <2>1
    <3> QED
      BY <1>1, <2>1, <3>1
  <2>2. n + 1 \in 1 .. (n + 1)
    BY <1>1
  <2> QED
    BY <1>1, <2>1, <2>2
<1>9. ASSUME NEW g \in ProofRows(e), prev[g] = f
      PROVE  ts[g] >= t + 1
  <2>1. g \in Stored /\ ts[g] \in Nat
    BY RowsOfProof DEF Table
  <2>2. ts[f] < ts[g]
    BY <1>4, <1>9, <2>1 DEF Table
  <2> QED
    BY <1>4, <2>1, <2>2
<1>10. ASSUME HasRoot(e), CommitsFirst(root.event, e)
       PROVE  CommitsFirst(root.event, f)
  <2>1. root.event \in Stored
    BY <1>10 DEF HasRoot, RootTyped
  <2>2. CASE n = 0
    BY <1>1, <1>5, <1>10, <2>2
  <2>3. CASE n # 0
    <3>1. c.next \in Stored /\ CommitsFirst(root.event, c.next)
      BY <1>2, <1>3, <1>10, <2>3, RowsOfProof DEF Reached
    <3>2. c.next # root.event
      <4>1. n \in 1 .. n
        BY <1>1, <2>3
      <4> QED
        BY <1>2, <1>3, <2>3, <4>1
    <3>3. PICK g \in Stored :
             prev[g] = c.next /\ Eldest(g) /\ CommitsFirst(root.event, g)
      BY <2>1, <3>1, <3>2, CommitsToNext
    <3>4. g = f
      BY <1>4, <1>6, <2>3, <3>3, OneEldest
    <3> QED
      BY <3>3, <3>4
  <2> QED
    BY <2>2, <2>3
<1>11. ASSUME NEW d, d = [rows |-> rows, next |-> f, done |-> root.event = f]
       PROVE  Gathered(e, d, t + 1) /\ Reached(e, d)
  <2>1. d.rows = rows /\ d.next = f /\ (d.done <=> root.event = f)
    BY <1>11
  <2>2. Gathered(e, d, t + 1)
    BY <1>1, <1>5, <1>7, <1>8, <1>9, <2>1 DEF Gathered
  <2>3. Reached(e, d)
    BY <1>10, <2>1 DEF Reached
  <2> QED
    BY <2>2, <2>3
<1> QED
  BY <1>11 DEF rows

LEMMA TakeGathers ==
    ASSUME Table, RootTyped, NEW e \in Stored, NEW c \in Chains, NEW t \in Nat,
           Gathered(e, c, t), Reached(e, c)
    PROVE  Gathered(e, TakeAt(e, c, t), t + 1) /\ Reached(e, TakeAt(e, c, t))
<1>1. /\ ProofRows(e) \subseteq Stored
      /\ \A f \in ProofRows(e) : ts[f] \in Nat /\ ts[f] >= ts[e]
      /\ \A f, g \in ProofRows(e) : ts[f] = ts[g] => f = g
      /\ ts[e] \in Nat
  BY RowsOfProof DEF Table
<1>2. ASSUME NEW f \in ProofRows(e), ts[f] = t
      PROVE  TakeAt(e, c, t) = Extend(c, f)
  <2>1. \A g \in ProofRows(e) : ts[g] = t => g = f
    BY <1>1, <1>2
  <2>2. (CHOOSE g \in ProofRows(e) : ts[g] = t) = f
    BY <1>2, <2>1
  <2> QED
    BY <1>2, <2>2 DEF TakeAt
<1>3. CASE \E f \in ProofRows(e) : ts[f] = t /\ prev[f] = c.next /\ ~ c.done
  <2>1. PICK f \in ProofRows(e) : ts[f] = t /\ prev[f] = c.next /\ ~ c.done
    BY <1>3
  <2>2. TakeAt(e, c, t) = [rows |-> Append(c.rows, f), next |-> f, done |-> root.event = f]
    BY <1>2, <2>1 DEF Extend
  <2> QED
    BY <2>1, <2>2, ExtendGathers
<1>4. CASE ~ \E f \in ProofRows(e) : ts[f] = t /\ prev[f] = c.next /\ ~ c.done
  <2>1. TakeAt(e, c, t) = c
    <3>1. CASE \E f \in ProofRows(e) : ts[f] = t
      BY <1>2, <1>4, <3>1 DEF Extend
    <3>2. CASE ~ \E f \in ProofRows(e) : ts[f] = t
      BY <3>2 DEF TakeAt
    <3> QED
      BY <3>1, <3>2
  <2>2. ASSUME c.rows = <<>>
        PROVE  t + 1 <= ts[e] \/ ProofRows(e) = {}
    <3> SUFFICES ASSUME NEW f \in ProofRows(e), ~ (t + 1 <= ts[e])
                 PROVE  FALSE
      OBVIOUS
    <3>1. c = NoChain(e) /\ t = ts[e]
      BY <1>1, <2>2 DEF Gathered
    <3>2. e \in ProofRows(e)
      <4>1. ts[f] >= ts[e] /\ ts[e] <= ts[e]
        BY <1>1
      <4> QED
        BY <1>1, <4>1, RowsOfProof
    <3>3. prev[e] = c.next /\ ~ c.done
      BY <3>1 DEF NoChain
    <3> QED
      BY <1>4, <3>1, <3>2, <3>3
  <2>3. ASSUME c.rows # <<>>, ~ c.done, NEW f \in ProofRows(e), prev[f] = c.next
        PROVE  ts[f] >= t + 1
    <3>1. ts[f] >= t
      BY <2>3 DEF Gathered
    <3>2. ts[f] # t
      BY <1>4, <2>3
    <3> QED
      BY <1>1, <3>1, <3>2
  <2>4. Gathered(e, c, t + 1)
    BY <2>2, <2>3 DEF Gathered
  <2> QED
    BY <2>1, <2>4
<1> QED
  BY <1>3, <1>4

(* The proof is linked, begins with the event, and holds the root if the     *)
(* root commits to the event.                                               *)
LEMMA ProofGathers ==
    ASSUME Table, RootTyped, NEW e \in Stored
    PROVE  \E c \in Chains :
              Proof(e) = c.rows /\ Gathered(e, c, clock + 1) /\ Reached(e, c)
<1>1. PICK chain \in [Nat -> Chains] :
         /\ chain[0] = NoChain(e)
         /\ \A t \in Nat : chain[t + 1] = TakeAt(e, chain[t], t)
         /\ Proof(e) = chain[clock + 1].rows
  BY ProofWalk
<1> DEFINE Good(t) == Gathered(e, chain[t], t) /\ Reached(e, chain[t])
           T == {t \in Nat : ~ Good(t)}
<1>2. Good(0)
  <2>1. Gathered(e, NoChain(e), 0)
    <3>1. 0 <= ts[e]
      BY DEF Table
    <3> QED
      BY <3>1 DEF Gathered, NoChain
  <2>2. Reached(e, NoChain(e))
    BY DEF Reached, NoChain
  <2> QED
    BY <1>1, <2>1, <2>2
<1>3. ASSUME NEW t \in Nat, Good(t)
      PROVE  Good(t + 1)
  <2>1. chain[t] \in Chains /\ chain[t + 1] = TakeAt(e, chain[t], t)
    BY <1>1
  <2> QED
    BY <1>3, <2>1, TakeGathers
<1> HIDE DEF Good
<1>4. T = {}
  <2> SUFFICES ASSUME T # {}
               PROVE  FALSE
    OBVIOUS
  <2>1. PICK t \in T : \A k \in T : ~ (k < t)
    BY LeastNat
  <2>2. t # 0 /\ t - 1 \in Nat /\ (t - 1) + 1 = t /\ t - 1 < t
    BY <1>2, <2>1
  <2>3. Good(t - 1)
    BY <2>1, <2>2
  <2> QED
    BY <1>3, <2>1, <2>2, <2>3
<1>5. clock + 1 \in Nat
  BY DEF Table
<1>6. Good(clock + 1)
  BY <1>4, <1>5
<1> QED
  BY <1>1, <1>5, <1>6 DEF Good

LEMMA TableProves ==
    ASSUME Table, RootTyped
    PROVE  ProofVerifies
<1> SUFFICES ASSUME NEW e \in Stored, NEW anchored \in BOOLEAN, HasRoot(e)
             PROVE  Verifies(e, anchored) <=>
                        CommitsFirst(root.event, e) /\ (anchored => prev[e] = Genesis)
  BY DEF ProofVerifies
<1> DEFINE rows == Proof(e)
<1>1. PICK c \in Chains :
         rows = c.rows /\ Gathered(e, c, clock + 1) /\ Reached(e, c)
  BY ProofGathers
<1>2. root.event \in Stored
  BY DEF HasRoot, RootTyped
<1>3. rows \in Seq(Stored)
  BY <1>1 DEF Chains
<1>4. /\ rows # <<>> => rows[1] = e /\ c.next = rows[Len(rows)] /\ c.next \in ProofRows(e)
      /\ rows = <<>> => clock + 1 <= ts[e] \/ ProofRows(e) = {}
      /\ \A i \in 2 .. Len(rows) : prev[rows[i]] = rows[i - 1] /\ Eldest(rows[i])
      /\ c.done <=> \E i \in 1 .. Len(rows) : rows[i] = root.event
      /\ rows # <<>> /\ ~ c.done =>
            \A f \in ProofRows(e) : prev[f] = c.next => ts[f] >= clock + 1
  BY <1>1 DEF Gathered
<1>5. \A x : x \in ToSet(rows) <=> \E i \in 1 .. Len(rows) : rows[i] = x
  BY <1>3 DEF ToSet
<1>6. Verifies(e, anchored) <=> /\ rows # <<>>
                                /\ root.event \in ToSet(rows)
                                /\ anchored => prev[e] = Genesis
  BY <1>4 DEF Verifies
<1> HIDE DEF rows
<1>7. ASSUME rows # <<>>, root.event \in ToSet(rows)
      PROVE  CommitsFirst(root.event, e)
  <2> DEFINE W == ToSet(rows)
  <2>1. Len(rows) \in Nat /\ Len(rows) # 0 /\ \A i \in 1 .. Len(rows) : rows[i] \in Stored
    BY <1>3, <1>7
  <2>2. W \in SUBSET Stored /\ e \in W
    BY <1>4, <1>5, <1>7, <2>1
  <2>3. ASSUME NEW f \in W \ {e}
        PROVE  prev[f] \in W /\ Eldest(f)
    <3>1. PICK i \in 1 .. Len(rows) : rows[i] = f
      BY <1>5
    <3>2. i \in 2 .. Len(rows) /\ i - 1 \in 1 .. Len(rows)
      BY <1>4, <1>7, <2>1, <3>1
    <3> QED
      BY <1>4, <1>5, <3>1, <3>2
  <2> HIDE DEF W
  <2> QED
    BY <1>7, <2>2, <2>3 DEF CommitsFirst, W
<1>8. ASSUME CommitsFirst(root.event, e)
      PROVE  rows # <<>> /\ root.event \in ToSet(rows)
  <2>1. /\ \A f \in Stored : ts[f] \in Nat /\ ts[f] <= clock
        /\ clock \in Nat
        /\ ts[e] <= ts[root.event]
    BY <1>2, <1>8, CommitsToOlder DEF Table
  <2>2. ASSUME NEW f \in Stored, ts[e] <= ts[f], ts[f] <= ts[root.event]
        PROVE  f \in ProofRows(e)
    <3>1. ts[f] >= ts[e]
      BY <2>1, <2>2
    <3> QED
      BY <2>2, <3>1 DEF ProofRows
  <2>3. rows # <<>>
    <3>1. e \in ProofRows(e) /\ ~ (clock + 1 <= ts[e])
      BY <2>1, <2>2
    <3> QED
      BY <1>4, <3>1
  <2>4. c.done
    <3> SUFFICES ASSUME ~ c.done
                 PROVE  FALSE
      OBVIOUS
    <3>1. /\ c.next \in Stored /\ ts[c.next] >= ts[e]
          /\ CommitsFirst(root.event, c.next)
      BY <1>1, <1>4, <1>8, <2>3, RowsOfProof DEF Reached
    <3>2. c.next # root.event
      <4>1. Len(rows) \in 1 .. Len(rows)
        BY <1>3, <2>3
      <4> QED
        BY <1>4, <2>3, <4>1
    <3>3. PICK g \in Stored : prev[g] = c.next /\ CommitsFirst(root.event, g)
      BY <1>2, <3>1, <3>2, CommitsToNext
    <3>4. ts[g] <= ts[root.event] /\ ts[c.next] < ts[g]
      BY <1>2, <3>1, <3>3, CommitsToOlder DEF Table
    <3>5. g \in ProofRows(e)
      BY <2>1, <2>2, <3>1, <3>4
    <3>6. ts[g] >= clock + 1
      BY <1>4, <2>3, <3>3, <3>5
    <3> QED
      BY <2>1, <3>6
  <2> QED
    BY <1>4, <1>5, <2>3, <2>4
<1> QED
  BY <1>6, <1>7, <1>8

LEMMA ProofInvStep ==
    ChainInv /\ RootTyped /\ [ProofNext]_proofVars => ChainInv' /\ RootTyped'
<1>1. ChainInv /\ [AuditNext]_auditVars => ChainInv'
  BY ChainStep
<1>2. ChainInv => AuditTypeOK
  BY DEF ChainInv, TInv
<1> QED
  BY <1>1, <1>2, RootStep, ProofStepIsChainStep

(* "Verify one event": whatever overlapping emits, crashes, dropped batches   *)
(* and roots come between them, an event's proof under a root signed after    *)
(* it verifies exactly if that root commits to the event by the oldest        *)
(* branches and the customer has no genesis anchor or the event is its first *)
(* (audit.proof, verifyBundle).                                              *)
THEOREM AuditProofVerifies == ProofSpec => []ProofVerifies
<1>1. ProofInit => ChainInv /\ RootTyped
  BY ChainInit DEF ProofInit, RootTyped
<1>2. ChainInv /\ RootTyped /\ [ProofNext]_proofVars => ChainInv' /\ RootTyped'
  BY ProofInvStep
<1>3. ChainInv /\ RootTyped => ProofVerifies
  BY ChainIsTable, TableProves
<1> QED
  BY <1>1, <1>2, <1>3, PTL DEF ProofSpec

-----------------------------------------------------------------------------
(* What stays                                                               *)

(* The table only grows, behind the rows it has.                            *)
AppendOnly ==
    /\ Stored \subseteq Stored'
    /\ \A e \in Stored : ts'[e] = ts[e] /\ prev'[e] = prev[e]
    /\ \A e \in Stored, f \in Stored' \ Stored : ts[e] < ts'[f]

LEMMA TableAppends ==
    ASSUME ChainInv, [AuditNext]_auditVars
    PROVE  AppendOnly
<1>1. Stored \subseteq Stored'
  BY StoredGrows DEF ChainInv, TInv
<1>2. AuditTypeOK /\ Batches
  BY DEF ChainInv, TInv
<1>3. \A e \in Stored : ts'[e] = ts[e] /\ prev'[e] = prev[e]
  <2> SUFFICES ASSUME NEW e \in Events, status[e] = "stored"
               PROVE  ts'[e] = ts[e] /\ prev'[e] = prev[e]
    BY DEF Stored, Having
  <2>1. ASSUME NEW f \in Events,
               EmitCached(f) \/ EmitHydrating(f) \/ EmitRejected(f) \/ EmitDone(f)
        PROVE  ts'[e] = ts[e] /\ prev'[e] = prev[e]
    BY <1>2, <2>1 DEF EmitCached, EmitHydrating, EmitRejected, EmitDone, Begin, AuditTypeOK
  <2>2. CASE HydrateDone
    BY <1>2, <2>2 DEF HydrateDone, AuditTypeOK
  <2>3. CASE HydrateRead \/ HydrateFail \/ Flush \/ Insert \/ InsertFail \/ Crash \/ UNCHANGED auditVars
    BY <2>3 DEF HydrateRead, HydrateFail, Flush, Insert, InsertFail, Crash, auditVars
  <2> QED
    BY <2>1, <2>2, <2>3 DEF AuditNext
<1>4. ASSUME NEW f \in Stored', f \notin Stored
      PROVE  status[f] = "writing" /\ ts'[f] = ts[f]
  <2>1. f \in Events /\ status'[f] = "stored" /\ status[f] # "stored"
    BY <1>4 DEF Stored, Having
  <2>2. ASSUME NEW g \in Events,
               EmitCached(g) \/ EmitHydrating(g) \/ EmitRejected(g) \/ EmitDone(g)
        PROVE  FALSE
    BY <1>2, <2>1, <2>2 DEF EmitCached, EmitHydrating, EmitRejected, EmitDone, Begin, AuditTypeOK
  <2>3. CASE HydrateRead \/ HydrateDone \/ HydrateFail \/ Flush \/ InsertFail \/ UNCHANGED auditVars
    BY <2>1, <2>3
    DEF HydrateRead, HydrateDone, HydrateFail, Flush, InsertFail, Move, Having, auditVars
  <2>4. CASE Insert \/ Crash
    BY <2>1, <2>4 DEF Insert, Crash, Move, Having
  <2> QED
    BY <2>2, <2>3, <2>4 DEF AuditNext
<1>5. \A e \in Stored, f \in Stored' \ Stored : ts[e] < ts'[f]
  <2> SUFFICES ASSUME NEW e \in Stored, NEW f \in Stored', f \notin Stored
               PROVE  ts[e] < ts'[f]
    OBVIOUS
  <2>1. status[f] = "writing" /\ ts'[f] = ts[f] /\ f \in Events
    BY <1>4 DEF Stored, Having
  <2> QED
    BY <1>2, <2>1 DEF Batches, Stored, Having
<1> QED
  BY <1>1, <1>3, <1>5 DEF AppendOnly

(* The table is an append-only log: no row is changed or removed, and what    *)
(* comes is newer than all that is there, for emits are done in order,        *)
(* batches are written one after the other and a crash leaves none behind    *)
(* (flush, insertBatch).                                                     *)
THEOREM AuditAppendOnly == AuditSpec => [][AppendOnly]_auditVars
<1>1. ChainInv /\ [AuditNext]_auditVars => ChainInv'
  BY ChainStep
<1>2. ChainInv /\ [AuditNext]_auditVars => [AppendOnly]_auditVars
  BY TableAppends
<1> QED
  BY <1>1, <1>2, ChainInit, PTL DEF AuditSpec

(* A row that is the oldest of its fork is so ever after.                   *)
LEMMA EldestStays ==
    ASSUME Table, Table', AppendOnly, NEW f \in Stored
    PROVE  Eldest(f) <=> Eldest(f)'
<1>1. f \in Stored' /\ prev'[f] = prev[f] /\ ts'[f] = ts[f] /\ ts[f] \in Nat
  BY DEF AppendOnly, Table
<1>2. ASSUME Eldest(f), NEW g \in Stored', prev'[g] = prev'[f]
      PROVE  ts'[f] <= ts'[g]
  <2>1. CASE g \in Stored
    BY <1>1, <1>2, <2>1 DEF Eldest, AppendOnly
  <2>2. CASE g \notin Stored
    <3>1. ts[f] < ts'[g] /\ ts'[g] \in Nat
      BY <2>2 DEF AppendOnly, Table
    <3> QED
      BY <1>1, <3>1
  <2> QED
    BY <2>1, <2>2
<1>3. ASSUME Eldest(f)', NEW g \in Stored, prev[g] = prev[f]
      PROVE  ts[f] <= ts[g]
  BY <1>1, <1>3 DEF Eldest, AppendOnly
<1> QED
  BY <1>2, <1>3 DEF Eldest

(* A row commits to the same rows ever after.                               *)
LEMMA CommitsStay ==
    ASSUME Table, Table', AppendOnly, NEW r \in Stored, NEW e \in Stored
    PROVE  CommitsFirst(r, e) <=> CommitsFirst(r, e)'
<1>1. ASSUME CommitsFirst(r, e)
      PROVE  CommitsFirst(r, e)'
  <2>1. PICK W \in SUBSET Stored :
           {r, e} \subseteq W /\ \A f \in W \ {e} : prev[f] \in W /\ Eldest(f)
    BY <1>1 DEF CommitsFirst
  <2>2. ASSUME NEW f \in W \ {e}
        PROVE  prev'[f] \in W /\ Eldest(f)'
    <3>1. f \in Stored /\ Eldest(f) /\ prev[f] \in W
      BY <2>1
    <3> QED
      BY <3>1, EldestStays DEF AppendOnly
  <2>3. W \in SUBSET (Stored')
    BY <2>1 DEF AppendOnly
  <2> QED
    BY <2>1, <2>2, <2>3 DEF CommitsFirst
<1>2. ASSUME CommitsFirst(r, e)'
      PROVE  CommitsFirst(r, e)
  <2>1. PICK W \in SUBSET (Stored') :
           {r, e} \subseteq W /\ \A f \in W \ {e} : prev'[f] \in W /\ Eldest(f)'
    BY <1>2 DEF CommitsFirst
  <2> DEFINE V == W \cap Stored
  <2>2. ASSUME NEW f \in V \ {e}
        PROVE  prev[f] \in V /\ Eldest(f)
    <3>1. f \in Stored /\ prev[f] \in W /\ prev'[f] = prev[f] /\ ts'[f] = ts[f]
      BY <2>1 DEF AppendOnly
    <3>2. prev[f] \in Stored' /\ f \in Stored'
      BY <2>1, <3>1
    <3>3. ts'[prev[f]] < ts[f] /\ ts'[prev[f]] \in Nat /\ ts[f] \in Nat
      BY <3>1, <3>2 DEF Table
    <3>4. prev[f] \in Stored
      <4> SUFFICES ASSUME prev[f] \notin Stored
                   PROVE  FALSE
        OBVIOUS
      <4>1. ts[f] < ts'[prev[f]]
        BY <3>1, <3>2 DEF AppendOnly
      <4> QED
        BY <3>3, <4>1
    <3>5. Eldest(f)
      BY <2>1, <3>1, EldestStays
    <3> QED
      BY <3>1, <3>4, <3>5
  <2>3. V \in SUBSET Stored /\ {r, e} \subseteq V
    BY <2>1
  <2> HIDE DEF V
  <2> QED
    BY <2>2, <2>3 DEF CommitsFirst
<1> QED
  BY <1>1, <1>2

(* What a root has proved it goes on proving.                               *)
VerdictStays ==
    \A e \in Stored, anchored \in BOOLEAN :
        root' = root /\ HasRoot(e) => (Verifies(e, anchored) <=> Verifies(e, anchored)')

LEMMA StepKeepsVerdicts ==
    ASSUME RootTyped, Table, Table', ProofVerifies, ProofVerifies', AppendOnly
    PROVE  VerdictStays
<1> SUFFICES ASSUME NEW e \in Stored, NEW anchored \in BOOLEAN, root' = root, HasRoot(e)
             PROVE  Verifies(e, anchored) <=> Verifies(e, anchored)'
  BY DEF VerdictStays
<1>1. root.event \in Stored
  BY DEF HasRoot, RootTyped
<1>2. /\ e \in Stored'
      /\ HasRoot(e)'
      /\ prev'[e] = prev[e]
  BY DEF AppendOnly, HasRoot, NoRoot
<1>3. CommitsFirst(root.event, e) <=> CommitsFirst(root.event, e)'
  <2>1. ASSUME NEW r \in Stored
        PROVE  CommitsFirst(r, e) <=> CommitsFirst(r, e)'
    BY CommitsStay
  <2> QED
    BY <1>1, <2>1 DEF CommitsFirst
<1> QED
  BY <1>2, <1>3 DEF ProofVerifies

(* An event whose proof verifies under a root verifies under it ever after,  *)
(* and one whose proof does not never will: rows that come later, on          *)
(* whichever branch, are not among those it is made of (audit.proof,         *)
(* verifyBundle).                                                            *)
THEOREM AuditVerdictStays == ProofSpec => [][VerdictStays]_proofVars
<1>1. ProofInit => ChainInv /\ RootTyped
  BY ChainInit DEF ProofInit, RootTyped
<1>2. ChainInv /\ RootTyped /\ [ProofNext]_proofVars => ChainInv' /\ RootTyped'
  BY ProofInvStep
<1>3. ChainInv /\ RootTyped => Table /\ ProofVerifies
  BY ChainIsTable, TableProves
<1>4. ChainInv /\ [ProofNext]_proofVars => AppendOnly
  BY TableAppends, ProofStepIsChainStep
<1>5. /\ RootTyped
      /\ Table /\ Table'
      /\ ProofVerifies /\ ProofVerifies'
      /\ AppendOnly
      => [VerdictStays]_proofVars
  BY StepKeepsVerdicts
<1> QED
  BY <1>1, <1>2, <1>3, <1>4, <1>5, PTL DEF ProofSpec

=============================================================================
