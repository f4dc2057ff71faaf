----------------------------- MODULE AuditChain -----------------------------
(***************************************************************************)
(* The PDP's audit log for one customer: the emitter that chains each event  *)
(* to the hash of the one before it, hydrates that hash from the database    *)
(* when it first needs it and writes the events in batches, and the          *)
(* audit_events table.                                                       *)
(*                                                                          *)
(* An event stands for its own hash, which commits to all its fields and to  *)
(* its prev_hash.  An emit awaits the last hash even when it is cached, so   *)
(* it reads the hash in one step and replaces it in a later one, and emits   *)
(* may overlap; their steps are taken in the order in which they began.      *)
(* Any query may fail, and the process may crash at any point.               *)
(***************************************************************************)
EXTENDS Integers

CONSTANTS
    Events,         \* the audit events of the customer
    Genesis,        \* prev_hash of the first event
    NoEvent

ASSUME EventsAssumption == Genesis \notin Events /\ NoEvent \notin Events \cup {Genesis}

VARIABLES
    clock,      \* the latest ts
    status,     \* where each event is
    ts,         \* its ts
    prev,       \* its prev_hash
    last,       \* lastHashByCustomer, NoEvent until it is hydrated
    hydrating,  \* the hydration that emits wait for
    found       \* the hash its query has read

auditVars == <<clock, status, ts, prev, last, hydrating, found>>

-----------------------------------------------------------------------------
(* State                                                                    *)

(* "waiting" for the hydration, "chaining" with its prev_hash in hand; a     *)
(* crash makes an event "lost", a failed INSERT "dropped", and an emit that  *)
(* rejects leaves it "failed".                                               *)
Statuses == {"idle", "waiting", "chaining", "pending", "writing", "stored",
             "lost", "dropped", "failed"}

Having(s) == {e \in Events : status[e] = s}

Stored == Having("stored")

(* The events whose emit is done, as far as they are not lost or dropped.    *)
Emitted == Having("pending") \cup Having("writing") \cup Stored

(* Type correctness; an event that is past the await has a prev_hash.       *)
AuditTypeOK ==
    /\ clock \in Nat
    /\ status \in [Events -> Statuses]
    /\ ts \in [Events -> Nat]
    /\ prev \in [Events -> Events \cup {Genesis, NoEvent}]
    /\ last \in Events \cup {Genesis, NoEvent}
    /\ hydrating \in {"none", "sent", "read", "rejected"}
    /\ found \in Events \cup {Genesis, NoEvent}
    /\ \A e \in Events :
          status[e] \in {"chaining", "pending", "writing", "stored"} => prev[e] # NoEvent

AuditInit ==
    /\ clock = 0
    /\ status = [e \in Events |-> "idle"]
    /\ ts = [e \in Events |-> 0]
    /\ prev = [e \in Events |-> NoEvent]
    /\ last = NoEvent
    /\ hydrating = "none"
    /\ found = NoEvent

Move(from, to) == status' = [e \in Events |-> IF e \in from THEN to ELSE status[e]]

-----------------------------------------------------------------------------
(* Emitting                                                                 *)

(* A handler takes Date.now() and calls emit.                               *)
Begin(e, s) ==
    /\ status[e] = "idle"
    /\ clock' = clock + 1
    /\ ts' = [ts EXCEPT ![e] = clock']
    /\ status' = [status EXCEPT ![e] = s]

(* The last hash is cached.                                                 *)
EmitCached(e) ==
    /\ last # NoEvent
    /\ Begin(e, "chaining")
    /\ prev' = [prev EXCEPT ![e] = last]
    /\ UNCHANGED <<last, hydrating, found>>

(* It is not: the first emit sends the query, later ones wait for it.       *)
EmitHydrating(e) ==
    /\ last = NoEvent
    /\ hydrating # "rejected"
    /\ Begin(e, "waiting")
    /\ hydrating' = IF hydrating = "none" THEN "sent" ELSE hydrating
    /\ UNCHANGED <<prev, last, found>>

(* A rejected hydration is never removed: later emits await it and reject.  *)
EmitRejected(e) ==
    /\ last = NoEvent
    /\ hydrating = "rejected"
    /\ Begin(e, "failed")
    /\ UNCHANGED <<prev, last, hydrating, found>>

(* SELECT hash ... ORDER BY ts DESC LIMIT 1.                                *)
NewestOldest(e) == e \in Stored /\ \A f \in Stored : ts[e] <= ts[f]
Newest(e) == e \in Stored /\ \A f \in Stored : ts[f] <= ts[e]

HydrateRead ==
    /\ hydrating = "sent"
    /\ hydrating' = "read"
    /\ found' \in IF Stored = {} THEN {Genesis} ELSE {e \in Events : Newest(e)}
    /\ UNCHANGED <<clock, status, ts, prev, last>>

(* The answer becomes the last hash, and the prev_hash of all that wait.    *)
HydrateDone ==
    /\ hydrating = "read"
    /\ last' = found
    /\ prev' = [e \in Events |-> IF status[e] = "waiting" THEN found ELSE prev[e]]
    /\ Move(Having("waiting"), "chaining")
    /\ hydrating' = "none"
    /\ found' = NoEvent
    /\ UNCHANGED <<clock, ts>>

HydrateFail ==
    /\ hydrating = "sent"
    /\ hydrating' = "rejected"
    /\ Move(Having("waiting"), "failed")
    /\ UNCHANGED <<clock, ts, prev, last, found>>

(* The rest of emit: the event is the new last hash, and queued.            *)
EmitDone(e) ==
    /\ status[e] = "chaining"
    /\ \A f \in Having("chaining") : ts[e] <= ts[f]
    /\ last' = e
    /\ status' = [status EXCEPT ![e] = "pending"]
    /\ UNCHANGED <<clock, ts, prev, hydrating, found>>

-----------------------------------------------------------------------------
(* Writing                                                                  *)

(* flush, by the timer, the batch size or another flush that was waiting:    *)
(* one batch at a time, all that is pending.                                 *)
FlushFullBatch ==
    /\ Having("writing") = {}
    /\ \E e, f \in Having("pending") : e # f
    /\ Move(Having("pending"), "writing")
    /\ UNCHANGED <<clock, ts, prev, last, hydrating, found>>

Flush ==
    /\ Having("writing") = {}
    /\ Having("pending") # {}
    /\ Move(Having("pending"), "writing")
    /\ UNCHANGED <<clock, ts, prev, last, hydrating, found>>

(* insertBatch is one INSERT.                                               *)
InsertOneByOne ==
    /\ \E e \in Having("writing") : Move({e}, "stored")
    /\ UNCHANGED <<clock, ts, prev, last, hydrating, found>>

Insert ==
    /\ Having("writing") # {}
    /\ Move(Having("writing"), "stored")
    /\ UNCHANGED <<clock, ts, prev, last, hydrating, found>>

(* A failed batch is dropped.                                               *)
InsertFail ==
    /\ Having("writing") # {}
    /\ Move(Having("writing"), "dropped")
    /\ UNCHANGED <<clock, ts, prev, last, hydrating, found>>

(* The process dies and restarts with nothing in memory; the batch it was    *)
(* writing is in the table by then or never will be.                         *)
Crash ==
    /\ \E written \in BOOLEAN :
          status' = [e \in Events |->
              IF status[e] = "writing" /\ written THEN "stored"
              ELSE IF status[e] \in {"waiting", "chaining", "pending", "writing"} THEN "lost"
              ELSE status[e]]
    /\ last' = NoEvent
    /\ hydrating' = "none"
    /\ found' = NoEvent
    /\ UNCHANGED <<clock, ts, prev>>

-----------------------------------------------------------------------------

AuditNext ==
    \/ \E e \in Events : EmitCached(e) \/ EmitHydrating(e) \/ EmitRejected(e) \/ EmitDone(e)
    \/ HydrateRead \/ HydrateDone \/ HydrateFail
    \/ Flush \/ Insert \/ InsertFail
    \/ Crash

AuditSpec == AuditInit /\ [][AuditNext]_auditVars

(* Continuations run, queries are answered and the flush timer fires.       *)
AuditFairness ==
    /\ WF_auditVars(\E e \in Events : EmitDone(e))
    /\ WF_auditVars(HydrateRead) /\ WF_auditVars(HydrateDone)
    /\ WF_auditVars(Flush) /\ WF_auditVars(Insert)

AuditFairSpec == AuditSpec /\ AuditFairness

-----------------------------------------------------------------------------
(* Properties                                                               *)

(* "With a single PDP per env this is one chain so nothing gets filtered":   *)
(* no two rows of the table share a prev_hash.  Emits that overlap break it. *)
Linear ==
    \A e, f \in Stored : prev[e] = prev[f] => e = f

(* Nothing but overlap breaks it: no event is ever chained to a hash which    *)
(* one whose emit was done before has for its own prev_hash, whatever         *)
(* crashes, hydrations, failed batches and earlier forks came between.       *)
ForksByOverlapOnly ==
    [][\A f \in Events : prev'[f] # prev[f] =>
          \A e \in Emitted : prev[e] # prev'[f]]_auditVars

(* A crash costs the newest events only: no row refers to one that a crash   *)
(* lost.  What a failed INSERT dropped does leave a gap.                     *)
CrashLosesTail ==
    \A e \in Stored : prev[e] \in Stored \cup Having("dropped") \cup {Genesis}

(* An emit that began comes to an end: the event is written, or it is lost   *)
(* with the process, its batch or its hydration.                             *)
EmitSettles ==
    \A e \in Events :
        status[e] \in {"waiting", "chaining", "pending", "writing"}
            ~> status[e] \in {"stored", "lost", "dropped", "failed"}

=============================================================================
