----------------------------- MODULE Revocation -----------------------------
(***************************************************************************)
(* The revocation of UCANs, for one customer: the revocations table of the   *)
(* control plane, the push it sends to every PDP after a revoke, and each    *)
(* PDP's in-memory set, which pushes, the polling sweep and the boot of the  *)
(* process refresh by fetching the table.                                    *)
(*                                                                          *)
(* Time is kept as ages and countdowns, so that it needs no bound.  Latency  *)
(* bounds how long a fetch of the table takes; no timeout in the code        *)
(* enforces it.                                                              *)
(***************************************************************************)
EXTENDS Integers

CONSTANTS
    Pdps,           \* PDP processes
    Cids,           \* the customer's UCANs
    Sweep,          \* REVOCATION_REFRESH_MS
    Latency         \* longest time a fetch of the table takes

ASSUME TimingAssumption ==
    /\ Sweep \in Nat \ {0}
    /\ Latency \in Nat \ {0}

VARIABLES
    revoked,    \* the rows of the revocations table
    age,        \* time since each row was committed, up to Old
    push,       \* the push of each revocation to each PDP
    mode,       \* each PDP process
    known,      \* whether the customer is among the PDP's knownCustomers
    cache,      \* the PDP's revocation set (store)
    boot,       \* the fetch that warms the cache before the PDP listens
    inflight,   \* the fetch that sweeps and pushes share
    sweepIn,    \* time until the PDP's timer fires
    versions,   \* history: what the table has held
    failing     \* whether requests between the services may fail, and the
                \* customer be new to a PDP that boots

table == <<revoked, age, versions>>
process == <<mode, known>>
vars == <<revoked, age, push, mode, known, cache, boot, inflight, sweepIn,
          versions, failing>>

-----------------------------------------------------------------------------
(* State                                                                    *)

(* The longest a revocation takes to be enforced when nothing fails: it may  *)
(* just miss a fetch, whose end may just miss a sweep, whose fetch is slow.  *)
Bound == Sweep + 2 * Latency
Old == Bound + 1

Fetches == [pc : {"none", "sent", "read"}, got : SUBSET Cids,
            age : 0 .. Latency]

NoFetch == [pc |-> "none", got |-> {}, age |-> 0]
NewFetch == [pc |-> "sent", got |-> {}, age |-> 0]

TypeOK ==
    /\ revoked \subseteq Cids
    /\ age \in [Cids -> 0 .. Old]
    /\ push \in [Cids -> [Pdps -> {"none", "sent", "waiting", "acked", "failed"}]]
    /\ mode \in [Pdps -> {"down", "warming", "listening"}]
    /\ known \in [Pdps -> BOOLEAN]
    /\ cache \in [Pdps -> SUBSET Cids]
    /\ boot \in [Pdps -> Fetches]
    /\ inflight \in [Pdps -> Fetches]
    /\ sweepIn \in [Pdps -> 0 .. Sweep]
    /\ versions \subseteq SUBSET Cids /\ revoked \in versions
    /\ failing \in BOOLEAN

Init ==
    /\ revoked = {}
    /\ age = [c \in Cids |-> 0]
    /\ push = [c \in Cids |-> [p \in Pdps |-> "none"]]
    /\ mode = [p \in Pdps |-> "down"]
    /\ known = [p \in Pdps |-> FALSE]
    /\ cache = [p \in Pdps |-> {}]
    /\ boot = [p \in Pdps |-> NoFetch]
    /\ inflight = [p \in Pdps |-> NoFetch]
    /\ sweepIn = [p \in Pdps |-> Sweep]
    /\ versions = {{}}
    /\ failing \in BOOLEAN

-----------------------------------------------------------------------------
(* Time                                                                     *)

(* A running PDP's timer fires when it is due, and a fetch ends in time.    *)
Due(p) ==
    \/ mode[p] # "down" /\ sweepIn[p] = 0
    \/ \E fetch \in {boot[p], inflight[p]} :
          fetch.pc # "none" /\ fetch.age = Latency

Older(fetch) == IF fetch.pc = "none" THEN fetch
                ELSE [fetch EXCEPT !.age = @ + 1]

Tick ==
    /\ \A p \in Pdps : ~Due(p)
    /\ age' = [c \in Cids |-> IF c \in revoked /\ age[c] < Old
                              THEN age[c] + 1 ELSE age[c]]
    /\ boot' = [p \in Pdps |-> Older(boot[p])]
    /\ inflight' = [p \in Pdps |-> Older(inflight[p])]
    /\ sweepIn' = [p \in Pdps |-> IF mode[p] = "down" THEN sweepIn[p]
                                  ELSE sweepIn[p] - 1]
    /\ UNCHANGED <<revoked, push, process, cache, versions, failing>>

-----------------------------------------------------------------------------
(* The control plane                                                        *)

(* ucans.revoke for one UCAN that is not revoked yet, agents.delete for all  *)
(* those issued to an agent: the rows are committed, then every PDP is       *)
(* pushed.                                                                   *)
Revoke(cids) ==
    /\ cids # {}
    /\ revoked' = revoked \cup cids
    /\ versions' = versions \cup {revoked'}
    /\ push' = [c \in Cids |-> IF c \in cids THEN [p \in Pdps |-> "sent"]
                               ELSE push[c]]
    /\ UNCHANGED <<age, process, cache, boot, inflight, sweepIn, failing>>

(* postOne gives up on a PDP that does not listen, answers with an error, or *)
(* takes longer than the timeout.  What the PDP does is not affected.        *)
PushFail(c, p) ==
    /\ push[c][p] \in {"sent", "waiting"}
    /\ failing \/ mode[p] # "listening"
    /\ push' = [push EXCEPT ![c][p] = "failed"]
    /\ UNCHANGED <<table, process, cache, boot, inflight, sweepIn, failing>>

(* GET /v1/internal/revocations: the SELECT over the table.                 *)
Answer(fetch) == [fetch EXCEPT !.pc = "read", !.got = revoked]

ServeBoot(p) ==
    /\ boot[p].pc = "sent"
    /\ boot' = [boot EXCEPT ![p] = Answer(@)]
    /\ UNCHANGED <<table, push, process, cache, inflight, sweepIn, failing>>

ServeRefresh(p) ==
    /\ inflight[p].pc = "sent"
    /\ inflight' = [inflight EXCEPT ![p] = Answer(@)]
    /\ UNCHANGED <<table, push, process, cache, boot, sweepIn, failing>>

-----------------------------------------------------------------------------
(* The PDP                                                                  *)

(* main: the timers start, the caches are warmed with fetches of their own   *)
(* for the customers known by then, and only then does the server listen.    *)
BootListening(p) ==
    /\ mode[p] = "down"
    /\ \E knows \in IF failing THEN BOOLEAN ELSE {TRUE} :
          /\ known' = [known EXCEPT ![p] = knows]
          /\ boot' = [boot EXCEPT ![p] = IF knows THEN NewFetch ELSE NoFetch]
    /\ mode' = [mode EXCEPT ![p] = "listening"]
    /\ sweepIn' = [sweepIn EXCEPT ![p] = Sweep]
    /\ UNCHANGED <<table, push, cache, inflight, failing>>

Boot(p) ==
    /\ mode[p] = "down"
    /\ \E knows \in IF failing THEN BOOLEAN ELSE {TRUE} :
          /\ known' = [known EXCEPT ![p] = knows]
          /\ mode' = [mode EXCEPT ![p] = IF knows THEN "warming" ELSE "listening"]
          /\ boot' = [boot EXCEPT ![p] = IF knows THEN NewFetch ELSE NoFetch]
    /\ sweepIn' = [sweepIn EXCEPT ![p] = Sweep]
    /\ UNCHANGED <<table, push, cache, inflight, failing>>

BootDone(p) ==
    /\ boot[p].pc = "read"
    /\ cache' = [cache EXCEPT ![p] = boot[p].got]
    /\ boot' = [boot EXCEPT ![p] = NoFetch]
    /\ mode' = [mode EXCEPT ![p] = "listening"]
    /\ UNCHANGED <<table, push, known, inflight, sweepIn, failing>>

(* allSettled: a failed warm-up leaves the set as it is and does not stop    *)
(* the boot.                                                                 *)
BootFail(p) ==
    /\ failing
    /\ boot[p].pc # "none"
    /\ boot' = [boot EXCEPT ![p] = NoFetch]
    /\ mode' = [mode EXCEPT ![p] = "listening"]
    /\ UNCHANGED <<table, push, known, cache, inflight, sweepIn, failing>>

Crash(p) ==
    /\ mode[p] # "down"
    /\ mode' = [mode EXCEPT ![p] = "down"]
    /\ cache' = [cache EXCEPT ![p] = {}]
    /\ boot' = [boot EXCEPT ![p] = NoFetch]
    /\ inflight' = [inflight EXCEPT ![p] = NoFetch]
    /\ push' = [c \in Cids |-> [push[c] EXCEPT ![p] =
                   IF @ = "waiting" THEN "failed" ELSE @]]
    /\ UNCHANGED <<table, known, sweepIn, failing>>

(* The periodic customer discovery finds the customer.                      *)
Discover(p) ==
    /\ mode[p] # "down"
    /\ ~known[p]
    /\ known' = [known EXCEPT ![p] = TRUE]
    /\ UNCHANGED <<table, push, mode, cache, boot, inflight, sweepIn, failing>>

(* refreshOneDeduped: join the fetch in flight, or start one.               *)
JoinOrFetch(fetch) == IF fetch.pc = "none" THEN NewFetch ELSE fetch

(* The timer fires: refreshAll refreshes every known customer.              *)
SweepFiresInStore(p) ==
    /\ mode[p] # "down"
    /\ sweepIn[p] = 0
    /\ sweepIn' = [sweepIn EXCEPT ![p] = Sweep]
    /\ inflight' = IF cache[p] # {}
                   THEN [inflight EXCEPT ![p] = JoinOrFetch(@)]
                   ELSE inflight
    /\ UNCHANGED <<table, push, process, cache, boot, failing>>

SweepFires(p) ==
    /\ mode[p] # "down"
    /\ sweepIn[p] = 0
    /\ sweepIn' = [sweepIn EXCEPT ![p] = Sweep]
    /\ inflight' = IF known[p]
                   THEN [inflight EXCEPT ![p] = JoinOrFetch(@)]
                   ELSE inflight
    /\ UNCHANGED <<table, push, process, cache, boot, failing>>

(* POST /v1/internal/refresh-revocations.                                   *)
PushArrives(c, p) ==
    /\ mode[p] = "listening"
    /\ push[c][p] = "sent"
    /\ push' = [push EXCEPT ![c][p] = "waiting"]
    /\ inflight' = [inflight EXCEPT ![p] = JoinOrFetch(@)]
    /\ UNCHANGED <<table, process, cache, boot, sweepIn, failing>>

(* The end of a refresh answers every push that waits for it, with 200       *)
(* whether or not the fetch succeeded: refreshOne swallows its error.        *)
Acknowledge(p) ==
    push' = [c \in Cids |-> [push[c] EXCEPT ![p] =
                IF @ = "waiting" THEN "acked" ELSE @]]

RefreshDone(p) ==
    /\ inflight[p].pc = "read"
    /\ cache' = [cache EXCEPT ![p] = inflight[p].got]
    /\ inflight' = [inflight EXCEPT ![p] = NoFetch]
    /\ Acknowledge(p)
    /\ UNCHANGED <<table, process, boot, sweepIn, failing>>

RefreshFailClears(p) ==
    /\ failing
    /\ inflight[p].pc # "none"
    /\ inflight' = [inflight EXCEPT ![p] = NoFetch]
    /\ cache' = [cache EXCEPT ![p] = {}]
    /\ Acknowledge(p)
    /\ UNCHANGED <<table, process, boot, sweepIn, failing>>

RefreshFail(p) ==
    /\ failing
    /\ inflight[p].pc # "none"
    /\ inflight' = [inflight EXCEPT ![p] = NoFetch]
    /\ Acknowledge(p)
    /\ UNCHANGED <<table, process, cache, boot, sweepIn, failing>>

-----------------------------------------------------------------------------

PdpStep(p) ==
    \/ Boot(p) \/ BootDone(p) \/ BootFail(p) \/ Crash(p)
    \/ Discover(p) \/ SweepFires(p)
    \/ RefreshDone(p) \/ RefreshFail(p)
    \/ ServeBoot(p) \/ ServeRefresh(p)
    \/ \E c \in Cids : PushArrives(c, p) \/ PushFail(c, p)

Next ==
    \/ Tick
    \/ \E cids \in SUBSET Cids : Revoke(cids)
    \/ \E p \in Pdps : PdpStep(p)

Spec == Init /\ [][Next]_vars

(* Time passes, processes boot, timers fire and discovery runs; a refresh    *)
(* that is tried again and again is served, and applied, in the end.         *)
Fairness ==
    /\ WF_vars(Tick)
    /\ \A p \in Pdps :
          /\ WF_vars(Boot(p)) /\ WF_vars(ServeBoot(p)) /\ WF_vars(BootDone(p))
          /\ WF_vars(Discover(p)) /\ WF_vars(SweepFires(p))
          /\ SF_vars(ServeRefresh(p)) /\ SF_vars(RefreshDone(p))

FairSpec == Spec /\ Fairness

-----------------------------------------------------------------------------
(* Properties                                                               *)

(* When nothing fails, a PDP that serves requests enforces a revocation once *)
(* a sweep and two fetches have had their time, whatever pushes, sweeps and  *)
(* restarts overlap: "the PDP's 5s polling sweep is the fallback".           *)
EnforcedInTime ==
    ~failing =>
        \A p \in Pdps, c \in revoked :
            mode[p] = "listening" /\ age[c] > Bound => c \in cache[p]

(* A slow fetch never overwrites a fresher set: while the process runs, a    *)
(* revoked UCAN does not pass again (audit H8).                              *)
NeverUnrevoked ==
    [][\A p \in Pdps : mode'[p] # "down" => cache[p] \subseteq cache'[p]]_vars

(* The caches keep what RevocationView promises.                            *)
View == INSTANCE RevocationView WITH
            view <- cache, running <- [p \in Pdps |-> mode[p] # "down"]

ImplementsView == View!ViewSpec

(* "PDP refreshes immediately rather than waiting for the 5s polling sweep":  *)
(* a PDP that answered the push of a revocation enforces it.                 *)
AckedIsEnforced ==
    \A c \in Cids, p \in Pdps :
        push[c][p] = "acked" /\ mode[p] = "listening" => c \in cache[p]

(* Failed pushes, failed fetches and crashes delay a revocation, also for a  *)
(* customer the PDP has not discovered yet, but a PDP that no longer crashes *)
(* enforces it in the end and for ever.                                      *)
EventuallyEnforced ==
    \A c \in Cids, p \in Pdps :
        <>[](mode[p] # "down") => (c \in revoked ~> [](c \in cache[p]))

=============================================================================
