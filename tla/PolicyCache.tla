---------------------------- MODULE PolicyCache ----------------------------
(***************************************************************************)
(* How a change of a customer's policies, grants or agents reaches the PDP:  *)
(* the control plane debounces a push, the PDP refreshes its copy of the     *)
(* bundle on pushes, on a timer, at boot and on the first call of a customer *)
(* it does not hold.  Refreshes share no fetch, so answers may be applied    *)
(* out of order.                                                             *)
(*                                                                          *)
(* One customer and one PDP.  A bundle is abstracted to the number of the    *)
(* last change it contains; GrantBundle says what is in it.  Time is kept as *)
(* ages and countdowns.                                                      *)
(***************************************************************************)
EXTENDS Integers, FiniteSets

CONSTANTS
    MaxEdition,     \* bound on the changes that are committed
    MaxFetches,     \* bound on the fetches of the bundle under way at once
    Debounce,       \* debounceMs of the invalidator
    RefreshEvery,   \* POLICY_REFRESH_MS
    FetchTime,      \* longest time a fetch takes; no timeout in the code bounds it
    Off             \* no push is pending

ASSUME PolicyTimingAssumption ==
    /\ {MaxEdition, MaxFetches, RefreshEvery, FetchTime} \subseteq Nat \ {0}
    /\ Debounce \in Nat
    /\ Off \notin Int

VARIABLES
    edition,    \* the last change committed to the tables
    changeAge,  \* time since each change was committed, up to VeryOld
    pushIn,     \* time until the pending push is sent
    posts,      \* pushes on their way to the PDP
    pdpMode,    \* the PDP's process
    isKnown,    \* whether the customer is among its knownCustomers
    held,       \* the edition of the bundle it holds, 0 for none
    fetches,    \* its fetches of the bundle
    refreshIn,  \* time until its timer fires
    fallible    \* whether requests between the services may fail at all

policyVars == <<edition, changeAge, pushIn, posts, pdpMode, isKnown, held,
                fetches, refreshIn, fallible>>

-----------------------------------------------------------------------------
(* State                                                                    *)

Editions == 1 .. MaxEdition
Fetching == 1 .. MaxFetches

(* The longest a change stays unknown when nothing fails: it may just miss a *)
(* sweep, an older answer may still come after that sweep's, and the next    *)
(* sweep's fetch may be slow.                                                *)
LongestStale == RefreshEvery + 2 * FetchTime
VeryOld == LongestStale + 1

BundleFetches == [pc : {"none", "sent", "read"}, got : 0 .. MaxEdition,
                  atBoot : BOOLEAN, age : 0 .. FetchTime]

NoBundleFetch == [pc |-> "none", got |-> 0, atBoot |-> FALSE, age |-> 0]

PolicyTypeOK ==
    /\ edition \in Editions
    /\ changeAge \in [Editions -> 0 .. VeryOld]
    /\ pushIn \in (0 .. Debounce) \cup {Off}
    /\ posts \in 0 .. MaxEdition
    /\ pdpMode \in {"down", "warming", "listening"}
    /\ isKnown \in BOOLEAN
    /\ held \in 0 .. MaxEdition
    /\ fetches \in [Fetching -> BundleFetches]
    /\ refreshIn \in 0 .. RefreshEvery
    /\ fallible \in BOOLEAN

PolicyInit ==
    /\ edition = 1
    /\ changeAge = [v \in Editions |-> 0]
    /\ pushIn = Off
    /\ posts = 0
    /\ pdpMode = "down"
    /\ isKnown = FALSE
    /\ held = 0
    /\ fetches = [f \in Fetching |-> NoBundleFetch]
    /\ refreshIn = RefreshEvery
    /\ fallible \in BOOLEAN

-----------------------------------------------------------------------------
(* Time                                                                     *)

Underway == {f \in Fetching : fetches[f].pc # "none"}

(* Timers fire when they are due and a fetch ends in time.                  *)
PolicyDue ==
    \/ pushIn = 0
    \/ pdpMode # "down" /\ refreshIn = 0
    \/ \E f \in Underway : fetches[f].age = FetchTime

PolicyTick ==
    /\ ~PolicyDue
    /\ changeAge' = [v \in Editions |->
                        IF v <= edition /\ changeAge[v] < VeryOld
                        THEN changeAge[v] + 1 ELSE changeAge[v]]
    /\ pushIn' = IF pushIn = Off THEN Off ELSE pushIn - 1
    /\ fetches' = [f \in Fetching |->
                      IF f \in Underway
                      THEN [fetches[f] EXCEPT !.age = @ + 1] ELSE fetches[f]]
    /\ refreshIn' = IF pdpMode = "down" THEN refreshIn ELSE refreshIn - 1
    /\ UNCHANGED <<edition, posts, pdpMode, isKnown, held, fallible>>

-----------------------------------------------------------------------------
(* The control plane                                                        *)

(* An operator saves a policy, remembers a decision, maps or suspends an     *)
(* agent.  invalidate restarts the countdown of a push that is pending;      *)
(* agents.update and agents.delete, among others, do not call it.            *)
Change(announced) ==
    /\ edition < MaxEdition
    /\ edition' = edition + 1
    /\ pushIn' = IF announced THEN Debounce ELSE pushIn
    /\ UNCHANGED <<changeAge, posts, pdpMode, isKnown, held, fetches,
                   refreshIn, fallible>>

(* fireFor: one request to the PDP, whose outcome is only logged.           *)
PushFires ==
    /\ pushIn = 0
    /\ pushIn' = Off
    /\ posts' = posts + 1
    /\ UNCHANGED <<edition, changeAge, pdpMode, isKnown, held, fetches,
                   refreshIn, fallible>>

(* The control plane restarts: the countdown was in memory.                 *)
PushForgotten ==
    /\ fallible
    /\ pushIn # Off
    /\ pushIn' = Off
    /\ UNCHANGED <<edition, changeAge, posts, pdpMode, isKnown, held, fetches,
                   refreshIn, fallible>>

PushLost ==
    /\ posts > 0
    /\ fallible \/ pdpMode # "listening"
    /\ posts' = posts - 1
    /\ UNCHANGED <<edition, changeAge, pushIn, pdpMode, isKnown, held, fetches,
                   refreshIn, fallible>>

(* GET /v1/internal/bundles: generateBundle reads the tables.               *)
ServeBundle(f) ==
    /\ fetches[f].pc = "sent"
    /\ fetches' = [fetches EXCEPT ![f].pc = "read", ![f].got = edition]
    /\ UNCHANGED <<edition, changeAge, pushIn, posts, pdpMode, isKnown, held,
                   refreshIn, fallible>>

-----------------------------------------------------------------------------
(* The PDP                                                                  *)

(* A fetch of its own, whether or not another is under way.                 *)
Fetch(atBoot) ==
    \E f \in Fetching \ Underway :
        /\ \A g \in Fetching \ Underway : f <= g
        /\ fetches' = [fetches EXCEPT ![f] =
               [pc |-> "sent", got |-> 0, atBoot |-> atBoot, age |-> 0]]

(* main: customers are discovered, the timer starts, the bundles of those    *)
(* known are fetched, and only then does the server listen.                  *)
PdpBoots ==
    /\ pdpMode = "down"
    /\ \E found \in IF fallible THEN BOOLEAN ELSE {TRUE} :
          /\ isKnown' = found
          /\ pdpMode' = IF found THEN "warming" ELSE "listening"
          /\ IF found THEN Fetch(TRUE) ELSE UNCHANGED fetches
    /\ refreshIn' = RefreshEvery
    /\ UNCHANGED <<edition, changeAge, pushIn, posts, held, fallible>>

PdpCrashes ==
    /\ pdpMode # "down"
    /\ pdpMode' = "down"
    /\ held' = 0
    /\ fetches' = [f \in Fetching |-> NoBundleFetch]
    /\ UNCHANGED <<edition, changeAge, pushIn, posts, isKnown, refreshIn, fallible>>

(* The 60 s discovery finds the customer.                                   *)
Discovered ==
    /\ pdpMode # "down"
    /\ ~isKnown
    /\ isKnown' = TRUE
    /\ UNCHANGED <<edition, changeAge, pushIn, posts, pdpMode, held, fetches,
                   refreshIn, fallible>>

(* sweeps what is in the store instead of the customers that are known *)
RefreshFiresInStore ==
    /\ pdpMode # "down"
    /\ refreshIn = 0
    /\ refreshIn' = RefreshEvery
    /\ IF held # 0 THEN Fetch(FALSE) ELSE UNCHANGED fetches
    /\ UNCHANGED <<edition, changeAge, pushIn, posts, pdpMode, isKnown, held,
                   fallible>>

(* sweeps only what the store lacks *)
RefreshFiresMissing ==
    /\ pdpMode # "down"
    /\ refreshIn = 0
    /\ refreshIn' = RefreshEvery
    /\ IF isKnown /\ held = 0 THEN Fetch(FALSE) ELSE UNCHANGED fetches
    /\ UNCHANGED <<edition, changeAge, pushIn, posts, pdpMode, isKnown, held,
                   fallible>>

(* refreshAll: the timer refreshes every customer that is known.            *)
RefreshFires ==
    /\ pdpMode # "down"
    /\ refreshIn = 0
    /\ refreshIn' = RefreshEvery
    /\ IF isKnown THEN Fetch(FALSE) ELSE UNCHANGED fetches
    /\ UNCHANGED <<edition, changeAge, pushIn, posts, pdpMode, isKnown, held,
                   fallible>>

(* POST /v1/internal/refresh-policies.                                      *)
PostArrives ==
    /\ pdpMode = "listening"
    /\ posts > 0
    /\ posts' = posts - 1
    /\ Fetch(FALSE)
    /\ UNCHANGED <<edition, changeAge, pushIn, pdpMode, isKnown, held,
                   refreshIn, fallible>>

(* authorize for a customer whose bundle the PDP does not hold tries once,   *)
(* before it denies the call.                                                *)
LazyFetch ==
    /\ pdpMode = "listening"
    /\ held = 0
    /\ Fetch(FALSE)
    /\ UNCHANGED <<edition, changeAge, pushIn, posts, pdpMode, isKnown, held,
                   refreshIn, fallible>>

Ended(f) ==
    /\ fetches' = [fetches EXCEPT ![f] = NoBundleFetch]
    /\ pdpMode' = IF fetches[f].atBoot THEN "listening" ELSE pdpMode
    /\ UNCHANGED <<edition, changeAge, pushIn, posts, isKnown, refreshIn, fallible>>

(* The answer replaces the bundle, whatever came before it.                 *)
FetchDone(f) ==
    /\ fetches[f].pc = "read"
    /\ held' = fetches[f].got
    /\ Ended(f)

(* "policy refresh failed; serving stale"; a failed warm-up does not stop    *)
(* the boot.                                                                 *)
FetchFails(f) ==
    /\ fallible
    /\ f \in Underway
    /\ UNCHANGED held
    /\ Ended(f)

-----------------------------------------------------------------------------

PolicyNext ==
    \/ PolicyTick
    \/ \E announced \in BOOLEAN : Change(announced)
    \/ PushFires \/ PushForgotten \/ PushLost
    \/ PdpBoots \/ PdpCrashes \/ Discovered
    \/ RefreshFires \/ PostArrives \/ LazyFetch
    \/ \E f \in Fetching : ServeBundle(f) \/ FetchDone(f) \/ FetchFails(f)

PolicySpec == PolicyInit /\ [][PolicyNext]_policyVars

(* Time passes, the process boots, timers fire, and a refresh that is tried  *)
(* again and again is served and applied in the end.                         *)
PolicyFairness ==
    /\ WF_policyVars(PolicyTick) /\ WF_policyVars(PushFires)
    /\ WF_policyVars(PdpBoots) /\ WF_policyVars(Discovered)
    /\ WF_policyVars(RefreshFires)
    /\ \A f \in Fetching :
          /\ WF_policyVars(FetchDone(f) \/ FetchFails(f) \/ ServeBundle(f))
          /\ SF_policyVars(ServeBundle(f)) /\ SF_policyVars(FetchDone(f))

PolicyFairSpec == PolicySpec /\ PolicyFairness

-----------------------------------------------------------------------------
(* Properties                                                               *)

(* While nothing fails, no change of policies is missing from the bundle a   *)
(* listening PDP decides by once a sweep and two fetches have had their      *)
(* time, although pushes may be starved by their debounce and an older       *)
(* answer may overwrite a newer one.                                         *)
FreshInTime ==
    ~fallible /\ pdpMode = "listening" =>
        \A v \in 1 .. edition : changeAge[v] > LongestStale => held >= v

(* Lost pushes, failed fetches, restarts of either side and a customer the   *)
(* PDP has not discovered delay a change, but a PDP that no longer crashes   *)
(* holds the newest bundle in the end and for good.                          *)
EventuallyFresh ==
    <>[](pdpMode # "down") => <>[](held = edition)

=============================================================================
