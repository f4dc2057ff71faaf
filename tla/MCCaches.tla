------------------------------ MODULE MCCaches ------------------------------
(***************************************************************************)
(* Instances for TLC of the PDP's two caches, Revocation and PolicyCache.    *)
(* They share no state, so a behaviour is one of one of them, and the other  *)
(* stays as it is initially; requests may fail in both or in neither. The    *)
(* fairness each needs is stated of its own steps.                           *)
(*                                                                          *)
(* A sweep every two ticks, a debounce and a latency of one and two fetches  *)
(* of the bundle at once are the least at which a push can be starved        *)
(* between two sweeps and an older answer overtake a newer.                  *)
(***************************************************************************)
EXTENDS MCRevocation, PolicyCache

VARIABLE part

cachesVars == <<vars, policyVars, part>>

CachesInit ==
    /\ Init /\ PolicyInit
    /\ fallible = failing
    /\ part \in {"revocations", "policies"}

(* A step of one part.                                                      *)
OfRevocations(A) == part = "revocations" /\ A /\ UNCHANGED <<policyVars, part>>
OfPolicies(A) == part = "policies" /\ A /\ UNCHANGED <<vars, part>>

CachesNext == OfRevocations(Next) \/ OfPolicies(PolicyNext)

(* Only the steps of one part are ever enabled, so fairness to a step of one *)
(* or of the other is fairness to each.                                      *)
Either(A, B) == OfRevocations(A) \/ OfPolicies(B)

CachesFairness ==
    /\ WF_cachesVars(Either(Tick, PolicyTick))
    /\ WF_cachesVars(OfPolicies(PushFires))
    /\ \A p \in Pdps :
          /\ WF_cachesVars(Either(Boot(p), PdpBoots))
          /\ WF_cachesVars(OfRevocations(ServeBoot(p)))
          /\ WF_cachesVars(OfRevocations(BootDone(p)))
          /\ WF_cachesVars(Either(Discover(p), Discovered))
          /\ WF_cachesVars(Either(SweepFires(p), RefreshFires))
          /\ SF_cachesVars(Either(ServeRefresh(p), ServeBundle(1)))
          /\ SF_cachesVars(Either(RefreshDone(p), FetchDone(1)))
    /\ \A f \in Fetching :
          /\ WF_cachesVars(OfPolicies(FetchDone(f) \/ FetchFails(f) \/ ServeBundle(f)))
          /\ f # 1 => SF_cachesVars(OfPolicies(ServeBundle(f)))
          /\ f # 1 => SF_cachesVars(OfPolicies(FetchDone(f)))

CachesSpec == CachesInit /\ [][CachesNext]_cachesVars /\ CachesFairness

=============================================================================
