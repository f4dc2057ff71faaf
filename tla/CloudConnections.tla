-------------------------- MODULE CloudConnections --------------------------
(***************************************************************************)
(* One federated cloud connection of a customer in the control plane: calls  *)
(* that the PDP forwards, which take session credentials from a cache or     *)
(* acquire them, changes of the configuration and the disconnect, and the    *)
(* probes that set the connection's bootstrap status.                        *)
(*                                                                          *)
(* A configuration is abstracted to its number; credentials are of the       *)
(* configuration they were acquired under.  The cloud is external: it issues *)
(* credentials that live for Life.  Time is kept as ages and countdowns.     *)
(***************************************************************************)
EXTENDS Integers

CONSTANTS
    CloudCalls,     \* calls of /v1/internal/cloud/api-call at the same time
    Probes,         \* verify polls and "verify now" at the same time
    MaxConfig,      \* bound on the configurations
    Life,           \* how long the cloud's credentials live
    Margin,         \* safetyMarginMs
    CredsCap,       \* maxTtlMs
    ExchangeTime    \* longest time an exchange takes; the code does not bound it

ASSUME CloudTimingAssumption ==
    /\ {MaxConfig, Life, CredsCap} \subseteq Nat \ {0}
    /\ {Margin, ExchangeTime} \subseteq Nat

VARIABLES
    config,         \* number of the row's configuration
    isConnected,    \* whether the row is there
    goneFor,        \* time since each configuration was replaced or dropped
    dropsCreds,     \* whether a disconnect has yet to clear the cache
    credsCache,     \* credsCache: the one entry of the connection
    cloudCalls,     \* calls under way
    status,         \* bootstrap_status
    misses,         \* transientCounts
    probes          \* probes under way

cloudVars == <<config, isConnected, goneFor, dropsCreds, credsCache, cloudCalls,
               status, misses, probes>>

-----------------------------------------------------------------------------
(* State                                                                    *)

Configs == 1 .. MaxConfig

(* A call may load the configuration just before it is replaced, acquire for *)
(* as long as an exchange takes, and leave what it got in the cache.         *)
LongestUse == ExchangeTime + CredsCap

Statuses == {"pending", "verified", "broken"}

NoCreds == [of |-> 0, left |-> 0, ttl |-> 0]

CloudCallStates == [pc : {"idle", "loaded", "resolve", "exchange", "sent"}, of : 0 .. MaxConfig,
                    left : 0 .. Life, waited : 0 .. ExchangeTime]

NoCloudCall == [pc |-> "idle", of |-> 0, left |-> 0, waited |-> 0]

ProbeStates == [pc : {"idle", "probing", "write"}, seen : Statuses,
                result : Statuses \cup {"transient"}, overtaken : BOOLEAN]

NoProbe == [pc |-> "idle", seen |-> "pending", result |-> "transient", overtaken |-> FALSE]

CloudTypeOK ==
    /\ config \in Configs
    /\ isConnected \in BOOLEAN
    /\ goneFor \in [Configs -> 0 .. LongestUse]
    /\ dropsCreds \in BOOLEAN
    /\ credsCache \in [of : 0 .. MaxConfig, left : 0 .. Life, ttl : 0 .. Life]
    /\ cloudCalls \in [CloudCalls -> CloudCallStates]
    /\ status \in Statuses
    /\ misses \in 0 .. 1
    /\ probes \in [Probes -> ProbeStates]

(* cloudConnections.create.                                                 *)
CloudInit ==
    /\ config = 1
    /\ isConnected = TRUE
    /\ goneFor = [e \in Configs |-> 0]
    /\ dropsCreds = FALSE
    /\ credsCache = NoCreds
    /\ cloudCalls = [c \in CloudCalls |-> NoCloudCall]
    /\ status = "pending"
    /\ misses = 0
    /\ probes = [p \in Probes |-> NoProbe]

-----------------------------------------------------------------------------
(* Time                                                                     *)

IsGone(e) == e < config \/ (e = config /\ ~isConnected)

Sooner(n) == IF n = 0 THEN 0 ELSE n - 1

(* An exchange ends in time, and what was sent is answered before time goes  *)
(* on.                                                                       *)
CloudTick ==
    /\ \A c \in CloudCalls :
          /\ cloudCalls[c].pc = "exchange" => cloudCalls[c].waited < ExchangeTime
          /\ cloudCalls[c].pc # "sent"
    /\ goneFor' = [e \in Configs |->
                      IF IsGone(e) /\ goneFor[e] < LongestUse THEN goneFor[e] + 1
                      ELSE goneFor[e]]
    /\ credsCache' = IF credsCache.ttl <= 1 THEN NoCreds
                ELSE [credsCache EXCEPT !.left = Sooner(@), !.ttl = Sooner(@)]
    /\ cloudCalls' = [c \in CloudCalls |->
                         IF cloudCalls[c].pc = "exchange"
                         THEN [cloudCalls[c] EXCEPT !.waited = @ + 1] ELSE cloudCalls[c]]
    /\ UNCHANGED <<config, isConnected, dropsCreds, status, misses, probes>>

-----------------------------------------------------------------------------
(* The dashboard                                                            *)

(* update: the credentials in the cache and the status stay.                *)
UpdateConfig ==
    /\ isConnected
    /\ config < MaxConfig
    /\ config' = config + 1
    /\ UNCHANGED <<isConnected, goneFor, dropsCreds, credsCache, cloudCalls, status, misses, probes>>

(* disconnect: the row, ...                                                 *)
CloudDisconnect ==
    /\ isConnected
    /\ isConnected' = FALSE
    /\ dropsCreds' = TRUE
    /\ UNCHANGED <<config, goneFor, credsCache, cloudCalls, status, misses, probes>>

(* ... and then what the cache has for it.                                  *)
CredsDropped ==
    /\ dropsCreds
    /\ dropsCreds' = FALSE
    /\ credsCache' = NoCreds
    /\ UNCHANGED <<config, isConnected, goneFor, cloudCalls, status, misses, probes>>

-----------------------------------------------------------------------------
(* POST /v1/internal/cloud/api-call                                         *)

CallEnds(c) == cloudCalls' = [cloudCalls EXCEPT ![c] = NoCloudCall]

(* connection_not_found without the row.                                    *)
CloudCall(c) ==
    /\ cloudCalls[c].pc = "idle"
    /\ isConnected
    /\ cloudCalls' = [cloudCalls EXCEPT ![c].pc = "loaded"]
    /\ UNCHANGED <<config, isConnected, goneFor, dropsCreds, credsCache, status, misses, probes>>

(* Whatever the cache has for the connection, of whichever agent's calls.   *)
LookUpCreds(c) ==
    /\ cloudCalls[c].pc = "loaded"
    /\ cloudCalls' = [cloudCalls EXCEPT ![c] =
           IF credsCache = NoCreds THEN [@ EXCEPT !.pc = "resolve"]
           ELSE [@ EXCEPT !.pc = "sent", !.of = credsCache.of, !.left = credsCache.left]]
    /\ UNCHANGED <<config, isConnected, goneFor, dropsCreds, credsCache, status, misses, probes>>

(* resolve loads it again and mints the ID token.                           *)
Resolve(c) ==
    /\ cloudCalls[c].pc = "resolve"
    /\ IF isConnected
       THEN cloudCalls' = [cloudCalls EXCEPT ![c].pc = "exchange", ![c].of = config]
       ELSE CallEnds(c)
    /\ UNCHANGED <<config, isConnected, goneFor, dropsCreds, credsCache, status, misses, probes>>

(* caches without a cap *)
SessionCredsUncapped(c) ==
    /\ cloudCalls[c].pc = "exchange"
    /\ credsCache' = [of |-> cloudCalls[c].of, left |-> Life, ttl |-> Life - Margin]
    /\ cloudCalls' = [cloudCalls EXCEPT ![c].pc = "sent", ![c].left = Life, ![c].waited = 0]
    /\ UNCHANGED <<config, isConnected, goneFor, dropsCreds, status, misses, probes>>

(* acquireSessionCreds answers: the credentials are cached, whatever became  *)
(* of the connection, for as long as they live less a margin, or the cap.    *)
SessionCreds(c) ==
    /\ cloudCalls[c].pc = "exchange"
    /\ LET ttl == IF Life - Margin < CredsCap THEN Life - Margin ELSE CredsCap
       IN  credsCache' = IF ttl > 0 THEN [of |-> cloudCalls[c].of, left |-> Life, ttl |-> ttl]
                    ELSE credsCache
    /\ cloudCalls' = [cloudCalls EXCEPT ![c].pc = "sent", ![c].left = Life, ![c].waited = 0]
    /\ UNCHANGED <<config, isConnected, goneFor, dropsCreds, status, misses, probes>>

ExchangeRejected(c) ==
    /\ cloudCalls[c].pc = "exchange"
    /\ CallEnds(c)
    /\ UNCHANGED <<config, isConnected, goneFor, dropsCreds, credsCache, status, misses, probes>>

(* signAndCall ends, one way or the other.                                  *)
CloudAnswers(c) ==
    /\ cloudCalls[c].pc = "sent"
    /\ CallEnds(c)
    /\ UNCHANGED <<config, isConnected, goneFor, dropsCreds, credsCache, status, misses, probes>>

-----------------------------------------------------------------------------
(* The verify poll                                                          *)

(* runOnce reads all rows before it probes the first, verifyOne just its own.*)
ProbeReads(p) ==
    /\ probes[p].pc = "idle"
    /\ isConnected
    /\ probes' = [probes EXCEPT ![p] = [NoProbe EXCEPT !.pc = "probing", !.seen = status]]
    /\ UNCHANGED <<config, isConnected, goneFor, dropsCreds, credsCache, cloudCalls, status, misses>>

ProbeEnds(p, result, n) ==
    /\ probes[p].pc = "probing"
    /\ probes' = [probes EXCEPT ![p].pc = "write", ![p].result = result]
    /\ misses' = n
    /\ UNCHANGED <<config, isConnected, goneFor, dropsCreds, credsCache, cloudCalls, status>>

(* The handshake succeeds, fails in a way that may pass, or is rejected.  Of *)
(* two that may pass, wherever they come from, the second counts.            *)
ProbeSucceeds(p) == ProbeEnds(p, "verified", 0)
ProbeBlips(p) == IF misses = 0 THEN ProbeEnds(p, "transient", 1) ELSE ProbeEnds(p, "broken", 0)
ProbeRejected(p) == ProbeEnds(p, "broken", misses)

(* What a probe writes: a blip, the status it read.                         *)
StatusAfter(p) == IF probes[p].result = "transient" THEN probes[p].seen ELSE probes[p].result

(* takes a blip for a connection that was never verified *)
ProbeWritesPending(p) ==
    /\ probes[p].pc = "write"
    /\ status' = IF ~isConnected THEN status
                 ELSE IF probes[p].result = "transient" THEN "pending" ELSE probes[p].result
    /\ probes' = [r \in Probes |-> IF r = p THEN NoProbe
                     ELSE [probes[r] EXCEPT !.overtaken = probes[r].pc # "idle"]]
    /\ UNCHANGED <<config, isConnected, goneFor, dropsCreds, credsCache, cloudCalls, misses>>

(* A transient failure writes back the status that was read.                *)
ProbeWrites(p) ==
    /\ probes[p].pc = "write"
    /\ status' = IF isConnected THEN StatusAfter(p) ELSE status
    /\ probes' = [r \in Probes |-> IF r = p THEN NoProbe
                     ELSE [probes[r] EXCEPT !.overtaken = probes[r].pc # "idle"]]
    /\ UNCHANGED <<config, isConnected, goneFor, dropsCreds, credsCache, cloudCalls, misses>>

(* recordVerify, of scripts and operators.                                  *)
RecordVerify(result) ==
    /\ isConnected
    /\ status' = result
    /\ probes' = [r \in Probes |-> [probes[r] EXCEPT !.overtaken = probes[r].pc # "idle"]]
    /\ UNCHANGED <<config, isConnected, goneFor, dropsCreds, credsCache, cloudCalls, misses>>

(* The cache, the counts and whatever is under way are in memory.           *)
CloudRestarts ==
    /\ credsCache' = NoCreds
    /\ dropsCreds' = FALSE
    /\ cloudCalls' = [c \in CloudCalls |-> NoCloudCall]
    /\ misses' = 0
    /\ probes' = [p \in Probes |-> NoProbe]
    /\ UNCHANGED <<config, isConnected, goneFor, status>>

-----------------------------------------------------------------------------

CredsNext ==
    \/ CloudTick \/ UpdateConfig \/ CloudDisconnect \/ CredsDropped \/ CloudRestarts
    \/ \E c \in CloudCalls :
          CloudCall(c) \/ LookUpCreds(c) \/ Resolve(c) \/ SessionCreds(c)
          \/ ExchangeRejected(c) \/ CloudAnswers(c)

ProbesNext ==
    \/ UpdateConfig \/ CloudDisconnect \/ CredsDropped \/ CloudRestarts
    \/ \E p \in Probes :
          ProbeReads(p) \/ ProbeSucceeds(p) \/ ProbeBlips(p) \/ ProbeRejected(p)
          \/ ProbeWrites(p)
    \/ \E result \in {"verified", "broken"} : RecordVerify(result)

(* They share the row, and none touches what the other reads of it.         *)
CloudNext == CredsNext \/ ProbesNext

CloudSpec == CloudInit /\ [][CloudNext]_cloudVars

-----------------------------------------------------------------------------
(* Properties                                                               *)

(* "limits revoke-staleness window": no call reaches the cloud with          *)
(* credentials that have expired, nor with those of a configuration that was *)
(* replaced or disconnected as long ago as an exchange and the cache's cap.   *)
OldCredsNotUsed ==
    \A c \in CloudCalls : cloudCalls[c].pc = "sent" =>
        cloudCalls[c].left > 0 /\ goneFor[cloudCalls[c].of] < LongestUse

(* "Single retryable rejection is more likely a transient cloud blip": it    *)
(* leaves the status alone, unless another probe or recordVerify wrote it    *)
(* after this one had read it.                                               *)
BlipKeepsStatus ==
    [][\A p \in Probes :
          (probes[p].pc = "write" /\ probes[p].result = "transient"
              /\ probes'[p].pc = "idle" /\ status' # status)
          => probes[p].overtaken]_cloudVars

=============================================================================
