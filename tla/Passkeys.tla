------------------------------ MODULE Passkeys ------------------------------
(***************************************************************************)
(* The two ways a passkey of one user is asserted: login, whose challenges   *)
(* are rows that are looked up and then deleted, and step-up, whose          *)
(* challenge is taken from a map and whose signature counter is checked and  *)
(* written under a row lock.  Login reads the counter first and writes it    *)
(* last.                                                                     *)
(*                                                                          *)
(* The authenticator is external: it signs a challenge once and either       *)
(* counts its signatures or emits 0.  The browser, or whoever resends its    *)
(* requests, may present an assertion any number of times.                   *)
(***************************************************************************)
EXTENDS Integers, FiniteSets

CONSTANTS
    Verifies,       \* requests that present an assertion at the same time
    MaxChallenges   \* bound on the challenges handed out

ASSUME PasskeyAssumption == IsFiniteSet(Verifies) /\ MaxChallenges \in Nat

VARIABLES
    counts,         \* whether the authenticator counts
    asked,          \* number of challenges handed out
    purpose,        \* what each was handed out for
    rows,           \* login challenges in the verification table
    stepUpChallenge,\* the one in challengeStore for the user and approval, or 0
    signature,      \* which signature of the authenticator is of a challenge
    enrolled,       \* whether the passkey's row exists
    counter,        \* its counter
    verifies,       \* requests under way
    accepted        \* sessions and cosignatures each assertion gave

passkeyVars == <<counts, asked, purpose, rows, stepUpChallenge, signature,
                 enrolled, counter, verifies, accepted>>

-----------------------------------------------------------------------------
(* State                                                                    *)

Challenges == 1 .. MaxChallenges

VerifyStates == [pc : {"idle", "find", "delete", "check", "mint", "assert"},
                 of : 0 .. MaxChallenges, read : 0 .. MaxChallenges]

PasskeyTypeOK ==
    /\ counts \in BOOLEAN
    /\ asked \in 0 .. MaxChallenges
    /\ purpose \in [Challenges -> {"none", "login", "stepup"}]
    /\ rows \subseteq Challenges
    /\ stepUpChallenge \in 0 .. MaxChallenges
    /\ signature \in [Challenges -> 0 .. MaxChallenges]
    /\ enrolled \in BOOLEAN
    /\ counter \in 0 .. MaxChallenges
    /\ verifies \in [Verifies -> VerifyStates]
    /\ accepted \in [Challenges -> Nat]

NoVerify == [pc |-> "idle", of |-> 0, read |-> 0]

PasskeyInit ==
    /\ counts \in BOOLEAN
    /\ asked = 0
    /\ purpose = [k \in Challenges |-> "none"]
    /\ rows = {}
    /\ stepUpChallenge = 0
    /\ signature = [k \in Challenges |-> 0]
    /\ enrolled = TRUE
    /\ counter = 0
    /\ verifies = [v \in Verifies |-> NoVerify]
    /\ accepted = [k \in Challenges |-> 0]

-----------------------------------------------------------------------------
(* Challenges and assertions                                                *)

Asks(use) ==
    /\ asked < MaxChallenges
    /\ asked' = asked + 1
    /\ purpose' = [purpose EXCEPT ![asked + 1] = use]

(* /passkey/authenticate/options.                                           *)
LoginOptions ==
    /\ Asks("login")
    /\ rows' = rows \cup {asked + 1}
    /\ UNCHANGED <<counts, stepUpChallenge, signature, enrolled, counter,
                   verifies, accepted>>

(* authenticationOptions: the last challenge of the approval counts.        *)
StepUpOptions ==
    /\ Asks("stepup")
    /\ stepUpChallenge' = asked + 1
    /\ UNCHANGED <<counts, rows, signature, enrolled, counter, verifies, accepted>>

Sign(k) ==
    /\ k <= asked
    /\ signature[k] = 0
    /\ signature' = [signature EXCEPT ![k] =
                        1 + Cardinality({j \in Challenges : signature[j] # 0})]
    /\ UNCHANGED <<counts, asked, purpose, rows, stepUpChallenge, enrolled,
                   counter, verifies, accepted>>

Emitted(k) == IF counts THEN signature[k] ELSE 0

(* verifyAuthenticationResponse: a counter in use must rise.                *)
Rises(k, old) == Emitted(k) > old \/ (Emitted(k) = 0 /\ old = 0)

(* Five minutes.                                                            *)
LoginExpires(k) ==
    /\ k \in rows
    /\ rows' = rows \ {k}
    /\ UNCHANGED <<counts, asked, purpose, stepUpChallenge, signature, enrolled,
                   counter, verifies, accepted>>

StepUpExpires ==
    /\ stepUpChallenge # 0
    /\ stepUpChallenge' = 0
    /\ UNCHANGED <<counts, asked, purpose, rows, signature, enrolled, counter,
                   verifies, accepted>>

(* The control plane restarts: challengeStore was in memory.                *)
ChallengesForgotten ==
    /\ stepUpChallenge' = 0
    /\ verifies' = [v \in Verifies |-> NoVerify]
    /\ UNCHANGED <<counts, asked, purpose, rows, signature, enrolled, counter, accepted>>

(* /passkey/delete.                                                         *)
PasskeyDeleted ==
    /\ enrolled
    /\ enrolled' = FALSE
    /\ UNCHANGED <<counts, asked, purpose, rows, stepUpChallenge, signature,
                   counter, verifies, accepted>>

-----------------------------------------------------------------------------
(* /passkey/authenticate/verify                                             *)

VerifyEnds(v) == verifies' = [verifies EXCEPT ![v] = NoVerify]

LoginReads(v, k) ==
    /\ verifies[v].pc = "idle"
    /\ signature[k] # 0
    /\ enrolled
    /\ verifies' = [verifies EXCEPT ![v] = [pc |-> "find", of |-> k, read |-> counter]]
    /\ UNCHANGED <<counts, asked, purpose, rows, stepUpChallenge, signature,
                   enrolled, counter, accepted>>

LoginFinds(v) ==
    /\ verifies[v].pc = "find"
    /\ IF verifies[v].of \in rows
       THEN verifies' = [verifies EXCEPT ![v].pc = "delete"]
       ELSE VerifyEnds(v)
    /\ UNCHANGED <<counts, asked, purpose, rows, stepUpChallenge, signature,
                   enrolled, counter, accepted>>

(* leaves the challenge to expire *)
LoginKeeps(v) ==
    /\ verifies[v].pc = "delete"
    /\ verifies' = [verifies EXCEPT ![v].pc = "check"]
    /\ UNCHANGED <<counts, asked, purpose, rows, stepUpChallenge, signature,
                   enrolled, counter, accepted>>

(* Whoever deleted it before.                                               *)
LoginDeletes(v) ==
    /\ verifies[v].pc = "delete"
    /\ rows' = rows \ {verifies[v].of}
    /\ verifies' = [verifies EXCEPT ![v].pc = "check"]
    /\ UNCHANGED <<counts, asked, purpose, stepUpChallenge, signature, enrolled,
                   counter, accepted>>

(* Against the counter that was read, and written whatever it is by now.    *)
LoginChecks(v) ==
    /\ verifies[v].pc = "check"
    /\ IF Rises(verifies[v].of, verifies[v].read)
       THEN /\ counter' = IF enrolled THEN Emitted(verifies[v].of) ELSE counter
            /\ verifies' = [verifies EXCEPT ![v].pc = "mint"]
       ELSE /\ UNCHANGED counter
            /\ VerifyEnds(v)
    /\ UNCHANGED <<counts, asked, purpose, rows, stepUpChallenge, signature,
                   enrolled, accepted>>

LoginMints(v) ==
    /\ verifies[v].pc = "mint"
    /\ accepted' = [accepted EXCEPT ![verifies[v].of] = @ + 1]
    /\ VerifyEnds(v)
    /\ UNCHANGED <<counts, asked, purpose, rows, stepUpChallenge, signature,
                   enrolled, counter>>

-----------------------------------------------------------------------------
(* verifyAuthentication                                                     *)

(* takeChallenge: gone for good, and only then is it compared.              *)
StepUpTakes(v, k) ==
    /\ verifies[v].pc = "idle"
    /\ signature[k] # 0
    /\ stepUpChallenge # 0
    /\ stepUpChallenge' = 0
    /\ IF k = stepUpChallenge
       THEN verifies' = [verifies EXCEPT ![v] = [pc |-> "assert", of |-> k, read |-> 0]]
       ELSE UNCHANGED verifies
    /\ UNCHANGED <<counts, asked, purpose, rows, signature, enrolled, counter, accepted>>

(* checks the signature alone *)
StepUpTrusts(v) ==
    /\ verifies[v].pc = "assert"
    /\ counter' = Emitted(verifies[v].of)
    /\ accepted' = [accepted EXCEPT ![verifies[v].of] = @ + 1]
    /\ VerifyEnds(v)
    /\ UNCHANGED <<counts, asked, purpose, rows, stepUpChallenge, signature, enrolled>>

(* SELECT ... FOR UPDATE, verify and update in one transaction.             *)
StepUpAsserts(v) ==
    /\ verifies[v].pc = "assert"
    /\ IF enrolled /\ Rises(verifies[v].of, counter)
       THEN /\ counter' = Emitted(verifies[v].of)
            /\ accepted' = [accepted EXCEPT ![verifies[v].of] = @ + 1]
       ELSE UNCHANGED <<counter, accepted>>
    /\ VerifyEnds(v)
    /\ UNCHANGED <<counts, asked, purpose, rows, stepUpChallenge, signature, enrolled>>

-----------------------------------------------------------------------------

PasskeyNext ==
    \/ LoginOptions \/ StepUpOptions \/ StepUpExpires \/ ChallengesForgotten
    \/ PasskeyDeleted
    \/ \E k \in Challenges : Sign(k) \/ LoginExpires(k)
    \/ \E v \in Verifies :
          \/ \E k \in Challenges : LoginReads(v, k) \/ StepUpTakes(v, k)
          \/ LoginFinds(v) \/ LoginDeletes(v) \/ LoginChecks(v) \/ LoginMints(v)
          \/ StepUpAsserts(v)

PasskeySpec == PasskeyInit /\ [][PasskeyNext]_passkeyVars

-----------------------------------------------------------------------------
(* Properties                                                               *)

(* However often an assertion is presented, to either endpoint and in        *)
(* whatever order, one made for a step-up cosigns once and never logs in,    *)
(* and one made for a login opens no more sessions than requests overlap,    *)
(* even if the authenticator does not count.                                 *)
AssertionGivesOnce ==
    \A k \in Challenges :
        accepted[k] + Cardinality({v \in Verifies : verifies[v].pc = "mint"
                                                    /\ verifies[v].of = k})
            <= IF purpose[k] = "stepup" THEN 1 ELSE Cardinality(Verifies)

(* "lost increment -> replay window": the stored counter falls only when a   *)
(* login overlaps another assertion; a step-up never lets it fall.           *)
CounterFallsByLoginOnly ==
    [][counter' < counter =>
          \E v \in Verifies :
             /\ verifies[v].pc = "check" /\ verifies'[v].pc = "mint"
             /\ verifies[v].read < counter]_passkeyVars

=============================================================================
