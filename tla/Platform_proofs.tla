--------------------------- MODULE Platform_proofs ---------------------------
(***************************************************************************)
(* Proofs about the parts that MCPlatform checks side by side, for any       *)
(* number of calls, users, requests, challenges and processes.               *)
(***************************************************************************)
EXTENDS Proxy, Members, Passkeys, CloudConnections, AuditArchive, PolicyCache, Spans,
        FiniteSetTheorems, WellFoundedInduction, TLAPS

-----------------------------------------------------------------------------
(* AuditArchive                                                             *)

LEMMA ArchiverUpdates ==
    ASSUME NEW a \in ArchiverStates, NEW pc \in {"down", "waiting", "reading", "uploading"},
           NEW kept \in SUBSET ArchiveEvents, NEW h \in Hours, NEW k \in Hours
    PROVE  /\ NoArchiver \in ArchiverStates
           /\ [a EXCEPT !.pc = pc] \in ArchiverStates
           /\ [a EXCEPT !.pc = pc, !.got = kept] \in ArchiverStates
           /\ [NoArchiver EXCEPT !.pc = pc, !.ticked = h] \in ArchiverStates
           /\ [NoArchiver EXCEPT !.pc = pc, !.ticked = h, !.of = k] \in ArchiverStates
<1>1. 0 \in Hours
  BY ArchiveAssumption DEF Hours
<1> QED
  BY <1>1 DEF ArchiverStates, NoArchiver

LEMMA ArchiversTyped ==
    ASSUME ArchiveTypeOK, NEW w \in Archivers, NEW a \in ArchiverStates, Becomes(w, a)
    PROVE  archivers' \in [Archivers -> ArchiverStates]
  BY DEF ArchiveTypeOK, Becomes

LEMMA ArchiveTypeStep ==
    ASSUME ArchiveTypeOK, [ArchiveNext]_archiveVars
    PROVE  ArchiveTypeOK'
<1>1. MaxHour \in Nat /\ 0 \in Hours /\ hour \in Hours
  BY ArchiveAssumption DEF Hours, ArchiveTypeOK
<1>2. \A w \in Archivers : archivers[w] \in ArchiverStates
  BY DEF ArchiveTypeOK
<1>3. CASE HourPasses
  BY <1>1, <1>3 DEF HourPasses, ArchiveTypeOK, Hours
<1>4. ASSUME NEW e \in ArchiveEvents, EventEmitted(e) \/ EventFlushed(e)
      PROVE  ArchiveTypeOK'
  <2>1. events' \in [ArchiveEvents -> EventStates]
    BY <1>1, <1>4 DEF EventEmitted, EventFlushed, ArchiveTypeOK, EventStates
  <2> QED
    BY <1>4, <2>1 DEF EventEmitted, EventFlushed, ArchiveTypeOK
<1>5. ASSUME NEW w \in Archivers, WorkerStarts(w) \/ WorkerStops(w)
      PROVE  ArchiveTypeOK'
  <2>1. archivers' \in [Archivers -> ArchiverStates]
    BY <1>1, <1>2, <1>5, ArchiverUpdates, ArchiversTyped DEF WorkerStarts, WorkerStops
  <2> QED
    BY <1>5, <2>1 DEF WorkerStarts, WorkerStops, ArchiveTypeOK
<1>6. ASSUME NEW w \in Archivers, WorkerTicks(w)
      PROVE  ArchiveTypeOK'
  <2>1. hour - 1 \in Hours
    BY <1>1, <1>2, <1>6 DEF WorkerTicks, Hours, ArchiverStates
  <2>2. [NoArchiver EXCEPT !.pc = "reading", !.ticked = hour, !.of = hour - 1] \in ArchiverStates
    BY <1>1, <1>2, <2>1, ArchiverUpdates
  <2>3. archivers' \in [Archivers -> ArchiverStates]
    BY <1>6, <2>2, ArchiversTyped DEF WorkerTicks
  <2> QED
    BY <1>6, <2>3 DEF WorkerTicks, ArchiveTypeOK
<1>7. ASSUME NEW w \in Archivers, WorkerReads(w)
      PROVE  ArchiveTypeOK'
  <2>1. RowsOf(archivers[w].of) \in SUBSET ArchiveEvents
    BY DEF RowsOf
  <2>2. archivers' \in [Archivers -> ArchiverStates]
    BY <1>1, <1>2, <1>7, <2>1, ArchiverUpdates, ArchiversTyped DEF WorkerReads
  <2> QED
    BY <1>7, <2>2 DEF WorkerReads, ArchiveTypeOK
<1>8. ASSUME NEW w \in Archivers, WorkerUploads(w)
      PROVE  ArchiveTypeOK'
  <2>1. archivers[w].of \in Hours /\ archivers[w].got \in SUBSET ArchiveEvents
    BY <1>2 DEF ArchiverStates
  <2>2. objects' \in [Hours -> SUBSET ArchiveEvents]
    BY <1>8, <2>1 DEF WorkerUploads, ArchiveTypeOK
  <2>3. archivers' \in [Archivers -> ArchiverStates]
    BY <1>2, <1>8 DEF WorkerUploads, ArchiverStates
  <2> QED
    BY <1>8, <2>2, <2>3 DEF WorkerUploads, ArchiveTypeOK
<1>9. ASSUME NEW w \in Archivers, WorkerFails(w)
      PROVE  ArchiveTypeOK'
  <2>1. archivers' \in [Archivers -> ArchiverStates]
    BY <1>1, <1>2, <1>9, ArchiverUpdates, ArchiversTyped DEF WorkerFails
  <2> QED
    BY <1>9, <2>1 DEF WorkerFails, ArchiveTypeOK
<1>10. CASE UNCHANGED archiveVars
  BY <1>10 DEF archiveVars, ArchiveTypeOK
<1> QED
  BY <1>3, <1>4, <1>5, <1>6, <1>7, <1>8, <1>9, <1>10 DEF ArchiveNext

(* Hours, events, workers and objects keep their types, for any number of    *)
(* workers and events.                                                       *)
THEOREM ArchiveTypeCorrect == ArchiveSpec => []ArchiveTypeOK
<1>1. ArchiveInit => ArchiveTypeOK
  BY ArchiveAssumption
  DEF ArchiveInit, ArchiveTypeOK, Hours, EventStates, ArchiverStates, NoArchiver
<1> QED
  BY <1>1, ArchiveTypeStep, PTL DEF ArchiveSpec

(* An object holds rows of its hour only, and a worker that nobody overtook  *)
(* has read all that the object holds.                                       *)
Archived ==
    /\ \A h \in Hours : objects[h] \subseteq RowsOf(h)
    /\ \A w \in Archivers : archivers[w].pc = "uploading" =>
          /\ archivers[w].got \subseteq RowsOf(archivers[w].of)
          /\ archivers[w].overtaken \/ objects[archivers[w].of] \subseteq archivers[w].got

LEMMA ArchivedStep ==
    ASSUME ArchiveTypeOK, Archived, [ArchiveNext]_archiveVars
    PROVE  Archived'
<1>1. \A w \in Archivers : archivers[w] \in ArchiverStates /\ archivers[w].of \in Hours
  BY DEF ArchiveTypeOK, ArchiverStates
<1>2. ASSUME NEW e \in ArchiveEvents, events[e].at = "table"
      PROVE  events'[e] = events[e]
  <2>1. ASSUME NEW d \in ArchiveEvents, EventEmitted(d) \/ EventFlushed(d)
        PROVE  events'[e] = events[e]
    <3>1. d # e
      BY <1>2, <2>1 DEF EventEmitted, EventFlushed
    <3> QED
      BY <2>1, <3>1 DEF EventEmitted, EventFlushed, ArchiveTypeOK
  <2> QED
    BY <2>1 DEF ArchiveNext, archiveVars, HourPasses, WorkerStarts, WorkerStops,
       WorkerTicks, WorkerReads, WorkerUploads, WorkerFails
<1>3. CASE UNCHANGED <<archivers, objects>>
  BY <1>1, <1>2, <1>3 DEF Archived, RowsOf
<1>4. ASSUME NEW w \in Archivers,
             WorkerStarts(w) \/ WorkerStops(w) \/ WorkerTicks(w) \/ WorkerFails(w)
      PROVE  Archived'
  <2>1. UNCHANGED <<objects, events>>
        /\ \A v \in Archivers : v # w => archivers'[v] = archivers[v]
    BY <1>4 DEF WorkerStarts, WorkerStops, WorkerTicks, WorkerFails, Becomes, ArchiveTypeOK
  <2>2. archivers'[w].pc # "uploading"
    <3>1. CASE WorkerFails(w)
      BY <1>1, <3>1 DEF WorkerFails, Becomes, ArchiveTypeOK, ArchiverStates
    <3>2. CASE WorkerStarts(w)
      BY <3>2 DEF WorkerStarts, Becomes, NoArchiver, ArchiveTypeOK
    <3>3. CASE WorkerStops(w)
      BY <3>3 DEF WorkerStops, Becomes, NoArchiver, ArchiveTypeOK
    <3>4. CASE WorkerTicks(w)
      BY <3>4 DEF WorkerTicks, Becomes, NoArchiver, ArchiveTypeOK
    <3> QED
      BY <1>4, <3>1, <3>2, <3>3, <3>4
  <2> QED
    BY <2>1, <2>2 DEF Archived, RowsOf
<1>5. ASSUME NEW w \in Archivers, WorkerReads(w)
      PROVE  Archived'
  <2>1. UNCHANGED <<objects, events>>
        /\ \A v \in Archivers : v # w => archivers'[v] = archivers[v]
    BY <1>5 DEF WorkerReads, Becomes, ArchiveTypeOK
  <2>2. archivers'[w].pc = "uploading" =>
            archivers'[w].of = archivers[w].of /\ archivers'[w].got = RowsOf(archivers[w].of)
    <3> DEFINE kept == RowsOf(archivers[w].of)
    <3>1. CASE kept = {}
      <4>1. archivers'[w] = [archivers[w] EXCEPT !.pc = "waiting"]
        BY <1>5, <3>1 DEF WorkerReads, Becomes, ArchiveTypeOK
      <4> QED
        BY <1>1, <4>1 DEF ArchiverStates
    <3>2. CASE kept # {}
      <4>1. archivers'[w] = [archivers[w] EXCEPT !.pc = "uploading", !.got = kept]
        BY <1>5, <3>2 DEF WorkerReads, Becomes, ArchiveTypeOK
      <4> QED
        BY <1>1, <4>1 DEF ArchiverStates
    <3> QED
      BY <3>1, <3>2
  <2>3. objects[archivers[w].of] \subseteq RowsOf(archivers[w].of)
    BY <1>1 DEF Archived
  <2> QED
    BY <2>1, <2>2, <2>3 DEF Archived, RowsOf
<1>6. ASSUME NEW w \in Archivers, WorkerUploads(w)
      PROVE  Archived'
  <2>1. UNCHANGED events /\ archivers'[w].pc = "waiting"
        /\ objects' = [objects EXCEPT ![archivers[w].of] = archivers[w].got]
    BY <1>1, <1>6 DEF WorkerUploads, ArchiveTypeOK, ArchiverStates
  <2>2. archivers[w].got \subseteq RowsOf(archivers[w].of)
    BY <1>6 DEF WorkerUploads, Archived
  <2>3. \A h \in Hours : objects'[h] = IF h = archivers[w].of THEN archivers[w].got ELSE objects[h]
    BY <1>1, <2>1 DEF ArchiveTypeOK
  <2>4. \A h \in Hours : objects'[h] \subseteq RowsOf(h)'
    BY <1>1, <1>2, <2>2, <2>3 DEF Archived, RowsOf
  <2>5. ASSUME NEW v \in Archivers, v # w, archivers'[v].pc = "uploading"
        PROVE  /\ archivers'[v].got \subseteq RowsOf(archivers[v].of)'
               /\ archivers'[v].overtaken \/ objects'[archivers'[v].of] \subseteq archivers'[v].got
    <3>1. /\ archivers[v].pc = "uploading"
          /\ archivers'[v].of = archivers[v].of /\ archivers'[v].got = archivers[v].got
          /\ archivers'[v].overtaken = (archivers[v].overtaken \/ archivers[v].of = archivers[w].of)
      BY <1>1, <1>6, <2>5 DEF WorkerUploads, ArchiveTypeOK, ArchiverStates
    <3>2. archivers[v].got \subseteq RowsOf(archivers[v].of)
          /\ (archivers[v].overtaken \/ objects[archivers[v].of] \subseteq archivers[v].got)
      BY <3>1 DEF Archived
    <3>3. archivers'[v].got \subseteq RowsOf(archivers[v].of)'
      BY <2>1, <3>1, <3>2 DEF RowsOf
    <3>4. CASE archivers[v].of = archivers[w].of
      BY <2>5, <3>1, <3>3, <3>4
    <3>5. CASE archivers[v].of # archivers[w].of
      <4>1. archivers[v].of \in Hours
        BY <1>1
      <4>2. objects'[archivers[v].of] = objects[archivers[v].of]
        BY <2>3, <3>5, <4>1
      <4> QED
        BY <3>1, <3>2, <3>3, <3>5, <4>2
    <3> QED
      BY <3>4, <3>5
  <2>6. \A v \in Archivers : archivers'[v].pc = "uploading" => v # w
    BY <2>1
  <2> QED
    BY <2>4, <2>5, <2>6 DEF Archived
<1> QED
  BY <1>3, <1>4, <1>5, <1>6
  DEF ArchiveNext, archiveVars, HourPasses, EventEmitted, EventFlushed

(* An object of the archive loses rows only to a worker that was overtaken   *)
(* between its read and its upload, for any number of workers.               *)
THEOREM ArchiveShrinks == ArchiveSpec => ArchiveShrinksByOverlapOnly
<1>1. ArchiveInit => ArchiveTypeOK /\ Archived
  BY ArchiveAssumption
  DEF ArchiveInit, ArchiveTypeOK, Archived, Hours, EventStates, ArchiverStates, NoArchiver
<1>2. ArchiveTypeOK /\ Archived /\ [ArchiveNext]_archiveVars => ArchiveTypeOK' /\ Archived'
  BY ArchiveTypeStep, ArchivedStep
<1>3. ASSUME ArchiveTypeOK, Archived, ArchiveNext
      PROVE  \A h \in Hours : objects[h] \subseteq objects'[h] \/
                \E w \in Archivers :
                   /\ archivers[w].pc = "uploading" /\ archivers[w].of = h
                   /\ archivers[w].overtaken /\ archivers'[w].pc = "waiting"
  <2>1. CASE UNCHANGED objects
    BY <2>1
  <2>2. ASSUME NEW w \in Archivers, WorkerUploads(w), NEW h \in Hours
        PROVE  objects[h] \subseteq objects'[h] \/
                  (/\ archivers[w].pc = "uploading" /\ archivers[w].of = h
                   /\ archivers[w].overtaken /\ archivers'[w].pc = "waiting")
    <3>1. archivers[w] \in ArchiverStates
      BY <1>3 DEF ArchiveTypeOK
    <3>2. objects'[h] = IF h = archivers[w].of THEN archivers[w].got ELSE objects[h]
      BY <1>3, <2>2, <3>1 DEF WorkerUploads, ArchiveTypeOK, ArchiverStates
    <3>3. archivers[w].pc = "uploading" /\ archivers'[w].pc = "waiting"
      BY <1>3, <2>2, <3>1 DEF WorkerUploads, ArchiveTypeOK, ArchiverStates
    <3>4. archivers[w].overtaken \/ objects[archivers[w].of] \subseteq archivers[w].got
      BY <1>3, <3>3 DEF Archived
    <3> QED
      BY <3>2, <3>3, <3>4
  <2> QED
    BY <1>3, <2>1, <2>2 DEF ArchiveNext, HourPasses, EventEmitted, EventFlushed, WorkerStarts,
       WorkerStops, WorkerTicks, WorkerReads, WorkerFails
<1> QED
  BY <1>1, <1>2, <1>3, PTL DEF ArchiveSpec, ArchiveShrinksByOverlapOnly

-----------------------------------------------------------------------------
(* Proxy                                                                    *)

Kinds == {"cloud", "oauth", "local"}
Answers == {"none", "relayed", "refused", "error"}

LEMMA CallUpdates ==
    ASSUME NEW call \in ProxyStates, NEW kind \in Kinds, NEW hasJwt \in BOOLEAN,
           NEW v \in Verdicts, NEW r \in BOOLEAN, NEW pc \in {"idle", "answered"} \cup Waits,
           NEW answer \in Answers
    PROVE  /\ NoProxied \in ProxyStates
           /\ [NoProxied EXCEPT !.pc = pc] \in ProxyStates
           /\ [NoProxied EXCEPT !.pc = pc, !.answer = answer] \in ProxyStates
           /\ [NoProxied EXCEPT !.kind = kind, !.hasJwt = hasJwt] \in ProxyStates
           /\ [call EXCEPT !.pc = pc] \in ProxyStates
           /\ [call EXCEPT !.cosigned = TRUE] \in ProxyStates
           /\ [call EXCEPT !.policy = v, !.revoked = r] \in ProxyStates
<1>1. NoProxied \in ProxyStates
  BY DEF ProxyStates, NoProxied, Verdicts
<1>2. [NoProxied EXCEPT !.pc = pc] \in ProxyStates
  BY <1>1 DEF ProxyStates
<1>3. [NoProxied EXCEPT !.pc = pc, !.answer = answer] \in ProxyStates
  BY <1>1 DEF ProxyStates, Answers
<1>4. [NoProxied EXCEPT !.kind = kind, !.hasJwt = hasJwt] \in ProxyStates
  BY <1>1 DEF ProxyStates, Kinds
<1>5. [call EXCEPT !.pc = pc] \in ProxyStates
  BY DEF ProxyStates
<1>6. [call EXCEPT !.cosigned = TRUE] \in ProxyStates
  BY DEF ProxyStates
<1>7. [call EXCEPT !.policy = v, !.revoked = r] \in ProxyStates
  BY DEF ProxyStates
<1> QED
  BY <1>1, <1>2, <1>3, <1>4, <1>5, <1>6, <1>7

LEMMA DecidedTyped ==
    ASSUME NEW call \in ProxyStates
    PROVE  /\ Denied \in ProxyStates
           /\ Decided(call) \in ProxyStates
<1>1. {"denying", "asking", "auditing"} \subseteq {"idle", "answered"} \cup Waits
  BY DEF Waits
<1>2. \A pc \in {"denying", "asking", "auditing"} :
          /\ [NoProxied EXCEPT !.pc = pc] \in ProxyStates
          /\ [NoProxied EXCEPT !.pc = pc, !.kind = call.kind] \in ProxyStates
  BY <1>1 DEF ProxyStates, NoProxied, Verdicts, Permits
<1> QED
  BY <1>2 DEF Decided, Denied

LEMMA ReadsTyped ==
    ASSUME NEW call \in ProxyStates, NEW r \in BOOLEAN, policy \in Verdicts
    PROVE  Reads(call, r) \in ProxyStates
<1> DEFINE read == [call EXCEPT !.policy = policy, !.revoked = r]
<1>1. read \in ProxyStates
  BY DEF ProxyStates
<1>2. [read EXCEPT !.pc = "validate"] \in ProxyStates
  BY <1>1 DEF ProxyStates, Waits
<1>3. Decided(read) \in ProxyStates
  BY <1>1, DecidedTyped
<1> QED
  BY <1>2, <1>3 DEF Reads

LEMMA GoesTyped ==
    ASSUME ProxyTypeOK, NEW c \in ProxyCalls, NEW call \in ProxyStates, ProxyGoes(c, call)
    PROVE  /\ proxied' \in [ProxyCalls -> ProxyStates]
           /\ proxied'[c] = call
           /\ \A d \in ProxyCalls : d # c => proxied'[d] = proxied[d]
  BY DEF ProxyTypeOK, ProxyGoes

LEMMA RespondsTyped ==
    ASSUME ProxyTypeOK, NEW c \in ProxyCalls, NEW answer \in Answers, Responds(c, answer)
    PROVE  /\ proxied' \in [ProxyCalls -> ProxyStates]
           /\ proxied'[c] = [NoProxied EXCEPT !.pc = "answered", !.answer = answer]
           /\ \A d \in ProxyCalls : d # c => proxied'[d] = proxied[d]
<1>1. [NoProxied EXCEPT !.pc = "answered", !.answer = answer] \in ProxyStates
  BY DEF ProxyStates, NoProxied, Verdicts, Permits, Answers
<1> QED
  BY <1>1, GoesTyped DEF Responds

(* What holds of a call while it is served: what it was decided on it could  *)
(* have met, and it is executed after its allow, once, before its answer.    *)
Allowed(c) ==
    "allow" \in chances[c] \/ ("stepup" \in chances[c] /\ claimant = c)

Served(c) ==
    /\ proxied[c].pc = "lazy" => Met(policy, leafRevoked) \subseteq chances[c]
    /\ proxied[c].pc \in {"lazy", "validate", "claim"} => ~proxied[c].cosigned
    /\ proxied[c].pc \in {"validate", "claim"} =>
          /\ proxied[c].policy # "unknown"
          /\ Met(proxied[c].policy, proxied[c].revoked) \subseteq chances[c]
    /\ proxied[c].pc \in {"auditing", "sending", "resending", "reporting", "failing"}
          => Allowed(c)
    /\ proxied[c].pc \in {"sending", "resending", "reporting", "failing"} => c \in recorded
    /\ proxied[c].pc \notin {"reporting", "failing", "answered"} => executed[c] = 0
    /\ proxied[c].pc # "answered" => proxied[c].answer = "none"
    /\ executed[c] > 0 => Allowed(c) /\ c \in recorded /\ proxied[c].answer # "refused"
    /\ executed[c] \in {0, 1}

(* A call that a step leaves alone.                                         *)
LEMMA ServedKept ==
    ASSUME NEW d \in ProxyCalls, Served(d),
           proxied'[d] = proxied[d], executed'[d] = executed[d],
           chances[d] \subseteq chances'[d], recorded \subseteq recorded',
           claimant = d => claimant' = d,
           Met(policy, leafRevoked)' \subseteq chances'[d] \cup Met(policy, leafRevoked)
    PROVE  Served(d)'
<1>1. Allowed(d) => Allowed(d)'
  BY DEF Allowed
<1>2. proxied[d].pc = "lazy" => Met(policy, leafRevoked)' \subseteq chances'[d]
  BY DEF Served
<1> QED
  BY <1>1, <1>2 DEF Served

(* A call that is decided on what it could have met.                        *)
LEMMA ServedDecided ==
    ASSUME NEW c \in ProxyCalls, NEW call \in ProxyStates,
           proxied'[c] = Decided(call),
           call.policy # "unknown",
           Met(call.policy, call.revoked) \subseteq chances'[c],
           call.cosigned => claimant' = c,
           executed'[c] = 0
    PROVE  Served(c)'
<1>1. CASE call.revoked \/ call.policy = "deny"
  <2>1. proxied'[c] = [NoProxied EXCEPT !.pc = "denying"]
    BY <1>1 DEF Decided, Denied
  <2> QED
    BY <2>1 DEF Served, NoProxied
<1>2. CASE ~call.revoked /\ call.policy = "stepup" /\ ~call.cosigned
  <2>1. proxied'[c] = [NoProxied EXCEPT !.pc = "asking"]
    BY <1>2 DEF Decided
  <2> QED
    BY <2>1 DEF Served, NoProxied
<1>3. CASE ~call.revoked /\ call.policy # "deny" /\ ~(call.policy = "stepup" /\ ~call.cosigned)
  <2>1. proxied'[c] = [NoProxied EXCEPT !.pc = "auditing", !.kind = call.kind]
    BY <1>3 DEF Decided
  <2>2. call.policy \in Permits
    BY <1>3 DEF ProxyStates, Verdicts
  <2>3. call.policy \in chances'[c]
    BY <1>3, <2>2 DEF Met
  <2>4. Allowed(c)'
    BY <1>3, <2>2, <2>3 DEF Allowed, Permits
  <2> QED
    BY <2>1, <2>4 DEF Served, NoProxied
<1> QED
  BY <1>1, <1>2, <1>3

(* A call that reads the caches.                                            *)
LEMMA ServedReads ==
    ASSUME NEW c \in ProxyCalls, NEW call \in ProxyStates,
           policy \in Verdicts, leafRevoked \in BOOLEAN,
           proxied'[c] = Reads(call, leafRevoked),
           policy # "unknown", ~call.cosigned, call.answer = "none",
           Met(policy, leafRevoked) \subseteq chances'[c],
           executed'[c] = 0
    PROVE  Served(c)'
<1> DEFINE read == [call EXCEPT !.policy = policy, !.revoked = leafRevoked]
<1>1. /\ read \in ProxyStates
      /\ read.policy = policy /\ read.revoked = leafRevoked /\ ~read.cosigned
      /\ read.answer = "none"
  BY DEF ProxyStates
<1>2. CASE call.hasJwt
  <2>1. proxied'[c] = [read EXCEPT !.pc = "validate"]
    BY <1>2 DEF Reads
  <2>2. /\ proxied'[c].pc = "validate" /\ proxied'[c].answer = "none"
        /\ proxied'[c].policy = policy /\ proxied'[c].revoked = leafRevoked
        /\ ~proxied'[c].cosigned
    BY <1>1, <2>1 DEF ProxyStates
  <2> QED
    BY <2>2 DEF Served
<1>3. CASE ~call.hasJwt
  <2>1. proxied'[c] = Decided(read)
    BY <1>3 DEF Reads
  <2> HIDE DEF read
  <2> QED
    BY <1>1, <2>1, ServedDecided
<1> QED
  BY <1>2, <1>3

Serving == \A c \in ProxyCalls : Served(c)

(* A step of one call leaves the other calls alone.                         *)
LEMMA ServingByCall ==
    ASSUME ProxyTypeOK, Serving, NEW c \in ProxyCalls, Served(c)',
           \A d \in ProxyCalls : d # c =>
               /\ proxied'[d] = proxied[d] /\ executed'[d] = executed[d]
               /\ chances'[d] = chances[d],
           UNCHANGED <<policy, leafRevoked>>,
           claimant' = claimant \/ claimant = Nobody,
           recorded \subseteq recorded'
    PROVE  Serving'
<1>1. ASSUME NEW d \in ProxyCalls, d # c
      PROVE  Served(d)'
  <2>1. claimant = d => claimant' = d
    BY ProxyAssumption
  <2>2. Met(policy, leafRevoked)' = Met(policy, leafRevoked)
    BY DEF Met
  <2> QED
    BY <1>1, <2>1, <2>2, ServedKept DEF Serving
<1> QED
  BY <1>1 DEF Serving

LEMMA ProxyCallStep ==
    ASSUME ProxyTypeOK, Serving, NEW c \in ProxyCalls,
           \/ Malformed(c)
           \/ \E kind \in Kinds, hasJwt \in BOOLEAN : Proxied(c, kind, hasJwt)
           \/ LazyRefreshed(c) \/ Validated(c) \/ Claimed(c) \/ ClaimLost(c)
           \/ Asked(c) \/ DenyRecorded(c) \/ AllowRecorded(c) \/ EmitRejected(c)
    PROVE  ProxyTypeOK' /\ Serving'
<1> USE DEF Serving
<1>1. /\ proxied[c] \in ProxyStates /\ Served(c)
      /\ policy \in Verdicts /\ leafRevoked \in BOOLEAN
      /\ Denied \in ProxyStates
  BY DecidedTyped DEF ProxyTypeOK
<1>2. CASE Malformed(c) \/ Asked(c)
  <2>1. /\ ProxyGoes(c, Denied) /\ UNCHANGED <<policy, leafRevoked, claimant, recorded, executed, chances>>
        /\ proxied[c].pc \in {"idle", "lazy", "asking"}
    BY <1>2 DEF Malformed, Asked
  <2>2. /\ proxied' \in [ProxyCalls -> ProxyStates] /\ proxied'[c] = Denied
        /\ \A d \in ProxyCalls : d # c => proxied'[d] = proxied[d]
    BY <1>1, <2>1, GoesTyped
  <2>3. ProxyTypeOK'
    BY <2>1, <2>2 DEF ProxyTypeOK
  <2>4. Served(c)'
    BY <1>1, <2>1, <2>2 DEF Served, Denied, NoProxied
  <2> QED
    BY <2>1, <2>2, <2>3, <2>4, ServingByCall
<1>3. ASSUME NEW kind \in Kinds, NEW hasJwt \in BOOLEAN, Proxied(c, kind, hasJwt)
      PROVE  ProxyTypeOK' /\ Serving'
  <2> DEFINE call == [NoProxied EXCEPT !.kind = kind, !.hasJwt = hasJwt]
  <2>1. /\ UNCHANGED <<policy, leafRevoked, claimant, recorded, executed>>
        /\ chances' = [chances EXCEPT ![c] = Met(policy, leafRevoked)]
        /\ proxied[c].pc = "idle"
        /\ ProxyGoes(c, IF policy = "unknown" THEN [call EXCEPT !.pc = "lazy"]
                   ELSE Reads(call, leafRevoked))
    BY <1>3 DEF Proxied
  <2>2. call \in ProxyStates /\ ~call.cosigned /\ call.answer = "none"
    BY DEF ProxyStates, NoProxied, Verdicts, Kinds
  <2>3. [call EXCEPT !.pc = "lazy"] \in ProxyStates /\ [call EXCEPT !.pc = "lazy"].pc = "lazy"
        /\ [call EXCEPT !.pc = "lazy"].answer = "none" /\ ~[call EXCEPT !.pc = "lazy"].cosigned
    BY <2>2 DEF ProxyStates, Waits
  <2>4. chances' \in [ProxyCalls -> SUBSET Permits] /\ chances'[c] = Met(policy, leafRevoked)
        /\ \A d \in ProxyCalls : d # c => chances'[d] = chances[d]
    BY <2>1 DEF ProxyTypeOK, Met
  <2>5. executed'[c] = 0
    BY <1>1, <2>1 DEF Served
  <2> HIDE DEF call
  <2>6. CASE policy = "unknown"
    <3>1. ProxyGoes(c, [call EXCEPT !.pc = "lazy"])
      BY <2>1, <2>6
    <3>2. /\ proxied' \in [ProxyCalls -> ProxyStates]
          /\ proxied'[c] = [call EXCEPT !.pc = "lazy"]
          /\ \A d \in ProxyCalls : d # c => proxied'[d] = proxied[d]
      BY <2>3, <3>1, GoesTyped
    <3>3. ProxyTypeOK'
      BY <2>1, <2>4, <3>2 DEF ProxyTypeOK
    <3>4. Met(policy, leafRevoked)' \subseteq chances'[c]
      BY <2>1, <2>4 DEF Met
    <3>5. Served(c)'
      BY <2>3, <2>5, <3>2, <3>4 DEF Served
    <3> QED
      BY <2>1, <2>4, <3>2, <3>3, <3>5, ServingByCall
  <2>7. CASE policy # "unknown"
    <3>1. ProxyGoes(c, Reads(call, leafRevoked)) /\ Reads(call, leafRevoked) \in ProxyStates
      BY <1>1, <2>1, <2>2, <2>7, ReadsTyped
    <3>2. /\ proxied' \in [ProxyCalls -> ProxyStates]
          /\ proxied'[c] = Reads(call, leafRevoked)
          /\ \A d \in ProxyCalls : d # c => proxied'[d] = proxied[d]
      BY <3>1, GoesTyped
    <3>3. ProxyTypeOK'
      BY <2>1, <2>4, <3>2 DEF ProxyTypeOK
    <3>4. Served(c)'
      BY <1>1, <2>2, <2>4, <2>5, <2>7, <3>2, ServedReads
    <3> QED
      BY <2>1, <2>4, <3>2, <3>3, <3>4, ServingByCall
  <2> QED
    BY <2>6, <2>7
<1>4. CASE LazyRefreshed(c)
  <2>1. /\ UNCHANGED <<policy, leafRevoked, claimant, recorded, executed, chances>>
        /\ proxied[c].pc = "lazy"
        /\ ProxyGoes(c, IF policy = "unknown" THEN Denied ELSE Reads(proxied[c], leafRevoked))
    BY <1>4 DEF LazyRefreshed
  <2>2. Reads(proxied[c], leafRevoked) \in ProxyStates
    BY <1>1, ReadsTyped
  <2>3. /\ proxied' \in [ProxyCalls -> ProxyStates]
        /\ proxied'[c] = IF policy = "unknown" THEN Denied ELSE Reads(proxied[c], leafRevoked)
        /\ \A d \in ProxyCalls : d # c => proxied'[d] = proxied[d]
    BY <1>1, <2>1, <2>2, GoesTyped
  <2>4. ProxyTypeOK'
    BY <2>1, <2>3 DEF ProxyTypeOK
  <2>5. executed'[c] = 0 /\ proxied[c].answer = "none" /\ ~proxied[c].cosigned
        /\ Met(policy, leafRevoked) \subseteq chances'[c]
    BY <1>1, <2>1 DEF Served
  <2>6. Served(c)'
    <3>1. CASE policy = "unknown"
      BY <2>1, <2>3, <2>5, <3>1 DEF Served, Denied, NoProxied
    <3>2. CASE policy # "unknown"
      <4>1. proxied'[c] = Reads(proxied[c], leafRevoked)
        BY <2>3, <3>2
      <4> QED
        BY <1>1, <2>5, <3>2, <4>1, ServedReads
    <3> QED
      BY <3>1, <3>2
  <2> QED
    BY <2>1, <2>3, <2>4, <2>6, ServingByCall
<1>5. CASE Validated(c)
  <2>1. /\ UNCHANGED <<policy, leafRevoked, claimant, recorded, executed, chances>>
        /\ proxied[c].pc = "validate"
        /\ \E call \in {[proxied[c] EXCEPT !.pc = "claim"], Denied} : ProxyGoes(c, call)
    BY <1>5 DEF Validated
  <2>2. PICK call \in {[proxied[c] EXCEPT !.pc = "claim"], Denied} : ProxyGoes(c, call)
    BY <2>1
  <2>3. [proxied[c] EXCEPT !.pc = "claim"] \in ProxyStates
    BY <1>1 DEF ProxyStates, Waits
  <2>4. /\ proxied' \in [ProxyCalls -> ProxyStates] /\ proxied'[c] = call
        /\ \A d \in ProxyCalls : d # c => proxied'[d] = proxied[d]
    BY <1>1, <2>2, <2>3, GoesTyped
  <2>5. ProxyTypeOK'
    BY <2>1, <2>4 DEF ProxyTypeOK
  <2>6. Served(c)'
    <3>1. CASE call = Denied
      BY <1>1, <2>1, <2>4, <3>1 DEF Served, Denied, NoProxied
    <3>2. CASE call = [proxied[c] EXCEPT !.pc = "claim"]
      <4>1. /\ proxied'[c].pc = "claim" /\ proxied'[c].answer = proxied[c].answer
            /\ proxied'[c].policy = proxied[c].policy /\ proxied'[c].revoked = proxied[c].revoked
            /\ proxied'[c].cosigned = proxied[c].cosigned
        BY <1>1, <2>4, <3>2 DEF ProxyStates
      <4> QED
        BY <1>1, <2>1, <4>1 DEF Served
    <3> QED
      BY <2>2, <3>1, <3>2
  <2> QED
    BY <2>1, <2>4, <2>5, <2>6, ServingByCall
<1>6. CASE Claimed(c)
  <2>1. /\ UNCHANGED <<policy, leafRevoked, recorded, executed, chances>>
        /\ proxied[c].pc = "claim"
    BY <1>6 DEF Claimed
  <2>2. CASE claimant = Nobody
    <3> DEFINE call == [proxied[c] EXCEPT !.cosigned = TRUE]
    <3>1. claimant' = c /\ ProxyGoes(c, Decided(call))
      BY <1>6, <2>2 DEF Claimed
    <3>2. /\ call \in ProxyStates
          /\ call.policy = proxied[c].policy /\ call.revoked = proxied[c].revoked
      BY <1>1 DEF ProxyStates
    <3>3. Met(proxied[c].policy, proxied[c].revoked) \subseteq chances'[c]
          /\ proxied[c].policy # "unknown" /\ executed'[c] = 0
      BY <1>1, <2>1 DEF Served
    <3> HIDE DEF call
    <3>4. Decided(call) \in ProxyStates
      BY <3>2, DecidedTyped
    <3>5. /\ proxied' \in [ProxyCalls -> ProxyStates] /\ proxied'[c] = Decided(call)
          /\ \A d \in ProxyCalls : d # c => proxied'[d] = proxied[d]
      BY <3>1, <3>4, GoesTyped
    <3>6. ProxyTypeOK'
      BY <2>1, <3>1, <3>5 DEF ProxyTypeOK
    <3>7. Served(c)'
      BY <3>1, <3>2, <3>3, <3>5, ServedDecided
    <3> QED
      BY <2>1, <2>2, <3>5, <3>6, <3>7, ServingByCall
  <2>3. CASE claimant # Nobody
    <3>1. claimant' = claimant /\ ProxyGoes(c, Denied)
      BY <1>6, <2>3 DEF Claimed
    <3>2. /\ proxied' \in [ProxyCalls -> ProxyStates] /\ proxied'[c] = Denied
          /\ \A d \in ProxyCalls : d # c => proxied'[d] = proxied[d]
      BY <1>1, <3>1, GoesTyped
    <3>3. ProxyTypeOK'
      BY <2>1, <3>1, <3>2 DEF ProxyTypeOK
    <3>4. Served(c)'
      BY <1>1, <2>1, <3>2 DEF Served, Denied, NoProxied
    <3> QED
      BY <2>1, <3>1, <3>2, <3>3, <3>4, ServingByCall
  <2> QED
    BY <2>2, <2>3
<1>7. CASE ClaimLost(c)
  <2>1. /\ UNCHANGED <<policy, leafRevoked, recorded, executed, chances>>
        /\ proxied[c].pc = "claim" /\ Responds(c, "error")
        /\ claimant' = claimant \/ (claimant = Nobody /\ claimant' = c)
    BY <1>7 DEF ClaimLost
  <2>2. "error" \in Answers
    BY DEF Answers
  <2>3. /\ proxied' \in [ProxyCalls -> ProxyStates]
        /\ proxied'[c] = [NoProxied EXCEPT !.pc = "answered", !.answer = "error"]
        /\ \A d \in ProxyCalls : d # c => proxied'[d] = proxied[d]
    BY <2>1, <2>2, RespondsTyped
  <2>4. ProxyTypeOK'
    BY <2>1, <2>3 DEF ProxyTypeOK
  <2>5. Served(c)'
    BY <1>1, <2>1, <2>3 DEF Served, NoProxied
  <2> QED
    BY <2>1, <2>3, <2>4, <2>5, ServingByCall
<1>8. CASE DenyRecorded(c) \/ EmitRejected(c)
  <2>1. /\ UNCHANGED <<policy, leafRevoked, claimant, recorded, executed, chances>>
    BY <1>8 DEF DenyRecorded, EmitRejected
  <2>2. PICK answer \in Answers :
            /\ Responds(c, answer)
            /\ answer = "refused" => proxied[c].pc = "denying"
            /\ proxied[c].pc \in Waits
    BY <1>8 DEF DenyRecorded, EmitRejected, Answers, Waits
  <2>3. /\ proxied' \in [ProxyCalls -> ProxyStates]
        /\ proxied'[c] = [NoProxied EXCEPT !.pc = "answered", !.answer = answer]
        /\ \A d \in ProxyCalls : d # c => proxied'[d] = proxied[d]
    BY <2>2, RespondsTyped
  <2>4. ProxyTypeOK'
    BY <2>1, <2>3 DEF ProxyTypeOK
  <2>5. proxied'[c].pc = "answered" /\ (proxied'[c].answer = "refused" => executed[c] = 0)
    BY <1>1, <2>2, <2>3 DEF Served, NoProxied
  <2>6. Served(c)'
    BY <1>1, <2>1, <2>5 DEF Served, Allowed
  <2> QED
    BY <2>1, <2>3, <2>4, <2>6, ServingByCall
<1>9. CASE AllowRecorded(c)
  <2>1. /\ UNCHANGED <<policy, leafRevoked, claimant, executed, chances>>
        /\ proxied[c].pc = "auditing" /\ recorded' = recorded \cup {c}
        /\ ProxyGoes(c, [proxied[c] EXCEPT !.pc = "sending"])
    BY <1>9 DEF AllowRecorded
  <2>2. [proxied[c] EXCEPT !.pc = "sending"] \in ProxyStates
    BY <1>1 DEF ProxyStates, Waits
  <2>3. /\ proxied' \in [ProxyCalls -> ProxyStates]
        /\ proxied'[c] = [proxied[c] EXCEPT !.pc = "sending"]
        /\ \A d \in ProxyCalls : d # c => proxied'[d] = proxied[d]
    BY <2>1, <2>2, GoesTyped
  <2>4. ProxyTypeOK'
    BY <2>1, <2>3 DEF ProxyTypeOK
  <2>5. proxied'[c].pc = "sending" /\ proxied'[c].answer = proxied[c].answer
    BY <1>1, <2>3 DEF ProxyStates
  <2>6. Served(c)'
    BY <1>1, <2>1, <2>5 DEF Served, Allowed
  <2> QED
    BY <2>1, <2>3, <2>4, <2>6, ServingByCall
<1> QED
  BY <1>2, <1>3, <1>4, <1>5, <1>6, <1>7, <1>8, <1>9

LEMMA ProxyUpstreamStep ==
    ASSUME ProxyTypeOK, Serving, NEW c \in ProxyCalls,
           \/ CloudNotSent(c) \/ CloudAnswered(c) \/ CloudUnanswered(c) \/ Reported(c)
           \/ LocalDone(c) \/ NotSent(c) \/ OutOfScope(c) \/ Relayed(c) \/ CallFails(c)
           \/ Unauthorized(c) \/ RefreshFails(c)
    PROVE  ProxyTypeOK' /\ Serving'
<1> DEFINE Calling == {"sending", "resending"}
<1>1. /\ proxied[c] \in ProxyStates /\ Served(c)
      /\ executed \in [ProxyCalls -> Nat]
  BY DEF ProxyTypeOK, Serving
<1>2. UNCHANGED <<policy, leafRevoked, claimant, recorded, chances>>
  BY DEF CloudNotSent, CloudAnswered, CloudUnanswered, Reported, LocalDone, NotSent,
     OutOfScope, Relayed, CallFails, Unauthorized, RefreshFails
<1>3. \/ UNCHANGED executed
      \/ (proxied[c].pc \in Calling /\ Upstream(c))
  BY DEF CloudNotSent, CloudAnswered, CloudUnanswered, Reported, LocalDone, NotSent,
     OutOfScope, Relayed, CallFails, Unauthorized, RefreshFails, AtProvider
<1>4. /\ executed' \in [ProxyCalls -> Nat]
      /\ \A d \in ProxyCalls : d # c => executed'[d] = executed[d]
      /\ executed'[c] = executed[c]
            \/ (proxied[c].pc \in Calling /\ executed'[c] \in {0, 1})
  <2>1. CASE UNCHANGED executed
    BY <1>1, <2>1
  <2>2. CASE proxied[c].pc \in Calling /\ Upstream(c)
    <3>1. PICK n \in {0, 1} : executed' = [executed EXCEPT ![c] = @ + n]
      BY <2>2 DEF Upstream
    <3>2. executed[c] = 0
      BY <1>1, <2>2 DEF Served
    <3> QED
      BY <1>1, <2>2, <3>1, <3>2
  <2> QED
    BY <1>3, <2>1, <2>2
<1>5. Allowed(c) /\ c \in recorded /\ proxied[c].answer = "none"
      /\ proxied[c].pc \in Calling \cup {"reporting", "failing"}
  BY <1>1 DEF Served, CloudNotSent, CloudAnswered, CloudUnanswered, Reported, LocalDone,
     NotSent, OutOfScope, Relayed, CallFails, Unauthorized, RefreshFails, AtProvider
<1>6. \/ \E answer \in Answers :
            Responds(c, answer) /\ (answer = "refused" => executed'[c] = 0)
      \/ \E pc \in {"resending", "reporting", "failing"} :
            /\ ProxyGoes(c, [proxied[c] EXCEPT !.pc = pc])
            /\ pc = "resending" => executed'[c] = 0
  <2>1. CASE CloudNotSent(c) \/ NotSent(c) \/ OutOfScope(c) \/ RefreshFails(c)
    <3>1. \E answer \in Answers : Responds(c, answer)
      BY <2>1 DEF CloudNotSent, NotSent, OutOfScope, RefreshFails, Answers
    <3>2. executed'[c] = 0
      BY <1>1, <2>1 DEF Served, CloudNotSent, NotSent, OutOfScope, RefreshFails
    <3> QED
      BY <3>1, <3>2
  <2>2. CASE Relayed(c) \/ CallFails(c) \/ Reported(c) \/ LocalDone(c)
    <3>1. \E answer \in {"relayed", "error"} : Responds(c, answer)
      BY <2>2 DEF Relayed, CallFails, Reported, LocalDone
    <3> QED
      BY <3>1 DEF Answers
  <2>3. CASE CloudAnswered(c)
    BY <2>3 DEF CloudAnswered
  <2>4. CASE CloudUnanswered(c)
    BY <2>4 DEF CloudUnanswered, Answers
  <2>5. CASE Unauthorized(c)
    BY <1>1, <2>5 DEF Unauthorized, Served
  <2> QED
    BY <2>1, <2>2, <2>3, <2>4, <2>5
<1>7. ASSUME NEW answer \in Answers, Responds(c, answer),
             answer = "refused" => executed'[c] = 0
      PROVE  ProxyTypeOK' /\ Serving'
  <2>1. /\ proxied' \in [ProxyCalls -> ProxyStates]
        /\ proxied'[c] = [NoProxied EXCEPT !.pc = "answered", !.answer = answer]
        /\ \A d \in ProxyCalls : d # c => proxied'[d] = proxied[d]
    BY <1>7, RespondsTyped
  <2>2. ProxyTypeOK'
    BY <1>2, <1>4, <2>1 DEF ProxyTypeOK
  <2>3. proxied'[c].pc = "answered" /\ proxied'[c].answer = answer
    BY <2>1 DEF NoProxied
  <2>4. executed'[c] \in {0, 1}
    BY <1>1, <1>4 DEF Served
  <2>5. Served(c)'
    BY <1>2, <1>5, <1>7, <2>3, <2>4 DEF Served, Allowed
  <2> QED
    BY <1>2, <1>4, <2>1, <2>2, <2>5, ServingByCall
<1>8. ASSUME NEW pc \in {"resending", "reporting", "failing"},
             ProxyGoes(c, [proxied[c] EXCEPT !.pc = pc]),
             pc = "resending" => executed'[c] = 0
      PROVE  ProxyTypeOK' /\ Serving'
  <2>1. [proxied[c] EXCEPT !.pc = pc] \in ProxyStates
    BY <1>1 DEF ProxyStates, Waits
  <2>2. /\ proxied' \in [ProxyCalls -> ProxyStates]
        /\ proxied'[c] = [proxied[c] EXCEPT !.pc = pc]
        /\ \A d \in ProxyCalls : d # c => proxied'[d] = proxied[d]
    BY <1>8, <2>1, GoesTyped
  <2>3. ProxyTypeOK'
    BY <1>2, <1>4, <2>2 DEF ProxyTypeOK
  <2>4. proxied'[c].pc = pc /\ proxied'[c].answer = "none"
    BY <1>1, <1>5, <2>2 DEF ProxyStates
  <2>5. executed'[c] \in {0, 1}
    BY <1>1, <1>4 DEF Served
  <2>6. Served(c)'
    BY <1>2, <1>5, <1>8, <2>4, <2>5 DEF Served, Allowed
  <2> QED
    BY <1>2, <1>4, <2>2, <2>3, <2>6, ServingByCall
<1> QED
  BY <1>6, <1>7, <1>8

LEMMA ProxyPolicyStep ==
    ASSUME ProxyTypeOK, Serving,
           (\E verdict \in Verdicts : PolicyArrives(verdict)) \/ RevocationArrives
    PROVE  ProxyTypeOK' /\ Serving'
<1>1. ASSUME NEW verdict \in Verdicts, PolicyArrives(verdict)
      PROVE  ProxyTypeOK' /\ Serving'
  <2>1. /\ policy' = verdict
        /\ chances' = [c \in ProxyCalls |-> IF InService(c)
               THEN chances[c] \cup Met(verdict, leafRevoked) ELSE chances[c]]
        /\ UNCHANGED <<leafRevoked, claimant, proxied, recorded, executed>>
    BY <1>1 DEF PolicyArrives, Meets
  <2>2. ProxyTypeOK'
    BY <2>1 DEF ProxyTypeOK, Met
  <2>3. ASSUME NEW c \in ProxyCalls
        PROVE  Served(c)'
    <3>1. Served(c) /\ chances[c] \subseteq chances'[c]
      BY <2>1 DEF Serving
    <3>2. Allowed(c) => Allowed(c)'
      BY <2>1, <3>1 DEF Allowed
    <3>3. proxied[c].pc = "lazy" => Met(policy, leafRevoked)' \subseteq chances'[c]
      BY <2>1 DEF Met, InService, Waits
    <3> QED
      BY <2>1, <3>1, <3>2, <3>3 DEF Served
  <2> QED
    BY <2>2, <2>3 DEF Serving
<1>2. CASE RevocationArrives
  <2>1. /\ leafRevoked' = TRUE
        /\ UNCHANGED <<policy, claimant, proxied, recorded, executed, chances>>
    BY <1>2 DEF RevocationArrives
  <2>2. ProxyTypeOK'
    BY <2>1 DEF ProxyTypeOK
  <2>3. ASSUME NEW c \in ProxyCalls
        PROVE  Served(c)'
    <3>1. Served(c) /\ Met(policy, leafRevoked)' = {}
      BY <2>1 DEF Serving, Met
    <3> QED
      BY <2>1, <3>1 DEF Served, Allowed
  <2> QED
    BY <2>2, <2>3 DEF Serving
<1> QED
  BY <1>1, <1>2

LEMMA ProxyStopsStep ==
    ASSUME ProxyTypeOK, Serving, ProxyStops
    PROVE  ProxyTypeOK' /\ Serving'
<1>1. PICK sent \in SUBSET {c \in ProxyCalls : proxied[c].pc \in {"sending", "resending"}} :
          executed' = [c \in ProxyCalls |-> executed[c] + (IF c \in sent THEN 1 ELSE 0)]
  BY DEF ProxyStops
<1>2. /\ policy' = "unknown" /\ UNCHANGED <<leafRevoked, claimant, recorded, chances>>
      /\ proxied' = [c \in ProxyCalls |->
            IF InService(c) THEN [NoProxied EXCEPT !.pc = "answered", !.answer = "error"]
            ELSE proxied[c]]
  BY DEF ProxyStops
<1>3. [NoProxied EXCEPT !.pc = "answered", !.answer = "error"] \in ProxyStates
  BY DEF ProxyStates, NoProxied, Verdicts
<1>4. proxied' \in [ProxyCalls -> ProxyStates]
  BY <1>2, <1>3 DEF ProxyTypeOK
<1>5. executed' \in [ProxyCalls -> Nat]
  BY <1>1 DEF ProxyTypeOK
<1>6. ProxyTypeOK'
  BY <1>2, <1>4, <1>5 DEF ProxyTypeOK, Verdicts
<1>7. ASSUME NEW c \in ProxyCalls
      PROVE  Served(c)'
  <2>1. Served(c) /\ executed[c] \in Nat /\ proxied[c] \in ProxyStates
    BY DEF Serving, ProxyTypeOK
  <2>2. CASE InService(c)
    <3>1. proxied'[c].pc = "answered" /\ proxied'[c].answer = "error"
      BY <1>2, <2>2 DEF NoProxied
    <3>2. c \in sent => executed[c] = 0 /\ Allowed(c) /\ c \in recorded
      BY <1>1, <2>1 DEF Served
    <3>3. executed'[c] = IF c \in sent THEN 1 ELSE executed[c]
      BY <1>1, <2>1, <3>2
    <3> QED
      BY <1>2, <2>1, <3>1, <3>2, <3>3 DEF Served, Allowed
  <2>3. CASE ~InService(c)
    <3>1. proxied'[c] = proxied[c] /\ c \notin sent /\ proxied[c].pc \notin Waits
      BY <1>1, <1>2, <2>3 DEF InService, Waits
    <3>2. executed'[c] = executed[c]
      BY <1>1, <2>1, <3>1
    <3> QED
      BY <1>2, <2>1, <3>1, <3>2 DEF Served, Allowed, Waits
  <2> QED
    BY <2>2, <2>3
<1> QED
  BY <1>6, <1>7 DEF Serving

LEMMA ProxyStep ==
    ASSUME ProxyTypeOK, Serving, [ProxyNext]_proxyVars
    PROVE  ProxyTypeOK' /\ Serving'
<1>1. CASE UNCHANGED proxyVars
  <2>1. ProxyTypeOK'
    BY <1>1 DEF proxyVars, ProxyTypeOK
  <2>2. ASSUME NEW c \in ProxyCalls
        PROVE  Served(c)'
    BY <1>1, <2>2 DEF proxyVars, Serving, Served, Allowed, Met
  <2> QED
    BY <2>1, <2>2 DEF Serving
<1>2. CASE ProxyNext
  BY <1>2, ProxyCallStep, ProxyUpstreamStep, ProxyPolicyStep, ProxyStopsStep
  DEF ProxyNext, Kinds
<1> QED
  BY <1>1, <1>2

LEMMA ProxyInitially ==
    ASSUME ProxyInit
    PROVE  ProxyTypeOK /\ Serving
<1>1. NoProxied \in ProxyStates
  BY DEF ProxyStates, NoProxied, Verdicts
<1>2. ProxyTypeOK
  BY <1>1 DEF ProxyInit, ProxyTypeOK, Verdicts
<1>3. ASSUME NEW c \in ProxyCalls
      PROVE  Served(c)
  BY <1>3 DEF ProxyInit, Served, NoProxied
<1> QED
  BY <1>2, <1>3 DEF Serving

(* The bundle, the claim, the calls and their verdicts keep their types, for *)
(* any number of calls.                                                      *)
THEOREM ProxyTypeCorrect == ProxySpec => []ProxyTypeOK
  BY ProxyInitially, ProxyStep, PTL DEF ProxySpec

(* The upstream executes only what was allowed at one moment while the call  *)
(* was served, for any number of calls that share one approval.              *)
THEOREM ProxyEnforces == ProxySpec => []ExecutedWasAllowed
<1>1. Serving => ExecutedWasAllowed
  BY DEF Serving, Served, Allowed, ExecutedWasAllowed
<1> QED
  BY <1>1, ProxyInitially, ProxyStep, PTL DEF ProxySpec

(* A call is executed at most once, on the record, and never when the agent  *)
(* is told it was refused, for any number of calls.                          *)
THEOREM ProxyRecords == ProxySpec => []ExecutedOnceOnRecord
<1>1. ASSUME Serving
      PROVE  ExecutedOnceOnRecord
  <2>1. ASSUME NEW c \in ProxyCalls
        PROVE  /\ executed[c] \in {0, 1}
               /\ executed[c] > 0 => c \in recorded /\ proxied[c].answer # "refused"
    BY <1>1 DEF Serving, Served
  <2>2. \A n \in {0, 1} : n <= 1
    OBVIOUS
  <2> QED
    BY <2>1, <2>2, Zenon DEF ExecutedOnceOnRecord
<1> QED
  BY <1>1, ProxyInitially, ProxyStep, PTL DEF ProxySpec

-----------------------------------------------------------------------------
(* Members                                                                  *)

LEMMA SomeMembers == SomeUser \in Users /\ SomeInvite \in Invites
  BY MembersAssumption DEF SomeUser, SomeInvite

(* What a request does to its own record and to those of the others.        *)
LEMMA EndsMoves ==
    ASSUME MembersTypeOK, NEW q \in Requests, Ends(q)
    PROVE  /\ requests' \in [Requests -> RequestStates]
           /\ requests'[q].pc = "idle"
           /\ \A r \in Requests \ {q} : requests'[r] = requests[r]
<1>1. NoRequest \in RequestStates /\ NoRequest.pc = "idle"
  BY SomeMembers, MembersAssumption DEF RequestStates, NoRequest
<1> QED
  BY <1>1 DEF Ends, MembersTypeOK

LEMMA ProceedsMoves ==
    ASSUME MembersTypeOK, NEW q \in Requests,
           NEW pc \in {"count", "write", "join", "mark"}, Proceeds(q, pc)
    PROVE  /\ requests' \in [Requests -> RequestStates]
           /\ requests'[q] = [requests[q] EXCEPT !.pc = pc]
           /\ requests'[q].pc = pc
           /\ \A r \in Requests \ {q} : requests'[r] = requests[r]
<1>1. requests \in [Requests -> RequestStates] /\ requests[q] \in RequestStates
  BY DEF MembersTypeOK
<1>2. /\ [requests[q] EXCEPT !.pc = pc] \in RequestStates
      /\ [requests[q] EXCEPT !.pc = pc].pc = pc
  BY <1>1 DEF RequestStates
<1> QED
  BY <1>1, <1>2 DEF Proceeds

LEMMA BeginsMoves ==
    ASSUME MembersTypeOK, NEW q \in Requests, NEW request \in RequestStates, Begins(q, request)
    PROVE  /\ requests' \in [Requests -> RequestStates]
           /\ requests'[q] = request
           /\ \A r \in Requests \ {q} : requests'[r] = requests[r]
  BY DEF Begins, MembersTypeOK

LEMMA OvertakesMoves ==
    ASSUME MembersTypeOK, NEW q \in Requests, Overtakes(q)
    PROVE  /\ requests' \in [Requests -> RequestStates]
           /\ requests'[q].pc = "idle"
           /\ \A r \in Requests \ {q} :
                 /\ requests'[r].pc = requests[r].pc /\ requests'[r].role = requests[r].role
                 /\ requests'[r].invite = requests[r].invite
                 /\ requests'[r].overtaken = (requests[r].pc \in {"count", "write"})
<1>1. NoRequest \in RequestStates /\ NoRequest.pc = "idle"
  BY SomeMembers, MembersAssumption DEF RequestStates, NoRequest
<1>2. ASSUME NEW r \in Requests
      PROVE  LET x == [requests[r] EXCEPT !.overtaken = requests[r].pc \in {"count", "write"}]
             IN  /\ x \in RequestStates
                 /\ x.pc = requests[r].pc /\ x.role = requests[r].role
                 /\ x.invite = requests[r].invite
                 /\ x.overtaken = (requests[r].pc \in {"count", "write"})
  <2>1. requests[r] \in RequestStates /\ (requests[r].pc \in {"count", "write"}) \in BOOLEAN
    BY DEF MembersTypeOK
  <2> QED
    BY <2>1 DEF RequestStates
<1> QED
  BY <1>1, <1>2 DEF Overtakes

(* An invite is written for the role it was checked for.                    *)
InsertsOffered == \A q \in Requests : requests[q].pc = "insert" => requests[q].role \in Offered

LEMMA InsertsOfferedStep ==
    ASSUME MembersTypeOK, InsertsOffered, [MembersNext]_membersVars
    PROVE  InsertsOffered'
<1>1. requests \in [Requests -> RequestStates] /\ NoRequest.pc = "idle"
  BY DEF MembersTypeOK, NoRequest
<1>2. CASE UNCHANGED requests
  BY <1>2 DEF InsertsOffered
<1>3. ASSUME NEW q \in Requests, \A r \in Requests \ {q} : requests'[r] = requests[r],
             requests'[q].pc # "insert" \/ requests'[q].role \in Offered
      PROVE  InsertsOffered'
  BY <1>3 DEF InsertsOffered
<1>4. ASSUME NEW q \in Requests, Ends(q)
      PROVE  InsertsOffered'
  BY <1>3, <1>4, EndsMoves
<1>5. ASSUME NEW q \in Requests, NEW pc \in {"count", "write", "join", "mark"}, Proceeds(q, pc)
      PROVE  InsertsOffered'
  BY <1>3, <1>5, ProceedsMoves
<1>6. ASSUME NEW q \in Requests, Overtakes(q)
      PROVE  InsertsOffered'
  BY <1>6, OvertakesMoves DEF InsertsOffered
<1>7. ASSUME NEW q \in Requests,
             \/ SelectMember(q) \/ CountOwners(q) \/ FindMember(q) \/ WriteMember(q)
             \/ InsertInvite(q) \/ Join(q) \/ MarkAccepted(q) \/ AcceptFails(q)
      PROVE  InsertsOffered'
  <2>1. \/ Ends(q) \/ Overtakes(q)
        \/ Proceeds(q, "count") \/ Proceeds(q, "write") \/ Proceeds(q, "join")
        \/ Proceeds(q, "mark")
    BY <1>7 DEF SelectMember, CountOwners, FindMember, WriteMember, InsertInvite, Join,
                MarkAccepted, AcceptFails
  <2> QED
    BY <1>4, <1>5, <1>6, <2>1
<1>8. ASSUME NEW q \in Requests,
             \/ \E caller, u \in Users :
                   \/ \E role \in Roles \cup {"none"} : ChangeRole(q, caller, u, role)
                   \/ \E role \in Offered : Invite(q, caller, u, role)
             \/ \E i \in Invites : Accept(q, i)
      PROVE  InsertsOffered'
  <2>1. /\ \A r \in Requests \ {q} : requests'[r] = requests[r]
        /\ requests'[q].pc # "insert" \/ requests'[q].role \in Offered
    BY <1>1, <1>8 DEF ChangeRole, Invite, Accept, Begins, NoRequest
  <2> QED
    BY <1>3, <2>1
<1>9. ASSUME NEW i \in Invites, RevokeInvite(i) \/ InviteExpires(i)
      PROVE  InsertsOffered'
  BY <1>2, <1>9 DEF RevokeInvite, InviteExpires
<1>10. CASE UNCHANGED membersVars
  BY <1>2, <1>10 DEF membersVars
<1> QED
  BY <1>7, <1>8, <1>9, <1>10 DEF MembersNext

LEMMA MembersTypeStep ==
    ASSUME MembersTypeOK, InsertsOffered, [MembersNext]_membersVars
    PROVE  MembersTypeOK'
<1>1. /\ roles \in [Users -> Roles \cup {"none"}]
      /\ joins \in [Users -> 0 .. MaxJoins]
      /\ invites \in [Invites -> InviteStates]
      /\ requests \in [Requests -> RequestStates]
      /\ uses \in [Invites -> Nat] /\ failures \in [Invites -> Nat]
      /\ MaxJoins \in Nat /\ 0 \in 0 .. MaxJoins
  BY MembersAssumption DEF MembersTypeOK
<1>2. CASE UNCHANGED membersVars
  BY <1>2 DEF membersVars, MembersTypeOK
<1>3. ASSUME NEW q \in Requests, NEW caller \in Users, NEW u \in Users,
             NEW role \in Roles \cup {"none"}, ChangeRole(q, caller, u, role)
      PROVE  MembersTypeOK'
  <2>1. [NoRequest EXCEPT !.pc = "select", !.user = u, !.role = role, !.row = joins[u]]
           \in RequestStates
    BY <1>1, SomeMembers DEF RequestStates, NoRequest
  <2>2. requests' \in [Requests -> RequestStates]
    BY <1>3, <2>1, BeginsMoves DEF ChangeRole
  <2> QED
    BY <1>1, <1>3, <2>2 DEF ChangeRole, MembersTypeOK
<1>4. ASSUME NEW q \in Requests, NEW caller \in Users, NEW u \in Users,
             NEW role \in Offered, Invite(q, caller, u, role)
      PROVE  MembersTypeOK'
  <2>1. role \in Roles \cup {"none"}
    BY MembersAssumption DEF Roles, Managers
  <2>2. [NoRequest EXCEPT !.pc = "insert", !.user = u, !.role = role] \in RequestStates
    BY <1>1, <2>1, SomeMembers DEF RequestStates, NoRequest
  <2>3. requests' \in [Requests -> RequestStates]
    BY <1>4, <2>2, BeginsMoves DEF Invite
  <2> QED
    BY <1>1, <1>4, <2>3 DEF Invite, MembersTypeOK
<1>5. ASSUME NEW q \in Requests,
             SelectMember(q) \/ CountOwners(q) \/ FindMember(q) \/ WriteMember(q)
      PROVE  MembersTypeOK'
  <2>1. requests' \in [Requests -> RequestStates]
    BY <1>5, EndsMoves, ProceedsMoves, OvertakesMoves
    DEF SelectMember, CountOwners, FindMember, WriteMember
  <2>2. requests[q].role \in Roles \cup {"none"}
    BY <1>1 DEF RequestStates
  <2>3. roles' \in [Users -> Roles \cup {"none"}]
    BY <1>1, <1>5, <2>2 DEF SelectMember, CountOwners, FindMember, WriteMember
  <2> QED
    BY <1>1, <1>5, <2>1, <2>3
    DEF SelectMember, CountOwners, FindMember, WriteMember, MembersTypeOK
<1>6. ASSUME NEW q \in Requests, InsertInvite(q)
      PROVE  MembersTypeOK'
  <2>1. requests' \in [Requests -> RequestStates]
    BY <1>6, EndsMoves DEF InsertInvite
  <2>2. invites' \in [Invites -> InviteStates]
    <3>1. requests[q].user \in Users /\ requests[q].role \in {"admin", "member"}
      BY <1>1, <1>6, MembersAssumption DEF InsertInvite, At, InsertsOffered, RequestStates
    <3>2. [state |-> "pending", user |-> requests[q].user, role |-> requests[q].role]
             \in InviteStates
      BY <3>1 DEF InviteStates
    <3> QED
      BY <1>1, <1>6, <3>2 DEF InsertInvite
  <2> QED
    BY <1>1, <1>6, <2>1, <2>2 DEF InsertInvite, MembersTypeOK
<1>7. ASSUME NEW q \in Requests, NEW i \in Invites, Accept(q, i)
      PROVE  MembersTypeOK'
  <2>1. invites[i].user \in Users
    BY <1>1 DEF InviteStates
  <2>2. [NoRequest EXCEPT !.pc = "find", !.user = invites[i].user, !.invite = i]
           \in RequestStates
    BY <1>1, <2>1, SomeMembers DEF RequestStates, NoRequest
  <2>3. requests' \in [Requests -> RequestStates]
    BY <1>7, <2>2, BeginsMoves DEF Accept
  <2> QED
    BY <1>1, <1>7, <2>3 DEF Accept, MembersTypeOK
<1>8. ASSUME NEW q \in Requests, Join(q)
      PROVE  MembersTypeOK'
  <2>1. requests' \in [Requests -> RequestStates]
    BY <1>8, EndsMoves, ProceedsMoves DEF Join
  <2>2. /\ requests[q].user \in Users /\ requests[q].invite \in Invites
        /\ invites[requests[q].invite].role \in {"admin", "member"}
    BY <1>1 DEF RequestStates, InviteStates
  <2>3. roles' \in [Users -> Roles \cup {"none"}]
    BY <1>1, <1>8, <2>2 DEF Join, Roles, Managers
  <2>4. joins' \in [Users -> 0 .. MaxJoins]
    BY <1>1, <1>8, <2>2 DEF Join
  <2>5. uses' \in [Invites -> Nat]
    BY <1>1, <1>8, <2>2 DEF Join
  <2> QED
    BY <1>1, <1>8, <2>1, <2>3, <2>4, <2>5 DEF Join, MembersTypeOK
<1>9. ASSUME NEW q \in Requests, MarkAccepted(q) \/ AcceptFails(q)
      PROVE  MembersTypeOK'
  <2>1. requests' \in [Requests -> RequestStates]
    BY <1>9, EndsMoves DEF MarkAccepted, AcceptFails
  <2>2. requests[q].invite \in Invites
    BY <1>1 DEF RequestStates
  <2>3. invites' \in [Invites -> InviteStates]
    BY <1>1, <1>9, <2>2 DEF MarkAccepted, AcceptFails, InviteStates
  <2>4. failures' \in [Invites -> Nat]
    BY <1>1, <1>9, <2>2 DEF MarkAccepted, AcceptFails
  <2> QED
    BY <1>1, <1>9, <2>1, <2>3, <2>4 DEF MarkAccepted, AcceptFails, MembersTypeOK
<1>10. ASSUME NEW i \in Invites, RevokeInvite(i) \/ InviteExpires(i)
       PROVE  MembersTypeOK'
  <2>1. invites' \in [Invites -> InviteStates]
    BY <1>1, <1>10 DEF RevokeInvite, InviteExpires, InviteStates
  <2> QED
    BY <1>1, <1>10, <2>1 DEF RevokeInvite, InviteExpires, MembersTypeOK
<1> QED
  BY <1>2, <1>3, <1>4, <1>5, <1>6, <1>7, <1>8, <1>9, <1>10 DEF MembersNext

LEMMA MembersInitially ==
    ASSUME MembersInit
    PROVE  MembersTypeOK /\ InsertsOffered
<1>1. NoRequest \in RequestStates /\ NoInvite \in InviteStates
  BY SomeMembers, MembersAssumption DEF RequestStates, NoRequest, InviteStates, NoInvite
<1> QED
  BY <1>1, MembersAssumption DEF MembersInit, MembersTypeOK, InsertsOffered, NoRequest

(* Memberships, invites and requests keep their types, for any number of     *)
(* users and requests.                                                       *)
THEOREM MembersTypeCorrect == MembersSpec => []MembersTypeOK
  BY MembersInitially, MembersTypeStep, InsertsOfferedStep, PTL DEF MembersSpec

-----------------------------------------------------------------------------
(* The last owner                                                           *)

(* A request that takes the role of an owner away, and that nobody overtook, *)
(* has counted another owner who is still one.                              *)
WritesKnowing ==
    \A q \in Requests :
        (/\ requests[q].pc = "write" /\ ~requests[q].overtaken
         /\ requests[q].role # "owner" /\ requests[q].user \in Owners)
        => \E u \in Owners : u # requests[q].user

LEMMA AnotherOwner ==
    ASSUME NEW u, Cardinality(Owners) > 1
    PROVE  \E v \in Owners : v # u
<1> SUFFICES ASSUME Owners \subseteq {u} PROVE FALSE
  OBVIOUS
<1>1. IsFiniteSet({u}) /\ Cardinality({u}) = 1
  BY FS_Singleton
<1>2. Cardinality(Owners) <= 1 /\ Cardinality(Owners) \in Nat
  BY <1>1, FS_Subset, FS_CardinalityType
<1> QED
  BY <1>2

LEMMA KnowingKept ==
    ASSUME MembersTypeOK, WritesKnowing, Owners' = Owners, NEW q \in Requests,
           \A r \in Requests \ {q} : requests'[r] = requests[r],
           requests'[q].pc # "write"
    PROVE  WritesKnowing'
  BY DEF WritesKnowing

LEMMA KnowingSelect ==
    ASSUME MembersTypeOK, WritesKnowing, NEW q \in Requests, SelectMember(q)
    PROVE  WritesKnowing'
<1>1. Owners' = Owners /\ requests[q] \in RequestStates /\ requests[q].user \in Users
  BY DEF SelectMember, Owners, MembersTypeOK, RequestStates
<1>2. CASE Ends(q)
  BY <1>1, <1>2, EndsMoves, KnowingKept
<1>3. CASE Proceeds(q, "count")
  BY <1>1, <1>3, ProceedsMoves, KnowingKept
<1>4. CASE Proceeds(q, "write") /\ (requests[q].user \notin Owners \/ requests[q].role = "owner")
  <2>1. requests'[q] = [requests[q] EXCEPT !.pc = "write"]
        /\ \A r \in Requests \ {q} : requests'[r] = requests[r]
    BY <1>4, ProceedsMoves
  <2>2. requests'[q].user = requests[q].user /\ requests'[q].role = requests[q].role
    BY <1>1, <2>1 DEF RequestStates
  <2> QED
    BY <1>1, <1>4, <2>1, <2>2 DEF WritesKnowing
<1> QED
  BY <1>2, <1>3, <1>4 DEF SelectMember, Owners

LEMMA KnowingCount ==
    ASSUME MembersTypeOK, WritesKnowing, NEW q \in Requests, CountOwners(q)
    PROVE  WritesKnowing'
<1>1. Owners' = Owners /\ requests[q] \in RequestStates
  BY DEF CountOwners, Owners, MembersTypeOK
<1>2. CASE Ends(q)
  BY <1>1, <1>2, EndsMoves, KnowingKept
<1>3. CASE Proceeds(q, "write") /\ ~(Cardinality(Owners) <= 1)
  <2>1. requests'[q] = [requests[q] EXCEPT !.pc = "write"]
        /\ \A r \in Requests \ {q} : requests'[r] = requests[r]
    BY <1>3, ProceedsMoves
  <2>2. IsFiniteSet(Owners)
    BY MembersAssumption, FS_Subset DEF Owners
  <2>3. Cardinality(Owners) > 1
    BY <1>3, <2>2, FS_CardinalityType
  <2>4. \A u : \E v \in Owners : v # u
    BY <2>3, AnotherOwner
  <2> QED
    BY <1>1, <2>1, <2>4 DEF WritesKnowing
<1> QED
  BY <1>2, <1>3 DEF CountOwners

LEMMA KnowingWrite ==
    ASSUME MembersTypeOK, WritesKnowing, NEW q \in Requests, WriteMember(q)
    PROVE  WritesKnowing'
<1>1. CASE Overtakes(q)
  <2>1. ASSUME NEW r \in Requests, requests'[r].pc = "write"
        PROVE  requests'[r].overtaken
    <3>1. r # q
      BY <1>1, <2>1, OvertakesMoves
    <3>2. requests'[r].pc = requests[r].pc
          /\ requests'[r].overtaken = (requests[r].pc \in {"count", "write"})
      BY <1>1, <3>1, OvertakesMoves
    <3> QED
      BY <2>1, <3>2
  <2> QED
    BY <2>1 DEF WritesKnowing
<1>2. CASE Ends(q) /\ Owners' = Owners
  BY <1>2, EndsMoves, KnowingKept
<1> QED
  BY <1>1, <1>2 DEF WriteMember

LEMMA JoinKeepsOwners ==
    ASSUME MembersTypeOK, NEW q \in Requests, Join(q)
    PROVE  Owners' = Owners
<1>1. /\ requests[q].user \in Users /\ requests[q].invite \in Invites
      /\ invites[requests[q].invite].role # "owner"
      /\ roles \in [Users -> Roles \cup {"none"}]
  BY DEF MembersTypeOK, RequestStates, InviteStates
<1>2. \A u \in Users : (roles'[u] = "owner") <=> (roles[u] = "owner")
  BY <1>1 DEF Join
<1> QED
  BY <1>2 DEF Owners

LEMMA KnowingStep ==
    ASSUME MembersTypeOK, WritesKnowing, [MembersNext]_membersVars
    PROVE  WritesKnowing'
<1>1. requests \in [Requests -> RequestStates] /\ NoRequest.pc = "idle"
  BY DEF MembersTypeOK, NoRequest
<1>2. CASE UNCHANGED <<roles, requests>>
  BY <1>2 DEF WritesKnowing, Owners
<1>3. ASSUME NEW q \in Requests,
             \/ \E caller, u \in Users :
                   \/ \E role \in Roles \cup {"none"} : ChangeRole(q, caller, u, role)
                   \/ \E role \in Offered : Invite(q, caller, u, role)
             \/ \E i \in Invites : Accept(q, i)
      PROVE  WritesKnowing'
  <2>1. UNCHANGED roles /\ requests'[q].pc # "write"
        /\ \A r \in Requests \ {q} : requests'[r] = requests[r]
    BY <1>1, <1>3 DEF ChangeRole, Invite, Accept, Begins, NoRequest
  <2> QED
    BY <2>1, KnowingKept DEF Owners
<1>4. ASSUME NEW q \in Requests,
             FindMember(q) \/ InsertInvite(q) \/ Join(q) \/ MarkAccepted(q) \/ AcceptFails(q)
      PROVE  WritesKnowing'
  <2>1. Owners' = Owners
    BY <1>4, JoinKeepsOwners DEF FindMember, InsertInvite, MarkAccepted, AcceptFails, Owners
  <2>2. Ends(q) \/ Proceeds(q, "join") \/ Proceeds(q, "mark")
    BY <1>4 DEF FindMember, InsertInvite, Join, MarkAccepted, AcceptFails
  <2>3. requests'[q].pc # "write" /\ \A r \in Requests \ {q} : requests'[r] = requests[r]
    BY <2>2, EndsMoves, ProceedsMoves
  <2> QED
    BY <2>1, <2>3, KnowingKept
<1>5. ASSUME NEW q \in Requests, SelectMember(q) \/ CountOwners(q) \/ WriteMember(q)
      PROVE  WritesKnowing'
  BY <1>5, KnowingSelect, KnowingCount, KnowingWrite
<1>6. ASSUME NEW i \in Invites, RevokeInvite(i) \/ InviteExpires(i)
      PROVE  WritesKnowing'
  BY <1>2, <1>6 DEF RevokeInvite, InviteExpires
<1>7. CASE UNCHANGED membersVars
  BY <1>2, <1>7 DEF membersVars
<1> QED
  BY <1>3, <1>4, <1>5, <1>6, <1>7 DEF MembersNext

LEMMA LastOwnerOvertaken ==
    ASSUME MembersTypeOK, WritesKnowing, [MembersNext]_membersVars, Owners # {}, Owners' = {}
    PROVE  \E q \in Requests : requests[q].overtaken /\ requests'[q].pc = "idle"
<1>1. roles' # roles
  BY DEF Owners
<1>2. PICK q \in Requests : WriteMember(q) \/ Join(q)
  BY <1>1 DEF MembersNext, membersVars, ChangeRole, Invite, SelectMember, CountOwners,
              InsertInvite, Accept, FindMember, MarkAccepted, AcceptFails,
              RevokeInvite, InviteExpires
<1>3. WriteMember(q)
  BY <1>2, JoinKeepsOwners
<1>4. /\ requests[q].pc = "write" /\ requests'[q].pc = "idle"
      /\ roles' = [roles EXCEPT ![requests[q].user] = requests[q].role]
  BY <1>1, <1>3, EndsMoves, OvertakesMoves DEF WriteMember, At
<1>5. roles \in [Users -> Roles \cup {"none"}] /\ requests[q].user \in Users
  BY DEF MembersTypeOK, RequestStates
<1>6. \A u \in Owners : u = requests[q].user
  BY <1>4, <1>5 DEF Owners
<1>7. requests[q].user \in Owners /\ requests[q].role # "owner"
  BY <1>4, <1>5, <1>6 DEF Owners
<1> QED
  BY <1>4, <1>6, <1>7 DEF WritesKnowing

(* However many requests change roles and remove members at once, the last   *)
(* owner goes only with one that another overtook between its count of the   *)
(* owners (or its look at the membership) and its write.                     *)
THEOREM OwnerLost == MembersSpec => OwnerLostByOverlapOnly
<1>1. ASSUME MembersTypeOK, WritesKnowing, [MembersNext]_membersVars
      PROVE  [Owners # {} /\ Owners' = {} =>
                 \E q \in Requests : requests[q].overtaken /\ requests'[q].pc = "idle"]_membersVars
  BY <1>1, LastOwnerOvertaken
<1>2. MembersInit => WritesKnowing
  BY DEF MembersInit, WritesKnowing, NoRequest
<1> QED
  BY <1>1, <1>2, MembersInitially, MembersTypeStep, InsertsOfferedStep, KnowingStep, PTL
  DEF MembersSpec, OwnerLostByOverlapOnly

-----------------------------------------------------------------------------
(* Invites                                                                  *)

(* The requests that may still bring the invite's user in, and those that    *)
(* have or found the user there.                                            *)
Joining(i) == {q \in Requests : requests[q].pc \in {"find", "join"} /\ requests[q].invite = i}
Marking(i) == {q \in Requests : requests[q].pc = "mark" /\ requests[q].invite = i}

(* Until an invite is marked as accepted, who brought its user in is about   *)
(* to mark it or failed; from then on nobody starts to accept it.            *)
Brought(i) ==
    IF invites[i].state = "accepted"
    THEN uses[i] + Cardinality(Joining(i)) <= Cardinality(Requests) + failures[i]
    ELSE uses[i] <= Cardinality(Marking(i)) + failures[i]

BroughtIn == \A i \in Invites : Brought(i)

LEMMA AcceptsFinite ==
    ASSUME NEW i
    PROVE  /\ IsFiniteSet(Joining(i)) /\ Cardinality(Joining(i)) \in Nat
           /\ IsFiniteSet(Marking(i)) /\ Cardinality(Marking(i)) \in Nat
           /\ Cardinality(Requests) \in Nat
           /\ Cardinality(Joining(i)) + Cardinality(Marking(i)) <= Cardinality(Requests)
<1>1. /\ IsFiniteSet(Requests) /\ Joining(i) \in SUBSET Requests
      /\ Marking(i) \in SUBSET Requests
      /\ Joining(i) \cup Marking(i) \in SUBSET Requests
      /\ Joining(i) \cap Marking(i) = {}
  BY MembersAssumption DEF Joining, Marking
<1>2. IsFiniteSet(Joining(i)) /\ IsFiniteSet(Marking(i))
  BY <1>1, FS_Subset
<1>3. Cardinality(Joining(i) \cup Marking(i)) = Cardinality(Joining(i)) + Cardinality(Marking(i))
  <2>1. Cardinality(Joining(i) \cup Marking(i))
           = Cardinality(Joining(i)) + Cardinality(Marking(i))
             - Cardinality(Joining(i) \cap Marking(i))
    BY <1>2, FS_Union
  <2>2. Cardinality(Joining(i) \cap Marking(i)) = 0
    BY <1>1, FS_EmptySet
  <2>3. Cardinality(Joining(i)) \in Nat /\ Cardinality(Marking(i)) \in Nat
    BY <1>2, FS_CardinalityType
  <2> QED
    BY <2>1, <2>2, <2>3
<1>4. Cardinality(Joining(i) \cup Marking(i)) <= Cardinality(Requests)
  BY <1>1, FS_Subset
<1> QED
  BY <1>1, <1>2, <1>3, <1>4, FS_CardinalityType

(* Steps that leave the accepts alone may close an invite or write one.      *)
LEMMA BroughtKept ==
    ASSUME MembersTypeOK, BroughtIn, UNCHANGED <<uses, failures>>,
           \A i \in Invites : (invites'[i].state = "accepted") <=> (invites[i].state = "accepted"),
           NEW q \in Requests,
           \A r \in Requests \ {q} :
               requests'[r].pc = requests[r].pc /\ requests'[r].invite = requests[r].invite,
           \A i \in Invites : (q \in Joining(i)) <=> (q \in Joining(i)'),
           \A i \in Invites : (q \in Marking(i)) <=> (q \in Marking(i)')
    PROVE  BroughtIn'
<1>1. ASSUME NEW i \in Invites
      PROVE  Joining(i)' = Joining(i) /\ Marking(i)' = Marking(i)
  BY <1>1 DEF Joining, Marking
<1> QED
  BY <1>1 DEF BroughtIn, Brought

(* A request that goes on with its accept of an invite.                      *)
LEMMA AcceptMoves ==
    ASSUME MembersTypeOK, NEW q \in Requests, NEW j \in Invites, requests[q].invite = j,
           \A r \in Requests \ {q} : requests'[r] = requests[r],
           requests'[q].pc = "mark" => requests'[q].invite = j
    PROVE  /\ \A i \in Invites \ {j} :
                 requests'[q].pc \notin {"find", "join"} =>
                     Joining(i)' = Joining(i) /\ Marking(i)' = Marking(i)
           /\ requests'[q].pc \notin {"find", "join"} => Joining(j)' = Joining(j) \ {q}
           /\ requests'[q].pc # "mark" => Marking(j)' = Marking(j) \ {q}
           /\ requests'[q].pc = "mark" => Marking(j)' = Marking(j) \cup {q}
  BY DEF Joining, Marking

LEMMA BroughtByOne ==
    ASSUME BroughtIn, NEW j \in Invites, Brought(j)',
           \A i \in Invites \ {j} :
               /\ Joining(i)' = Joining(i) /\ Marking(i)' = Marking(i)
               /\ uses'[i] = uses[i] /\ failures'[i] = failures[i]
               /\ invites'[i].state = invites[i].state
    PROVE  BroughtIn'
<1>1. ASSUME NEW i \in Invites \ {j}
      PROVE  Brought(i)'
  BY <1>1 DEF BroughtIn, Brought
<1> QED
  BY <1>1 DEF BroughtIn

LEMMA AcceptSizes ==
    ASSUME NEW q, NEW j
    PROVE  /\ q \in Joining(j) => Cardinality(Joining(j) \ {q}) = Cardinality(Joining(j)) - 1
           /\ q \notin Joining(j) => Joining(j) \ {q} = Joining(j)
           /\ q \in Marking(j) => Cardinality(Marking(j) \ {q}) = Cardinality(Marking(j)) - 1
           /\ q \notin Marking(j) =>
                 /\ Cardinality(Marking(j) \cup {q}) = Cardinality(Marking(j)) + 1
                 /\ Marking(j) \ {q} = Marking(j)
<1>1. IsFiniteSet(Joining(j)) /\ IsFiniteSet(Marking(j))
  BY AcceptsFinite
<1>2. q \in Joining(j) => Cardinality(Joining(j) \ {q}) = Cardinality(Joining(j)) - 1
  BY <1>1, FS_RemoveElement
<1>3. q \in Marking(j) => Cardinality(Marking(j) \ {q}) = Cardinality(Marking(j)) - 1
  BY <1>1, FS_RemoveElement
<1>4. q \notin Marking(j) => Cardinality(Marking(j) \cup {q}) = Cardinality(Marking(j)) + 1
  BY <1>1, FS_AddElement
<1> QED
  BY <1>2, <1>3, <1>4

LEMMA BroughtFind ==
    ASSUME MembersTypeOK, BroughtIn, NEW q \in Requests, FindMember(q),
           NEW j \in Invites, requests[q].invite = j
    PROVE  BroughtIn'
<1>1. requests[q] \in RequestStates /\ requests[q].pc = "find"
  BY DEF MembersTypeOK, FindMember, At
<1>2. uses \in [Invites -> Nat] /\ failures \in [Invites -> Nat]
  BY DEF MembersTypeOK
<1>3. CASE Proceeds(q, "join")
  <2>1. requests'[q] = [requests[q] EXCEPT !.pc = "join"]
        /\ \A r \in Requests \ {q} : requests'[r] = requests[r]
    BY <1>3, ProceedsMoves
  <2>2. requests'[q].pc = "join" /\ requests'[q].invite = j
    BY <1>1, <2>1 DEF RequestStates
  <2>3. \A i \in Invites : /\ (q \in Joining(i)) <=> (q \in Joining(i)')
                           /\ (q \in Marking(i)) <=> (q \in Marking(i)')
    BY <1>1, <2>2 DEF Joining, Marking
  <2>4. UNCHANGED <<uses, failures, invites>>
    BY DEF FindMember
  <2> QED
    BY <2>1, <2>3, <2>4, BroughtKept
<1>4. CASE Proceeds(q, "mark")
  <2>1. requests'[q] = [requests[q] EXCEPT !.pc = "mark"]
        /\ \A r \in Requests \ {q} : requests'[r] = requests[r]
    BY <1>4, ProceedsMoves
  <2>2. requests'[q].pc = "mark" /\ requests'[q].invite = j
    BY <1>1, <2>1 DEF RequestStates
  <2>3. /\ \A i \in Invites \ {j} : Joining(i)' = Joining(i) /\ Marking(i)' = Marking(i)
        /\ Joining(j)' = Joining(j) \ {q}
        /\ Marking(j)' = Marking(j) \cup {q}
    BY <1>1, <2>1, <2>2, AcceptMoves
  <2>4. q \in Joining(j) /\ q \notin Marking(j)
    BY <1>1 DEF Joining, Marking
  <2>5. Cardinality(Joining(j)') = Cardinality(Joining(j)) - 1
        /\ Cardinality(Marking(j)') = Cardinality(Marking(j)) + 1
    <3>1. /\ Cardinality(Joining(j) \ {q}) = Cardinality(Joining(j)) - 1
          /\ Cardinality(Marking(j) \cup {q}) = Cardinality(Marking(j)) + 1
      BY <2>4, AcceptSizes
    <3> QED
      BY <2>3, <3>1
  <2>6. UNCHANGED <<uses, failures, invites>>
    BY DEF FindMember
  <2>7. /\ Cardinality(Joining(j)) \in Nat /\ Cardinality(Marking(j)) \in Nat
        /\ Cardinality(Requests) \in Nat /\ uses[j] \in Nat /\ failures[j] \in Nat
    BY <1>1, <1>2, AcceptsFinite
  <2>8. Brought(j)
    BY <1>1 DEF BroughtIn
  <2>9. Brought(j)'
    BY <2>5, <2>6, <2>7, <2>8 DEF Brought
  <2> QED
    BY <1>1, <2>3, <2>6, <2>9, BroughtByOne
<1> QED
  BY <1>3, <1>4 DEF FindMember

LEMMA BroughtJoin ==
    ASSUME MembersTypeOK, BroughtIn, NEW q \in Requests, Join(q),
           NEW j \in Invites, requests[q].invite = j
    PROVE  BroughtIn'
<1>1. requests[q] \in RequestStates /\ requests[q].pc = "join"
  BY DEF MembersTypeOK, Join, At
<1>2. uses \in [Invites -> Nat] /\ failures \in [Invites -> Nat]
  BY DEF MembersTypeOK
<1>3. /\ Cardinality(Joining(j)) \in Nat /\ Cardinality(Marking(j)) \in Nat
      /\ Cardinality(Requests) \in Nat /\ uses[j] \in Nat /\ failures[j] \in Nat
      /\ Brought(j)
  BY <1>1, <1>2, AcceptsFinite DEF BroughtIn
<1>4. q \in Joining(j) /\ q \notin Marking(j)
  BY <1>1 DEF Joining, Marking
<1>5. UNCHANGED <<failures, invites>>
  BY DEF Join
<1>6. CASE Ends(q) /\ UNCHANGED uses
  <2>1. /\ requests'[q].pc = "idle"
        /\ \A r \in Requests \ {q} : requests'[r] = requests[r]
    BY <1>6, EndsMoves
  <2>2. /\ \A i \in Invites \ {j} : Joining(i)' = Joining(i) /\ Marking(i)' = Marking(i)
        /\ Joining(j)' = Joining(j) \ {q}
        /\ Marking(j)' = Marking(j) \ {q}
    BY <1>1, <2>1, AcceptMoves
  <2>3. Cardinality(Joining(j)') = Cardinality(Joining(j)) - 1 /\ Marking(j)' = Marking(j)
    <3>1. /\ Cardinality(Joining(j) \ {q}) = Cardinality(Joining(j)) - 1
          /\ Marking(j) \ {q} = Marking(j)
      BY <1>4, AcceptSizes
    <3> QED
      BY <2>2, <3>1
  <2>4. Brought(j)'
    BY <1>3, <1>5, <1>6, <2>3 DEF Brought
  <2> QED
    BY <1>1, <1>5, <1>6, <2>2, <2>4, BroughtByOne
<1>7. CASE Proceeds(q, "mark") /\ uses' = [uses EXCEPT ![j] = @ + 1]
  <2>1. requests'[q] = [requests[q] EXCEPT !.pc = "mark"]
        /\ \A r \in Requests \ {q} : requests'[r] = requests[r]
    BY <1>7, ProceedsMoves
  <2>2. requests'[q].pc = "mark" /\ requests'[q].invite = j
    BY <1>1, <2>1 DEF RequestStates
  <2>3. /\ \A i \in Invites \ {j} : Joining(i)' = Joining(i) /\ Marking(i)' = Marking(i)
        /\ Joining(j)' = Joining(j) \ {q}
        /\ Marking(j)' = Marking(j) \cup {q}
    BY <1>1, <2>1, <2>2, AcceptMoves
  <2>4. Cardinality(Joining(j)') = Cardinality(Joining(j)) - 1
        /\ Cardinality(Marking(j)') = Cardinality(Marking(j)) + 1
    <3>1. /\ Cardinality(Joining(j) \ {q}) = Cardinality(Joining(j)) - 1
          /\ Cardinality(Marking(j) \cup {q}) = Cardinality(Marking(j)) + 1
      BY <1>4, AcceptSizes
    <3> QED
      BY <2>3, <3>1
  <2>5. uses'[j] = uses[j] + 1 /\ \A i \in Invites \ {j} : uses'[i] = uses[i]
    BY <1>1, <1>2, <1>7
  <2>6. Brought(j)'
    BY <1>3, <1>5, <2>4, <2>5 DEF Brought
  <2> QED
    BY <1>1, <1>5, <2>3, <2>5, <2>6, BroughtByOne
<1> QED
  BY <1>6, <1>7 DEF Join

LEMMA BroughtMark ==
    ASSUME MembersTypeOK, BroughtIn, NEW q \in Requests, MarkAccepted(q) \/ AcceptFails(q),
           NEW j \in Invites, requests[q].invite = j
    PROVE  BroughtIn'
<1>1. requests[q] \in RequestStates /\ requests[q].pc = "mark"
  BY DEF MembersTypeOK, MarkAccepted, AcceptFails, At
<1>2. /\ uses \in [Invites -> Nat] /\ failures \in [Invites -> Nat]
      /\ invites \in [Invites -> InviteStates]
  BY DEF MembersTypeOK
<1>3. /\ Cardinality(Joining(j)) \in Nat /\ Cardinality(Marking(j)) \in Nat
      /\ Cardinality(Requests) \in Nat /\ uses[j] \in Nat /\ failures[j] \in Nat
      /\ Cardinality(Joining(j)) + Cardinality(Marking(j)) <= Cardinality(Requests)
      /\ Brought(j)
  BY <1>1, <1>2, AcceptsFinite DEF BroughtIn
<1>4. q \notin Joining(j) /\ q \in Marking(j)
  BY <1>1 DEF Joining, Marking
<1>5. Ends(q) /\ UNCHANGED uses
  BY DEF MarkAccepted, AcceptFails
<1>6. /\ requests'[q].pc = "idle"
      /\ \A r \in Requests \ {q} : requests'[r] = requests[r]
  BY <1>5, EndsMoves
<1>7. /\ \A i \in Invites \ {j} : Joining(i)' = Joining(i) /\ Marking(i)' = Marking(i)
      /\ Joining(j)' = Joining(j)
      /\ Marking(j)' = Marking(j) \ {q}
  <2>1. Joining(j) \ {q} = Joining(j)
    BY <1>4, AcceptSizes
  <2> QED
    BY <1>1, <1>6, <2>1, AcceptMoves
<1>8. Cardinality(Marking(j)') = Cardinality(Marking(j)) - 1
  <2>1. Cardinality(Marking(j) \ {q}) = Cardinality(Marking(j)) - 1
    BY <1>4, AcceptSizes
  <2> QED
    BY <1>7, <2>1
<1>9. CASE MarkAccepted(q)
  <2>1. /\ invites'[j].state = "accepted" /\ UNCHANGED failures
        /\ \A i \in Invites \ {j} : invites'[i] = invites[i]
    BY <1>1, <1>2, <1>9 DEF MarkAccepted, InviteStates
  <2>2. Brought(j)'
    BY <1>3, <1>5, <1>7, <2>1 DEF Brought
  <2> QED
    BY <1>1, <1>5, <1>7, <2>1, <2>2, BroughtByOne
<1>10. CASE AcceptFails(q)
  <2>1. /\ UNCHANGED invites /\ failures[j] = 0 /\ failures'[j] = 1
        /\ \A i \in Invites \ {j} : failures'[i] = failures[i]
    BY <1>1, <1>2, <1>10 DEF AcceptFails
  <2>2. Brought(j)'
    BY <1>3, <1>5, <1>7, <1>8, <2>1 DEF Brought
  <2> QED
    BY <1>1, <1>5, <1>7, <2>1, <2>2, BroughtByOne
<1> QED
  BY <1>9, <1>10

(* Only a pending invite is accepted.                                       *)
LEMMA BroughtAccept ==
    ASSUME MembersTypeOK, BroughtIn, NEW q \in Requests, NEW j \in Invites, Accept(q, j)
    PROVE  BroughtIn'
<1>1. /\ invites[j].state = "pending" /\ UNCHANGED <<invites, uses, failures>>
      /\ requests[q].pc = "idle" /\ requests'[q].pc = "find" /\ requests'[q].invite = j
      /\ \A r \in Requests \ {q} : requests'[r] = requests[r]
  BY DEF Accept, Begins, MembersTypeOK, NoRequest
<1>2. \A i \in Invites : Marking(i)' = Marking(i)
  BY <1>1 DEF Marking
<1>3. \A i \in Invites \ {j} : Joining(i)' = Joining(i)
  BY <1>1 DEF Joining
<1>4. Brought(j)'
  BY <1>1, <1>2 DEF BroughtIn, Brought
<1> QED
  BY <1>1, <1>2, <1>3, <1>4, BroughtByOne

LEMMA BroughtStep ==
    ASSUME MembersTypeOK, BroughtIn, [MembersNext]_membersVars
    PROVE  BroughtIn'
<1>1. /\ requests \in [Requests -> RequestStates] /\ NoRequest.pc = "idle"
      /\ invites \in [Invites -> InviteStates]
  BY DEF MembersTypeOK, NoRequest
<1>2. ASSUME UNCHANGED <<requests, uses, failures>>,
             \A i \in Invites : (invites'[i].state = "accepted") <=> (invites[i].state = "accepted")
      PROVE  BroughtIn'
  BY <1>2 DEF BroughtIn, Brought, Joining, Marking
<1>3. ASSUME NEW q \in Requests, NEW caller \in Users, NEW u \in Users,
             \/ \E role \in Roles \cup {"none"} : ChangeRole(q, caller, u, role)
             \/ \E role \in Offered : Invite(q, caller, u, role)
      PROVE  BroughtIn'
  <2>1. /\ UNCHANGED <<invites, uses, failures>> /\ requests[q].pc = "idle"
        /\ requests'[q].pc \in {"select", "insert"}
        /\ \A r \in Requests \ {q} : requests'[r] = requests[r]
    BY <1>1, <1>3 DEF ChangeRole, Invite, Begins, NoRequest
  <2>2. \A i \in Invites : /\ (q \in Joining(i)) <=> (q \in Joining(i)')
                           /\ (q \in Marking(i)) <=> (q \in Marking(i)')
    BY <2>1 DEF Joining, Marking
  <2> QED
    BY <2>1, <2>2, BroughtKept
<1>4. ASSUME NEW q \in Requests,
             SelectMember(q) \/ CountOwners(q) \/ WriteMember(q) \/ InsertInvite(q)
      PROVE  BroughtIn'
  <2>1. requests[q].pc \in {"select", "count", "write", "insert"} /\ UNCHANGED <<uses, failures>>
    BY <1>4 DEF SelectMember, CountOwners, WriteMember, InsertInvite, At
  <2>2. Ends(q) \/ Overtakes(q) \/ Proceeds(q, "count") \/ Proceeds(q, "write")
    BY <1>4 DEF SelectMember, CountOwners, WriteMember, InsertInvite
  <2>3. /\ requests'[q].pc \in {"idle", "count", "write"}
        /\ \A r \in Requests \ {q} :
              requests'[r].pc = requests[r].pc /\ requests'[r].invite = requests[r].invite
    BY <2>2, EndsMoves, OvertakesMoves, ProceedsMoves
  <2>4. \A i \in Invites : /\ (q \in Joining(i)) <=> (q \in Joining(i)')
                           /\ (q \in Marking(i)) <=> (q \in Marking(i)')
    BY <2>1, <2>3 DEF Joining, Marking
  <2>5. \A i \in Invites : (invites'[i].state = "accepted") <=> (invites[i].state = "accepted")
    BY <1>1, <1>4 DEF SelectMember, CountOwners, WriteMember, InsertInvite, InviteStates
  <2> QED
    BY <2>1, <2>3, <2>4, <2>5, BroughtKept
<1>5. ASSUME NEW q \in Requests,
             \/ \E i \in Invites : Accept(q, i)
             \/ FindMember(q) \/ Join(q) \/ MarkAccepted(q) \/ AcceptFails(q)
      PROVE  BroughtIn'
  <2>1. requests[q].invite \in Invites
    BY <1>1 DEF RequestStates
  <2> QED
    BY <1>5, <2>1, BroughtAccept, BroughtFind, BroughtJoin, BroughtMark
<1>6. ASSUME NEW j \in Invites, RevokeInvite(j) \/ InviteExpires(j)
      PROVE  BroughtIn'
  <2>1. \A i \in Invites : (invites'[i].state = "accepted") <=> (invites[i].state = "accepted")
    BY <1>1, <1>6 DEF RevokeInvite, InviteExpires, InviteStates
  <2> QED
    BY <1>2, <1>6, <2>1 DEF RevokeInvite, InviteExpires
<1>7. CASE UNCHANGED membersVars
  BY <1>2, <1>7 DEF membersVars
<1> QED
  BY <1>3, <1>4, <1>5, <1>6, <1>7 DEF MembersNext

(* However often an invite's link is opened and its user removed again, it   *)
(* brings the user in no more often than requests run at once or fail.       *)
THEOREM InviteBrings == MembersSpec => []InviteBringsOnce
<1>1. MembersTypeOK /\ BroughtIn => InviteBringsOnce
  <2> SUFFICES ASSUME MembersTypeOK, BroughtIn, NEW i \in Invites
               PROVE  uses[i] <= Cardinality(Requests) + failures[i]
    BY DEF InviteBringsOnce
  <2>1. /\ Cardinality(Joining(i)) \in Nat /\ Cardinality(Marking(i)) \in Nat
        /\ Cardinality(Requests) \in Nat /\ uses[i] \in Nat /\ failures[i] \in Nat
        /\ Cardinality(Joining(i)) + Cardinality(Marking(i)) <= Cardinality(Requests)
    BY AcceptsFinite DEF MembersTypeOK
  <2> QED
    BY <2>1 DEF BroughtIn, Brought
<1>2. MembersInit => BroughtIn
  <2> SUFFICES ASSUME MembersInit, NEW i \in Invites PROVE Brought(i)
    BY DEF BroughtIn
  <2>1. Marking(i) = {} /\ invites[i].state # "accepted" /\ uses[i] = 0 /\ failures[i] = 0
    BY DEF MembersInit, Marking, NoRequest, NoInvite
  <2> QED
    BY <2>1, FS_EmptySet DEF Brought
<1> QED
  BY <1>1, <1>2, MembersInitially, MembersTypeStep, InsertsOfferedStep, BroughtStep, PTL
  DEF MembersSpec

-----------------------------------------------------------------------------
(* Passkeys                                                                 *)

(* A request under way is about a challenge.                                *)
AboutChallenges ==
    \A v \in Verifies : verifies[v].pc # "idle" => verifies[v].of \in Challenges

PasskeyTyped == PasskeyTypeOK /\ AboutChallenges

LEMMA PasskeyNumbers ==
    /\ MaxChallenges \in Nat /\ 0 \in 0 .. MaxChallenges
    /\ \A k \in Challenges : k \in 0 .. MaxChallenges /\ k # 0
    /\ NoVerify \in VerifyStates /\ NoVerify.pc = "idle"
  BY PasskeyAssumption DEF Challenges, NoVerify, VerifyStates

LEMMA EmittedTyped ==
    ASSUME PasskeyTypeOK, NEW k \in Challenges
    PROVE  Emitted(k) \in 0 .. MaxChallenges
  BY PasskeyNumbers DEF PasskeyTypeOK, Emitted

(* A signature is the next of at most as many as there are challenges.      *)
LEMMA SignTyped ==
    ASSUME PasskeyTypeOK, NEW k \in Challenges, Sign(k)
    PROVE  signature' \in [Challenges -> 0 .. MaxChallenges]
<1> DEFINE signed == {j \in Challenges : signature[j] # 0}
<1>1. /\ IsFiniteSet(Challenges) /\ Cardinality(Challenges) = MaxChallenges
  BY PasskeyNumbers, FS_Interval DEF Challenges
<1>2. IsFiniteSet(Challenges \ {k}) /\ Cardinality(Challenges \ {k}) = MaxChallenges - 1
  BY <1>1, FS_RemoveElement
<1>3. signed \in SUBSET (Challenges \ {k})
  BY DEF Sign
<1>4. Cardinality(signed) <= MaxChallenges - 1 /\ Cardinality(signed) \in Nat
  BY <1>2, <1>3, FS_Subset, FS_CardinalityType
<1>5. signature' = [signature EXCEPT ![k] = 1 + Cardinality(signed)]
  BY DEF Sign
<1> HIDE DEF signed
<1>6. 1 + Cardinality(signed) \in 0 .. MaxChallenges
  BY <1>4, PasskeyNumbers
<1> QED
  BY <1>5, <1>6 DEF PasskeyTypeOK

(* What a request does to its own record and to those of the others.        *)
LEMMA VerifyEndsMoves ==
    ASSUME PasskeyTypeOK, NEW v \in Verifies, VerifyEnds(v)
    PROVE  /\ verifies' \in [Verifies -> VerifyStates]
           /\ verifies'[v].pc = "idle"
           /\ \A w \in Verifies \ {v} : verifies'[w] = verifies[w]
  BY PasskeyNumbers DEF VerifyEnds, PasskeyTypeOK

LEMMA VerifyMoves ==
    ASSUME PasskeyTypeOK, NEW v \in Verifies, NEW pc \in {"delete", "check", "mint"},
           verifies' = [verifies EXCEPT ![v].pc = pc]
    PROVE  /\ verifies' \in [Verifies -> VerifyStates]
           /\ verifies'[v].pc = pc /\ verifies'[v].of = verifies[v].of
           /\ \A w \in Verifies \ {v} : verifies'[w] = verifies[w]
<1>1. verifies \in [Verifies -> VerifyStates] /\ verifies[v] \in VerifyStates
  BY DEF PasskeyTypeOK
<1>2. LET x == [verifies[v] EXCEPT !.pc = pc]
      IN  x \in VerifyStates /\ x.pc = pc /\ x.of = verifies[v].of
  BY <1>1 DEF VerifyStates
<1> QED
  BY <1>1, <1>2

LEMMA VerifyBegins ==
    ASSUME PasskeyTypeOK, NEW v \in Verifies, NEW pc \in {"find", "assert"},
           NEW k \in Challenges, NEW n \in 0 .. MaxChallenges,
           verifies' = [verifies EXCEPT ![v] = [pc |-> pc, of |-> k, read |-> n]]
    PROVE  /\ verifies' \in [Verifies -> VerifyStates]
           /\ verifies'[v].pc = pc /\ verifies'[v].of = k
           /\ \A w \in Verifies \ {v} : verifies'[w] = verifies[w]
<1>1. [pc |-> pc, of |-> k, read |-> n] \in VerifyStates
  BY PasskeyNumbers DEF VerifyStates
<1> QED
  BY <1>1 DEF PasskeyTypeOK

(* One request moves and the others stay.                                   *)
LEMMA AboutByOne ==
    ASSUME AboutChallenges, NEW v \in Verifies,
           \A w \in Verifies \ {v} : verifies'[w] = verifies[w],
           verifies'[v].pc # "idle" => verifies'[v].of \in Challenges
    PROVE  AboutChallenges'
  BY DEF AboutChallenges, Challenges

LEMMA PasskeyTypeStep ==
    ASSUME PasskeyTyped, [PasskeyNext]_passkeyVars
    PROVE  PasskeyTyped'
<1>1. /\ counts \in BOOLEAN /\ asked \in 0 .. MaxChallenges
      /\ purpose \in [Challenges -> {"none", "login", "stepup"}]
      /\ rows \subseteq Challenges /\ stepUpChallenge \in 0 .. MaxChallenges
      /\ signature \in [Challenges -> 0 .. MaxChallenges]
      /\ enrolled \in BOOLEAN /\ counter \in 0 .. MaxChallenges
      /\ verifies \in [Verifies -> VerifyStates] /\ accepted \in [Challenges -> Nat]
      /\ PasskeyTypeOK /\ AboutChallenges
  BY DEF PasskeyTyped, PasskeyTypeOK
<1>2. CASE UNCHANGED passkeyVars
  BY <1>1, <1>2 DEF passkeyVars, PasskeyTypeOK, AboutChallenges, PasskeyTyped
<1>3. CASE LoginOptions \/ StepUpOptions
  <2>1. asked + 1 \in Challenges /\ asked' = asked + 1
    BY <1>1, <1>3, PasskeyNumbers DEF LoginOptions, StepUpOptions, Asks, Challenges
  <2>2. asked' \in 0 .. MaxChallenges /\ purpose' \in [Challenges -> {"none", "login", "stepup"}]
    BY <1>1, <1>3, <2>1, PasskeyNumbers DEF LoginOptions, StepUpOptions, Asks
  <2>3. rows' \subseteq Challenges /\ stepUpChallenge' \in 0 .. MaxChallenges
    BY <1>1, <1>3, <2>1, PasskeyNumbers DEF LoginOptions, StepUpOptions
  <2> QED
    BY <1>1, <1>3, <2>2, <2>3
    DEF LoginOptions, StepUpOptions, PasskeyTypeOK, AboutChallenges, PasskeyTyped
<1>4. ASSUME NEW k \in Challenges, Sign(k)
      PROVE  PasskeyTyped'
  <2>1. signature' \in [Challenges -> 0 .. MaxChallenges]
    BY <1>1, <1>4, SignTyped
  <2> QED
    BY <1>1, <1>4, <2>1 DEF Sign, PasskeyTypeOK, AboutChallenges, PasskeyTyped
<1>5. ASSUME \/ StepUpExpires \/ PasskeyDeleted
             \/ \E k \in Challenges : LoginExpires(k)
      PROVE  PasskeyTyped'
  BY <1>1, <1>5, PasskeyNumbers
  DEF StepUpExpires, PasskeyDeleted, LoginExpires, PasskeyTypeOK, AboutChallenges, PasskeyTyped
<1>6. CASE ChallengesForgotten
  <2>1. verifies' \in [Verifies -> VerifyStates] /\ \A v \in Verifies : verifies'[v].pc = "idle"
    BY <1>6, PasskeyNumbers DEF ChallengesForgotten
  <2> QED
    BY <1>1, <1>6, <2>1, PasskeyNumbers
    DEF ChallengesForgotten, PasskeyTypeOK, AboutChallenges, PasskeyTyped
<1>7. ASSUME NEW v \in Verifies, NEW k \in Challenges, LoginReads(v, k) \/ StepUpTakes(v, k)
      PROVE  PasskeyTyped'
  <2>1. /\ verifies' \in [Verifies -> VerifyStates]
        /\ \A w \in Verifies \ {v} : verifies'[w] = verifies[w]
        /\ verifies'[v].pc # "idle" => verifies'[v].of \in Challenges
    BY <1>1, <1>7, VerifyBegins, PasskeyNumbers DEF LoginReads, StepUpTakes, AboutChallenges
  <2> QED
    BY <1>1, <1>7, <2>1, PasskeyNumbers, AboutByOne
    DEF LoginReads, StepUpTakes, PasskeyTypeOK, PasskeyTyped
<1>8. ASSUME NEW v \in Verifies,
             \/ LoginFinds(v) \/ LoginDeletes(v) \/ LoginChecks(v) \/ LoginMints(v)
             \/ StepUpAsserts(v)
      PROVE  PasskeyTyped'
  <2>1. verifies[v].of \in Challenges
    BY <1>1, <1>8 DEF LoginFinds, LoginDeletes, LoginChecks, LoginMints, StepUpAsserts,
                      AboutChallenges
  <2>2. \/ VerifyEnds(v)
        \/ \E pc \in {"delete", "check", "mint"} : verifies' = [verifies EXCEPT ![v].pc = pc]
    BY <1>8 DEF LoginFinds, LoginDeletes, LoginChecks, LoginMints, StepUpAsserts
  <2>3. /\ verifies' \in [Verifies -> VerifyStates]
        /\ \A w \in Verifies \ {v} : verifies'[w] = verifies[w]
        /\ verifies'[v].pc # "idle" => verifies'[v].of \in Challenges
    BY <1>1, <2>1, <2>2, VerifyEndsMoves, VerifyMoves
  <2>4. counter' \in 0 .. MaxChallenges
    BY <1>1, <1>8, <2>1, EmittedTyped
    DEF LoginFinds, LoginDeletes, LoginChecks, LoginMints, StepUpAsserts
  <2>5. rows' \subseteq Challenges /\ accepted' \in [Challenges -> Nat]
    BY <1>1, <1>8, <2>1
    DEF LoginFinds, LoginDeletes, LoginChecks, LoginMints, StepUpAsserts
  <2>6. UNCHANGED <<counts, asked, purpose, stepUpChallenge, signature, enrolled>>
    BY <1>8 DEF LoginFinds, LoginDeletes, LoginChecks, LoginMints, StepUpAsserts
  <2> QED
    BY <1>1, <2>3, <2>4, <2>5, <2>6, AboutByOne DEF PasskeyTypeOK, PasskeyTyped
<1> QED
  BY <1>2, <1>3, <1>4, <1>5, <1>6, <1>7, <1>8 DEF PasskeyNext

LEMMA PasskeyInitially ==
    ASSUME PasskeyInit
    PROVE  PasskeyTyped
  BY PasskeyNumbers DEF PasskeyInit, PasskeyTyped, PasskeyTypeOK, AboutChallenges

(* Challenges, requests and the counter keep their types, for any number of  *)
(* each.                                                                     *)
THEOREM PasskeyTypeCorrect == PasskeySpec => []PasskeyTypeOK
<1>1. PasskeyTyped => PasskeyTypeOK
  BY DEF PasskeyTyped
<1> QED
  BY <1>1, PasskeyInitially, PasskeyTypeStep, PTL DEF PasskeySpec

(* The stored counter falls only by a login that checked its assertion       *)
(* against a counter that has risen since it was read.                       *)
THEOREM CounterFalls == PasskeySpec => CounterFallsByLoginOnly
<1>1. ASSUME PasskeyTyped, [PasskeyNext]_passkeyVars, counter' < counter
      PROVE  \E v \in Verifies : /\ verifies[v].pc = "check" /\ verifies'[v].pc = "mint"
                                 /\ verifies[v].read < counter
  <2>1. counter \in Nat /\ PasskeyTypeOK /\ AboutChallenges
    BY <1>1, PasskeyNumbers DEF PasskeyTyped, PasskeyTypeOK
  <2>2. counter' # counter
    BY <1>1, <2>1
  <2>3. PICK v \in Verifies : LoginChecks(v) \/ StepUpAsserts(v)
    BY <1>1, <2>2 DEF PasskeyNext, passkeyVars, LoginOptions, StepUpOptions, StepUpExpires,
         ChallengesForgotten, PasskeyDeleted, Sign, LoginExpires, LoginReads, StepUpTakes,
         LoginFinds, LoginDeletes, LoginMints
  <2>4. /\ verifies[v].of \in Challenges
        /\ verifies[v].read \in Nat /\ Emitted(verifies[v].of) \in Nat
    BY <2>1, <2>3, EmittedTyped, PasskeyNumbers
    DEF LoginChecks, StepUpAsserts, AboutChallenges, PasskeyTypeOK, VerifyStates
  <2>5. LoginChecks(v)
    BY <1>1, <2>1, <2>2, <2>3, <2>4 DEF StepUpAsserts, Rises
  <2>6. /\ Rises(verifies[v].of, verifies[v].read)
        /\ counter' = Emitted(verifies[v].of)
        /\ verifies' = [verifies EXCEPT ![v].pc = "mint"] /\ verifies[v].pc = "check"
    BY <2>2, <2>5 DEF LoginChecks
  <2>7. verifies[v].read < counter
    BY <1>1, <2>1, <2>4, <2>6 DEF Rises
  <2>8. verifies'[v].pc = "mint"
    BY <2>1, <2>6, VerifyMoves
  <2> QED
    BY <2>6, <2>7, <2>8
<1>2. ASSUME PasskeyTyped, [PasskeyNext]_passkeyVars
      PROVE  [counter' < counter =>
                \E v \in Verifies : /\ verifies[v].pc = "check" /\ verifies'[v].pc = "mint"
                                    /\ verifies[v].read < counter]_passkeyVars
  BY <1>1, <1>2
<1> QED
  BY <1>2, PasskeyInitially, PasskeyTypeStep, PTL DEF PasskeySpec, CounterFallsByLoginOnly

-----------------------------------------------------------------------------
(* What an assertion gives                                                  *)

(* The requests that found the login challenge k, those of them that have    *)
(* gone on, and the requests that took the step-up challenge k.              *)
Logging(k) ==
    {v \in Verifies : verifies[v].pc \in {"delete", "check", "mint"} /\ verifies[v].of = k}
Deleted(k) ==
    {v \in Verifies : verifies[v].pc \in {"check", "mint"} /\ verifies[v].of = k}
Asserting(k) == {v \in Verifies : verifies[v].pc = "assert" /\ verifies[v].of = k}

(* A challenge that is to be handed out has given nothing.                   *)
GivenNone(k) ==
    /\ k > asked => purpose[k] = "none"
    /\ purpose[k] = "none" => accepted[k] = 0

(* A login challenge: while its row is there nobody has passed the deletion, *)
(* and after that nobody finds it.                                          *)
GivenLogin(k) ==
    /\ k \in rows => accepted[k] = 0 /\ purpose[k] = "login" /\ Deleted(k) = {}
    /\ Logging(k) # {} => purpose[k] = "login"
    /\ purpose[k] = "login" =>
          accepted[k] + Cardinality(Logging(k)) <= Cardinality(Verifies)

(* A step-up challenge: it is in the map, with one request, or spent.        *)
GivenStepUp(k) ==
    /\ stepUpChallenge = k => purpose[k] = "stepup" /\ accepted[k] = 0 /\ Asserting(k) = {}
    /\ Asserting(k) # {} => purpose[k] = "stepup" /\ accepted[k] = 0
    /\ \A v, w \in Asserting(k) : v = w
    /\ purpose[k] = "stepup" => accepted[k] \in {0, 1}

Given == \A k \in Challenges : GivenNone(k) /\ GivenLogin(k) /\ GivenStepUp(k)

LEMMA LoggingFinite ==
    ASSUME NEW k
    PROVE  /\ IsFiniteSet(Logging(k)) /\ Cardinality(Logging(k)) \in Nat
           /\ Cardinality(Verifies) \in Nat /\ Cardinality(Logging(k)) <= Cardinality(Verifies)
<1>1. IsFiniteSet(Verifies) /\ Logging(k) \in SUBSET Verifies
  BY PasskeyAssumption DEF Logging
<1> QED
  BY <1>1, FS_Subset, FS_CardinalityType

(* A step of one request touches nothing but its challenge.                  *)
LEMMA GivenByOne ==
    ASSUME Given, NEW v \in Verifies, NEW j \in Challenges,
           \A w \in Verifies \ {v} : verifies'[w] = verifies[w],
           verifies[v].pc = "idle" \/ verifies[v].of = j,
           verifies'[v].pc = "idle" \/ verifies'[v].of = j,
           UNCHANGED <<asked, purpose>>, stepUpChallenge' \in {0, stepUpChallenge},
           \A k \in Challenges \ {j} : accepted'[k] = accepted[k] /\ (k \in rows' => k \in rows),
           accepted'[j] = accepted[j] \/ purpose[j] # "none",
           GivenLogin(j)', GivenStepUp(j)'
    PROVE  Given'
<1>1. ASSUME NEW k \in Challenges \ {j}
      PROVE  GivenNone(k)' /\ GivenLogin(k)' /\ GivenStepUp(k)'
  <2>1. Logging(k)' = Logging(k) /\ Deleted(k)' = Deleted(k) /\ Asserting(k)' = Asserting(k)
    BY <1>1 DEF Logging, Deleted, Asserting
  <2>2. GivenNone(k) /\ GivenLogin(k) /\ GivenStepUp(k) /\ k # 0
    BY <1>1, PasskeyNumbers DEF Given
  <2>3. GivenNone(k)'
    BY <1>1, <2>2 DEF GivenNone
  <2>4. GivenLogin(k)'
    BY <1>1, <2>1, <2>2 DEF GivenLogin
  <2>5. GivenStepUp(k)'
    BY <1>1, <2>1, <2>2 DEF GivenStepUp
  <2> QED
    BY <2>3, <2>4, <2>5
<1>2. GivenNone(j)'
  BY DEF Given, GivenNone
<1> QED
  BY <1>1, <1>2 DEF Given

(* No request moves.                                                        *)
LEMMA GivenByNone ==
    ASSUME Given, UNCHANGED <<asked, purpose, verifies, accepted>>,
           stepUpChallenge' \in {0, stepUpChallenge}, rows' \subseteq rows
    PROVE  Given'
<1>1. ASSUME NEW k \in Challenges
      PROVE  GivenNone(k)' /\ GivenLogin(k)' /\ GivenStepUp(k)'
  <2>1. Logging(k)' = Logging(k) /\ Deleted(k)' = Deleted(k) /\ Asserting(k)' = Asserting(k)
    BY DEF Logging, Deleted, Asserting
  <2>2. GivenNone(k) /\ GivenLogin(k) /\ GivenStepUp(k) /\ k # 0
    BY PasskeyNumbers DEF Given
  <2>3. GivenNone(k)'
    BY <2>2 DEF GivenNone
  <2>4. GivenLogin(k)'
    BY <2>1, <2>2 DEF GivenLogin
  <2>5. GivenStepUp(k)'
    BY <2>1, <2>2 DEF GivenStepUp
  <2> QED
    BY <2>3, <2>4, <2>5
<1> QED
  BY <1>1 DEF Given

LEMMA GivenOptions ==
    ASSUME PasskeyTyped, Given, LoginOptions \/ StepUpOptions
    PROVE  Given'
<1>1. /\ asked \in Nat /\ asked' = asked + 1 /\ asked + 1 \in Challenges
      /\ purpose \in [Challenges -> {"none", "login", "stepup"}]
      /\ UNCHANGED <<verifies, accepted>>
  BY PasskeyNumbers DEF PasskeyTyped, PasskeyTypeOK, LoginOptions, StepUpOptions, Asks, Challenges
<1>2. ASSUME NEW k \in Challenges
      PROVE  GivenNone(k)' /\ GivenLogin(k)' /\ GivenStepUp(k)'
  <2>1. Logging(k)' = Logging(k) /\ Deleted(k)' = Deleted(k) /\ Asserting(k)' = Asserting(k)
    BY <1>1 DEF Logging, Deleted, Asserting
  <2>2. GivenNone(k) /\ GivenLogin(k) /\ GivenStepUp(k) /\ k \in Nat
    BY DEF Given, Challenges
  <2>3. CASE k # asked + 1
    <3>1. purpose'[k] = purpose[k] /\ (k \in rows' => k \in rows)
          /\ (stepUpChallenge' = k => stepUpChallenge = k)
      BY <1>1, <2>3 DEF LoginOptions, StepUpOptions, Asks
    <3>2. GivenNone(k)'
      BY <1>1, <2>2, <3>1 DEF GivenNone
    <3> QED
      BY <1>1, <2>1, <2>2, <3>1, <3>2 DEF GivenLogin, GivenStepUp
  <2>4. CASE k = asked + 1
    <3>1. k > asked /\ ~(k > asked')
      BY <1>1, <2>4
    <3>2. /\ purpose[k] = "none" /\ accepted[k] = 0
          /\ Logging(k) = {} /\ Asserting(k) = {} /\ stepUpChallenge # k /\ k \notin rows
      BY <2>2, <3>1 DEF GivenNone, GivenLogin, GivenStepUp
    <3>3. Deleted(k) = {}
      BY <3>2 DEF Logging, Deleted
    <3>4. \/ purpose'[k] = "login" /\ stepUpChallenge' # k
          \/ purpose'[k] = "stepup" /\ k \notin rows'
      BY <1>1, <2>4, <3>2 DEF LoginOptions, StepUpOptions, Asks
    <3>5. Cardinality(Logging(k)) = 0
      BY <3>2, FS_EmptySet
    <3>6. GivenLogin(k)'
      BY <1>1, <2>1, <3>2, <3>3, <3>4, <3>5, LoggingFinite DEF GivenLogin
    <3>7. GivenStepUp(k)'
      BY <1>1, <2>1, <3>2, <3>4 DEF GivenStepUp
    <3> QED
      BY <1>1, <3>1, <3>2, <3>4, <3>6, <3>7 DEF GivenNone
  <2> QED
    BY <2>3, <2>4
<1> QED
  BY <1>2 DEF Given

LEMMA GivenForgotten ==
    ASSUME PasskeyTyped, Given, ChallengesForgotten
    PROVE  Given'
<1>1. ASSUME NEW k \in Challenges
      PROVE  GivenNone(k)' /\ GivenLogin(k)' /\ GivenStepUp(k)'
  <2>1. Logging(k)' = {} /\ Deleted(k)' = {} /\ Asserting(k)' = {}
    BY PasskeyNumbers DEF ChallengesForgotten, Logging, Deleted, Asserting
  <2>2. GivenNone(k) /\ GivenLogin(k) /\ GivenStepUp(k) /\ k # 0 /\ accepted[k] \in Nat
    BY PasskeyNumbers DEF Given, PasskeyTyped, PasskeyTypeOK
  <2>3. UNCHANGED <<asked, purpose, rows, accepted>> /\ stepUpChallenge' = 0
    BY DEF ChallengesForgotten
  <2>4. Cardinality({}) = 0 /\ Cardinality(Logging(k)) \in Nat /\ Cardinality(Verifies) \in Nat
    BY FS_EmptySet, LoggingFinite
  <2>5. GivenLogin(k)'
    BY <2>1, <2>2, <2>3, <2>4 DEF GivenLogin
  <2>6. GivenNone(k)' /\ GivenStepUp(k)'
    BY <2>1, <2>2, <2>3 DEF GivenNone, GivenStepUp
  <2> QED
    BY <2>5, <2>6
<1> QED
  BY <1>1 DEF Given

(* A request that begins: a login is about a challenge without being a       *)
(* member of its sets, a step-up takes its challenge out of the map.         *)
LEMMA GivenBegins ==
    ASSUME PasskeyTyped, Given, NEW v \in Verifies, NEW j \in Challenges,
           LoginReads(v, j) \/ StepUpTakes(v, j)
    PROVE  Given'
<1>1. /\ PasskeyTypeOK /\ counter \in 0 .. MaxChallenges
      /\ GivenLogin(j) /\ GivenStepUp(j) /\ j # 0
  BY PasskeyNumbers DEF PasskeyTyped, PasskeyTypeOK, Given
<1>2. /\ verifies[v].pc = "idle" /\ stepUpChallenge' \in {0, stepUpChallenge}
      /\ UNCHANGED <<asked, purpose, rows, accepted>>
  BY DEF LoginReads, StepUpTakes
<1>3. CASE UNCHANGED verifies
  BY <1>2, <1>3, GivenByNone
<1>4. ASSUME NEW pc \in {"find", "assert"}, NEW n \in 0 .. MaxChallenges,
             verifies' = [verifies EXCEPT ![v] = [pc |-> pc, of |-> j, read |-> n]],
             pc = "assert" => stepUpChallenge = j /\ stepUpChallenge' = 0
      PROVE  Given'
  <2>1. /\ verifies'[v].pc = pc /\ verifies'[v].of = j
        /\ \A w \in Verifies \ {v} : verifies'[w] = verifies[w]
    BY <1>1, <1>4, VerifyBegins
  <2>2. Logging(j)' = Logging(j) /\ Deleted(j)' = Deleted(j)
    BY <1>2, <1>4, <2>1 DEF Logging, Deleted
  <2>3. Asserting(j)' = IF pc = "assert" THEN Asserting(j) \cup {v} ELSE Asserting(j)
    BY <1>2, <1>4, <2>1 DEF Asserting
  <2>4. GivenLogin(j)'
    BY <1>1, <1>2, <2>2 DEF GivenLogin
  <2>5. GivenStepUp(j)'
    BY <1>1, <1>2, <1>4, <2>3 DEF GivenStepUp
  <2> QED
    BY <1>2, <2>1, <2>4, <2>5, GivenByOne
<1>5. CASE LoginReads(v, j)
  BY <1>1, <1>4, <1>5 DEF LoginReads
<1>6. CASE StepUpTakes(v, j)
  BY <1>1, <1>3, <1>4, <1>6, PasskeyNumbers DEF StepUpTakes
<1> QED
  BY <1>5, <1>6

LEMMA LoggingSizes ==
    ASSUME NEW k, NEW v
    PROVE  /\ v \in Logging(k) => Cardinality(Logging(k) \ {v}) = Cardinality(Logging(k)) - 1
           /\ v \notin Logging(k) => Logging(k) \ {v} = Logging(k)
<1>1. IsFiniteSet(Logging(k))
  BY LoggingFinite
<1> QED
  BY <1>1, FS_RemoveElement

(* A login that goes on.                                                    *)
LEMMA GivenLogins ==
    ASSUME PasskeyTyped, Given, NEW v \in Verifies, NEW j \in Challenges, verifies[v].of = j,
           LoginFinds(v) \/ LoginDeletes(v) \/ LoginChecks(v) \/ LoginMints(v)
    PROVE  Given'
<1>1. /\ PasskeyTypeOK /\ accepted \in [Challenges -> Nat] /\ accepted[j] \in Nat
      /\ GivenLogin(j) /\ GivenStepUp(j)
      /\ Cardinality(Logging(j)) \in Nat /\ Cardinality(Verifies) \in Nat
  BY LoggingFinite DEF PasskeyTyped, PasskeyTypeOK, Given
<1>2. UNCHANGED <<asked, purpose, stepUpChallenge>>
  BY DEF LoginFinds, LoginDeletes, LoginChecks, LoginMints
<1>3. ASSUME verifies'[v].pc # "assert", verifies[v].pc # "assert",
             \A w \in Verifies \ {v} : verifies'[w] = verifies[w], UNCHANGED accepted
      PROVE  GivenStepUp(j)'
  <2>1. Asserting(j)' = Asserting(j)
    BY <1>3 DEF Asserting
  <2> QED
    BY <1>1, <1>2, <1>3, <2>1 DEF GivenStepUp
<1>4. CASE LoginFinds(v) /\ j \in rows
  <2>1. /\ verifies' = [verifies EXCEPT ![v].pc = "delete"] /\ verifies[v].pc = "find"
        /\ UNCHANGED <<rows, accepted>>
    BY <1>4 DEF LoginFinds
  <2>2. /\ verifies'[v].pc = "delete" /\ verifies'[v].of = j
        /\ \A w \in Verifies \ {v} : verifies'[w] = verifies[w]
    BY <1>1, <2>1, VerifyMoves
  <2>3. Deleted(j)' = Deleted(j)
    BY <2>1, <2>2 DEF Deleted
  <2>4. Cardinality(Logging(j)') <= Cardinality(Verifies)
    <3>1. Logging(j)' \in SUBSET Verifies /\ IsFiniteSet(Verifies)
      BY PasskeyAssumption DEF Logging
    <3> QED
      BY <3>1, FS_Subset
  <2>5. Cardinality(Logging(j)') \in Nat
    <3>1. Logging(j)' \in SUBSET Verifies /\ IsFiniteSet(Verifies)
      BY PasskeyAssumption DEF Logging
    <3> QED
      BY <3>1, FS_Subset, FS_CardinalityType
  <2>6. accepted[j] = 0 /\ purpose[j] = "login"
    BY <1>1, <1>4 DEF GivenLogin
  <2>7. GivenLogin(j)'
    BY <1>1, <1>2, <2>1, <2>3, <2>4, <2>5, <2>6 DEF GivenLogin
  <2> QED
    BY <1>2, <1>3, <2>1, <2>2, <2>7, GivenByOne
<1>5. CASE VerifyEnds(v) /\ verifies[v].pc \in {"find", "check"} /\ UNCHANGED <<rows, accepted>>
  <2>1. /\ verifies'[v].pc = "idle"
        /\ \A w \in Verifies \ {v} : verifies'[w] = verifies[w]
    BY <1>1, <1>5, VerifyEndsMoves
  <2>2. Logging(j)' = Logging(j) \ {v} /\ Deleted(j)' = Deleted(j) \ {v}
    BY <2>1 DEF Logging, Deleted
  <2>3. /\ Cardinality(Logging(j) \ {v}) \in Nat
        /\ Cardinality(Logging(j) \ {v}) <= Cardinality(Logging(j))
    BY LoggingFinite, FS_Subset, FS_CardinalityType
  <2>4. GivenLogin(j)'
    BY <1>1, <1>2, <1>5, <2>2, <2>3 DEF GivenLogin
  <2> QED
    BY <1>2, <1>3, <1>5, <2>1, <2>4, GivenByOne
<1>6. CASE LoginDeletes(v)
  <2>1. /\ verifies' = [verifies EXCEPT ![v].pc = "check"] /\ verifies[v].pc = "delete"
        /\ UNCHANGED accepted /\ rows' = rows \ {j}
    BY <1>6 DEF LoginDeletes
  <2>2. /\ verifies'[v].pc = "check" /\ verifies'[v].of = j
        /\ \A w \in Verifies \ {v} : verifies'[w] = verifies[w]
    BY <1>1, <2>1, VerifyMoves
  <2>3. Logging(j)' = Logging(j)
    BY <2>1, <2>2 DEF Logging
  <2>4. GivenLogin(j)'
    BY <1>1, <1>2, <2>1, <2>3 DEF GivenLogin
  <2> QED
    BY <1>2, <1>3, <2>1, <2>2, <2>4, GivenByOne
<1>7. CASE LoginChecks(v) /\ verifies' = [verifies EXCEPT ![v].pc = "mint"]
  <2>1. verifies[v].pc = "check" /\ UNCHANGED <<rows, accepted>>
    BY <1>7 DEF LoginChecks
  <2>2. /\ verifies'[v].pc = "mint" /\ verifies'[v].of = j
        /\ \A w \in Verifies \ {v} : verifies'[w] = verifies[w]
    BY <1>1, <1>7, VerifyMoves
  <2>3. Logging(j)' = Logging(j) /\ Deleted(j)' = Deleted(j)
    BY <2>1, <2>2 DEF Logging, Deleted
  <2>4. GivenLogin(j)'
    BY <1>1, <1>2, <2>1, <2>3 DEF GivenLogin
  <2> QED
    BY <1>2, <1>3, <2>1, <2>2, <2>4, GivenByOne
<1>8. CASE LoginMints(v)
  <2>1. /\ VerifyEnds(v) /\ verifies[v].pc = "mint" /\ UNCHANGED rows
        /\ accepted'[j] = accepted[j] + 1
        /\ \A k \in Challenges \ {j} : accepted'[k] = accepted[k]
    BY <1>1, <1>8 DEF LoginMints
  <2>2. /\ verifies'[v].pc = "idle"
        /\ \A w \in Verifies \ {v} : verifies'[w] = verifies[w]
    BY <1>1, <2>1, VerifyEndsMoves
  <2>3. v \in Logging(j) /\ v \in Deleted(j)
    BY <2>1 DEF Logging, Deleted
  <2>4. j \notin rows /\ purpose[j] = "login"
    BY <1>1, <2>3 DEF GivenLogin
  <2>5. Logging(j)' = Logging(j) \ {v}
    BY <2>2 DEF Logging
  <2>6. Cardinality(Logging(j)') = Cardinality(Logging(j)) - 1
    <3>1. Cardinality(Logging(j) \ {v}) = Cardinality(Logging(j)) - 1
      BY <2>3, LoggingSizes
    <3> QED
      BY <2>5, <3>1
  <2>7. GivenLogin(j)'
    BY <1>1, <1>2, <2>1, <2>4, <2>6 DEF GivenLogin
  <2>8. Asserting(j)' = Asserting(j)
    BY <2>1, <2>2 DEF Asserting
  <2>9. GivenStepUp(j)'
    BY <1>1, <1>2, <2>4, <2>8 DEF GivenStepUp
  <2> QED
    BY <1>2, <2>1, <2>2, <2>4, <2>7, <2>9, GivenByOne
<1> QED
  BY <1>4, <1>5, <1>6, <1>7, <1>8 DEF LoginFinds, LoginChecks

LEMMA GivenAsserts ==
    ASSUME PasskeyTyped, Given, NEW v \in Verifies, NEW j \in Challenges, verifies[v].of = j,
           StepUpAsserts(v)
    PROVE  Given'
<1>1. /\ PasskeyTypeOK /\ accepted \in [Challenges -> Nat]
      /\ GivenLogin(j) /\ GivenStepUp(j)
  BY DEF PasskeyTyped, PasskeyTypeOK, Given
<1>2. /\ VerifyEnds(v) /\ verifies[v].pc = "assert"
      /\ UNCHANGED <<asked, purpose, rows, stepUpChallenge>>
  BY DEF StepUpAsserts
<1>3. /\ verifies'[v].pc = "idle"
      /\ \A w \in Verifies \ {v} : verifies'[w] = verifies[w]
  BY <1>1, <1>2, VerifyEndsMoves
<1>4. /\ Logging(j)' = Logging(j) /\ Deleted(j)' = Deleted(j)
      /\ Asserting(j)' = Asserting(j) \ {v} /\ v \in Asserting(j)
  BY <1>2, <1>3 DEF Logging, Deleted, Asserting
<1>5. purpose[j] = "stepup" /\ accepted[j] = 0 /\ Asserting(j)' = {} /\ stepUpChallenge # j
  BY <1>1, <1>4 DEF GivenStepUp
<1>6. /\ accepted'[j] \in {0, 1}
      /\ \A k \in Challenges \ {j} : accepted'[k] = accepted[k]
  BY <1>1, <1>5 DEF StepUpAsserts
<1>7. j \notin rows /\ Logging(j) = {}
  BY <1>1, <1>5 DEF GivenLogin
<1>8. GivenLogin(j)'
  BY <1>2, <1>4, <1>5, <1>7 DEF GivenLogin
<1>9. GivenStepUp(j)'
  BY <1>2, <1>5, <1>6 DEF GivenStepUp
<1> QED
  BY <1>2, <1>3, <1>5, <1>6, <1>8, <1>9, GivenByOne

LEMMA GivenStep ==
    ASSUME PasskeyTyped, Given, [PasskeyNext]_passkeyVars
    PROVE  Given'
<1>1. CASE UNCHANGED passkeyVars
  BY <1>1, GivenByNone DEF passkeyVars
<1>2. ASSUME \/ StepUpExpires \/ PasskeyDeleted
             \/ \E k \in Challenges : Sign(k) \/ LoginExpires(k)
      PROVE  Given'
  BY <1>2, GivenByNone DEF StepUpExpires, PasskeyDeleted, Sign, LoginExpires
<1>3. ASSUME NEW v \in Verifies,
             \/ LoginFinds(v) \/ LoginDeletes(v) \/ LoginChecks(v) \/ LoginMints(v)
             \/ StepUpAsserts(v)
      PROVE  Given'
  <2>1. verifies[v].of \in Challenges
    BY <1>3 DEF LoginFinds, LoginDeletes, LoginChecks, LoginMints, StepUpAsserts,
                PasskeyTyped, AboutChallenges
  <2> QED
    BY <1>3, <2>1, GivenLogins, GivenAsserts
<1> QED
  BY <1>1, <1>2, <1>3, GivenOptions, GivenForgotten, GivenBegins DEF PasskeyNext

LEMMA GivenInitially ==
    ASSUME PasskeyInit
    PROVE  Given
<1> SUFFICES ASSUME NEW k \in Challenges
             PROVE  GivenNone(k) /\ GivenLogin(k) /\ GivenStepUp(k)
  BY DEF Given
<1>1. Logging(k) = {} /\ Deleted(k) = {} /\ Asserting(k) = {}
  BY PasskeyNumbers DEF PasskeyInit, Logging, Deleted, Asserting
<1> QED
  BY <1>1, PasskeyNumbers DEF PasskeyInit, GivenNone, GivenLogin, GivenStepUp

(* However many requests present an assertion, to whichever endpoint, one    *)
(* for a step-up cosigns once and never logs in, and one for a login opens   *)
(* no more sessions than requests run at once.                               *)
THEOREM AssertionGives == PasskeySpec => []AssertionGivesOnce
<1>1. ASSUME PasskeyTyped, Given, NEW k \in Challenges
      PROVE  accepted[k] + Cardinality({v \in Verifies : verifies[v].pc = "mint"
                                                         /\ verifies[v].of = k})
                <= IF purpose[k] = "stepup" THEN 1 ELSE Cardinality(Verifies)
  <2> DEFINE minting == {v \in Verifies : verifies[v].pc = "mint" /\ verifies[v].of = k}
  <2>1. minting \in SUBSET Logging(k)
    BY DEF Logging
  <2> HIDE DEF minting
  <2>2. /\ Cardinality(minting) \in Nat /\ Cardinality(minting) <= Cardinality(Logging(k))
        /\ Logging(k) = {} => Cardinality(minting) = 0
    BY <2>1, LoggingFinite, FS_Subset, FS_CardinalityType, FS_EmptySet
  <2>3. /\ GivenNone(k) /\ GivenLogin(k) /\ GivenStepUp(k) /\ accepted[k] \in Nat
        /\ purpose[k] \in {"none", "login", "stepup"}
    BY <1>1 DEF Given, PasskeyTyped, PasskeyTypeOK
  <2>4. Cardinality(Logging(k)) \in Nat /\ Cardinality(Verifies) \in Nat
    BY LoggingFinite
  <2>5. accepted[k] + Cardinality(minting)
           <= IF purpose[k] = "stepup" THEN 1 ELSE Cardinality(Verifies)
    <3>1. CASE purpose[k] = "login"
      BY <2>2, <2>3, <2>4, <3>1 DEF GivenLogin
    <3>2. CASE purpose[k] = "none"
      BY <2>2, <2>3, <2>4, <3>2 DEF GivenLogin, GivenNone
    <3>3. CASE purpose[k] = "stepup"
      BY <2>2, <2>3, <2>4, <3>3 DEF GivenLogin, GivenStepUp
    <3> QED
      BY <2>3, <3>1, <3>2, <3>3
  <2> QED
    BY <2>5 DEF minting
<1>2. PasskeyTyped /\ Given => AssertionGivesOnce
  BY <1>1 DEF AssertionGivesOnce
<1> QED
  BY <1>2, PasskeyInitially, PasskeyTypeStep, GivenInitially, GivenStep, PTL DEF PasskeySpec

-----------------------------------------------------------------------------
(* CloudConnections                                                         *)

LEMMA CloudNumbers ==
    /\ MaxConfig \in Nat /\ MaxConfig > 0 /\ Life \in Nat /\ Life > 0
    /\ CredsCap \in Nat /\ CredsCap > 0 /\ Margin \in Nat /\ ExchangeTime \in Nat
    /\ LongestUse \in Nat /\ LongestUse = ExchangeTime + CredsCap
    /\ 0 \in 0 .. MaxConfig /\ 0 \in 0 .. Life /\ 0 \in 0 .. ExchangeTime /\ 0 \in 0 .. LongestUse
    /\ Life \in 0 .. Life /\ Configs \subseteq 0 .. MaxConfig /\ 1 \in Configs
  BY CloudTimingAssumption DEF LongestUse, Configs

LEMMA CloudRecords ==
    /\ NoCloudCall \in CloudCallStates /\ NoCloudCall.pc = "idle"
    /\ NoProbe \in ProbeStates /\ NoProbe.pc = "idle"
    /\ NoCreds \in [of : 0 .. MaxConfig, left : 0 .. Life, ttl : 0 .. Life]
  BY CloudNumbers
  DEF CloudCallStates, NoCloudCall, ProbeStates, NoProbe, NoCreds, Statuses

(* The credentials that an exchange leaves in the cache.                     *)
LEMMA CachedCreds ==
    ASSUME CloudTypeOK, NEW c \in CloudCalls, SessionCreds(c), cloudCalls[c].of \in Configs
    PROVE  \/ credsCache' = credsCache
           \/ /\ credsCache' \in [of : 0 .. MaxConfig, left : 0 .. Life, ttl : 0 .. Life]
              /\ credsCache'.of = cloudCalls[c].of /\ credsCache'.left = Life
              /\ credsCache'.ttl > 0 /\ credsCache'.ttl <= Life /\ credsCache'.ttl <= CredsCap
<1> DEFINE ttl == IF Life - Margin < CredsCap THEN Life - Margin ELSE CredsCap
<1>1. credsCache' = IF ttl > 0 THEN [of |-> cloudCalls[c].of, left |-> Life, ttl |-> ttl]
                    ELSE credsCache
  BY DEF SessionCreds
<1>2. ttl > 0 => ttl \in 0 .. Life /\ ttl <= Life /\ ttl <= CredsCap
  BY CloudNumbers
<1> HIDE DEF ttl
<1> QED
  BY <1>1, <1>2, CloudNumbers

(* Credentials that are in the cache, in use or on their way are no older    *)
(* than the exchange that got them and the cache allow.                      *)
NotGone == \A e \in Configs : ~IsGone(e) => goneFor[e] = 0

Fresh(c) ==
    /\ cloudCalls[c].pc = "exchange" =>
          cloudCalls[c].of \in Configs /\ goneFor[cloudCalls[c].of] <= cloudCalls[c].waited
    /\ cloudCalls[c].pc = "sent" =>
          /\ cloudCalls[c].left > 0 /\ cloudCalls[c].of \in Configs
          /\ goneFor[cloudCalls[c].of] < LongestUse

CacheFresh ==
    credsCache # NoCreds =>
        /\ credsCache.of \in Configs /\ credsCache.ttl > 0 /\ credsCache.ttl <= credsCache.left
        /\ goneFor[credsCache.of] + credsCache.ttl <= LongestUse

CredsFresh == NotGone /\ CacheFresh /\ \A c \in CloudCalls : Fresh(c)

(* A probe that nobody overtook has read the status that is there.           *)
SeenIsStatus ==
    \A p \in Probes : (probes[p].pc \in {"probing", "write"} /\ ~probes[p].overtaken)
                          => probes[p].seen = status

LEMMA CloudFacts ==
    ASSUME CloudTypeOK
    PROVE  /\ config \in Configs /\ config \in Nat /\ isConnected \in BOOLEAN
           /\ goneFor \in [Configs -> 0 .. LongestUse] /\ dropsCreds \in BOOLEAN
           /\ credsCache \in [of : 0 .. MaxConfig, left : 0 .. Life, ttl : 0 .. Life]
           /\ cloudCalls \in [CloudCalls -> CloudCallStates]
           /\ status \in Statuses /\ misses \in 0 .. 1
           /\ probes \in [Probes -> ProbeStates]
           /\ \A e \in Configs : goneFor[e] \in Nat
           /\ \A c \in CloudCalls : cloudCalls[c] \in CloudCallStates
           /\ \A p \in Probes : probes[p] \in ProbeStates
  BY CloudNumbers DEF CloudTypeOK, Configs

(* One call moves; ages and the cache may only get fresher.                  *)
LEMMA FreshByOne ==
    ASSUME CloudTypeOK, CredsFresh, NEW c \in CloudCalls,
           \A d \in CloudCalls \ {c} : cloudCalls'[d] = cloudCalls[d],
           UNCHANGED <<config, isConnected, goneFor>>,
           CacheFresh', Fresh(c)'
    PROVE  CredsFresh'
  BY DEF CredsFresh, NotGone, Fresh, IsGone

LEMMA CloudTickStep ==
    ASSUME CloudTypeOK, CredsFresh, CloudTick
    PROVE  CloudTypeOK' /\ CredsFresh'
<1>1. /\ UNCHANGED <<config, isConnected, dropsCreds, status, misses, probes>>
      /\ \A c \in CloudCalls : cloudCalls[c].pc # "sent"
      /\ \A e \in Configs : /\ goneFor'[e] \in {goneFor[e], goneFor[e] + 1}
                            /\ ~IsGone(e) => goneFor'[e] = goneFor[e]
      /\ goneFor' \in [Configs -> 0 .. LongestUse]
  BY CloudFacts, CloudNumbers DEF CloudTick
<1>2. ASSUME NEW c \in CloudCalls
      PROVE  /\ cloudCalls'[c] \in CloudCallStates /\ cloudCalls'[c].of = cloudCalls[c].of
             /\ cloudCalls'[c].pc = cloudCalls[c].pc
             /\ cloudCalls[c].pc = "exchange" => cloudCalls'[c].waited = cloudCalls[c].waited + 1
  <2>1. cloudCalls[c] \in CloudCallStates
    BY CloudFacts
  <2>2. CASE cloudCalls[c].pc = "exchange"
    <3>1. /\ cloudCalls'[c] = [cloudCalls[c] EXCEPT !.waited = @ + 1]
          /\ cloudCalls[c].waited < ExchangeTime
      BY <2>2 DEF CloudTick
    <3>2. cloudCalls[c].waited + 1 \in 0 .. ExchangeTime
      BY <2>1, <3>1, CloudNumbers DEF CloudCallStates
    <3> QED
      BY <2>1, <3>1, <3>2 DEF CloudCallStates
  <2>3. CASE cloudCalls[c].pc # "exchange"
    BY <2>1, <2>3 DEF CloudTick
  <2> QED
    BY <2>2, <2>3
<1>3. cloudCalls' \in [CloudCalls -> CloudCallStates]
  <2>1. cloudCalls' = [c \in CloudCalls |-> cloudCalls'[c]]
    BY DEF CloudTick
  <2> QED
    BY <1>2, <2>1
<1>4. \/ credsCache' = NoCreds
      \/ /\ credsCache' \in [of : 0 .. MaxConfig, left : 0 .. Life, ttl : 0 .. Life]
         /\ credsCache.ttl > 1 /\ credsCache # NoCreds
         /\ credsCache'.of = credsCache.of /\ credsCache'.ttl = credsCache.ttl - 1
         /\ credsCache.left > 0 => credsCache'.left = credsCache.left - 1
  <2>1. /\ credsCache \in [of : 0 .. MaxConfig, left : 0 .. Life, ttl : 0 .. Life]
        /\ credsCache.left \in 0 .. Life /\ credsCache.ttl \in 0 .. Life
    BY CloudFacts
  <2>2. Sooner(credsCache.left) \in 0 .. Life /\ Sooner(credsCache.ttl) \in 0 .. Life
    BY <2>1, CloudNumbers DEF Sooner
  <2>3. CASE credsCache.ttl <= 1
    BY <2>3 DEF CloudTick
  <2>4. CASE ~(credsCache.ttl <= 1)
    <3>1. credsCache' = [credsCache EXCEPT !.left = Sooner(@), !.ttl = Sooner(@)]
      BY <2>4 DEF CloudTick
    <3>2. /\ credsCache' \in [of : 0 .. MaxConfig, left : 0 .. Life, ttl : 0 .. Life]
          /\ credsCache'.of = credsCache.of /\ credsCache'.left = Sooner(credsCache.left)
          /\ credsCache'.ttl = Sooner(credsCache.ttl)
      BY <2>1, <2>2, <3>1
    <3>3. credsCache # NoCreds
      BY <2>4, CloudNumbers DEF NoCreds
    <3>4. credsCache.ttl > 1
      BY <2>1, <2>4, CloudNumbers
    <3> QED
      BY <3>2, <3>3, <3>4 DEF Sooner
  <2> QED
    BY <2>3, <2>4
<1>5. CloudTypeOK'
  BY <1>1, <1>3, <1>4, CloudRecords, CloudFacts DEF CloudTypeOK
<1>6. NotGone'
  BY <1>1, CloudFacts DEF CredsFresh, NotGone, IsGone
<1>7. ASSUME NEW c \in CloudCalls
      PROVE  Fresh(c)'
  <2>1. Fresh(c) /\ cloudCalls[c].waited \in Nat
    BY CloudFacts, CloudNumbers DEF CredsFresh, CloudCallStates
  <2> QED
    BY <1>1, <1>2, <2>1, CloudFacts DEF Fresh
<1>8. CacheFresh'
  <2>1. credsCache.ttl \in Nat /\ credsCache.left \in Nat
    BY CloudFacts, CloudNumbers
  <2>2. CASE credsCache' = NoCreds
    BY <2>2 DEF CacheFresh
  <2>3. CASE credsCache' # NoCreds
    <3>1. /\ credsCache.of \in Configs /\ credsCache.ttl <= credsCache.left
          /\ goneFor[credsCache.of] + credsCache.ttl <= LongestUse
      BY <1>4, <2>3 DEF CredsFresh, CacheFresh
    <3>2. goneFor[credsCache.of] \in Nat
          /\ goneFor'[credsCache.of] \in {goneFor[credsCache.of], goneFor[credsCache.of] + 1}
      BY <1>1, <3>1, CloudFacts
    <3> QED
      BY <1>4, <2>1, <2>3, <3>1, <3>2, CloudNumbers DEF CacheFresh
  <2> QED
    BY <2>2, <2>3
<1> QED
  BY <1>5, <1>6, <1>7, <1>8 DEF CredsFresh

(* A call moves to a record of its own and the others stay.                  *)
LEMMA CallMoves ==
    ASSUME CloudTypeOK, NEW c \in CloudCalls, NEW x \in CloudCallStates,
           cloudCalls' = [cloudCalls EXCEPT ![c] = x]
    PROVE  /\ cloudCalls' \in [CloudCalls -> CloudCallStates] /\ cloudCalls'[c] = x
           /\ \A d \in CloudCalls \ {c} : cloudCalls'[d] = cloudCalls[d]
  BY DEF CloudTypeOK

LEMMA CloudCallStep ==
    ASSUME CloudTypeOK, CredsFresh, NEW c \in CloudCalls,
           \/ CloudCall(c) \/ LookUpCreds(c) \/ Resolve(c) \/ SessionCreds(c)
           \/ ExchangeRejected(c) \/ CloudAnswers(c)
    PROVE  CloudTypeOK' /\ CredsFresh'
<1>1. UNCHANGED <<config, isConnected, goneFor, dropsCreds, status, misses, probes>>
  BY DEF CloudCall, LookUpCreds, Resolve, SessionCreds, ExchangeRejected, CloudAnswers
<1>2. cloudCalls[c] \in CloudCallStates /\ Fresh(c) /\ CacheFresh /\ NotGone
  BY CloudFacts DEF CredsFresh
<1>3. ASSUME NEW x \in CloudCallStates, cloudCalls' = [cloudCalls EXCEPT ![c] = x],
             credsCache' \in [of : 0 .. MaxConfig, left : 0 .. Life, ttl : 0 .. Life],
             CacheFresh', Fresh(c)'
      PROVE  CloudTypeOK' /\ CredsFresh'
  <2>1. /\ cloudCalls' \in [CloudCalls -> CloudCallStates] /\ cloudCalls'[c] = x
        /\ \A d \in CloudCalls \ {c} : cloudCalls'[d] = cloudCalls[d]
    BY <1>3, CallMoves
  <2>2. CloudTypeOK'
    BY <1>1, <1>3, <2>1, CloudFacts DEF CloudTypeOK
  <2> QED
    BY <1>1, <1>3, <2>1, <2>2, FreshByOne
<1>4. ASSUME UNCHANGED credsCache
      PROVE  /\ credsCache' \in [of : 0 .. MaxConfig, left : 0 .. Life, ttl : 0 .. Life]
             /\ CacheFresh'
  BY <1>1, <1>2, <1>4, CloudFacts DEF CacheFresh
<1>5. ASSUME NEW x \in CloudCallStates, cloudCalls' = [cloudCalls EXCEPT ![c] = x],
             UNCHANGED credsCache, x.pc \notin {"exchange", "sent"}
      PROVE  CloudTypeOK' /\ CredsFresh'
  <2>1. cloudCalls'[c] = x
    BY <1>5, CallMoves
  <2>2. Fresh(c)'
    BY <1>5, <2>1 DEF Fresh
  <2> QED
    BY <1>3, <1>4, <1>5, <2>2
<1>6. CASE CloudCall(c)
  <2>1. /\ cloudCalls' = [cloudCalls EXCEPT ![c] = [cloudCalls[c] EXCEPT !.pc = "loaded"]]
        /\ UNCHANGED credsCache
    BY <1>6, CloudFacts DEF CloudCall
  <2>2. LET x == [cloudCalls[c] EXCEPT !.pc = "loaded"]
        IN  x \in CloudCallStates /\ x.pc = "loaded"
    BY <1>2 DEF CloudCallStates
  <2> QED
    BY <1>5, <2>1, <2>2
<1>7. CASE LookUpCreds(c) /\ credsCache = NoCreds
  <2>1. /\ cloudCalls' = [cloudCalls EXCEPT ![c] = [cloudCalls[c] EXCEPT !.pc = "resolve"]]
        /\ UNCHANGED credsCache
    BY <1>7, CloudFacts DEF LookUpCreds
  <2>2. LET x == [cloudCalls[c] EXCEPT !.pc = "resolve"]
        IN  x \in CloudCallStates /\ x.pc = "resolve"
    BY <1>2 DEF CloudCallStates
  <2> QED
    BY <1>5, <2>1, <2>2
<1>8. CASE LookUpCreds(c) /\ credsCache # NoCreds
  <2> DEFINE x == [cloudCalls[c] EXCEPT !.pc = "sent", !.of = credsCache.of,
                                        !.left = credsCache.left]
  <2>1. cloudCalls' = [cloudCalls EXCEPT ![c] = x] /\ UNCHANGED credsCache
    BY <1>8, CloudFacts DEF LookUpCreds
  <2>2. credsCache.of \in 0 .. MaxConfig /\ credsCache.left \in 0 .. Life
        /\ credsCache.ttl \in Nat /\ credsCache.left \in Nat
    BY CloudFacts, CloudNumbers
  <2>3. x \in CloudCallStates /\ x.pc = "sent" /\ x.of = credsCache.of
        /\ x.left = credsCache.left
    BY <1>2, <2>2 DEF CloudCallStates
  <2> HIDE DEF x
  <2>4. /\ credsCache.of \in Configs /\ credsCache.ttl > 0 /\ credsCache.ttl <= credsCache.left
        /\ goneFor[credsCache.of] + credsCache.ttl <= LongestUse
        /\ goneFor[credsCache.of] \in Nat
    BY <1>2, <1>8, CloudFacts DEF CacheFresh
  <2>5. cloudCalls'[c] = x
    BY <2>1, <2>3, CallMoves
  <2>6. credsCache.left > 0 /\ goneFor[credsCache.of] < LongestUse
    BY <2>2, <2>4, CloudNumbers
  <2>7. Fresh(c)'
    BY <1>1, <2>3, <2>4, <2>5, <2>6 DEF Fresh
  <2> QED
    BY <1>3, <1>4, <2>1, <2>3, <2>7
<1>9. CASE Resolve(c) /\ isConnected
  <2> DEFINE x == [cloudCalls[c] EXCEPT !.pc = "exchange", !.of = config]
  <2>1. cloudCalls' = [cloudCalls EXCEPT ![c] = x] /\ UNCHANGED credsCache
    BY <1>9, CloudFacts DEF Resolve
  <2>2. config \in Configs /\ config \in 0 .. MaxConfig
    BY CloudFacts, CloudNumbers
  <2>3. x \in CloudCallStates /\ x.pc = "exchange" /\ x.of = config
    BY <1>2, <2>2 DEF CloudCallStates
  <2> HIDE DEF x
  <2>4. x.waited \in Nat
    BY <2>3, CloudNumbers DEF CloudCallStates
  <2>5. cloudCalls'[c] = x
    BY <2>1, <2>3, CallMoves
  <2>6. goneFor[config] = 0
    BY <1>2, <1>9, <2>2, CloudFacts DEF NotGone, IsGone
  <2>7. Fresh(c)'
    BY <1>1, <2>2, <2>3, <2>4, <2>5, <2>6 DEF Fresh
  <2> QED
    BY <1>3, <1>4, <2>1, <2>3, <2>7
<1>10. CASE CallEnds(c) /\ UNCHANGED credsCache
  BY <1>5, <1>10, CloudRecords DEF CallEnds
<1>11. CASE SessionCreds(c)
  <2> DEFINE x == [cloudCalls[c] EXCEPT !.pc = "sent", !.left = Life, !.waited = 0]
  <2>1. cloudCalls' = [cloudCalls EXCEPT ![c] = x] /\ cloudCalls[c].pc = "exchange"
    BY <1>11, CloudFacts DEF SessionCreds
  <2>2. x \in CloudCallStates /\ x.pc = "sent" /\ x.of = cloudCalls[c].of /\ x.left = Life
    BY <1>2, CloudNumbers DEF CloudCallStates
  <2> HIDE DEF x
  <2>3. /\ cloudCalls[c].of \in Configs
        /\ goneFor[cloudCalls[c].of] <= ExchangeTime /\ goneFor[cloudCalls[c].of] \in Nat
    <3>1. cloudCalls[c].waited \in 0 .. ExchangeTime
      BY <1>2 DEF CloudCallStates
    <3>2. cloudCalls[c].of \in Configs /\ goneFor[cloudCalls[c].of] <= cloudCalls[c].waited
      BY <1>2, <2>1 DEF Fresh
    <3>3. goneFor[cloudCalls[c].of] \in Nat
      BY <3>2, CloudFacts
    <3> QED
      BY <3>1, <3>2, <3>3, CloudNumbers
  <2>4. cloudCalls'[c] = x
    BY <2>1, <2>2, CallMoves
  <2>5. Fresh(c)'
    BY <1>1, <2>2, <2>3, <2>4, CloudNumbers DEF Fresh
  <2>6. CASE credsCache' = credsCache
    BY <1>3, <1>4, <2>1, <2>2, <2>5, <2>6
  <2>7. CASE /\ credsCache' \in [of : 0 .. MaxConfig, left : 0 .. Life, ttl : 0 .. Life]
             /\ credsCache'.of = cloudCalls[c].of /\ credsCache'.left = Life
             /\ credsCache'.ttl > 0 /\ credsCache'.ttl <= Life /\ credsCache'.ttl <= CredsCap
    <3>1. credsCache'.ttl \in Nat
      BY <2>7, CloudNumbers
    <3>2. CacheFresh'
      BY <1>1, <2>3, <2>7, <3>1, CloudNumbers DEF CacheFresh
    <3> QED
      BY <1>3, <2>1, <2>2, <2>5, <2>7, <3>2
  <2> QED
    BY <1>11, <2>3, <2>6, <2>7, CachedCreds
<1> QED
  BY <1>6, <1>7, <1>8, <1>9, <1>10, <1>11
  DEF CloudCall, LookUpCreds, Resolve, SessionCreds, ExchangeRejected, CloudAnswers

LEMMA CloudRowStep ==
    ASSUME CloudTypeOK, CredsFresh,
           UpdateConfig \/ CloudDisconnect \/ CredsDropped \/ CloudRestarts
    PROVE  CloudTypeOK' /\ CredsFresh'
<1>1. /\ config' \in Configs /\ isConnected' \in BOOLEAN /\ UNCHANGED goneFor
      /\ dropsCreds' \in BOOLEAN /\ UNCHANGED status /\ misses' \in 0 .. 1
  <2>1. config' \in Configs
    BY CloudFacts, CloudNumbers
    DEF UpdateConfig, CloudDisconnect, CredsDropped, CloudRestarts, Configs
  <2>2. misses' \in 0 .. 1
    BY CloudFacts DEF UpdateConfig, CloudDisconnect, CredsDropped, CloudRestarts
  <2> QED
    BY <2>1, <2>2, CloudFacts DEF UpdateConfig, CloudDisconnect, CredsDropped, CloudRestarts
<1>2. credsCache' \in {credsCache, NoCreds}
  BY DEF UpdateConfig, CloudDisconnect, CredsDropped, CloudRestarts
<1>3. /\ cloudCalls' \in [CloudCalls -> CloudCallStates]
      /\ \A c \in CloudCalls : cloudCalls'[c] = cloudCalls[c] \/ cloudCalls'[c].pc = "idle"
  BY CloudFacts, CloudRecords DEF UpdateConfig, CloudDisconnect, CredsDropped, CloudRestarts
<1>4. probes' \in [Probes -> ProbeStates]
  BY CloudFacts, CloudRecords DEF UpdateConfig, CloudDisconnect, CredsDropped, CloudRestarts
<1>5. CloudTypeOK'
  BY <1>1, <1>2, <1>3, <1>4, CloudFacts, CloudRecords DEF CloudTypeOK
<1>6. \A e \in Configs : IsGone(e) => IsGone(e)'
  BY CloudFacts DEF UpdateConfig, CloudDisconnect, CredsDropped, CloudRestarts, IsGone, Configs
<1>7. NotGone'
  BY <1>1, <1>6 DEF CredsFresh, NotGone
<1>8. CacheFresh' /\ \A c \in CloudCalls : Fresh(c)'
  BY <1>1, <1>2, <1>3 DEF CredsFresh, CacheFresh, Fresh
<1> QED
  BY <1>5, <1>7, <1>8 DEF CredsFresh

(* The probes leave the credentials alone.                                  *)
ProbeActs ==
    \/ \E p \in Probes :
          ProbeReads(p) \/ ProbeSucceeds(p) \/ ProbeBlips(p) \/ ProbeRejected(p)
          \/ ProbeWrites(p)
    \/ \E result \in {"verified", "broken"} : RecordVerify(result)

LEMMA OvertakenTyped ==
    ASSUME NEW x \in ProbeStates, NEW flag \in BOOLEAN
    PROVE  LET y == [x EXCEPT !.overtaken = flag]
           IN  /\ y \in ProbeStates /\ y.overtaken = flag
               /\ y.pc = x.pc /\ y.seen = x.seen /\ y.result = x.result
  BY DEF ProbeStates

LEMMA ProbeTyped ==
    ASSUME CloudTypeOK, ProbeActs
    PROVE  probes' \in [Probes -> ProbeStates] /\ status' \in Statuses /\ misses' \in 0 .. 1
<1>1. ASSUME NEW p \in Probes, ProbeReads(p)
      PROVE  probes' \in [Probes -> ProbeStates] /\ status' \in Statuses /\ misses' \in 0 .. 1
  <2>1. [NoProbe EXCEPT !.pc = "probing", !.seen = status] \in ProbeStates
    BY CloudFacts, CloudRecords DEF ProbeStates
  <2> QED
    BY <1>1, <2>1, CloudFacts DEF ProbeReads
<1>2. ASSUME NEW p \in Probes, NEW result \in {"verified", "broken", "transient"},
             NEW n \in 0 .. 1, ProbeEnds(p, result, n)
      PROVE  probes' \in [Probes -> ProbeStates] /\ status' \in Statuses /\ misses' \in 0 .. 1
  <2>1. [probes[p] EXCEPT !.pc = "write", !.result = result] \in ProbeStates
    BY CloudFacts DEF ProbeStates, Statuses
  <2>2. probes' = [probes EXCEPT ![p] = [probes[p] EXCEPT !.pc = "write", !.result = result]]
    BY <1>2, CloudFacts DEF ProbeEnds
  <2> QED
    BY <1>2, <2>1, <2>2, CloudFacts DEF ProbeEnds
<1>3. ASSUME NEW p \in Probes, ProbeWrites(p)
      PROVE  probes' \in [Probes -> ProbeStates] /\ status' \in Statuses /\ misses' \in 0 .. 1
  <2>1. StatusAfter(p) \in Statuses
    <3>1. probes[p] \in ProbeStates
      BY CloudFacts
    <3> QED
      BY <3>1 DEF StatusAfter, ProbeStates, Statuses
  <2>2. \A r \in Probes : [probes[r] EXCEPT !.overtaken = probes[r].pc # "idle"] \in ProbeStates
    BY CloudFacts, OvertakenTyped
  <2> QED
    BY <1>3, <2>1, <2>2, CloudFacts, CloudRecords DEF ProbeWrites
<1>4. ASSUME NEW result \in {"verified", "broken"}, RecordVerify(result)
      PROVE  probes' \in [Probes -> ProbeStates] /\ status' \in Statuses /\ misses' \in 0 .. 1
  <2>1. \A r \in Probes : [probes[r] EXCEPT !.overtaken = probes[r].pc # "idle"] \in ProbeStates
    BY CloudFacts, OvertakenTyped
  <2> QED
    BY <1>4, <2>1, CloudFacts DEF RecordVerify, Statuses
<1>5. ASSUME NEW p \in Probes, ProbeSucceeds(p) \/ ProbeBlips(p) \/ ProbeRejected(p)
      PROVE  \E result \in {"verified", "broken", "transient"}, n \in 0 .. 1 :
                 ProbeEnds(p, result, n)
  <2>1. misses \in 0 .. 1 /\ 0 \in 0 .. 1 /\ 1 \in 0 .. 1
    BY CloudFacts
  <2> QED
    BY <1>5, <2>1 DEF ProbeSucceeds, ProbeBlips, ProbeRejected
<1> QED
  BY <1>1, <1>2, <1>3, <1>4, <1>5 DEF ProbeActs

LEMMA ProbesStep ==
    ASSUME CloudTypeOK, CredsFresh, ProbeActs
    PROVE  CloudTypeOK' /\ CredsFresh'
<1>1. UNCHANGED <<config, isConnected, goneFor, dropsCreds, credsCache, cloudCalls>>
  BY DEF ProbeActs, ProbeReads, ProbeSucceeds, ProbeBlips, ProbeRejected, ProbeEnds,
         ProbeWrites, RecordVerify
<1>2. CloudTypeOK'
  BY <1>1, ProbeTyped DEF CloudTypeOK
<1> QED
  BY <1>1, <1>2 DEF CredsFresh, NotGone, CacheFresh, Fresh, IsGone

LEMMA CloudStep ==
    ASSUME CloudTypeOK, CredsFresh, [CloudNext]_cloudVars
    PROVE  CloudTypeOK' /\ CredsFresh'
<1>1. CASE UNCHANGED cloudVars
  BY <1>1 DEF cloudVars, CloudTypeOK, CredsFresh, NotGone, CacheFresh, Fresh, IsGone
<1>2. CASE CredsNext
  BY <1>2, CloudTickStep, CloudRowStep, CloudCallStep DEF CredsNext
<1>3. CASE ProbesNext
  BY <1>3, CloudRowStep, ProbesStep DEF ProbesNext, ProbeActs
<1> QED
  BY <1>1, <1>2, <1>3 DEF CloudNext

LEMMA CloudInitially ==
    ASSUME CloudInit
    PROVE  CloudTypeOK /\ CredsFresh
<1>1. CloudTypeOK
  <2>1. goneFor \in [Configs -> 0 .. LongestUse] /\ config \in Configs
    BY CloudNumbers DEF CloudInit
  <2>2. /\ cloudCalls \in [CloudCalls -> CloudCallStates]
        /\ probes \in [Probes -> ProbeStates]
        /\ credsCache \in [of : 0 .. MaxConfig, left : 0 .. Life, ttl : 0 .. Life]
    BY CloudRecords DEF CloudInit
  <2>3. isConnected \in BOOLEAN /\ dropsCreds \in BOOLEAN
    BY DEF CloudInit
  <2>4. status \in Statuses /\ misses \in 0 .. 1
    BY DEF CloudInit, Statuses
  <2> QED
    BY <2>1, <2>2, <2>3, <2>4 DEF CloudTypeOK
<1>2. CredsFresh
  BY CloudRecords DEF CloudInit, CredsFresh, NotGone, CacheFresh, Fresh
<1> QED
  BY <1>1, <1>2

(* The row, the cache, the calls and the probes keep their types, for any    *)
(* number of calls, probes and configurations and any times.                 *)
THEOREM CloudTypeCorrect == CloudSpec => []CloudTypeOK
  BY CloudInitially, CloudStep, PTL DEF CloudSpec

(* No call is sent with credentials that have expired, nor with those of a   *)
(* configuration that was replaced or disconnected as long ago as an         *)
(* exchange and the cache's cap, for any times of the cloud and the cache.    *)
THEOREM OldCreds == CloudSpec => []OldCredsNotUsed
<1>1. CredsFresh => OldCredsNotUsed
  BY DEF CredsFresh, Fresh, OldCredsNotUsed
<1> QED
  BY <1>1, CloudInitially, CloudStep, PTL DEF CloudSpec

-----------------------------------------------------------------------------
(* The status                                                               *)

LEMMA SeenByOne ==
    ASSUME SeenIsStatus, UNCHANGED status, NEW p \in Probes,
           \A r \in Probes \ {p} : probes'[r] = probes[r],
           probes'[p].pc = "idle" \/ probes'[p].overtaken \/ probes'[p].seen = status
    PROVE  SeenIsStatus'
  BY DEF SeenIsStatus

LEMMA SeenStep ==
    ASSUME CloudTypeOK, SeenIsStatus, [CloudNext]_cloudVars
    PROVE  SeenIsStatus'
<1>1. CASE UNCHANGED <<status, probes>>
  BY <1>1 DEF SeenIsStatus
<1>2. CASE CloudRestarts
  BY <1>2, CloudRecords DEF CloudRestarts, SeenIsStatus
<1>3. ASSUME NEW p \in Probes, ProbeReads(p)
      PROVE  SeenIsStatus'
  <2>1. /\ UNCHANGED status /\ \A r \in Probes \ {p} : probes'[r] = probes[r]
        /\ probes'[p] = [NoProbe EXCEPT !.pc = "probing", !.seen = status]
    BY <1>3, CloudFacts DEF ProbeReads
  <2>2. probes'[p].seen = status
    BY <2>1 DEF NoProbe
  <2> QED
    BY <2>1, <2>2, SeenByOne
<1>4. ASSUME NEW p \in Probes, ProbeSucceeds(p) \/ ProbeBlips(p) \/ ProbeRejected(p)
      PROVE  SeenIsStatus'
  <2>1. \E result : /\ probes[p].pc = "probing" /\ UNCHANGED status
                    /\ probes' = [probes EXCEPT ![p] =
                                     [probes[p] EXCEPT !.pc = "write", !.result = result]]
    BY <1>4, CloudFacts DEF ProbeSucceeds, ProbeBlips, ProbeRejected, ProbeEnds
  <2>2. /\ probes[p].pc = "probing" /\ UNCHANGED status
        /\ \A r \in Probes \ {p} : probes'[r] = probes[r]
        /\ probes'[p].seen = probes[p].seen /\ probes'[p].overtaken = probes[p].overtaken
    BY <2>1, CloudFacts DEF ProbeStates
  <2>3. probes[p].overtaken \/ probes[p].seen = status
    BY <2>2 DEF SeenIsStatus
  <2> QED
    BY <2>2, <2>3, SeenByOne
<1>5. ASSUME \A r \in Probes :
                \/ probes'[r] = NoProbe
                \/ probes'[r] = [probes[r] EXCEPT !.overtaken = probes[r].pc # "idle"]
      PROVE  SeenIsStatus'
  <2>1. ASSUME NEW r \in Probes, probes'[r].pc # "idle"
        PROVE  probes'[r].overtaken
    <3>1. probes'[r] = [probes[r] EXCEPT !.overtaken = probes[r].pc # "idle"]
      BY <1>5, <2>1, CloudRecords
    <3>2. probes[r] \in ProbeStates
      BY CloudFacts
    <3> QED
      BY <2>1, <3>1, <3>2, OvertakenTyped
  <2> QED
    BY <2>1 DEF SeenIsStatus
<1>6. ASSUME \/ \E p \in Probes : ProbeWrites(p)
             \/ \E result \in {"verified", "broken"} : RecordVerify(result)
      PROVE  SeenIsStatus'
  BY <1>5, <1>6 DEF ProbeWrites, RecordVerify
<1>7. CASE CredsNext
  BY <1>1, <1>2, <1>7
  DEF CredsNext, CloudTick, UpdateConfig, CloudDisconnect, CredsDropped, CloudCall, LookUpCreds,
      Resolve, SessionCreds, ExchangeRejected, CloudAnswers
<1>8. CASE ProbesNext
  BY <1>1, <1>2, <1>3, <1>4, <1>6, <1>8
  DEF ProbesNext, UpdateConfig, CloudDisconnect, CredsDropped
<1>9. CASE UNCHANGED cloudVars
  BY <1>1, <1>9 DEF cloudVars
<1> QED
  BY <1>7, <1>8, <1>9 DEF CloudNext

(* A probe that fails in a way that may pass leaves the status alone, unless *)
(* it was written since the probe read it, for any number of probes.         *)
THEOREM BlipKeeps == CloudSpec => BlipKeepsStatus
<1>1. ASSUME CloudTypeOK, SeenIsStatus, [CloudNext]_cloudVars, NEW p \in Probes,
             probes[p].pc = "write", probes[p].result = "transient",
             probes'[p].pc = "idle", status' # status
      PROVE  probes[p].overtaken
  <2>1. \/ \E r \in Probes : ProbeWrites(r)
        \/ \E result \in {"verified", "broken"} : RecordVerify(result)
    BY <1>1 DEF CloudNext, CredsNext, ProbesNext, cloudVars, CloudTick, UpdateConfig,
         CloudDisconnect, CredsDropped, CloudCall, LookUpCreds, Resolve, SessionCreds,
         ExchangeRejected, CloudAnswers, CloudRestarts, ProbeReads, ProbeSucceeds, ProbeBlips,
         ProbeRejected, ProbeEnds
  <2>2. ASSUME probes'[p] = [probes[p] EXCEPT !.overtaken = probes[p].pc # "idle"]
        PROVE  FALSE
    <3>1. probes[p] \in ProbeStates
      BY <1>1, CloudFacts
    <3> QED
      BY <1>1, <2>2, <3>1 DEF ProbeStates
  <2>3. ProbeWrites(p)
    BY <2>1, <2>2 DEF ProbeWrites, RecordVerify
  <2>4. status' = status \/ status' = probes[p].seen
    BY <1>1, <2>3 DEF ProbeWrites, StatusAfter
  <2>5. probes[p].overtaken \/ probes[p].seen = status
    BY <1>1 DEF SeenIsStatus
  <2> QED
    BY <1>1, <2>4, <2>5
<1>2. ASSUME CloudTypeOK, SeenIsStatus, [CloudNext]_cloudVars
      PROVE  [\A p \in Probes :
                 (probes[p].pc = "write" /\ probes[p].result = "transient"
                     /\ probes'[p].pc = "idle" /\ status' # status)
                 => probes[p].overtaken]_cloudVars
  BY <1>1, <1>2
<1>3. CloudInit => SeenIsStatus
  BY CloudRecords DEF CloudInit, SeenIsStatus
<1> QED
  BY <1>2, <1>3, CloudInitially, CloudStep, SeenStep, PTL DEF CloudSpec, BlipKeepsStatus

-----------------------------------------------------------------------------
(* PolicyCache                                                              *)

LEMMA PolicyNumbers ==
    /\ MaxEdition \in Nat /\ MaxEdition > 0 /\ MaxFetches \in Nat /\ MaxFetches > 0
    /\ RefreshEvery \in Nat /\ RefreshEvery > 0 /\ FetchTime \in Nat /\ FetchTime > 0
    /\ Debounce \in Nat /\ Off \notin Int
    /\ LongestStale = RefreshEvery + 2 * FetchTime /\ LongestStale \in Nat
    /\ VeryOld = LongestStale + 1 /\ VeryOld \in Nat
  BY PolicyTimingAssumption DEF LongestStale, VeryOld

LEMMA BundleFetchRecords ==
    /\ NoBundleFetch \in BundleFetches /\ NoBundleFetch.pc = "none"
    /\ \A flag \in BOOLEAN :
          LET x == [pc |-> "sent", got |-> 0, atBoot |-> flag, age |-> 0]
          IN  x \in BundleFetches /\ x.pc = "sent" /\ x.age = 0 /\ x.atBoot = flag
  BY PolicyNumbers DEF NoBundleFetch, BundleFetches

(* Each push was announced by a change.                                     *)
PostsPaid == posts + (IF pushIn = Off THEN 0 ELSE 1) <= edition - 1

PolicyTyped == PolicyTypeOK /\ PostsPaid

LEMMA PolicyFacts ==
    ASSUME PolicyTyped
    PROVE  /\ edition \in Editions /\ edition \in Nat /\ edition <= MaxEdition /\ edition >= 1
           /\ changeAge \in [Editions -> 0 .. VeryOld]
           /\ pushIn \in (0 .. Debounce) \cup {Off}
           /\ posts \in 0 .. MaxEdition /\ posts \in Nat
           /\ pdpMode \in {"down", "warming", "listening"}
           /\ isKnown \in BOOLEAN /\ held \in 0 .. MaxEdition /\ held \in Nat
           /\ fetches \in [Fetching -> BundleFetches]
           /\ refreshIn \in 0 .. RefreshEvery /\ refreshIn \in Nat
           /\ fallible \in BOOLEAN
           /\ \A v \in Editions : changeAge[v] \in Nat /\ changeAge[v] <= VeryOld
           /\ \A f \in Fetching : fetches[f] \in BundleFetches
  BY PolicyNumbers DEF PolicyTyped, PolicyTypeOK, Editions

(* A step that starts, ends or serves one fetch, or all, leaves the others.  *)
LEMMA FetchMoves ==
    ASSUME PolicyTyped, NEW flag \in BOOLEAN, Fetch(flag)
    PROVE  /\ fetches' \in [Fetching -> BundleFetches]
           /\ \E f \in Fetching :
                 /\ fetches[f].pc = "none"
                 /\ fetches'[f].pc = "sent" /\ fetches'[f].age = 0 /\ fetches'[f].atBoot = flag
                 /\ \A g \in Fetching \ {f} : fetches'[g] = fetches[g]
<1>1. PICK f \in Fetching \ Underway :
         fetches' = [fetches EXCEPT ![f] =
               [pc |-> "sent", got |-> 0, atBoot |-> flag, age |-> 0]]
  BY DEF Fetch
<1> DEFINE x == [pc |-> "sent", got |-> 0, atBoot |-> flag, age |-> 0]
<1>2. x \in BundleFetches /\ x.pc = "sent" /\ x.age = 0 /\ x.atBoot = flag
  BY BundleFetchRecords
<1>3. fetches' = [fetches EXCEPT ![f] = x]
  BY <1>1
<1> HIDE DEF x
<1>4. fetches[f].pc = "none"
  BY <1>1 DEF Underway
<1> QED
  BY <1>2, <1>3, <1>4, PolicyFacts

LEMMA ServeMoves ==
    ASSUME PolicyTyped, NEW f \in Fetching, ServeBundle(f)
    PROVE  /\ fetches' \in [Fetching -> BundleFetches]
           /\ fetches'[f].pc = "read" /\ fetches'[f].got = edition
           /\ fetches'[f].age = fetches[f].age /\ fetches'[f].atBoot = fetches[f].atBoot
           /\ \A g \in Fetching \ {f} : fetches'[g] = fetches[g]
<1> DEFINE x == [fetches[f] EXCEPT !.pc = "read", !.got = edition]
<1>1. fetches' = [fetches EXCEPT ![f] = x]
  BY PolicyFacts DEF ServeBundle
<1>2. edition \in 0 .. MaxEdition
  BY PolicyFacts
<1>3. /\ x \in BundleFetches /\ x.pc = "read" /\ x.got = edition
      /\ x.age = fetches[f].age /\ x.atBoot = fetches[f].atBoot
  BY <1>2, PolicyFacts DEF BundleFetches
<1> HIDE DEF x
<1> QED
  BY <1>1, <1>3, PolicyFacts

LEMMA TickMoves ==
    ASSUME PolicyTyped, PolicyTick
    PROVE  /\ fetches' \in [Fetching -> BundleFetches]
           /\ \A f \in Fetching :
                 /\ fetches'[f].pc = fetches[f].pc /\ fetches'[f].got = fetches[f].got
                 /\ fetches'[f].atBoot = fetches[f].atBoot
                 /\ fetches[f].pc # "none" => fetches'[f].age = fetches[f].age + 1
           /\ changeAge' \in [Editions -> 0 .. VeryOld]
           /\ \A v \in Editions : /\ v > edition => changeAge'[v] = changeAge[v]
                                  /\ changeAge'[v] <= changeAge[v] + 1
           /\ pdpMode # "down" => refreshIn' = refreshIn - 1
           /\ refreshIn' \in 0 .. RefreshEvery
           /\ pushIn' \in (0 .. Debounce) \cup {Off} /\ ((pushIn' = Off) <=> (pushIn = Off))
<1>1. ASSUME NEW f \in Fetching
      PROVE  /\ fetches'[f] \in BundleFetches
             /\ fetches'[f].pc = fetches[f].pc /\ fetches'[f].got = fetches[f].got
             /\ fetches'[f].atBoot = fetches[f].atBoot
             /\ fetches[f].pc # "none" => fetches'[f].age = fetches[f].age + 1
  <2>1. fetches[f] \in BundleFetches
    BY PolicyFacts
  <2>2. CASE fetches[f].pc = "none"
    BY <2>1, <2>2 DEF PolicyTick, Underway
  <2>3. CASE fetches[f].pc # "none"
    <3>1. /\ fetches'[f] = [fetches[f] EXCEPT !.age = @ + 1]
          /\ fetches[f].age # FetchTime
      BY <2>3 DEF PolicyTick, PolicyDue, Underway
    <3>2. fetches[f].age + 1 \in 0 .. FetchTime
      BY <2>1, <3>1, PolicyNumbers DEF BundleFetches
    <3> QED
      BY <2>1, <3>1, <3>2 DEF BundleFetches
  <2> QED
    BY <2>2, <2>3
<1>2. fetches' \in [Fetching -> BundleFetches]
  <2>1. fetches' = [f \in Fetching |-> fetches'[f]]
    BY DEF PolicyTick
  <2> QED
    BY <1>1, <2>1
<1>3. /\ changeAge' \in [Editions -> 0 .. VeryOld]
      /\ \A v \in Editions : /\ v > edition => changeAge'[v] = changeAge[v]
                             /\ changeAge'[v] <= changeAge[v] + 1
  <2>1. changeAge' = [v \in Editions |->
                        IF v <= edition /\ changeAge[v] < VeryOld
                        THEN changeAge[v] + 1 ELSE changeAge[v]]
    BY DEF PolicyTick
  <2>2. \A v \in Editions : v \in Int /\ changeAge[v] \in Nat /\ changeAge[v] <= VeryOld
    BY PolicyFacts, PolicyNumbers DEF Editions
  <2>3. ASSUME NEW v \in Editions
        PROVE  /\ changeAge'[v] \in 0 .. VeryOld
               /\ v > edition => changeAge'[v] = changeAge[v]
               /\ changeAge'[v] <= changeAge[v] + 1
    <3>1. v \in Int /\ changeAge[v] \in Nat /\ changeAge[v] <= VeryOld /\ edition \in Nat
      BY <2>2, PolicyFacts
    <3>2. changeAge'[v] = IF v <= edition /\ changeAge[v] < VeryOld
                          THEN changeAge[v] + 1 ELSE changeAge[v]
      BY <2>1
    <3> QED
      BY <3>1, <3>2, PolicyNumbers
  <2>4. changeAge' = [v \in Editions |-> changeAge'[v]]
    BY <2>1
  <2> QED
    BY <2>3, <2>4
<1>4. /\ pdpMode # "down" => refreshIn' = refreshIn - 1
      /\ refreshIn' \in 0 .. RefreshEvery
  BY PolicyFacts, PolicyNumbers DEF PolicyTick, PolicyDue
<1>5. pushIn' \in (0 .. Debounce) \cup {Off} /\ ((pushIn' = Off) <=> (pushIn = Off))
  BY PolicyFacts, PolicyNumbers DEF PolicyTick, PolicyDue
<1> QED
  BY <1>1, <1>2, <1>3, <1>4, <1>5

LEMMA PolicyTypeStep ==
    ASSUME PolicyTyped, [PolicyNext]_policyVars
    PROVE  PolicyTyped'
<1>1. CASE UNCHANGED policyVars
  BY <1>1 DEF policyVars, PolicyTyped, PolicyTypeOK, PostsPaid
<1>2. CASE PolicyTick
  <2>1. UNCHANGED <<edition, posts, pdpMode, isKnown, held, fallible>>
    BY <1>2 DEF PolicyTick
  <2>2. PostsPaid'
    BY <1>2, <2>1, TickMoves DEF PolicyTyped, PostsPaid
  <2>3. /\ changeAge' \in [Editions -> 0 .. VeryOld] /\ fetches' \in [Fetching -> BundleFetches]
        /\ refreshIn' \in 0 .. RefreshEvery /\ pushIn' \in (0 .. Debounce) \cup {Off}
    BY <1>2, TickMoves
  <2>4. PolicyTypeOK'
    BY <2>1, <2>3 DEF PolicyTypeOK, PolicyTyped, Editions
  <2> QED
    BY <2>2, <2>4 DEF PolicyTyped
<1>3. ASSUME NEW announced \in BOOLEAN, Change(announced)
      PROVE  PolicyTyped'
  <2>1. edition' \in Editions /\ pushIn' \in (0 .. Debounce) \cup {Off}
    BY <1>3, PolicyFacts, PolicyNumbers DEF Change, Editions
  <2>2. PostsPaid'
    BY <1>3, PolicyFacts, PolicyNumbers DEF Change, PolicyTyped, PostsPaid
  <2> QED
    BY <1>3, <2>1, <2>2, PolicyFacts DEF Change, PolicyTyped, PolicyTypeOK
<1>4. CASE PushFires \/ PushForgotten \/ PushLost
  <2>1. posts' \in 0 .. MaxEdition /\ pushIn' \in (0 .. Debounce) \cup {Off} /\ PostsPaid'
    BY <1>4, PolicyFacts, PolicyNumbers
    DEF PushFires, PushForgotten, PushLost, PolicyTyped, PostsPaid
  <2> QED
    BY <1>4, <2>1, PolicyFacts DEF PushFires, PushForgotten, PushLost, PolicyTyped, PolicyTypeOK
<1>5. CASE PdpBoots
  <2>1. PICK found \in BOOLEAN :
           /\ isKnown' = found
           /\ pdpMode' = IF found THEN "warming" ELSE "listening"
           /\ IF found THEN Fetch(TRUE) ELSE UNCHANGED fetches
    BY <1>5 DEF PdpBoots
  <2>2. fetches' \in [Fetching -> BundleFetches]
    <3>1. CASE Fetch(TRUE)
      BY <3>1, FetchMoves
    <3>2. CASE UNCHANGED fetches
      BY <3>2, PolicyFacts
    <3> QED
      BY <2>1, <3>1, <3>2
  <2>3. refreshIn' \in 0 .. RefreshEvery
    BY <1>5, PolicyNumbers DEF PdpBoots
  <2>4. isKnown' \in BOOLEAN /\ pdpMode' \in {"down", "warming", "listening"}
    BY <2>1
  <2> QED
    BY <1>5, <2>2, <2>3, <2>4 DEF PdpBoots, PolicyTyped, PolicyTypeOK, PostsPaid, Editions
<1>6. CASE PdpCrashes \/ Discovered
  <2>1. fetches' \in [Fetching -> BundleFetches]
    BY <1>6, BundleFetchRecords, PolicyFacts DEF PdpCrashes, Discovered
  <2>2. held' \in 0 .. MaxEdition
    BY <1>6, PolicyFacts, PolicyNumbers DEF PdpCrashes, Discovered
  <2>3. isKnown' \in BOOLEAN
    BY <1>6, PolicyFacts, Zenon DEF PdpCrashes, Discovered
  <2>4. pdpMode' \in {"down", "warming", "listening"}
    BY <1>6, PolicyFacts DEF PdpCrashes, Discovered
  <2> QED
    BY <1>6, <2>1, <2>2, <2>3, <2>4
    DEF PdpCrashes, Discovered, PolicyTyped, PolicyTypeOK, PostsPaid, Editions
<1>7. CASE RefreshFires \/ PostArrives \/ LazyFetch
  <2>1. fetches' \in [Fetching -> BundleFetches]
    <3>1. Fetch(FALSE) \/ UNCHANGED fetches
      BY <1>7 DEF RefreshFires, PostArrives, LazyFetch
    <3>2. CASE Fetch(FALSE)
      BY <3>2, FetchMoves
    <3>3. CASE UNCHANGED fetches
      BY <3>3, PolicyFacts
    <3> QED
      BY <3>1, <3>2, <3>3
  <2>2. posts' \in 0 .. MaxEdition /\ posts' <= posts /\ refreshIn' \in 0 .. RefreshEvery
    <3>1. posts' = posts \/ (posts > 0 /\ posts' = posts - 1)
      BY <1>7 DEF RefreshFires, PostArrives, LazyFetch
    <3>2. refreshIn' = refreshIn \/ refreshIn' = RefreshEvery
      BY <1>7 DEF RefreshFires, PostArrives, LazyFetch
    <3>3. /\ posts \in 0 .. MaxEdition /\ refreshIn \in 0 .. RefreshEvery
          /\ RefreshEvery \in Nat /\ MaxEdition \in Nat
      BY PolicyFacts, PolicyNumbers
    <3> QED
      BY <3>1, <3>2, <3>3
  <2>3. edition' = edition /\ pushIn' = pushIn
    BY <1>7 DEF RefreshFires, PostArrives, LazyFetch
  <2>4. PostsPaid'
    BY <2>2, <2>3, PolicyFacts DEF PolicyTyped, PostsPaid
  <2> QED
    BY <1>7, <2>1, <2>2, <2>3, <2>4, PolicyFacts
    DEF RefreshFires, PostArrives, LazyFetch, PolicyTyped, PolicyTypeOK, Editions
<1>8. ASSUME NEW f \in Fetching, ServeBundle(f)
      PROVE  PolicyTyped'
  BY <1>8, ServeMoves, PolicyFacts DEF ServeBundle, PolicyTyped, PolicyTypeOK, PostsPaid
<1>9. ASSUME NEW f \in Fetching, FetchDone(f) \/ FetchFails(f)
      PROVE  PolicyTyped'
  <2>1. held' \in 0 .. MaxEdition
    BY <1>9, PolicyFacts DEF FetchDone, FetchFails, BundleFetches
  <2>2. /\ fetches' \in [Fetching -> BundleFetches]
        /\ pdpMode' \in {"down", "warming", "listening"}
    BY <1>9, BundleFetchRecords, PolicyFacts DEF FetchDone, FetchFails, Ended
  <2> QED
    BY <1>9, <2>1, <2>2, PolicyFacts
    DEF FetchDone, FetchFails, Ended, PolicyTyped, PolicyTypeOK, PostsPaid
<1> QED
  BY <1>1, <1>2, <1>3, <1>4, <1>5, <1>6, <1>7, <1>8, <1>9 DEF PolicyNext

LEMMA PolicyInitially ==
    ASSUME PolicyInit
    PROVE  PolicyTyped
<1>1. fetches \in [Fetching -> BundleFetches]
  BY BundleFetchRecords DEF PolicyInit
<1>2. changeAge \in [Editions -> 0 .. VeryOld] /\ edition \in Editions
  BY PolicyNumbers DEF PolicyInit, Editions
<1>3. refreshIn \in 0 .. RefreshEvery /\ posts \in 0 .. MaxEdition /\ held \in 0 .. MaxEdition
  BY PolicyNumbers DEF PolicyInit
<1>4. isKnown \in BOOLEAN /\ fallible \in BOOLEAN
  BY DEF PolicyInit
<1> QED
  BY <1>1, <1>2, <1>3, <1>4 DEF PolicyInit, PolicyTyped, PolicyTypeOK, PostsPaid

(* Editions, pushes, fetches and timers keep their types, for any number of  *)
(* changes and of fetches at once and any times.                             *)
THEOREM PolicyTypeCorrect == PolicySpec => []PolicyTypeOK
<1>1. PolicyTyped => PolicyTypeOK
  BY DEF PolicyTyped
<1> QED
  BY <1>1, PolicyInitially, PolicyTypeStep, PTL DEF PolicySpec

(* A change the bundle does not hold is too young to be late: a change that   *)
(* an answer missed is younger than that answer, and one the bundle misses   *)
(* waits for a sweep that is near or for a fetch begun in time.              *)
Unborn == \A v \in Editions : v > edition => changeAge[v] = 0

AnswersYoung ==
    \A f \in Fetching, v \in Editions :
        v <= edition /\ fetches[f].pc = "read" /\ fetches[f].got < v =>
            changeAge[v] <= fetches[f].age

KnownUp ==
    /\ ~fallible /\ pdpMode # "down" => isKnown
    /\ pdpMode = "down" => \A f \in Fetching : fetches[f].pc = "none"

SweptSoon(v) == changeAge[v] + refreshIn <= FetchTime + RefreshEvery

BroughtBy(f, v) ==
    /\ fetches[f].pc = "sent" \/ (fetches[f].pc = "read" /\ fetches[f].got >= v)
    /\ changeAge[v] <= FetchTime + RefreshEvery + fetches[f].age

MissedAwhile ==
    ~fallible /\ pdpMode = "listening" =>
        \A v \in Editions : v <= edition /\ held < v =>
            SweptSoon(v) \/ \E f \in Fetching : BroughtBy(f, v)

FreshInv == Unborn /\ AnswersYoung /\ KnownUp /\ MissedAwhile

LEMMA FetchNumbers ==
    ASSUME PolicyTyped
    PROVE  \A f \in Fetching : /\ fetches[f].age \in Nat /\ fetches[f].age <= FetchTime
                               /\ fetches[f].got \in Nat
  BY PolicyFacts, PolicyNumbers DEF BundleFetches

(* What a step that starts a fetch or starts none leaves true.               *)
LEMMA FetchFresh ==
    ASSUME PolicyTyped, FreshInv, Fetch(FALSE) \/ UNCHANGED fetches,
           UNCHANGED <<edition, changeAge, held, fallible>>
    PROVE  /\ Unborn' /\ AnswersYoung'
           /\ \A f \in Fetching, v \in Editions : BroughtBy(f, v) => BroughtBy(f, v)'
<1>1. ASSUME NEW f \in Fetching
      PROVE  fetches[f].pc # "none" => fetches'[f] = fetches[f]
  BY FetchMoves
<1>2. ASSUME NEW f \in Fetching
      PROVE  fetches'[f].pc = "read" => fetches'[f] = fetches[f]
  BY FetchMoves
<1>3. Unborn'
  BY DEF FreshInv, Unborn
<1>4. AnswersYoung'
  BY <1>2 DEF FreshInv, AnswersYoung
<1>5. ASSUME NEW f \in Fetching, NEW v \in Editions, BroughtBy(f, v)
      PROVE  BroughtBy(f, v)'
  BY <1>1, <1>5 DEF BroughtBy
<1> QED
  BY <1>3, <1>4, <1>5

LEMMA FreshStep ==
    ASSUME PolicyTyped, PolicyTyped', FreshInv, [PolicyNext]_policyVars
    PROVE  FreshInv'
<1>0. \A v \in Editions : v \in Nat
  BY DEF Editions
<1>1. CASE \/ UNCHANGED policyVars
           \/ PushFires \/ PushForgotten \/ PushLost \/ Discovered
  <2>1. UNCHANGED <<edition, changeAge, pdpMode, held, fetches, refreshIn, fallible>>
    BY <1>1 DEF policyVars, PushFires, PushForgotten, PushLost, Discovered
  <2>2. isKnown => isKnown'
    BY <1>1 DEF policyVars, PushFires, PushForgotten, PushLost, Discovered
  <2> QED
    BY <2>1, <2>2
    DEF FreshInv, Unborn, AnswersYoung, KnownUp, MissedAwhile, SweptSoon, BroughtBy
<1>2. CASE PolicyTick
  <2>1. UNCHANGED <<edition, pdpMode, isKnown, held, fallible>>
    BY <1>2 DEF PolicyTick
  <2>2. \A v \in Editions : /\ v > edition => changeAge'[v] = changeAge[v]
                            /\ changeAge'[v] <= changeAge[v] + 1
                            /\ changeAge[v] \in Nat /\ changeAge'[v] \in Nat
    BY <1>2, TickMoves, PolicyFacts
  <2>3. \A f \in Fetching :
           /\ fetches'[f].pc = fetches[f].pc /\ fetches'[f].got = fetches[f].got
           /\ fetches[f].pc # "none" => fetches'[f].age = fetches[f].age + 1
           /\ fetches[f].age \in Nat /\ fetches[f].got \in Nat
    BY <1>2, TickMoves, FetchNumbers
  <2>4. Unborn' /\ KnownUp'
    BY <2>1, <2>2, <2>3 DEF FreshInv, Unborn, KnownUp
  <2>5. AnswersYoung'
    BY <1>0, <2>1, <2>2, <2>3 DEF FreshInv, AnswersYoung
  <2>6. ASSUME ~fallible, pdpMode = "listening", NEW v \in Editions, v <= edition, held < v
        PROVE  SweptSoon(v)' \/ \E f \in Fetching : BroughtBy(f, v)'
    <3>1. CASE SweptSoon(v)
      <4>1. refreshIn' = refreshIn - 1 /\ refreshIn \in Nat
        BY <1>2, <2>6, TickMoves, PolicyFacts
      <4> QED
        BY <2>2, <3>1, <4>1, PolicyNumbers DEF SweptSoon
    <3>2. ASSUME NEW f \in Fetching, BroughtBy(f, v)
          PROVE  BroughtBy(f, v)'
      BY <2>2, <2>3, <3>2, PolicyNumbers DEF BroughtBy
    <3> QED
      BY <2>6, <3>1, <3>2 DEF FreshInv, MissedAwhile
  <2>7. MissedAwhile'
    BY <2>1, <2>6 DEF MissedAwhile
  <2> QED
    BY <2>4, <2>5, <2>7 DEF FreshInv
<1>3. ASSUME NEW announced \in BOOLEAN, Change(announced)
      PROVE  FreshInv'
  <2>1. edition' = edition + 1 /\ edition \in Nat
    BY <1>3, PolicyFacts DEF Change
  <2>2. UNCHANGED <<changeAge, pdpMode, isKnown, held, fetches, refreshIn, fallible>>
    BY <1>3 DEF Change
  <2>3. \A v \in Editions : v <= edition' => v <= edition \/ changeAge[v] = 0
    BY <1>0, <2>1 DEF FreshInv, Unborn
  <2>4. Unborn' /\ KnownUp'
    BY <1>0, <2>1, <2>2 DEF FreshInv, Unborn, KnownUp
  <2>5. AnswersYoung'
    BY <2>2, <2>3, FetchNumbers DEF FreshInv, AnswersYoung
  <2>6. MissedAwhile'
    <3>1. \A v \in Editions : changeAge[v] = 0 => SweptSoon(v)
      BY PolicyFacts, PolicyNumbers DEF SweptSoon
    <3> QED
      BY <2>2, <2>3, <3>1 DEF FreshInv, MissedAwhile, SweptSoon, BroughtBy
  <2> QED
    BY <2>4, <2>5, <2>6 DEF FreshInv
<1>4. CASE PdpBoots
  <2>1. UNCHANGED <<edition, changeAge, fallible>>
    BY <1>4 DEF PdpBoots
  <2>2. PICK found \in IF fallible THEN BOOLEAN ELSE {TRUE} :
           /\ isKnown' = found
           /\ pdpMode' = IF found THEN "warming" ELSE "listening"
           /\ IF found THEN Fetch(TRUE) ELSE UNCHANGED fetches
    BY <1>4 DEF PdpBoots
  <2>3. pdpMode' # "down" /\ (~fallible => (isKnown' /\ pdpMode' = "warming"))
    BY <2>2
  <2>4. \A f \in Fetching : fetches'[f].pc = "read" => fetches'[f] = fetches[f]
    <3>1. CASE Fetch(TRUE)
      BY <3>1, FetchMoves
    <3> QED
      BY <2>2, <3>1
  <2>5. AnswersYoung'
    BY <2>1, <2>4 DEF FreshInv, AnswersYoung
  <2> QED
    BY <2>1, <2>3, <2>5 DEF FreshInv, Unborn, KnownUp, MissedAwhile
<1>5. CASE PdpCrashes
  <2>1. UNCHANGED <<edition, changeAge, fallible>> /\ pdpMode' = "down"
    BY <1>5 DEF PdpCrashes
  <2>2. \A f \in Fetching : fetches'[f].pc = "none"
    BY <1>5, BundleFetchRecords DEF PdpCrashes
  <2> QED
    BY <2>1, <2>2 DEF FreshInv, Unborn, AnswersYoung, KnownUp, MissedAwhile
<1>6. CASE RefreshFires
  <2>1. UNCHANGED <<edition, changeAge, pdpMode, isKnown, held, fallible>>
    BY <1>6 DEF RefreshFires
  <2>2. Fetch(FALSE) \/ UNCHANGED fetches
    BY <1>6 DEF RefreshFires
  <2>3. Unborn' /\ AnswersYoung' /\ KnownUp'
    <3>1. pdpMode # "down"
      BY <1>6 DEF RefreshFires
    <3>2. KnownUp'
      BY <2>1, <3>1 DEF FreshInv, KnownUp
    <3> QED
      BY <2>1, <2>2, <3>2, FetchFresh
  <2>4. ASSUME ~fallible, pdpMode = "listening", NEW v \in Editions, v <= edition, held < v
        PROVE  \E f \in Fetching : BroughtBy(f, v)'
    <3>1. CASE SweptSoon(v)
      <4>1. isKnown
        BY <2>4 DEF FreshInv, KnownUp
      <4>2. PICK f \in Fetching : fetches'[f].pc = "sent" /\ fetches'[f].age = 0
        BY <1>6, <4>1, FetchMoves DEF RefreshFires
      <4>3. changeAge[v] \in Nat /\ changeAge[v] <= FetchTime + RefreshEvery
        BY <1>6, <3>1, PolicyFacts, PolicyNumbers DEF RefreshFires, SweptSoon
      <4>4. BroughtBy(f, v)'
        BY <2>1, <4>2, <4>3, PolicyNumbers DEF BroughtBy
      <4> QED
        BY <4>4
    <3>2. ASSUME NEW f \in Fetching, BroughtBy(f, v)
          PROVE  BroughtBy(f, v)'
      BY <2>1, <2>2, <3>2, FetchFresh
    <3> QED
      BY <2>4, <3>1, <3>2 DEF FreshInv, MissedAwhile
  <2>5. MissedAwhile'
    BY <2>1, <2>4 DEF MissedAwhile
  <2> QED
    BY <2>3, <2>5 DEF FreshInv
<1>7. CASE PostArrives \/ LazyFetch
  <2>1. UNCHANGED <<edition, changeAge, pdpMode, isKnown, held, refreshIn, fallible>>
    BY <1>7 DEF PostArrives, LazyFetch
  <2>2. Fetch(FALSE)
    BY <1>7 DEF PostArrives, LazyFetch
  <2>3. Unborn' /\ AnswersYoung' /\ KnownUp'
    BY <1>7, <2>1, <2>2, FetchFresh DEF FreshInv, KnownUp, PostArrives, LazyFetch
  <2>4. \A f \in Fetching, v \in Editions : BroughtBy(f, v) => BroughtBy(f, v)'
    BY <2>1, <2>2, FetchFresh
  <2>5. \A v \in Editions : SweptSoon(v) => SweptSoon(v)'
    BY <2>1 DEF SweptSoon
  <2>6. MissedAwhile'
    BY <2>1, <2>4, <2>5 DEF FreshInv, MissedAwhile
  <2> QED
    BY <2>3, <2>6 DEF FreshInv
<1>8. ASSUME NEW f \in Fetching, ServeBundle(f)
      PROVE  FreshInv'
  <2>1. UNCHANGED <<edition, changeAge, pdpMode, isKnown, held, refreshIn, fallible>>
    BY <1>8 DEF ServeBundle
  <2>2. /\ fetches'[f].pc = "read" /\ fetches'[f].got = edition
        /\ fetches'[f].age = fetches[f].age
        /\ \A g \in Fetching \ {f} : fetches'[g] = fetches[g]
    BY <1>8, ServeMoves
  <2>3. edition \in Nat
    BY PolicyFacts
  <2>4. AnswersYoung'
    BY <1>0, <2>1, <2>2, <2>3 DEF FreshInv, AnswersYoung
  <2>5. ASSUME NEW g \in Fetching, NEW v \in Editions, v <= edition, BroughtBy(g, v)
        PROVE  BroughtBy(g, v)'
    BY <1>0, <2>1, <2>2, <2>3, <2>5 DEF BroughtBy
  <2>6. \A v \in Editions : SweptSoon(v) => SweptSoon(v)'
    BY <2>1 DEF SweptSoon
  <2>7. MissedAwhile'
    BY <2>1, <2>5, <2>6 DEF FreshInv, MissedAwhile
  <2> QED
    BY <1>8, <2>1, <2>4, <2>7 DEF ServeBundle, FreshInv, Unborn, KnownUp
<1>9. ASSUME NEW f \in Fetching, FetchDone(f) \/ FetchFails(f)
      PROVE  FreshInv'
  <2>1. UNCHANGED <<edition, changeAge, isKnown, refreshIn, fallible>>
    BY <1>9 DEF FetchDone, FetchFails, Ended
  <2>2. /\ fetches'[f].pc = "none"
        /\ \A g \in Fetching \ {f} : fetches'[g] = fetches[g]
    BY <1>9, BundleFetchRecords, PolicyFacts DEF FetchDone, FetchFails, Ended
  <2>3. AnswersYoung'
    BY <2>1, <2>2 DEF FreshInv, AnswersYoung
  <2>4. KnownUp'
    <3>1. pdpMode # "down" /\ pdpMode' \in {pdpMode, "listening"}
      BY <1>9 DEF FreshInv, KnownUp, FetchDone, FetchFails, Ended, Underway
    <3> QED
      BY <2>1, <3>1 DEF FreshInv, KnownUp
  <2>5. ASSUME ~fallible, NEW v \in Editions, v <= edition, held' < v
        PROVE  SweptSoon(v)'
    <3>1. FetchDone(f)
      BY <1>9, <2>5 DEF FetchFails
    <3>2. fetches[f].pc = "read" /\ fetches[f].got < v
      BY <2>5, <3>1 DEF FetchDone
    <3>3. changeAge[v] <= fetches[f].age
      BY <2>5, <3>2 DEF FreshInv, AnswersYoung
    <3>4. /\ changeAge[v] \in Nat /\ fetches[f].age \in Nat /\ fetches[f].age <= FetchTime
          /\ refreshIn \in 0 .. RefreshEvery
      BY FetchNumbers, PolicyFacts
    <3> QED
      BY <2>1, <3>3, <3>4, PolicyNumbers DEF SweptSoon
  <2>6. MissedAwhile'
    BY <2>1, <2>5 DEF MissedAwhile
  <2> QED
    BY <2>1, <2>3, <2>4, <2>6 DEF FreshInv, Unborn
<1> QED
  BY <1>1, <1>2, <1>3, <1>4, <1>5, <1>6, <1>7, <1>8, <1>9 DEF PolicyNext

(* However long fetches take and however the pushes are timed, while nothing *)
(* fails a listening PDP misses no change for longer than a sweep and two    *)
(* fetches.                                                                  *)
THEOREM FreshAlways == PolicySpec => []FreshInTime
<1>1. PolicyInit => PolicyTyped /\ FreshInv
  <2>1. ASSUME PolicyInit
        PROVE  FreshInv
    BY <2>1, BundleFetchRecords DEF PolicyInit, FreshInv, Unborn, AnswersYoung, KnownUp, MissedAwhile
  <2> QED
    BY <2>1, PolicyInitially
<1>2. PolicyTyped /\ FreshInv /\ [PolicyNext]_policyVars => (PolicyTyped /\ FreshInv)'
  BY PolicyTypeStep, FreshStep
<1>3. PolicyTyped /\ FreshInv => FreshInTime
  <2>1. ASSUME PolicyTyped, FreshInv, ~fallible, pdpMode = "listening",
               NEW v \in 1 .. edition, changeAge[v] > LongestStale
        PROVE  held >= v
    <3>1. v \in Editions /\ v <= edition /\ v \in Nat /\ held \in Nat
      BY <2>1, PolicyFacts, PolicyNumbers DEF Editions
    <3>2. changeAge[v] \in Nat /\ refreshIn \in Nat
      BY <2>1, <3>1, PolicyFacts
    <3>3. ~SweptSoon(v)
      BY <2>1, <3>2, PolicyNumbers DEF SweptSoon
    <3>4. \A f \in Fetching : ~BroughtBy(f, v)
      BY <2>1, <3>2, FetchNumbers, PolicyNumbers DEF BroughtBy
    <3> QED
      BY <2>1, <3>1, <3>3, <3>4 DEF FreshInv, MissedAwhile
  <2> QED
    BY <2>1 DEF FreshInTime
<1> QED
  BY <1>1, <1>2, <1>3, PTL DEF PolicySpec

-----------------------------------------------------------------------------
(* Spans                                                                    *)

IngestStates == [pc : {"idle"}] \cup [pc : {"find", "insert"}, emit : SpanEmits]

LEMMA CallsTyped ==
    ASSUME SpansTypeOK, NEW r \in Receipts, NEW place \in Places,
           NEW link \in 0 .. MaxReceipts, SpanCalls(r, place, link)
    PROVE  /\ taken' \subseteq Places
           /\ unflushed' \in [Receipts -> Nat]
           /\ auditRows' \in [Receipts -> Nat]
           /\ spanEmits' \subseteq SpanEmits
           /\ ingests' \in [Ingests -> IngestStates]
           /\ spans' \in [Receipts -> SpanRows]
  BY DEF SpanCalls, SpansTypeOK, SpanEmits, IngestStates

LEMMA SpansTypeStep ==
    ASSUME SpansTypeOK, [SpansNext]_spansVars
    PROVE  SpansTypeOK'
<1>1. MaxReceipts \in Nat /\ MaxSpanCalls \in Nat
  BY SpansAssumption
<1>2. ASSUME NEW place \in Places, NEW link \in 0 .. MaxReceipts, NEW agent \in SpanAgents,
             NEW parent \in 0 .. MaxReceipts, NewRequest(agent, parent, place, link)
      PROVE  SpansTypeOK'
  <2>1. made \in 0 .. MaxReceipts /\ made < MaxReceipts
    BY <1>2 DEF NewRequest, SpansTypeOK
  <2>2. made + 1 \in Receipts /\ made' = made + 1 /\ made' \in 0 .. MaxReceipts
    BY <1>1, <1>2, <2>1 DEF NewRequest, Receipts
  <2>3. receipts' \in [Receipts -> ReceiptStates]
    BY <1>2, <2>2 DEF NewRequest, SpansTypeOK, ReceiptStates
  <2>4. SpanCalls(made + 1, place, link)
    BY <1>2 DEF NewRequest
  <2> QED
    BY <2>2, <2>3, <2>4, CallsTyped DEF SpansTypeOK, IngestStates
<1>3. ASSUME NEW place \in Places, NEW link \in 0 .. MaxReceipts, NEW r \in Receipts,
             SameRequest(r, place, link)
      PROVE  SpansTypeOK'
  BY <1>3, CallsTyped DEF SameRequest, SpansTypeOK, IngestStates
<1>4. CASE BufferFlushed
  BY <1>4 DEF BufferFlushed, SpansTypeOK
<1>5. CASE BufferLost
  BY <1>5 DEF BufferLost, SpansTypeOK
<1>6. ASSUME NEW i \in Ingests, NEW emit \in spanEmits, IngestStarts(i, emit)
      PROVE  SpansTypeOK'
  <2>1. emit \in SpanEmits
    BY DEF SpansTypeOK
  <2>2. ingests' \in [Ingests -> IngestStates]
    BY <1>6, <2>1 DEF IngestStarts, SpansTypeOK, IngestStates
  <2> QED
    BY <1>6, <2>2 DEF IngestStarts, SpansTypeOK, IngestStates
<1>7. ASSUME NEW i \in Ingests, IngestFinds(i)
      PROVE  SpansTypeOK'
  <2>1. ingests[i] \in IngestStates /\ ingests[i].pc = "find"
    BY <1>7 DEF IngestFinds, SpansTypeOK, IngestStates
  <2>2. ingests[i] \in [pc : {"find", "insert"}, emit : SpanEmits]
    BY <2>1 DEF IngestStates
  <2>3. [ingests[i] EXCEPT !.pc = "insert"] \in IngestStates
    BY <2>2 DEF IngestStates
  <2>4. ingests' \in [Ingests -> IngestStates]
    <3>1. CASE IngestEnds(i)
      BY <3>1 DEF IngestEnds, SpansTypeOK, IngestStates
    <3>2. CASE ingests' = [ingests EXCEPT ![i].pc = "insert"]
      BY <2>3, <3>2 DEF SpansTypeOK, IngestStates
    <3> QED
      BY <1>7, <3>1, <3>2 DEF IngestFinds
  <2> QED
    BY <1>7, <2>4 DEF IngestFinds, SpansTypeOK, IngestStates
<1>8. ASSUME NEW i \in Ingests, IngestInserts(i)
      PROVE  SpansTypeOK'
  <2>1. ingests[i] \in IngestStates /\ ingests[i].pc = "insert"
    BY <1>8 DEF IngestInserts, SpansTypeOK, IngestStates
  <2>2. ingests[i].emit \in SpanEmits
    BY <2>1 DEF IngestStates
  <2>3. spans' \in [Receipts -> SpanRows]
    BY <1>1, <1>8, <2>2 DEF IngestInserts, SpansTypeOK, SpanEmits, SpanRows, Places
  <2>4. ingests' \in [Ingests -> IngestStates]
    BY <1>8 DEF IngestInserts, IngestEnds, SpansTypeOK, IngestStates
  <2> QED
    BY <1>8, <2>3, <2>4 DEF IngestInserts, SpansTypeOK, IngestStates
<1>9. CASE UNCHANGED spansVars
  BY <1>9 DEF spansVars, SpansTypeOK
<1> QED
  BY <1>2, <1>3, <1>4, <1>5, <1>6, <1>7, <1>8, <1>9 DEF SpansNext

(* Calls, audit rows, sent spans, ingestions and stored spans keep their     *)
(* types however many requests and processes there are (ingestSpan, the      *)
(* emitter's flush).                                                         *)
THEOREM SpansTypeCorrect == SpansSpec => []SpansTypeOK
<1>1. SpansInit => SpansTypeOK
  BY SpansAssumption
     DEF SpansInit, SpansTypeOK, ReceiptStates, Receipts, SpanRows, NoSpan, Places, SpanEmits
<1>2. SpansTypeOK /\ [SpansNext]_spansVars => SpansTypeOK'
  BY SpansTypeStep
<1> QED
  BY <1>1, <1>2, PTL DEF SpansSpec

(* A set of numbers that is not empty has a least one.                      *)
LEMMA LeastNat ==
    ASSUME NEW T, T \subseteq Nat, T # {}
    PROVE  \E m \in T : \A n \in T : ~ (n < m)
<1>1. PICK m \in T : \A n \in T : ~ (<<n, m>> \in OpToRel(<, Nat))
  BY NatLessThanWellFounded, WFMin, Zenon
<1> QED
  BY <1>1 DEF OpToRel

(* f takes x and applies step to it over and over again.                    *)
Repeats(f, step, x) == f[0] = x /\ \A n \in Nat : f[n + 1] = step[f[n]]

(* There is such a function.                                                *)
LEMMA Iterates ==
    ASSUME NEW S, NEW step \in [S -> S], NEW x \in S
    PROVE  \E f \in [Nat -> S] : Repeats(f, step, x)
<1> DEFINE Walks(f, n) == f[0] = x /\ \A m \in 0 .. (n - 1) : f[m + 1] = step[f[m]]
           T == {n \in Nat : ~ \E f \in [Nat -> S] : Walks(f, n)}
           F == [n \in Nat |-> CHOOSE f \in [Nat -> S] : Walks(f, n)]
<1>1. Walks([n \in Nat |-> x], 0)
  OBVIOUS
<1>2. ASSUME NEW n \in Nat, NEW f \in [Nat -> S], Walks(f, n)
      PROVE  \E g \in [Nat -> S] : Walks(g, n + 1)
  <2> DEFINE g == [f EXCEPT ![n + 1] = step[f[n]]]
  <2>1. g \in [Nat -> S] /\ g[0] = x
    BY <1>2
  <2>2. ASSUME NEW m \in 0 .. ((n + 1) - 1)
        PROVE  g[m + 1] = step[g[m]]
    <3>1. m \in Nat /\ m + 1 \in Nat /\ m # n + 1 /\ g[m] = f[m]
      OBVIOUS
    <3>2. CASE m = n
      BY <3>1, <3>2
    <3>3. CASE m # n
      <4>1. m \in 0 .. (n - 1) /\ m + 1 # n + 1
        BY <3>3
      <4> QED
        BY <1>2, <3>1, <4>1
    <3> QED
      BY <3>2, <3>3
  <2> HIDE DEF g
  <2> QED
    BY <2>1, <2>2
<1>3. T = {}
  <2> SUFFICES ASSUME T # {}
               PROVE  FALSE
    OBVIOUS
  <2> HIDE DEF Walks
  <2>1. PICK n \in T : \A m \in T : ~ (m < n)
    BY LeastNat
  <2>2. [k \in Nat |-> x] \in [Nat -> S]
    OBVIOUS
  <2>3. n # 0 /\ n - 1 \in Nat /\ (n - 1) + 1 = n /\ n - 1 < n
    BY <1>1, <2>1, <2>2
  <2>4. \E f \in [Nat -> S] : Walks(f, n - 1)
    BY <2>1, <2>3
  <2> QED
    BY <1>2, <2>1, <2>3, <2>4
<1>4. ASSUME NEW n \in Nat
      PROVE  F[n] \in [Nat -> S] /\ Walks(F[n], n)
  <2> HIDE DEF Walks
  <2>1. \E f \in [Nat -> S] : Walks(f, n)
    BY <1>3
  <2> QED
    BY <2>1
<1> HIDE DEF F
<1>5. ASSUME NEW n \in Nat
      PROVE  F[n + 1][n] = F[n][n]
  <2> DEFINE D == {m \in 0 .. n : F[n + 1][m] # F[n][m]}
  <2>1. \A m \in 0 .. (n - 1) : F[n][m + 1] = step[F[n][m]] /\ F[n + 1][m + 1] = step[F[n + 1][m]]
    <3>1. n + 1 \in Nat /\ (n + 1) - 1 = n
      OBVIOUS
    <3>2. Walks(F[n], n) /\ Walks(F[n + 1], n + 1)
      BY <1>4, <3>1
    <3> QED
      BY <3>1, <3>2
  <2>2. F[n + 1][0] = x /\ F[n][0] = x
    BY <1>4
  <2>3. SUFFICES ASSUME D # {}
                 PROVE  FALSE
    OBVIOUS
  <2>4. PICK m \in D : \A k \in D : ~ (k < m)
    <3>1. D \subseteq Nat
      OBVIOUS
    <3> QED
      BY <2>3, <3>1, LeastNat
  <2>5. m # 0 /\ m - 1 \in 0 .. (n - 1) /\ (m - 1) + 1 = m /\ m - 1 < m
    BY <2>2, <2>4
  <2>6. F[n + 1][m - 1] = F[n][m - 1]
    BY <2>4, <2>5
  <2> QED
    BY <2>1, <2>4, <2>5, <2>6
<1> DEFINE f == [n \in Nat |-> F[n][n]]
<1>6. f \in [Nat -> S] /\ f[0] = x
  BY <1>4
<1>7. ASSUME NEW n \in Nat
      PROVE  f[n + 1] = step[f[n]]
  <2>1. n + 1 \in Nat /\ n \in 0 .. ((n + 1) - 1)
    OBVIOUS
  <2>2. Walks(F[n + 1], n + 1)
    BY <1>4, <2>1
  <2>3. F[n + 1][n + 1] = step[F[n + 1][n]]
    BY <2>1, <2>2
  <2> QED
    BY <1>5, <2>1, <2>3
<1> HIDE DEF f
<1>8. Repeats(f, step, x)
  BY <1>6, <1>7 DEF Repeats
<1> QED
  BY <1>6, <1>8

(* One step of the walk to the root.                                        *)
Up(W, r) == IF ParentOf(W, r) = 0 THEN r ELSE ParentOf(W, r)

(* The walk that RootOf takes: it goes up from each span to its parent, if   *)
(* each has its parent in the window.                                        *)
LEMMA RootWalk ==
    ASSUME NEW W, NEW r \in W, \A s \in W : ParentOf(W, s) \in W \cup {0}
    PROVE  \E up \in [Nat -> W] :
              /\ up[0] = r
              /\ \A n \in Nat : up[n + 1] = Up(W, up[n])
              /\ RootOf(W, r) = up[Cardinality(W)]
<1> DEFINE Walk(up) == up = [n \in Nat |->
                         IF n = 0 THEN r
                         ELSE IF ParentOf(W, up[n - 1]) = 0 THEN up[n - 1]
                         ELSE ParentOf(W, up[n - 1])]
<1>1. \E up : Walk(up)
  <2>1. PICK step \in [W -> W] : \A s \in W : step[s] = Up(W, s)
    <3>1. ASSUME NEW s \in W
          PROVE  Up(W, s) \in W
      BY DEF Up
    <3>2. [s \in W |-> Up(W, s)] \in [W -> W]
      BY <3>1
    <3> QED
      BY <3>2
  <2>2. PICK f \in [Nat -> W] : f[0] = r /\ \A n \in Nat : f[n + 1] = step[f[n]]
    <3>1. PICK f \in [Nat -> W] : Repeats(f, step, r)
      BY Iterates, Zenon
    <3> QED
      BY <3>1, Zenon DEF Repeats
  <2>3. ASSUME NEW n \in Nat
        PROVE  f[n] = IF n = 0 THEN r
                      ELSE IF ParentOf(W, f[n - 1]) = 0 THEN f[n - 1]
                      ELSE ParentOf(W, f[n - 1])
    <3>1. CASE n = 0
      BY <2>2, <3>1
    <3>2. CASE n # 0
      <4>1. n - 1 \in Nat /\ (n - 1) + 1 = n /\ f[n - 1] \in W
        BY <3>2
      <4>2. f[n] = Up(W, f[n - 1])
        BY <2>1, <2>2, <4>1
      <4> QED
        BY <3>2, <4>2 DEF Up
    <3> QED
      BY <3>1, <3>2
  <2>4. Walk(f)
    BY <2>3
  <2> HIDE DEF Walk
  <2> QED
    BY <2>4
<1> DEFINE up == CHOOSE up : Walk(up)
<1>2. Walk(up)
  <2> HIDE DEF Walk
  <2> QED
    BY <1>1
<1>3. RootOf(W, r) = up[Cardinality(W)]
  BY DEF RootOf
<1> HIDE DEF up
<1>4. up[0] = r
  BY <1>2
<1>5. ASSUME NEW n \in Nat
      PROVE  up[n + 1] = Up(W, up[n])
  <2>1. n + 1 \in Nat /\ n + 1 # 0 /\ (n + 1) - 1 = n
    OBVIOUS
  <2>2. up[n + 1] = IF n + 1 = 0 THEN r
                    ELSE IF ParentOf(W, up[(n + 1) - 1]) = 0 THEN up[(n + 1) - 1]
                    ELSE ParentOf(W, up[(n + 1) - 1])
    BY <1>2, <2>1
  <2> QED
    BY <2>1, <2>2 DEF Up
<1>6. \A n \in Nat : up[n] \in W
  <2> DEFINE T == {n \in Nat : up[n] \notin W}
  <2> SUFFICES ASSUME T # {}
               PROVE  FALSE
    OBVIOUS
  <2>1. PICK n \in T : \A m \in T : ~ (m < n)
    BY LeastNat
  <2>2. n # 0 /\ n - 1 \in Nat /\ (n - 1) + 1 = n /\ n - 1 < n
    BY <1>4, <2>1
  <2>3. up[n - 1] \in W
    BY <2>1, <2>2
  <2>4. up[n] = Up(W, up[n - 1])
    BY <1>5, <2>2
  <2>5. Up(W, up[n - 1]) \in W
    BY <2>3 DEF Up
  <2> QED
    BY <2>1, <2>4, <2>5
<1>7. up \in [Nat -> W]
  BY <1>2, <1>6
<1> QED
  BY <1>3, <1>4, <1>5, <1>7

(* The window's spans that started before one of them.                      *)
Before(W, r) == {t \in W : spans[t].place < spans[r].place}

(* A parent is in the window and started earlier: one that was named since   *)
(* that is assumed, one that follows from the order of the calls by choice.  *)
LEMMA ParentBefore ==
    ASSUME SpansTypeOK, NEW W \in SUBSET Stored, NEW r \in W,
           Explicit(W, r) # 0 => spans[Explicit(W, r)].place < spans[r].place
    PROVE  /\ ParentOf(W, r) \in W \cup {0}
           /\ ParentOf(W, r) # 0 => spans[ParentOf(W, r)].place < spans[r].place
<1>1. /\ W \subseteq Receipts
      /\ \A s \in Receipts : spans[s].place \in Nat
  BY SpansAssumption DEF Stored, SpansTypeOK, SpanRows
<1>2. Explicit(W, r) \in W \cup {0}
  BY DEF Explicit
<1>3. ASSUME Earlier(W, r) # {}
      PROVE  Latest(Earlier(W, r)) \in Earlier(W, r)
  <2> DEFINE T == {spans[s].place : s \in Earlier(W, r)}
             L == {MaxSpanCalls - n : n \in T}
  <2>1. /\ Earlier(W, r) \subseteq Receipts /\ MaxSpanCalls \in Nat
        /\ \A s \in Receipts : spans[s].place \in 0 .. MaxSpanCalls
    BY <1>1, SpansAssumption DEF Earlier, SpansTypeOK, SpanRows
  <2>2. PICK m \in L : \A n \in L : ~ (n < m)
    <3>1. L \subseteq Nat /\ L # {}
      BY <1>3, <2>1
    <3> QED
      BY <3>1, LeastNat
  <2>3. PICK s \in Earlier(W, r) : m = MaxSpanCalls - spans[s].place
    BY <2>2
  <2>4. \A t \in Earlier(W, r) : spans[t].place <= spans[s].place
    <3>1. ASSUME NEW t \in Earlier(W, r)
          PROVE  spans[t].place <= spans[s].place
      <4>1. MaxSpanCalls - spans[t].place \in L
        OBVIOUS
      <4>2. ~ (MaxSpanCalls - spans[t].place < m)
        BY <2>2, <4>1
      <4>3. spans[t].place \in Nat /\ spans[s].place \in Nat
        BY <1>1, <2>1
      <4> QED
        BY <2>1, <2>3, <4>2, <4>3
    <3> QED
      BY <3>1
  <2> QED
    BY <2>4 DEF Latest
<1>4. /\ Sequential(W, r) \in W \cup {0}
      /\ Sequential(W, r) # 0 => spans[Sequential(W, r)].place < spans[r].place
  BY <1>3 DEF Sequential, Earlier
<1> QED
  BY <1>2, <1>4 DEF ParentOf

LEMMA ReceiptsFinite == IsFiniteSet(Receipts)
<1>1. MaxReceipts \in Int /\ 1 \in Int
  BY SpansAssumption
<1> QED
  BY <1>1, FS_Interval DEF Receipts

(* Fewer spans of the window started before the parent than before the span. *)
LEMMA FewerBefore ==
    ASSUME SpansTypeOK, NEW W \in SUBSET Stored, NEW r \in W, NEW p \in W,
           spans[p].place < spans[r].place
    PROVE  /\ Cardinality(Before(W, p)) \in Nat /\ Cardinality(Before(W, r)) \in Nat
           /\ Cardinality(Before(W, p)) < Cardinality(Before(W, r))
<1>1. /\ W \subseteq Receipts
      /\ \A s \in W : spans[s].place \in Nat
  BY SpansAssumption DEF Stored, SpansTypeOK, SpanRows
<1>2. IsFiniteSet(Before(W, r)) /\ IsFiniteSet(Before(W, p))
  <2>1. Before(W, r) \in SUBSET Receipts /\ Before(W, p) \in SUBSET Receipts
    BY <1>1 DEF Before
  <2> QED
    BY <2>1, ReceiptsFinite, FS_Subset
<1>3. Before(W, p) \in SUBSET Before(W, r) /\ p \in Before(W, r) /\ p \notin Before(W, p)
  BY <1>1 DEF Before
<1>4. /\ Cardinality(Before(W, p)) <= Cardinality(Before(W, r))
      /\ Cardinality(Before(W, r)) # Cardinality(Before(W, p))
  BY <1>2, <1>3, FS_Subset
<1>5. Cardinality(Before(W, p)) \in Nat /\ Cardinality(Before(W, r)) \in Nat
  BY <1>2, FS_CardinalityType
<1> QED
  BY <1>4, <1>5

(* The walk to the root has ended after as many steps as the window has      *)
(* spans: each step leaves fewer spans that started earlier.                 *)
LEMMA WalkFlowsForward ==
    ASSUME SpansTypeOK
    PROVE  GraphFlowsForward
<1> SUFFICES ASSUME NEW W \in SUBSET Stored,
                    \A s \in W : Explicit(W, s) # 0 =>
                        spans[Explicit(W, s)].place < spans[s].place,
                    NEW r \in W
             PROVE  /\ ParentOf(W, RootOf(W, r)) = 0
                    /\ spans[RootOf(W, r)].place <= spans[r].place
  BY DEF GraphFlowsForward
<1>1. \A s \in W : /\ ParentOf(W, s) \in W \cup {0}
                   /\ ParentOf(W, s) # 0 => spans[ParentOf(W, s)].place < spans[s].place
  BY ParentBefore
<1>2. /\ W \subseteq Receipts
      /\ \A s \in W : spans[s].place \in Nat
  BY SpansAssumption DEF Stored, SpansTypeOK, SpanRows
<1>3. PICK up \in [Nat -> W] :
         /\ up[0] = r
         /\ \A n \in Nat : up[n + 1] = Up(W, up[n])
         /\ RootOf(W, r) = up[Cardinality(W)]
  <2>1. \A s \in W : ParentOf(W, s) \in W \cup {0}
    BY <1>1
  <2> QED
    BY <2>1, RootWalk, Zenon
<1>4. IsFiniteSet(W) /\ Cardinality(W) \in Nat
  <2> QED
    BY <1>2, ReceiptsFinite, FS_Subset, FS_CardinalityType
<1> DEFINE Left(s) == Cardinality(Before(W, s))
           Good(n) ==
             /\ spans[up[n]].place <= spans[r].place
             /\ ParentOf(W, up[n]) = 0 \/ Left(up[n]) + n < Cardinality(W)
           T == {n \in Nat : ~ Good(n)}
<1>5. Good(0)
  <2>1. Before(W, r) \in SUBSET W /\ r \notin Before(W, r)
    BY <1>2 DEF Before
  <2>2. Left(r) \in Nat /\ Left(r) < Cardinality(W)
    BY <1>4, <2>1, FS_Subset, FS_CardinalityType
  <2> HIDE DEF Left
  <2> QED
    BY <1>2, <1>3, <2>2
<1>6. ASSUME NEW n \in Nat, Good(n)
      PROVE  Good(n + 1)
  <2>1. up[n] \in W /\ up[n + 1] = Up(W, up[n])
    BY <1>3
  <2>2. CASE ParentOf(W, up[n]) = 0
    <3>1. up[n + 1] = up[n]
      BY <2>1, <2>2 DEF Up
    <3> QED
      BY <1>6, <2>2, <3>1
  <2>3. CASE ParentOf(W, up[n]) # 0
    <3> DEFINE p == ParentOf(W, up[n])
    <3>1. up[n + 1] = p
      BY <2>1, <2>3 DEF Up
    <3>2. p \in W /\ spans[p].place < spans[up[n]].place
      BY <1>1, <2>1, <2>3
    <3>3. /\ Left(p) \in Nat /\ Left(up[n]) \in Nat
          /\ Left(p) < Left(up[n])
      BY <2>1, <3>2, FewerBefore
    <3>4. spans[up[n]].place <= spans[r].place /\ Left(up[n]) + n < Cardinality(W)
      BY <1>6, <2>3
    <3>5. spans[p].place <= spans[r].place
      BY <1>2, <2>1, <3>2, <3>4
    <3> HIDE DEF p, Left
    <3>6. Left(p) + (n + 1) < Cardinality(W)
      BY <1>4, <3>3, <3>4
    <3> QED
      BY <3>1, <3>5, <3>6
  <2> QED
    BY <2>2, <2>3
<1> HIDE DEF Good
<1>7. T = {}
  <2> SUFFICES ASSUME T # {}
               PROVE  FALSE
    OBVIOUS
  <2>1. PICK n \in T : \A m \in T : ~ (m < n)
    BY LeastNat
  <2>2. n # 0 /\ n - 1 \in Nat /\ (n - 1) + 1 = n /\ n - 1 < n
    BY <1>5, <2>1
  <2>3. Good(n - 1)
    BY <2>1, <2>2
  <2> QED
    BY <1>6, <2>1, <2>2, <2>3
<1>8. Good(Cardinality(W))
  BY <1>4, <1>7
<1>9. Left(up[Cardinality(W)]) \in Nat
  <2>1. Before(W, up[Cardinality(W)]) \in SUBSET W
    BY DEF Before
  <2> QED
    BY <1>4, <2>1, FS_Subset, FS_CardinalityType
<1> HIDE DEF Left
<1> QED
  BY <1>3, <1>4, <1>8, <1>9 DEF Good

(* Whatever part of the stored spans is shown, and whatever was lost, came   *)
(* late or twice, the walk from a span along the parents ends at one that    *)
(* has none and started no later, if none started before the one that it     *)
(* names as its parent (ingestSpan, deriveSpanTree).                         *)
THEOREM SpansFlowForward == SpansSpec => []GraphFlowsForward
<1>1. SpansTypeOK => GraphFlowsForward
  BY WalkFlowsForward
<1> QED
  BY <1>1, SpansTypeCorrect, PTL

=============================================================================
