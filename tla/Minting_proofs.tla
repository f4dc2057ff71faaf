--------------------------- MODULE Minting_proofs ---------------------------
(***************************************************************************)
(* Proofs about Minting for every set of keys, every finite set of calls and *)
(* every plan.                                                               *)
(***************************************************************************)
EXTENDS Minting, FiniteSetTheorems, TLAPS

LEMMA MintNumbers == Cap \in Nat /\ Cap >= 1 /\ MaxCommands \in Nat /\ MaxCommands >= 1
  BY MintAssumption

-----------------------------------------------------------------------------
(* Types                                                                    *)

LEMMA NoCallTyped == NoCall \in MintCalls
  BY MintNumbers DEF NoCall, MintCalls

(* A call keeps its shape when its fields are given members of their sets.  *)
LEMMA CallUpdates ==
    ASSUME NEW call \in MintCalls,
           NEW pc \in {"idle", "agent", "usage", "count", "check", "insert"},
           NEW n \in 0 .. MaxCommands, NEW b \in BOOLEAN
    PROVE  /\ [call EXCEPT !.pc = pc] \in MintCalls
           /\ [call EXCEPT !.pc = pc, !.left = n] \in MintCalls
           /\ [call EXCEPT !.pc = pc, !.left = n, !.overtaken = b] \in MintCalls
           /\ [call EXCEPT !.overtaken = b] \in MintCalls
  BY DEF MintCalls

LEMMA CallTyped ==
    ASSUME MintTypeOK, NEW c \in Mints, NEW call \in MintCalls,
           calls' = [calls EXCEPT ![c] = call]
    PROVE  calls' \in [Mints -> MintCalls]
  BY DEF MintTypeOK

(* What a call does to itself, and nothing else, keeps the types.           *)
LEMMA CallsTyped ==
    ASSUME MintTypeOK, NEW c \in Mints
    PROVE  /\ Refused(c) => calls' \in [Mints -> MintCalls]
           /\ \A pc \in {"idle", "agent", "usage", "count", "check", "insert"} :
                 Goes(c, pc) => calls' \in [Mints -> MintCalls]
<1>1. calls[c] \in MintCalls
  BY DEF MintTypeOK
<1>2. Refused(c) => calls' \in [Mints -> MintCalls]
  BY NoCallTyped, CallTyped DEF Refused
<1>3. ASSUME NEW pc \in {"idle", "agent", "usage", "count", "check", "insert"}, Goes(c, pc)
      PROVE  calls' \in [Mints -> MintCalls]
  <2>1. 0 \in 0 .. MaxCommands
    BY MintNumbers
  <2>2. [calls[c] EXCEPT !.pc = pc] \in MintCalls
    BY <1>1, <2>1, CallUpdates
  <2> QED
    BY <1>3, <2>2, CallTyped DEF Goes
<1> QED
  BY <1>2, <1>3

LEMMA UcansAppended ==
    ASSUME MintTypeOK, NEW u \in Issues, ucans' = Append(ucans, u)
    PROVE  /\ ucans' \in Seq(Issues)
           /\ \A i \in DOMAIN ucans' :
                 \/ i \in DOMAIN ucans /\ ucans'[i] = ucans[i]
                 \/ ucans'[i] = u
  BY DEF MintTypeOK

(* Where a call goes; it leaves the others alone.                           *)
LEMMA CallMoves ==
    ASSUME MintTypeOK, NEW c \in Mints,
           \/ KeyCall(c) \/ ChildCall(c) \/ DashboardCall(c) \/ AuthAgent(c)
           \/ ReadUsage(c) \/ CountUsage(c) \/ CheckAgent(c) \/ Issue(c)
    PROVE  /\ \A d \in Mints \ {c} : calls'[d] = calls[d]
           /\ KeyCall(c) \/ ChildCall(c) \/ DashboardCall(c) \/ AuthAgent(c)
                 => calls'[c].pc \in {"idle", "agent", "usage", "check"}
           /\ CountUsage(c) \/ Issue(c) => calls'[c].pc \in {"idle", "check"}
           /\ ReadUsage(c) => calls'[c].pc \in {"idle", "count"}
           /\ CheckAgent(c) => calls'[c].pc \in {"idle", "insert"}
<1>1. calls \in [Mints -> MintCalls] /\ calls[c] \in MintCalls
  BY DEF MintTypeOK
<1>2. CASE KeyCall(c) \/ ChildCall(c) \/ DashboardCall(c)
  <2>1. CASE KeyCall(c)
    BY <1>1, <2>1 DEF KeyCall, ChildCall, DashboardCall, AuthAgent, ReadUsage,
                      CountUsage, CheckAgent, Issue, NoCall
  <2>2. CASE ChildCall(c)
    BY <1>1, <2>2 DEF KeyCall, ChildCall, DashboardCall, AuthAgent, ReadUsage,
                      CountUsage, CheckAgent, Issue, NoCall
  <2>3. CASE DashboardCall(c)
    BY <1>1, <2>3 DEF KeyCall, ChildCall, DashboardCall, AuthAgent, ReadUsage,
                      CountUsage, CheckAgent, Issue, NoCall
  <2> QED
    BY <1>2, <2>1, <2>2, <2>3
<1>3. ASSUME Refused(c)
      PROVE  (\A d \in Mints \ {c} : calls'[d] = calls[d]) /\ calls'[c].pc = "idle"
  BY <1>1, <1>3 DEF Refused, NoCall
<1>4. ASSUME NEW pc, Goes(c, pc)
      PROVE  (\A d \in Mints \ {c} : calls'[d] = calls[d]) /\ calls'[c].pc = pc
  BY <1>1, <1>4 DEF Goes, MintCalls
<1>5. CASE AuthAgent(c)
  <2>1. calls[c].pc = "agent" /\ (Refused(c) \/ Goes(c, "usage"))
    BY <1>5 DEF AuthAgent
  <2> QED
    BY <2>1, <1>3, <1>4 DEF ReadUsage, CountUsage, CheckAgent, Issue
<1>6. CASE ReadUsage(c)
  <2>1. calls[c].pc = "usage" /\ (Refused(c) \/ Goes(c, "count"))
    BY <1>6 DEF ReadUsage
  <2> QED
    BY <2>1, <1>3, <1>4 DEF KeyCall, ChildCall, DashboardCall, AuthAgent, CountUsage,
                            CheckAgent, Issue
<1>7. CASE CheckAgent(c)
  <2>1. calls[c].pc = "check" /\ (Refused(c) \/ Goes(c, "insert"))
    BY <1>7 DEF CheckAgent
  <2> QED
    BY <2>1, <1>3, <1>4 DEF KeyCall, ChildCall, DashboardCall, AuthAgent, CountUsage,
                            ReadUsage, Issue
<1>8. CASE CountUsage(c)
  <2>1. calls[c].pc = "count"
    BY <1>8 DEF CountUsage
  <2>2. /\ \A d \in Mints \ {c} : calls'[d] = calls[d]
        /\ calls'[c].pc \in {"idle", "check"}
    BY <1>1, <1>8 DEF CountUsage, Refused, NoCall, MintCalls
  <2> QED
    BY <2>1, <2>2 DEF KeyCall, ChildCall, DashboardCall, AuthAgent, CheckAgent,
                      ReadUsage, Issue
<1>9. CASE Issue(c)
  <2>1. calls[c].pc = "insert"
    BY <1>9 DEF Issue
  <2>2. /\ \A d \in Mints \ {c} : calls'[d] = calls[d]
        /\ calls'[c].pc \in {"idle", "check"}
    BY <1>1, <1>9 DEF Issue, Refused, NoCall, MintCalls
  <2> QED
    BY <2>1, <2>2 DEF KeyCall, ChildCall, DashboardCall, AuthAgent, CheckAgent,
                      ReadUsage, CountUsage
<1> QED
  BY <1>2, <1>5, <1>6, <1>7, <1>8, <1>9

LEMMA MintTypeInit == MintInit => MintTypeOK
  BY NoCallTyped DEF MintInit, MintTypeOK, Deletions

LEMMA MintTypeStep == MintTypeOK /\ [MintNext]_mintVars => MintTypeOK'
<1> SUFFICES ASSUME MintTypeOK, [MintNext]_mintVars PROVE MintTypeOK'
  OBVIOUS
<1>1. ASSUME NEW status \in {"active", "disabled"}, SetStatus(status) PROVE MintTypeOK'
  BY <1>1 DEF SetStatus, MintTypeOK
<1>2. CASE ApproveConnection
  BY <1>2 DEF ApproveConnection, MintTypeOK
<1>3. ASSUME NEW k \in Keys, CreateKey(k) \/ RevokeKey(k) PROVE MintTypeOK'
  BY <1>3 DEF CreateKey, RevokeKey, MintTypeOK
<1>4. CASE DeleteStatus
  <2>1. \A c \in Mints : [calls[c] EXCEPT !.overtaken = TRUE] \in MintCalls
    BY DEF MintTypeOK, MintCalls
  <2>2. calls' \in [Mints -> MintCalls]
    BY <1>4, <2>1 DEF DeleteStatus, MintTypeOK
  <2> QED
    BY <1>4, <2>2 DEF DeleteStatus, MintTypeOK, Deletions
<1>5. CASE DeleteList
  <2>1. DOMAIN ucans \subseteq Nat
    BY DEF MintTypeOK
  <2> QED
    BY <1>5, <2>1 DEF DeleteList, MintTypeOK, Deletions
<1>6. CASE DeleteRevokes
  <2>1. \A i \in DOMAIN ucans : [ucans[i] EXCEPT !.revoked = TRUE] \in Issues
    <3>1. \A i \in DOMAIN ucans : ucans[i] \in Issues
      BY DEF MintTypeOK
    <3> QED
      BY <3>1 DEF Issues
  <2>2. ucans' \in Seq(Issues)
    BY <1>6, <2>1 DEF DeleteRevokes, MintTypeOK
  <2> QED
    BY <1>6, <2>2 DEF DeleteRevokes, MintTypeOK, Deletions
<1>7. CASE DeleteKeys \/ DeleteAborts
  BY <1>7 DEF DeleteKeys, DeleteAborts, MintTypeOK, Deletions
<1>8. ASSUME NEW c \in Mints, KeyCall(c) \/ ChildCall(c) \/ DashboardCall(c)
      PROVE  MintTypeOK'
  <2>1. /\ [NoCall EXCEPT !.pc = "agent"] \in MintCalls
        /\ [NoCall EXCEPT !.pc = "usage", !.via = "child"] \in MintCalls
        /\ [NoCall EXCEPT !.pc = "check", !.via = "dashboard", !.left = 1] \in MintCalls
    <3>1. {0, 1} \subseteq 0 .. MaxCommands
      BY MintNumbers
    <3> QED
      BY <3>1, Zenon DEF NoCall, MintCalls
  <2>2. calls' \in [Mints -> MintCalls]
    BY <1>8, <2>1, CallTyped DEF KeyCall, ChildCall, DashboardCall
  <2> QED
    BY <1>8, <2>2 DEF KeyCall, ChildCall, DashboardCall, MintTypeOK
<1>9. ASSUME NEW c \in Mints, AuthAgent(c) \/ ReadUsage(c) \/ CheckAgent(c)
      PROVE  MintTypeOK'
  <2>1. Refused(c) \/ \E pc \in {"usage", "count", "insert"} : Goes(c, pc)
    BY <1>9 DEF AuthAgent, ReadUsage, CheckAgent
  <2>2. calls' \in [Mints -> MintCalls]
    BY <2>1, CallsTyped
  <2> QED
    BY <1>9, <2>2 DEF AuthAgent, ReadUsage, CheckAgent, MintTypeOK
<1>10. ASSUME NEW c \in Mints, CountUsage(c) PROVE MintTypeOK'
  <2>1. calls[c] \in MintCalls
    BY DEF MintTypeOK
  <2>2. CASE Refused(c)
    <3>1. calls' \in [Mints -> MintCalls]
      BY <2>2, CallsTyped
    <3> QED
      BY <1>10, <3>1 DEF CountUsage, MintTypeOK
  <2>3. ASSUME NEW n \in 1 .. IF calls[c].via = "key" THEN MaxCommands ELSE 1,
               calls' = [calls EXCEPT ![c].pc = "check", ![c].left = n]
        PROVE  MintTypeOK'
    <3>1. n \in 0 .. MaxCommands
      BY MintNumbers
    <3>2. [calls[c] EXCEPT !.pc = "check", !.left = n] \in MintCalls
      BY <2>1, <3>1, CallUpdates
    <3>3. calls' = [calls EXCEPT ![c] = [calls[c] EXCEPT !.pc = "check", !.left = n]]
      BY <2>1, <2>3 DEF MintTypeOK, MintCalls
    <3>4. calls' \in [Mints -> MintCalls]
      BY <3>2, <3>3, CallTyped
    <3> QED
      BY <1>10, <3>4 DEF CountUsage, MintTypeOK
  <2> QED
    BY <1>10, <2>2, <2>3 DEF CountUsage
<1>11. ASSUME NEW c \in Mints, Issue(c) PROVE MintTypeOK'
  <2>1. calls[c] \in MintCalls
    BY DEF MintTypeOK
  <2> DEFINE u == [via |-> calls[c].via, overtaken |-> calls[c].overtaken, revoked |-> FALSE]
  <2>2. u \in Issues
    BY <2>1 DEF Issues, MintCalls
  <2>3. ucans' \in Seq(Issues)
    BY <1>11, <2>2, UcansAppended DEF Issue
  <2>4. CASE calls[c].left > 1
    <3>1. calls[c].left \in 0 .. MaxCommands
      BY <2>1 DEF MintCalls
    <3>2. calls[c].left - 1 \in 0 .. MaxCommands
      BY <2>4, <3>1, MintNumbers
    <3>3. [calls[c] EXCEPT !.pc = "check", !.left = calls[c].left - 1,
                           !.overtaken = FALSE] \in MintCalls
      BY <2>1, <3>2, CallUpdates
    <3>4. calls' = [calls EXCEPT ![c] = [calls[c] EXCEPT !.pc = "check",
                       !.left = calls[c].left - 1, !.overtaken = FALSE]]
      BY <1>11, <2>1, <2>4 DEF Issue, MintTypeOK, MintCalls
    <3>5. calls' \in [Mints -> MintCalls]
      BY <3>3, <3>4, CallTyped
    <3> QED
      BY <1>11, <2>3, <3>5 DEF Issue, MintTypeOK
  <2>5. CASE ~(calls[c].left > 1)
    <3>1. calls' \in [Mints -> MintCalls]
      BY <1>11, <2>5, CallsTyped DEF Issue
    <3> QED
      BY <1>11, <2>3, <3>1 DEF Issue, MintTypeOK
  <2> QED
    BY <2>4, <2>5
<1>12. CASE UNCHANGED mintVars
  BY <1>12 DEF mintVars, MintTypeOK
<1> QED
  BY <1>1, <1>2, <1>3, <1>4, <1>5, <1>6, <1>7, <1>8, <1>9, <1>10, <1>11, <1>12 DEF MintNext

(* The rows, the requests and a delete under way keep their types.          *)
THEOREM MintTypeCorrect == MintSpec => []MintTypeOK
  BY MintTypeInit, MintTypeStep, PTL DEF MintSpec

-----------------------------------------------------------------------------
(* The cap                                                                  *)

(* The calls that have read the counter and not written it yet.             *)
Counting == {c \in Mints : calls[c].pc = "count"}

(* Each of them read it below the cap.                                      *)
CountedInTime == mintCount + Cardinality(Counting) <= Cap + Cardinality(Mints) - 1

LEMMA CountingFinite ==
    /\ IsFiniteSet(Mints) /\ Cardinality(Mints) \in Nat
    /\ IsFiniteSet(Counting) /\ Cardinality(Counting) \in Nat
    /\ Cardinality(Counting) <= Cardinality(Mints)
<1>1. IsFiniteSet(Mints) /\ Counting \in SUBSET Mints
  BY MintAssumption DEF Counting
<1>2. IsFiniteSet(Counting) /\ Cardinality(Counting) <= Cardinality(Mints)
  BY <1>1, FS_Subset
<1> QED
  BY <1>1, <1>2, FS_CardinalityType

(* A call that passes "count" by, or stays there, leaves the set alone.     *)
LEMMA CountingKept ==
    ASSUME MintTypeOK, NEW c \in Mints, NEW call,
           calls' = [calls EXCEPT ![c] = call],
           calls[c].pc # "count", call.pc # "count"
    PROVE  Counting' = Counting
  BY DEF Counting, MintTypeOK

LEMMA CapInit == MintInit => CountedInTime
<1> SUFFICES ASSUME MintInit PROVE CountedInTime
  OBVIOUS
<1>1. Counting = {}
  BY DEF MintInit, Counting, NoCall
<1>2. Cardinality(Counting) = 0
  BY <1>1, FS_EmptySet
<1> QED
  BY <1>2, CountingFinite, MintNumbers DEF MintInit, CountedInTime

(* Reading the counter is the one step that takes a call to "count".        *)
LEMMA CapRead ==
    ASSUME MintTypeOK, CountedInTime, NEW c \in Mints, ReadUsage(c)
    PROVE  CountedInTime'
<1>1. calls[c] \in MintCalls /\ mintCount \in Nat /\ mintCount' = mintCount
  BY DEF ReadUsage, MintTypeOK
<1>2. CASE mintCount >= Cap
  <2>1. Counting' = Counting
    BY <1>2, CountingKept DEF ReadUsage, Refused, NoCall
  <2> QED
    BY <2>1, <1>1 DEF CountedInTime
<1>3. CASE ~(mintCount >= Cap)
  <2>1. Counting' = Counting \cup {c}
    BY <1>1, <1>3 DEF ReadUsage, Goes, Counting, MintTypeOK, MintCalls
  <2>2. IsFiniteSet(Counting') /\ Cardinality(Counting') \in Nat
    BY <2>1, CountingFinite, FS_AddElement, FS_CardinalityType
  <2>3. Counting' \in SUBSET Mints
    BY <2>1 DEF Counting
  <2>4. Cardinality(Counting') <= Cardinality(Mints)
    BY <2>3, CountingFinite, FS_Subset
  <2> QED
    BY <1>1, <1>3, <2>2, <2>4, CountingFinite, MintNumbers DEF CountedInTime
<1> QED
  BY <1>2, <1>3

(* Writing it is the one step that takes a call away from there.            *)
LEMMA CapWritten ==
    ASSUME MintTypeOK, CountedInTime, NEW c \in Mints, CountUsage(c)
    PROVE  CountedInTime'
<1>1. mintCount \in Nat /\ mintCount' = mintCount + 1 /\ c \in Counting
  BY DEF CountUsage, MintTypeOK, Counting
<1>2. /\ \A d \in Mints \ {c} : calls'[d] = calls[d]
      /\ calls'[c].pc \in {"idle", "check"}
  BY CallMoves
<1>3. Counting' = Counting \ {c}
  BY <1>2 DEF Counting
<1>4. Cardinality(Counting') = Cardinality(Counting) - 1
  BY <1>1, <1>3, CountingFinite, FS_RemoveElement
<1> QED
  BY <1>1, <1>4, CountingFinite, MintNumbers DEF CountedInTime

LEMMA CapStep == MintTypeOK /\ CountedInTime /\ [MintNext]_mintVars => CountedInTime'
<1> SUFFICES ASSUME MintTypeOK, CountedInTime, [MintNext]_mintVars PROVE CountedInTime'
  OBVIOUS
<1>1. ASSUME mintCount' = mintCount, Counting' = Counting PROVE CountedInTime'
  BY <1>1 DEF CountedInTime
<1>2. ASSUME UNCHANGED <<mintCount, calls>> PROVE CountedInTime'
  BY <1>1, <1>2 DEF Counting
<1>3. CASE DeleteStatus
  <2>1. \A c \in Mints : calls'[c].pc = calls[c].pc
    BY <1>3 DEF DeleteStatus, MintTypeOK, MintCalls
  <2> QED
    BY <1>1, <1>3, <2>1 DEF DeleteStatus, Counting
<1>4. ASSUME NEW c \in Mints,
             \/ KeyCall(c) \/ ChildCall(c) \/ DashboardCall(c)
             \/ AuthAgent(c) \/ CheckAgent(c) \/ Issue(c)
      PROVE  CountedInTime'
  <2>1. calls[c] \in MintCalls /\ mintCount' = mintCount
    BY <1>4 DEF KeyCall, ChildCall, DashboardCall, AuthAgent, CheckAgent, Issue, MintTypeOK
  <2>2. calls[c].pc # "count"
    BY <1>4 DEF KeyCall, ChildCall, DashboardCall, AuthAgent, CheckAgent, Issue
  <2>3. /\ \A d \in Mints \ {c} : calls'[d] = calls[d]
        /\ calls'[c].pc # "count"
    BY <1>4, CallMoves
  <2> QED
    BY <1>1, <2>1, <2>2, <2>3 DEF Counting
<1>5. ASSUME NEW c \in Mints, ReadUsage(c) \/ CountUsage(c) PROVE CountedInTime'
  BY <1>5, CapRead, CapWritten
<1>6. ASSUME \/ \E status \in {"active", "disabled"} : SetStatus(status)
             \/ ApproveConnection
             \/ \E k \in Keys : CreateKey(k) \/ RevokeKey(k)
             \/ DeleteList \/ DeleteRevokes \/ DeleteKeys \/ DeleteAborts
             \/ UNCHANGED mintVars
      PROVE  CountedInTime'
  <2>1. UNCHANGED <<mintCount, calls>>
    BY <1>6 DEF SetStatus, ApproveConnection, CreateKey, RevokeKey, DeleteList,
                DeleteRevokes, DeleteKeys, DeleteAborts, mintVars
  <2> QED
    BY <1>2, <2>1
<1> QED
  BY <1>3, <1>4, <1>5, <1>6 DEF MintNext

(* However many calls are made and however they overlap, the counter passes  *)
(* the plan's cap by less than the number of calls that are served at once.  *)
THEOREM CapPassed == MintSpec => []CapPassedByFew
<1>1. MintTypeOK /\ CountedInTime => CapPassedByFew
  <2> SUFFICES ASSUME MintTypeOK, CountedInTime PROVE CapPassedByFew
    OBVIOUS
  <2>1. mintCount \in Nat
    BY DEF MintTypeOK
  <2> QED
    BY <2>1, CountingFinite, MintNumbers DEF CountedInTime, CapPassedByFew
<1> QED
  BY <1>1, CapInit, CapStep, MintTypeInit, MintTypeStep, PTL DEF MintSpec

-----------------------------------------------------------------------------
(* Deletion                                                                 *)

(* A call about to insert for a deleted agent knows that it was overtaken.  *)
InsertsOvertaken ==
    agentRow.status = "deleted" =>
        \A c \in Mints : calls[c].pc = "insert" /\ calls[c].via # "child"
                            => calls[c].overtaken

(* What a delete has found, or will find, of the agent's valid UCANs.       *)
DeleteCatches ==
    agentRow.status = "deleted" =>
        \A i \in DOMAIN ucans :
            \/ ucans[i].revoked \/ ucans[i].overtaken \/ ucans[i].via = "child"
            \/ deletion.pc \in {"none", "list"}
            \/ deletion.pc = "revoke" /\ i \in deletion.cids

DeleteInv == InsertsOvertaken /\ DeleteCatches

LEMMA DeleteInit == MintInit => DeleteInv
  BY DEF MintInit, DeleteInv, InsertsOvertaken, DeleteCatches

LEMMA InsertsStep ==
    ASSUME MintTypeOK, InsertsOvertaken, [MintNext]_mintVars
    PROVE  InsertsOvertaken'
<1>1. ASSUME UNCHANGED <<agentRow, calls>> PROVE InsertsOvertaken'
  BY <1>1 DEF InsertsOvertaken
<1>2. ASSUME NEW status \in {"active", "disabled"}, SetStatus(status)
      PROVE  InsertsOvertaken'
  BY <1>2 DEF SetStatus, InsertsOvertaken, MintTypeOK
<1>3. CASE ApproveConnection
  BY <1>3 DEF ApproveConnection, InsertsOvertaken, MintTypeOK
<1>4. CASE DeleteStatus
  BY <1>4 DEF DeleteStatus, InsertsOvertaken, MintTypeOK, MintCalls
<1>5. ASSUME NEW c \in Mints,
             \/ KeyCall(c) \/ ChildCall(c) \/ DashboardCall(c) \/ AuthAgent(c)
             \/ ReadUsage(c) \/ CountUsage(c) \/ Issue(c)
      PROVE  InsertsOvertaken'
  <2>1. calls[c] \in MintCalls /\ agentRow' = agentRow
    BY <1>5 DEF KeyCall, ChildCall, DashboardCall, AuthAgent, ReadUsage, CountUsage,
                Issue, MintTypeOK
  <2>2. /\ \A d \in Mints \ {c} : calls'[d] = calls[d]
        /\ calls'[c].pc # "insert"
    BY <1>5, CallMoves
  <2> QED
    BY <2>1, <2>2 DEF InsertsOvertaken
<1>6. ASSUME NEW c \in Mints, CheckAgent(c) PROVE InsertsOvertaken'
  <2>1. calls[c] \in MintCalls /\ agentRow' = agentRow
    BY <1>6 DEF CheckAgent, MintTypeOK
  <2>2. \A d \in Mints \ {c} : calls'[d] = calls[d]
    BY <1>6 DEF CheckAgent, Goes, Refused, MintTypeOK
  <2>3. \/ calls'[c].pc # "insert"
        \/ calls'[c].via = "child"
        \/ agentRow.status = "active"
    BY <1>6, <2>1 DEF CheckAgent, Goes, Refused, NoCall, MintTypeOK, MintCalls
  <2> QED
    BY <2>1, <2>2, <2>3 DEF InsertsOvertaken
<1>7. ASSUME \/ \E k \in Keys : CreateKey(k) \/ RevokeKey(k)
             \/ DeleteList \/ DeleteRevokes \/ DeleteKeys \/ DeleteAborts
             \/ UNCHANGED mintVars
      PROVE  InsertsOvertaken'
  <2>1. UNCHANGED <<agentRow, calls>>
    BY <1>7 DEF CreateKey, RevokeKey, DeleteList, DeleteRevokes, DeleteKeys,
                DeleteAborts, mintVars
  <2> QED
    BY <1>1, <2>1
<1> QED
  BY <1>2, <1>3, <1>4, <1>5, <1>6, <1>7 DEF MintNext

LEMMA CatchesStep ==
    ASSUME MintTypeOK, DeleteInv, [MintNext]_mintVars
    PROVE  DeleteCatches'
<1>1. ASSUME UNCHANGED <<agentRow, ucans, deletion>> PROVE DeleteCatches'
  BY <1>1 DEF DeleteInv, DeleteCatches
<1>2. ASSUME NEW status \in {"active", "disabled"}, SetStatus(status)
      PROVE  DeleteCatches'
  BY <1>2 DEF SetStatus, DeleteCatches, MintTypeOK
<1>3. CASE ApproveConnection
  <2>1. UNCHANGED <<ucans, deletion>> /\ agentRow'.status = agentRow.status
    BY <1>3 DEF ApproveConnection, MintTypeOK
  <2> QED
    BY <2>1 DEF DeleteInv, DeleteCatches
<1>4. CASE DeleteStatus
  BY <1>4 DEF DeleteStatus, DeleteCatches
<1>5. CASE DeleteList
  BY <1>5 DEF DeleteList, DeleteCatches
<1>6. CASE DeleteRevokes
  <2>1. DOMAIN ucans' = DOMAIN ucans /\ agentRow' = agentRow
    BY <1>6 DEF DeleteRevokes
  <2>2. \A i \in DOMAIN ucans : ucans[i] \in Issues
    BY DEF MintTypeOK
  <2>3. \A i \in DOMAIN ucans :
           IF i \in deletion.cids THEN ucans'[i].revoked ELSE ucans'[i] = ucans[i]
    BY <1>6, <2>2 DEF DeleteRevokes, Issues
  <2>4. deletion.pc = "revoke"
    BY <1>6 DEF DeleteRevokes
  <2> QED
    BY <2>1, <2>3, <2>4 DEF DeleteInv, DeleteCatches
<1>7. CASE DeleteKeys
  <2>1. UNCHANGED <<agentRow, ucans>> /\ deletion.pc = "keys"
    BY <1>7 DEF DeleteKeys
  <2> QED
    BY <2>1 DEF DeleteInv, DeleteCatches
<1>8. CASE DeleteAborts
  BY <1>8 DEF DeleteAborts, DeleteCatches
<1>9. ASSUME NEW c \in Mints, Issue(c) PROVE DeleteCatches'
  <2> DEFINE u == [via |-> calls[c].via, overtaken |-> calls[c].overtaken, revoked |-> FALSE]
  <2>1. calls[c] \in MintCalls
    BY DEF MintTypeOK
  <2>2. u \in Issues
    BY <2>1 DEF Issues, MintCalls
  <2>3. \A i \in DOMAIN ucans' :
           \/ i \in DOMAIN ucans /\ ucans'[i] = ucans[i]
           \/ ucans'[i] = u
    BY <1>9, <2>2, UcansAppended DEF Issue
  <2>4. UNCHANGED <<agentRow, deletion>> /\ calls[c].pc = "insert"
    BY <1>9 DEF Issue
  <2>5. agentRow.status = "deleted" => u.overtaken \/ u.via = "child"
    BY <2>4 DEF DeleteInv, InsertsOvertaken
  <2> HIDE DEF u
  <2> QED
    BY <2>3, <2>4, <2>5 DEF DeleteInv, DeleteCatches
<1>10. ASSUME \/ \E k \in Keys : CreateKey(k) \/ RevokeKey(k)
              \/ \E c \in Mints :
                    \/ KeyCall(c) \/ ChildCall(c) \/ DashboardCall(c) \/ AuthAgent(c)
                    \/ ReadUsage(c) \/ CountUsage(c) \/ CheckAgent(c)
              \/ UNCHANGED mintVars
       PROVE  DeleteCatches'
  <2>1. UNCHANGED <<agentRow, ucans, deletion>>
    BY <1>10 DEF CreateKey, RevokeKey, KeyCall, ChildCall, DashboardCall, AuthAgent,
                 ReadUsage, CountUsage, CheckAgent, mintVars
  <2> QED
    BY <1>1, <2>1
<1> QED
  BY <1>2, <1>3, <1>4, <1>5, <1>6, <1>7, <1>8, <1>9, <1>10 DEF MintNext

(* However many calls mint while an agent is deleted, and whatever operators *)
(* do before and after, a delete that ran to its end leaves only UCANs whose *)
(* minting it overtook, and those minted by a parent.                        *)
THEOREM DeleteLeaves == MintSpec => []DeleteLeavesFew
<1>1. MintTypeOK /\ DeleteInv => DeleteLeavesFew
  BY DEF DeleteInv, DeleteCatches, DeleteLeavesFew
<1>2. MintTypeOK /\ DeleteInv /\ [MintNext]_mintVars => DeleteInv'
  BY InsertsStep, CatchesStep DEF DeleteInv
<1> QED
  BY <1>1, <1>2, DeleteInit, MintTypeInit, MintTypeStep, PTL DEF MintSpec

=============================================================================
