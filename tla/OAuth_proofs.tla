---------------------------- MODULE OAuth_proofs ----------------------------
(***************************************************************************)
(* Proofs about OAuthConnections for every number of callbacks, refreshes,   *)
(* rows, consents and rotations, about TelegramBot for every number of       *)
(* polling loops, updates, tokens and prompts, and about IntentEnvelopes for *)
(* any resources, actions and envelopes.                                     *)
(***************************************************************************)
EXTENDS OAuthConnections, TelegramBot, IntentEnvelopes, FiniteSetTheorems, TLAPS

LEMMA OAuthNumbers ==
    /\ MaxConsents \in Nat /\ MaxConsents >= 1
    /\ MaxRotations \in Nat /\ MaxRotations >= 1
  BY OAuthAssumption

LEMMA TokenShape ==
    /\ \A t \in Tokens : /\ t = <<t[1], t[2]>>
                         /\ t[1] \in Consents /\ t[2] \in 1 .. MaxRotations
    /\ \A f \in Consents, n \in 1 .. MaxRotations :
          <<f, n>> \in Tokens /\ <<f, n>>[1] = f /\ <<f, n>>[2] = n
    /\ NoToken \notin Tokens /\ Gone \notin Tokens
  BY OAuthNumbers DEF Tokens, Consents, NoToken, Gone

-----------------------------------------------------------------------------
(* Types                                                                    *)

(* Every consent is paid for by a row of the ledger.                        *)
LedgerBounded == OAuthTypeOK /\ ledger + consumed <= MaxConsents

LEMMA NoneTyped == NoCallback \in CallbackStates /\ NoRefresh \in RefreshStates
<1>1. NoRefresh.row \in RowIds
  BY OAuthAssumption DEF NoRefresh
<1> QED
  BY <1>1 DEF NoCallback, NoRefresh, CallbackStates, RefreshStates

LEMMA CallbackUpdates ==
    ASSUME NEW s \in CallbackStates, NEW pc \in {"idle", "exchange", "select", "write"},
           NEW t \in Tokens \cup {NoToken}, NEW found \in SUBSET RowIds
    PROVE  /\ [s EXCEPT !.pc = pc] \in CallbackStates
           /\ [s EXCEPT !.pc = pc, !.token = t] \in CallbackStates
           /\ [s EXCEPT !.pc = pc, !.found = found] \in CallbackStates
  BY DEF CallbackStates

LEMMA RefreshUpdates ==
    ASSUME NEW s \in RefreshStates, NEW pc \in {"idle", "loaded", "answered", "checked"},
           NEW t \in Tokens \cup {NoToken}
    PROVE  /\ [s EXCEPT !.pc = pc] \in RefreshStates
           /\ [s EXCEPT !.pc = pc, !.token = t] \in RefreshStates
  BY DEF RefreshStates

LEMMA CallbacksTyped ==
    ASSUME OAuthTypeOK, NEW b \in Callbacks, NEW s \in CallbackStates,
           callbacks' = [callbacks EXCEPT ![b] = s]
    PROVE  callbacks' \in [Callbacks -> CallbackStates]
  BY DEF OAuthTypeOK

LEMMA RefreshesTyped ==
    ASSUME OAuthTypeOK, NEW r \in Refreshes, NEW s \in RefreshStates,
           refreshes' = [refreshes EXCEPT ![r] = s]
    PROVE  refreshes' \in [Refreshes -> RefreshStates]
  BY DEF OAuthTypeOK

(* What the provider does to a token it accepts.                            *)
LEMMA RotateTyped ==
    ASSUME OAuthTypeOK, NEW t \in Tokens \cup {NoToken}, Rotate(t)
    PROVE  /\ t \in Tokens /\ newest[t[1]] = t[2]
           /\ <<t[1], t[2] + 1>> \in Tokens
           /\ newest' = [newest EXCEPT ![t[1]] = t[2] + 1]
           /\ newest' \in [Consents -> 0 .. MaxRotations]
<1>1. t \in Tokens /\ newest[t[1]] = t[2] /\ t[2] < MaxRotations
  BY DEF Rotate, Accepted
<1>2. t[1] \in Consents /\ t[2] + 1 \in 1 .. MaxRotations
  BY <1>1, TokenShape, OAuthNumbers
<1>3. newest' = [newest EXCEPT ![t[1]] = t[2] + 1]
  BY <1>1 DEF Rotate
<1> QED
  BY <1>1, <1>2, <1>3, TokenShape, OAuthNumbers DEF OAuthTypeOK

(* The refresh that was answered.                                           *)
LEMMA AnsweredIs ==
    ASSUME OAuthTypeOK, NEW r \in Refreshes, RefreshAnswered(r)
    PROVE  LET t == refreshes[r].token
           IN  /\ t \in Tokens \cup {NoToken} /\ Rotate(t)
               /\ refreshes' = [refreshes EXCEPT ![r] =
                     [refreshes[r] EXCEPT !.pc = "answered", !.token = <<t[1], t[2] + 1>>]]
<1>1. refreshes[r] \in RefreshStates /\ Rotate(refreshes[r].token)
  BY DEF RefreshAnswered, OAuthTypeOK
<1>2. refreshes[r].token \in Tokens \cup {NoToken}
  BY <1>1 DEF RefreshStates
<1>3. refreshes[r].token \in Tokens
  BY <1>1, <1>2, RotateTyped
<1>4. [refreshes[r].token EXCEPT ![2] = refreshes[r].token[2] + 1]
        = <<refreshes[r].token[1], refreshes[r].token[2] + 1>>
  BY <1>3 DEF Tokens
<1>5. refreshes' = [refreshes EXCEPT ![r] = [refreshes[r] EXCEPT !.pc = "answered",
                       !.token = [refreshes[r].token EXCEPT ![2] = refreshes[r].token[2] + 1]]]
  BY <1>1 DEF RefreshAnswered, OAuthTypeOK, RefreshStates
<1> QED
  BY <1>1, <1>2, <1>4, <1>5

LEMMA OAuthTypeInit == OAuthInit => LedgerBounded
  BY NoneTyped, OAuthNumbers DEF OAuthInit, LedgerBounded, OAuthTypeOK

LEMMA OAuthTypeStep == LedgerBounded /\ [OAuthNext]_oauthVars => LedgerBounded'
<1> SUFFICES ASSUME LedgerBounded, [OAuthNext]_oauthVars PROVE LedgerBounded'
  OBVIOUS
<1> USE DEF LedgerBounded
<1>1. CASE Connect \/ NonceSwept
  BY <1>1, OAuthNumbers DEF Connect, NonceSwept, OAuthTypeOK
<1>2. ASSUME NEW b \in Callbacks,
             Callback(b) \/ Exchange(b) \/ ExchangeFails(b) \/ SaveSelect(b)
      PROVE  LedgerBounded'
  <2>1. callbacks[b] \in CallbackStates
    BY DEF OAuthTypeOK
  <2>2. NoCallback \in CallbackStates
    BY NoneTyped
  <2>3. CASE Callback(b)
    <3>1. [callbacks[b] EXCEPT !.pc = "exchange"] \in CallbackStates
      BY <2>1, CallbackUpdates
    <3>2. callbacks' = [callbacks EXCEPT ![b] = [callbacks[b] EXCEPT !.pc = "exchange"]]
      BY <2>3 DEF Callback
    <3>3. callbacks' \in [Callbacks -> CallbackStates]
      BY <3>1, <3>2, CallbacksTyped
    <3> QED
      BY <2>3, <3>3, OAuthNumbers DEF Callback, OAuthTypeOK
  <2>4. CASE Exchange(b)
    <3>1. PICK f \in Consents :
            /\ newest' = [newest EXCEPT ![f] = 1]
            /\ callbacks' = [callbacks EXCEPT ![b].pc = "select", ![b].token = <<f, 1>>]
      BY <2>4 DEF Exchange
    <3>2. <<f, 1>> \in Tokens
      BY TokenShape, OAuthNumbers
    <3>3. [callbacks[b] EXCEPT !.pc = "select", !.token = <<f, 1>>] \in CallbackStates
      BY <2>1, <3>2, CallbackUpdates
    <3>4. callbacks' = [callbacks EXCEPT ![b] =
                           [callbacks[b] EXCEPT !.pc = "select", !.token = <<f, 1>>]]
      BY <2>1, <3>1 DEF OAuthTypeOK, CallbackStates
    <3>5. callbacks' \in [Callbacks -> CallbackStates]
      BY <3>3, <3>4, CallbacksTyped
    <3>6. newest' \in [Consents -> 0 .. MaxRotations]
      BY <3>1, OAuthNumbers DEF OAuthTypeOK
    <3> QED
      BY <2>4, <3>5, <3>6 DEF Exchange, OAuthTypeOK
  <2>5. CASE ExchangeFails(b)
    <3>1. callbacks' \in [Callbacks -> CallbackStates]
      BY <2>2, <2>5, CallbacksTyped DEF ExchangeFails
    <3> QED
      BY <2>5, <3>1 DEF ExchangeFails, OAuthTypeOK
  <2>6. CASE SaveSelect(b)
    <3>1. PICK found \in IF Present = {} THEN {{}} ELSE {{i} : i \in Present} :
            callbacks' = [callbacks EXCEPT ![b].pc = "write", ![b].found = found]
      BY <2>6 DEF SaveSelect
    <3>2. found \in SUBSET RowIds
      BY <3>1 DEF Present
    <3>3. [callbacks[b] EXCEPT !.pc = "write", !.found = found] \in CallbackStates
      BY <2>1, <3>2, CallbackUpdates
    <3>4. callbacks' = [callbacks EXCEPT ![b] =
                           [callbacks[b] EXCEPT !.pc = "write", !.found = found]]
      BY <2>1, <3>1 DEF OAuthTypeOK, CallbackStates
    <3>5. callbacks' \in [Callbacks -> CallbackStates]
      BY <3>3, <3>4, CallbacksTyped
    <3> QED
      BY <2>6, <3>5 DEF SaveSelect, OAuthTypeOK
  <2> QED
    BY <1>2, <2>3, <2>4, <2>5, <2>6
<1>3. ASSUME NEW b \in Callbacks, SaveWrite(b) PROVE LedgerBounded'
  <2>1. callbacks[b] \in CallbackStates /\ callbacks[b].token \in Tokens \cup {NoToken}
    BY DEF OAuthTypeOK, CallbackStates
  <2>2. callbacks' \in [Callbacks -> CallbackStates]
    BY <1>3, NoneTyped, CallbacksTyped DEF SaveWrite
  <2>3. CASE UNCHANGED <<connections, spoiled>>
    BY <1>3, <2>2, <2>3 DEF SaveWrite, OAuthTypeOK
  <2>4. ASSUME NEW i \in RowIds,
               connections' = [connections EXCEPT ![i] = callbacks[b].token],
               spoiled' = spoiled \ {i}
        PROVE  LedgerBounded'
    BY <1>3, <2>1, <2>2, <2>4 DEF SaveWrite, OAuthTypeOK
  <2> QED
    BY <1>3, <2>3, <2>4 DEF SaveWrite, Present
<1>4. ASSUME NEW i \in RowIds, Disconnect(i) PROVE LedgerBounded'
  BY <1>4 DEF Disconnect, OAuthTypeOK
<1>5. ASSUME NEW r \in Refreshes, NEW i \in RowIds, RefreshLoads(r, i) PROVE LedgerBounded'
  <2>1. connections[i] \in Tokens \cup {NoToken}
    BY <1>5 DEF RefreshLoads, Present
  <2>2. [pc |-> "loaded", row |-> i, token |-> connections[i]] \in RefreshStates
    BY <2>1 DEF RefreshStates
  <2>3. refreshes' \in [Refreshes -> RefreshStates]
    BY <1>5, <2>2, RefreshesTyped DEF RefreshLoads
  <2> QED
    BY <1>5, <2>3 DEF RefreshLoads, OAuthTypeOK
<1>6. ASSUME NEW r \in Refreshes, RefreshAnswered(r) PROVE LedgerBounded'
  <2> DEFINE t == refreshes[r].token
  <2>1. refreshes[r] \in RefreshStates
    BY DEF OAuthTypeOK
  <2>2. /\ t \in Tokens \cup {NoToken} /\ Rotate(t)
        /\ refreshes' = [refreshes EXCEPT ![r] =
              [refreshes[r] EXCEPT !.pc = "answered", !.token = <<t[1], t[2] + 1>>]]
    BY <1>6, AnsweredIs
  <2>3. <<t[1], t[2] + 1>> \in Tokens /\ newest' \in [Consents -> 0 .. MaxRotations]
    BY <2>2, RotateTyped
  <2>4. [refreshes[r] EXCEPT !.pc = "answered", !.token = <<t[1], t[2] + 1>>] \in RefreshStates
    BY <2>1, <2>3, RefreshUpdates
  <2>5. refreshes' \in [Refreshes -> RefreshStates]
    BY <2>2, <2>4, RefreshesTyped
  <2> QED
    BY <1>6, <2>3, <2>5 DEF RefreshAnswered, OAuthTypeOK
<1>7. ASSUME NEW r \in Refreshes,
             RefreshRejected(r) \/ RefreshLost(r) \/ RefreshDiscarded(r) \/ RefreshWrites(r)
      PROVE  LedgerBounded'
  <2>1. refreshes[r] \in RefreshStates
    BY DEF OAuthTypeOK
  <2>2. refreshes[r].row \in RowIds /\ refreshes[r].token \in Tokens \cup {NoToken}
    BY <2>1 DEF RefreshStates
  <2>3. refreshes' \in [Refreshes -> RefreshStates]
    BY <1>7, NoneTyped, RefreshesTyped
       DEF RefreshRejected, RefreshLost, RefreshDiscarded, RefreshWrites
  <2>4. newest' \in [Consents -> 0 .. MaxRotations]
    BY <1>7, <2>2, RotateTyped
       DEF RefreshRejected, RefreshLost, RefreshDiscarded, RefreshWrites, OAuthTypeOK
  <2>5. spoiled' \subseteq RowIds
    BY <1>7, <2>2 DEF RefreshRejected, RefreshLost, RefreshDiscarded, RefreshWrites,
                      Spoil, OAuthTypeOK
  <2>6. connections' \in [RowIds -> Tokens \cup {NoToken, Gone}]
    BY <1>7, <2>2 DEF RefreshRejected, RefreshLost, RefreshDiscarded, RefreshWrites,
                      OAuthTypeOK
  <2>7. UNCHANGED <<ledger, consumed, callbacks>>
    BY <1>7 DEF RefreshRejected, RefreshLost, RefreshDiscarded, RefreshWrites
  <2> QED
    BY <2>3, <2>4, <2>5, <2>6, <2>7 DEF OAuthTypeOK
<1>8. ASSUME NEW r \in Refreshes, RefreshChecks(r) PROVE LedgerBounded'
  <2>1. refreshes[r] \in RefreshStates
    BY DEF OAuthTypeOK
  <2>2. [refreshes[r] EXCEPT !.pc = "checked"] \in RefreshStates /\ NoRefresh \in RefreshStates
    BY <2>1, NoneTyped DEF RefreshStates
  <2>3. refreshes' \in [Refreshes -> RefreshStates]
    BY <1>8, <2>2, RefreshesTyped DEF RefreshChecks
  <2> QED
    BY <1>8, <2>3 DEF RefreshChecks, OAuthTypeOK
<1>9. CASE UNCHANGED oauthVars
  BY <1>9 DEF oauthVars, OAuthTypeOK
<1> QED
  BY <1>1, <1>2, <1>3, <1>4, <1>5, <1>6, <1>7, <1>8, <1>9 DEF OAuthNext

(* Rows, tokens, callbacks and refreshes keep their types.                    *)
THEOREM OAuthTypeCorrect == OAuthSpec => []OAuthTypeOK
<1>1. LedgerBounded => OAuthTypeOK
  BY DEF LedgerBounded
<1> QED
  BY <1>1, OAuthTypeInit, OAuthTypeStep, PTL DEF OAuthSpec

-----------------------------------------------------------------------------
(* Nonces                                                                   *)

Given == {f \in Consents : newest[f] > 0}
Exchanging == {b \in Callbacks : callbacks[b].pc = "exchange"}

LEMMA NonceSets ==
    /\ IsFiniteSet(Given) /\ Cardinality(Given) \in Nat
    /\ IsFiniteSet(Exchanging) /\ Cardinality(Exchanging) \in Nat
<1>1. IsFiniteSet(Consents) /\ IsFiniteSet(Callbacks)
  BY FS_Interval, OAuthNumbers, OAuthAssumption DEF Consents
<1>2. Given \in SUBSET Consents /\ Exchanging \in SUBSET Callbacks
  BY DEF Given, Exchanging
<1> QED
  BY <1>1, <1>2, FS_Subset, FS_CardinalityType

NonceInv == Cardinality(Given) + Cardinality(Exchanging) <= consumed

LEMMA NonceStart == OAuthInit => NonceInv
<1> SUFFICES ASSUME OAuthInit PROVE NonceInv
  OBVIOUS
<1>1. Given = {} /\ Exchanging = {} /\ consumed = 0
  BY DEF OAuthInit, Given, Exchanging, NoCallback
<1> QED
  BY <1>1, FS_EmptySet DEF NonceInv

LEMMA NonceStep ==
    ASSUME LedgerBounded, NonceInv, [OAuthNext]_oauthVars
    PROVE  NonceInv'
<1>0. consumed \in Nat /\ OAuthTypeOK
  BY OAuthNumbers DEF LedgerBounded, OAuthTypeOK
<1>1. ASSUME Given' = Given, Exchanging' = Exchanging, consumed' = consumed
      PROVE  NonceInv'
  BY <1>1 DEF NonceInv
<1>2. ASSUME NEW b \in Callbacks, Callback(b) PROVE NonceInv'
  <2>1. Given' = Given /\ consumed' = consumed + 1
    BY <1>2 DEF Callback, Given
  <2>2. Exchanging' = Exchanging \cup {b} /\ b \notin Exchanging
    BY <1>0, <1>2 DEF Callback, Exchanging, OAuthTypeOK, CallbackStates
  <2>3. Cardinality(Exchanging') = Cardinality(Exchanging) + 1
    BY <2>2, NonceSets, FS_AddElement
  <2> QED
    BY <1>0, <2>1, <2>3, NonceSets DEF NonceInv
<1>3. ASSUME NEW b \in Callbacks, Exchange(b) \/ ExchangeFails(b) PROVE NonceInv'
  <2>1. b \in Exchanging /\ consumed' = consumed
    BY <1>3 DEF Exchange, ExchangeFails, Exchanging
  <2>2. /\ \A d \in Callbacks \ {b} : callbacks'[d] = callbacks[d]
        /\ callbacks'[b].pc # "exchange"
    BY <1>0, <1>3 DEF Exchange, ExchangeFails, NoCallback, OAuthTypeOK, CallbackStates
  <2>3. Exchanging' = Exchanging \ {b}
    BY <2>2 DEF Exchanging
  <2>4. Cardinality(Exchanging') = Cardinality(Exchanging) - 1
    BY <2>1, <2>3, NonceSets, FS_RemoveElement
  <2>5. Cardinality(Given') <= Cardinality(Given) + 1 /\ Cardinality(Given') \in Nat
    <3>1. CASE Exchange(b)
      <4>1. PICK f \in Consents : newest' = [newest EXCEPT ![f] = 1]
        BY <3>1 DEF Exchange
      <4>2. Given' = Given \cup {f}
        BY <1>0, <4>1 DEF Given, OAuthTypeOK
      <4>3. /\ Cardinality(Given \cup {f}) <= Cardinality(Given) + 1
            /\ Cardinality(Given \cup {f}) \in Nat
        <5>1. IsFiniteSet(Given \cup {f})
          BY NonceSets, FS_AddElement
        <5>2. Cardinality(Given \cup {f}) =
                 IF f \in Given THEN Cardinality(Given) ELSE Cardinality(Given) + 1
          BY NonceSets, FS_AddElement
        <5> QED
          BY <5>1, <5>2, NonceSets
      <4> QED
        BY <4>2, <4>3
    <3>2. CASE ExchangeFails(b)
      BY <3>2, NonceSets DEF ExchangeFails, Given
    <3> QED
      BY <1>3, <3>1, <3>2
  <2> QED
    BY <1>0, <2>1, <2>4, <2>5, NonceSets DEF NonceInv
<1>4. ASSUME NEW b \in Callbacks, SaveSelect(b) \/ SaveWrite(b) PROVE NonceInv'
  <2>1. Exchanging' = Exchanging
    BY <1>0, <1>4 DEF SaveSelect, SaveWrite, NoCallback, Exchanging, OAuthTypeOK, CallbackStates
  <2> QED
    BY <1>1, <1>4, <2>1 DEF SaveSelect, SaveWrite, Given
<1>5. ASSUME NEW r \in Refreshes, RefreshAnswered(r) \/ RefreshLost(r) PROVE NonceInv'
  <2> DEFINE t == refreshes[r].token
  <2>1. t \in Tokens \cup {NoToken}
    BY <1>0 DEF OAuthTypeOK, RefreshStates
  <2>2. CASE Rotate(t)
    <3>1. /\ t[1] \in Consents /\ t[2] \in 1 .. MaxRotations /\ newest[t[1]] = t[2]
          /\ newest' = [newest EXCEPT ![t[1]] = t[2] + 1]
      BY <1>0, <2>1, <2>2, RotateTyped, TokenShape
    <3>2. Given' = Given
      BY <1>0, <3>1, OAuthNumbers DEF Given, OAuthTypeOK
    <3> QED
      BY <1>1, <1>5, <3>2 DEF RefreshAnswered, RefreshLost, Exchanging
  <2>3. CASE UNCHANGED newest
    BY <1>1, <1>5, <2>3 DEF RefreshAnswered, RefreshLost, Exchanging, Given
  <2> QED
    BY <1>5, <2>2, <2>3 DEF RefreshAnswered, RefreshLost
<1>6. ASSUME \/ Connect \/ NonceSwept
             \/ \E i \in RowIds : Disconnect(i)
             \/ \E r \in Refreshes : \/ \E i \in RowIds : RefreshLoads(r, i)
                                     \/ RefreshRejected(r) \/ RefreshDiscarded(r)
                                     \/ RefreshChecks(r) \/ RefreshWrites(r)
             \/ UNCHANGED oauthVars
      PROVE  NonceInv'
  <2>1. UNCHANGED <<consumed, newest, callbacks>>
    BY <1>6 DEF Connect, NonceSwept, Disconnect, RefreshLoads, RefreshRejected,
                RefreshDiscarded, RefreshChecks, RefreshWrites, oauthVars
  <2> QED
    BY <1>1, <2>1 DEF Given, Exchanging
<1> QED
  BY <1>2, <1>3, <1>4, <1>5, <1>6 DEF OAuthNext

(* However often callbacks are sent, every code that is exchanged for tokens *)
(* had a nonce of its own.                                                   *)
THEOREM NoncesPay == OAuthSpec => []NoncePerExchange
<1>1. NonceInv => NoncePerExchange
  BY DEF NonceInv, NoncePerExchange, Given, Exchanging
<1>2. LedgerBounded /\ NonceInv /\ [OAuthNext]_oauthVars => NonceInv'
  BY NonceStep
<1> QED
  BY <1>1, <1>2, NonceStart, OAuthTypeInit, OAuthTypeStep, PTL DEF OAuthSpec

-----------------------------------------------------------------------------
(* Rows of one account                                                        *)

(* The callbacks that found no row and will insert one.                     *)
Inserting == {b \in Callbacks : callbacks[b].pc = "write" /\ callbacks[b].found = {}}

RowsInv ==
    /\ IsFiniteSet(Present)
    /\ Cardinality(Present) + Cardinality(Inserting) <= Cardinality(Callbacks)

LEMMA InsertingSets ==
    /\ IsFiniteSet(Inserting) /\ Cardinality(Inserting) \in Nat
    /\ Cardinality(Inserting) <= Cardinality(Callbacks)
    /\ Cardinality(Callbacks) \in Nat
<1>1. IsFiniteSet(Callbacks) /\ Inserting \in SUBSET Callbacks
  BY OAuthAssumption DEF Inserting
<1> QED
  BY <1>1, FS_Subset, FS_CardinalityType

(* Rows and writers that do not become more.                                *)
LEMMA RowsFewer ==
    ASSUME RowsInv, Present' \in SUBSET Present, Inserting' \in SUBSET Inserting
    PROVE  RowsInv'
<1>1. /\ IsFiniteSet(Present') /\ Cardinality(Present') <= Cardinality(Present)
      /\ Cardinality(Inserting') <= Cardinality(Inserting)
  BY InsertingSets, FS_Subset DEF RowsInv
<1>2. /\ Cardinality(Present) \in Nat /\ Cardinality(Present') \in Nat
      /\ Cardinality(Inserting') \in Nat
  BY <1>1, InsertingSets, FS_Subset, FS_CardinalityType DEF RowsInv
<1> QED
  BY <1>1, <1>2, InsertingSets DEF RowsInv

LEMMA RowsStart == OAuthInit => RowsInv
<1> SUFFICES ASSUME OAuthInit PROVE RowsInv
  OBVIOUS
<1>1. Present = {} /\ Inserting = {}
  BY TokenShape DEF OAuthInit, Present, Inserting, NoCallback
<1> QED
  BY <1>1, FS_EmptySet, InsertingSets DEF RowsInv

LEMMA RowsStep ==
    ASSUME LedgerBounded, RowsInv, [OAuthNext]_oauthVars
    PROVE  RowsInv'
<1>0. OAuthTypeOK
  BY DEF LedgerBounded
<1>1. ASSUME NEW b \in Callbacks, Callback(b) \/ Exchange(b) \/ ExchangeFails(b)
      PROVE  RowsInv'
  <2>1. /\ \A d \in Callbacks \ {b} : callbacks'[d] = callbacks[d]
        /\ callbacks'[b].pc # "write"
    BY <1>0, <1>1 DEF Callback, Exchange, ExchangeFails, NoCallback, OAuthTypeOK, CallbackStates
  <2>2. Inserting' \in SUBSET Inserting
    BY <2>1 DEF Inserting
  <2>3. Present' = Present
    BY <1>1 DEF Callback, Exchange, ExchangeFails, Present
  <2> QED
    BY <2>2, <2>3, RowsFewer
<1>2. ASSUME NEW b \in Callbacks, SaveSelect(b) PROVE RowsInv'
  <2>1. PICK found \in IF Present = {} THEN {{}} ELSE {{i} : i \in Present} :
          callbacks' = [callbacks EXCEPT ![b].pc = "write", ![b].found = found]
    BY <1>2 DEF SaveSelect
  <2>2. /\ \A d \in Callbacks \ {b} : callbacks'[d] = callbacks[d]
        /\ callbacks'[b].found = found
    BY <1>0, <2>1 DEF OAuthTypeOK, CallbackStates
  <2>3. Present' = Present
    BY <1>2 DEF SaveSelect, Present
  <2>4. CASE Present = {}
    <3>1. Cardinality(Present') = 0 /\ IsFiniteSet(Present')
      BY <2>3, <2>4, FS_EmptySet
    <3>2. Inserting' \in SUBSET Callbacks /\ IsFiniteSet(Callbacks)
      BY OAuthAssumption DEF Inserting
    <3>3. Cardinality(Inserting') <= Cardinality(Callbacks) /\ IsFiniteSet(Inserting')
      BY <3>2, FS_Subset
    <3>4. Cardinality(Inserting') \in Nat
      BY <3>3, FS_CardinalityType
    <3> QED
      BY <3>1, <3>3, <3>4, InsertingSets DEF RowsInv
  <2>5. CASE Present # {}
    <3>1. found # {}
      BY <2>1, <2>5
    <3>2. Inserting' \in SUBSET Inserting
      BY <2>2, <3>1 DEF Inserting
    <3> QED
      BY <2>3, <3>2, RowsFewer
  <2> QED
    BY <2>4, <2>5
<1>3. ASSUME NEW b \in Callbacks, SaveWrite(b) PROVE RowsInv'
  <2>1. /\ \A d \in Callbacks \ {b} : callbacks'[d] = callbacks[d]
        /\ callbacks'[b].pc # "write"
    BY <1>0, <1>3 DEF SaveWrite, NoCallback, OAuthTypeOK
  <2>2. Inserting' = Inserting \ {b}
    BY <2>1 DEF Inserting
  <2>3. CASE UNCHANGED connections
    <3>1. Present' = Present
      BY <2>3 DEF Present
    <3> QED
      BY <2>2, <3>1, RowsFewer
  <2>4. ASSUME NEW i \in Present, connections' = [connections EXCEPT ![i] = callbacks[b].token]
        PROVE  RowsInv'
    <3>1. Present' \in SUBSET Present
      BY <1>0, <2>4 DEF Present, OAuthTypeOK
    <3> QED
      BY <2>2, <3>1, RowsFewer
  <2>5. ASSUME callbacks[b].found = {}, NEW i \in RowIds, connections[i] = NoToken,
               connections' = [connections EXCEPT ![i] = callbacks[b].token]
        PROVE  RowsInv'
    <3>1. b \in Inserting
      BY <1>3, <2>5 DEF SaveWrite, Inserting
    <3>2. Cardinality(Inserting') = Cardinality(Inserting) - 1
      BY <2>2, <3>1, InsertingSets, FS_RemoveElement
    <3>3. /\ IsFiniteSet(Present \cup {i})
          /\ Cardinality(Present \cup {i}) <= Cardinality(Present) + 1
          /\ Cardinality(Present) \in Nat /\ Cardinality(Present \cup {i}) \in Nat
      BY FS_AddElement, FS_CardinalityType DEF RowsInv
    <3>4. Present' \in SUBSET (Present \cup {i})
      BY <1>0, <2>5 DEF Present, OAuthTypeOK
    <3>5. /\ IsFiniteSet(Present') /\ Cardinality(Present') \in Nat
          /\ Cardinality(Present') <= Cardinality(Present) + 1
      BY <3>3, <3>4, FS_Subset, FS_CardinalityType
    <3> QED
      BY <3>2, <3>3, <3>5, InsertingSets DEF RowsInv
  <2> QED
    BY <1>3, <2>3, <2>4, <2>5 DEF SaveWrite
<1>4. ASSUME NEW i \in RowIds, Disconnect(i) PROVE RowsInv'
  <2>1. Present' \in SUBSET Present /\ Inserting' = Inserting
    BY <1>0, <1>4, TokenShape DEF Disconnect, Present, Inserting, OAuthTypeOK
  <2> QED
    BY <2>1, RowsFewer
<1>5. ASSUME NEW r \in Refreshes, RefreshWrites(r) PROVE RowsInv'
  <2>1. Present' \in SUBSET Present /\ Inserting' = Inserting
    BY <1>0, <1>5 DEF RefreshWrites, Present, Inserting, OAuthTypeOK
  <2> QED
    BY <2>1, RowsFewer
<1>6. ASSUME \/ Connect \/ NonceSwept
             \/ \E r \in Refreshes : \/ \E i \in RowIds : RefreshLoads(r, i)
                                     \/ RefreshAnswered(r) \/ RefreshRejected(r)
                                     \/ RefreshLost(r) \/ RefreshDiscarded(r)
                                     \/ RefreshChecks(r)
             \/ UNCHANGED oauthVars
      PROVE  RowsInv'
  <2>1. UNCHANGED <<connections, callbacks>>
    BY <1>6 DEF Connect, NonceSwept, RefreshLoads, RefreshAnswered, RefreshRejected,
                RefreshLost, RefreshDiscarded, RefreshChecks, oauthVars
  <2>2. Present' = Present /\ Inserting' = Inserting
    BY <2>1 DEF Present, Inserting
  <2> QED
    BY <2>2, RowsFewer
<1> QED
  BY <1>1, <1>2, <1>3, <1>4, <1>5, <1>6 DEF OAuthNext

(* Only callbacks that overlap leave more than one row of an account, and    *)
(* never more rows than callbacks.                                           *)
THEOREM RowsFromOverlap == OAuthSpec => []RowsFromOverlapOnly
<1>1. RowsInv => RowsFromOverlapOnly
  <2> SUFFICES ASSUME RowsInv PROVE RowsFromOverlapOnly
    OBVIOUS
  <2>1. Cardinality(Present) \in Nat
    BY FS_CardinalityType DEF RowsInv
  <2> QED
    BY <2>1, InsertingSets DEF RowsInv, RowsFromOverlapOnly
<1>2. LedgerBounded /\ RowsInv /\ [OAuthNext]_oauthVars => RowsInv'
  BY RowsStep
<1> QED
  BY <1>1, <1>2, RowsStart, OAuthTypeInit, OAuthTypeStep, PTL DEF OAuthSpec

-----------------------------------------------------------------------------
(* Stored tokens                                                            *)

(* Where a token of a consent may be.                                       *)
AtCallback(b, f) ==
    callbacks[b].pc \in {"select", "write"} /\ callbacks[b].token[1] = f
InRow(i, f) == i \in Present /\ connections[i][1] = f
Loaded(r, f) == refreshes[r].pc = "loaded" /\ refreshes[r].token[1] = f
Carries(r, f) ==
    refreshes[r].pc \in {"answered", "checked"} /\ refreshes[r].token[1] = f

(* Nobody but its callback knows a consent that was not stored yet.         *)
FreshConsent ==
    \A f \in Consents, b \in Callbacks : AtCallback(b, f) =>
        /\ newest[f] = 1 /\ callbacks[b].token = <<f, 1>>
        /\ \A d \in Callbacks : AtCallback(d, f) => d = b
        /\ \A i \in RowIds : ~InRow(i, f)
        /\ \A r \in Refreshes : ~Loaded(r, f) /\ ~Carries(r, f)

(* The tokens of a consent are used for one row.                            *)
OneRow ==
    \A f \in Consents, i \in RowIds : InRow(i, f) =>
        /\ connections[i][2] <= newest[f]
        /\ \A j \in RowIds : InRow(j, f) => j = i
        /\ \A r \in Refreshes : Loaded(r, f) \/ Carries(r, f) => refreshes[r].row = i

(* At most one refresh carries a successor, and nothing newer is stored.    *)
OneCarrier ==
    \A f \in Consents, r \in Refreshes : Carries(r, f) =>
        /\ refreshes[r].token = <<f, newest[f]>>
        /\ \A s \in Refreshes : Carries(s, f) => s = r
        /\ \A s \in Refreshes : Loaded(s, f) =>
               refreshes[s].token[2] < newest[f] /\ refreshes[s].row = refreshes[r].row
        /\ \A i \in RowIds : InRow(i, f) => connections[i][2] < newest[f]

LoadedOnce ==
    \A f \in Consents, r \in Refreshes : Loaded(r, f) =>
        /\ refreshes[r].token \in Tokens /\ refreshes[r].token[2] <= newest[f]
        /\ \A s \in Refreshes : Loaded(s, f) => refreshes[s].row = refreshes[r].row

(* A row whose token was spent is spoiled, or its successor is on its way.  *)
StaleExplained ==
    \A f \in Consents, i \in RowIds : InRow(i, f) /\ connections[i][2] < newest[f] =>
        \/ i \in spoiled
        \/ \E r \in Refreshes : /\ Carries(r, f) /\ refreshes[r].row = i
                               /\ connections[i][2] = newest[f] - 1

ConsentInv == FreshConsent /\ OneRow /\ OneCarrier /\ LoadedOnce /\ StaleExplained

(* Types, as the steps below need them.                                     *)
LEMMA ConsentTypes ==
    ASSUME OAuthTypeOK
    PROVE  /\ newest \in [Consents -> Nat] /\ newest \in [Consents -> 0 .. MaxRotations]
           /\ \A i \in Present : /\ i \in RowIds /\ connections[i] \in Tokens
                                /\ connections[i][1] \in Consents
                                /\ connections[i][2] \in Nat /\ connections[i][2] >= 1
           /\ \A f \in Consents, i \in RowIds : InRow(i, f) => connections[i] = <<f, connections[i][2]>>
           /\ \A r \in Refreshes : refreshes[r] \in RefreshStates
           /\ \A b \in Callbacks : callbacks[b] \in CallbackStates
  BY TokenShape, OAuthNumbers DEF OAuthTypeOK, Present, InRow

(* Steps that change no token, anywhere.                                    *)
LEMMA ConsentKept ==
    ASSUME ConsentInv, UNCHANGED <<connections, newest>>, spoiled \subseteq spoiled',
           \A b \in Callbacks, f \in Consents :
              AtCallback(b, f)' => AtCallback(b, f) /\ callbacks'[b].token = callbacks[b].token,
           \A r \in Refreshes, f \in Consents :
              /\ Loaded(r, f)' => Loaded(r, f) /\ refreshes'[r] = refreshes[r]
              /\ Carries(r, f)' <=> Carries(r, f)
              /\ Carries(r, f) => /\ refreshes'[r].token = refreshes[r].token
                                 /\ refreshes'[r].row = refreshes[r].row
    PROVE  ConsentInv'
<1>1. Present' = Present /\ \A i \in RowIds, f \in Consents : InRow(i, f)' <=> InRow(i, f)
  BY DEF Present, InRow
<1> HIDE DEF Present
<1>2. FreshConsent'
  BY <1>1 DEF ConsentInv, FreshConsent
<1>3. OneRow'
  BY <1>1 DEF ConsentInv, OneRow
<1>4. OneCarrier'
  BY <1>1 DEF ConsentInv, OneCarrier
<1>5. LoadedOnce'
  BY <1>1 DEF ConsentInv, LoadedOnce
<1>6. StaleExplained'
  BY <1>1 DEF ConsentInv, StaleExplained
<1> QED
  BY <1>2, <1>3, <1>4, <1>5, <1>6 DEF ConsentInv

LEMMA ConsentStart == OAuthInit => ConsentInv
<1> SUFFICES ASSUME OAuthInit PROVE ConsentInv
  OBVIOUS
<1>1. /\ \A i \in RowIds, f \in Consents : ~InRow(i, f)
      /\ \A b \in Callbacks, f \in Consents : ~AtCallback(b, f)
      /\ \A r \in Refreshes, f \in Consents : ~Loaded(r, f) /\ ~Carries(r, f)
  BY TokenShape DEF OAuthInit, Present, InRow, AtCallback, Loaded, Carries, NoCallback, NoRefresh
<1> QED
  BY <1>1 DEF ConsentInv, FreshConsent, OneRow, OneCarrier, LoadedOnce, StaleExplained

(* A token of a consent anywhere means the consent was given.               *)
LEMMA GivenBefore ==
    ASSUME OAuthTypeOK, ConsentInv, NEW f \in Consents, newest[f] = 0
    PROVE  /\ \A i \in RowIds : ~InRow(i, f)
           /\ \A b \in Callbacks : ~AtCallback(b, f)
           /\ \A r \in Refreshes : ~Loaded(r, f) /\ ~Carries(r, f)
<1>1. \A b \in Callbacks : ~AtCallback(b, f)
  BY DEF ConsentInv, FreshConsent
<1>2. \A i \in RowIds : ~InRow(i, f)
  BY ConsentTypes DEF ConsentInv, OneRow, InRow
<1>3. \A r \in Refreshes : ~Loaded(r, f)
  BY TokenShape, OAuthNumbers DEF ConsentInv, LoadedOnce
<1>4. ASSUME NEW r \in Refreshes, Carries(r, f) PROVE FALSE
  <2>1. refreshes[r].token \in Tokens \cup {NoToken} /\ refreshes[r].token = <<f, 0>>
    BY <1>4, ConsentTypes DEF ConsentInv, OneCarrier, RefreshStates
  <2>2. <<f, 0>> # NoToken
    BY OAuthNumbers DEF Consents, NoToken
  <2>3. <<f, 0>> \notin Tokens
    BY OAuthNumbers DEF Tokens
  <2> QED
    BY <2>1, <2>2, <2>3
<1> QED
  BY <1>1, <1>2, <1>3, <1>4

LEMMA ConsentExchange ==
    ASSUME OAuthTypeOK, ConsentInv, NEW b \in Callbacks, Exchange(b)
    PROVE  ConsentInv'
<1>1. PICK f \in Consents :
        /\ newest[f] = 0 /\ newest' = [newest EXCEPT ![f] = 1]
        /\ callbacks' = [callbacks EXCEPT ![b].pc = "select", ![b].token = <<f, 1>>]
  BY DEF Exchange
<1>2. UNCHANGED <<connections, refreshes, spoiled>>
  BY DEF Exchange
<1>3. /\ newest'[f] = 1 /\ \A g \in Consents \ {f} : newest'[g] = newest[g]
      /\ \A d \in Callbacks \ {b} : callbacks'[d] = callbacks[d]
      /\ callbacks'[b].token = <<f, 1>>
  BY <1>1, ConsentTypes DEF CallbackStates, OAuthTypeOK
<1>4. /\ \A i \in RowIds, g \in Consents : InRow(i, g)' <=> InRow(i, g)
      /\ \A r \in Refreshes, g \in Consents :
            (Loaded(r, g)' <=> Loaded(r, g)) /\ (Carries(r, g)' <=> Carries(r, g))
  BY <1>2 DEF InRow, Present, Loaded, Carries
<1>5. /\ \A i \in RowIds : ~InRow(i, f)
      /\ \A d \in Callbacks : ~AtCallback(d, f)
      /\ \A r \in Refreshes : ~Loaded(r, f) /\ ~Carries(r, f)
  BY <1>1, GivenBefore
<1>6. \A d \in Callbacks, g \in Consents :
        AtCallback(d, g)' => (d = b /\ g = f) \/ (d # b /\ g # f /\ AtCallback(d, g))
  BY <1>3, <1>5 DEF AtCallback
<1>7. FreshConsent'
  BY <1>2, <1>3, <1>4, <1>5, <1>6 DEF ConsentInv, FreshConsent
<1>8. OneRow'
  BY <1>2, <1>3, <1>4, <1>5 DEF ConsentInv, OneRow
<1>9. OneCarrier'
  BY <1>2, <1>3, <1>4, <1>5 DEF ConsentInv, OneCarrier
<1>10. LoadedOnce'
  BY <1>2, <1>3, <1>4, <1>5 DEF ConsentInv, LoadedOnce
<1>11. StaleExplained'
  BY <1>2, <1>3, <1>4, <1>5 DEF ConsentInv, StaleExplained
<1> QED
  BY <1>7, <1>8, <1>9, <1>10, <1>11 DEF ConsentInv

(* A callback stores the first token of its consent.                        *)
LEMMA ConsentSaved ==
    ASSUME OAuthTypeOK, ConsentInv, NEW b \in Callbacks, callbacks[b].pc = "write",
           NEW i \in RowIds, connections' = [connections EXCEPT ![i] = callbacks[b].token],
           spoiled' = spoiled \ {i}, callbacks' = [callbacks EXCEPT ![b] = NoCallback],
           UNCHANGED <<newest, refreshes>>
    PROVE  ConsentInv'
<1> DEFINE t == callbacks[b].token
<1>1. /\ connections'[i] = t /\ \A j \in RowIds \ {i} : connections'[j] = connections[j]
      /\ \A d \in Callbacks, g \in Consents : AtCallback(d, g)' => d # b /\ AtCallback(d, g)
      /\ \A d \in Callbacks \ {b} : callbacks'[d] = callbacks[d]
  BY ConsentTypes DEF OAuthTypeOK, AtCallback, NoCallback
<1>2. t \in Tokens \cup {NoToken}
  BY ConsentTypes DEF CallbackStates
<1>3. t \in Tokens => t[1] \in Consents /\ AtCallback(b, t[1])
  BY TokenShape DEF AtCallback
<1>4. \A f \in Consents, j \in RowIds :
         InRow(j, f)' =>
            \/ (j # i /\ InRow(j, f) /\ connections'[j] = connections[j])
            \/ (j = i /\ AtCallback(b, f) /\ connections'[j] = <<f, 1>> /\ newest[f] = 1)
  <2> SUFFICES ASSUME NEW f \in Consents, NEW j \in RowIds, InRow(j, f)'
               PROVE  \/ (j # i /\ InRow(j, f) /\ connections'[j] = connections[j])
                      \/ (j = i /\ AtCallback(b, f) /\ connections'[j] = <<f, 1>>
                            /\ newest[f] = 1)
    OBVIOUS
  <2>1. CASE j # i
    BY <1>1, <2>1 DEF InRow, Present
  <2>2. CASE j = i
    <3>1. t \in Tokens /\ t[1] = f
      BY <1>1, <2>2 DEF InRow, Present
    <3> QED
      BY <1>1, <1>3, <2>2, <3>1 DEF ConsentInv, FreshConsent
  <2> QED
    BY <2>1, <2>2
<1>5. \A r \in Refreshes, g \in Consents :
         (Loaded(r, g)' <=> Loaded(r, g)) /\ (Carries(r, g)' <=> Carries(r, g))
  BY DEF Loaded, Carries
<1> HIDE DEF t
<1>6. FreshConsent'
  BY <1>1, <1>4, <1>5 DEF ConsentInv, FreshConsent
<1>7. OneRow'
  <2>1. \A f \in Consents, j \in RowIds : InRow(j, f)' => connections'[j][2] <= newest'[f]
    BY <1>4 DEF ConsentInv, OneRow
  <2>2. \A f \in Consents, j \in RowIds, k \in RowIds : InRow(j, f)' /\ InRow(k, f)' => j = k
    BY <1>4 DEF ConsentInv, OneRow, FreshConsent
  <2>3. \A f \in Consents, j \in RowIds, r \in Refreshes :
           InRow(j, f)' /\ (Loaded(r, f) \/ Carries(r, f)) => refreshes[r].row = j
    BY <1>4 DEF ConsentInv, OneRow, FreshConsent
  <2> QED
    BY <1>5, <2>1, <2>2, <2>3 DEF OneRow
<1>8. OneCarrier'
  <2>1. \A f \in Consents, r \in Refreshes, j \in RowIds :
           Carries(r, f) /\ InRow(j, f)' => connections'[j][2] < newest[f]
    BY <1>4 DEF ConsentInv, OneCarrier, FreshConsent
  <2> QED
    BY <1>5, <2>1 DEF ConsentInv, OneCarrier
<1>9. LoadedOnce'
  BY <1>5 DEF ConsentInv, LoadedOnce
<1>10. StaleExplained'
  <2> SUFFICES ASSUME NEW f \in Consents, NEW j \in RowIds, InRow(j, f)',
                      connections'[j][2] < newest[f]
               PROVE  \/ j \in spoiled'
                      \/ \E r \in Refreshes : /\ Carries(r, f)' /\ refreshes'[r].row = j
                                             /\ connections'[j][2] = newest[f] - 1
    BY DEF StaleExplained
  <2>1. j # i /\ InRow(j, f) /\ connections'[j] = connections[j]
    BY <1>4
  <2> QED
    BY <1>5, <2>1 DEF ConsentInv, StaleExplained
<1> QED
  BY <1>6, <1>7, <1>8, <1>9, <1>10 DEF ConsentInv

LEMMA ConsentDisconnected ==
    ASSUME OAuthTypeOK, ConsentInv, NEW i \in RowIds, Disconnect(i)
    PROVE  ConsentInv'
<1>1. /\ connections'[i] = Gone /\ \A j \in RowIds \ {i} : connections'[j] = connections[j]
      /\ spoiled' = spoiled \ {i} /\ UNCHANGED <<newest, callbacks, refreshes>>
  BY DEF Disconnect, OAuthTypeOK
<1>2. \A j \in RowIds, f \in Consents :
         InRow(j, f)' => j # i /\ InRow(j, f) /\ connections'[j] = connections[j]
  BY <1>1, TokenShape DEF InRow, Present
<1>3. /\ \A r \in Refreshes, g \in Consents :
            (Loaded(r, g)' <=> Loaded(r, g)) /\ (Carries(r, g)' <=> Carries(r, g))
      /\ \A b \in Callbacks, g \in Consents : AtCallback(b, g)' <=> AtCallback(b, g)
  BY <1>1 DEF Loaded, Carries, AtCallback
<1>4. FreshConsent'
  BY <1>1, <1>2, <1>3 DEF ConsentInv, FreshConsent
<1>5. OneRow'
  BY <1>1, <1>2, <1>3 DEF ConsentInv, OneRow
<1>6. OneCarrier'
  BY <1>1, <1>2, <1>3 DEF ConsentInv, OneCarrier
<1>7. LoadedOnce'
  BY <1>1, <1>2, <1>3 DEF ConsentInv, LoadedOnce
<1>8. StaleExplained'
  BY <1>1, <1>2, <1>3 DEF ConsentInv, StaleExplained
<1> QED
  BY <1>4, <1>5, <1>6, <1>7, <1>8 DEF ConsentInv

LEMMA ConsentLoaded ==
    ASSUME OAuthTypeOK, ConsentInv, NEW r \in Refreshes, NEW i \in RowIds, RefreshLoads(r, i)
    PROVE  ConsentInv'
<1>1. /\ i \in Present /\ refreshes[r].pc = "idle"
      /\ UNCHANGED <<connections, newest, callbacks, spoiled>>
      /\ refreshes'[r].pc = "loaded" /\ refreshes'[r].row = i
      /\ refreshes'[r].token = connections[i]
      /\ \A s \in Refreshes \ {r} : refreshes'[s] = refreshes[s]
  BY DEF RefreshLoads, OAuthTypeOK
<1>2. /\ \A j \in RowIds, f \in Consents : InRow(j, f)' <=> InRow(j, f)
      /\ \A b \in Callbacks, g \in Consents : AtCallback(b, g)' <=> AtCallback(b, g)
      /\ \A s \in Refreshes, g \in Consents :
            /\ Carries(s, g)' <=> Carries(s, g)
            /\ Carries(s, g) => s # r
            /\ Loaded(s, g)' => IF s = r THEN InRow(i, g) ELSE Loaded(s, g)
  BY <1>1 DEF InRow, Present, AtCallback, Carries, Loaded
<1>3. connections[i] \in Tokens
  BY <1>1 DEF Present
<1>4. FreshConsent'
  BY <1>1, <1>2 DEF ConsentInv, FreshConsent
<1>5. OneRow'
  BY <1>1, <1>2 DEF ConsentInv, OneRow
<1>6. OneCarrier'
  <2>1. \A f \in Consents, s \in Refreshes, q \in Refreshes :
           Carries(s, f) /\ Loaded(q, f)' =>
              refreshes'[q].token[2] < newest[f] /\ refreshes'[q].row = refreshes'[s].row
    BY <1>1, <1>2 DEF ConsentInv, OneCarrier, OneRow
  <2> QED
    BY <1>1, <1>2, <2>1 DEF ConsentInv, OneCarrier
<1>7. LoadedOnce'
  BY <1>1, <1>2, <1>3 DEF ConsentInv, LoadedOnce, OneRow
<1>8. StaleExplained'
  BY <1>1, <1>2 DEF ConsentInv, StaleExplained
<1> QED
  BY <1>4, <1>5, <1>6, <1>7, <1>8 DEF ConsentInv

(* The provider answers: the successor is on its way to the row.            *)
LEMMA ConsentAnswered ==
    ASSUME OAuthTypeOK, ConsentInv, NEW r \in Refreshes, RefreshAnswered(r)
    PROVE  ConsentInv'
<1>0. /\ refreshes[r].token \in Tokens /\ Rotate(refreshes[r].token)
      /\ UNCHANGED <<connections, callbacks, spoiled>> /\ refreshes[r].pc = "loaded"
  BY AnsweredIs, RotateTyped DEF RefreshAnswered
<1>1. PICK f \in Consents, n \in Nat : f = refreshes[r].token[1] /\ n = refreshes[r].token[2]
  BY <1>0, TokenShape, OAuthNumbers
<1>2. UNCHANGED <<connections, callbacks, spoiled>> /\ Loaded(r, f)
  BY <1>0, <1>1 DEF Loaded
<1>3. refreshes[r] \in RefreshStates
  BY ConsentTypes
<1>4. /\ refreshes'[r].pc = "answered" /\ refreshes'[r].token = <<f, n + 1>>
      /\ refreshes'[r].row = refreshes[r].row
      /\ \A s \in Refreshes \ {r} : refreshes'[s] = refreshes[s]
      /\ newest[f] = n /\ newest'[f] = n + 1
      /\ \A g \in Consents \ {f} : newest'[g] = newest[g]
  <2>1. newest[f] = n /\ newest' = [newest EXCEPT ![f] = n + 1]
    BY <1>0, <1>1, RotateTyped
  <2>2. refreshes' = [refreshes EXCEPT ![r] =
            [refreshes[r] EXCEPT !.pc = "answered", !.token = <<f, n + 1>>]]
    BY <1>1, AnsweredIs
  <2>3. newest'[f] = n + 1 /\ \A g \in Consents \ {f} : newest'[g] = newest[g]
    BY <2>1, ConsentTypes
  <2>4. refreshes'[r] = [refreshes[r] EXCEPT !.pc = "answered", !.token = <<f, n + 1>>]
    BY <2>2 DEF OAuthTypeOK
  <2>5. \A s \in Refreshes \ {r} : refreshes'[s] = refreshes[s]
    BY <2>2 DEF OAuthTypeOK
  <2>6. /\ refreshes'[r].pc = "answered" /\ refreshes'[r].token = <<f, n + 1>>
        /\ refreshes'[r].row = refreshes[r].row
    BY <1>3, <2>4 DEF RefreshStates
  <2> QED
    BY <2>1, <2>3, <2>5, <2>6
<1>5. /\ \A s \in Refreshes : ~Carries(s, f)
      /\ \A b \in Callbacks : ~AtCallback(b, f)
  <2>1. ASSUME NEW s \in Refreshes, Carries(s, f) PROVE FALSE
    <3>1. n < newest[f]
      BY <1>1, <1>4, <1>2, <2>1 DEF ConsentInv, OneCarrier
    <3> QED
      BY <1>1, <1>4, <3>1
  <2> QED
    BY <1>1, <1>4, <1>2, <2>1 DEF ConsentInv, FreshConsent
<1>6. /\ \A i \in RowIds, g \in Consents : InRow(i, g)' <=> InRow(i, g)
      /\ \A b \in Callbacks, g \in Consents : AtCallback(b, g)' <=> AtCallback(b, g)
      /\ \A s \in Refreshes, g \in Consents : Loaded(s, g)' => s # r /\ Loaded(s, g)
      /\ \A s \in Refreshes, g \in Consents :
            Carries(s, g)' => (s = r /\ g = f) \/ (s # r /\ g # f /\ Carries(s, g))
      /\ \A s \in Refreshes, g \in Consents : g # f /\ Carries(s, g) => s # r /\ Carries(s, g)'
      /\ Carries(r, f)'
  <2>1. \A i \in RowIds, g \in Consents : InRow(i, g)' <=> InRow(i, g)
    BY <1>2 DEF InRow, Present
  <2>2. \A b \in Callbacks, g \in Consents : AtCallback(b, g)' <=> AtCallback(b, g)
    BY <1>2 DEF AtCallback
  <2>3. \A s \in Refreshes, g \in Consents : Loaded(s, g)' => s # r /\ Loaded(s, g)
    BY <1>4 DEF Loaded
  <2>4. \A s \in Refreshes, g \in Consents :
            Carries(s, g)' => (s = r /\ g = f) \/ (s # r /\ g # f /\ Carries(s, g))
    BY <1>4, <1>5 DEF Carries
  <2>5. \A s \in Refreshes, g \in Consents : g # f /\ Carries(s, g) => s # r /\ Carries(s, g)'
    BY <1>2, <1>4 DEF Carries, Loaded
  <2>6. Carries(r, f)'
    BY <1>4 DEF Carries
  <2> QED
    BY <2>1, <2>2, <2>3, <2>4, <2>5, <2>6
<1>7. \A i \in RowIds : InRow(i, f) =>
         connections[i][2] \in Nat /\ connections[i][2] <= n /\ refreshes[r].row = i
  BY <1>1, <1>4, <1>2, ConsentTypes DEF ConsentInv, OneRow, InRow
<1>8. FreshConsent'
  BY <1>2, <1>4, <1>5, <1>6 DEF ConsentInv, FreshConsent
<1>9. OneRow'
  <2>1. \A g \in Consents, i \in RowIds : InRow(i, g) => connections[i][2] <= newest'[g]
    BY <1>1, <1>4, <1>7 DEF ConsentInv, OneRow
  <2>2. \A g \in Consents, i \in RowIds, s \in Refreshes :
           InRow(i, g) /\ (Loaded(s, g)' \/ Carries(s, g)') => refreshes'[s].row = i
    BY <1>4, <1>6, <1>7 DEF ConsentInv, OneRow
  <2> QED
    BY <1>2, <1>6, <2>1, <2>2 DEF ConsentInv, OneRow
<1>10. OneCarrier'
  <2>1. \A s \in Refreshes : Loaded(s, f)' =>
           refreshes'[s].token[2] < n + 1 /\ refreshes'[s].row = refreshes[r].row
    <3>1. ASSUME NEW s \in Refreshes, Loaded(s, f)'
          PROVE  refreshes'[s].token[2] < n + 1 /\ refreshes'[s].row = refreshes[r].row
      <4>1. s # r /\ Loaded(s, f) /\ refreshes'[s] = refreshes[s]
        BY <1>4, <1>6, <3>1
      <4>2. refreshes[s].token \in Tokens /\ refreshes[s].token[2] <= n
        BY <1>1, <1>4, <4>1 DEF ConsentInv, LoadedOnce
      <4>3. refreshes[s].token[2] \in Nat
        BY <4>2, TokenShape, OAuthNumbers
      <4>4. refreshes[s].row = refreshes[r].row
        BY <1>1, <1>4, <1>2, <4>1 DEF ConsentInv, LoadedOnce
      <4> QED
        BY <1>1, <1>4, <4>1, <4>2, <4>3, <4>4
    <3> QED
      BY <3>1
  <2>2. \A i \in RowIds : InRow(i, f) => connections[i][2] < n + 1
    BY <1>1, <1>4, <1>7
  <2> QED
    BY <1>1, <1>2, <1>4, <1>6, <2>1, <2>2 DEF ConsentInv, OneCarrier
<1>11. LoadedOnce'
  <2>1. \A s \in Refreshes : Loaded(s, f)' => refreshes'[s].token[2] <= n + 1
    <3>1. \A s \in Refreshes : Loaded(s, f)' =>
             /\ s # r /\ Loaded(s, f) /\ refreshes'[s] = refreshes[s]
             /\ refreshes[s].token \in Tokens /\ refreshes[s].token[2] <= n
      BY <1>1, <1>4, <1>6 DEF ConsentInv, LoadedOnce
    <3> QED
      BY <1>1, <1>4, <3>1, TokenShape, OAuthNumbers
  <2> QED
    BY <1>4, <1>6, <2>1 DEF ConsentInv, LoadedOnce
<1>12. StaleExplained'
  <2> SUFFICES ASSUME NEW g \in Consents, NEW i \in RowIds, InRow(i, g),
                      connections[i][2] < newest'[g]
               PROVE  \/ i \in spoiled
                      \/ \E s \in Refreshes : /\ Carries(s, g)' /\ refreshes'[s].row = i
                                             /\ connections[i][2] = newest'[g] - 1
    BY <1>2, <1>6 DEF StaleExplained
  <2>1. CASE g # f
    BY <1>4, <1>6, <2>1 DEF ConsentInv, StaleExplained
  <2>2. CASE g = f /\ connections[i][2] = n
    <3>1. refreshes'[r].row = i /\ connections[i][2] = newest'[g] - 1
      BY <1>1, <1>4, <1>7, <2>2
    <3> QED
      BY <1>6, <2>2, <3>1
  <2>3. CASE g = f /\ connections[i][2] # n
    <3>1. connections[i][2] < newest[f]
      BY <1>1, <1>4, <1>7, <2>3
    <3> QED
      BY <1>1, <1>4, <1>5, <2>3, <3>1 DEF ConsentInv, StaleExplained
  <2> QED
    BY <2>1, <2>2, <2>3
<1> QED
  BY <1>8, <1>9, <1>10, <1>11, <1>12 DEF ConsentInv

(* A refresh ends and takes what it carried with it.                        *)
LEMMA ConsentDropped ==
    ASSUME OAuthTypeOK, ConsentInv, NEW r \in Refreshes,
           refreshes' = [refreshes EXCEPT ![r] = NoRefresh],
           UNCHANGED <<connections, newest, callbacks>>,
           \A i \in Present : i \in spoiled => i \in spoiled',
           \A i \in RowIds, f \in Consents :
              /\ InRow(i, f) /\ Carries(r, f) /\ refreshes[r].row = i
              /\ connections[i][2] = newest[f] - 1
              => i \in spoiled'
    PROVE  ConsentInv'
<1>1. /\ refreshes'[r].pc = "idle"
      /\ \A s \in Refreshes \ {r} : refreshes'[s] = refreshes[s]
  BY DEF NoRefresh, OAuthTypeOK
<1>2. /\ \A i \in RowIds, g \in Consents : InRow(i, g)' <=> InRow(i, g)
      /\ \A b \in Callbacks, g \in Consents : AtCallback(b, g)' <=> AtCallback(b, g)
      /\ \A s \in Refreshes, g \in Consents : Loaded(s, g)' <=> (s # r /\ Loaded(s, g))
      /\ \A s \in Refreshes, g \in Consents : Carries(s, g)' <=> (s # r /\ Carries(s, g))
  BY <1>1 DEF InRow, Present, AtCallback, Loaded, Carries
<1>3. FreshConsent'
  BY <1>1, <1>2 DEF ConsentInv, FreshConsent
<1>4. OneRow'
  BY <1>1, <1>2 DEF ConsentInv, OneRow
<1>5. OneCarrier'
  BY <1>1, <1>2 DEF ConsentInv, OneCarrier
<1>6. LoadedOnce'
  BY <1>1, <1>2 DEF ConsentInv, LoadedOnce
<1>7. StaleExplained'
  <2> SUFFICES ASSUME NEW g \in Consents, NEW i \in RowIds, InRow(i, g),
                      connections[i][2] < newest[g]
               PROVE  \/ i \in spoiled'
                      \/ \E s \in Refreshes : /\ Carries(s, g)' /\ refreshes'[s].row = i
                                             /\ connections[i][2] = newest[g] - 1
    BY <1>2 DEF StaleExplained
  <2>1. CASE i \in spoiled
    BY <2>1 DEF InRow
  <2>2. CASE i \notin spoiled
    <3>1. PICK s \in Refreshes : /\ Carries(s, g) /\ refreshes[s].row = i
                                 /\ connections[i][2] = newest[g] - 1
      BY <2>2 DEF ConsentInv, StaleExplained
    <3> QED
      BY <1>1, <1>2, <3>1
  <2> QED
    BY <2>1, <2>2
<1> QED
  BY <1>3, <1>4, <1>5, <1>6, <1>7 DEF ConsentInv

(* The answer is lost on the way back.                                      *)
LEMMA ConsentLost ==
    ASSUME OAuthTypeOK, ConsentInv, NEW r \in Refreshes, RefreshLost(r)
    PROVE  ConsentInv'
<1>1. /\ UNCHANGED <<connections, callbacks>> /\ refreshes[r].pc = "loaded"
      /\ refreshes' = [refreshes EXCEPT ![r] = NoRefresh]
      /\ Spoil(r, refreshes[r].token) /\ spoiled \subseteq spoiled'
  BY DEF RefreshLost, Spoil
<1>2. CASE UNCHANGED newest
  <2>1. \A f \in Consents : ~Carries(r, f)
    BY <1>1 DEF Carries
  <2> QED
    BY <1>1, <1>2, <2>1, ConsentDropped
<1>3. CASE Rotate(refreshes[r].token)
  <2>0. refreshes[r].token \in Tokens
    BY <1>3, ConsentTypes, RotateTyped DEF RefreshStates
  <2>1. PICK f \in Consents, n \in Nat : f = refreshes[r].token[1] /\ n = refreshes[r].token[2]
    BY <2>0, TokenShape, OAuthNumbers
  <2>2. /\ newest[f] = n /\ newest'[f] = n + 1
        /\ \A g \in Consents \ {f} : newest'[g] = newest[g]
    <3>1. newest[f] = n /\ newest' = [newest EXCEPT ![f] = n + 1]
      BY <1>3, <2>0, <2>1, RotateTyped
    <3> QED
      BY <3>1, ConsentTypes
  <2>3. Loaded(r, f) /\ refreshes[r].token = <<f, n>>
    BY <1>1, <2>0, <2>1, TokenShape DEF Loaded
  <2>4. /\ \A s \in Refreshes : ~Carries(s, f)
        /\ \A b \in Callbacks : ~AtCallback(b, f)
    <3>1. ASSUME NEW s \in Refreshes, Carries(s, f) PROVE FALSE
      <4>1. n < newest[f]
        BY <2>1, <2>3, <3>1 DEF ConsentInv, OneCarrier
      <4> QED
        BY <2>2, <4>1
    <3> QED
      BY <2>3, <3>1 DEF ConsentInv, FreshConsent
  <2>5. /\ refreshes'[r].pc = "idle"
        /\ \A s \in Refreshes \ {r} : refreshes'[s] = refreshes[s]
    BY <1>1 DEF NoRefresh, OAuthTypeOK
  <2>6. /\ \A i \in RowIds, g \in Consents : InRow(i, g)' <=> InRow(i, g)
        /\ \A b \in Callbacks, g \in Consents : AtCallback(b, g)' <=> AtCallback(b, g)
        /\ \A s \in Refreshes, g \in Consents : Loaded(s, g)' <=> (s # r /\ Loaded(s, g))
        /\ \A s \in Refreshes, g \in Consents : Carries(s, g)' <=> (s # r /\ Carries(s, g))
        /\ \A g \in Consents : ~Carries(r, g)
    BY <1>1, <2>5 DEF InRow, Present, AtCallback, Loaded, Carries
  <2>7. \A i \in RowIds : InRow(i, f) =>
           /\ connections[i][2] \in Nat /\ connections[i][2] <= n /\ refreshes[r].row = i
           /\ connections[i] = <<f, connections[i][2]>>
    BY <2>2, <2>3, ConsentTypes DEF ConsentInv, OneRow, InRow
  <2>8. FreshConsent'
    BY <1>1, <2>2, <2>4, <2>5, <2>6 DEF ConsentInv, FreshConsent
  <2>9. OneRow'
    <3>1. \A g \in Consents, i \in RowIds : InRow(i, g) => connections[i][2] <= newest'[g]
      BY <2>2, <2>7 DEF ConsentInv, OneRow
    <3> QED
      BY <1>1, <2>5, <2>6, <3>1 DEF ConsentInv, OneRow
  <2>10. OneCarrier'
    BY <1>1, <2>2, <2>4, <2>5, <2>6 DEF ConsentInv, OneCarrier
  <2>11. LoadedOnce'
    <3>1. \A s \in Refreshes : Loaded(s, f) => refreshes[s].token[2] <= n + 1
      <4>1. \A s \in Refreshes : Loaded(s, f) =>
               refreshes[s].token \in Tokens /\ refreshes[s].token[2] <= n
        BY <2>2 DEF ConsentInv, LoadedOnce
      <4> QED
        BY <4>1, TokenShape, OAuthNumbers
    <3> QED
      BY <2>2, <2>5, <2>6, <3>1 DEF ConsentInv, LoadedOnce
  <2>12. StaleExplained'
    <3> SUFFICES ASSUME NEW g \in Consents, NEW i \in RowIds, InRow(i, g),
                        connections[i][2] < newest'[g]
                 PROVE  \/ i \in spoiled'
                        \/ \E s \in Refreshes : /\ Carries(s, g)' /\ refreshes'[s].row = i
                                               /\ connections[i][2] = newest'[g] - 1
      BY <1>1, <2>6 DEF StaleExplained
    <3>1. CASE g # f
      BY <1>1, <2>2, <2>5, <2>6, <3>1 DEF ConsentInv, StaleExplained
    <3>2. CASE g = f /\ connections[i][2] = n
      <4>1. connections[refreshes[r].row] = refreshes[r].token /\ refreshes[r].row = i
        BY <2>3, <2>7, <3>2
      <4> QED
        BY <1>1, <4>1 DEF Spoil
    <3>3. CASE g = f /\ connections[i][2] # n
      <4>1. connections[i][2] < newest[f]
        BY <2>2, <2>7, <3>3
      <4> QED
        BY <1>1, <2>4, <3>3, <4>1 DEF ConsentInv, StaleExplained
    <3> QED
      BY <3>1, <3>2, <3>3
  <2> QED
    BY <2>8, <2>9, <2>10, <2>11, <2>12 DEF ConsentInv
<1> QED
  BY <1>2, <1>3 DEF RefreshLost

LEMMA ConsentDiscarded ==
    ASSUME OAuthTypeOK, ConsentInv, NEW r \in Refreshes, RefreshDiscarded(r)
    PROVE  ConsentInv'
<1>1. ASSUME NEW i \in RowIds, NEW f \in Consents, InRow(i, f), Carries(r, f),
             refreshes[r].row = i, connections[i][2] = newest[f] - 1
      PROVE  i \in spoiled'
  <2>1. refreshes[r].token[1] = f /\ refreshes[r].token[2] = newest[f]
    BY <1>1 DEF ConsentInv, OneCarrier
  <2>2. connections[i] = <<f, newest[f] - 1>>
    BY <1>1, ConsentTypes
  <2> QED
    BY <1>1, <2>1, <2>2 DEF RefreshDiscarded, Spoil
<1> QED
  BY <1>1, ConsentDropped DEF RefreshDiscarded, Spoil

LEMMA ConsentChecked ==
    ASSUME OAuthTypeOK, ConsentInv, NEW r \in Refreshes, RefreshChecks(r)
    PROVE  ConsentInv'
<1>1. CASE refreshes[r].row \in Present
  <2>1. refreshes' = [refreshes EXCEPT ![r] = [refreshes[r] EXCEPT !.pc = "checked"]]
    BY <1>1 DEF RefreshChecks
  <2>2. refreshes[r] \in RefreshStates /\ refreshes[r].pc = "answered"
    BY ConsentTypes DEF RefreshChecks
  <2>3. /\ refreshes'[r].pc = "checked" /\ refreshes'[r].token = refreshes[r].token
        /\ refreshes'[r].row = refreshes[r].row
        /\ \A s \in Refreshes \ {r} : refreshes'[s] = refreshes[s]
    BY <2>1, <2>2 DEF RefreshStates, OAuthTypeOK
  <2>4. UNCHANGED <<connections, newest, callbacks, spoiled>>
    BY DEF RefreshChecks
  <2>5. \A s \in Refreshes, f \in Consents :
              /\ Loaded(s, f)' => Loaded(s, f) /\ refreshes'[s] = refreshes[s]
              /\ Carries(s, f)' <=> Carries(s, f)
              /\ Carries(s, f) => /\ refreshes'[s].token = refreshes[s].token
                                 /\ refreshes'[s].row = refreshes[s].row
    BY <2>2, <2>3 DEF Loaded, Carries
  <2> QED
    BY <2>4, <2>5, ConsentKept DEF AtCallback
<1>2. CASE refreshes[r].row \notin Present
  BY <1>2, ConsentDropped DEF RefreshChecks, InRow
<1> QED
  BY <1>1, <1>2

(* The successor arrives at its row.                                        *)
LEMMA ConsentWritten ==
    ASSUME OAuthTypeOK, ConsentInv, NEW r \in Refreshes, RefreshWrites(r)
    PROVE  ConsentInv'
<1> DEFINE i == refreshes[r].row
           t == refreshes[r].token
<1>0. /\ i \in RowIds /\ t \in Tokens \cup {NoToken} /\ refreshes[r].pc = "checked"
      /\ connections' = [j \in RowIds |-> IF j = i /\ j \in Present THEN t ELSE connections[j]]
      /\ spoiled' = spoiled \ {i} /\ refreshes' = [refreshes EXCEPT ![r] = NoRefresh]
      /\ UNCHANGED <<newest, callbacks>>
  BY ConsentTypes DEF RefreshWrites, RefreshStates
<1>1. CASE i \notin Present
  <2>1. connections' = connections
    BY <1>0, <1>1 DEF OAuthTypeOK
  <2> QED
    BY <1>0, <1>1, <2>1, ConsentDropped DEF InRow
<1>2. CASE i \in Present
  <2>1. PICK k \in RowIds, u \in Tokens \cup {NoToken} : k = i /\ u = t
    BY <1>0
  <2>2. /\ connections'[k] = u
        /\ \A j \in RowIds \ {k} : connections'[j] = connections[j]
    BY <1>0, <1>2, <2>1
  <2>3. refreshes'[r].pc = "idle" /\ \A s \in Refreshes \ {r} : refreshes'[s] = refreshes[s]
    BY <1>0 DEF NoRefresh, OAuthTypeOK
  <2>4. \A f \in Consents, j \in RowIds : InRow(j, f)' =>
           \/ (j # k /\ InRow(j, f) /\ connections'[j] = connections[j])
           \/ (j = k /\ Carries(r, f) /\ connections'[j] = <<f, newest[f]>>)
    <3> SUFFICES ASSUME NEW f \in Consents, NEW j \in RowIds, InRow(j, f)'
                 PROVE  \/ (j # k /\ InRow(j, f) /\ connections'[j] = connections[j])
                        \/ (j = k /\ Carries(r, f) /\ connections'[j] = <<f, newest[f]>>)
      OBVIOUS
    <3>1. CASE j # k
      BY <2>2, <3>1 DEF InRow, Present
    <3>2. CASE j = k
      <4>1. u[1] = f
        BY <2>2, <3>2 DEF InRow
      <4>2. Carries(r, f)
        BY <1>0, <2>1, <4>1 DEF Carries
      <4> QED
        BY <2>1, <2>2, <3>2, <4>2 DEF ConsentInv, OneCarrier
    <3> QED
      BY <3>1, <3>2
  <2>5. \A f \in Consents : Carries(r, f) =>
           /\ \A j \in RowIds : InRow(j, f) => j = k
           /\ \A s \in Refreshes : Carries(s, f) => s = r
           /\ \A s \in Refreshes : Loaded(s, f) => refreshes[s].row = k
           /\ \A b \in Callbacks : ~AtCallback(b, f)
    BY <2>1 DEF ConsentInv, FreshConsent, OneRow, OneCarrier
  <2>6. /\ \A b \in Callbacks, g \in Consents : AtCallback(b, g)' <=> AtCallback(b, g)
        /\ \A s \in Refreshes, g \in Consents : Loaded(s, g)' <=> (s # r /\ Loaded(s, g))
        /\ \A s \in Refreshes, g \in Consents : Carries(s, g)' <=> (s # r /\ Carries(s, g))
    BY <1>0, <2>3 DEF AtCallback, Loaded, Carries
  <2>7. UNCHANGED <<newest, callbacks>> /\ spoiled' = spoiled \ {k}
    BY <1>0, <2>1
  <2>8. newest \in [Consents -> Nat]
    BY ConsentTypes
  <2> HIDE DEF i, t
  <2>9. FreshConsent'
    BY <2>3, <2>4, <2>5, <2>6, <2>7 DEF ConsentInv, FreshConsent
  <2>10. OneRow'
    <3>1. \A f \in Consents, j \in RowIds : InRow(j, f)' => connections'[j][2] <= newest[f]
      BY <2>4, <2>8 DEF ConsentInv, OneRow
    <3>2. \A f \in Consents, j \in RowIds, m \in RowIds : InRow(j, f)' /\ InRow(m, f)' => m = j
      BY <2>4, <2>5 DEF ConsentInv, OneRow
    <3>3. \A f \in Consents, j \in RowIds, s \in Refreshes :
             InRow(j, f)' /\ (Loaded(s, f)' \/ Carries(s, f)') => refreshes'[s].row = j
      BY <2>3, <2>4, <2>5, <2>6 DEF ConsentInv, OneRow
    <3> QED
      BY <2>7, <3>1, <3>2, <3>3 DEF OneRow
  <2>11. OneCarrier'
    <3>1. \A f \in Consents, s \in Refreshes, j \in RowIds :
             Carries(s, f)' /\ InRow(j, f)' => connections'[j][2] < newest[f]
      BY <2>4, <2>5, <2>6 DEF ConsentInv, OneCarrier
    <3> QED
      BY <2>3, <2>6, <2>7, <3>1 DEF ConsentInv, OneCarrier
  <2>12. LoadedOnce'
    BY <2>3, <2>6, <2>7 DEF ConsentInv, LoadedOnce
  <2>13. StaleExplained'
    <3> SUFFICES ASSUME NEW g \in Consents, NEW j \in RowIds, InRow(j, g)',
                        connections'[j][2] < newest[g]
                 PROVE  \/ j \in spoiled'
                        \/ \E s \in Refreshes : /\ Carries(s, g)' /\ refreshes'[s].row = j
                                               /\ connections'[j][2] = newest[g] - 1
      BY <2>7 DEF StaleExplained
    <3>1. j # k /\ InRow(j, g) /\ connections'[j] = connections[j]
      BY <2>4, <2>8
    <3>2. ~Carries(r, g)
      BY <2>5, <3>1
    <3> QED
      BY <2>3, <2>6, <2>7, <3>1, <3>2 DEF ConsentInv, StaleExplained
  <2> QED
    BY <2>9, <2>10, <2>11, <2>12, <2>13 DEF ConsentInv
<1> QED
  BY <1>1, <1>2

LEMMA ConsentStep ==
    ASSUME LedgerBounded, ConsentInv, [OAuthNext]_oauthVars
    PROVE  ConsentInv'
<1>0. OAuthTypeOK
  BY DEF LedgerBounded
<1>1. CASE Connect \/ NonceSwept \/ UNCHANGED oauthVars
  <2>1. UNCHANGED <<connections, newest, callbacks, refreshes, spoiled>>
    BY <1>1 DEF Connect, NonceSwept, oauthVars
  <2> QED
    BY <2>1, ConsentKept DEF AtCallback, Loaded, Carries
<1>2. ASSUME NEW b \in Callbacks, Callback(b) \/ ExchangeFails(b) \/ SaveSelect(b)
      PROVE  ConsentInv'
  <2>1. UNCHANGED <<connections, newest, refreshes, spoiled>>
    BY <1>2 DEF Callback, ExchangeFails, SaveSelect
  <2>2. \A d \in Callbacks \ {b} : callbacks'[d] = callbacks[d]
    BY <1>0, <1>2 DEF Callback, ExchangeFails, SaveSelect, OAuthTypeOK
  <2>3. \/ callbacks'[b].pc \in {"idle", "exchange"}
        \/ callbacks[b].pc = "select" /\ callbacks'[b].token = callbacks[b].token
    <3>1. callbacks[b] \in CallbackStates
      BY <1>0, ConsentTypes
    <3> QED
      BY <1>0, <1>2, <3>1
         DEF Callback, ExchangeFails, SaveSelect, NoCallback, OAuthTypeOK, CallbackStates
  <2>4. \A d \in Callbacks, f \in Consents :
           AtCallback(d, f)' => AtCallback(d, f) /\ callbacks'[d].token = callbacks[d].token
    BY <2>2, <2>3 DEF AtCallback
  <2> QED
    BY <2>1, <2>4, ConsentKept DEF Loaded, Carries
<1>3. ASSUME NEW b \in Callbacks, SaveWrite(b) PROVE ConsentInv'
  <2>1. /\ callbacks[b].pc = "write" /\ callbacks' = [callbacks EXCEPT ![b] = NoCallback]
        /\ UNCHANGED <<newest, refreshes>>
    BY <1>3 DEF SaveWrite
  <2>2. CASE UNCHANGED <<connections, spoiled>>
    <3>1. \A d \in Callbacks, f \in Consents :
             AtCallback(d, f)' => AtCallback(d, f) /\ callbacks'[d].token = callbacks[d].token
      BY <1>0, <2>1 DEF AtCallback, NoCallback, OAuthTypeOK
    <3> QED
      BY <2>1, <2>2, <3>1, ConsentKept DEF Loaded, Carries
  <2>3. ASSUME NEW i \in RowIds, connections' = [connections EXCEPT ![i] = callbacks[b].token],
               spoiled' = spoiled \ {i}
        PROVE  ConsentInv'
    BY <1>0, <2>1, <2>3, ConsentSaved
  <2> QED
    BY <1>3, <2>2, <2>3 DEF SaveWrite, Present
<1>4. ASSUME NEW r \in Refreshes, RefreshRejected(r) PROVE ConsentInv'
  <2>1. \A f \in Consents : ~Carries(r, f)
    BY <1>4 DEF RefreshRejected, Carries
  <2> QED
    BY <1>0, <1>4, <2>1, ConsentDropped DEF RefreshRejected
<1> QED
  BY <1>0, <1>1, <1>2, <1>3, <1>4, ConsentExchange, ConsentDisconnected, ConsentLoaded,
     ConsentAnswered, ConsentLost, ConsentDiscarded, ConsentChecked, ConsentWritten
     DEF OAuthNext

(* Unless an answer of the provider to its refresh was lost or refused, a    *)
(* row nobody refreshes holds a token the provider accepts.                  *)
THEOREM StoredToken == OAuthSpec => []StoredTokenIsAccepted
<1>1. LedgerBounded /\ ConsentInv => StoredTokenIsAccepted
  <2> SUFFICES ASSUME LedgerBounded, ConsentInv, NEW i \in Present, ~Refreshing(i),
                      i \notin spoiled
               PROVE  Accepted(connections[i])
    BY DEF StoredTokenIsAccepted
  <2> DEFINE f == connections[i][1]
  <2>1. OAuthTypeOK
    BY DEF LedgerBounded
  <2>2. /\ i \in RowIds /\ connections[i] \in Tokens /\ f \in Consents
        /\ connections[i][2] \in Nat /\ newest[f] \in Nat
    BY <2>1, ConsentTypes
  <2>3. InRow(i, f)
    BY DEF InRow, Present
  <2>4. connections[i][2] <= newest[f]
    BY <2>2, <2>3 DEF ConsentInv, OneRow
  <2>5. ~(connections[i][2] < newest[f])
    <3>1. ASSUME NEW r \in Refreshes, Carries(r, f), refreshes[r].row = i PROVE FALSE
      BY <3>1 DEF Carries, Refreshing
    <3> QED
      BY <2>2, <2>3, <3>1 DEF ConsentInv, StaleExplained
  <2> QED
    BY <2>2, <2>4, <2>5 DEF Accepted
<1>2. LedgerBounded /\ ConsentInv /\ [OAuthNext]_oauthVars => ConsentInv'
  BY ConsentStep
<1> QED
  BY <1>1, <1>2, ConsentStart, OAuthTypeInit, OAuthTypeStep, PTL DEF OAuthSpec

-----------------------------------------------------------------------------
(* TelegramBot                                                              *)

BotPlaces ==
    /\ Len(inbox) <= MaxUpdates
    /\ \A b \in Bots :
          /\ bots[b].last <= bots[b].upto
          /\ bots[b].step # "next" => bots[b].last >= 1

BotTyped == BotTypeOK /\ BotPlaces

LEMMA UpdateKinds ==
    ASSUME NEW u \in Updates
    PROVE  /\ u.kind = "start" => (u.token \in LinkTokens /\ u.chat \in Chats)
           /\ u.kind = "unlink" => u.chat \in Chats
           /\ u.kind = "press" => u.prompt \in Prompts
  BY DEF Updates

LEMMA BotFacts ==
    ASSUME BotTyped
    PROVE  /\ MaxUpdates \in Nat
           /\ inbox \in Seq(Updates) /\ Len(inbox) \in Nat /\ Len(inbox) <= MaxUpdates
           /\ confirmed \in Nat /\ confirmed <= Len(inbox)
           /\ results \in [UpdateIds -> {"none", "failed", "done"}]
           /\ \A i \in 1 .. Len(inbox) : i \in UpdateIds /\ inbox[i] \in Updates
           /\ \A i \in UpdateIds : i \in Nat /\ i >= 1
  BY BotAssumption DEF BotTyped, BotTypeOK, BotPlaces, UpdateIds

LEMMA LoopFacts ==
    ASSUME BotTyped, NEW b \in Bots
    PROVE  /\ bots[b] \in BotStates
           /\ bots[b].last \in Nat /\ bots[b].upto \in Nat
           /\ bots[b].last <= bots[b].upto /\ bots[b].upto <= Len(inbox)
           /\ bots[b].step \in {"next", "handle", "commit"}
           /\ bots[b].step # "next" =>
                 /\ bots[b].last >= 1 /\ bots[b].last \in UpdateIds
                 /\ bots[b].last \in 1 .. Len(inbox) /\ inbox[bots[b].last] \in Updates
<1>1. bots[b] \in BotStates /\ bots[b].upto <= Len(inbox)
  BY DEF BotTyped, BotTypeOK
<1>2. /\ bots[b].last \in Nat /\ bots[b].upto \in Nat
      /\ bots[b].step \in {"next", "handle", "commit"}
  BY <1>1, BotFacts DEF BotStates
<1>3. bots[b].last <= bots[b].upto /\ (bots[b].step # "next" => bots[b].last >= 1)
  BY DEF BotTyped, BotPlaces
<1>4. bots[b].step # "next" => bots[b].last \in 1 .. Len(inbox)
  BY <1>1, <1>2, <1>3, BotFacts
<1> QED
  BY <1>1, <1>2, <1>3, <1>4, BotFacts

(* The state of one loop is replaced and the others stay.                   *)
LEMMA LoopMoves ==
    ASSUME BotTyped, NEW b \in Bots, NEW s \in BotStates,
           bots' = [bots EXCEPT ![b] = s]
    PROVE  /\ bots' \in [Bots -> BotStates] /\ bots'[b] = s
           /\ \A d \in Bots \ {b} : bots'[d] = bots[d]
  BY DEF BotTyped, BotTypeOK

LEMMA FinishedUpdates ==
    ASSUME BotTyped, NEW b \in Bots, bots[b].step # "next",
           NEW result \in {"failed", "done"}, Finished(b, result)
    PROVE  /\ bots' \in [Bots -> BotStates]
           /\ \A d \in Bots \ {b} : bots'[d] = bots[d]
           /\ bots'[b].last = bots[b].last /\ bots'[b].upto = bots[b].upto
           /\ bots'[b].step = "next"
           /\ results' \in [UpdateIds -> {"none", "failed", "done"}]
           /\ results'[bots[b].last] = IF results[bots[b].last] = "none" THEN result
                                       ELSE results[bots[b].last]
           /\ \A i \in UpdateIds \ {bots[b].last} : results'[i] = results[i]
<1> DEFINE s == [bots[b] EXCEPT !.step = "next", !.live = FALSE]
<1>1. /\ s \in BotStates /\ s.last = bots[b].last /\ s.upto = bots[b].upto
      /\ s.step = "next"
  BY LoopFacts DEF BotStates
<1>2. bots' = [bots EXCEPT ![b] = s]
  BY DEF Finished, BotTyped, BotTypeOK
<1> HIDE DEF s
<1>3. /\ bots' \in [Bots -> BotStates] /\ bots'[b] = s
      /\ \A d \in Bots \ {b} : bots'[d] = bots[d]
  BY <1>1, <1>2, LoopMoves
<1>4. bots[b].last \in UpdateIds
  BY LoopFacts
<1> QED
  BY <1>1, <1>3, <1>4, BotFacts DEF Finished

LEMMA GetUpdatesMoves ==
    ASSUME BotTyped, NEW b \in Bots, GetUpdates(b)
    PROVE  /\ bots' \in [Bots -> BotStates]
           /\ \A d \in Bots \ {b} : bots'[d] = bots[d]
           /\ bots'[b].last = confirmed' /\ bots'[b].upto = Len(inbox)
           /\ bots[b].step = "next" /\ bots'[b].step = "next"
           /\ confirmed' \in {confirmed, bots[b].last}
           /\ confirmed' >= confirmed /\ confirmed' >= bots[b].last
           /\ confirmed' \in 0 .. Len(inbox)
<1> DEFINE kept == IF bots[b].last > confirmed THEN bots[b].last ELSE confirmed
           s == [bots[b] EXCEPT !.last = kept, !.upto = Len(inbox)]
<1>1. /\ kept \in {confirmed, bots[b].last} /\ kept >= confirmed /\ kept >= bots[b].last
      /\ kept \in 0 .. Len(inbox) /\ kept \in 0 .. MaxUpdates
      /\ Len(inbox) \in 0 .. MaxUpdates
  BY LoopFacts, BotFacts
<1>2. bots' = [bots EXCEPT ![b] = s] /\ confirmed' = kept /\ bots[b].step = "next"
  BY DEF GetUpdates, BotTyped, BotTypeOK
<1> HIDE DEF kept
<1>3. s \in BotStates /\ s.last = kept /\ s.upto = Len(inbox) /\ s.step = bots[b].step
  BY <1>1, LoopFacts DEF BotStates
<1> HIDE DEF s
<1>4. /\ bots' \in [Bots -> BotStates] /\ bots'[b] = s
      /\ \A d \in Bots \ {b} : bots'[d] = bots[d]
  BY <1>2, <1>3, LoopMoves
<1> QED
  BY <1>1, <1>2, <1>3, <1>4

LEMMA TakeUpdateMoves ==
    ASSUME BotTyped, NEW b \in Bots, TakeUpdate(b)
    PROVE  /\ bots' \in [Bots -> BotStates]
           /\ \A d \in Bots \ {b} : bots'[d] = bots[d]
           /\ bots[b].step = "next" /\ bots'[b].step = "handle"
           /\ bots'[b].last = bots[b].last + 1 /\ bots'[b].last <= bots'[b].upto
           /\ bots'[b].upto = bots[b].upto
<1> DEFINE s == [bots[b] EXCEPT !.last = bots[b].last + 1, !.step = "handle"]
<1>1. bots[b].last + 1 \in 0 .. MaxUpdates /\ bots[b].last + 1 <= bots[b].upto
  BY LoopFacts, BotFacts DEF TakeUpdate
<1>2. bots' = [bots EXCEPT ![b] = s] /\ bots[b].step = "next"
  BY DEF TakeUpdate, BotTyped, BotTypeOK
<1>3. /\ s \in BotStates /\ s.last = bots[b].last + 1 /\ s.upto = bots[b].upto
      /\ s.step = "handle"
  BY <1>1, LoopFacts DEF BotStates
<1> HIDE DEF s
<1>4. /\ bots' \in [Bots -> BotStates] /\ bots'[b] = s
      /\ \A d \in Bots \ {b} : bots'[d] = bots[d]
  BY <1>2, <1>3, LoopMoves
<1> QED
  BY <1>1, <1>2, <1>3, <1>4

LEMMA StartSelectMoves ==
    ASSUME BotTyped, NEW b \in Bots, StartSelect(b)
    PROVE  /\ bots' \in [Bots -> BotStates]
           /\ \A d \in Bots \ {b} : bots'[d] = bots[d]
           /\ bots[b].step = "handle" /\ bots'[b].step = "commit"
           /\ bots'[b].last = bots[b].last /\ bots'[b].upto = bots[b].upto
           /\ inbox[bots[b].last].kind = "start"
           /\ bots'[b].live <=> linkTokens[inbox[bots[b].last].token].state = "fresh"
<1> DEFINE found == linkTokens[inbox[bots[b].last].token].state = "fresh"
           s == [bots[b] EXCEPT !.step = "commit", !.live = found]
<1>1. found \in BOOLEAN
  OBVIOUS
<1>2. bots' = [bots EXCEPT ![b] = s]
  BY DEF StartSelect, BotTyped, BotTypeOK
<1>3. bots[b].step = "handle" /\ inbox[bots[b].last].kind = "start"
  BY DEF StartSelect, Handling
<1> HIDE DEF found
<1>4. /\ s \in BotStates /\ s.last = bots[b].last /\ s.upto = bots[b].upto
      /\ s.step = "commit" /\ s.live = found
  BY <1>1, LoopFacts DEF BotStates
<1> HIDE DEF s
<1>5. /\ bots' \in [Bots -> BotStates] /\ bots'[b] = s
      /\ \A d \in Bots \ {b} : bots'[d] = bots[d]
  BY <1>2, <1>4, LoopMoves
<1>6. bots'[b].live <=> found
  BY <1>4, <1>5
<1> QED
  BY <1>3, <1>4, <1>5, <1>6 DEF found

LEMMA BotStartMoves ==
    ASSUME BotTyped, NEW b \in Bots, BotStarts(b)
    PROVE  /\ bots' \in [Bots -> BotStates]
           /\ \A d \in Bots \ {b} : bots'[d] = bots[d]
           /\ bots'[b].last = bots[b].last /\ bots'[b].upto = bots[b].upto
           /\ bots'[b].step = bots[b].step /\ bots'[b].live = bots[b].live
<1> DEFINE s == [bots[b] EXCEPT !.running = TRUE]
<1>1. bots' = [bots EXCEPT ![b] = s]
  BY DEF BotStarts, BotTyped, BotTypeOK
<1>2. /\ s \in BotStates /\ s.last = bots[b].last /\ s.upto = bots[b].upto
      /\ s.step = bots[b].step /\ s.live = bots[b].live
  BY LoopFacts DEF BotStates
<1> HIDE DEF s
<1> QED
  BY <1>1, <1>2, LoopMoves

LEMMA BotCrashMoves ==
    ASSUME BotTyped, NEW b \in Bots, BotCrashes(b)
    PROVE  /\ bots' \in [Bots -> BotStates]
           /\ \A d \in Bots \ {b} : bots'[d] = bots[d]
           /\ bots'[b].last = 0 /\ bots'[b].upto = 0 /\ bots'[b].step = "next"
<1>1. BotDown \in BotStates /\ BotDown.last = 0 /\ BotDown.upto = 0 /\ BotDown.step = "next"
  BY BotAssumption DEF BotDown, BotStates
<1> QED
  BY <1>1, LoopMoves DEF BotCrashes

(* What no step takes back.                                                 *)
BotKeeps ==
    /\ Len(inbox') >= Len(inbox) /\ \A i \in 1 .. Len(inbox) : inbox'[i] = inbox[i]
    /\ \A i \in UpdateIds : results[i] # "none" => results'[i] = results[i]
    /\ \A t \in LinkTokens : linkTokens[t].state # "fresh" => linkTokens'[t].state # "fresh"
    /\ \A a \in Prompts : decidedBy[a] # 0 => decidedBy'[a] = decidedBy[a]

LEMMA UserSteps ==
    ASSUME BotTyped,
           \/ \E update \in Updates : Send(update)
           \/ \E saved \in Saved : SavePrefs(saved)
           \/ \E a \in Prompts : DecideElsewhere(a)
           \/ \E t \in LinkTokens : TokenExpires(t)
    PROVE  BotTyped' /\ BotKeeps /\ UNCHANGED <<confirmed, bots, results>>
<1>1. ASSUME NEW update \in Updates, Send(update)
      PROVE  BotTyped' /\ BotKeeps /\ UNCHANGED <<confirmed, bots, results>>
  <2>1. /\ inbox' \in Seq(Updates) /\ Len(inbox') = Len(inbox) + 1
        /\ \A i \in 1 .. Len(inbox) : inbox'[i] = inbox[i]
    BY <1>1, BotFacts DEF Send
  <2>2. UNCHANGED <<confirmed, bots, results, linkTokens, links, prefs, decidedBy>>
    BY <1>1 DEF Send
  <2>3. Len(inbox') <= MaxUpdates /\ confirmed \in 0 .. Len(inbox')
    BY <1>1, <2>1, BotFacts DEF Send
  <2>4. \A b \in Bots : bots[b].upto <= Len(inbox')
    BY <2>1, LoopFacts, BotFacts
  <2>5. BotTyped'
    BY <2>1, <2>2, <2>3, <2>4 DEF BotTyped, BotTypeOK, BotPlaces
  <2> QED
    BY <2>1, <2>2, <2>5, BotFacts DEF BotKeeps
<1>2. ASSUME NEW saved \in Saved, SavePrefs(saved)
      PROVE  BotTyped' /\ BotKeeps /\ UNCHANGED <<confirmed, bots, results>>
  <2>1. prefs' \in Preferences
    BY <1>2, BotAssumption DEF SavePrefs
  <2> QED
    BY <1>2, <2>1, BotFacts DEF SavePrefs, BotTyped, BotTypeOK, BotPlaces, BotKeeps
<1>3. ASSUME NEW a \in Prompts, DecideElsewhere(a)
      PROVE  BotTyped' /\ BotKeeps /\ UNCHANGED <<confirmed, bots, results>>
  <2>1. Elsewhere \in 0 .. Elsewhere
    BY BotFacts DEF Elsewhere
  <2>2. decidedBy' \in [Prompts -> 0 .. Elsewhere]
    BY <1>3, <2>1 DEF DecideElsewhere, BotTyped, BotTypeOK
  <2>3. BotTyped'
    BY <1>3, <2>2 DEF DecideElsewhere, BotTyped, BotTypeOK, BotPlaces
  <2> QED
    BY <1>3, <2>3, BotFacts DEF DecideElsewhere, BotTyped, BotTypeOK, BotKeeps
<1>4. ASSUME NEW t \in LinkTokens, TokenExpires(t)
      PROVE  BotTyped' /\ BotKeeps /\ UNCHANGED <<confirmed, bots, results>>
  <2>1. /\ linkTokens' \in [LinkTokens -> [state : {"fresh", "consumed", "expired"},
                                           linked : SUBSET Chats]]
        /\ \A u \in LinkTokens : linkTokens[u].state # "fresh" => linkTokens'[u].state # "fresh"
    BY <1>4 DEF TokenExpires, BotTyped, BotTypeOK
  <2>2. UNCHANGED <<inbox, confirmed, bots, results, links, prefs, decidedBy>>
    BY <1>4 DEF TokenExpires
  <2>3. BotTyped'
    BY <2>1, <2>2 DEF BotTyped, BotTypeOK, BotPlaces
  <2> QED
    BY <2>1, <2>2, <2>3, BotFacts DEF BotKeeps
<1> QED
  BY <1>1, <1>2, <1>3, <1>4

(* Steps of a loop that handle no update to its end.                        *)
LEMMA LoopStepsTyped ==
    ASSUME BotTyped, NEW b \in Bots,
           BotStarts(b) \/ BotCrashes(b) \/ GetUpdates(b) \/ TakeUpdate(b) \/ StartSelect(b)
    PROVE  BotTyped' /\ BotKeeps /\ UNCHANGED <<inbox, results, linkTokens, decidedBy>>
<1>1. UNCHANGED <<inbox, results, linkTokens, links, prefs, decidedBy>>
  BY DEF BotStarts, BotCrashes, GetUpdates, TakeUpdate, StartSelect
<1>2. confirmed' \in 0 .. Len(inbox)
  <2>1. CASE GetUpdates(b)
    BY <2>1, GetUpdatesMoves
  <2>2. CASE ~GetUpdates(b)
    BY <2>2, BotFacts DEF BotStarts, BotCrashes, TakeUpdate, StartSelect
  <2> QED
    BY <2>1, <2>2
<1>3. /\ bots' \in [Bots -> BotStates]
      /\ \A d \in Bots \ {b} : bots'[d] = bots[d]
      /\ bots'[b].last <= bots'[b].upto /\ bots'[b].upto <= Len(inbox)
      /\ bots'[b].step # "next" => bots'[b].last >= 1
  <2>1. CASE BotStarts(b)
    BY <2>1, BotStartMoves, LoopFacts
  <2>2. CASE BotCrashes(b)
    BY <2>2, BotCrashMoves, BotFacts
  <2>3. CASE GetUpdates(b)
    BY <2>3, GetUpdatesMoves, BotFacts
  <2>4. CASE TakeUpdate(b)
    BY <2>4, TakeUpdateMoves, LoopFacts
  <2>5. CASE StartSelect(b)
    BY <2>5, StartSelectMoves, LoopFacts
  <2> QED
    BY <2>1, <2>2, <2>3, <2>4, <2>5
<1>4. BotTyped'
  BY <1>1, <1>2, <1>3 DEF BotTyped, BotTypeOK, BotPlaces
<1> QED
  BY <1>1, <1>4, BotFacts DEF BotKeeps

(* The ends of an update: what they change besides its loop and its result.  *)
LEMMA HandlingSteps ==
    ASSUME BotTyped, NEW b \in Bots,
           HandleFails(b) \/ StartCommit(b) \/ HandleUnlink(b) \/ HandleCallback(b)
    PROVE  /\ bots[b].step # "next"
           /\ \E result \in {"failed", "done"} :
                 /\ Finished(b, result)
                 /\ HandleFails(b) => result = "failed"
           /\ UNCHANGED <<inbox, confirmed>>
  BY DEF HandleFails, StartCommit, HandleUnlink, HandleCallback, Handling

LEMMA CommitMoves ==
    ASSUME BotTyped, NEW b \in Bots, StartCommit(b),
           NEW u \in Updates, u = inbox[bots[b].last]
    PROVE  /\ u.kind = "start" /\ u.token \in LinkTokens /\ u.chat \in Chats
           /\ UNCHANGED decidedBy
           /\ linkTokens' \in [LinkTokens -> [state : {"fresh", "consumed", "expired"},
                                              linked : SUBSET Chats]]
           /\ links' \in [Chats -> {"none", "enabled", "disabled"}]
           /\ prefs' \in Preferences
           /\ \A t \in LinkTokens \ {u.token} : linkTokens'[t] = linkTokens[t]
           /\ ~bots[b].live => linkTokens' = linkTokens
           /\ bots[b].live => /\ linkTokens'[u.token].state = "consumed"
                              /\ linkTokens'[u.token].linked =
                                    linkTokens[u.token].linked \cup {u.chat}
<1>1. u.kind = "start" /\ u.token \in LinkTokens /\ u.chat \in Chats
  BY UpdateKinds DEF StartCommit, Handling
<1>2. UNCHANGED decidedBy
  BY DEF StartCommit
<1>3. CASE ~bots[b].live
  <2>1. UNCHANGED <<linkTokens, links, prefs>>
    BY <1>3 DEF StartCommit
  <2> QED
    BY <1>1, <1>2, <1>3, <2>1 DEF BotTyped, BotTypeOK
<1>4. CASE bots[b].live
  <2> DEFINE row == [state |-> "consumed", linked |-> linkTokens[u.token].linked \cup {u.chat}]
  <2>1. /\ linkTokens' = [linkTokens EXCEPT ![u.token] = row]
        /\ links' = [links EXCEPT ![u.chat] = "enabled"]
        /\ prefs' = [chat |-> u.chat, enabled |-> TRUE]
    BY <1>1, <1>4 DEF StartCommit, BotTyped, BotTypeOK
  <2>2. /\ row \in [state : {"fresh", "consumed", "expired"}, linked : SUBSET Chats]
        /\ row.state = "consumed" /\ row.linked = linkTokens[u.token].linked \cup {u.chat}
    BY <1>1 DEF BotTyped, BotTypeOK
  <2>3. prefs' \in Preferences
    BY <1>1, <2>1 DEF Preferences
  <2> HIDE DEF row
  <2>4. links' \in [Chats -> {"none", "enabled", "disabled"}]
    BY <1>1, <2>1 DEF BotTyped, BotTypeOK
  <2>5. /\ linkTokens' \in [LinkTokens -> [state : {"fresh", "consumed", "expired"},
                                           linked : SUBSET Chats]]
        /\ linkTokens'[u.token] = row
        /\ \A t \in LinkTokens \ {u.token} : linkTokens'[t] = linkTokens[t]
    BY <1>1, <2>1, <2>2 DEF BotTyped, BotTypeOK
  <2> QED
    BY <1>1, <1>2, <1>4, <2>2, <2>3, <2>4, <2>5
<1> QED
  BY <1>3, <1>4

LEMMA CallbackMoves ==
    ASSUME BotTyped, NEW b \in Bots, HandleCallback(b),
           NEW u \in Updates, u = inbox[bots[b].last]
    PROVE  /\ u.kind = "press" /\ u.prompt \in Prompts
           /\ UNCHANGED <<linkTokens, links, prefs>>
           /\ decidedBy' \in [Prompts -> 0 .. Elsewhere]
           /\ \A a \in Prompts \ {u.prompt} : decidedBy'[a] = decidedBy[a]
           /\ decidedBy'[u.prompt] = IF decidedBy[u.prompt] = 0 THEN bots[b].last
                                     ELSE decidedBy[u.prompt]
<1>1. u.kind = "press" /\ u.prompt \in Prompts
  BY UpdateKinds DEF HandleCallback, Handling
<1>2. UNCHANGED <<linkTokens, links, prefs>>
  BY DEF HandleCallback
<1>3. bots[b].last \in 0 .. Elsewhere
  BY LoopFacts, BotFacts DEF Elsewhere
<1>4. decidedBy' = [decidedBy EXCEPT ![u.prompt] = IF @ = 0 THEN bots[b].last ELSE @]
  BY DEF HandleCallback
<1>5. decidedBy \in [Prompts -> 0 .. Elsewhere]
  BY DEF BotTyped, BotTypeOK
<1> QED
  BY <1>1, <1>2, <1>3, <1>4, <1>5

LEMMA HandlingTyped ==
    ASSUME BotTyped, NEW b \in Bots,
           HandleFails(b) \/ StartCommit(b) \/ HandleUnlink(b) \/ HandleCallback(b)
    PROVE  BotTyped' /\ BotKeeps
<1>1. PICK result \in {"failed", "done"} : Finished(b, result)
  BY HandlingSteps
<1>2. /\ bots' \in [Bots -> BotStates]
      /\ \A d \in Bots \ {b} : bots'[d] = bots[d]
      /\ bots'[b].last = bots[b].last /\ bots'[b].upto = bots[b].upto
      /\ bots'[b].step = "next"
      /\ results' \in [UpdateIds -> {"none", "failed", "done"}]
      /\ \A i \in UpdateIds : results[i] # "none" => results'[i] = results[i]
  BY <1>1, HandlingSteps, FinishedUpdates
<1>3. UNCHANGED <<inbox, confirmed>>
  BY HandlingSteps
<1>4. PICK u \in Updates : u = inbox[bots[b].last]
  BY HandlingSteps, LoopFacts
<1>5. /\ linkTokens' \in [LinkTokens -> [state : {"fresh", "consumed", "expired"},
                                         linked : SUBSET Chats]]
      /\ links' \in [Chats -> {"none", "enabled", "disabled"}]
      /\ prefs' \in Preferences
      /\ decidedBy' \in [Prompts -> 0 .. Elsewhere]
      /\ \A t \in LinkTokens : linkTokens[t].state # "fresh" => linkTokens'[t].state # "fresh"
      /\ \A a \in Prompts : decidedBy[a] # 0 => decidedBy'[a] = decidedBy[a]
  <2>1. CASE HandleFails(b)
    <3>1. UNCHANGED <<linkTokens, links, prefs, decidedBy>>
      BY <2>1 DEF HandleFails
    <3> QED
      BY <3>1 DEF BotTyped, BotTypeOK
  <2>2. CASE StartCommit(b)
    <3>1. UNCHANGED decidedBy
      BY <1>4, <2>2, CommitMoves
    <3>2. \A t \in LinkTokens : linkTokens[t].state # "fresh" => linkTokens'[t].state # "fresh"
      BY <1>4, <2>2, CommitMoves
    <3> QED
      BY <1>4, <2>2, <3>1, <3>2, CommitMoves DEF BotTyped, BotTypeOK
  <2>3. CASE HandleUnlink(b)
    <3>1. UNCHANGED <<linkTokens, prefs, decidedBy>>
      BY <2>3 DEF HandleUnlink
    <3>2. links' \in [Chats -> {"none", "enabled", "disabled"}]
      BY <2>3 DEF HandleUnlink, BotTyped, BotTypeOK
    <3> QED
      BY <3>1, <3>2 DEF BotTyped, BotTypeOK
  <2>4. CASE HandleCallback(b)
    <3>1. UNCHANGED <<linkTokens, links, prefs>>
      BY <1>4, <2>4, CallbackMoves
    <3> QED
      BY <1>4, <2>4, <3>1, CallbackMoves DEF BotTyped, BotTypeOK
  <2> QED
    BY <2>1, <2>2, <2>3, <2>4
<1>6. \A d \in Bots : /\ bots'[d].last <= bots'[d].upto /\ bots'[d].upto <= Len(inbox)
                      /\ bots'[d].step # "next" => bots'[d].last >= 1
  BY <1>2, LoopFacts
<1>7. BotTyped'
  BY <1>2, <1>3, <1>5, <1>6 DEF BotTyped, BotTypeOK, BotPlaces
<1> QED
  BY <1>2, <1>3, <1>5, <1>7, BotFacts DEF BotKeeps

LEMMA BotStep ==
    ASSUME BotTyped, [BotNext]_botVars
    PROVE  BotTyped' /\ BotKeeps
<1>1. CASE UNCHANGED botVars
  BY <1>1, BotFacts DEF botVars, BotTyped, BotTypeOK, BotPlaces, BotKeeps
<1>2. CASE BotNext
  BY <1>2, UserSteps, LoopStepsTyped, HandlingTyped DEF BotNext, BotHandles
<1> QED
  BY <1>1, <1>2

LEMMA BotInitially ==
    ASSUME BotInit
    PROVE  BotTyped
<1>1. /\ BotDown \in BotStates /\ BotDown.last = 0 /\ BotDown.upto = 0 /\ BotDown.step = "next"
      /\ MaxUpdates \in Nat
  BY BotAssumption DEF BotDown, BotStates
<1>2. bots \in [Bots -> BotStates] /\ \A b \in Bots : bots[b] = BotDown
  BY <1>1 DEF BotInit
<1>3. inbox \in Seq(Updates) /\ Len(inbox) = 0 /\ confirmed = 0
  BY DEF BotInit
<1>4. /\ prefs \in Preferences
      /\ linkTokens \in [LinkTokens -> [state : {"fresh", "consumed", "expired"},
                                        linked : SUBSET Chats]]
  BY DEF BotInit, Preferences
<1>5. decidedBy \in [Prompts -> 0 .. Elsewhere]
  BY <1>1 DEF BotInit, Elsewhere
<1>6. /\ links \in [Chats -> {"none", "enabled", "disabled"}]
      /\ results \in [UpdateIds -> {"none", "failed", "done"}]
  BY DEF BotInit
<1> QED
  BY <1>1, <1>2, <1>3, <1>4, <1>5, <1>6 DEF BotTyped, BotTypeOK, BotPlaces

(* Updates, loops, tokens, links and decisions keep their types, for any     *)
(* number of processes, chats, tokens, approvals and updates.                *)
THEOREM BotTypeCorrect == BotSpec => []BotTypeOK
<1>1. BotTyped => BotTypeOK
  BY DEF BotTyped
<1>2. BotTyped /\ [BotNext]_botVars => BotTyped'
  BY BotStep
<1> QED
  BY <1>1, <1>2, BotInitially, PTL DEF BotSpec

(* Each loop goes through the updates in order, and what lies behind it, or  *)
(* behind what Telegram keeps, was handled.                                  *)
InOrder ==
    /\ \A i \in UpdateIds : i <= confirmed => results[i] # "none"
    /\ \A b \in Bots, i \in UpdateIds :
          i < bots[b].last \/ (i = bots[b].last /\ bots[b].step = "next") => results[i] # "none"
    /\ \A i \in UpdateIds : i > Len(inbox) => results[i] = "none"

IsStart(i, t) == inbox[i].kind = "start" /\ inbox[i].token = t
IsPress(i, a) == inbox[i].kind = "press" /\ inbox[i].prompt = a

(* A token passed on, or a button pressed, successfully has had its effect.  *)
DoneTells ==
    \A i \in 1 .. Len(inbox) : results[i] = "done" =>
        /\ \A t \in LinkTokens : IsStart(i, t) => linkTokens[t].state # "fresh"
        /\ \A a \in Prompts : IsPress(i, a) => decidedBy[a] # 0

(* Whoever links a chat, is about to, or decides came first but for failures.*)
LiveIsFirst ==
    \A b \in Bots : bots[b].step = "commit" /\ bots[b].live =>
        \A t \in LinkTokens : IsStart(bots[b].last, t) =>
            \A i \in 1 .. bots[b].last - 1 : IsStart(i, t) => results[i] = "failed"

(* A token that was not fresh when it was read is not used.                  *)
DeadIsSpent ==
    \A b \in Bots : bots[b].step = "commit" /\ ~bots[b].live =>
        \A t \in LinkTokens : IsStart(bots[b].last, t) => linkTokens[t].state # "fresh"

LinkedByFirst ==
    \A t \in LinkTokens : \A c \in linkTokens[t].linked :
        \E j \in 1 .. Len(inbox) :
            /\ IsStart(j, t) /\ inbox[j].chat = c
            /\ \A i \in 1 .. j - 1 : IsStart(i, t) => results[i] = "failed"

DecidedByFirst ==
    \A a \in Prompts : decidedBy[a] \in UpdateIds =>
        /\ decidedBy[a] \in 1 .. Len(inbox) /\ IsPress(decidedBy[a], a)
        /\ \A i \in 1 .. decidedBy[a] - 1 : IsPress(i, a) => results[i] = "failed"

BotInv == InOrder /\ DoneTells /\ DeadIsSpent /\ LiveIsFirst /\ LinkedByFirst /\ DecidedByFirst

LEMMA InOrderStep ==
    ASSUME BotTyped, InOrder, [BotNext]_botVars
    PROVE  InOrder'
<1>1. BotKeeps /\ BotTyped'
  BY BotStep
<1>2. CASE UNCHANGED <<confirmed, bots, results>>
  BY <1>1, <1>2, BotFacts DEF InOrder, BotKeeps
<1>3. ASSUME NEW b \in Bots,
             BotStarts(b) \/ BotCrashes(b) \/ GetUpdates(b) \/ TakeUpdate(b) \/ StartSelect(b)
      PROVE  InOrder'
  <2>1. UNCHANGED <<inbox, results>>
    BY <1>3, LoopStepsTyped
  <2>2. /\ \A i \in UpdateIds : i <= confirmed' => results[i] # "none"
        /\ \A i \in UpdateIds :
              i < bots'[b].last \/ (i = bots'[b].last /\ bots'[b].step = "next")
                => results[i] # "none"
        /\ \A d \in Bots \ {b} : bots'[d] = bots[d]
    <3>0. \A i \in UpdateIds : i \in Nat /\ i >= 1
      BY BotFacts
    <3>1. CASE BotStarts(b)
      BY <3>1, BotStartMoves DEF BotStarts, InOrder
    <3>2. CASE BotCrashes(b)
      <4>1. confirmed' = confirmed
        BY <3>2 DEF BotCrashes
      <4>2. bots'[b].last = 0 /\ \A d \in Bots \ {b} : bots'[d] = bots[d]
        BY <3>2, BotCrashMoves
      <4>3. \A i \in UpdateIds : ~(i < bots'[b].last) /\ i # bots'[b].last
        BY <3>0, <4>2
      <4> QED
        BY <4>1, <4>2, <4>3 DEF InOrder
    <3>3. CASE GetUpdates(b)
      <4>1. /\ bots[b].step = "next" /\ bots[b].last \in Nat /\ confirmed \in Nat
            /\ confirmed' \in {confirmed, bots[b].last}
            /\ bots'[b].last = confirmed'
            /\ \A d \in Bots \ {b} : bots'[d] = bots[d]
        BY <3>3, GetUpdatesMoves, LoopFacts, BotFacts
      <4>2. \A i \in UpdateIds : i <= confirmed' => results[i] # "none"
        BY <3>0, <4>1 DEF InOrder
      <4> QED
        BY <3>0, <4>1, <4>2
    <3>4. CASE TakeUpdate(b)
      <4>1. /\ bots[b].step = "next" /\ bots[b].last \in Nat
            /\ bots'[b].step = "handle" /\ bots'[b].last = bots[b].last + 1
            /\ \A d \in Bots \ {b} : bots'[d] = bots[d]
        BY <3>4, TakeUpdateMoves, LoopFacts
      <4>2. confirmed' = confirmed
        BY <3>4 DEF TakeUpdate
      <4> QED
        BY <3>0, <4>1, <4>2 DEF InOrder
    <3>5. CASE StartSelect(b)
      BY <3>5, StartSelectMoves DEF StartSelect, InOrder
    <3> QED
      BY <1>3, <3>1, <3>2, <3>3, <3>4, <3>5
  <2> QED
    BY <2>1, <2>2 DEF InOrder
<1>4. ASSUME NEW b \in Bots,
             HandleFails(b) \/ StartCommit(b) \/ HandleUnlink(b) \/ HandleCallback(b)
      PROVE  InOrder'
  <2>1. PICK result \in {"failed", "done"} : Finished(b, result)
    BY <1>4, HandlingSteps
  <2>2. UNCHANGED <<inbox, confirmed>> /\ bots[b].step # "next"
    BY <1>4, HandlingSteps
  <2>3. /\ \A d \in Bots \ {b} : bots'[d] = bots[d]
        /\ bots'[b].last = bots[b].last
        /\ results'[bots[b].last] # "none"
        /\ \A i \in UpdateIds \ {bots[b].last} : results'[i] = results[i]
    BY <2>1, <2>2, FinishedUpdates
  <2>4. bots[b].last \in 1 .. Len(inbox)
    BY <2>2, LoopFacts
  <2>5. \A i \in UpdateIds : results[i] # "none" => results'[i] # "none"
    BY <2>3
  <2>6. \A i \in UpdateIds : i > Len(inbox) => results'[i] = "none"
    BY <2>3, <2>4, BotFacts DEF InOrder
  <2>7. \A i \in UpdateIds : i <= bots[b].last => results'[i] # "none"
    BY <2>3, <2>4, <2>5, BotFacts DEF InOrder
  <2> QED
    BY <2>2, <2>3, <2>4, <2>5, <2>6, <2>7, BotFacts DEF InOrder
<1> QED
  BY <1>2, <1>3, <1>4, UserSteps DEF botVars, BotNext, BotHandles

(* What came before an update stays before it.                               *)
LEMMA FirstStays ==
    ASSUME BotTyped, BotKeeps, NEW j \in 1 .. Len(inbox), NEW t, NEW a
    PROVE  /\ IsStart(j, t)' <=> IsStart(j, t)
           /\ IsPress(j, a)' <=> IsPress(j, a)
           /\ (\A i \in 1 .. j - 1 : IsStart(i, t) => results[i] = "failed")
                => \A i \in 1 .. j - 1 : (IsStart(i, t) => results[i] = "failed")'
           /\ (\A i \in 1 .. j - 1 : IsPress(i, a) => results[i] = "failed")
                => \A i \in 1 .. j - 1 : (IsPress(i, a) => results[i] = "failed")'
<1>1. \A i \in 1 .. j : i \in UpdateIds /\ inbox'[i] = inbox[i]
                        /\ (results[i] = "failed" => results'[i] = "failed")
  BY BotFacts DEF BotKeeps
<1>2. j \in 1 .. j /\ \A i \in 1 .. j - 1 : i \in 1 .. j
  OBVIOUS
<1> QED
  BY <1>1, <1>2 DEF IsStart, IsPress

LEMMA DoneTellsStep ==
    ASSUME BotTyped, InOrder, InOrder', DoneTells, DeadIsSpent, [BotNext]_botVars
    PROVE  DoneTells'
<1>1. BotKeeps /\ BotTyped'
  BY BotStep
<1>2. ASSUME NEW i \in 1 .. Len(inbox'), results'[i] = "done", results[i] = "done"
      PROVE  /\ \A t \in LinkTokens : IsStart(i, t)' => linkTokens'[t].state # "fresh"
             /\ \A a \in Prompts : IsPress(i, a)' => decidedBy'[a] # 0
  <2>1. i \in UpdateIds
    BY <1>1, BotFacts DEF BotTyped, BotPlaces, UpdateIds
  <2>2. i \in 1 .. Len(inbox)
    BY <1>2, <2>1, BotFacts DEF InOrder
  <2>3. inbox'[i] = inbox[i]
    BY <1>1, <2>2 DEF BotKeeps
  <2> QED
    BY <1>1, <1>2, <2>2, <2>3 DEF DoneTells, BotKeeps, IsStart, IsPress
<1>3. ASSUME NEW i \in 1 .. Len(inbox'), results'[i] = "done", results[i] # "done"
      PROVE  /\ \A t \in LinkTokens : IsStart(i, t)' => linkTokens'[t].state # "fresh"
             /\ \A a \in Prompts : IsPress(i, a)' => decidedBy'[a] # 0
  <2>1. i \in UpdateIds /\ results'[i] # results[i]
    BY <1>1, <1>3, BotFacts DEF BotTyped, BotPlaces, UpdateIds
  <2>2. PICK b \in Bots :
           HandleFails(b) \/ StartCommit(b) \/ HandleUnlink(b) \/ HandleCallback(b)
    <3>1. ~(UNCHANGED results)
      BY <2>1
    <3> QED
      BY <3>1, UserSteps, LoopStepsTyped DEF botVars, BotNext, BotHandles
  <2>3. PICK result \in {"failed", "done"} :
           Finished(b, result) /\ (HandleFails(b) => result = "failed")
    BY <2>2, HandlingSteps
  <2>4. /\ i = bots[b].last /\ results'[i] = result /\ result = "done"
    BY <1>3, <2>1, <2>2, <2>3, HandlingSteps, FinishedUpdates
  <2>5. ~HandleFails(b) /\ inbox' = inbox
    BY <2>2, <2>3, <2>4, HandlingSteps
  <2>6. PICK u \in Updates : u = inbox[i]
    BY <2>2, <2>4, HandlingSteps, LoopFacts
  <2>7. CASE StartCommit(b)
    <3>1. u.kind = "start" /\ u.token \in LinkTokens
      BY <2>4, <2>6, <2>7, CommitMoves
    <3>2. linkTokens'[u.token].state # "fresh"
      <4>1. CASE bots[b].live
        BY <2>4, <2>6, <2>7, <4>1, CommitMoves
      <4>2. CASE ~bots[b].live
        <5>1. bots[b].step = "commit" /\ IsStart(bots[b].last, u.token)
          BY <2>4, <2>6, <2>7, <3>1 DEF StartCommit, Handling, IsStart
        <5> QED
          BY <1>1, <3>1, <4>2, <5>1 DEF DeadIsSpent, BotKeeps
      <4> QED
        BY <4>1, <4>2
    <3> QED
      BY <2>5, <2>6, <3>1, <3>2 DEF IsStart, IsPress
  <2>8. CASE HandleUnlink(b)
    BY <2>4, <2>5, <2>8 DEF HandleUnlink, Handling, IsStart, IsPress
  <2>9. CASE HandleCallback(b)
    <3>1. u.kind = "press" /\ u.prompt \in Prompts /\ decidedBy'[u.prompt] # 0
      BY <2>2, <2>4, <2>6, <2>9, CallbackMoves, HandlingSteps, LoopFacts
    <3> QED
      BY <2>5, <2>6, <3>1 DEF IsStart, IsPress
  <2> QED
    BY <2>2, <2>5, <2>7, <2>8, <2>9
<1>4. \A i \in 1 .. Len(inbox') : results'[i] = "done" =>
             /\ \A t \in LinkTokens : IsStart(i, t)' => linkTokens'[t].state # "fresh"
             /\ \A a \in Prompts : IsPress(i, a)' => decidedBy'[a] # 0
  BY <1>2, <1>3
<1> QED
  BY <1>4 DEF DoneTells, IsStart, IsPress

(* What a loop that commits has read, before and after a step.              *)
LEMMA Committing ==
    ASSUME BotTyped, [BotNext]_botVars, NEW b \in Bots, bots'[b].step = "commit"
    PROVE  /\ bots'[b].last = bots[b].last
           /\ bots[b].last \in 1 .. Len(inbox)
           /\ \/ StartSelect(b)
              \/ bots[b].step = "commit" /\ bots'[b].live = bots[b].live
<1>1. CASE UNCHANGED bots
  BY <1>1, LoopFacts
<1>2. ASSUME NEW d \in Bots,
             BotStarts(d) \/ BotCrashes(d) \/ BotHandles(d)
      PROVE  /\ bots'[b].last = bots[b].last
             /\ bots[b].last \in 1 .. Len(inbox)
             /\ \/ StartSelect(b)
                \/ bots[b].step = "commit" /\ bots'[b].live = bots[b].live
  <2>1. CASE HandleFails(d) \/ StartCommit(d) \/ HandleUnlink(d) \/ HandleCallback(d)
    <3>1. b # d /\ bots'[b] = bots[b]
      BY <2>1, HandlingSteps, FinishedUpdates
    <3> QED
      BY <3>1, LoopFacts
  <2>2. CASE BotStarts(d)
    BY <2>2, BotStartMoves, LoopFacts
  <2>3. CASE BotCrashes(d)
    BY <2>3, BotCrashMoves, LoopFacts
  <2>4. CASE GetUpdates(d)
    BY <2>4, GetUpdatesMoves, LoopFacts
  <2>5. CASE TakeUpdate(d)
    BY <2>5, TakeUpdateMoves, LoopFacts
  <2>6. CASE StartSelect(d)
    BY <2>6, StartSelectMoves, LoopFacts
  <2> QED
    BY <1>2, <2>1, <2>2, <2>3, <2>4, <2>5, <2>6 DEF BotHandles
<1> QED
  BY <1>1, <1>2, UserSteps DEF botVars, BotNext

LEMMA CommittingStep ==
    ASSUME BotTyped, InOrder, DoneTells, DeadIsSpent, LiveIsFirst, [BotNext]_botVars
    PROVE  DeadIsSpent' /\ LiveIsFirst'
<1>1. BotKeeps
  BY BotStep
<1>2. ASSUME NEW b \in Bots, bots'[b].step = "commit", NEW t \in LinkTokens,
             NEW j \in 1 .. Len(inbox), j = bots[b].last, j = bots'[b].last, IsStart(j, t)'
      PROVE  /\ ~bots'[b].live => linkTokens'[t].state # "fresh"
             /\ bots'[b].live => \A i \in 1 .. j - 1 :
                                    (IsStart(i, t) => results[i] = "failed")'
  <2>1. \/ StartSelect(b)
        \/ bots[b].step = "commit" /\ bots'[b].live = bots[b].live
    BY <1>2, Committing
  <2>2. IsStart(j, t)
    BY <1>1, <1>2 DEF IsStart, BotKeeps
  <2>3. /\ ~bots'[b].live => linkTokens[t].state # "fresh"
        /\ bots'[b].live => \A i \in 1 .. j - 1 : IsStart(i, t) => results[i] = "failed"
    <3>1. CASE StartSelect(b)
      <4>1. /\ bots[b].step = "handle"
            /\ bots'[b].live <=> linkTokens[t].state = "fresh"
        BY <1>2, <2>2, <3>1, StartSelectMoves DEF IsStart
      <4>2. ASSUME linkTokens[t].state = "fresh", NEW i \in 1 .. j - 1, IsStart(i, t)
            PROVE  results[i] = "failed"
        <5>1. i \in 1 .. Len(inbox) /\ i \in UpdateIds /\ i < j
          BY BotFacts
        <5>2. results[i] # "none"
          BY <1>2, <5>1 DEF InOrder
        <5>3. results[i] # "done"
          BY <4>2, <5>1 DEF DoneTells
        <5> QED
          BY <5>1, <5>2, <5>3, BotFacts
      <4> QED
        BY <4>1, <4>2
    <3>2. CASE bots[b].step = "commit" /\ bots'[b].live = bots[b].live
      BY <1>2, <2>2, <3>2 DEF DeadIsSpent, LiveIsFirst
    <3> QED
      BY <2>1, <3>1, <3>2
  <2>4. ASSUME bots'[b].live
        PROVE  \A i \in 1 .. j - 1 : (IsStart(i, t) => results[i] = "failed")'
    <3>1. \A i \in 1 .. j - 1 : IsStart(i, t) => results[i] = "failed"
      BY <2>3, <2>4
    <3> QED
      BY <1>1, <3>1, FirstStays
  <2> QED
    BY <1>1, <2>3, <2>4 DEF BotKeeps
<1>3. \A b \in Bots : bots'[b].step = "commit" =>
         bots'[b].last = bots[b].last /\ bots[b].last \in 1 .. Len(inbox)
  BY Committing
<1>4. DeadIsSpent'
  BY <1>2, <1>3 DEF DeadIsSpent, IsStart
<1>5. LiveIsFirst'
  BY <1>2, <1>3 DEF LiveIsFirst, IsStart
<1> QED
  BY <1>4, <1>5

LEMMA LinkedStep ==
    ASSUME BotTyped, LiveIsFirst, LinkedByFirst, [BotNext]_botVars
    PROVE  LinkedByFirst'
<1>1. BotKeeps /\ BotTyped'
  BY BotStep
<1>2. ASSUME NEW t \in LinkTokens, NEW c \in linkTokens'[t].linked
      PROVE  \E j \in 1 .. Len(inbox) :
                /\ IsStart(j, t) /\ inbox[j].chat = c
                /\ \A i \in 1 .. j - 1 : IsStart(i, t) => results[i] = "failed"
  <2>1. CASE c \in linkTokens[t].linked
    BY <2>1 DEF LinkedByFirst
  <2>2. CASE c \notin linkTokens[t].linked
    <3>1. PICK b \in Bots : StartCommit(b)
      <4>1. linkTokens'[t].linked # linkTokens[t].linked
        BY <1>2, <2>2
      <4>2. ASSUME NEW s \in LinkTokens, TokenExpires(s)
            PROVE  linkTokens'[t].linked = linkTokens[t].linked
        BY <4>2 DEF TokenExpires, BotTyped, BotTypeOK
      <4>3. UNCHANGED linkTokens => linkTokens'[t].linked = linkTokens[t].linked
        OBVIOUS
      <4> QED
        BY <4>1, <4>2, <4>3
        DEF botVars, BotNext, BotHandles, Send, SavePrefs, DecideElsewhere, BotStarts, BotCrashes,
            GetUpdates, TakeUpdate, HandleFails, StartSelect, HandleUnlink, HandleCallback
    <3>2. bots[b].step = "commit" /\ bots[b].last \in 1 .. Len(inbox)
      BY <3>1, LoopFacts DEF StartCommit, Handling
    <3>3. PICK u \in Updates : u = inbox[bots[b].last]
      BY <3>2, LoopFacts
    <3>4. bots[b].live /\ u.kind = "start" /\ u.token = t /\ u.chat = c
      BY <1>2, <2>2, <3>1, <3>3, CommitMoves
    <3>5. IsStart(bots[b].last, t)
      BY <3>3, <3>4 DEF IsStart
    <3> QED
      BY <3>2, <3>3, <3>4, <3>5 DEF LiveIsFirst
  <2> QED
    BY <2>1, <2>2
<1>3. ASSUME NEW t \in LinkTokens, NEW c \in linkTokens'[t].linked
      PROVE  \E j \in 1 .. Len(inbox') :
                /\ IsStart(j, t)' /\ inbox'[j].chat = c
                /\ \A i \in 1 .. j - 1 : (IsStart(i, t) => results[i] = "failed")'
  <2>1. PICK j \in 1 .. Len(inbox) :
                /\ IsStart(j, t) /\ inbox[j].chat = c
                /\ \A i \in 1 .. j - 1 : IsStart(i, t) => results[i] = "failed"
    BY <1>2
  <2>2. inbox'[j] = inbox[j] /\ j \in 1 .. Len(inbox')
    BY <1>1, BotFacts DEF BotKeeps, BotTyped, BotTypeOK
  <2>3. IsStart(j, t)' /\ \A i \in 1 .. j - 1 : (IsStart(i, t) => results[i] = "failed")'
    BY <1>1, <2>1, FirstStays
  <2> QED
    BY <2>1, <2>2, <2>3
<1> QED
  BY <1>3 DEF LinkedByFirst, IsStart

LEMMA DecidedStep ==
    ASSUME BotTyped, InOrder, DoneTells, DecidedByFirst, [BotNext]_botVars
    PROVE  DecidedByFirst'
<1>1. BotKeeps /\ BotTyped'
  BY BotStep
<1>2. ASSUME NEW a \in Prompts, decidedBy'[a] \in UpdateIds
      PROVE  /\ decidedBy'[a] \in 1 .. Len(inbox) /\ IsPress(decidedBy'[a], a)
             /\ \A i \in 1 .. decidedBy'[a] - 1 : IsPress(i, a) => results[i] = "failed"
  <2>1. CASE decidedBy'[a] = decidedBy[a]
    BY <1>2, <2>1 DEF DecidedByFirst
  <2>2. CASE decidedBy'[a] # decidedBy[a]
    <3>1. decidedBy[a] = 0
      BY <1>1, <2>2 DEF BotKeeps
    <3>2. PICK b \in Bots : HandleCallback(b)
      <4>1. ASSUME NEW q \in Prompts, DecideElsewhere(q)
            PROVE  decidedBy'[a] = decidedBy[a] \/ decidedBy'[a] = Elsewhere
        BY <4>1 DEF DecideElsewhere, BotTyped, BotTypeOK
      <4>2. Elsewhere \notin UpdateIds
        BY BotFacts DEF Elsewhere, UpdateIds
      <4> QED
        BY <1>2, <2>2, <4>1, <4>2
        DEF botVars, BotNext, BotHandles, Send, SavePrefs, TokenExpires, BotStarts, BotCrashes,
            GetUpdates, TakeUpdate, HandleFails, StartSelect, StartCommit, HandleUnlink
    <3>3. bots[b].step = "handle" /\ bots[b].last \in 1 .. Len(inbox)
      BY <3>2, LoopFacts DEF HandleCallback, Handling
    <3>4. PICK u \in Updates : u = inbox[bots[b].last]
      BY <3>3, LoopFacts
    <3>5. u.kind = "press" /\ u.prompt = a /\ decidedBy'[a] = bots[b].last
      BY <2>2, <3>1, <3>2, <3>4, CallbackMoves
    <3>6. IsPress(bots[b].last, a)
      BY <3>4, <3>5 DEF IsPress
    <3>7. ASSUME NEW i \in 1 .. bots[b].last - 1, IsPress(i, a)
          PROVE  results[i] = "failed"
      <4>1. i \in 1 .. Len(inbox) /\ i \in UpdateIds /\ i < bots[b].last
        BY <3>3, BotFacts
      <4>2. results[i] # "none"
        BY <4>1 DEF InOrder
      <4>3. results[i] # "done"
        BY <3>1, <3>7, <4>1 DEF DoneTells
      <4> QED
        BY <4>1, <4>2, <4>3, BotFacts
    <3> QED
      BY <3>3, <3>5, <3>6, <3>7
  <2> QED
    BY <2>1, <2>2
<1>3. ASSUME NEW a \in Prompts, NEW j \in UpdateIds, decidedBy'[a] = j
      PROVE  /\ j \in 1 .. Len(inbox') /\ IsPress(j, a)'
             /\ \A i \in 1 .. j - 1 : (IsPress(i, a) => results[i] = "failed")'
  <2>1. /\ j \in 1 .. Len(inbox) /\ IsPress(j, a)
        /\ \A i \in 1 .. j - 1 : IsPress(i, a) => results[i] = "failed"
    BY <1>2, <1>3
  <2>2. j \in 1 .. Len(inbox')
    BY <1>1, <2>1, BotFacts DEF BotKeeps, BotTyped, BotTypeOK
  <2> QED
    BY <1>1, <2>1, <2>2, FirstStays
<1>4. ASSUME NEW a \in Prompts, decidedBy'[a] \in UpdateIds
      PROVE  /\ decidedBy'[a] \in 1 .. Len(inbox') /\ IsPress(decidedBy[a], a)'
             /\ \A i \in 1 .. decidedBy'[a] - 1 : (IsPress(i, a) => results[i] = "failed")'
  BY <1>3, <1>4 DEF IsPress
<1> QED
  BY <1>4 DEF DecidedByFirst

LEMMA BotInvStep ==
    ASSUME BotTyped, BotInv, [BotNext]_botVars
    PROVE  BotInv'
<1>1. InOrder'
  BY InOrderStep DEF BotInv
<1> QED
  BY <1>1, DoneTellsStep, CommittingStep, LinkedStep, DecidedStep DEF BotInv

LEMMA BotInvInitially ==
    ASSUME BotInit
    PROVE  BotInv
<1>1. /\ inbox = <<>> /\ Len(inbox) = 0 /\ confirmed = 0
      /\ \A b \in Bots : bots[b] = BotDown
      /\ \A i \in UpdateIds : results[i] = "none" /\ i \in Nat /\ i >= 1
      /\ \A t \in LinkTokens : linkTokens[t].linked = {}
      /\ \A a \in Prompts : decidedBy[a] = 0
  BY BotAssumption DEF BotInit, UpdateIds
<1>2. BotDown.last = 0 /\ BotDown.step = "next"
  BY DEF BotDown
<1>3. InOrder
  BY <1>1, <1>2 DEF InOrder
<1> QED
  BY <1>1, <1>2, <1>3
  DEF BotInv, DoneTells, DeadIsSpent, LiveIsFirst, LinkedByFirst, DecidedByFirst

(* However many loops overlap and however often they restart, a token that   *)
(* the dashboard handed out links one chat only, unless an update that       *)
(* passed it on failed to be handled.                                        *)
THEOREM TokenLinks == BotSpec => []TokenLinksOneChat
<1>1. BotTyped /\ BotInv /\ [BotNext]_botVars => (BotTyped /\ BotInv)'
  BY BotStep, BotInvStep
<1>2. BotTyped /\ BotInv => TokenLinksOneChat
  <2>1. ASSUME BotTyped, BotInv, NEW t \in LinkTokens,
               NEW c \in linkTokens[t].linked, NEW d \in linkTokens[t].linked, c # d
        PROVE  \E i \in DOMAIN inbox :
                  inbox[i].kind = "start" /\ inbox[i].token = t /\ results[i] = "failed"
    <3>1. PICK j \in 1 .. Len(inbox) :
             /\ IsStart(j, t) /\ inbox[j].chat = c
             /\ \A i \in 1 .. j - 1 : IsStart(i, t) => results[i] = "failed"
      BY <2>1 DEF BotInv, LinkedByFirst
    <3>2. PICK k \in 1 .. Len(inbox) :
             /\ IsStart(k, t) /\ inbox[k].chat = d
             /\ \A i \in 1 .. k - 1 : IsStart(i, t) => results[i] = "failed"
      BY <2>1 DEF BotInv, LinkedByFirst
    <3>3. j # k /\ DOMAIN inbox = 1 .. Len(inbox)
      BY <2>1, <3>1, <3>2, BotFacts
    <3>4. CASE j < k
      <4>1. j \in 1 .. k - 1
        BY <3>4
      <4> QED
        BY <3>1, <3>2, <3>3, <4>1 DEF IsStart
    <3>5. CASE k < j
      <4>1. k \in 1 .. j - 1
        BY <3>5
      <4> QED
        BY <3>1, <3>2, <3>3, <4>1 DEF IsStart
    <3> QED
      BY <3>3, <3>4, <3>5
  <2> QED
    BY <2>1 DEF TokenLinksOneChat
<1> QED
  BY <1>1, <1>2, BotInitially, BotInvInitially, PTL DEF BotSpec

(* Of the presses of one approval's buttons none overtakes an earlier one    *)
(* that was handled, for any number of loops, restarts and deliveries.       *)
THEOREM FirstPress == BotSpec => []FirstPressDecides
<1>1. BotTyped /\ BotInv /\ [BotNext]_botVars => (BotTyped /\ BotInv)'
  BY BotStep, BotInvStep
<1>2. BotTyped /\ BotInv => FirstPressDecides
  BY DEF BotInv, DecidedByFirst, IsPress, FirstPressDecides
<1> QED
  BY <1>1, <1>2, BotInitially, BotInvInitially, PTL DEF BotSpec


-----------------------------------------------------------------------------
(* Intent envelopes                                                         *)

(* No row has the CID of a UCAN, so none gets a cosigner; without one no     *)
(* envelope is created, and without an envelope no intent is silent.        *)
DeadEnd ==
    /\ requests \in Seq(Requests)
    /\ \A i \in DOMAIN requests : ~ requests[i].originalUcan /\ requests[i].cosigner = "none"
    /\ envelopes = <<>>
    /\ minted = {}
    /\ intents \in [Calls -> IntentCalls]
    /\ \A c \in Calls : /\ intents[c].pc \in {"idle", "list", "validate", "create"}
                        /\ intents[c].pc = "validate" => intents[c].row \in DOMAIN requests

LEMMA NoIntentTyped ==
    ASSUME Resources # {}, Actions # {}
    PROVE  NoIntent \in IntentCalls
<1>1. PICK r \in Resources, a \in Actions : TRUE
  OBVIOUS
<1>2. [constraint |-> {r}, actions |-> {a}] \in Intents
  <2>1. {r} \in (SUBSET Resources) \ {{}} /\ {a} \in (SUBSET Actions) \ {{}}
    OBVIOUS
  <2> QED
    BY <2>1 DEF Intents
<1>3. (CHOOSE i \in Intents : TRUE) \in Intents
  BY <1>2
<1> QED
  BY <1>3 DEF NoIntent, IntentCalls

(* A call that goes on keeps the rest.                                      *)
LEMMA CallGoesOn ==
    ASSUME DeadEnd, NEW c \in Calls, NEW call \in IntentCalls,
           intents' = [intents EXCEPT ![c] = call],
           call.pc \in {"idle", "list", "validate", "create"},
           call.pc = "validate" => call.row \in DOMAIN requests,
           UNCHANGED <<requests, envelopes, minted>>
    PROVE  DeadEnd'
  BY DEF DeadEnd

(* Rows that change keep what makes them dead ends.                         *)
LEMMA RowsChange ==
    ASSUME DeadEnd, requests' \in Seq(Requests), DOMAIN requests \subseteq DOMAIN requests',
           \A i \in DOMAIN requests' :
               ~ requests'[i].originalUcan /\ requests'[i].cosigner = "none",
           UNCHANGED <<envelopes, intents, minted>>
    PROVE  DeadEnd'
  BY DEF DeadEnd

LEMMA RowChanges ==
    ASSUME DeadEnd, NEW i \in DOMAIN requests,
           NEW state \in {"pending", "approved", "denied", "expired"},
           requests' = [requests EXCEPT ![i].state = state],
           UNCHANGED <<envelopes, intents, minted>>
    PROVE  DeadEnd'
<1>1. requests \in Seq(Requests)
  BY DEF DeadEnd
<1>2. requests' \in Seq(Requests) /\ DOMAIN requests' = DOMAIN requests
  <2>1. \A j \in DOMAIN requests : requests[j] \in Requests
    BY <1>1
  <2>2. [requests[i] EXCEPT !.state = state] \in Requests
    BY <2>1 DEF Requests
  <2> QED
    BY <1>1, <2>2
<1>3. \A j \in DOMAIN requests' :
         ~ requests'[j].originalUcan /\ requests'[j].cosigner = "none"
  <2>1. ASSUME NEW j \in DOMAIN requests
        PROVE  requests'[j] = [requests[j] EXCEPT !.state = IF i = j THEN state ELSE @]
    <3>1. requests[j] \in Requests
      BY <1>1
    <3> QED
      BY <3>1 DEF Requests
  <2>2. ASSUME NEW j \in DOMAIN requests
        PROVE  /\ requests'[j].originalUcan = requests[j].originalUcan
               /\ requests'[j].cosigner = requests[j].cosigner
    BY <2>1
  <2> QED
    BY <1>2, <2>2 DEF DeadEnd
<1> QED
  BY <1>2, <1>3, RowsChange

LEMMA IntentStep ==
    ASSUME Resources # {}, Actions # {}, DeadEnd, [IntentNext]_intentVars
    PROVE  DeadEnd'
<1>1. NoIntent \in IntentCalls
  BY NoIntentTyped
<1>2. \A c \in Calls : intents[c] \in IntentCalls
  BY DEF DeadEnd
<1>3. requests \in Seq(Requests) /\ Len(requests) \in Nat /\ DOMAIN requests = 1 .. Len(requests)
  BY DEF DeadEnd
<1>4. CASE ChangeAgent
  BY <1>4 DEF ChangeAgent, DeadEnd
<1>5. ASSUME NEW i \in DOMAIN requests, NEW standing \in BOOLEAN, Approve(i, standing)
      PROVE  DeadEnd'
  BY <1>5 DEF Approve, DeadEnd
<1>6. ASSUME NEW i \in DOMAIN requests, Deny(i) \/ DecideInTelegram(i) \/ WindowEnds(i)
      PROVE  DeadEnd'
  <2>1. requests[i].cosigner # "live"
    BY DEF DeadEnd
  <2>2. PICK state \in {"approved", "denied", "expired"} :
           requests' = [requests EXCEPT ![i].state = state]
    BY <1>6, <2>1 DEF Deny, DecideInTelegram, WindowEnds
  <2>3. UNCHANGED <<envelopes, intents, minted>>
    BY <1>6 DEF Deny, DecideInTelegram, WindowEnds
  <2> QED
    BY <2>2, <2>3, RowChanges
<1>7. ASSUME NEW e \in DOMAIN envelopes
      PROVE  FALSE
  BY <1>7 DEF DeadEnd
<1>8. ASSUME NEW c \in Calls, NEW intent \in Intents, NEW row \in 0 .. Len(requests),
             Intent(c, intent, row)
      PROVE  DeadEnd'
  <2> DEFINE call == [NoIntent EXCEPT !.pc = IF row = 0 THEN "list" ELSE "validate",
                                      !.intent = intent, !.row = row]
  <2>1. /\ call \in IntentCalls
        /\ call.pc = IF row = 0 THEN "list" ELSE "validate"
        /\ call.row = row
    <3>1. PICK first \in Intents :
             NoIntent = [pc |-> "idle", intent |-> first, row |-> 0, envelope |-> 0]
      <4>1. NoIntent.intent \in Intents
        BY <1>1 DEF IntentCalls
      <4> QED
        BY <4>1 DEF NoIntent
    <3>2. call = [pc |-> IF row = 0 THEN "list" ELSE "validate",
                  intent |-> intent, row |-> row, envelope |-> 0]
      <4>1. call = [[pc |-> "idle", intent |-> first, row |-> 0, envelope |-> 0] EXCEPT
                       !.pc = IF row = 0 THEN "list" ELSE "validate",
                       !.intent = intent, !.row = row]
        BY <3>1, Zenon
      <4> HIDE DEF call
      <4> QED
        BY <4>1
    <3> HIDE DEF call
    <3>3. row \in Nat
      BY <1>3
    <3> QED
      BY <3>2, <3>3 DEF IntentCalls
  <2>2. /\ intents' = [intents EXCEPT ![c] = call]
        /\ UNCHANGED <<requests, envelopes, minted>>
    BY <1>8 DEF Intent
  <2> HIDE DEF call
  <2>3. /\ call.pc \in {"idle", "list", "validate", "create"}
        /\ call.pc = "validate" => call.row \in DOMAIN requests
    BY <1>3, <2>1
  <2> QED
    BY <2>1, <2>2, <2>3, CallGoesOn
<1>9. ASSUME NEW c \in Calls, Classify(c)
      PROVE  DeadEnd'
  <2>1. Covering(intents[c].intent) = {}
    BY DEF Covering, DeadEnd
  <2> DEFINE call == [intents[c] EXCEPT !.pc = "create", !.envelope = 0]
  <2>2. call \in IntentCalls /\ call.pc = "create"
    BY <1>2 DEF IntentCalls
  <2>3. intents' = [intents EXCEPT ![c] = call] /\ UNCHANGED <<requests, envelopes, minted>>
    BY <1>9, <2>1 DEF Classify, DeadEnd
  <2> HIDE DEF call
  <2> QED
    BY <2>2, <2>3, CallGoesOn
<1>10. ASSUME NEW c \in Calls, Verify(c) \/ CreateEnvelope(c) \/ MintInside(c)
       PROVE  FALSE
  BY <1>10 DEF Verify, CreateEnvelope, MintInside, DeadEnd
<1>11. ASSUME NEW c \in Calls, ValidateCosigner(c)
       PROVE  DeadEnd'
  <2>1. requests[intents[c].row].cosigner # "live"
    BY <1>11 DEF ValidateCosigner, DeadEnd
  <2>2. /\ intents' = [intents EXCEPT ![c] = NoIntent]
        /\ UNCHANGED <<requests, envelopes, minted>>
    BY <1>11, <2>1 DEF ValidateCosigner
  <2> QED
    BY <1>1, <2>2, CallGoesOn DEF NoIntent
<1>12. ASSUME NEW c \in Calls, Ask(c)
       PROVE  DeadEnd'
  <2> DEFINE same == {i \in DOMAIN requests : /\ requests[i].intent = intents[c].intent
                                              /\ requests[i].state \in {"pending", "expired"}}
             new == [intent |-> intents[c].intent, state |-> "pending",
                     originalUcan |-> FALSE, standing |-> FALSE, cosigner |-> "none"]
  <2>1. \A i \in DOMAIN requests :
           /\ requests[i] \in Requests
           /\ ~ requests[i].originalUcan /\ requests[i].cosigner = "none"
    BY <1>3 DEF DeadEnd
  <2>2. new \in Requests
    BY <1>2 DEF Requests, IntentCalls
  <2>3. /\ requests' \in Seq(Requests)
        /\ DOMAIN requests \subseteq DOMAIN requests'
        /\ \A i \in DOMAIN requests' :
              ~ requests'[i].originalUcan /\ requests'[i].cosigner = "none"
    <3>1. CASE requests' = [i \in DOMAIN requests |->
                    IF i \in same THEN [requests[i] EXCEPT !.state = "pending"]
                    ELSE requests[i]]
      <4> HIDE DEF same
      <4>1. ASSUME NEW i \in DOMAIN requests
            PROVE  /\ requests'[i] \in Requests
                   /\ ~ requests'[i].originalUcan /\ requests'[i].cosigner = "none"
        BY <2>1, <3>1 DEF Requests
      <4>2. requests' \in Seq(Requests) /\ DOMAIN requests' = DOMAIN requests
        BY <1>3, <3>1, <4>1
      <4> QED
        BY <4>1, <4>2
    <3>2. CASE requests' = Append(requests, new)
      <4>1. ~ new.originalUcan /\ new.cosigner = "none"
        OBVIOUS
      <4> HIDE DEF new
      <4> QED
        BY <1>3, <2>1, <2>2, <3>2, <4>1
    <3> QED
      BY <1>12, <3>1, <3>2 DEF Ask
  <2>4. /\ intents' = [intents EXCEPT ![c] = NoIntent]
        /\ UNCHANGED <<envelopes, minted>>
    BY <1>12 DEF Ask
  <2> QED
    BY <1>1, <2>3, <2>4 DEF DeadEnd, NoIntent
<1>13. CASE UNCHANGED intentVars
  BY <1>13 DEF intentVars, DeadEnd
<1> QED
  BY <1>4, <1>5, <1>6, <1>7, <1>8, <1>9, <1>10, <1>11, <1>12, <1>13 DEF IntentNext

NothingMinted == envelopes = <<>> /\ minted = {}

(* However many calls state their intents and whatever operators decide, no  *)
(* envelope is ever created and nothing is minted inside one: the requests   *)
(* that POST /v1/intent writes have no UCAN that a cosigner could be for     *)
(* (createStepUpApproval, mintCosignerForApproval).                          *)
THEOREM IntentMintsNothing ==
    ASSUME Resources # {}, Actions # {}
    PROVE  IntentSpec => []NothingMinted
<1>1. IntentInit => DeadEnd
  <2>1. NoIntent \in IntentCalls /\ NoIntent.pc = "idle"
    BY NoIntentTyped DEF NoIntent
  <2> QED
    BY <2>1 DEF IntentInit, DeadEnd
<1>2. DeadEnd /\ [IntentNext]_intentVars => DeadEnd'
  BY IntentStep
<1>3. DeadEnd => NothingMinted
  BY DEF DeadEnd, NothingMinted
<1> QED
  BY <1>1, <1>2, <1>3, PTL DEF IntentSpec


AgentTyped == dynamicAgent \in [active : BOOLEAN, mode : {"static", "dynamic"}]

LEMMA AgentStep ==
    ASSUME AgentTyped, [IntentNext]_intentVars
    PROVE  AgentTyped'
<1>1. CASE ChangeAgent
  BY <1>1 DEF ChangeAgent, AgentTyped
<1>2. CASE UNCHANGED dynamicAgent
  BY <1>2 DEF AgentTyped
<1>3. ChangeAgent \/ UNCHANGED dynamicAgent
  BY DEF IntentNext, Approve, Deny, DecideInTelegram, WindowEnds, EnvelopeEnds, Intent, Classify,
         Verify, Ask, ValidateCosigner, CreateEnvelope, MintInside, intentVars
<1> QED
  BY <1>1, <1>2, <1>3

(* The agent, the requests for envelopes, the envelopes and the calls keep   *)
(* their types, for any number of calls, actions and resources (the          *)
(* /v1/intent route, envelopes.revoke, agents.setMode).                      *)
THEOREM IntentTypeCorrect ==
    ASSUME Resources # {}, Actions # {}
    PROVE  IntentSpec => []IntentTypeOK
<1>1. IntentInit => DeadEnd /\ AgentTyped
  <2>1. NoIntent \in IntentCalls /\ NoIntent.pc = "idle"
    BY NoIntentTyped DEF NoIntent
  <2> QED
    BY <2>1 DEF IntentInit, DeadEnd, AgentTyped
<1>2. DeadEnd /\ AgentTyped /\ [IntentNext]_intentVars => DeadEnd' /\ AgentTyped'
  BY IntentStep, AgentStep
<1>3. DeadEnd /\ AgentTyped => IntentTypeOK
  BY DEF DeadEnd, AgentTyped, IntentTypeOK
<1> QED
  BY <1>1, <1>2, <1>3, PTL DEF IntentSpec

=============================================================================
