-------------------------- MODULE OAuthConnections --------------------------
(***************************************************************************)
(* The OAuth connections of a customer to one account of a provider that     *)
(* rotates refresh tokens: consent and callback, refreshes from the sweep,   *)
(* from the dashboard and from the PDP after a 401, and disconnects.         *)
(*                                                                          *)
(* A refresh token is <<consent, n>>: the n-th of the tokens that follow     *)
(* from one consent.  The provider is external: it accepts only the newest   *)
(* of a consent and answers with the next one.                               *)
(***************************************************************************)
EXTENDS Integers, FiniteSets

CONSTANTS
    Callbacks,      \* callbacks served at the same time
    Refreshes,      \* refreshes of connections at the same time
    RowIds,         \* ids that rows of oauth_connections may get
    MaxConsents,    \* bound on the authorization URLs handed out
    MaxRotations    \* bound on the refreshes of one consent

ASSUME OAuthAssumption ==
    /\ {MaxConsents, MaxRotations} \subseteq Nat \ {0}
    /\ IsFiniteSet(Callbacks)
    /\ RowIds # {}

VARIABLES
    ledger,         \* number of rows of oauth_state_nonces
    consumed,       \* number of those that callbacks deleted
    connections,    \* the refresh token in each row
    newest,         \* the provider: newest token of each consent, 0 before it
    callbacks,      \* GET /v1/oauth/callback
    refreshes,      \* refreshConnection
    spoiled         \* rows whose provider's answer was not stored

oauthVars == <<ledger, consumed, connections, newest, callbacks, refreshes, spoiled>>

-----------------------------------------------------------------------------
(* State                                                                    *)

Consents == 1 .. MaxConsents
Tokens == Consents \X (1 .. MaxRotations)
NoToken == <<0, 0>>     \* of a row not inserted yet
Gone == <<0, 1>>        \* of a row that was deleted

Present == {i \in RowIds : connections[i] \in Tokens}

Accepted(token) == token \in Tokens /\ newest[token[1]] = token[2]

CallbackStates == [pc : {"idle", "exchange", "select", "write"},
                   token : Tokens \cup {NoToken}, found : SUBSET RowIds]

RefreshStates == [pc : {"idle", "loaded", "answered", "checked"}, row : RowIds,
                  token : Tokens \cup {NoToken}]

OAuthTypeOK ==
    /\ {ledger, consumed} \subseteq 0 .. MaxConsents
    /\ connections \in [RowIds -> Tokens \cup {NoToken, Gone}]
    /\ newest \in [Consents -> 0 .. MaxRotations]
    /\ callbacks \in [Callbacks -> CallbackStates]
    /\ refreshes \in [Refreshes -> RefreshStates]
    /\ spoiled \subseteq RowIds

NoCallback == [pc |-> "idle", token |-> NoToken, found |-> {}]

NoRefresh == [pc |-> "idle", row |-> CHOOSE i \in RowIds : TRUE, token |-> NoToken]

OAuthInit ==
    /\ ledger = 0
    /\ consumed = 0
    /\ connections = [i \in RowIds |-> NoToken]
    /\ newest = [f \in Consents |-> 0]
    /\ callbacks = [b \in Callbacks |-> NoCallback]
    /\ refreshes = [r \in Refreshes |-> NoRefresh]
    /\ spoiled = {}

-----------------------------------------------------------------------------
(* Connecting                                                               *)

(* POST /v1/oauth/connect: a nonce in the ledger and in the signed state.   *)
Connect ==
    /\ ledger + consumed < MaxConsents
    /\ ledger' = ledger + 1
    /\ UNCHANGED <<consumed, connections, newest, callbacks, refreshes, spoiled>>

(* sweepOAuthStateNonces.                                                   *)
NonceSwept ==
    /\ ledger > 0
    /\ ledger' = ledger - 1
    /\ UNCHANGED <<consumed, connections, newest, callbacks, refreshes, spoiled>>

(* trusts the signature of the state *)
CallbackTrusts(b) ==
    /\ callbacks[b].pc = "idle"
    /\ ledger > 0
    /\ callbacks' = [callbacks EXCEPT ![b].pc = "exchange"]
    /\ UNCHANGED <<ledger, consumed, connections, newest, refreshes, spoiled>>

(* The callback deletes its nonce, and goes on only if that was still there: *)
(* the browser may send it twice.                                            *)
Callback(b) ==
    /\ callbacks[b].pc = "idle"
    /\ ledger > 0
    /\ ledger' = ledger - 1
    /\ consumed' = consumed + 1
    /\ callbacks' = [callbacks EXCEPT ![b].pc = "exchange"]
    /\ UNCHANGED <<connections, newest, refreshes, spoiled>>

(* exchangeCode: the first token of a new consent.                          *)
Exchange(b) ==
    /\ callbacks[b].pc = "exchange"
    /\ \E f \in Consents :
          /\ newest[f] = 0
          /\ \A g \in Consents : newest[g] = 0 => f <= g
          /\ newest' = [newest EXCEPT ![f] = 1]
          /\ callbacks' = [callbacks EXCEPT ![b].pc = "select", ![b].token = <<f, 1>>]
    /\ UNCHANGED <<ledger, consumed, connections, refreshes, spoiled>>

ExchangeFails(b) ==
    /\ callbacks[b].pc = "exchange"
    /\ callbacks' = [callbacks EXCEPT ![b] = NoCallback]
    /\ UNCHANGED <<ledger, consumed, connections, newest, refreshes, spoiled>>

(* sees no row *)
SaveSelectNothing(b) ==
    /\ callbacks[b].pc = "select"
    /\ callbacks' = [callbacks EXCEPT ![b].pc = "write"]
    /\ UNCHANGED <<ledger, consumed, connections, newest, refreshes, spoiled>>

(* saveConnection: any row of the account that is there, ...                *)
SaveSelect(b) ==
    /\ callbacks[b].pc = "select"
    /\ \E found \in IF Present = {} THEN {{}} ELSE {{i} : i \in Present} :
          callbacks' = [callbacks EXCEPT ![b].pc = "write", ![b].found = found]
    /\ UNCHANGED <<ledger, consumed, connections, newest, refreshes, spoiled>>

(* ... is updated, unless it is gone by then; without one a row is inserted. *)
(* No index keeps two rows of one account apart.                             *)
SaveWrite(b) ==
    /\ callbacks[b].pc = "write"
    /\ LET found == callbacks[b].found
       IN  \/ /\ found # {} /\ ~(found \subseteq Present)
              /\ UNCHANGED <<connections, spoiled>>
           \/ \E i \in IF found # {} THEN found \cap Present
                     ELSE {j \in RowIds : connections[j] = NoToken} :
                 /\ connections' = [connections EXCEPT ![i] = callbacks[b].token]
                 /\ spoiled' = spoiled \ {i}
    /\ callbacks' = [callbacks EXCEPT ![b] = NoCallback]
    /\ UNCHANGED <<ledger, consumed, newest, refreshes>>

(* oauth.disconnect.                                                        *)
Disconnect(i) ==
    /\ i \in Present
    /\ connections' = [connections EXCEPT ![i] = Gone]
    /\ spoiled' = spoiled \ {i}
    /\ UNCHANGED <<ledger, consumed, newest, callbacks, refreshes>>

-----------------------------------------------------------------------------
(* Refreshing                                                               *)

(* refreshConnection loads the row, whoever else may be refreshing it.      *)
RefreshLoads(r, i) ==
    /\ refreshes[r].pc = "idle"
    /\ i \in Present
    /\ refreshes' = [refreshes EXCEPT ![r] =
                        [pc |-> "loaded", row |-> i, token |-> connections[i]]]
    /\ UNCHANGED <<ledger, consumed, connections, newest, callbacks, spoiled>>

(* The provider accepts the token once and answers with its successor.      *)
Rotate(token) ==
    /\ Accepted(token)
    /\ token[2] < MaxRotations
    /\ newest' = [newest EXCEPT ![token[1]] = @ + 1]

(* keeps the token it has, as the Google connector may *)
RefreshAnsweredKeeps(r) ==
    /\ refreshes[r].pc = "loaded"
    /\ Rotate(refreshes[r].token)
    /\ refreshes' = [refreshes EXCEPT ![r].pc = "answered"]
    /\ UNCHANGED <<ledger, consumed, connections, callbacks, spoiled>>

RefreshAnswered(r) ==
    /\ refreshes[r].pc = "loaded"
    /\ Rotate(refreshes[r].token)
    /\ refreshes' = [refreshes EXCEPT ![r].pc = "answered", ![r].token[2] = @ + 1]
    /\ UNCHANGED <<ledger, consumed, connections, callbacks, spoiled>>

(* provider_rejected.                                                       *)
RefreshRejected(r) ==
    /\ refreshes[r].pc = "loaded"
    /\ ~Accepted(refreshes[r].token)
    /\ refreshes' = [refreshes EXCEPT ![r] = NoRefresh]
    /\ UNCHANGED <<ledger, consumed, connections, newest, callbacks, spoiled>>

(* The row still holds the token that was spent.                            *)
Spoil(r, spent) ==
    spoiled' = IF connections[refreshes[r].row] = spent
               THEN spoiled \cup {refreshes[r].row} ELSE spoiled

(* transport_error: the request may have reached the provider or not.       *)
RefreshLost(r) ==
    /\ refreshes[r].pc = "loaded"
    /\ \/ Rotate(refreshes[r].token)
       \/ UNCHANGED newest
    /\ Spoil(r, refreshes[r].token)
    /\ refreshes' = [refreshes EXCEPT ![r] = NoRefresh]
    /\ UNCHANGED <<ledger, consumed, connections, callbacks>>

(* scope_escalation_blocked and account_id_mismatch: what the provider       *)
(* answered is thrown away, and with it the only token it still accepts.     *)
RefreshDiscarded(r) ==
    /\ refreshes[r].pc = "answered"
    /\ Spoil(r, <<refreshes[r].token[1], refreshes[r].token[2] - 1>>)
    /\ refreshes' = [refreshes EXCEPT ![r] = NoRefresh]
    /\ UNCHANGED <<ledger, consumed, connections, newest, callbacks>>

(* updateConnectionTokens: the row must be there, ...                       *)
RefreshChecks(r) ==
    /\ refreshes[r].pc = "answered"
    /\ refreshes' = [refreshes EXCEPT ![r] =
           IF refreshes[r].row \in Present THEN [@ EXCEPT !.pc = "checked"]
           ELSE NoRefresh]
    /\ UNCHANGED <<ledger, consumed, connections, newest, callbacks, spoiled>>

(* ... and is updated, whatever token it holds by now.                      *)
RefreshWrites(r) ==
    /\ refreshes[r].pc = "checked"
    /\ connections' = [i \in RowIds |->
                          IF i = refreshes[r].row /\ i \in Present
                          THEN refreshes[r].token ELSE connections[i]]
    /\ spoiled' = spoiled \ {refreshes[r].row}
    /\ refreshes' = [refreshes EXCEPT ![r] = NoRefresh]
    /\ UNCHANGED <<ledger, consumed, newest, callbacks>>

-----------------------------------------------------------------------------

OAuthNext ==
    \/ Connect \/ NonceSwept
    \/ \E b \in Callbacks :
          \/ Callback(b) \/ Exchange(b) \/ ExchangeFails(b)
          \/ SaveSelect(b) \/ SaveWrite(b)
    \/ \E i \in RowIds : Disconnect(i)
    \/ \E r \in Refreshes :
          \/ \E i \in RowIds : RefreshLoads(r, i)
          \/ RefreshAnswered(r) \/ RefreshRejected(r) \/ RefreshLost(r)
          \/ RefreshDiscarded(r) \/ RefreshChecks(r) \/ RefreshWrites(r)

OAuthSpec == OAuthInit /\ [][OAuthNext]_oauthVars

-----------------------------------------------------------------------------
(* Properties                                                               *)

Refreshing(i) == \E r \in Refreshes : refreshes[r].pc # "idle" /\ refreshes[r].row = i

(* However refreshes of one connection, reconnects and disconnects overlap,  *)
(* the refresh token of a row at rest is one the provider accepts, unless an *)
(* answer of the provider to a refresh of that row was lost or refused.      *)
StoredTokenIsAccepted ==
    \A i \in Present :
        ~Refreshing(i) => Accepted(connections[i]) \/ i \in spoiled

(* "we treat (customer_id, connector, account_id) as the natural key": there *)
(* are more rows of one account than one only if callbacks overlapped, and   *)
(* never more than callbacks that did.                                       *)
RowsFromOverlapOnly == Cardinality(Present) <= Cardinality(Callbacks)

(* However often the browser sends a callback, every code that is exchanged  *)
(* for tokens had a nonce of its own.                                        *)
NoncePerExchange ==
    Cardinality({f \in Consents : newest[f] > 0})
        + Cardinality({b \in Callbacks : callbacks[b].pc = "exchange"}) <= consumed

=============================================================================
