----------------------------- MODULE AuditProof -----------------------------
(***************************************************************************)
(* Proofs over the audit log: the worker that signs the newest row as a      *)
(* root, the proof the control plane assembles for one event, and            *)
(* audit-verify's check of it.  Signatures are taken to verify.              *)
(***************************************************************************)
EXTENDS AuditChain, FiniteSets, SequencesExt

VARIABLE root       \* the latest row of audit_roots, if any

proofVars == <<auditVars, root>>

NoRoot == [event |-> NoEvent, at |-> 0]

(* Type correctness; only rows are signed.                                  *)
ProofTypeOK ==
    /\ AuditTypeOK
    /\ root # NoRoot => root.event \in Stored /\ root.at \in Nat

ProofInit == AuditInit /\ root = NoRoot

(* signRootForCustomer: the newest row by ts, unless it is signed already.  *)
SignRoot ==
    /\ \E e \in Stored :
          /\ Newest(e)
          /\ root.event # e
          /\ root' = [event |-> e, at |-> clock]
    /\ UNCHANGED auditVars

ProofNext ==
    \/ AuditNext /\ UNCHANGED root
    \/ SignRoot

ProofSpec == ProofInit /\ [][ProofNext]_proofVars

ProofFairSpec == ProofSpec /\ AuditFairness

-----------------------------------------------------------------------------
(* audit.proof                                                              *)

(* The latest root, if it was signed after the event.                       *)
HasRoot(e) == root # NoRoot /\ root.at >= ts[e]

(* The rows from the event's ts on, up to the root's.                       *)
ProofRowsAfter(e) ==
    {f \in Stored : ts[f] > ts[e] /\ (HasRoot(e) => ts[f] <= ts[root.event])}

ProofRows(e) ==
    {f \in Stored : ts[f] >= ts[e] /\ (HasRoot(e) => ts[f] <= ts[root.event])}

(* A row continues the chain if it has the hash of the last one as its       *)
(* prev_hash; the root is the last that does.                               *)
Extend(chain, row) ==
    IF prev[row] = chain.next /\ ~chain.done
    THEN [rows |-> Append(chain.rows, row), next |-> row, done |-> root.event = row]
    ELSE chain

(* The rows are taken in the order of their ts.                             *)
TakeAt(e, chain, t) ==
    IF \E f \in ProofRows(e) : ts[f] = t
    THEN Extend(chain, CHOOSE f \in ProofRows(e) : ts[f] = t)
    ELSE chain

(* Of these the ones before t that continue the chain from the event on.    *)
Proof(e) ==
    LET chain[t \in Nat] ==
          IF t = 0 THEN [rows |-> <<>>, next |-> prev[e], done |-> FALSE]
          ELSE TakeAt(e, chain[t - 1], t - 1)
    IN  chain[clock + 1].rows

(* verifyBundle, for a customer with or without a signed genesis anchor.     *)
Verifies(e, anchored) ==
    LET rows == Proof(e) IN
    /\ rows # <<>>
    /\ rows[1] = e
    /\ \A i \in 2 .. Len(rows) : prev[rows[i]] = rows[i - 1]
    /\ HasRoot(e) => root.event \in ToSet(rows)
    /\ anchored => prev[rows[1]] = Genesis

-----------------------------------------------------------------------------
(* Properties                                                               *)

(* Of the rows that share its prev_hash f is the oldest.                    *)
Eldest(f) == \A g \in Stored : prev[g] = prev[f] => ts[f] <= ts[g]

(* r's hash commits to e's: prev_hash leads from r to e, row by row, and at   *)
(* each fork it comes from the oldest branch.                               *)
CommitsFirst(r, e) ==
    \E rows \in SUBSET Stored :
        /\ {r, e} \subseteq rows
        /\ \A f \in rows \ {e} : prev[f] \in rows /\ Eldest(f)

(* "Verify one event": the proof of a row that a root was signed after       *)
(* verifies if and only if that root commits to the row, by the oldest        *)
(* branch of every fork between them, and the row is the first of all for a  *)
(* customer with a genesis anchor.  A root signed while the row waited for    *)
(* its flush does not, nor one beyond a dropped batch, nor one on the        *)
(* younger branch.                                                          *)
ProofVerifies ==
    \A e \in Stored, anchored \in BOOLEAN : HasRoot(e) =>
        (Verifies(e, anchored) <=>
            CommitsFirst(root.event, e) /\ (anchored => prev[e] = Genesis))

=============================================================================
