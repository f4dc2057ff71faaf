--------------------------------- MODULE Spans ---------------------------------
(***************************************************************************)
(* Spans of one customer: calls are recorded in the audit log, their spans   *)
(* are sent on the side, stored once for each receipt, and the action graph  *)
(* derives from what is stored which call led to which.                      *)
(*                                                                          *)
(* A receipt's id is the hash of the leaf UCAN and the request.  So a        *)
(* request that is made again has the same one, and the receipt a request    *)
(* names as its parent is older; it stands for its number.  Calls are placed *)
(* by their start, which each PDP and agent takes from a clock of its own:   *)
(* any order is possible.                                                    *)
(***************************************************************************)
EXTENDS Naturals, FiniteSets

CONSTANTS
    SpanAgents,
    MaxReceipts,    \* bound on different requests
    MaxSpanCalls,   \* bound on calls
    Ingests         \* requests that ingest a span at the same time

ASSUME SpansAssumption ==
    /\ SpanAgents # {}
    /\ {MaxReceipts, MaxSpanCalls} \subseteq Nat

VARIABLES
    made,           \* number of receipts
    receipts,       \* the agent and the parent receipt of each
    taken,          \* places that calls have taken
    unflushed,      \* events of each receipt in the emitter's buffer
    auditRows,      \* rows of each receipt in audit_events
    spanEmits,      \* spans that were sent: each may arrive, twice or never
    ingests,        \* what each of Ingests is at, and the span it ingests
    spans           \* agent_spans by receipt

spansVars == <<made, receipts, taken, unflushed, auditRows, spanEmits, ingests, spans>>

-----------------------------------------------------------------------------
(* State                                                                    *)

Receipts == 1 .. MaxReceipts
Places == 1 .. MaxSpanCalls

ReceiptStates == [agent : SpanAgents, parent : 0 .. MaxReceipts]

(* The parentSpanId a span was sent with is named by its receipt; 0 is none. *)
SpanEmits == [receipt : Receipts, place : Places, link : 0 .. MaxReceipts]
SpanRows == [place : 0 .. MaxSpanCalls, link : 0 .. MaxReceipts]

NoSpan == [place |-> 0, link |-> 0]

SpansTypeOK ==
    /\ made \in 0 .. MaxReceipts
    /\ receipts \in [Receipts -> ReceiptStates]
    /\ taken \subseteq Places
    /\ unflushed \in [Receipts -> Nat]
    /\ auditRows \in [Receipts -> Nat]
    /\ spanEmits \subseteq SpanEmits
    /\ ingests \in [Ingests -> [pc : {"idle"}] \cup [pc : {"find", "insert"}, emit : SpanEmits]]
    /\ spans \in [Receipts -> SpanRows]

Stored == {r \in Receipts : spans[r] # NoSpan}

SpansInit ==
    /\ made = 0
    /\ receipts = [r \in Receipts |->
                      [agent |-> CHOOSE a \in SpanAgents : TRUE, parent |-> 0]]
    /\ taken = {}
    /\ unflushed = [r \in Receipts |-> 0]
    /\ auditRows = [r \in Receipts |-> 0]
    /\ spanEmits = {}
    /\ ingests = [i \in Ingests |-> [pc |-> "idle"]]
    /\ spans = [r \in Receipts |-> NoSpan]

-----------------------------------------------------------------------------
(* Calls                                                                    *)

(* The emitter has the event before the upstream is called, and the span is  *)
(* sent once that has answered, by the PDP, the agent's MCP server or both.  *)
SpanCalls(r, place, link) ==
    /\ place \notin taken
    /\ link \in {0} \cup (Stored \ {r})
    /\ taken' = taken \cup {place}
    /\ unflushed' = [unflushed EXCEPT ![r] = @ + 1]
    /\ spanEmits' = spanEmits \cup {[receipt |-> r, place |-> place, link |-> link]}
    /\ UNCHANGED <<auditRows, ingests, spans>>

NewRequest(agent, parent, place, link) ==
    /\ made < MaxReceipts
    /\ parent <= made
    /\ made' = made + 1
    /\ receipts' = [receipts EXCEPT ![made + 1] = [agent |-> agent, parent |-> parent]]
    /\ SpanCalls(made + 1, place, link)

SameRequest(r, place, link) ==
    /\ r <= made
    /\ SpanCalls(r, place, link)
    /\ UNCHANGED <<made, receipts>>

BufferFlushed ==
    /\ auditRows' = [r \in Receipts |-> auditRows[r] + unflushed[r]]
    /\ unflushed' = [r \in Receipts |-> 0]
    /\ UNCHANGED <<made, receipts, taken, spanEmits, ingests, spans>>

(* The PDP ends with what it has buffered.                                  *)
BufferLost ==
    /\ unflushed' = [r \in Receipts |-> 0]
    /\ UNCHANGED <<made, receipts, taken, auditRows, spanEmits, ingests, spans>>

-----------------------------------------------------------------------------
(* ingestSpan                                                               *)

(* receipt_not_found while the event is not in the table: nothing is tried   *)
(* again.                                                                    *)
IngestStarts(i, emit) ==
    /\ ingests[i].pc = "idle"
    /\ auditRows[emit.receipt] > 0
    /\ ingests' = [ingests EXCEPT ![i] = [pc |-> "find", emit |-> emit]]
    /\ UNCHANGED <<made, receipts, taken, unflushed, auditRows, spanEmits, spans>>

IngestEnds(i) == ingests' = [ingests EXCEPT ![i] = [pc |-> "idle"]]

(* "Idempotent on (customer_id, receipt_id)".                               *)
IngestFinds(i) ==
    /\ ingests[i].pc = "find"
    /\ IF ingests[i].emit.receipt \in Stored THEN IngestEnds(i)
       ELSE ingests' = [ingests EXCEPT ![i].pc = "insert"]
    /\ UNCHANGED <<made, receipts, taken, unflushed, auditRows, spanEmits, spans>>

(* agent_spans_customer_receipt_uq refuses a second row.                    *)
IngestInserts(i) ==
    /\ ingests[i].pc = "insert"
    /\ LET emit == ingests[i].emit
       IN  spans' = IF emit.receipt \in Stored THEN spans
                    ELSE [spans EXCEPT ![emit.receipt] =
                             [place |-> emit.place, link |-> emit.link]]
    /\ IngestEnds(i)
    /\ UNCHANGED <<made, receipts, taken, unflushed, auditRows, spanEmits>>

SpansNext ==
    \/ \E place \in Places, link \in 0 .. MaxReceipts :
          \/ \E agent \in SpanAgents, parent \in 0 .. MaxReceipts :
                NewRequest(agent, parent, place, link)
          \/ \E r \in Receipts : SameRequest(r, place, link)
    \/ BufferFlushed \/ BufferLost
    \/ \E i \in Ingests :
          \/ \E emit \in spanEmits : IngestStarts(i, emit)
          \/ IngestFinds(i) \/ IngestInserts(i)

SpansSpec == SpansInit /\ [][SpansNext]_spansVars

-----------------------------------------------------------------------------
(* The action graph: deriveSpanTree for a window W of the stored spans      *)

(* The parentSpanId, if the window has it, or else the parent receipt's span.*)
Explicit(W, r) ==
    IF spans[r].link \in W THEN spans[r].link
    ELSE IF receipts[r].parent \in W THEN receipts[r].parent
    ELSE 0

Earlier(W, r) ==
    {s \in W : receipts[s].agent = receipts[r].agent /\ spans[s].place < spans[r].place}

Latest(S) == CHOOSE s \in S : \A t \in S : spans[t].place <= spans[s].place

(* The window is joined with audit_events, so a span comes once for each row *)
(* of its receipt.  After the first time its agent's last span is itself,    *)
(* and what is derived the last time stays.                                  *)
Joined(r) == auditRows[r]

(* takes the agent's last span of all *)
SequentialOfAll(W, r) ==
    LET last == Latest({s \in W : receipts[s].agent = receipts[r].agent})
    IN  IF Joined(r) > 1 \/ last = r THEN 0 ELSE last

Sequential(W, r) ==
    IF Joined(r) > 1 \/ Earlier(W, r) = {} THEN 0 ELSE Latest(Earlier(W, r))

ParentOf(W, r) == IF Explicit(W, r) # 0 THEN Explicit(W, r) ELSE Sequential(W, r)

(* Where the walk along the parents ends, unless it comes back to itself.   *)
RootOf(W, r) ==
    LET up[n \in Nat] ==
          IF n = 0 THEN r
          ELSE IF ParentOf(W, up[n - 1]) = 0 THEN up[n - 1]
          ELSE ParentOf(W, up[n - 1])
    IN  up[Cardinality(W)]

-----------------------------------------------------------------------------
(* Properties                                                               *)

(* "A forward-flowing conversation tree": whatever was lost, came late or    *)
(* twice and whatever part of the spans is shown, the walk from a span ends  *)
(* at one that has no parent and started no later, if no call of the window  *)
(* started before the one it names as its parent.                            *)
GraphFlowsForward ==
    \A W \in SUBSET Stored :
        (\A r \in W : Explicit(W, r) # 0 => spans[Explicit(W, r)].place < spans[r].place)
        => \A r \in W :
              /\ ParentOf(W, RootOf(W, r)) = 0
              /\ spans[RootOf(W, r)].place <= spans[r].place

(* "the most-recent prior span by the same agent (sequential fallback)": a   *)
(* span for which no parent was named has one if its agent has an earlier    *)
(* span.                                                                     *)
PriorCallIsParent ==
    \A W \in SUBSET Stored : \A r \in W :
        Earlier(W, r) # {} => ParentOf(W, r) # 0

=============================================================================
