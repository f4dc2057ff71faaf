CONSTANTS
    SpanAgents = {g1}
    MaxReceipts = 2
    MaxSpanCalls = 3
    Ingests = {n1}
SPECIFICATION SpansSpec
INVARIANT PriorCallIsParent
CHECK_DEADLOCK FALSE
