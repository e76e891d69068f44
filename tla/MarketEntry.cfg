\* Three lots of one resource; one demand at a time beside the curated one; two nodes.
\* When all is listed, pruned or decided, nothing is left to do.
SPECIFICATION EntrySpec
CHECK_DEADLOCK FALSE
CONSTANTS
    Lots = {x1, x2, l3}
    Withdrawals = {k1, k2}
    Requests = {w1, w2}
    Windows <- Overlaps
    Validities = {3, 4}
    TotalUnits = 2
    MaxRuns = 2
    Demands = {d0, x1, x2}
    Curated = d0
    PlainKeys = {plainKey}
    CatalogKeys = {catalogKey}
    QuoteKeys = {k1, k2}
    Visits = {w1, w2}
    Terms = {2}
    MaxDemands = 1
    MaxQuotes = 2
    QuotesPerDemand = 1
    Retention = 2
    LastWeek = 4
    Pools = {poolA, poolB}
    Nodes = {x1, x2}
    Jobs = {k1, k2}
    Calls = {w1, w2}
    Spans <- Free
    Untils = {3, 5}
    MaxHours = 3
    MaxStretch = 4
    MaxParts = 1
    MaxBatch = 2
    d0 = d0
    x1 = x1
    x2 = x2
    l3 = l3
    plainKey = plainKey
    catalogKey = catalogKey
    k1 = k1
    k2 = k2
    w1 = w1
    w2 = w2
    poolA = poolA
    poolB = poolB
SYMMETRY Symmetry
CONSTRAINTS
    Apart
    Prompt
    Few
INVARIANTS
    LotsAreSound
    DemandsAreSound
    MachinesAreSound
PROPERTIES
    EndsAreFinal
