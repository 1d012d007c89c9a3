CONSTANTS
    Proposals <- MCProposals
    Edges = {1}
    Invalid = {}
    Dangling = {}
    Reviewers = {r1}
    Bulk = bulk
    Extractors = {x1}
    Nobody = nobody
    MaxFaults = 1
SPECIFICATION FairSpec
INVARIANTS TypeOK LedgerTellsStatus NodesAreExplained
PROPERTIES RequestsFinish
