CONSTANTS
    Proposals <- MCProposals
    Edges = {2}
    Invalid = {}
    Dangling = {}
    Reviewers = {r1, r2}
    Bulk = bulk
    Extractors = {x1}
    Nobody = nobody
    MaxFaults = 0
SPECIFICATION Spec
INVARIANTS DecidedOnce
