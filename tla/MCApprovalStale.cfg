CONSTANTS
    Chats = {c1, c2}
    Resumes = {r1}
    Cap = 2
    MaxBatches = 2
    Nobody = nobody
SPECIFICATION Spec
INVARIANTS ApprovedAsShown
