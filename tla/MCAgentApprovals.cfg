CONSTANTS
    Chats = {c1, c2, c3}
    Resumes = {r1, r2}
    Cap = 2
    MaxBatches = 2
    Nobody = nobody
SYMMETRY Symmetry
SPECIFICATION Spec
INVARIANTS TypeOK BudgetHeld FramesAreCommitted EffectsAreAccountedFor
