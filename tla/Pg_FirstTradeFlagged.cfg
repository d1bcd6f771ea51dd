SPECIFICATION Spec
CONSTANTS
    u1 = u1
    u2 = u2
    Users = {u1, u2}
    Batches <- MCBatches
    MaxRestarts = 2
INVARIANT FirstTradeFlagged
