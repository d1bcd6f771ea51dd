SPECIFICATION Spec
CONSTANTS
    u1 = u1
    u2 = u2
    u3 = u3
    Users = {u1, u2, u3}
    KYCed = {u2, u3}
    Batches <- MCBatches
    MaxRestarts = 3
INVARIANT FirstTradeIsEarliest
INVARIANT ResumeSkipsNoJob
