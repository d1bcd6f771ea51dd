SPECIFICATION Spec
CONSTANTS
    a1 = a1
    a2 = a2
    a3 = a3
    k1 = k1
    k2 = k2
    Inputs <- MCInputs
    MaxCalls = 3
INVARIANT TokensAssembled
PROPERTY CreateOrUpdateAtomic
