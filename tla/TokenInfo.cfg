SPECIFICATION Spec
CONSTANTS
    a1 = a1
    a2 = a2
    a3 = a3
    c1 = c1
    c2 = c2
    Callers = {c1, c2}
    Addresses = {a1, a2, a3}
    Answers <- MCAnswers
    Seeds <- MCSeeds
SYMMETRY Symmetry
INVARIANT ReturnsResolved
