SPECIFICATION Spec
CONSTANTS
    Nil = Nil
    Addresses <- MCAddresses
    Offset = 2
    IntBits = 3
    FromBlocks = {Nil, 0, 1, 4}
    ToBlocks = {Nil, 0, 2, 3, 4, 5}
    TxBlocks <- MCTxBlocks
INVARIANT TypeOK
INVARIANT FetchReturnsRange
