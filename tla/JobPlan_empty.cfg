SPECIFICATION Spec
CONSTANTS
    FromBlocks = {0, 1, 2}
    MaxWidth = 7
    MaxBlocksSet = {1, 2, 3}
    MaxWorkers = 2
    LastVersionBlock = 9
INVARIANT JobsNonEmpty
