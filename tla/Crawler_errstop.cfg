SPECIFICATION Spec
CONSTANTS
    CrawlFrom = 0
    CrawlTo = 4
    MaxBlockSpan = 2
    MaxBlocks = 1
    MaxWorkers = 2
    Attempts = 2
    V2Block = 1
    V3Block = 3
    V4Block = 9
    StartingBlocks <- MCStartingBlocks
PROPERTY ErrorStopsWorker
