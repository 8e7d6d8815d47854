SPECIFICATION Spec
CONSTANTS
 Path = {p1,p2}
 Worker = {w1,w2}
 QueueCap = 1
 EntryCap = 1
 TrimSlack = 0
 MaxAttempts = 2
 RetryDelay = 1
 Revalidate = 1
 MaxIdle = 0
 MaxVersion = 2
INVARIANTS TypeOK QueueMatchesEntries OneDecoder StampVouchesForTile MemoryBounded
PROPERTY FailuresAddUp
SYMMETRY Symm
CHECK_DEADLOCK FALSE
