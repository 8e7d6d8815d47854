SPECIFICATION StripSpec
CONSTANTS
 p1=p1
 p2=p2
 Path <- MCPath
 Strip <- MCStrip
 Worker = {w1}
 QueueCap = 1
 EntryCap = 1
 TrimSlack = 0
 MaxAttempts = 1
 RetryDelay = 0
 Revalidate = 0
 MaxIdle = 0
 MaxVersion = 1
INVARIANTS DecodedIsPainted
PROPERTY StopReturns
CHECK_DEADLOCK FALSE
