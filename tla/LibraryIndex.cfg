SPECIFICATION MCSpec
CONSTANTS
 Folder = {r, a, b}
 Alias = c
 Root = r
 StartedIn = {r, a}
 Photo = {x}
 MaxId = 4
 Technical = {}
 Project = {b}
 Excluded = {}
 MaxChanges = 1
 MaxCalls = 1
 MaxStarts = 2
INVARIANTS TypeOK StoredIsListed ReportedChangeIsPending PendingIsQueued TouchedIsServed
PROPERTIES CountFollowsPhotos StopReturns
CHECK_DEADLOCK FALSE
