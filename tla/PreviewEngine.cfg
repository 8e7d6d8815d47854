SPECIFICATION FairSpec
CONSTANTS
 Film = {f1, f2}
 None = None
 LastBucket = 4
 Grants <- MCGrants
 MaxCalls = 4
 First = f1
 Stops = {0, 2, 4}
INVARIANTS TypeOK CachedIsOfFilm BudgetKept RestingIsAsked
PROPERTIES RestIsAnswered KeepsPromise
CHECK_DEADLOCK FALSE
