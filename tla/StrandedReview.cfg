SPECIFICATION Spec
CONSTANTS
 p1 = p1
 Photo <- MCPhoto
 LastStamp <- MCLastStamp
 None = None
 Model = {m1}
 NoModel = NoModel
 MaxStamp = 2
 MaxChoices = 0
 MaxStarts = 0
INVARIANT EditIsJudged
CHECK_DEADLOCK FALSE
