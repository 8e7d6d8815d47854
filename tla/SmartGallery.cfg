SPECIFICATION Spec
CONSTANTS
 p1 = p1
 Photo <- MCPhoto
 LastStamp <- MCLastStamp
 None = None
 Model = {m1}
 NoModel = NoModel
 MaxStamp = 2
 MaxChoices = 2
 MaxStarts = 1
INVARIANTS TypeOK ChoiceIsKept UndecidedIsQueued
CHECK_DEADLOCK FALSE
