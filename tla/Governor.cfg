SPECIFICATION FairSpec
CONSTANTS
 Samples <- MCSamples
 Rested = 25
 Pressed = 60
 Severe = 90
 DegradeFast = 1
 DegradeAfter = 3
 MinDwell = 5
 RecoverAfter = 12
INVARIANTS TypeOK GivingUpIsOrdered
PROPERTIES NoFlap CalmGivesAllBack PressureShedsAll
