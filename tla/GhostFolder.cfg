SPECIFICATION Spec
CONSTANTS
 Folder = {r, a, b}
 Alias = c
 Root = r
 StartedIn = {r, a}
 Photo = {x}
 MaxId = 4
 Technical = {}
 Project = {}
 Excluded = {}
 MaxChanges = 2
 MaxCalls = 0
 MaxStarts = 1
INVARIANT GoneFolderDropped
CHECK_DEADLOCK FALSE
