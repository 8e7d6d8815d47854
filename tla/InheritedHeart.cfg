SPECIFICATION Spec
CONSTANTS
 File = {f1, f2}
 None = None
 Look = {1, 2}
 Path = {"c:a", "c:b", "d:a"}
 Folder = {"c", "c:sub", "d"}
 FolderOf <- MCFolderOf
 Real = {"c:a", "c:b"}
 Registry = {"c:a", "d:a"}
 MaxChanges = 3
 MaxSets = 3
 MaxCrashes = 1
INVARIANT NoInheritedHeart
CHECK_DEADLOCK FALSE
