SPECIFICATION AdoptionSpec
CONSTANTS
 RootPaths = {"movies", "tv"}
 Disk <- MCDisk
 SkipNames = {}
 Users = {u1}
 MaxUserCalls = 2
PROPERTY DismissedForGood
CHECK_DEADLOCK FALSE
