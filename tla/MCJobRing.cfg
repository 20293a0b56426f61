CONSTANTS
    Chips <- MCChips
    CoreNumbers <- MCCores
    MaxSent <- MCMaxSent
    MaxCleans = 1
    MaxNonces = 1
SPECIFICATION Spec
INVARIANT RecentJobsKept
INVARIANT CleanComplete
INVARIANT LostToOwnPoolOnly
PROPERTY TableSpec
