SPECIFICATION Spec
CONSTANTS
    FirstPid = 8
    MaxPid = 10
INVARIANT ListsEveryProcess
