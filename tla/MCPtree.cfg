SPECIFICATION Spec
CONSTANTS
    FirstPid = 8
    MaxPid = 11
INVARIANTS TypeOK ListsAreTheParents ListsLeadersChildren StackNeverEmpty
    TabsTellTheDepthUnambiguous SiblingsFixedOffTheStack
