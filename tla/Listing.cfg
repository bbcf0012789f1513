SPECIFICATION Spec
CONSTANTS
    Jobs = {j1, j2, j3, j4}
    Keys <- SortValues
    PageSize = 2
SYMMETRY JobSymmetry
INVARIANTS
    WalkLosesNothing
