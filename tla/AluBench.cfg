SPECIFICATION Spec
CONSTANT Samples = {0, 1, 63, 64, 127, 128, 192, 255}
INVARIANTS
    WideAddition
    WideShift
    OperationsAgree
    BranchesDecide
