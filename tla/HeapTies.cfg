SPECIFICATION HeapSpec
CONSTANTS
    HeapK = 3
    HeapN = 6
    HeapScores = {1, 2, 3}
    HeapHuge = 9
INVARIANT RootIsLeast
CHECK_DEADLOCK FALSE
