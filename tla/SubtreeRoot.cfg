SPECIFICATION Spec
INVARIANTS RootCorrect RaceFree
CONSTANTS
    MaxNodes = 9
    Procs = {1, 2, 8}
    ParallelMin = 2
    MaxWorkers = 4
