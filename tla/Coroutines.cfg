SPECIFICATION MCFairSpec
CONSTANTS
    a1 = a1
    a2 = a2
    a3 = a3
    Aws <- MCAws
    AsyncDuringAdd = FALSE
    SizeMax = 7
    Tasks = {t1, t2, t3}
    NoCaller = NoCaller
    Careful = TRUE
    Subjects = {"all_of", "any_of", "tasks"}
INVARIANTS AllResultsOnce IInv AnyExact
PROPERTIES OwnersResume FramesFreed
