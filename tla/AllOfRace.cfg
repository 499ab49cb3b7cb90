SPECIFICATION MCSpec
CONSTANTS
    a1 = a1
    a2 = a2
    a3 = a3
    Aws <- MCAws
    AsyncDuringAdd = TRUE
    SizeMax = 7
    Tasks = {t1}
    NoCaller = NoCaller
    Careful = TRUE
    Subjects = {"all_of"}
INVARIANT AllResultsOnce
CHECK_DEADLOCK FALSE
