\* The loop may be told to stop between startLoop() and loop().
CONSTANTS
    Threads = {p1}
    Tasks = {t1}
    EarlyQuit = TRUE
SPECIFICATION FairSpec
PROPERTIES
    QuitJoins
CHECK_DEADLOCK FALSE
