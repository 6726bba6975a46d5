\* Two threads hand three tasks to a loop; the loop is told to stop after it
\* has entered loop().
CONSTANTS
    Threads = {p1, p2}
    Tasks = {t1, t2, t3}
    EarlyQuit = FALSE
SPECIFICATION FairSpec
INVARIANTS
    TypeOK
    NoLostWakeup
PROPERTIES
    RunInOrder
    QueuedRuns
    QuitJoins
\* after the join nothing is left to do
CHECK_DEADLOCK FALSE
