SPECIFICATION FairSpec
CONSTANTS
    Proc = {p1, p2, p3}
    Msg = {m1, m2}
    Null = Null
    MailboxBound = 2
INVARIANTS TypeOK ListsWellFormed SavedNextValid NoLostWakeup ReturnsOnlyWhenIdle
PROPERTIES EveryRunnableRuns ImplementsScheduling
CHECK_DEADLOCK FALSE
