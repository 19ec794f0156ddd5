\* Everything interleaves: a crash, a failed write, a cancel half way, a requeue.
CONSTANTS
    Ids = {q1, q2}
    Mails = {m1}
    Rcpts = {r1, r2}
    Owner = owner
    NullSender = null
    NoRow = noRow
    NoTime = noTime
    NoCli = noCli
    MinRetry = 1
    GiveUp = 1
    SettleBackoff = 1
    MaxDepth = 2
    Outcomes <- Plain
    HoldModes = {FALSE}
    Commands <- ButRetry
    Unwritable = TRUE
    MaxTime = 1
    MaxCrashes = 1
    MaxFaults = 1
    MaxOps = 2
    SubmitBy = 0
SPECIFICATION Spec
SYMMETRY Interchangeable
\* The daemon may stay down and the clock ends at MaxTime.
CHECK_DEADLOCK FALSE
INVARIANTS NothingLost QueueOrDeadLetter
PROPERTIES KeepsCustody
