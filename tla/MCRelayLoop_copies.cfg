\* Copies and notices: no crash, no cancel, every reply heard, and the write
\* that defers a failed settle succeeds.  Boots with and without hold alternate.
CONSTANTS
    Ids = {q1, q2, q3}
    Mails = {m1}
    Rcpts = {r1, r2}
    Owner = owner
    NullSender = null
    NoRow = noRow
    NoTime = noTime
    NoCli = noCli
    MinRetry = 1
    GiveUp = 1
    SettleBackoff = 1
    MaxDepth = 2
    Outcomes <- Plain
    HoldModes = {TRUE, FALSE}
    Commands <- ButCancel
    Unwritable = FALSE
    MaxTime = 2
    MaxCrashes = 0
    MaxFaults = 1
    MaxOps = 1
    SubmitBy = 0
SPECIFICATION Spec
SYMMETRY Interchangeable
\* The daemon may stay down and the clock ends at MaxTime.
CHECK_DEADLOCK FALSE
INVARIANTS NoSecondCopy NoSecondNotice EveryFailureNotified
PROPERTIES HeldMailStays
