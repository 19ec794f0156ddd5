\* A message with one refused and one deferred recipient.
CONSTANTS
    Ids = {q1, q2}
    Mails = {m1}
    Rcpts = {r1, r2}
    Owner = owner
    NullSender = null
    NoRow = noRow
    NoTime = noTime
    NoCli = noCli
    MinRetry = 1
    GiveUp = 1
    SettleBackoff = 1
    MaxDepth = 2
    Outcomes <- Plain
    HoldModes = {FALSE}
    Commands = {}
    Unwritable = FALSE
    MaxTime = 1
    MaxCrashes = 0
    MaxFaults = 0
    MaxOps = 0
    SubmitBy = 0
SPECIFICATION Spec
\* The daemon may stay down and the clock ends at MaxTime.
CHECK_DEADLOCK FALSE
INVARIANTS RefusedIsDeadLettered
