\* Liveness of the whole daemon: timer, clock and restarts are fair.
CONSTANTS
    Ids = {q1, q2}
    Mails = {m1, m2}
    Rcpts = {r1}
    Owner = owner
    NullSender = null
    NoRow = noRow
    NoTime = noTime
    NoCli = noCli
    MinRetry = 1
    GiveUp = 2
    SettleBackoff = 1
    MaxDepth = 2
    Outcomes <- Deferrals
    HoldModes = {FALSE}
    Commands = {}
    Unwritable = FALSE
    MaxTime = 5
    MaxCrashes = 1
    MaxFaults = 0
    MaxOps = 0
    SubmitBy = 0
SPECIFICATION DaemonSpec
\* The daemon may stay down and the clock ends at MaxTime.
CHECK_DEADLOCK FALSE
INVARIANTS NextAttemptNearWindow PromptFirstAttempt
PROPERTIES EveryRowSettles StopCompletes
