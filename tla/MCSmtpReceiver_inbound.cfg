\* One session of each listener that may be refused any number of messages and
\* has one taken, two accounts with an address each, one of them disabled when
\* the daemon starts; two operator's commands and one failed write anywhere.
CONSTANTS
    inSess = inSess
    l1 = l1
    l2 = l2
    a1 = a1
    a2 = a2
    outSess = outSess
    Conns = {inSess, outSess}
    Kind <- Listener
    Logins = {l1, l2}
    Locals = {a1, a2}
    Remotes = {x1}
    Null = null
    Nobody = nobody
    Given <- OneEach
    Senders = {a1}
    Late = {l2}
    MaxErrors = 1
    MaxRcpts = 2
    MaxDepth = 1
    MaxMails = 1
    MaxOps = 2
    MaxFaults = 1
SPECIFICATION Spec
\* Both sessions may end and the daemon stay up, or close.
CHECK_DEADLOCK FALSE
INVARIANTS RefusedLeavesNothing EnvelopeIsClients QuietAfterClose
PROPERTIES AcceptedIsStored
