\* The instance of the inbound run; one session is enough.
CONSTANTS
    inSess = inSess
    l1 = l1
    l2 = l2
    a1 = a1
    a2 = a2
    outSess = outSess
    Conns = {inSess, outSess}
    Kind <- Listener
    Logins = {l1, l2}
    Locals = {a1, a2}
    Remotes = {x1}
    Null = null
    Nobody = nobody
    Given <- OneEach
    Senders = {a1}
    Late = {l2}
    MaxErrors = 1
    MaxRcpts = 2
    MaxDepth = 1
    MaxMails = 1
    MaxOps = 2
    MaxFaults = 1
SPECIFICATION Spec
\* Both sessions may end and the daemon stay up, or close.
CHECK_DEADLOCK FALSE
INVARIANTS RcptNeedsMail
