\* Whether a NOOP leaves the client with the flags as they are.
CONSTANTS
    inbox = inbox
    work = work
    home = home
    m1 = m1
    deleted = deleted
    Names <- MCNames
    Inbox <- MCInbox
    Mails = {m1}
    Flags = {deleted}
    Deleted = deleted
    Seen = deleted
    Conns = {c1, c2}
    Qresync = {c2}
    Idlers = {c1}
    Examined <- MCExamined
    c1 = c1
    c2 = c2
    Watched <- MCWatched
    FlagStores <- MCFlagStores
    Unknown = unknown
    MaxUid = 2
    MaxStored = 2
    MaxValidity = 2
SPECIFICATION Spec
SYMMETRY Interchangeable
VIEW Visible
\* The bounds end the deliveries.
CHECK_DEADLOCK FALSE
INVARIANT NoopTellsFlags
