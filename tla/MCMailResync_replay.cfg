\* INBOX and a small hierarchy; a cache kept over every sequence of
\* operations that fits the bounds, with the process dying anywhere.
CONSTANTS
    inbox = inbox
    a = a
    c = c
    x = x
    m1 = m1
    m2 = m2
    Names <- MCNames
    Inbox <- MCInbox
    Mails = {m1, m2}
    Flags = {deleted}
    Deleted = deleted
    MaxStored = 2
    MaxChanges = 3
    MaxValidity = 4
    MaxSnaps = 1
SPECIFICATION Spec
SYMMETRY Interchangeable
\* The bounds end the counters.
CHECK_DEADLOCK FALSE
INVARIANTS NamesAreMailboxes UidMeansOneMail StaleHandleIsInert ReplayIsExact
