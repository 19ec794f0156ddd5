\* Any interleaving of runs, a crash, a failed restore and deliveries.
CONSTANTS
    Versions = {1, 2, 3}
    First = 1
    SchemaOf <- Migrates
    Mails = {m1, m2}
    None = none
    NoFile = noFile
    Home = home
    Aside = aside
    MaxCrashes = 1
    MaxFaults = 1
SPECIFICATION Spec
INVARIANTS OnlyConfirmedStays MailKept NoSnapshotLeft NothingFromTheFuture
PROPERTIES ServesAgain
