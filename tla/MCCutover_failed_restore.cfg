\* A rename or copy of the restore throws.
CONSTANTS
    Versions = {1, 2}
    First = 1
    SchemaOf <- Migrates
    Mails = {m1}
    None = none
    NoFile = noFile
    Home = home
    Aside = aside
    MaxCrashes = 0
    MaxFaults = 1
SPECIFICATION Spec
INVARIANTS FailedRestoreKeepsSnapshot
