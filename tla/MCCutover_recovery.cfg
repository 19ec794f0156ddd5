\* One crash, of the updater or of the machine.
CONSTANTS
    Versions = {1, 2}
    First = 1
    SchemaOf <- Migrates
    Mails = {m1}
    None = none
    NoFile = noFile
    Home = home
    Aside = aside
    MaxCrashes = 1
    MaxFaults = 0
SPECIFICATION Spec
INVARIANTS RecoveryLeavesServable
