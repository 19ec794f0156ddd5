\* Nothing is interrupted and nothing fails but the candidate.
CONSTANTS
    Versions = {1, 2}
    First = 1
    SchemaOf <- Migrates
    Mails = {m1}
    None = none
    NoFile = noFile
    Home = home
    Aside = aside
    MaxCrashes = 0
    MaxFaults = 0
SPECIFICATION Spec
PROPERTIES DaemonComesBack
