\* Three runs, each of which may be killed anywhere.
CONSTANTS
    Runs = {p1, p2, p3}
    NoDir = noDir
    NoFile = noFile
    Empty = empty
SPECIFICATION Spec
\* Every run ends.
CHECK_DEADLOCK FALSE
PROPERTIES SettledLockHolds NeverStranded
