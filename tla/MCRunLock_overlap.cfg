\* Runs that start together.
CONSTANTS
    Runs = {p1, p2}
    NoDir = noDir
    NoFile = noFile
    Empty = empty
SPECIFICATION Spec
\* Every run ends.
CHECK_DEADLOCK FALSE
INVARIANTS OneRunAtATime
