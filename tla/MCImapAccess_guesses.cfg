\* Guesses alone: two connections and a submission handler of one address, another
\* handler of a second, which may make the throttle forget the first.
CONSTANTS
    c1 = c1
    c2 = c2
    s1 = s1
    s2 = s2
    here = here
    there = there
    Conns = {c1, c2}
    Logins = {l1}
    Ips = {here, there}
    Submitters = {s1, s2}
    Ip <- Shared
    Sizes = {}
    MaxLiteral = 1
    MaxInflight = 1
    Shares = 1
    MaxFailures = 2
    Cap = 1
    Managed = {}
    Nobody = nobody
    MaxCreds = 1
    MaxFails = 3
    MaxAhead = 0
SPECIFICATION Spec
SYMMETRY Alike
\* The failures counted end the logins.
CHECK_DEADLOCK FALSE
INVARIANT GuessesBounded
