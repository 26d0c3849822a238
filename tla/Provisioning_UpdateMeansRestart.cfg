SPECIFICATION Spec
CONSTANTS
    k1 = k1
    k2 = k2
    k3 = k3
    here = here
    there = there
    p = p
    q = q
    Procs = {p, q}
    Keys = {k1, k2, k3}
    Devices = {here, there}
    Age = 7
    MaxPolls = 2
    Starts <- StartsDef
CHECK_DEADLOCK FALSE
INVARIANT UpdateMeansRestart
