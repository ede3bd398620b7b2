SPECIFICATION Spec
CONSTANTS
    Proc = {p1, p2}
    Libs = {l1, l2}
    NoProc = NoProc
    Forces = {TRUE, FALSE}
    Survives = FALSE
INVARIANT ForceDiscards
