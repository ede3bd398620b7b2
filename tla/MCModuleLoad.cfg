SPECIFICATION Spec
CONSTANTS
    p1 = p1
    p2 = p2
    t1 = t1
    t2 = t2
    t3 = t3
    Proc = {p1, p2}
    Thread = {t1, t2, t3}
    Home <- MCHome
    Pid <- MCPid
    Chain = {t2}
    Explicit = {t2}
    Nobody = Nobody
INVARIANTS LoadedIsWhole PublishedIsReady OneOfEach ModeAsAsked
