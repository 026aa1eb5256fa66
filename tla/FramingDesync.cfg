CONSTANTS
    c1 = c1
    c2 = c2
    k1 = k1
    k2 = k2
    Clients = {c1, c2}
    Keys = {k1, k2}
    KeyOf <- MCKeyOf
    Authorized = {k1}
    Servers = {s1, s2}
    MaxPermits = 1
    Modes = {"native", "wt"}
    MaxConns <- MCMaxConns
    None = None
    Messages <- MCMessages
    Base = 3
    HeaderLen = 2
    MAX_FRAME_LEN = 3
    MaxFrames = 3
SPECIFICATION MCSpec
INVARIANT InSync
