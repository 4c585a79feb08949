SPECIFICATION PairSpec
CONSTANTS
    k1 = k1
    k2 = k2
    k3 = k3
    k4 = k4
    NoConn = NoConn
    Conns <- MCConns
    Records <- BothDial
    Window = 2
    LossyClose = TRUE
    MaxJoins = 1
    MaxRestarts = 1
SYMMETRY MCSymmetry
INVARIANTS
    NoLeakedConnection
PROPERTY SessionKept
