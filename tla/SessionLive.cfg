SPECIFICATION FairPairSpec
CONSTANTS
    k1 = k1
    k2 = k2
    k3 = k3
    k4 = k4
    NoConn = NoConn
    Conns <- ThreeConns
    Records <- BothDial
    Window = 2
    LossyClose = FALSE
    MaxJoins = 0
    MaxRestarts = 1
PROPERTY EventuallyConnected
