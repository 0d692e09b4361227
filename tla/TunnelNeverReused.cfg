SPECIFICATION TunnelSpec
CONSTANTS
    Openers = {1, 2}
    common = common
    plain = plain
    rival = rival
    port1 = port1
    port2 = port2
    Tunnel = {common, plain, rival}
    PortOf <- LocalPorts
    Needs <- TunnelNeeds
    Nobody = Nobody
    Stranger = Stranger
CHECK_DEADLOCK FALSE
INVARIANT NeverReused
