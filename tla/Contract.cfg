CONSTANTS
    None = None
    h1 = h1
    h2 = h2
    op = op
    other = other
    Hosts = {h1, h2}
    Scenarios <- MCScenarios
    HostedCapabilityMap <- MCCapabilityMap
    CommandCapabilityMap <- MCCapabilityMap
    MaxRetentionSeconds = 1
    MaxNonceTtl = 1
    MaxHops = 2
SPECIFICATION HSpec
INVARIANTS
    AllowedAsSigned
    PortsAgree
    OnceUnlessDisturbed
PROPERTY
    DecidedUnlessHeldOpen
CHECK_DEADLOCK FALSE
