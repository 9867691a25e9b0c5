CONSTANTS
    Hosts = {"a", "b"}
    Ports = {1, 2}
    AddressBytes <- MCAddressBytes
    Packets <- MCPackets
    MaxPackets = 4
    FinWrap = 256
SPECIFICATION Spec
CHECK_DEADLOCK FALSE
INVARIANT TypeOK
INVARIANT EveryPacketOnce
INVARIANT EndsForAReason
INVARIANT LayersAreExact
PROPERTY ImplementsConversations
