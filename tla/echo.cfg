SPECIFICATION FairSpec
CONSTANTS
    Families = {"ipv4"}
    FamilyOrder <- MCFamilyOrder
    Slots = {0}
    BufferSize = 2
    Descriptors = {0, 1, 2}
    Clients = {c1, c2}
    MaxBytes = 2
    MaxFaults = 1
    NONE = NONE
    MaxEvents = 2
    MaxQuits = 1
INVARIANTS TypeOK DescriptorsHaveOneHolder SlotsMatchHandlers EchoIsPrefix StopsAllOrNothing
PROPERTIES EveryClientServed FailureEndsServer ServesWhenConnected
CHECK_DEADLOCK FALSE
