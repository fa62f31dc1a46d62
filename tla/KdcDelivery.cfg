CONSTANTS
    alice = alice
    bob = bob
    carol = carol
    s1 = s1
    s2 = s2
    None = None
    User = {alice, bob, carol}
    Prekey = {1, 2}
    Session = {s1, s2}
    OwnerOf <- DeliveryOwner
    SenderOf <- DeliverySender
    ReceiverOf <- DeliveryReceiver
    ReservationTTL = 0
    MaxCrashes = 0
    Reader = alice
    MaxAtOnce = 1
SPECIFICATION FairDSpec
INVARIANTS
    OfferedIsOnDisk
    FirstTryHasKey
PROPERTIES
    ReservationLapses
CHECK_DEADLOCK FALSE
