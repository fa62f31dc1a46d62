CONSTANTS
    alice = alice
    bob = bob
    carol = carol
    s1 = s1
    s2 = s2
    s3 = s3
    None = None
    User = {alice, bob, carol}
    Prekey = {1}
    Session = {s1, s2, s3}
    OwnerOf <- ContentionOwner
    SenderOf <- ContentionSender
    ReceiverOf <- ContentionReceiver
    ReservationTTL = 1
    MaxCrashes = 1
SPECIFICATION Spec
INVARIANTS
    OneFilePerPrekey
    UsedIffFile
    FileIsDeliverable
    SentMeansStored
    OrphansAccounted
    TimelyUploadHonoured
PROPERTIES
    ReservationKept
    UsedForever
    Refines
CHECK_DEADLOCK FALSE
