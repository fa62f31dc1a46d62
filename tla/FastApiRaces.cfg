CONSTANTS
    Absent = Absent
    alice = alice
    bob = bob
    idA = idA
    idB = idB
    u1 = u1
    u2 = u2
    u3 = u3
    u4 = u4
    p1 = p1
    p2 = p2
    p3 = p3
    User = {alice, bob}
    Identity = {idA, idB}
    Prekey = {p1, p2, p3}
    Upload = {u1, u2, u3, u4}
    Get = {g1, g2, g3}
    UserOf <- MCUserOf
    IdentityOf <- MCIdentityOf
    BundleOf <- MCBundleOf
SPECIFICATION FSpec
INVARIANTS
    RepeatExplained
    OneIdentity
CHECK_DEADLOCK FALSE
SYMMETRY Symmetry
