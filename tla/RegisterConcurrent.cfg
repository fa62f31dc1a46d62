CONSTANTS
    c1 = c1
    c2 = c2
    c3 = c3
    None = None
    Call = {c1, c2, c3}
    Id = {p1, p2, p3}
    p1 = p1
    p2 = p2
    p3 = p3
    Material = {"a", "b"}
    IdentityKey = {"x", "y"}
    BundleOf <- MCBundleOf
    IdentityOf <- MCIdentityOf
    CopiesOf <- MCCopiesOf
    MaxAtOnce = 2
    MaxCrashes = 1
SPECIFICATION Spec
INVARIANTS
    StoredAndAudited
PROPERTIES
    PublishedKeysKept
    LateCopyDenied
CHECK_DEADLOCK FALSE
