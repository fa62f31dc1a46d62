--------------------------- MODULE OneTimePrekeys ---------------------------
(***************************************************************************)
(* What the key directory promises about one-time prekeys, with no         *)
(* handlers, clocks, files on disk or crashes: a published prekey is       *)
(* leased to one sender at a time, a lease may be taken back, and the one  *)
(* delivery made under a prekey is made by the sender who leases it and    *)
(* ends the prekey's life.                                                 *)
(***************************************************************************)
CONSTANTS User,      \* registered identities
          Prekey,    \* prekeys that may be published
          None       \* no lease: not a user

VARIABLES published, \* prekeys in the directory
          lease,     \* lease[p]: the user p is leased to, or None
          delivered  \* <<p, u>>: user u delivered a file under prekey p

vars == <<published, lease, delivered>>

Spent == {p \in Prekey : \E u \in User : <<p, u>> \in delivered}

Init ==
    /\ published = {}
    /\ lease = [p \in Prekey |-> None]
    /\ delivered = {}

Publish(S) ==
    /\ published' = published \cup S
    /\ UNCHANGED <<lease, delivered>>

\* The leases in R are taken back and p, unleased by then, is leased to u.
Lease(u, p, R) ==
    /\ p \in published \ Spent
    /\ lease[p] = None \/ p \in R
    /\ lease' = [q \in Prekey |-> IF q = p THEN u
                                  ELSE IF q \in R THEN None ELSE lease[q]]
    /\ UNCHANGED <<published, delivered>>

Deliver(u, p) ==
    /\ p \in published \ Spent
    /\ lease[p] = u
    /\ lease' = [lease EXCEPT ![p] = None]
    /\ delivered' = delivered \cup {<<p, u>>}
    /\ UNCHANGED published

Next ==
    \/ \E S \in SUBSET Prekey : Publish(S)
    \/ \E u \in User, p \in Prekey, R \in SUBSET Prekey : Lease(u, p, R)
    \/ \E u \in User, p \in Prekey : Deliver(u, p)

Spec == Init /\ [][Next]_vars
=============================================================================
