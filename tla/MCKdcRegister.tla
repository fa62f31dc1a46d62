--------------------------- MODULE MCKdcRegister ---------------------------
(***************************************************************************)
(* KdcRegister for TLC.  c1 publishes two prekeys; c2 registers other      *)
(* signing keys under the same X25519 key, hence the same key id; c3       *)
(* publishes another key under the second id and one under a third.        *)
(***************************************************************************)
EXTENDS KdcRegister

CONSTANTS c1, c2, c3, p1, p2, p3

MCBundleOf == [c \in Call |->
    [i \in Id |-> CASE c = c1 /\ i \in {p1, p2} -> "a"
                    [] c = c2 /\ i = p1 -> "a"
                    [] c = c3 /\ i \in {p2, p3} -> "b"
                    [] OTHER -> None]]
\* The POST of c1 is repeated once.
MCCopiesOf == [c \in Call |-> IF c = c1 THEN 2 ELSE 1]

MCIdentityOf == [c \in Call |-> IF c = c2 THEN "y" ELSE "x"]
=============================================================================
