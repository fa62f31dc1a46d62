--------------------------- MODULE MCRequestAuth ---------------------------
(***************************************************************************)
(* RequestAuth for TLC: three requests, one of which arrives twice.  The   *)
(* other two are interchangeable.                                          *)
(***************************************************************************)
EXTENDS RequestAuth, TLC

CONSTANT r1

OneTwice == {<<r, 1>> : r \in Request} \cup {<<r1, 2>>}

Symmetry == Permutations(Request \ {r1})
=============================================================================
