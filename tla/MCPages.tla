------------------------------ MODULE MCPages ------------------------------
(***************************************************************************)
(* Pages for TLC.  The requests of one page are interchangeable, and so    *)
(* are identities and polls.                                               *)
(***************************************************************************)
EXTENDS Pages, TLC

Symmetry == Permutations(NextReq) \cup Permutations(Req \ NextReq)
            \cup Permutations(Identity) \cup Permutations(Poll)
=============================================================================
