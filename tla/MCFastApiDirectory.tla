------------------------- MODULE MCFastApiDirectory -------------------------
(***************************************************************************)
(* FastApiDirectory for TLC: alice's bundle is uploaded twice, another     *)
(* identity key under her key_id once, and bob's bundle shares a prekey.   *)
(***************************************************************************)
EXTENDS FastApiDirectory, TLC

CONSTANTS alice, bob, idA, idB, u1, u2, u3, u4, p1, p2, p3

MCUserOf == [r \in Upload \cup Get |-> IF r = u4 THEN bob ELSE alice]
MCIdentityOf == [u \in Upload |-> IF u \in {u1, u2} THEN idA ELSE idB]
MCBundleOf == [u \in Upload |-> IF u \in {u1, u2} THEN {p1, p2}
                                ELSE IF u = u3 THEN {p3} ELSE {p2, p3}]

Symmetry == Permutations(Get)
=============================================================================
