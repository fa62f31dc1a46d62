---------------------------- MODULE MCKdcPrekeys ----------------------------
(***************************************************************************)
(* KdcPrekeys for TLC: carol has one prekey; alice calls send twice (a     *)
(* retry that meets its own earlier reservation) and bob once.             *)
(***************************************************************************)
EXTENDS KdcPrekeys

CONSTANTS alice, bob, carol, s1, s2, s3

ContentionOwner    == [p \in Prekey |-> carol]
ContentionSender   == [s \in Session |-> IF s = s3 THEN bob ELSE alice]
ContentionReceiver == [s \in Session |-> carol]
=============================================================================
