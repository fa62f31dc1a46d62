----------------------------- MODULE MCDelivery -----------------------------
(* Delivery for TLC: bob and carol send to alice, who has two prekeys.     *)
EXTENDS Delivery

CONSTANTS alice, bob, carol, s1, s2

DeliveryOwner    == [p \in Prekey |-> alice]
DeliverySender   == [s \in Session |-> IF s = s1 THEN bob ELSE carol]
DeliveryReceiver == [s \in Session |-> alice]
=============================================================================
