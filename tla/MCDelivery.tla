----------------------------- MODULE MCDelivery -----------------------------
(* Small instances of Delivery for TLC.                                    *)
EXTENDS DeliveryHandover, TLC

CONSTANTS e1, e2, c1, c2, d1, d2

Symmetry == Permutations(Events) \cup Permutations(Consumers) \cup Permutations(Dispatchers)
=============================================================================
