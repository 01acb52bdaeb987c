----------------------------- MODULE MCLeadTurn -----------------------------
(* A small instance of LeadTurn for TLC.                                    *)
EXTENDS LeadTurn, TLC

CONSTANTS lead, other, s1, s2, s3, i1, i2

OwnerOfSlot == [s \in Slots |-> IF s = s3 THEN other ELSE lead]

Symmetry == Permutations({s1, s2})
=============================================================================
