------------------------------ MODULE MCPermission ------------------------------
(* Small instances of Permission for TLC.                                  *)
EXTENDS Permission, TLC

CONSTANTS c1, c2, p1, p2
=============================================================================
