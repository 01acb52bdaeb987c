--------------------------- MODULE MCRuntimeWorker ---------------------------
(* Small instances of RuntimeWorker for TLC.                               *)
EXTENDS RuntimeWorker, TLC

CONSTANTS a, b, c, r1, r2, x1, x2, card1

Row(t, blockers) == [id |-> t, blockedBy |-> blockers]

Chain     == {<<Row(a, << >>), Row(b, <<a>>), Row(c, <<b>>)>>}
SameAgain == {<<Row(a, << >>)>>, <<Row(a, << >>), Row(a, << >>)>>}

OneCard    == [t \in Tasks |-> {card1}]
CardForA   == [t \in Tasks |-> IF t = a THEN {card1} ELSE {}]
NoSelector == [t \in Tasks |-> NoCard]

Symmetry == Permutations(ExecIds)
=============================================================================
