--------------------------- MODULE MCSchedulerTxns ---------------------------
(* Small instances of SchedulerTxns for TLC.                               *)
EXTENDS SchedulerTxns, SchedulerBoard, TLC

CONSTANTS a, b, c, r1, r2, x1, x2, x3, card1, s1, s2

Row(t, blockers) == [id |-> t, blockedBy |-> blockers]

(* Two blockers of one task, all published together.                       *)
JoinPlan == {<<Row(a, << >>), Row(b, << >>), Row(c, <<a, b>>)>>}

(* The same two tasks published twice, in a different order of the rows.   *)
AgainPlans == {<<Row(a, << >>), Row(b, <<a>>)>>, <<Row(b, << >>), Row(a, << >>)>>}

OneCard    == [t \in Tasks |-> {card1}]
NoSelector == [t \in Tasks |-> NoCard]

Symmetry == Permutations(Runtimes) \cup Permutations(ExecIds) \cup Permutations(Slots)
=============================================================================
