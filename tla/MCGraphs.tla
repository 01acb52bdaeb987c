------------------------------ MODULE MCGraphs ------------------------------
(* The two parts of the program that work on graphs, each on its own.       *)
EXTENDS CodeGraph, Decomposer

VARIABLE part   \* "code" or "plan"

Fn(n) == [scope |-> "", name |-> n]
Method(c, n) == [scope |-> c, name |-> n]
Use(d, k, n) == [by |-> d, kind |-> k, name |-> n]

MCDefs ==
  [one  |-> {Fn("f")},
   user |-> {Fn("g")},
   both |-> {Fn("C"), Method("C", "f"), Method("C", "g"), Fn("f")}]
MCUses ==
  [one  |-> {},
   user |-> {Use(Fn("g"), "CALLS", "f"), Use(TopLevel, "IMPORTS", "a")},
   both |-> {Use(Method("C", "g"), "CALLS", "f"), Use(Fn("f"), "REFERENCES", "g"),
             Use(Fn("C"), "INHERITS", "g")}]

(* Every list of up to three tasks, each with up to two blockers.           *)
MCTask == [id : {"x", "y", "z"},
           blockedBy : {B \in SUBSET {"x", "y", "z", "missing"} : Cardinality(B) <= 2}]
MCAnswers == UNION {[1..n -> MCTask] : n \in 0..3}

Init == part \in {"code", "plan"} /\ CgInit /\ DcInit
           /\ (part = "plan" => disk = [f \in Files |-> Gone])
Next == \/ part = "code" /\ CgNext /\ UNCHANGED <<dcVars, part>>
        \/ part = "plan" /\ DcNext /\ UNCHANGED <<cgVars, part>>
Spec == Init /\ [][Next]_<<cgVars, dcVars, part>>
=============================================================================
