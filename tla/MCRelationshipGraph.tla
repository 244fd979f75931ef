------------------------ MODULE MCRelationshipGraph ------------------------
(* p declares Server.Run, called by Main.main of q by its short name; r       *)
(* declares a second Run.  In v2 of p a line was inserted above the function, *)
(* in v2 of q the call is gone and in v2 of r the function is another one.    *)
EXTENDS RelationshipGraph, TLC

CONSTANTS p, q, r, v1, v2, run1, run2, main1, other1, other2, r1, r2

Home == [i \in SymbolIDs |-> CASE i = main1 -> q [] i \in {other1, other2} -> r [] OTHER -> p]

QualifiedNames == [i \in SymbolIDs |-> CASE i = main1 -> "Main.main"
                                         [] i = other1 -> "Worker.Run"
                                         [] i = other2 -> "Worker.Stop"
                                         [] OTHER -> "Server.Run"]

ShortNames == [i \in SymbolIDs |-> CASE i = main1 -> "main"
                                      [] i = other2 -> "Stop"
                                      [] OTHER -> "Run"]

AllNames == {"Main.main", "main", "Server.Run", "Worker.Run", "Run",
             "Worker.Stop", "Stop"}

Parsed == [f \in Files |-> [v \in Contents |->
             CASE f = q -> {main1}
               [] f = r -> IF v = v1 THEN {other1} ELSE {other2}
               [] f = p -> IF v = v1 THEN {run1} ELSE {run2}]]

Calls == [f \in Files |-> [v \in Contents |->
            IF f = q /\ v = v1
            THEN {[source |-> "Main.main", target |-> "Run"]} ELSE {}]]

PassSymmetry == Permutations(Passes)
=============================================================================
