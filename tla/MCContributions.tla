-------------------------- MODULE MCContributions ---------------------------
(* Instances of Contributions for TLC. *)
EXTENDS Contributions

CONSTANTS e1, e2, f1, f2, h1, h2

\* One version of the monthly plan.
Starts1 == <<1>>

\* The monthly fee rises from 2 to 3 in month 3.
Starts2 == <<1, 3>>

Rates == [p \in Plans |-> IF p = 2 THEN 3 ELSE 2]

\* Event e1 asks for at least 2, and e2 for whatever the member gives.
Kinds == [p \in Plans |-> CASE p = e1 -> "minimum"
                            [] p = e2 -> "voluntary"
                            [] OTHER -> "fixed"]

OneAndTwo == {[defaulter |-> 1, forfeiture |-> 2]}
=============================================================================
