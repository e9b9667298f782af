------------------------------ MODULE MCClaims ------------------------------
(* An instance of Claims for TLC. *)
EXTENDS Claims, TLC

CONSTANTS r1, r2, c1, c2, a1, a2, self, child, h1, h2

\* The first version has two approval stages and pays once per subject; r2 has
\* none, pays twice, and asks for a day of membership.
Chains == [r \in Rules |-> IF r = r2 THEN 0 ELSE 2]
Caps == [r \in Rules |-> IF r = r2 THEN 2 ELSE 1]
Tenures == [r \in Rules |-> IF r = r2 THEN 1 ELSE 0]

\* Handlers, actors and claims are interchangeable.
Symmetry == Permutations(Handlers) \cup Permutations(Actors) \cup Permutations(Claims)
=============================================================================
