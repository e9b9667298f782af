--------------------------- MODULE MCAssociation ----------------------------
(* An instance of Association for TLC. *)
EXTENDS Association, TLC

CONSTANTS a1, a2, m1, q1, h1, h2, chair

\* One term in a row, and a day off before the next.
Terms == [s \in Seats |-> {1}]
Cooling == [s \in Seats |-> 1]

\* Founders and handlers are interchangeable.
Symmetry == Permutations(Founders) \cup Permutations(Handlers)
=============================================================================
