------------------------------ MODULE MCBooks -------------------------------
(* Instances of Books for TLC. *)
EXTENDS Books, TLC

CONSTANTS f1, f2, h1, h2

\* A plain payment, one with a fee that parks credit, and one that uses credit.
Payments == {[cash |-> 2, fee |-> 0, parked |-> 0],
             [cash |-> 2, fee |-> 1, parked |-> 1],
             [cash |-> 1, fee |-> 0, parked |-> -1]}

\* Funds and handlers are interchangeable.
Symmetry == Permutations(Funds) \cup Permutations(Handlers)
=============================================================================
