---------------------------- MODULE MCElections -----------------------------
(* An instance of Elections for TLC. *)
EXTENDS Elections, TLC

CONSTANTS e1, e2, m1, m2, n1, h1, h2

\* An officer's election and one on an issue, both with a requirement and both
\* with an issue option, which is a line to vote for in the second alone.
IssueOptions == [e \in Elections |-> 1]
Required == [e \in Elections |-> {"good standing"}]

Symmetry == Permutations(Members) \cup Permutations(Handlers)
=============================================================================
