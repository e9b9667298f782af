----------------------------- MODULE MCTenancy ------------------------------
(* An instance of Tenancy for TLC. *)
EXTENDS Tenancy

CONSTANTS x1, x2, o1, d1, h1, h2, s1, s2

\* One due, of the first organisation, on the second day.
Calendar == [d \in Dues |-> 1]
Debtor == [d \in Dues |-> o1]
=============================================================================
