----------------------------- MODULE MCPayouts ------------------------------
(* Instances of Payouts for TLC. *)
EXTENDS Payouts, TLC

CONSTANTS r1, r2, o1, o2, o3, o4, p1, h1, h2

\* Thresholds so that amounts 1, 2 and 3 need one, two and three approvals.
Strict == [daily |-> 4, monthly |-> 5, one |-> 1, two |-> 2]
\* One approval is enough for everything, and the limits are tighter.
Lax == [daily |-> 3, monthly |-> 4, one |-> 3, two |-> 3]

OnlyStrict == {Strict}
StrictAndLax == {Strict, Lax}

\* The provider names the organisation in every event but the success of r2.
EveryEventNamed == {}
SuccessUnlabelled == {<<r2, "succeeded">>}

OfficerSymmetry == Permutations(Officers)
=============================================================================
