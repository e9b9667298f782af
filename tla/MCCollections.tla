--------------------------- MODULE MCCollections ----------------------------
(* Instances of Collections for TLC. *)
EXTENDS Collections

CONSTANTS i1, h1, h2

\* The provider echoes the organisation in every event, or in every event but
\* the failure, or the success, of a second transfer.
EveryEventNamed == {}
FailureUnlabelled == {<<<<i1, 2>>, "failed">>}
SuccessUnlabelled == {<<<<i1, 2>>, "succeeded">>}
=============================================================================
