----------------------------- MODULE Settlement -----------------------------
(***************************************************************************)
(* What the money-moving services promise about the confirmation of one    *)
(* asynchronous provider operation (a payout transfer, an automatic        *)
(* disbursement, a contribution charge): it stays open until the provider  *)
(* confirms or refuses it, a confirmation is booked in the ledger in the   *)
(* same step, and neither outcome is ever revisited.  The wording is that  *)
(* of PayoutService.handleTransferWebhook and PaymentService.handleWebhook *)
(* ("the ledger is posted only once, only here, only on genuine success"). *)
(***************************************************************************)
EXTENDS Naturals

CONSTANT Items          \* the operations awaiting confirmation

VARIABLES outcome,      \* outcome[i]: "open", "confirmed" or "refused"
          booked        \* booked[i]: ledger entries posted for i

settlementVars == <<outcome, booked>>

SettlementInit ==
    /\ outcome = [i \in Items |-> "open"]
    /\ booked = [i \in Items |-> 0]

Confirm(i) ==
    /\ outcome[i] = "open"
    /\ outcome' = [outcome EXCEPT ![i] = "confirmed"]
    /\ booked' = [booked EXCEPT ![i] = @ + 1]

Refuse(i) ==
    /\ outcome[i] = "open"
    /\ outcome' = [outcome EXCEPT ![i] = "refused"]
    /\ UNCHANGED booked

SettlementNext == \E i \in Items : Confirm(i) \/ Refuse(i)

SettlementSpec == SettlementInit /\ [][SettlementNext]_settlementVars
=============================================================================
