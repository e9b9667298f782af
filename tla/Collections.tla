---------------------------- MODULE Collections ----------------------------
(***************************************************************************)
(* Contribution payments through the payment provider, and the automatic   *)
(* disbursement of each one (payments/payment.service.ts, and the          *)
(* auto-disbursement half of payments/payout.service.ts).                  *)
(*                                                                         *)
(* A member's payment is a PaymentIntent that stays INITIATED until the    *)
(* provider's charge webhook settles it.  A successful charge is allocated *)
(* and booked, and in the same transaction its net amount may be sent on   *)
(* to the organisation's own wallet: an AutoDisbursement row, at most one  *)
(* per intent by its unique key, whose transfer is settled by a webhook of *)
(* its own.                                                                *)
(*                                                                         *)
(* Both webhook handlers read without a lock, so each is a read step and a *)
(* commit step, with one more step for the call to the transfer provider.  *)
(* A call made to a provider survives the rollback of its transaction.     *)
(* Before either handler runs, the controller drops an event that does not *)
(* name its organisation: it is answered 200 and recorded nowhere.         *)
(* Definitions marked "mutant" are plausible bugs, as in Payouts.          *)
(***************************************************************************)
EXTENDS Integers, FiniteSetsExt

CONSTANTS
    Intents,        \* payments that members may start
    Net,            \* what remains of a payment after the provider's fee
    PlatformFees,   \* the platform's share of it, as the operator may set it
    Handlers,       \* concurrent API calls
    HookHandlers,   \* those that may serve a webhook
    Unlabelled,     \* events that come without metadata.organisationId
    MaxAborts       \* bound: transactions that roll back

ASSUME CollectionsAssumption ==
    /\ HookHandlers \subseteq Handlers
    /\ Net \in Nat /\ PlatformFees \subseteq Nat
    /\ MaxAborts \in Nat

VARIABLES
    autoDisbursement,   \* the fund-control policy's switch
    settlement,         \* the settlement account: see SettlementStates
    fits,               \* fits[i]: the allocation accepts the payment
    intent,             \* status of the committed row, or "absent"
    charge,             \* at the provider: "none" or "live"
    booked,             \* booked[i]: contribution_payment entries for i
    disbursement,       \* status of the auto_disbursements row of i
    reference,          \* reference[i]: transfer the row refers to, 0 if none
    transfers,          \* transfers the provider accepted, as <<i, n>>
    disbursed,          \* disbursed[i]: auto_disbursement entries for i
    exceptions,         \* provider references that are under review
    reports,            \* <<reference, outcome>> the provider has sent
    handled,            \* history: those answered 200, read or not
    handler,            \* handler[h]: the call it is serving, what it read
    aborts              \* transactions rolled back so far

configVars   == <<autoDisbursement, settlement, fits>>
intentVars   == <<intent, booked>>
transferVars == <<disbursement, reference, disbursed>>
providerVars == <<charge, transfers, reports>>
reviewVars   == <<exceptions, handled>>
vars == <<configVars, intentVars, transferVars, providerVars, reviewVars,
          handler, aborts>>

Outcomes == {"succeeded", "failed"}
SettlementStates == {"absent", "unverified", "verified"}
IntentStates == {"absent", "INITIATED", "SUCCEEDED", "FAILED"}
DisbursementStates == {"absent", "PENDING", "SUCCEEDED", "FAILED"}

\* A provider reference: <<i, 0>> is the charge of i, <<i, n>> its nth transfer.
\* (a transfer is ordered again only after a rollback).
Attempts == 1..(MaxAborts + 1)
References == Intents \X ({0} \cup Attempts)
ChargeOf(i) == <<i, 0>>

\* The charge interface has the provider echo the organisation back
\* (payment-provider.interface.ts:6-9); nothing says so of transfers.
ASSUME UnlabelledAssumption == Unlabelled \subseteq References \X Outcomes

Idle == [op |-> "idle"]
InitiateCall == [op : {"initiate"}, item : Intents]
ChargeCall == [op : {"charge"}, item : Intents, outcome : Outcomes,
               found : IntentStates]
OrderCall == [op : {"order"}, item : Intents, ref : {0} \cup Attempts]
TransferCall == [op : {"transfer"}, item : Intents, ref : Attempts,
                 outcome : Outcomes, found : DisbursementStates]

Recorded(s) == IF s = "succeeded" THEN "SUCCEEDED" ELSE "FAILED"
Begin(h, call) == handler[h] = Idle /\ handler' = [handler EXCEPT ![h] = call]
End(h) == handler' = [handler EXCEPT ![h] = Idle]
Swallow(ref) == UNCHANGED exceptions                                \* mutant
Raise(ref) == exceptions' = exceptions \cup {ref}
Answer(ref, s) == handled' = handled \cup {<<ref, s>>}

\* What is left to send on, after the platform's fee.
TransferAmount(fee) == Net - fee
\* The auto-disbursement path is on, with somewhere to send the money.
Enabled == autoDisbursement /\ settlement = "verified"
\* auto_disbursements.paymentIntentId is unique: an insert waits for another
\* transaction's uncommitted row of the same intent, and then fails.
InsertUnlocked(i) ==
    \A g \in Handlers : handler[g].op = "order" => handler[g].item # i
NoUniqueKey(i) == TRUE                                              \* mutant
RowFree(i) == InsertUnlocked(i) /\ disbursement[i] = "absent"
AttemptsFromZero(i) == Cardinality({t \in transfers : t[1] = i})    \* mutant
NextAttempt(i) == 1 + Cardinality({t \in transfers : t[1] = i})
-----------------------------------------------------------------------------
Init ==
    /\ autoDisbursement = FALSE
    /\ settlement = "absent"
    /\ fits = [i \in Intents |-> TRUE]
    /\ intent = [i \in Intents |-> "absent"]
    /\ charge = [i \in Intents |-> "none"]
    /\ booked = [i \in Intents |-> 0]
    /\ disbursement = [i \in Intents |-> "absent"]
    /\ reference = [i \in Intents |-> 0]
    /\ transfers = {}
    /\ disbursed = [i \in Intents |-> 0]
    /\ exceptions = {} /\ reports = {} /\ handled = {}
    /\ handler = [h \in Handlers |-> Idle]
    /\ aborts = 0

\* createSettlementAccount: an upsert after the provider accepted the number;
\* the provider's answer says whether it is verified.
CreateSettlementAccount ==
    /\ settlement' \in {"unverified", "verified"}
    /\ UNCHANGED <<autoDisbursement, fits, intentVars, transferVars,
                   providerVars, reviewVars, handler, aborts>>

\* updateFundControlPolicy, of its autoDisbursement switch.
SetAutoDisbursement(on) ==
    /\ autoDisbursement' = on
    /\ UNCHANGED <<settlement, fits, intentVars, transferVars, providerVars,
                   reviewVars, handler, aborts>>

\* The member's obligations change while the payment is in flight: another
\* payment settles what this one selected, or an obligation is added.
ObligationsMove(i) ==
    /\ fits' = [fits EXCEPT ![i] = ~@]
    /\ UNCHANGED <<autoDisbursement, settlement, intentVars, transferVars,
                   providerVars, reviewVars, handler, aborts>>
-----------------------------------------------------------------------------
\* initiateContributionPayment: the provider is asked to charge the member
\* while the transaction that inserts the intent is still open.  If its answer
\* is lost the transaction rolls back (Abort), although the charge exists.
Initiate(h, i) ==
    /\ charge[i] = "none"
    /\ Begin(h, [op |-> "initiate", item |-> i])
    /\ charge' = [charge EXCEPT ![i] = "live"]
    /\ UNCHANGED <<configVars, intentVars, transferVars, transfers, reports,
                   reviewVars, aborts>>

InitiateCommit(h) ==
    /\ handler[h].op = "initiate"
    /\ intent' = [intent EXCEPT ![handler[h].item] = "INITIATED"]
    /\ End(h)
    /\ UNCHANGED <<configVars, booked, transferVars, providerVars, reviewVars,
                   aborts>>
-----------------------------------------------------------------------------
\* The provider settles a charge or a transfer and reports it, possibly again
\* with the opposite outcome.
ProviderReport(ref, s) ==
    /\ IF ref[2] = 0 THEN charge[ref[1]] = "live" ELSE ref \in transfers
    /\ reports' = reports \cup {<<ref, s>>}
    /\ UNCHANGED <<configVars, intentVars, transferVars, charge, transfers,
                   reviewVars, handler, aborts>>

\* handlePaystackWebhook of an event whose metadata names no organisation:
\* "ignored", and the provider is told that all is well.
IgnoreEvent(ref, s) ==
    /\ <<ref, s>> \in reports \cap Unlabelled
    /\ Answer(ref, s)
    /\ UNCHANGED <<configVars, intentVars, transferVars, providerVars,
                   exceptions, handler, aborts>>

\* handleWebhook looks the intent up by the charge's reference.
ChargeRead(h, i, s) ==
    /\ h \in HookHandlers
    /\ <<ChargeOf(i), s>> \in reports
    /\ Begin(h, [op |-> "charge", item |-> i, outcome |-> s,
                 found |-> intent[i]])
    /\ UNCHANGED <<configVars, intentVars, transferVars, providerVars,
                   reviewVars, aborts>>

\* No such intent: an exception for review.  Already settled: a repeat is a
\* no-op, a contradiction an exception.
ChargeNotOpen(h) ==
    LET call == handler[h]
        ref == ChargeOf(call.item)
    IN
    /\ call.op = "charge"
    /\ call.found # "INITIATED"
    /\ \/ call.found # Recorded(call.outcome) /\ Raise(ref)
       \/ call.found = Recorded(call.outcome) /\ UNCHANGED exceptions
    /\ Answer(ref, call.outcome)
    /\ End(h)
    /\ UNCHANGED <<configVars, intentVars, transferVars, providerVars, aborts>>

ChargeFailed(h) ==
    LET call == handler[h] IN
    /\ call.op = "charge"
    /\ call.found = "INITIATED" /\ call.outcome = "failed"
    /\ intent' = [intent EXCEPT ![call.item] = "FAILED"]
    /\ Answer(ChargeOf(call.item), "failed")
    /\ End(h)
    /\ UNCHANGED <<configVars, booked, transferVars, providerVars, exceptions,
                   aborts>>

Settling(h) ==
    /\ handler[h].op = "charge"
    /\ handler[h].found = "INITIATED" /\ handler[h].outcome = "succeeded"

\* The status update is forgotten.
BookLeavesOpen(h, i) ==                                             \* mutant
    /\ booked' = [booked EXCEPT ![i] = @ + 1]
    /\ Answer(ChargeOf(i), "succeeded")
    /\ End(h)
    /\ UNCHANGED <<intent, configVars, providerVars, exceptions, aborts>>

\* What the commit of a successful charge writes: the entry and the status.
Book(h, i) ==
    /\ intent' = [intent EXCEPT ![i] = "SUCCEEDED"]
    /\ booked' = [booked EXCEPT ![i] = @ + 1]
    /\ Answer(ChargeOf(i), "succeeded")
    /\ End(h)
    /\ UNCHANGED <<configVars, providerVars, exceptions, aborts>>

\* The allocation refuses the payment, or the intent already has an
\* auto_disbursements row: the transaction throws, and the provider is
\* answered with an error.
ChargeRejected(h) ==
    LET i == handler[h].item IN
    /\ Settling(h)
    /\ ~fits[i] \/ (Enabled /\ InsertUnlocked(i) /\ disbursement[i] # "absent")
    /\ End(h)
    /\ UNCHANGED <<configVars, intentVars, transferVars, providerVars,
                   reviewVars, aborts>>

\* Success without a transfer: the feature is off or has nowhere to send to,
\* or the fee leaves nothing to send (recorded as a FAILED row).
ChargeBooked(h) ==
    LET i == handler[h].item IN
    /\ Settling(h)
    /\ fits[i]
    /\ \/ ~Enabled /\ UNCHANGED transferVars
       \/ /\ Enabled /\ \E fee \in PlatformFees : TransferAmount(fee) <= 0
          /\ RowFree(i)
          /\ disbursement' = [disbursement EXCEPT ![i] = "FAILED"]
          /\ UNCHANGED <<reference, disbursed>>
    /\ Book(h, i)

\* Success with a transfer: the row is inserted and the transfer provider is
\* called, under a fresh idempotency key, in the open transaction.  It may
\* accept, refuse, or accept while its answer is lost (ref 0).
OrderTransfer(h) ==
    LET i == handler[h].item IN
    /\ Settling(h)
    /\ fits[i]
    /\ Enabled /\ \E fee \in PlatformFees : TransferAmount(fee) > 0
    /\ RowFree(i)
    /\ \E reached, answered \in BOOLEAN :
          /\ answered => reached
          /\ transfers' = IF reached
                          THEN transfers \cup {<<i, NextAttempt(i)>>}
                          ELSE transfers
          /\ handler' = [handler EXCEPT ![h] =
                [op |-> "order", item |-> i,
                 ref |-> IF answered THEN NextAttempt(i) ELSE 0]]
    /\ UNCHANGED <<configVars, intentVars, transferVars, charge, reports,
                   reviewVars, aborts>>

\* ... and the commit: PENDING under the transfer's reference, or FAILED.  The
\* contribution is booked either way.
OrderCommit(h) ==
    LET i == handler[h].item
        ref == handler[h].ref
    IN
    /\ handler[h].op = "order"
    /\ disbursement' = [disbursement EXCEPT ![i] =
                          IF ref = 0 THEN "FAILED" ELSE "PENDING"]
    /\ reference' = [reference EXCEPT ![i] = ref]
    /\ UNCHANGED disbursed
    /\ Book(h, i)
-----------------------------------------------------------------------------
\* handleTransferWebhook of an automatic disbursement.
TransferRead(h, i, n, s) ==
    /\ h \in HookHandlers
    /\ <<<<i, n>>, s>> \in reports
    /\ Begin(h, [op |-> "transfer", item |-> i, ref |-> n, outcome |-> s,
                 found |-> IF reference[i] = n THEN disbursement[i]
                                               ELSE "absent"])
    /\ UNCHANGED <<configVars, intentVars, transferVars, providerVars,
                   reviewVars, aborts>>

\* A row that already failed is paid after all.
PayAnyOpen(i, found, s) ==                                          \* mutant
    /\ found \in {"PENDING", "FAILED"} /\ s = "succeeded"
    /\ disbursement' = [disbursement EXCEPT ![i] = "SUCCEEDED"]
    /\ disbursed' = [disbursed EXCEPT ![i] = @ + 1]
    /\ UNCHANGED exceptions

\* confirmAutoDisbursementTransfer of a PENDING row.  Success: Cash is
\* credited, "Settled to MoMo" and the platform's fee debited.
TransferSucceeded(i, found, s) ==
    /\ found = "PENDING" /\ s = "succeeded"
    /\ disbursement' = [disbursement EXCEPT ![i] = "SUCCEEDED"]
    /\ disbursed' = [disbursed EXCEPT ![i] = @ + 1]
    /\ UNCHANGED exceptions

TransferFailed(i, ref, found, s) ==
    /\ found = "PENDING" /\ s = "failed"
    /\ disbursement' = [disbursement EXCEPT ![i] = "FAILED"]
    /\ Raise(ref)
    /\ UNCHANGED disbursed

\* Of a settled row, or no row under that reference.
TransferNotOpen(ref, found, s) ==
    /\ found # "PENDING"
    /\ \/ found # Recorded(s) /\ Raise(ref)
       \/ found = Recorded(s) /\ UNCHANGED exceptions
    /\ UNCHANGED <<disbursement, disbursed>>

TransferCommit(h) ==
    LET i == handler[h].item
        ref == <<i, handler[h].ref>>
        found == handler[h].found
        s == handler[h].outcome
    IN
    /\ handler[h].op = "transfer"
    /\ \/ TransferNotOpen(ref, found, s)
       \/ TransferFailed(i, ref, found, s)
       \/ TransferSucceeded(i, found, s)
    /\ Answer(ref, s)
    /\ End(h)
    /\ UNCHANGED <<configVars, intentVars, reference, providerVars, aborts>>

\* The transaction rolls back (its timeout, a crash).
Abort(h) ==
    /\ aborts < MaxAborts
    /\ handler[h] # Idle
    /\ End(h)
    /\ aborts' = aborts + 1
    /\ UNCHANGED <<configVars, intentVars, transferVars, providerVars,
                   reviewVars>>
-----------------------------------------------------------------------------
Finish(h) ==
    \/ InitiateCommit(h)
    \/ ChargeNotOpen(h) \/ ChargeFailed(h)
    \/ ChargeRejected(h) \/ ChargeBooked(h)
    \/ OrderTransfer(h) \/ OrderCommit(h)
    \/ TransferCommit(h)

\* handlePaystackWebhook of an event that names its organisation.
Deliver(h, ref, s) ==
    /\ <<ref, s>> \notin Unlabelled
    /\ \/ ref[2] = 0 /\ ChargeRead(h, ref[1], s)
       \/ ref[2] # 0 /\ TransferRead(h, ref[1], ref[2], s)

Next ==
    \/ CreateSettlementAccount
    \/ \E on \in BOOLEAN : SetAutoDisbursement(on)
    \/ \E i \in Intents : ObligationsMove(i)
    \/ \E ref \in References, s \in Outcomes :
          ProviderReport(ref, s) \/ IgnoreEvent(ref, s)
    \/ \E h \in Handlers :
          \/ \E i \in Intents : Initiate(h, i)
          \/ Finish(h)
          \/ \E ref \in References, s \in Outcomes : Deliver(h, ref, s)
          \/ Abort(h)

Spec == Init /\ [][Next]_vars

\* A call that started finishes, and the provider redelivers a report until a
\* delivery of it is answered 200.
Fairness ==
    /\ \A h \in Handlers : WF_vars(Finish(h))
    /\ \A ref \in References, s \in Outcomes :
          SF_vars(/\ <<ref, s>> \notin handled
                  /\ \/ \E h \in Handlers : Deliver(h, ref, s)
                     \/ IgnoreEvent(ref, s))

FairSpec == Spec /\ Fairness
-----------------------------------------------------------------------------
TypeOK ==
    /\ autoDisbursement \in BOOLEAN
    /\ settlement \in SettlementStates
    /\ fits \in [Intents -> BOOLEAN]
    /\ intent \in [Intents -> IntentStates]
    /\ charge \in [Intents -> {"none", "live"}]
    /\ booked \in [Intents -> Nat]
    /\ disbursement \in [Intents -> DisbursementStates]
    /\ reference \in [Intents -> {0} \cup Attempts]
    /\ transfers \subseteq Intents \X Attempts
    /\ disbursed \in [Intents -> Nat]
    /\ exceptions \subseteq References
    /\ reports \subseteq References \X Outcomes
    /\ handled \subseteq References \X Outcomes
    /\ handler \in [Handlers -> {Idle} \cup InitiateCall \cup ChargeCall
                                \cup OrderCall \cup TransferCall]
    /\ aborts \in 0..MaxAborts

\* The claim of payment.service.ts:152-154, of the count alone.
NeverDoublePosted == \A i \in Intents : booked[i] <= 1

\* One payment is sent on once, and once more at most for every transaction
\* that rolled back, even when its webhook is served twice at the same time:
\* the unique key stops the second before it reaches the provider.  (A rollback
\* after the transfer was ordered does pay twice: nothing remembers the order.)
OneTransferPerReceipt ==
    \A i \in Intents :
        Cardinality({t \in transfers : t[1] = i}) <= 1 + aborts

\* The provider was told that its report of success was received, and the
\* report named its organisation.
Acknowledged(ref) == <<ref, "succeeded">> \in handled \ Unlabelled

\* Once a success webhook that names its organisation, of a charge or of a
\* transfer, was answered 200, the ledger or the review queue shows it, also
\* after a rollback, and of every one of the transfers that a rollback caused.
\* An event that names none is answered 200 and shown by neither.
NoSilentMovement ==
    \A i \in Intents :
        /\ Acknowledged(ChargeOf(i)) => booked[i] > 0 \/ ChargeOf(i) \in exceptions
        /\ \A n \in Attempts : Acknowledged(<<i, n>>) =>
              \/ reference[i] = n /\ disbursed[i] > 0
              \/ <<i, n>> \in exceptions

\* Every charge the provider reports as paid is eventually booked or under
\* review, if the report names its organisation and the member's obligations
\* eventually leave room for it for good.
PaidIsAccountedFor ==
    \A i \in Intents :
        \/ []<>(~fits[i])
        \/ <<ChargeOf(i), "succeeded">> \in reports \ Unlabelled ~>
              booked[i] > 0 \/ ChargeOf(i) \in exceptions

ReceiptOutcome(i) == CASE intent[i] = "SUCCEEDED" -> "confirmed"
                       [] intent[i] = "FAILED" -> "refused"
                       [] OTHER -> "open"
TransferOutcome(i) == CASE disbursement[i] = "SUCCEEDED" -> "confirmed"
                        [] disbursement[i] = "FAILED" -> "refused"
                        [] OTHER -> "open"

Receipts == INSTANCE Settlement WITH
    Items <- Intents,
    outcome <- [i \in Intents |-> ReceiptOutcome(i)],
    booked <- booked
Disbursements == INSTANCE Settlement WITH
    Items <- Intents,
    outcome <- [i \in Intents |-> TransferOutcome(i)],
    booked <- disbursed

\* Both a contribution and its onward transfer are settled once and for all,
\* and booked in the same step.
ReceiptsSettle == Receipts!SettlementSpec
DisbursementsSettle == Disbursements!SettlementSpec
=============================================================================
