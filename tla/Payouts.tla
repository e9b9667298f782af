------------------------------ MODULE Payouts ------------------------------
(***************************************************************************)
(* The manual payout flow of PayoutService (payments/payout.service.ts):   *)
(* an officer requests a payout, other officers approve or reject it under *)
(* the organisation's fund-control policy, the final approval hands it to  *)
(* the transfer provider, and the provider's webhook settles it.           *)
(*                                                                         *)
(* Every service call runs in one READ COMMITTED transaction, served by a  *)
(* handler.  A handler first reads (the first action of the operation) and *)
(* then commits (a later action), so two handlers interleave exactly where *)
(* the code takes no lock.  Two operations lock: createPayoutRequest takes *)
(* an advisory lock per organisation, approvePayoutRequest locks the row.  *)
(* A webhook that does not name its organisation is answered 200 and       *)
(* recorded nowhere.                                                       *)
(* The module describes one organisation and one fund.  A definition       *)
(* marked "mutant" is no part of it: it is a plausible bug that the runs   *)
(* must detect when it takes the place of the definition that follows it.  *)
(***************************************************************************)
EXTENDS Integers, Sequences, FiniteSetsExt

CONSTANTS
    Requests,       \* ids of payout_requests rows
    Officers,       \* members holding ledger:disburse
    Recipients,     \* payout recipients
    Amounts,        \* amounts a caller may ask for
    Policies,       \* fund-control policies an admin may set
    DefaultPolicy,  \* the policy of an organisation that never set one
    OpeningCash,    \* Cash balance of the fund at the start
    MaxDay,         \* bound: last day of the calendar
    DaysPerMonth,   \* length of a month in days
    Handlers,       \* concurrent API calls
    HookHandlers,   \* those that may serve a transfer webhook
    Unlabelled,     \* events that come without metadata.organisationId
    MaxAborts       \* bound: transactions that roll back

ASSUME PayoutsAssumption ==
    /\ HookHandlers \subseteq Handlers
    /\ Amounts \subseteq Int
    /\ OpeningCash \in Nat /\ MaxDay \in Nat /\ MaxAborts \in Nat
    /\ DaysPerMonth \in Nat \ {0}
    /\ DefaultPolicy \in Policies
    /\ Policies \subseteq [daily : Nat, monthly : Nat, one : Nat, two : Nat]

\* A handler that serves no call.
Idle == [op |-> "idle"]

VARIABLES
    policy,         \* the fund_control_policies row, or the defaults
    recipient,      \* recipient[p]: "absent", "unverified" or "verified"
    day,            \* today
    cash,           \* balance of the fund's Cash account
    status,         \* status[r], "absent" before the row is inserted
    terms,          \* terms[r]: amount, requester, recipient and day created
    approvals,      \* approvals[r]: officers of the APPROVED rows, in order
    rejections,     \* rejections[r]: officers of the REJECTED rows
    referenced,     \* referenced[r]: the row holds the provider's reference
    posted,         \* posted[r]: benefit_disbursement journal entries for r
    exceptions,     \* reconciliation exceptions raised, as <<r, reason>>
    transfer,       \* at the provider: "none" or "live"
    reports,        \* outcomes the provider has sent webhooks about
    handled,        \* history: outcomes whose webhook was answered 200
    releasedUnder,  \* history: the policy in force when r was released
    handler,        \* handler[h]: the call it is serving, with what it read
    aborts          \* transactions rolled back so far

requestVars  == <<status, terms, approvals, rejections, referenced,
                  releasedUnder>>
ledgerVars   == <<cash, posted, exceptions>>
providerVars == <<transfer, reports, handled>>
configVars   == <<policy, recipient, day, aborts>>
vars == <<requestVars, ledgerVars, providerVars, configVars, handler>>

Outcomes == {"succeeded", "failed"}

\* Nothing says that a provider echoes a transfer's metadata: the transfer
\* interface calls it "provider-facing only" (transfer-provider.interface.ts).
ASSUME UnlabelledAssumption == Unlabelled \subseteq Requests \X Outcomes

Reasons  == {"not_initiated", "unmatched", "conflict", "transfer_failed"}
Statuses == {"absent", "PENDING", "REJECTED", "TRANSFER_PENDING",
             "TRANSFER_FAILED", "SUCCEEDED"}

\* The statuses whose amounts use up the daily and monthly limits.
Counted  == {"PENDING", "APPROVED", "TRANSFER_PENDING", "SUCCEEDED"}
\* The statuses of a request that was handed to the provider.
Released == {"TRANSFER_PENDING", "TRANSFER_FAILED", "SUCCEEDED"}

Terms == [amount : Amounts, by : Officers, to : Recipients, on : 0..MaxDay]
NoTerms == [amount |-> 0]

\* What a handler remembers between its reads and its commit.
CreateCall == [daily : Nat, monthly : Nat, op : {"create"},
               amount : Amounts, by : Officers, to : Recipients]
DecideCall == [op : {"decide"}, by : Officers, req : Requests,
               seen : Seq(Officers)]
SettleCall == [op : {"settle"}, by : Officers, req : Requests,
               under : Policies, accepted : BOOLEAN]
HookCall   == [op : {"hook"}, req : Requests, outcome : Outcomes,
               found : Statuses]

OfficersIn(rows) == {rows[i] : i \in 1..Len(rows)}
Deciders(r) == OfficersIn(approvals[r]) \cup OfficersIn(rejections[r])

\* The approvals a payout of this amount needs under the policy p.
RequiredApprovals(p, amount) ==
    IF amount > p.two THEN 3 ELSE IF amount > p.one THEN 2 ELSE 1

Month(d) == d \div DaysPerMonth
CountedAmount(Days) ==
    LET live == {r \in Requests : status[r] \in Counted /\ terms[r].on \in Days}
    IN  SumFunction([r \in live |-> terms[r].amount])
DayTotal == CountedAmount({day})
MonthTotal == CountedAmount({d \in 0..MaxDay : Month(d) = Month(day)})

NoAdvisoryLock == TRUE                                              \* mutant
NoRowLock(r) == TRUE                                                \* mutant

\* pg_advisory_xact_lock: held from a creation's first read to its end.
CreationUnlocked == \A h \in Handlers : handler[h].op # "create"
\* SELECT ... FOR UPDATE on the row: held by a call that decides it.
RowUnlocked(r) ==
    \A h \in Handlers :
        handler[h].op \in {"decide", "settle"} => handler[h].req # r

Begin(h, call) == handler[h] = Idle /\ handler' = [handler EXCEPT ![h] = call]
End(h) == handler' = [handler EXCEPT ![h] = Idle]
-----------------------------------------------------------------------------
Init ==
    /\ policy = DefaultPolicy
    /\ recipient = [p \in Recipients |-> "absent"]
    /\ day = 0
    /\ cash = OpeningCash
    /\ status = [r \in Requests |-> "absent"]
    /\ terms = [r \in Requests |-> NoTerms]
    /\ approvals = [r \in Requests |-> <<>>]
    /\ rejections = [r \in Requests |-> <<>>]
    /\ referenced = [r \in Requests |-> FALSE]
    /\ posted = [r \in Requests |-> 0]
    /\ exceptions = {}
    /\ transfer = [r \in Requests |-> "none"]
    /\ reports = {}
    /\ handled = {}
    /\ releasedUnder = [r \in Requests |-> DefaultPolicy]
    /\ handler = [h \in Handlers |-> Idle]
    /\ aborts = 0

\* createPayoutRecipient: the provider answers before the row is inserted; a
\* refusal is fatal, and the answer says whether the recipient is verified.
CreatePayoutRecipient(p) ==
    /\ recipient[p] = "absent"
    /\ \E answer \in {"verified", "unverified"} :
          recipient' = [recipient EXCEPT ![p] = answer]
    /\ UNCHANGED <<requestVars, ledgerVars, providerVars, policy, day, aborts,
                   handler>>

UpdateFundControlPolicy(p) ==
    /\ policy' = p
    /\ UNCHANGED <<requestVars, ledgerVars, providerVars, recipient, day,
                   aborts, handler>>

NextDay ==
    /\ day < MaxDay
    /\ day' = day + 1
    /\ UNCHANGED <<requestVars, ledgerVars, providerVars, policy, recipient,
                   aborts, handler>>
-----------------------------------------------------------------------------
\* createPayoutRequest up to its checks: under the advisory lock it reads the
\* recipient, the Cash balance, the policy and the totals of live requests.
CreateCheck(h, o, a, p) ==
    /\ a > 0
    /\ \E r \in Requests : status[r] = "absent"   \* bound: ids left
    /\ CreationUnlocked
    /\ recipient[p] = "verified"
    /\ cash >= a
    /\ DayTotal + a <= policy.daily
    /\ MonthTotal + a <= policy.monthly
    /\ Begin(h, [daily |-> policy.daily, monthly |-> policy.monthly, op |-> "create",
                 amount |-> a, by |-> o, to |-> p])
    /\ UNCHANGED <<requestVars, ledgerVars, providerVars, configVars>>

\* ... and its insert, which also releases the advisory lock.
CreateInsert(h, r) ==
    /\ handler[h].op = "create"
    /\ status[r] = "absent"
    /\ status' = [status EXCEPT ![r] = "PENDING"]
    /\ terms' = [terms EXCEPT ![r] = [amount |-> handler[h].amount,
                                      by |-> handler[h].by,
                                      to |-> handler[h].to, on |-> day]]
    /\ End(h)
    /\ UNCHANGED <<approvals, rejections, referenced, releasedUnder,
                   ledgerVars, providerVars, configVars>>
-----------------------------------------------------------------------------
\* approvePayoutRequest takes the row lock and reads the row and its
\* approvals: it must be PENDING, and the officer neither its requester nor
\* one who already decided it.
ApproveLock(h, o, r) ==
    /\ RowUnlocked(r)
    /\ status[r] = "PENDING"
    /\ terms[r].by # o
    /\ o \notin Deciders(r)
    /\ Begin(h, [op |-> "decide", by |-> o, req |-> r, seen |-> approvals[r]])
    /\ UNCHANGED <<requestVars, ledgerVars, providerVars, configVars>>

\* decision = REJECTED: one rejection ends the request.
ApproveReject(h) ==
    LET r == handler[h].req IN
    /\ handler[h].op = "decide"
    /\ rejections' = [rejections EXCEPT ![r] = Append(@, handler[h].by)]
    /\ status' = [status EXCEPT ![r] = "REJECTED"]
    /\ End(h)
    /\ UNCHANGED <<terms, approvals, referenced, releasedUnder, ledgerVars,
                   providerVars, configVars>>

\* An approval that is not the last leaves the row APPROVED, a status the
\* column allows and nothing handles.
ApproveMarks(h) ==                                                  \* mutant
    LET r == handler[h].req IN
    /\ handler[h].op = "decide"
    /\ Len(handler[h].seen) + 1 < RequiredApprovals(policy, terms[r].amount)
    /\ approvals' = [approvals EXCEPT ![r] = Append(@, handler[h].by)]
    /\ status' = [status EXCEPT ![r] = "APPROVED"]
    /\ End(h)
    /\ UNCHANGED <<terms, rejections, referenced, releasedUnder, ledgerVars,
                   providerVars, configVars>>

\* decision = APPROVED with more approvals still to come.
ApproveWait(h) ==
    LET r == handler[h].req IN
    /\ handler[h].op = "decide"
    /\ Len(handler[h].seen) + 1 < RequiredApprovals(policy, terms[r].amount)
    /\ approvals' = [approvals EXCEPT ![r] = Append(@, handler[h].by)]
    /\ End(h)
    /\ UNCHANGED <<status, terms, rejections, referenced, releasedUnder,
                   ledgerVars, providerVars, configVars>>

\* decision = APPROVED, and enough: the provider is called with the request id
\* as its idempotency key while the transaction is still open.  It may accept,
\* refuse, or accept while its answer is lost (which the code sees as an error).
ApproveCallProvider(h) ==
    LET r == handler[h].req IN
    /\ handler[h].op = "decide"
    /\ Len(handler[h].seen) + 1 >= RequiredApprovals(policy, terms[r].amount)
    /\ recipient[terms[r].to] = "verified"
    /\ \E reached, answered \in BOOLEAN :
          /\ answered => reached
          /\ transfer' = IF reached THEN [transfer EXCEPT ![r] = "live"]
                                    ELSE transfer
          /\ handler' = [handler EXCEPT ![h] =
                           [op |-> "settle", by |-> handler[h].by, req |-> r,
                            under |-> policy, accepted |-> answered]]
    /\ UNCHANGED <<requestVars, ledgerVars, reports, handled, configVars>>

\* ... and the commit: TRANSFER_PENDING under the provider's reference, or
\* TRANSFER_FAILED with an exception for review.  The approval stands in both.
ApproveSettle(h) ==
    LET r == handler[h].req IN
    /\ handler[h].op = "settle"
    /\ approvals' = [approvals EXCEPT ![r] = Append(@, handler[h].by)]
    /\ releasedUnder' = [releasedUnder EXCEPT ![r] = handler[h].under]
    /\ \/ /\ handler[h].accepted
          /\ status' = [status EXCEPT ![r] = "TRANSFER_PENDING"]
          /\ referenced' = [referenced EXCEPT ![r] = TRUE]
          /\ UNCHANGED exceptions
       \/ /\ ~handler[h].accepted
          /\ status' = [status EXCEPT ![r] = "TRANSFER_FAILED"]
          /\ exceptions' = exceptions \cup {<<r, "not_initiated">>}
          /\ UNCHANGED referenced
    /\ End(h)
    /\ UNCHANGED <<terms, rejections, cash, posted, providerVars, configVars>>
-----------------------------------------------------------------------------
\* The provider settles a live transfer and sends a webhook about it.  It may
\* correct itself later with the opposite outcome.
ProviderReport(r, s) ==
    /\ transfer[r] = "live"
    /\ reports' = reports \cup {<<r, s>>}
    /\ UNCHANGED <<requestVars, ledgerVars, transfer, handled, configVars,
                   handler>>

\* handlePaystackWebhook of an event whose metadata names no organisation:
\* "ignored", and the provider is told that all is well.
IgnoreEvent(r, s) ==
    /\ <<r, s>> \in reports \cap Unlabelled
    /\ handled' = handled \cup {<<r, s>>}
    /\ UNCHANGED <<requestVars, ledgerVars, transfer, reports, configVars,
                   handler>>

\* handleTransferWebhook, of an event that names its organisation, looks the
\* reference up; it takes no lock.  A report may be delivered any number of
\* times and in any order.
WebhookRead(h, r, s) ==
    /\ h \in HookHandlers
    /\ <<r, s>> \in reports \ Unlabelled
    /\ Begin(h, [op |-> "hook", req |-> r, outcome |-> s,
                 found |-> IF referenced[r] THEN status[r] ELSE "absent"])
    /\ UNCHANGED <<requestVars, ledgerVars, providerVars, configVars>>

Recorded(s) == IF s = "succeeded" THEN "SUCCEEDED" ELSE "TRANSFER_FAILED"

Raise(r, reason) == exceptions' = exceptions \cup {<<r, reason>>}

\* No row has this reference, and nobody is told.
HookIgnored(r, s, found) ==                                         \* mutant
    /\ found = "absent"
    /\ UNCHANGED <<status, cash, posted, exceptions>>

\* No row has this reference: an exception for review.
HookUnmatched(r, s, found) ==
    /\ found = "absent"
    /\ Raise(r, "unmatched")
    /\ UNCHANGED <<status, cash, posted>>

\* A repeat is booked again.
HookRebooks(r, s, found) ==                                         \* mutant
    /\ found = "SUCCEEDED" /\ s = "succeeded"
    /\ posted' = [posted EXCEPT ![r] = @ + 1]
    /\ cash' = cash - terms[r].amount
    /\ UNCHANGED <<status, exceptions>>

\* confirmPayoutTransfer of a settled row: a repeat is a no-op, a
\* contradiction an exception.
HookAlreadyProcessed(r, s, found) ==
    /\ found \notin {"absent", "TRANSFER_PENDING"}
    /\ \/ found # Recorded(s) /\ Raise(r, "conflict")
       \/ found = Recorded(s) /\ UNCHANGED exceptions
    /\ UNCHANGED <<status, cash, posted>>

HookFailed(r, s, found) ==
    /\ found = "TRANSFER_PENDING" /\ s = "failed"
    /\ status' = [status EXCEPT ![r] = "TRANSFER_FAILED"]
    /\ Raise(r, "transfer_failed")
    /\ UNCHANGED <<cash, posted>>

\* Success: Benefits Expense is debited, Cash credited, the row SUCCEEDED.
HookSucceeded(r, s, found) ==
    /\ found = "TRANSFER_PENDING" /\ s = "succeeded"
    /\ status' = [status EXCEPT ![r] = "SUCCEEDED"]
    /\ posted' = [posted EXCEPT ![r] = @ + 1]
    /\ cash' = cash - terms[r].amount
    /\ UNCHANGED exceptions

WebhookCommit(h) ==
    LET r == handler[h].req
        s == handler[h].outcome
        found == handler[h].found
    IN
    /\ handler[h].op = "hook"
    /\ \/ HookUnmatched(r, s, found)
       \/ HookAlreadyProcessed(r, s, found)
       \/ HookFailed(r, s, found)
       \/ HookSucceeded(r, s, found)
    /\ handled' = handled \cup {<<r, s>>}
    /\ End(h)
    /\ UNCHANGED <<terms, approvals, rejections, referenced, releasedUnder,
                   transfer, reports, configVars>>

\* The transaction rolls back (a thrown check, its timeout, a crash).  What the
\* provider was told stays told.
Abort(h) ==
    /\ aborts < MaxAborts
    /\ handler[h] # Idle
    /\ End(h)
    /\ aborts' = aborts + 1
    /\ UNCHANGED <<requestVars, ledgerVars, providerVars, policy, recipient, day>>
-----------------------------------------------------------------------------
Next ==
    \/ \E p \in Recipients : CreatePayoutRecipient(p)
    \/ \E p \in Policies : UpdateFundControlPolicy(p)
    \/ NextDay
    \/ \E h \in Handlers :
          \/ \E o \in Officers, a \in Amounts, p \in Recipients :
                CreateCheck(h, o, a, p)
          \/ \E r \in Requests : CreateInsert(h, r)
          \/ \E o \in Officers, r \in Requests : ApproveLock(h, o, r)
          \/ ApproveReject(h)
          \/ ApproveWait(h)
          \/ ApproveCallProvider(h)
          \/ ApproveSettle(h)
          \/ \E r \in Requests, s \in Outcomes : WebhookRead(h, r, s)
          \/ WebhookCommit(h)
          \/ Abort(h)
    \/ \E r \in Requests, s \in Outcomes :
          ProviderReport(r, s) \/ IgnoreEvent(r, s)

Spec == Init /\ [][Next]_vars

Finish(h) ==
    \/ \E r \in Requests : CreateInsert(h, r)
    \/ ApproveReject(h) \/ ApproveWait(h)
    \/ ApproveCallProvider(h) \/ ApproveSettle(h)
    \/ WebhookCommit(h)

\* A call that started finishes, and the provider redelivers a report until a
\* delivery of it is answered; the API never runs out of handlers for it.
Fairness ==
    /\ \A h \in Handlers : WF_vars(Finish(h))
    /\ \A r \in Requests, s \in Outcomes :
          SF_vars(/\ <<r, s>> \notin handled
                  /\ \/ \E h \in Handlers : WebhookRead(h, r, s)
                     \/ IgnoreEvent(r, s))

FairSpec == Spec /\ Fairness
-----------------------------------------------------------------------------
TypeOK ==
    /\ policy \in Policies
    /\ recipient \in [Recipients -> {"absent", "unverified", "verified"}]
    /\ day \in 0..MaxDay
    /\ cash \in Int
    /\ status \in [Requests -> Statuses]
    /\ terms \in [Requests -> Terms \cup {NoTerms}]
    /\ approvals \in [Requests -> Seq(Officers)]
    /\ rejections \in [Requests -> Seq(Officers)]
    /\ referenced \in [Requests -> BOOLEAN]
    /\ posted \in [Requests -> Nat]
    /\ exceptions \subseteq Requests \X Reasons
    /\ transfer \in [Requests -> {"none", "live"}]
    /\ reports \subseteq Requests \X Outcomes
    /\ handled \subseteq Requests \X Outcomes
    /\ releasedUnder \in [Requests -> Policies]
    /\ handler \in [Handlers -> {Idle} \cup CreateCall \cup DecideCall
                                \cup SettleCall \cup HookCall]
    /\ aborts \in 0..MaxAborts

\* Maker-checker and one decision per officer (payout.service.ts:384-397),
\* however many officers decide the same request at the same time: nobody
\* decides a request they made, and no officer has two decision rows on it.
SegregationOfDuties ==
    \A r \in Requests :
        /\ status[r] # "absent" => terms[r].by \notin Deciders(r)
        /\ Cardinality(Deciders(r)) = Len(approvals[r]) + Len(rejections[r])

\* A request reaches the provider only with as many different approvers as
\* the policy in force at its release demands for its amount, whatever policy
\* its earlier approvals were given under (payout.service.ts:427-442), and never
\* after a rejection.
EnoughApprovers ==
    \A r \in Requests : status[r] \in Released =>
        /\ Cardinality(OfficersIn(approvals[r]))
              >= RequiredApprovals(releasedUnder[r], terms[r].amount)
        /\ rejections[r] = <<>>

\* What a creation adds keeps the day's and the month's live payouts within
\* the limits it read, even against other creations (payout.service.ts:231-239).
CapsHeldAtInsert ==
    [][\A h \in Handlers :
          handler[h].op = "create" /\ status' # status /\ handler'[h] = Idle =>
              /\ DayTotal' <= handler[h].daily
              /\ MonthTotal' <= handler[h].monthly]_vars

\* A rejected, failed or paid request never changes again: no late approval,
\* and no late or repeated webhook, revives it.
AnswersAreFinal ==
    [][\A r \in Requests :
          status[r] \in {"REJECTED", "TRANSFER_FAILED", "SUCCEEDED"} =>
              status'[r] = status[r]]_vars

\* The ledger shows one disbursement for a paid request and none for any other
\* ("posted only once, only here, only on genuine success").
BookedIffSucceeded ==
    \A r \in Requests : posted[r] = IF status[r] = "SUCCEEDED" THEN 1 ELSE 0

\* Every success the provider reports, if the report names its organisation,
\* is eventually in the ledger, or in the review queue as one that no row or a
\* row that says otherwise was found for.  (An exception names the reference and
\* not the outcome, so that one raised for an earlier, failed report counts.)
ReportsAccountedFor ==
    \A r \in Requests :
        <<r, "succeeded">> \in reports \ Unlabelled ~>
            \/ posted[r] > 0
            \/ <<r, "unmatched">> \in exceptions
            \/ <<r, "conflict">> \in exceptions

\* A payout is a settlement: awaiting its transfer's outcome, or before, it is
\* open; an officer's rejection refuses it as the provider's failure does.
Outcome(r) == CASE status[r] = "SUCCEEDED" -> "confirmed"
                [] status[r] \in {"REJECTED", "TRANSFER_FAILED"} -> "refused"
                [] OTHER -> "open"

Confirmation == INSTANCE Settlement WITH
    Items <- Requests,
    outcome <- [r \in Requests |-> Outcome(r)],
    booked <- posted

\* Each payout is confirmed and booked in one step, at most once, and never
\* both confirmed and refused.
ImplementsSettlement == Confirmation!SettlementSpec
=============================================================================
