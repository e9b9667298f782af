# Verification of My Welfare GH

TLA+ models of the back end of this repository (`src/apps/api`), TLC
configurations that check them on small instances, and TLAPS proofs of the
results that matter most. Source paths below are relative to `src/apps/api/src`.

My Welfare GH runs welfare associations: members owe contributions, pay them
through a payment provider, and receive benefits; officers request and approve
payouts; a ledger of double-entry journal entries records every movement. The API
is a NestJS service over PostgreSQL. Every request handler runs in one
transaction (`prisma/prisma.service.ts`, `withTenant`), at PostgreSQL's default
isolation level, READ COMMITTED. Only two operations take a lock beyond that: the
creation of a payout request (an advisory lock per organisation) and the decision
on one (`SELECT ... FOR UPDATE`). Everywhere else a handler reads, decides and
writes while other handlers do the same, and the payment provider answers,
forgets to answer, and calls back later, twice, early or with a change of mind.
Those interleavings are what tests hardly reach and what these models are about.

## The system

| Component | State it keeps | Operations | Correct when |
|---|---|---|---|
| Payouts (`payments/payout.service.ts`) | recipients, fund-control policy, requests and their decisions, provider references | create recipient, set policy, create request, approve/reject, transfer webhook | duties are segregated, approvals suffice, limits hold, every transfer is booked once or put under review |
| Collections (`payments/payment.service.ts`, auto-disbursement in `payout.service.ts`) | payment intents, auto-disbursement rows, reconciliation exceptions | initiate, charge webhook, order transfer, transfer webhook | each paid charge is booked once and sent on at most once, none is forgotten |
| Contribution allocation (`ledger/obligation.service.ts`) | obligations, members' credit balance | create obligation, record a payment | oldest first, no money lost, ledger and obligations agree |
| Ledger and funds (`ledger/ledger.service.ts`, `fund.service.ts`) | accounts, journal entries | post, transfer between funds, reverse | entries balance, every report on them tells the same |
| Defaulter standing (`defaulter/defaulter.service.ts`) | policy, member status | set policy, reassess | standing follows the arrears |
| Claims (`claims/claim.service.ts`) | claims, stage decisions, evidence | submit, add evidence, decide, disburse | every stage approved, one disbursement, caps hold |
| Plans and rules (`rule-engine/*.service.ts`) | versions of plans and benefit rules | draft, activate, reject, evaluate | versions abut, eligibility as of the event |
| Governance (`governance/governance.service.ts`) | bodies, terms, elections, nominations, votes | appoint, open/close election, nominate, second, vet, vote | term limits, one ballot for each voter, the ballot holds what was vetted |
| Membership (`membership/membership.service.ts`) | members, status history, removal requests | change status, request/confirm/cancel removal | two administrators for a removal, seats vacated |
| Subscriptions (`subscriptions/*.ts`) | trial or paid subscription | create trial, convert, operator changes, guard | a lapsed trial ends |
| Notifications and scheduler (`notifications/*.ts`) | sent notifications | daily sweep | a reminder at most once |
| Roles (`rbac/rbac.service.ts`) | role assignments | grant, revoke, check | a permission is in force when it is checked |
| Accounts (`auth/auth.service.ts`), codes (`sms/sms.service.ts`) | accounts, one-time codes | register, join, log in, send, verify | one membership per account and organisation |
| Reporting (`reporting/reporting.service.ts`), budgets | none: queries over the ledger, obligations and claims | 17 reports, budget against actuals | they agree with one another |
| Settings, uploads, platform sign-in | rows written one at a time | single-row writes | not a protocol |
| Admin console, mobile app | none of their own | call the API | - |

How they meet. A charge webhook (Collections) calls the allocation, which writes
obligations and the member's credit, posts to the ledger and reassesses the
member's standing, and then orders an automatic transfer: all in one
transaction. The transfer webhook endpoint looks a reference up among payout
requests first and automatic disbursements second. The daily sweep reads
obligations and subscriptions and reassesses standing. Claims ask the rule engine
in a transaction of its own before they insert. Permission checks, too, run in a
transaction of their own before the operation they guard.

What is hard: (1) reads without locks, between two handlers of the same row;
(2) calls to a provider inside an open transaction, which a rollback does not
undo; (3) webhooks that are early, late, repeated or contradictory; (4) values
read at request time and relied on later; (5) long sequences of legal calls in
the allocation; (6) elapsed time racing a user's action (trials, codes,
elections). `PROJECT.json` lists each such hazard at its line.

## Plan

Modules in order of importance; what is left is marked.

1. `Settlement` - the abstract promise about one asynchronous provider operation. *Done.*
2. `Payouts` - implements `Settlement` once. *Done, checked, proved.*
3. `Collections` - implements `Settlement` twice. *Done, checked, proved, both
   refinements included.*
4. `Contributions` - allocation, extension, credit, standing, the reports on
   dues. *Done, checked, proved.*
5. `Claims` - benefit rule versions, eligibility, staged decisions and
   disbursement without locks. *Done, checked, proved.*
6. `Books` - contributions, disbursements, transfers, reversals, and the nine
   reports on the ledger. *Done, checked, proved.*
7. `Association` - removal by two administrators, roles, terms. *Done, checked,
   proved.*
8. `Elections` - nominations, vetting, votes, results. *Done, checked, proved.*
9. `Tenancy` - registration, joining, subscriptions, the daily sweep. *Done,
   checked, safety proved.*

The suite stays at a dozen runs, so that all of it is run on every change. A
hazard that no run covers, because the code does go wrong there, has a note in
`PROJECT.json` that says how.

## Conventions

* One variable per column or table, one action per handler - or, where a handler
  reads without a lock or calls a provider while its transaction is open, one
  action per segment between those points. A handler's local variables are the
  fields of `handler[h]`; `Idle` means it is serving nothing. READ COMMITTED is
  what that gives: a read sees the latest commit, a commit applies all writes,
  nothing relates the two unless a lock does.
* `Abort` rolls a transaction back: its writes vanish, what it told a provider
  stays.
* A definition marked "mutant" is no part of the model. It is a plausible bug -
  a lock not taken, an update forgotten, a repeat booked again - and the property
  named with it in `PROJECT.json` must fail when it replaces the definition that
  follows it. That shows that each property constrains the code.
* Bounds are constants named `Max...`, or the finite sets the MC modules give.
* The fields of a record are written in the order in which their names first
  occur in the module. Under symmetry TLC's workers then never have to sort a
  record that they share.

## Payouts

`Payouts.tla` models `PayoutService` without the automatic half. Variables
`status`, `terms`, `approvals`, `rejections`, `referenced` are the rows of
`payout_requests` and `payout_approvals`; `policy` the row of
`fund_control_policies` or its defaults; `cash` and `posted` what the ledger
shows; `exceptions` the review queue; `transfer` and `reports` the provider.
`releasedUnder` (the policy in force when a request was released) and `handled` are
history.

| Code | Actions |
|---|---|
| `createPayoutRequest` (220-354) | `CreateCheck` (lock, checks) then `CreateInsert` |
| `approvePayoutRequest` (356-511) | `ApproveLock`, then `ApproveReject`, `ApproveWait`, or `ApproveCallProvider` and `ApproveSettle` |
| `handleTransferWebhook`, `confirmPayoutTransfer` (683-914) | `WebhookRead`, then `WebhookCommit` (one disjunct per branch) |
| `handlePaystackWebhook` (123-137) of an event that names no organisation | `IgnoreEvent` |
| `createPayoutRecipient`, `updateFundControlPolicy` | one action each |
| the provider, the calendar, a rollback | `ProviderReport`, `NextDay`, `Abort` |

The provider accepts, refuses, or accepts while the answer is lost; it may report
success, failure or both in any order, and a report stays available for
redelivery for ever. The policy may change between any two steps. A call whose
checks fail changes nothing and is not an action.

The endpoint takes the organisation from the event's metadata. An event without it
is answered 200 and recorded nowhere (`payments/payment.controller.ts:108-111`,
`128-131`). Providers of charges promise to echo the metadata
(`providers/payment-provider.interface.ts:6-9`); of transfers the code says nothing.
Which events come without is therefore the constant `Unlabelled`, any set of them,
here and in `Collections`: such an event is delivered to `IgnoreEvent` and to
nothing else. Safety holds whatever the set. What must become of a reported success
is claimed only of events that name their organisation, since the code forgets the
others.

`EnoughApprovers` asks for exactly what the policy in force at the release demands,
not for what some policy would. `ReportsAccountedFor` speaks of successes: a failure
is booked by no one. An exception raised for the request at any time satisfies it,
since a person then looks at that request; what it rules out is a success that
neither the ledger nor the queue has any trace of.

Runs:

| Run | Shows | Bounds |
|---|---|---|
| `payout_decisions` | `SegregationOfDuties`, `EnoughApprovers`, `CapsHeldAtInsert` | 2 requests, 3 officers (symmetric), 2 concurrent calls, 2 days of one month, 2 policies: the smallest instance where two officers race for the second approval, and where two creations together pass the day's limit or, a day apart, the month's. Three approvals are asked for but not reached; the theorems cover them |
| `payout_settlement` | `ImplementsSettlement`, `ReportsAccountedFor` (liveness) | 2 requests, a call and one webhook handler, 1 rollback; of the second request success is reported without its organisation |

With two webhook handlers `ImplementsSettlement` fails: two deliveries of one report
both read TRANSFER_PENDING and both post. `collection_double_post` shows the same
of contributions. Cash may go negative in the model, as in the code: requests are
compared with the balance when they are made and reserve nothing.

## Collections

`Collections.tla` models `PaymentService` and the automatic disbursement. A
provider reference is a pair: `<<i, 0>>` is the charge of intent `i`, `<<i, n>>`
its `n`th ordered transfer. `fits[i]` says whether the allocation would accept the
payment now; `ObligationsMove` lets it change, since other payments do. Whether
the `auto_disbursements` insert may proceed is `RowFree`: the unique key on
`paymentIntentId` makes an insert wait for an uncommitted one and then fail.

| Code | Actions |
|---|---|
| `initiateContributionPayment` | `Initiate` (the provider is called) then `InitiateCommit` |
| `handleWebhook` | `ChargeRead`, then `ChargeNotOpen`, `ChargeFailed`, `ChargeRejected`, `ChargeBooked`, or `OrderTransfer` and `OrderCommit` |
| `handleTransferWebhook`, `confirmAutoDisbursementTransfer` | `TransferRead` then `TransferCommit` |
| `handlePaystackWebhook` (85-137) | `Deliver` to the two above; `IgnoreEvent` if the event names no organisation |
| `createSettlementAccount`, the policy's switch | one action each |

| Run | Shows | Bounds |
|---|---|---|
| `collection_settlement` | `ReceiptsSettle`, `DisbursementsSettle`, `PaidIsAccountedFor` (liveness) | 1 intent, an initiating call and one webhook handler, 1 rollback; the second transfer's success comes without its organisation |
| `collection_races` | `OneTransferPerReceipt`, `NoSilentMovement` | 2 webhook handlers, 1 rollback; the second transfer's failure comes without its organisation |
| `collection_double_post` | violates `NeverDoublePosted` | 2 webhook handlers |

Intents share nothing in this module but the switch and the settlement account,
so one intent with every interleaving of its own events is enough; two webhook
handlers are the smallest race. A rollback after the transfer was ordered leaves no
trace of the order, so the redelivered webhook orders another one: the receipt is
sent on twice. `OneTransferPerReceipt` allows one more transfer for each rollback and
no more, and `NoSilentMovement` says that every one of them is booked or reviewed.

## Contributions

`Contributions.tla` models `ObligationService` and `DefaulterService` for one
member; nothing in either reads two members at once. `obligations` are the
member's rows in the order they were created, `credit` and `standing` the columns
of `members`, `policy` the `defaulter_policies` row. `income`, `liability` and
`received` are the ledger: income per obligation, the Member Credit Balance
account per fund, and what was debited to Cash and to provider fees together.
`journal` has the entries themselves, for `ReverseEntry` to choose from.

| Code | Actions |
|---|---|
| `recordContributionPaymentInTx` (190-702) | `PayRead` (member and credit), `PaySelect` (open obligations, selection checks), `PayDue` per due, `PayAnchor` and `PayExtend` per future month, `PayItem` per one-time item, `PayCommit` (credit, entry, reassessment of each plan touched); `PayUnselected` and `PayRefused` for the two ways to throw |
| `postJournalEntryInTx`, `reverseJournalEntry` | `PostEntry`, `ReverseEntry` (of any entry, reversed or a reversal itself) |
| `create`, with `computeContributionObligation` | `CreateObligation` |
| `activate` of a contribution plan | `ActivateVersion` (monthly, in one lineage), `ActivateEvent` (one-time, with its obligations) |
| `setPolicy`, `updateSettings` | `SetPolicy`, `SetAllocationPolicy` |
| `reassess`, and the sweep's `reassessAndAlertDefaulters` | `ReassessRead` then `ReassessCommit` |
| time | `NextMonth` |

A payment keeps its own view of the rows in `handler[h].rows`, since a transaction
sees its own writes; they appear at `PayCommit`, the created ones appended. What
it writes to an existing row is computed from its own read, as in the code.

Abstractions. Dates are months and the grace period a number of months. Two
obligations due in the same month are paid in either order. The missed count
takes the settled one of such a pair first, which is one of the orders PostgreSQL
may return. The plan's family is read once, with the anchor: if the anchor is of
the active version, a version activated afterwards goes unseen, as it does in the
code as long as all versions are of one computation type. Chapters,
beneficiaries, currencies, and the statuses that no code here writes
(`OVERDUE`, `WAIVED`, ...) are left out. GRACE, PENDING and EXITED, and statuses
set by hand, belong to Membership. `create` computes the amount in a transaction
before the one that inserts; only a plan that is superseded between the two would
show the difference.

| Run | Shows | Bounds |
|---|---|---|
| `contribution_allocation` | `LedgerShowsPaid`, `ClearingRestores`, `OldestFirst`, `NoCreditWhileOwing` | one handler; 2 monthly versions with different fees, the first with a waiting period, a minimum and a voluntary event; 2 months, 2 rows beside those that extension creates, payments of 2 and 5 against fees of 2 and 3, thresholds 1 and 2: part payments, overpayments, the extension's cap (1 month) and both thresholds are reached; 2 entries: two payments, or one and its reversal |
| `contribution_races` | `StatusTruthful`, `PaidIsPosted`, `ArrearsAgree` | 2 handlers, one fund, payments of 1 and 5, 2 months, 1 row beside those that extension creates, 2 entries |

A reversal copies the obligations of the lines it reverses
(`ledger/ledger.service.ts:263-269`) and nobody then lowers `amountPaid` or the
member's credit, so the schema's "the source of truth is always the sum of
JournalLines referencing this obligation" is kept only until an entry is reversed.
`LedgerShowsPaid` says by how much the two part: served one at a time, by exactly the
contra lines (`Contra`, `ContraCredit`), however often an entry is reversed.

With two handlers it fails (two payments each write the total they
computed: the ledger keeps both, the obligation one). What is left then is
`PaidIsPosted`: a lost update only loses, and no obligation shows more paid than was
posted to it. Nothing of the kind holds of the member's credit, which a payment may
overwrite with more or with less. `ClearingRestores` fails with two handlers as well
(a reassessment that read the arrears before a payment cleared them writes DEFAULTER
after it; the daily sweep visits only plans with open obligations, so nothing
revisits the member).

`OldestFirst` and `NoCreditWhileOwing` do not speak of a row created after the
payment read the open obligations (`Unseen`): no order of the two calls is wrong
there.

The reports on dues are operators over the same rows: `Outstanding`
(`contributionSummary`), `DefaulterRegister` with its ageing, `PaidThrough`
(`memberStatement`), `NextObligation` (`advanceContributions`), `FinancialHealth`
(`managementRatiosAndHealth`). `ArrearsAgree` relates them, over rows that two
payments overwrote. It leaves out a fixed plan whose rate is 0, which
`create-contribution-plan.dto.ts:30-31` lets through: its dues are never paid, so
the register counts them as missed though nothing is owed.

## Claims

`Claims.tla` models `BenefitRuleService`, `evaluateBenefitEligibility` and
`ClaimService` for one member who claims for himself or a dependant. None of
their operations locks; each is a `...Read` (or `...Check`) action and a write.

| Code | Actions |
|---|---|
| `BenefitRuleService.create`, `activate`, `reject` | `Draft`; `ActivateRead`, `ActivateCommit`; `RejectRead`, `RejectCommit` |
| `evaluateBenefitEligibility` | `Eligible` (status as of the event, tenure, cap) |
| `submit` | `SubmitCheck`, `SubmitInsert` (approved at once without a chain) |
| `addEvidence` | `EvidenceCheck`, `EvidenceAdd` |
| `decide` | `DecideRead`, `DecideCommit` |
| `disburse` | `DisburseRead`, `DisburseCommit` |
| `applyStatus` of the member; time | `ChangeStanding`; `NextDay` |
| `disbursementReport`, `benefitExpenditureAnalytics` | `DisbursementReport`, `BenefitExpenditure` |

`held` (his status at the start of each day) and `overlapped` (what two calls were
about at once) are history. A change of status in the course of a day counts from
the next day on, since events are dated to the day.

Run `claims`: `ApprovedThroughEveryStage`, `VersionsAbut`, `SettledOnce`,
`CapsHold`, `StandingOnEventDate`. Two claims, a rule in force and one that may
amend it, chains of two stages and of none, caps of 1 and 2, two actors, two
handlers, five calls, two days, a status change: the smallest instance in which
two approvers meet in one stage, two submissions meet at a cap, and a status
differs between the event and the claim. With overlap `SettledOnce` fails (two
disbursements each post) and so does `CapsHold` (two submissions each count the
other out).

## Books

`Books.tla` is the ledger with every operation that posts to it. An entry has a
source, a day and lines on the standard accounts of a fund; sums are taken over
lines, as the queries do. `TransferRead` compares Cash and `TransferCommit` posts
both legs; `ReverseEntry` reverses any entry, a reversal or one leg included, with
the original's source.

| Code | Definitions |
|---|---|
| `postJournalEntryInTx` | `Postable`, `NewEntry`, `Post` |
| `recordContributionPaymentInTx` (entry), `disburse`, `confirmAutoDisbursementTransfer` | `RecordContribution`, `Disburse`, `AutoDisburse` |
| `transferBetweenFunds`, `reverseJournalEntry` | `TransferRead`, `TransferCommit`; `ReverseEntry` |
| `trialBalance`, `incomeExpenditureStatement`, `cashFlowStatement`, `fundPositionReport`, `generalLedger`, `reversalsAndAdjustments`, `contributionsVsClaimsMonthly`, `fundPositionTrend`, `manualPaymentsReport`, `BudgetService.listWithActuals` | operators of those names |

Run `books`: `StatementsAgree` in every period, whatever is reversed, and
`UnreversedPeriodsAgree` for what reversals upset (the cash flow statement then no
longer reconciles: it counts a reversed receipt as an inflow). Two funds, three
entries, two days, three kinds of receipt (plain, with a fee and new credit, using
credit): enough to reverse a reversal and one leg of a transfer on a later day.

## Association

`Association.tla` models administrators at work: `MembershipService` (status
changes and removals), `RbacService` (assignments) and `appointOfficer`. Each call
has three steps - `Authorise` (the permission check, in its own transaction),
`...Read`, `...Commit` - so a permission may be gone when it is used.

| Code | Actions |
|---|---|
| `changeStatus` | `ChangeStatus`, then `RequestRemoval`, or `StatusRead` and `StatusCommit` |
| `confirmRemoval`, `cancelRemoval` | `Resolve`, then `ConfirmRead`/`ConfirmCommit`, `CancelRead`/`CancelCommit` |
| `assignRole`, `appointOfficer` | `Grant`, `GrantRead` (term limits), `GrantCommit` |
| `revokeAssignment` | `Revoke`, `RevokeRead`, `RevokeCommit` |
| any of them that throws | `Refused` |

Run `association`: `RemovedByTwo`, `VacatedOnExit`, `TermLimitKept`, with maker-checker
on and off. Two founding administrators and a member, one seat with a limit of one
term, three calls, two handlers, two days: a request and its confirmation with
another call beside them, or two terms and a revocation.

## Elections

`Elections.tla` models elections. An administrator's operations that check nothing
they could lose to a race are one action; what reads the phase first is two.

| Code | Actions |
|---|---|
| `createElection`, `transitionElectionStatus` | `CreateElection`, `Transition` (to any phase, as in the code) |
| `createNomination`, `secondNomination`, `vetNomination` | `...Read` and `...Commit` each |
| `castVote` | `VoteRead`, `VoteCommit`, `VoteLost` (the unique key of `voter_registries`) |
| `getElectionResults` | `Turnout`, `VotesFor` |
| members' tenure, standing, arrears | `MemberChanges` |

An anonymous ballot names no voter; the model's ballots do, as history, so that
results can be related to voters. `createElection` takes issue options and listed
candidates whichever the election's type is, and a candidate twice if he is listed
twice; `OnBallot` is where the type counts. The run lists one candidate at most; the
theorems hold for lists of any length.

Run `elections`: `OneBallotEach`, `VettingDecides`. Two elections of two kinds, two
members, one nomination, three phase changes, four calls, two handlers: a member who
votes twice at once, a vote across the close, two vettings of one nomination.

## Tenancy

`Tenancy.tla` models organisations from registration on.

| Code | Actions |
|---|---|
| `registerOrganisation`, `createAdditionalOrganisation` | `Register`, `Provision`, `Found`, and `GiveUp` at any point between |
| `joinOrganisation`, `joinAdditionalOrganisation` | `Join`, `JoinRead`, `JoinCommit` |
| `login`, `switchOrganisation`, `SubscriptionGuard` | `Admitted`, `MemberOf`, `Blocked` |
| `convertToPaid`, `updateStatusForOperator` | `Convert`; `StatusRead`, `StatusCommit` |
| `sweepOrganisation` | `SweepReminders`, `SweepTrial`, `SweepCommit`; `SweepFails` |
| a payment; time | `Pay`; `NextDay` |

Run `tenancy`: `OneMembershipEach`, `RemindedOnce`, `LapsedTrialsEnd` (liveness). Two
accounts, one organisation, one due inside a window of two days, a trial of one
day, three days, three calls, two handlers, one sweeper and one failure. A second
sweeper only adds states in which the excepted overlap happens.

A reminder is a row written in the sweep's transaction and, if the operator has
switched it on and the member has a number, a text message dispatched at once in a
transaction of its own (`notifications/notification.service.ts:72`, `87-121`). A
rollback forgets the row and not the message, as the comment there says, so the next
sweep sends it again. `SweepReminders` counts the messages in `texts`, for any of the
dues; `SweepFails` undoes the rest and counts in `lost`. `RemindedOnce` says both:
one row, and one message beside one for each sweep of the organisation that was
rolled back.

## Disagreements between code and documentation

Two deliveries of one webhook served at the same time post a contribution twice,
although `payments/payment.service.ts:152-154` says a second delivery is "never a
double-post". It is the finding in `PROJECT.json`, with the run
`collection_double_post`.

Others are described beside the hazard they belong to, in `PROJECT.json`: the Cash
balance of a payout is compared and not reserved; a signed charge webhook whose
payment no longer fits is answered with an error for ever; after a rollback a
transfer is ordered again under another key; months paid ahead are created a second
time; clearing a superseded plan version restores a member who owes under the
current one; a reversed entry leaves its obligations as they were; a transfer event
that names no organisation is acknowledged and forgotten; a conversion that commits
during the nightly sweep is overwritten with SUSPENDED; two disbursements,
confirmations or joins at once take effect twice.

## Fairness

Liveness runs use `FairSpec`. Weak fairness of a handler's next step: a call that
started finishes (its continuation is enabled until taken). Strong fairness of
the delivery of each report not yet answered 200 (to `IgnoreEvent`, if it names no
organisation): the provider redelivers until it is, and a free handler comes up again
and again. Neither the provider's outcome, nor a user's action, nor the calendar is
assumed to happen. A rollback may strike any call, but only `MaxAborts` times.

In `Tenancy` it is the scheduler's: the sweep of an organisation starts again and
again (the cron job runs daily; strong fairness, since the one before may be in
progress), and one that started goes on unless it fails. It fails at most
`MaxFailures` times: a trial outlives any finite number of failures and would
outlive endless ones. The calendar stops at `MaxDay`; sweeps go on after it, as
several on the last day.

## Proofs

`PayoutsProofs.tla`, from `PayoutsAssumption` (the constants' types) alone, for
any sets of requests, officers, policies and handlers:

* `TypeCorrect`: `Spec => []TypeOK`.
* `ApprovalsInvariant`, the strengthening that makes the two results below
  inductive. Neither is by itself: a deciding call commits on the strength of what
  it read. The invariant adds that (a) at most one call holds a row's lock;
  (b) what such a call read still holds - the request is PENDING, its approvals are
  those it saw, its officer is neither the requester nor among the deciders;
  (c) decision rows match the stage: none before the row exists, no rejection
  unless REJECTED, no repetition among them. Every other action leaves the
  locked row alone, which is what the lock is for.
* `DutiesSegregated`: `Spec => []SegregationOfDuties`;
  `ApproversSuffice`: `Spec => []EnoughApprovers`.

The second half of the module adds `SerialHooks`, that webhooks are served by at
most one handler at a time. The assumption is needed - without it
two deliveries of one report post twice - and says exactly what the code
would have to ensure. The inductive invariant adds that what the webhook handler
read of the row is still true when it commits: only a webhook moves a
TRANSFER_PENDING row. From it: `BookedExactly`, `AnswersFinal`, and
`PayoutsSettle`, that `Payouts` implements `Settlement`. `CapsHeld` (`CapsHeldAtInsert`)
needs in addition that at most one creation is in progress, and that the amount it
checked still fits (`RoomKept`): a decision or an answer takes a row out of the
live ones or leaves it there, a new day empties the day's total, so only an insert
raises a total, and only by its own amount. It rests on `SerialHooks` too, since
a failed and a successful report that are processed at once bring a
TRANSFER_FAILED row back to life after the check. Totals are sums over sets, handled
as in `ContributionsProofs.tla` below.

`CollectionsProofs.tla`, for any payments, handlers and number of rollbacks:
`TypeCorrect`, `SentOnOnce` and `NothingSilent`. Behind them,
`TransfersInv` says that the unique key keeps two orders of one payment apart; that
a payment has at most one transfer more than there were rollbacks, the last of
which, if no rollback followed, is being ordered or is on record; and that a
reference stays once a webhook found it. `ContributionsSettle` and `TransfersSettle`
are the two refinements, under `SerialHooks` as above.

`ContributionsProofs.tla`. What an allocation does to its rows, and the sums over
rows and funds, are recursive in the code and folds in the model. The library's
induction theorems take a predicate as parameter, so the module has them in
another form: a set of numbers, or of subsets of a finite set, that is closed
under adding one is all of them (`NatSets`, `SetsByRemoval`). From that, a fold
exists as a function of subsets, and a total changes by what one element
changes (`TotalUpdate`, `TotalConcat`). On these rest three layers:

* `Inv`, for any number of concurrent calls: the types, and what a payment in
  progress knows of its rows whatever others did since - truthful, as many
  allocations as rows, and what remains with what it allocated is what it
  brought (`CallOK`). From it `TypeCorrect`, `RowsStayTruthful`, `BooksBalance`.
  `CoveredInv` adds that every total written, by a commit or by a payment in
  progress on its own view of the rows, is covered by what was or will be posted,
  the contra lines left aside, and gives `NothingPaidUnposted`.
  `AsksInv` adds that a due of a fixed plan with a rate asks for something, and
  gives `ReportsOnArrearsAgree`: expected less collected is the sum of what each row
  still asks for (`Outstands`), which is 0 on rows that are not open, splits by age
  without remainder (`AgedWithoutLoss`), and is positive as soon as one row is owing
  (`TotalPositive`).
* `SerialInv`, where calls about the member are served one at a time
  (`SerialCalls`; two at once do break the results, as said under Contributions):
  a payment's rows differ from the obligations by what it allocated
  (`Mirrors`), and a bad standing is earned by a due that lapsed (`Earned`). From
  it `TotalsFollowLedger` and `ArrearsClear`.
* `OrderInv`: while money remains every monthly row is paid or still to be
  visited; a row it paid leaves no older one open; and it extends, with no item
  open, from a month that no row it paid is after (`Orderly`). From it
  `DuesPaidInOrder` and `CreditOnlyWhenClear`, also against obligations that are
  created meanwhile. Both assume `PositiveRates`: a plan's amount may be "0"
  (`rule-engine/dto/create-contribution-plan.dto.ts:30-31`), the allocation passes
  over a due of nothing, and such a due stays open for ever.

`ContributionsAssumption` asks for finitely many funds, which the sum over them
needs.

`ClaimsProofs.tla`, from `ClaimsAssumption`: `TypeCorrect`; `VersionsMeet`, whose
invariant says that a rule amends one other at most, that no other rule amends the
same (the unique key), and that a rule ends only by its amendment, whose two rows
are written together; and `EveryStageApproved`. The last rests on
`StagesInv`: the stages below a claim's current one are all approved, and so are
those below the stage that any decision in progress read, since decision rows are
never removed; a disbursement in progress is of a claim that was approved; and a
decision in progress is not its submitter's. `ClaimsSettledOnce` counts for each
claim about which no calls overlapped its entries and rejections against its
status, and says that a decision or disbursement in progress still finds the status
it read; `CapsKept` leaves room below the cap while a submission is in progress;
`EligibleByThatDay` needs that the status trail, read for
a past day, gives the status of that day (`TrailInv`).

`ElectionsProofs.tla`, from `ElectionsAssumption`: `TypeCorrect`; `ResultsAddUp`,
`Spec => []OneBallotEach`, through `ElectionsInvariant`; and `VettingPromotes`. A
vote in progress was checked against a ballot that may since have grown, in a phase
that may be over, so `OneBallotEach` needs: a nomination's election exists; a vote
in progress names a line that is on its election's ballot, which holds since lines
are only ever appended; an election without a phase has neither votes nor lines;
and registry and ballots agree, which the unique key keeps.

`AssociationProofs.tla`, from `AssociationAssumption` (seats are not roles,
founders are finitely many, ACTIVE and EXITED are statuses): `TypeCorrect`;
`SeatsVacated`, since terms have begun when they are on record and a revocation in
progress is as of a day that has come, so it can only bring an end forward;
`TwoForARemoval`, whose invariant follows a request from the one who asked to the
call that confirms it, and counts confirmed requests against removals;
`TermsLimited`, since a member who was found eligible may still serve when his term
is added, unless another call about the seat overlapped (`ServesStill`).

`TenancyProofs.tla`, from `TenancyAssumption`: `TypeCorrect`, `MembersOnce` and
`ToldOnce`. The last two except what two overlapping calls or sweeps may spoil, so
their invariants say that what a call or a sweep looked up still holds unless it
met another (`NotYetIn`, `StillUntold`). For text messages `TextsExplained` adds that
each goes with a reminder that was written, is about to be, or was rolled back.

`BooksProofs.tla`, from `BooksAssumption`: finitely many funds, amounts of their
types, and receipts that park no more credit than was paid. The inductive
`BooksInv` says of every entry that it balances, is of one fund, and, unless it
reverses another, has only lines that its source accounts for (`Sound`: income is
never debited but by a reversal, a contribution never takes from Cash); and of
transfers that those of any set of days net to nothing (`TransfersMatch`), since
`TransferCommit` posts both legs at once and on one day. `BooksTypes` is the type
part. `ReportsTellOneStory` and `UnreversedReportsAgree` need no more about the
state: a report is a sum over some of the ledger's lines, and two reports agree
because the lines of one are those of the other, regrouped by account, by fund,
by entry or by period. `TotalByKey` (a total is the sum of the totals by key)
and `NetUnion` (the net of two disjoint sets of lines) do the regrouping. They hold
for journals of any length, while a run is held to three entries.

Only model-checked: liveness (`ReportsAccountedFor`, `PaidIsAccountedFor`,
`LapsedTrialsEnd`), out of the prover's reach.

## Not modelled, and limits

* PostgreSQL itself: row-level security between tenants, deadlock detection,
  the failure of a commit after the client was answered.
* `resolveReconciliationException`, which marks a queue entry as read, and the
  read-only feeds and lists.
* Among reports: `arrearsAllocation`, most ratios of `managementRatiosAndHealth`,
  layout and export.
* Payouts, Collections, Claims and Books meet in the ledger. Each of the first three
  counts its own entries, and Books has the entries of all; one module of them all
  would be beyond TLC. The obligations that a reversal leaves behind are
  looked at in Contributions, not in Books.
* A rollback in Contributions, Claims, Association and Elections loses only a
  handler's local values, so it is a call that never commits: already a behaviour.
* Days are UTC in the code's monthly total and local in others; each model has one
  calendar, of days or of months.
* Permission checks in a transaction of their own are modelled in Association,
  where they can be lost; elsewhere callers are taken to hold their permission.
* Grants scoped to a chapter, custom roles, the catalogue of subscription plans,
  dependants and profiles: single rows without a protocol.
* One-time codes (`sms/sms.service.ts`): kept in one process's memory and checked
  synchronously, so no two checks interleave; the shipped sign-in strategy does not
  use them.
* Uploads, platform sign-in, provider adapters: I/O or a password check.
* The admin console, the mobile app, shared types and deployment files - most of
  the repository's lines - keep no state that the API does not check again.
