--------------------------- MODULE Contributions ---------------------------
(***************************************************************************)
(* What one member owes and pays (ledger/obligation.service.ts), and the   *)
(* standing that follows from it (defaulter/defaulter.service.ts).         *)
(*                                                                         *)
(* Obligations are created by an administrator, by the activation of a     *)
(* one-time plan, or by a payment that extends into future months.  A      *)
(* payment is allocated to the member's open obligations: monthly dues     *)
(* first and oldest first, then future months or the one-time items, and   *)
(* what is left becomes credit for the next payment.  It takes no lock, so *)
(* each of its reads is a step; each round of its allocation loops is a    *)
(* step as well.  What it writes appears when it commits.  The entry that  *)
(* it posts may be reversed in the ledger (ledger/ledger.service.ts),      *)
(* which the member's rows and credit do not follow.                       *)
(*                                                                         *)
(* Dates are months.  There is one lineage of monthly plan versions, which *)
(* are numbered in the order they supersede each other.  Two obligations   *)
(* due in the same month are paid in either order.                         *)
(* Definitions marked "mutant" are plausible bugs, as in Payouts.          *)
(***************************************************************************)
EXTENDS Integers, SequencesExt

CONSTANTS
    Versions,       \* number of versions of the monthly plan
    Events,         \* one-time and event plans
    Rate,           \* Rate[p]: the amount of plan p
    Kind,           \* Kind[p]: "fixed", "minimum" or "voluntary"
    From,           \* From[v]: month in which version v takes effect
    Waits,          \* plans with a reinstatement waiting period
    Strict,         \* event plans that exempt members not in good standing
    Grace,          \* payment grace period, in months
    Payments,       \* amounts a member may pay
    Funds,
    Thresholds,     \* defaulter policies an administrator may set
    MaxExtension,   \* MAX_MONTHLY_EXTENSION_MONTHS
    MaxMonth,       \* bound: last month of the calendar
    MaxDue,         \* bound: last month an administrator creates dues for
    MaxRows,        \* bound: obligations before no more are asked for
    MaxEntries,     \* bound: entries before no more are asked for
    Handlers

Monthly == 1..Versions
Plans == Monthly \cup Events

ASSUME ContributionsAssumption ==
    /\ Versions \in Nat /\ Monthly \cap Events = {}
    /\ Rate \in [Plans -> Nat]
    /\ Kind \in [Plans -> {"fixed", "minimum", "voluntary"}]
    /\ From \in [Monthly -> Nat]
    /\ \A v, w \in Monthly : v <= w => From[v] <= From[w]
    /\ Waits \subseteq Plans /\ Strict \subseteq Events
    /\ Payments \subseteq Nat \ {0} /\ IsFiniteSet(Funds)
    /\ Thresholds \subseteq [defaulter : Nat \ {0}, forfeiture : Nat \ {0}]
    /\ {Grace, MaxExtension, MaxMonth, MaxDue, MaxRows, MaxEntries} \subseteq Nat

VARIABLES
    month,          \* the current month
    version,        \* versions of the monthly plan activated so far
    launched,       \* event plans activated so far
    selective,      \* paymentAllocationPolicy = 'member_selected'
    policy,         \* the defaulter_policies row: at most one element
    obligations,    \* the member's rows, in the order they were created
    credit,         \* the member's creditBalance
    standing,       \* the member's status
    journal,        \* the contribution_payment entries, reversals among them
    income,         \* income[i]: the sum of their lines of Contributions
                    \* Income that name obligation i
    liability,      \* liability[f]: ... of the fund's Member Credit Balance
    received,       \* ... and of Cash and Payment Provider Fees
    handler         \* handler[h]: the call it is serving, and its locals

configVars == <<month, version, launched, selective, policy>>
memberVars == <<obligations, credit, standing>>
ledgerVars == <<journal, income, liability, received>>
vars == <<configVars, memberVars, ledgerVars, handler>>

Untouched == {"UPCOMING", "DUE"}                                   \* mutant
Open == {"UPCOMING", "DUE", "PARTIALLY_PAID"}
Row == [plan : Plans, due : Nat, amount : Nat, paid : Nat,
        status : Open \cup {"PAID"}]
Standings == {"ACTIVE", "PROBATION", "DEFAULTER", "SUSPENDED"}

Idle == [op |-> "idle"]
\* A payment in progress.  rows are the obligations as it read them, with its
\* own writes; those after known it created.  applied[i] is its allocation to
\* row i.  dues and items are the open monthly and other rows still to visit.
\* It extends from month, under the plan versions up to tail.
PayCall == [op : {"read", "dues", "extend", "items"}, amount : Payments,
            fund : Funds, selected : SUBSET Nat, before : Nat, remaining : Nat,
            rows : Seq(Row), known : Nat, applied : Seq(Nat), touched : Seq(Plans),
            dues : SUBSET Nat, items : SUBSET Nat, mixed : BOOLEAN,
            month : Nat, tail : Nat, extended : Nat]
ReassessCall == [op : {"reassess"}, to : Standings]
\* lines[i] is the entry's line of income for obligation i; a reversal has a
\* reversalOfId.
Entry == [fund : Funds, received : Int, parked : Int, lines : Seq(Int),
          reversal : BOOLEAN]

Begin(h, call) == handler[h] = Idle /\ handler' = [handler EXCEPT ![h] = call]
End(h) == handler' = [handler EXCEPT ![h] = Idle]
Continue(h, call) == handler' = [handler EXCEPT ![h] = call]

Ids == 1..Len(obligations)
OpenIds(plans) == {i \in Ids : obligations[i].plan \in plans /\ obligations[i].status \in Open}
\* The last and the first rows of a set by due date.
Newest(rows, ids) == {i \in ids : \A j \in ids : rows[i].due >= rows[j].due}
Oldest(rows, ids) == {i \in ids : \A j \in ids : rows[i].due <= rows[j].due}
-----------------------------------------------------------------------------
(* Standing: DefaulterService. *)

\* getConsecutiveMissedCount: the open rows of the plan that are past their
\* grace period and later than every settled one.
Missed(rows, p) ==
    LET lapsed == {i \in DOMAIN rows :
                      rows[i].plan = p /\ rows[i].due + Grace <= month}
        settled == {i \in lapsed : rows[i].status = "PAID"}
    IN  Cardinality({i \in lapsed : \A j \in settled : rows[j].due < rows[i].due})

\* reassessInTx.
Reassessed(s, rows, p) ==
    LET missed == Missed(rows, p)
    IN  IF \E t \in policy : missed >= t.forfeiture THEN "SUSPENDED"
        ELSE IF \E t \in policy : missed >= t.defaulter THEN "DEFAULTER"
        ELSE IF policy # {} /\ missed = 0 /\ s \in {"DEFAULTER", "SUSPENDED"}
             THEN IF p \in Waits THEN "PROBATION" ELSE "ACTIVE"
        ELSE s

SetPolicy(t) ==
    /\ t.defaulter < t.forfeiture
    /\ policy' = {t}
    /\ UNCHANGED <<month, version, launched, selective, memberVars, ledgerVars, handler>>

\* reassess, by an administrator or by the daily sweep: it reads the member
\* and the plan's rows, and then writes the status.
ReassessRead(h, p) ==
    /\ Begin(h, [op |-> "reassess", to |-> Reassessed(standing, obligations, p)])
    /\ Reassessed(standing, obligations, p) # standing
    /\ UNCHANGED <<configVars, memberVars, ledgerVars>>

ReassessCommit(h) ==
    /\ handler[h].op = "reassess"
    /\ standing' = handler[h].to
    /\ End(h)
    /\ UNCHANGED <<configVars, obligations, credit, ledgerVars>>
-----------------------------------------------------------------------------
(* Plans, dues and the calendar. *)

\* The version of the monthly plan that covers month m, once v of them were
\* activated: the last one in effect by then, or else the active one.
InForce(v, m) ==
    LET covering == {w \in 1..v : From[w] <= m}
    IN  IF covering = {} THEN v ELSE Max(covering)

ActivateVersion ==
    /\ version < Versions
    /\ version' = version + 1
    /\ UNCHANGED <<month, launched, selective, policy, memberVars, ledgerVars, handler>>

NextMonth ==
    /\ month < MaxMonth
    /\ month' = month + 1
    /\ UNCHANGED <<version, launched, selective, policy, memberVars, ledgerVars, handler>>

SetAllocationPolicy ==
    /\ selective' = ~selective
    /\ UNCHANGED <<month, version, launched, policy, memberVars, ledgerVars, handler>>

NewRow(p, due, amount) ==
    [plan |-> p, due |-> due, amount |-> amount, paid |-> 0,
     status |-> IF due > month THEN "UPCOMING" ELSE "DUE"]

AddRow(row) ==
    /\ Len(obligations) < MaxRows                           \* bound
    /\ obligations' = Append(obligations, row)
    /\ income' = Append(income, 0)
    /\ UNCHANGED <<credit, standing, journal, liability, received, handler>>

\* create, for the active version of the monthly plan or for an event plan.
\* The amount is computed first (computeContributionObligation).
CreateObligation(p, due) ==
    /\ p \in launched \/ (p \in Monthly /\ p = version)
    /\ ~(p \in Strict /\ standing \in {"DEFAULTER", "SUSPENDED"})
    /\ AddRow(NewRow(p, due, IF Kind[p] = "voluntary" THEN 0 ELSE Rate[p]))
    /\ UNCHANGED configVars

\* The activation of a one-time plan creates a row of its amount for every
\* member in good standing.
ActivateEvent(p, due) ==
    /\ p \in Events \ launched
    /\ launched' = launched \cup {p}
    /\ \/ standing \in {"ACTIVE", "PROBATION"} /\ AddRow(NewRow(p, due, Rate[p]))
       \/ /\ standing \notin {"ACTIVE", "PROBATION"}
          /\ UNCHANGED <<memberVars, ledgerVars, handler>>
    /\ UNCHANGED <<month, version, selective, policy>>
-----------------------------------------------------------------------------
(* recordContributionPaymentInTx. *)

\* It reads the organisation and the member, whose credit joins the payment.
PayRead(h, a, f, chosen) ==
    /\ Len(journal) < MaxEntries                            \* bound
    /\ Begin(h, [op |-> "read", amount |-> a, fund |-> f, selected |-> chosen,
                 before |-> credit, remaining |-> a + credit,
                 rows |-> <<>>, known |-> 0, applied |-> <<>>, touched |-> <<>>,
                 dues |-> {}, items |-> {}, mixed |-> FALSE,
                 month |-> 0, tail |-> 0, extended |-> 0])
    /\ UNCHANGED <<configVars, memberVars, ledgerVars>>

\* It reads the open obligations.  Monthly dues cannot be selected; what is
\* selected must be open; member_selected asks for a selection if there is
\* something to select.  A call that fails these checks changes nothing.  The
\* last open due comes with its plan: if that is the active version, a version
\* activated later supersedes it unseen.
PaySelect(h) ==
    LET call == handler[h]
        items == OpenIds(Events)
    IN
    /\ call.op = "read"
    /\ call.selected \subseteq items
    /\ ~(selective /\ items # {} /\ call.selected = {})
    /\ \E last \in IF OpenIds(Monthly) = {} THEN {0}
                   ELSE Newest(obligations, OpenIds(Monthly)) :
       Continue(h, [call EXCEPT
          !.op = "dues",
          !.rows = obligations,
          !.known = Len(obligations),
          !.applied = [i \in Ids |-> 0],
          !.dues = OpenIds(Monthly),
          !.items = IF call.selected = {} THEN items ELSE call.selected,
          !.mixed = items # {},
          !.month = IF last = 0 THEN 0 ELSE obligations[last].due,
          !.tail = IF last # 0 /\ obligations[last].plan = version
                   THEN version ELSE 0])
    /\ UNCHANGED <<configVars, memberVars, ledgerVars>>

PayUnselected(h) ==
    LET call == handler[h]
        items == OpenIds(Events)
    IN
    /\ call.op = "read"
    /\ \/ ~(call.selected \subseteq items)
       \/ selective /\ items # {} /\ call.selected = {}
    /\ End(h)
    /\ UNCHANGED <<configVars, memberVars, ledgerVars>>

\* A fixed row takes what is owed on it; others take all that remains.
PartOwed(kind, owed, remaining) ==                                  \* mutant
    IF kind = "fixed" THEN owed ELSE remaining
Part(kind, owed, remaining) ==
    IF kind = "fixed" /\ owed < remaining THEN owed ELSE remaining

PaidAfresh(o, part) == part                                         \* mutant
PaidInFull(o, part) == o.amount                                     \* mutant
PaidAfter(o, part) == o.paid + part

\* A voluntary row's amount becomes what was paid; so does a minimum row's, if
\* that is more.
AmountAfter(o, kind, part) ==
    IF kind = "voluntary" \/ (kind = "minimum" /\ part > o.amount - o.paid)
    THEN o.paid + part ELSE o.amount

StatusOnceOver(paid, amount) ==                                     \* mutant
    IF paid > amount THEN "PAID" ELSE "PARTIALLY_PAID"
StatusAfter(paid, amount) ==
    IF paid >= amount THEN "PAID" ELSE "PARTIALLY_PAID"

\* The plans whose standing the payment will reassess, in order.
TouchNone(touched, p) == touched                                    \* mutant
Touch(touched, p) ==
    IF \E j \in DOMAIN touched : touched[j] = p THEN touched ELSE Append(touched, p)

\* applyToObligation: row i takes its part of what remains.
Apply(call, i, kind) ==
    LET o == call.rows[i]
        owed == o.amount - o.paid
        part == Part(kind, owed, call.remaining)
    IN
    IF kind # "voluntary" /\ owed <= 0 THEN call
    ELSE [call EXCEPT
            !.remaining = @ - part,
            !.applied[i] = part,
            !.touched = Touch(@, o.plan),
            !.rows[i] = [o EXCEPT
                !.paid = PaidAfter(o, part),
                !.amount = AmountAfter(o, kind, part),
                !.status = StatusAfter(PaidAfter(o, part), AmountAfter(o, kind, part))]]

\* Phase 1: the open monthly dues, oldest first.
PayDue(h) ==
    LET call == handler[h] IN
    /\ call.op = "dues" /\ call.remaining > 0
    /\ \E i \in Oldest(call.rows, call.dues) :
          Continue(h, Apply([call EXCEPT !.dues = @ \ {i}], i,
                            Kind[call.rows[i].plan]))
    /\ UNCHANGED <<configVars, memberVars, ledgerVars>>

DuesVisited(call) ==
    call.op = "dues" /\ (call.remaining = 0 \/ call.dues = {})

\* Phase 2 starts if money remains, nothing else was open, and the active
\* version of the monthly plan is a fixed amount.  It goes on from the last
\* open due, or the last monthly row there is, or this month.
ExtendsMixed(call) ==                                               \* mutant
    call.remaining > 0 /\ call.tail > 0 /\ Kind[call.tail] = "fixed"
Extends(call) ==
    /\ call.remaining > 0 /\ ~call.mixed
    /\ call.tail > 0 /\ Kind[call.tail] = "fixed"

PayAnchor(h) ==
    LET paidUp == {obligations[i].due : i \in {j \in Ids : obligations[j].plan \in Monthly}}
        call == [handler[h] EXCEPT
                    !.month = IF @ # 0 THEN @
                              ELSE IF paidUp # {} THEN Max(paidUp) ELSE month,
                    !.tail = IF @ # 0 THEN @ ELSE version]
    IN
    /\ DuesVisited(handler[h])
    /\ Continue(h, [call EXCEPT !.op = IF Extends(call) THEN "extend" ELSE "items"])
    /\ UNCHANGED <<configVars, memberVars, ledgerVars>>

\* One more month, at the rate of the version that will be in force.
PayExtend(h) ==
    LET call == handler[h]
        due == call.month + 1
        plan == InForce(call.tail, due)
        grown == [call EXCEPT
                    !.month = due,
                    !.extended = @ + 1,
                    !.rows = Append(@, [plan |-> plan, due |-> due,
                                        amount |-> Rate[plan], paid |-> 0,
                                        status |-> "DUE"]),
                    !.applied = Append(@, 0)]
    IN
    /\ call.op = "extend"
    /\ call.remaining > 0 /\ call.extended < MaxExtension
    /\ Continue(h, Apply(grown, Len(grown.rows), "fixed"))
    /\ UNCHANGED <<configVars, memberVars, ledgerVars>>

\* Phase 3: the one-time items, selected ones if any were, oldest first.
PayItem(h) ==
    LET call == handler[h] IN
    /\ call.op = "items" /\ call.remaining > 0
    /\ \E i \in Oldest(call.rows, call.items) :
          Continue(h, Apply([call EXCEPT !.items = @ \ {i}], i,
                            Kind[call.rows[i].plan]))
    /\ UNCHANGED <<configVars, memberVars, ledgerVars>>

\* Nothing is left to pay, or it goes to the credit balance: only where the
\* extension had somewhere to go and reached its cap.
Allocated(call) ==
    \/ call.op = "items" /\ call.remaining = 0
    \/ /\ call.op = "extend"
       /\ call.remaining = 0 \/ call.extended = MaxExtension

\* The payment exceeds what is open: it throws, and nothing was written.
PayRefused(h) ==
    LET call == handler[h] IN
    /\ call.op = "items" /\ call.remaining > 0 /\ call.items = {}
    /\ End(h)
    /\ UNCHANGED <<configVars, memberVars, ledgerVars>>

\* Created rows are added; a row it allocated to gets the values computed from
\* its own read, whatever happened to the row since.
Written(call) ==
    [i \in Ids |-> IF i <= call.known /\ call.applied[i] > 0
                   THEN call.rows[i] ELSE obligations[i]]
    \o SubSeq(call.rows, call.known + 1, Len(call.rows))

LineOf(e, i) == IF i \in DOMAIN e.lines THEN e.lines[i] ELSE 0

\* postJournalEntryInTx: every account moves by the entry's lines of it.
PostEntry(e) ==
    /\ journal' = Append(journal, e)
    /\ income' = [i \in DOMAIN obligations' |->
                     (IF i \in Ids THEN income[i] ELSE 0) + LineOf(e, i)]
    /\ liability' = [liability EXCEPT ![e.fund] = @ + e.parked]
    /\ received' = received + e.received

\* The entry of a payment credits each allocation to Contributions Income,
\* naming its obligation, and balances with the change of the member's credit.
CreditChange(call) == call.remaining - call.before
PaymentEntry(call) ==
    [fund |-> call.fund, received |-> call.amount, parked |-> CreditChange(call),
     lines |-> [i \in Ids |-> IF i <= call.known THEN call.applied[i] ELSE 0]
               \o SubSeq(call.applied, call.known + 1, Len(call.applied)),
     reversal |-> FALSE]

PayCommit(h) ==
    LET call == handler[h] IN
    /\ Allocated(call)
    /\ obligations' = Written(call)
    /\ credit' = call.remaining
    /\ PostEntry(PaymentEntry(call))
    /\ standing' = FoldLeft(LAMBDA s, p : Reassessed(s, Written(call), p),
                            standing, call.touched)
    /\ End(h)
    /\ UNCHANGED configVars

\* reverseJournalEntry, of any entry and any number of times: the contra lines
\* name the same obligations.  Neither their running totals nor the member's
\* credit and standing change.
ContraEntry(e) ==
    [e EXCEPT !.received = -@, !.parked = -@, !.reversal = TRUE,
              !.lines = [i \in DOMAIN @ |-> -@[i]]]

ReverseEntry(k) ==
    /\ Len(journal) < MaxEntries                            \* bound
    /\ UNCHANGED <<configVars, memberVars, handler>>
    /\ PostEntry(ContraEntry(journal[k]))
-----------------------------------------------------------------------------
Init ==
    /\ month = 1 /\ version = 0 /\ launched = {}
    /\ selective = FALSE /\ policy = {}
    /\ obligations = <<>> /\ credit = 0 /\ standing = "ACTIVE"
    /\ journal = <<>> /\ income = <<>>
    /\ liability = [f \in Funds |-> 0] /\ received = 0
    /\ handler = [h \in Handlers |-> Idle]

Next ==
    \/ NextMonth \/ ActivateVersion \/ SetAllocationPolicy
    \/ \E t \in Thresholds : SetPolicy(t)
    \/ \E p \in Plans, due \in 1..MaxDue :
          CreateObligation(p, due) \/ ActivateEvent(p, due)
    \/ \E k \in 1..Len(journal) : ReverseEntry(k)
    \/ \E h \in Handlers :
          \/ \E p \in Plans : ReassessRead(h, p)
          \/ ReassessCommit(h)
          \/ \E a \in Payments, f \in Funds, chosen \in SUBSET Ids :
                PayRead(h, a, f, chosen)
          \/ PaySelect(h) \/ PayUnselected(h)
          \/ PayDue(h) \/ PayAnchor(h) \/ PayExtend(h) \/ PayItem(h)
          \/ PayRefused(h) \/ PayCommit(h)

Spec == Init /\ [][Next]_vars
-----------------------------------------------------------------------------
(* Reports on the member's obligations: ReportingService. *)

Expected(ids)  == SumFunction([i \in ids |-> obligations[i].amount])
Collected(ids) == SumFunction([i \in ids |-> obligations[i].paid])
DueIn(plans, months) ==
    {i \in Ids : obligations[i].plan \in plans /\ obligations[i].due \in months}

\* contributionSummary, of one plan: what is outstanding of all its dues.
Outstanding(p, months) == Expected(DueIn({p}, months)) - Collected(DueIn({p}, months))

\* defaulterRegister, of one plan: what is outstanding of its open dues, and
\* the same by age, a month being 30 days.
Age(i) == IF month <= obligations[i].due + 1 THEN 1
          ELSE IF month > obligations[i].due + 3 THEN 4 ELSE month - obligations[i].due
DefaulterRegister(p) ==
    LET open == OpenIds({p})
        owing == {i \in open : obligations[i].amount > obligations[i].paid}
        aged(k) == {i \in owing : Age(i) = k}
    IN  [missed  |-> Missed(obligations, p),
         arrears |-> Expected(open) - Collected(open),
         aging   |-> [k \in 1..4 |-> Expected(aged(k)) - Collected(aged(k))]]

\* memberStatement: the last due of an unbroken run of paid ones, 0 for none.
\* Of two dues in one month the paid one comes first, as in Missed.
PaidThrough ==
    Max({0} \cup {obligations[i].due : i \in
        {i \in Ids : /\ obligations[i].status = "PAID"
                     /\ \A j \in Ids : obligations[j].due < obligations[i].due =>
                                          obligations[j].status = "PAID"}})

\* advanceContributions: the next open due of a member with credit.
NextObligation == IF credit > 0 THEN Oldest(obligations, OpenIds(Plans)) ELSE {}

\* managementRatiosAndHealth: rates in hundredths of a percent, rounded.
Percent(n, d) == (n * 20000 + d) \div (2 * d)
FinancialHealth(months) ==
    LET ids == DueIn(Plans, months)
        collection == Percent(Collected(ids), Expected(ids))
        arrears == Percent(Expected(ids) - Collected(ids), Expected(ids))
    IN  IF Expected(ids) = 0 THEN "Watch"
        ELSE IF collection >= 9000 /\ arrears <= 1000 THEN "Healthy"
        ELSE IF collection >= 7500 /\ arrears <= 2500 THEN "Watch"
        ELSE IF collection >= 5000 /\ arrears <= 5000 THEN "At Risk"
        ELSE "Critical"
-----------------------------------------------------------------------------
TypeOK ==
    /\ month \in 1..(MaxMonth + 1) /\ version \in 0..Versions
    /\ launched \subseteq Events /\ selective \in BOOLEAN
    /\ policy \subseteq Thresholds
    /\ obligations \in Seq(Row) /\ credit \in Nat /\ standing \in Standings
    /\ journal \in Seq(Entry)
    /\ income \in Seq(Int) /\ Len(income) = Len(obligations)
    /\ liability \in [Funds -> Int] /\ received \in Int
    /\ handler \in [Handlers -> {Idle} \cup PayCall \cup ReassessCall]

\* Every entry balances, so the check in postJournalEntryInTx never refuses a
\* payment: what Cash and the fees account received is what income and credit
\* balances show (trialBalance), however payments and reversals interleave.
TrialBalance ==
    received = FoldLeft(+, 0, income) + MapThenSumSet(LAMBDA f : liability[f], Funds)

\* A row's status says what its amounts say, also when two payments overwrite
\* each other's row: PAID in full, partly, or not at all, and never overpaid.
StatusTruthful ==
    \A i \in Ids :
        LET o == obligations[i] IN
        /\ o.paid <= o.amount
        /\ o.status = "PAID" => o.paid = o.amount
        /\ o.status = "PARTIALLY_PAID" => 0 < o.paid /\ o.paid < o.amount
        /\ o.status \in {"UPCOMING", "DUE"} => o.paid = 0

\* The reports on a member agree although each asks its own question of rows
\* that overlapping payments overwrite: the register's arrears are what the
\* summary has outstanding, and are aged without loss; nobody is counted as
\* having missed dues of a fixed plan who owes nothing of it (unless its rate
\* is 0, which CreateContributionPlanDto does not exclude); the next due that
\* credit waits for is not before the date he is paid through; and a month of
\* which nothing is outstanding is not reported as being at risk.
ArrearsAgree ==
    /\ \A p \in Plans :
          LET row == DefaulterRegister(p) IN
          /\ row.arrears = Outstanding(p, Nat)
          /\ row.arrears = FoldFunction(+, 0, row.aging)
          /\ row.missed > 0 /\ Kind[p] = "fixed" /\ Rate[p] > 0 => row.arrears > 0
    /\ \A i \in NextObligation : obligations[i].due >= PaidThrough
    /\ \A m \in 1..MaxMonth :
          FinancialHealth({m}) \in {"At Risk", "Critical"} =>
              \E p \in Plans : Outstanding(p, {m}) > 0

\* The contra lines of obligation i and of credit balances, and what the ledger
\* shows without them.
Reversals == {k \in DOMAIN journal : journal[k].reversal}
Contra(i) == SumFunction([k \in Reversals |-> LineOf(journal[k], i)])
ContraCredit == SumFunction([k \in Reversals |-> journal[k].parked])
PostedFor(i) == income[i] - Contra(i)
PostedCredit == MapThenSumSet(LAMBDA f : liability[f], Funds) - ContraCredit

\* "The source of truth is always the sum of JournalLines referencing this
\* obligation" (schema.prisma, Obligation).  That is so until an entry is
\* reversed, and then no more: served one at a time, a running total departs
\* from that sum by the contra lines that name the obligation, and by nothing
\* else.  In the same way what members have in credit is what the funds owe
\* them ("a real liability, not just a number on Member").
LedgerShowsPaid ==
    /\ \A i \in Ids : obligations[i].paid = PostedFor(i)
    /\ credit = PostedCredit

\* When payments overlap, one may overwrite the running total that another
\* wrote.  It errs on one side only: no obligation is shown as paid with money
\* that no payment posted for it.
PaidIsPosted == \A i \in Ids : obligations[i].paid <= PostedFor(i)

\* A payment commits: it posts an entry, and its call ends.
Pays == journal' # journal /\ handler' # handler
PaidTo(i) == IF i \in Ids THEN obligations'[i].paid > obligations[i].paid
                          ELSE obligations'[i].paid > 0
IsMonthly(i) == obligations'[i].plan \in Monthly
\* The payment that commits in this step did not see row i: it was created
\* after the payment read the open obligations.
Unseen(i) == i \in Ids /\ \E h \in Handlers :
    handler'[h] # handler[h] /\ handler[h].known < i
Lapsed(rows) ==
    {i \in DOMAIN rows : rows[i].due + Grace <= month /\ rows[i].status # "PAID"}

\* "You don't skip April and pay May instead": a payment that pays a monthly
\* due leaves no older one open that it knew of.
OldestFirst ==
    [][Pays => \A i, j \in DOMAIN obligations' :
          /\ IsMonthly(i) /\ IsMonthly(j)
          /\ obligations'[i].due < obligations'[j].due
          /\ PaidTo(j)
          => obligations'[i].status = "PAID" \/ Unseen(i)]_vars

\* Money is parked as credit only when the member owes nothing at all (that
\* the payment knew of).
NoCreditWhileOwing ==
    [][Pays /\ credit' > 0 =>
          \A i \in DOMAIN obligations' :
              obligations'[i].status = "PAID" \/ Unseen(i)]_vars

\* "Clearing arrears restores good standing without a separate manual step"
\* (defaulter.service.ts): while no call is in progress, a member with nothing
\* overdue is neither DEFAULTER nor SUSPENDED.
ClearingRestores ==
    (\A h \in Handlers : handler[h] = Idle) /\ Lapsed(obligations) = {} =>
        standing \in {"ACTIVE", "PROBATION"}
=============================================================================
