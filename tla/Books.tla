------------------------------- MODULE Books --------------------------------
(***************************************************************************)
(* The ledger of an organisation (ledger/ledger.service.ts), the entries   *)
(* that the rest of the system posts to it, and the financial reports      *)
(* computed from it (reporting/reporting.service.ts, budget.service.ts).   *)
(*                                                                         *)
(* Entries are only ever added.  A transfer between funds compares a       *)
(* balance before it posts and takes no lock, so it has two steps; any     *)
(* entry can be reversed, again and again, a reversal too.  The reports    *)
(* are operators over the entries: each computes the same money its own    *)
(* way, and the properties say where they must agree.                      *)
(*                                                                         *)
(* Each fund has one account of each name; the two accounts for fees,      *)
(* both expenses, are one here.  Lines of one entry on one account are     *)
(* added up.                                                               *)
(* Definitions marked "mutant" are plausible bugs, as in Payouts.          *)
(***************************************************************************)
EXTENDS Integers, SequencesExt

CONSTANTS
    Funds,
    Receipts,       \* contributions: what Cash and fees get, and the credit parked
    Amounts,        \* amounts disbursed or transferred
    Fees,           \* platform fees of an automatic disbursement
    MaxDay,         \* bound: last day of the calendar
    MaxEntries,     \* bound: entries before no more operations start
    Handlers

\* What is parked is part of what was paid.
ASSUME BooksAssumption ==
    /\ IsFiniteSet(Funds)
    /\ Receipts \subseteq [cash : Nat \ {0}, fee : Nat, parked : Int]
    /\ \A r \in Receipts : r.parked <= r.cash + r.fee
    /\ Amounts \subseteq Nat \ {0} /\ Fees \subseteq Nat
    /\ MaxDay \in Nat /\ MaxEntries \in Nat

\* A handler that serves no call.
Idle == [op |-> "idle"]

VARIABLES
    entries,        \* the journal_entries rows, in the order they were posted
    day,            \* today
    handler         \* handler[h]: the transfer it is serving

vars == <<entries, day, handler>>

Days == 0..MaxDay
Assets   == {"Cash", "Settled to MoMo"}
Expenses == {"Benefits Expense", "Fees"}
Incomes  == {"Contributions Income"}
Accounts == Assets \cup Expenses \cup Incomes
                \cup {"Fund Equity", "Member Credit Balance"}
Contribution == {"contribution_payment", "contribution_payment_manual"}
Disbursement == {"benefit_disbursement", "auto_disbursement"}
Sources == Contribution \cup Disbursement \cup {"fund_transfer"}

TransferCall == [op : {"transfer"}, source : Funds, target : Funds, amount : Amounts]
-----------------------------------------------------------------------------
(* Sums over the lines of entries. *)

Debit(f, a, n)  == [fund |-> f, account |-> a, debit |-> n, credit |-> 0]
Credit(f, a, n) == [fund |-> f, account |-> a, debit |-> 0, credit |-> n]
Line == [fund : Funds, account : Accounts, debit : Nat, credit : Nat]
Entry == [day : Days, source : Sources, lines : SUBSET Line, reversal : BOOLEAN]

\* The lines on some funds' accounts, each with the number of its entry.
LinesOn(fs, as) ==
    UNION {{<<i, l>> : l \in {m \in entries[i].lines : m.fund \in fs /\ m.account \in as}}
           : i \in DOMAIN entries}
PostedIn(lines, ds)    == {x \in lines : entries[x[1]].day \in ds}
OfSource(lines, kinds) == {x \in lines : entries[x[1]].source \in kinds}

DebitSum(lines)  == SumFunction([x \in lines |-> x[2].debit])
CreditSum(lines) == SumFunction([x \in lines |-> x[2].credit])
NetDebit(lines)  == DebitSum(lines) - CreditSum(lines)
NetCredit(lines) == CreditSum(lines) - DebitSum(lines)

\* getLedgerAccountBalance: on the side that is normal for the account.
AccountBalance(f, a) ==
    IF a \in Assets \cup Expenses THEN NetDebit(LinesOn({f}, {a}))
                                  ELSE NetCredit(LinesOn({f}, {a}))
-----------------------------------------------------------------------------
(* Posting. *)

\* postJournalEntryInTx refuses an entry of one line, a line with both sides
\* or neither, and an entry that does not balance.
Postable(lines) ==
    /\ Cardinality(lines) >= 2
    /\ \A l \in lines : (l.debit = 0) # (l.credit = 0)
    /\ SumFunction([l \in lines |-> l.debit - l.credit]) = 0

NewEntry(source, lines) ==
    [day |-> day, source |-> source, lines |-> lines, reversal |-> FALSE]
HasRoom == Len(entries) < MaxEntries                        \* bound

Post(source, lines) ==
    /\ Postable(lines)
    /\ entries' = Append(entries, NewEntry(source, lines))

\* What the payments so far have left in members' credit balances, which a
\* reversal does not touch.
CreditHeld ==
    NetCredit({x \in LinesOn(Funds, {"Member Credit Balance"}) : ~entries[x[1]].reversal})

\* A contribution, confirmed by the provider or recorded by hand: Cash and
\* fees receive it, income and the member's credit account for it.
RecordContribution(f, r, source) ==
    LET income == r.cash + r.fee - r.parked
        lines == {Debit(f, "Cash", r.cash), Debit(f, "Fees", r.fee),
                  Credit(f, "Contributions Income", income),
                  IF r.parked > 0 THEN Credit(f, "Member Credit Balance", r.parked)
                                  ELSE Debit(f, "Member Credit Balance", -r.parked)}
    IN
    /\ HasRoom
    /\ CreditHeld + r.parked >= 0
    /\ Post(source, {l \in lines : l.debit # 0 \/ l.credit # 0})
    /\ UNCHANGED <<day, handler>>

\* A claim is disbursed, or a payout settled: Cash is not compared here.
Disburse(f, n) ==
    /\ HasRoom
    /\ Post("benefit_disbursement", {Debit(f, "Benefits Expense", n), Credit(f, "Cash", n)})
    /\ UNCHANGED <<day, handler>>

\* A contribution was passed on to the organisation's own wallet, less a fee.
AutoDisburse(f, n, fee) ==
    LET lines == {Credit(f, "Cash", n + fee), Debit(f, "Fees", fee),
                  Debit(f, "Settled to MoMo", n)}
    IN
    /\ HasRoom
    /\ Post("auto_disbursement", {l \in lines : l.debit # 0 \/ l.credit # 0})
    /\ UNCHANGED <<day, handler>>

\* transferBetweenFunds compares the source's Cash with the amount ...
TransferRead(h, f, g, n) ==
    /\ handler[h] = Idle
    /\ HasRoom
    /\ f # g
    /\ AccountBalance(f, "Cash") >= n
    /\ handler' = [handler EXCEPT ![h] =
          [op |-> "transfer", source |-> f, target |-> g, amount |-> n]]
    /\ UNCHANGED <<entries, day>>

FromCashToCash(f, g, n) ==                                          \* mutant
    <<{Debit(g, "Cash", n), Credit(f, "Cash", n)}>>
\* One entry per fund, each against the fund's own equity.
TransferEntries(f, g, n) ==
    <<{Debit(f, "Fund Equity", n), Credit(f, "Cash", n)},
      {Debit(g, "Cash", n), Credit(g, "Fund Equity", n)}>>

\* ... and posts both entries in one transaction.
TransferCommit(h) ==
    LET posts == TransferEntries(handler[h].source, handler[h].target, handler[h].amount)
    IN
    /\ handler[h].op = "transfer"
    /\ \A i \in DOMAIN posts : Postable(posts[i])
    /\ entries' = entries \o [i \in DOMAIN posts |-> NewEntry("fund_transfer", posts[i])]
    /\ handler' = [handler EXCEPT ![h] = Idle]
    /\ UNCHANGED day

Negated(l) == [l EXCEPT !.debit = -@, !.credit = -@]                \* mutant
Swapped(l) == [l EXCEPT !.debit = l.credit, !.credit = l.debit]

\* reverseJournalEntry: a contra entry of any entry there is, posted today
\* with the source of the original.
ReverseEntry(i) ==
    /\ HasRoom
    /\ entries' = Append(entries, [entries[i] EXCEPT
          !.lines = {Swapped(l) : l \in @}, !.reversal = TRUE, !.day = day])
    /\ UNCHANGED <<day, handler>>

NextDay ==
    /\ day < MaxDay
    /\ day' = day + 1
    /\ UNCHANGED <<entries, handler>>

Init == entries = <<>> /\ day = 0 /\ handler = [h \in Handlers |-> Idle]

Next ==
    \/ NextDay
    \/ \E f \in Funds :
          \/ \E r \in Receipts, s \in Contribution : RecordContribution(f, r, s)
          \/ \E n \in Amounts : Disburse(f, n) \/ \E fee \in Fees : AutoDisburse(f, n, fee)
    \/ \E i \in DOMAIN entries : ReverseEntry(i)
    \/ \E h \in Handlers :
          \/ \E f, g \in Funds, n \in Amounts : TransferRead(h, f, g, n)
          \/ TransferCommit(h)

Spec == Init /\ [][Next]_vars
-----------------------------------------------------------------------------
(* Reports, for a set of funds (one, or all of them) and the days a..b. *)

Positive(n) == IF n > 0 THEN n ELSE 0

\* trialBalance: each account on the side it falls on.
TrialBalance(fs, d) ==
    LET nets == [x \in fs \X Accounts |-> NetDebit(PostedIn(LinesOn({x[1]}, {x[2]}), 0..d))]
    IN  [debit  |-> SumFunction([x \in DOMAIN nets |-> Positive(nets[x])]),
         credit |-> SumFunction([x \in DOMAIN nets |-> Positive(-nets[x])])]

EquityAsOf(fs, d) == NetCredit(PostedIn(LinesOn(fs, {"Fund Equity"}), 0..d))

\* incomeExpenditureStatement.
IncomeExpenditure(fs, a, b) ==
    [income  |-> NetCredit(PostedIn(LinesOn(fs, Incomes), a..b)),
     expense |-> NetDebit(PostedIn(LinesOn(fs, Expenses), a..b)),
     opening |-> EquityAsOf(fs, a - 1),
     closing |-> EquityAsOf(fs, b)]

\* cashFlowStatement: inflows are debits of contributions, outflows credits of
\* disbursements; transfers count on both sides.
OnlyConfirmed == {"contribution_payment"}                           \* mutant
Inflows == Contribution

CashFlow(fs, a, b) ==
    LET cash == LinesOn(fs, {"Cash"})
        transfers == OfSource(PostedIn(cash, a..b), {"fund_transfer"})
    IN  [operatingIn  |-> DebitSum(OfSource(PostedIn(cash, a..b), Inflows)),
         operatingOut |-> CreditSum(OfSource(PostedIn(cash, a..b), Disbursement)),
         financingIn  |-> DebitSum(transfers),
         financingOut |-> CreditSum(transfers),
         opening |-> NetDebit(PostedIn(cash, 0..(a - 1))),
         closing |-> NetDebit(PostedIn(cash, 0..b))]
Reconciles(c) ==
    c.closing - c.opening =
        c.operatingIn - c.operatingOut + c.financingIn - c.financingOut

\* fundPositionReport; its balances are debit balances, of equity too.
FundPosition(f, a, b) ==
    LET equity == LinesOn({f}, {"Fund Equity"})
        transfers == OfSource(PostedIn(equity, a..b), {"fund_transfer"})
    IN  [opening  |-> NetDebit(PostedIn(equity, 0..(a - 1))),
         closing  |-> NetDebit(PostedIn(equity, 0..b)),
         income   |-> NetCredit(PostedIn(LinesOn({f}, Incomes), a..b)),
         expenses |-> NetDebit(PostedIn(LinesOn({f}, Expenses), a..b)),
         transfersIn  |-> CreditSum(transfers),
         transfersOut |-> DebitSum(transfers),
         cashAvailable |-> NetDebit(PostedIn(LinesOn({f}, {"Cash"}), 0..b))]

\* generalLedger: the running balance is a debit balance on every account.
GeneralLedger(f, acct, a, b) ==
    LET lines == LinesOn({f}, {acct})
        opening == NetDebit(PostedIn(lines, 0..(a - 1)))
    IN  [opening |-> opening, closing |-> opening + NetDebit(PostedIn(lines, a..b))]

\* reversalsAndAdjustments, for all funds.
ReversedSources == Contribution
Collection(a, b) ==
    LET lines == PostedIn(LinesOn(Funds, Incomes), a..b)
        contra == {x \in OfSource(lines, ReversedSources) : entries[x[1]].reversal}
    IN  CreditSum(lines) - DebitSum(contra)

\* contributionsVsClaimsMonthly: credits to income, debits to the expense.
MonthlyBars(a, b) ==
    [contributions |-> CreditSum(PostedIn(LinesOn(Funds, Incomes), a..b)),
     claimsPaid    |-> DebitSum(PostedIn(LinesOn(Funds, {"Benefits Expense"}), a..b))]

\* fundPositionTrend: the balance of every asset account.
CashPosition(d) == NetDebit(PostedIn(LinesOn(Funds, Assets), 0..d))

\* listWithActuals: a budget's actual, on the side that is normal for income.
BudgetActual(f, acct, a, b) ==
    LET lines == PostedIn(LinesOn({f}, {acct}), a..b)
    IN  IF acct \in Incomes THEN NetCredit(lines) ELSE NetDebit(lines)

\* manualPaymentsReport: what was recorded by hand, without confirmation.
ManualPayments(a, b) ==
    CreditSum(OfSource(PostedIn(LinesOn(Funds, Incomes), a..b),
                       {"contribution_payment_manual"}))
-----------------------------------------------------------------------------
TypeOK ==
    /\ entries \in Seq(Entry) /\ day \in Days
    /\ handler \in [Handlers -> {Idle} \cup TransferCall]

Periods == {p \in Days \X Days : p[1] <= p[2]}
FundSets == {{f} : f \in Funds} \cup {Funds}

\* "totalDebit/totalCredit should always agree", for each fund alone and for the
\* organisation.
BooksBalance ==
    \A fs \in FundSets, d \in Days :
        TrialBalance(fs, d).debit = TrialBalance(fs, d).credit

\* The Cash that a fund gained (cash flow) is its surplus (income and
\* expenditure), what it was transferred and what members have in credit, less
\* what was settled to the organisation's wallet; the general ledger and the
\* fund position report show the same balances, apart from their sign.
FundStatementsAgree ==
    \A f \in Funds, p \in Periods :
        LET a == p[1]
            b == p[2]
            cf == CashFlow({f}, a, b)
            ie == IncomeExpenditure({f}, a, b)
            fp == FundPosition(f, a, b)
            gain(acct) == GeneralLedger(f, acct, a, b).closing
                              - GeneralLedger(f, acct, a, b).opening
        IN
        /\ cf.closing - cf.opening =
              (ie.income - ie.expense) + (ie.closing - ie.opening)
                - gain("Member Credit Balance") - gain("Settled to MoMo")
        /\ ie.closing - ie.opening = fp.transfersIn - fp.transfersOut
        /\ ie.closing = -fp.closing /\ ie.opening = -fp.opening
        /\ ie.income = fp.income /\ ie.expense = fp.expenses
        /\ fp.cashAvailable = cf.closing
        /\ GeneralLedger(f, "Cash", a, b).closing = cf.closing

\* The dashboard's cash position is the closing Cash and what lies in the
\* organisation's wallet.
CashPositionAgrees ==
    \A d \in Days : CashPosition(d) = CashFlow(Funds, 0, d).closing +
        SumFunction([f \in Funds |-> GeneralLedger(f, "Settled to MoMo", 0, d).closing])

\* The net collection of the reversals report is the contribution income of the
\* statement, even when reversals are reversed or an entry is reversed twice.
NetCollectionIsIncome ==
    \A p \in Periods :
        Collection(p[1], p[2]) = IncomeExpenditure(Funds, p[1], p[2]).income

\* Eight reports, each with a query of its own, tell one story of every period,
\* whatever was posted, moved between funds, reversed, or reversed again.
StatementsAgree ==
    BooksBalance /\ FundStatementsAgree /\ CashPositionAgrees /\ NetCollectionIsIncome

ReversedIn(a, b) ==
    \E i \in DOMAIN entries : entries[i].reversal /\ entries[i].day \in a..b

\* In a period without reversals the cash flow statement reconciles, a transfer
\* nets to zero over all funds, the dashboard's bars show the income and the
\* benefits of the statement, and budgets show its amounts.
UnreversedPeriodsAgree ==
    \A p \in Periods :
        LET a == p[1]
            b == p[2]
            all == CashFlow(Funds, a, b)
        IN
        ~ReversedIn(a, b) =>
            /\ \A fs \in FundSets : Reconciles(CashFlow(fs, a, b))
            /\ all.financingIn = all.financingOut
            /\ MonthlyBars(a, b).contributions = IncomeExpenditure(Funds, a, b).income
            /\ MonthlyBars(a, b).claimsPaid =
                  SumFunction([f \in Funds |-> BudgetActual(f, "Benefits Expense", a, b)])
            /\ ManualPayments(a, b) <= MonthlyBars(a, b).contributions
=============================================================================
