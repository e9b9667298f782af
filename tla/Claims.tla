------------------------------- MODULE Claims -------------------------------
(***************************************************************************)
(* Benefits: the versions of a benefit rule (rule-engine/benefit-rule      *)
(* .service.ts), the eligibility of a member for one (rule-engine/         *)
(* rule-engine.service.ts) and the claims made under it                    *)
(* (claims/claim.service.ts).                                              *)
(*                                                                         *)
(* A rule is drafted, activated or rejected; the activation of an          *)
(* amendment supersedes its predecessor.  A claim is submitted under an    *)
(* active rule, decided stage by stage along the rule's approval chain and *)
(* disbursed.  No operation locks: each reads in one step of a handler and *)
(* writes in a later one, so two calls about one claim or rule interleave. *)
(*                                                                         *)
(* One member claims, for himself or a dependant.  He joins on day 0.      *)
(* Events happen at the start of a day, and his status changes in the      *)
(* course of one.                                                          *)
(* Definitions marked "mutant" are plausible bugs, as in Payouts.          *)
(***************************************************************************)
EXTENDS Integers, SequencesExt

CONSTANTS
    Rules,          \* ids of benefit_rules rows
    Claims,         \* ids of claims rows
    Actors,         \* members who submit, decide and disburse
    Subjects,       \* whom a claim is about: the member or a dependant
    Standings,      \* member statuses
    Chain,          \* Chain[r]: length of the approval chain
    Cap,            \* Cap[r]: occurrenceCapMax
    Tenure,         \* Tenure[r]: minTenureMonths, in days
    Enacted,        \* rules in force since the member joined
    Strict,         \* rules with goodStandingRequired
    MakerChecker,   \* makerCheckerEnabled
    MaxDay,         \* bound: last day of the calendar
    MaxChanges,     \* bound: rows of the member's trail
    MaxEvidence,    \* bound: pieces of evidence added to a claim later
    MaxCalls,       \* bound: calls served, beside drafts
    Handlers

ASSUME ClaimsAssumption ==
    /\ Chain \in [Rules -> Nat] /\ Cap \in [Rules -> Nat] /\ Tenure \in [Rules -> Nat]
    /\ Strict \subseteq Rules /\ Enacted \subseteq Rules /\ MakerChecker \in BOOLEAN
    /\ MaxDay \in Nat /\ MaxChanges \in Nat /\ MaxEvidence \in Nat
    /\ MaxCalls \in Nat
    /\ {"ACTIVE", "PENDING"} \subseteq Standings /\ IsFiniteSet(Claims)

\* A handler that serves no call.
Idle == [op |-> "idle"]

VARIABLES
    ruleStatus,     \* ruleStatus[r], "absent" before the row is inserted
    author,         \* author[r]: the creator of r, at most one element
    supersedes,     \* supersedes[r]: the rule that r amends, if any
    from,           \* from[r]: effectiveFrom, if set
    ended,          \* ended[r]: effectiveTo, if set
    status,         \* status[c], "absent" before the row is inserted
    terms,          \* terms[c]: the claim's rule, subject, submitter and event date
    stage,          \* stage[c]: currentStageIndex
    decisions,      \* decisions[c]: the ClaimStageAction rows
    evidence,       \* evidence[c]: pieces added under review
    posted,         \* posted[c]: benefit_disbursement entries for c
    day,            \* today
    standing,       \* the member's status
    trail,          \* his MemberStatusChange rows, oldest first
    held,           \* history: held[d] is his status at the start of day d
    overlapped,     \* history: claims two calls were about at once, and what
                    \* two submissions were for at once
    handler,        \* handler[h]: the call it is serving, with what it read
    calls           \* calls begun so far

ruleVars   == <<ruleStatus, author, supersedes, from, ended>>
claimVars  == <<status, terms, stage, decisions, evidence, posted>>
memberVars == <<day, standing, trail, held>>
vars == <<ruleVars, claimVars, memberVars, overlapped, handler, calls>>

Days == 0..MaxDay
Decisions == {"APPROVE", "REJECT"}
RuleStatuses == {"absent", "DRAFT", "ACTIVE", "SUPERSEDED", "REJECTED"}
Statuses == {"absent", "SUBMITTED", "APPROVED", "REJECTED", "PAID"}
Terms == [rule : Rules, subject : Subjects, by : Actors, event : Days]

\* A call in progress, what it is about (on), and what it read.
ActivateCall == [op : {"activate"}, from : Days, rule : Rules]
RejectCall   == [op : {"reject"}, rule : Rules]
SubmitCall   == [op : {"submit"}, by : Actors, event : Days, on : Rules \X Subjects]
DecideCall   == [op : {"decide"}, stage : Nat, by : Actors,
                 on : Claims, decision : Decisions]
ClaimCall    == [op : {"evidence", "disburse"}, on : Claims]

Begin(h, call) ==
    /\ calls < MaxCalls                                     \* bound
    /\ calls' = calls + 1
    /\ handler[h] = Idle
    /\ handler' = [handler EXCEPT ![h] = call]
End(h) ==
    /\ handler' = [handler EXCEPT ![h] = Idle]
    /\ UNCHANGED <<overlapped, calls>>

OnClaims == {"submit", "decide", "evidence", "disburse"}
BeginOn(h, call) ==
    /\ Begin(h, call)
    /\ overlapped' = IF \E g \in Handlers : handler[g].op \in OnClaims /\ handler[g].on = call.on
                     THEN overlapped \cup {call.on} ELSE overlapped
-----------------------------------------------------------------------------
(* Rule versions: BenefitRuleService. *)

\* supersedesId is a unique key: a rule has one amendment, even a rejected one.
NotAmendedYet(r, p) == \A q \in Rules : p # {} => supersedes[q] # p

\* create: a draft, which may amend any rule there is.
Draft(r, a, p) ==
    /\ ruleStatus[r] = "absent"
    /\ \A q \in p : ruleStatus[q] # "absent"
    /\ NotAmendedYet(r, p)
    /\ ruleStatus' = [ruleStatus EXCEPT ![r] = "DRAFT"]
    /\ author' = [author EXCEPT ![r] = {a}]
    /\ supersedes' = [supersedes EXCEPT ![r] = p]
    /\ UNCHANGED <<from, ended, claimVars, memberVars, overlapped, handler, calls>>

\* activate reads the draft and its predecessor, which must be active.  The
\* day it takes effect may be any.
ActivateRead(h, r, a, d) ==
    /\ ruleStatus[r] = "DRAFT"
    /\ MakerChecker => author[r] # {a}
    /\ \A p \in supersedes[r] : ruleStatus[p] = "ACTIVE"
    /\ Begin(h, [op |-> "activate", from |-> d, rule |-> r])
    /\ UNCHANGED <<overlapped, ruleVars, claimVars, memberVars>>

DayAfter(d) == d + 1                                                \* mutant
EndedToday(d) == day                                                \* mutant
EndedWhen(d) == d

ActivateCommit(h) ==
    LET r == handler[h].rule
        d == handler[h].from
    IN
    /\ handler[h].op = "activate"
    /\ ruleStatus' = [q \in Rules |-> IF q = r THEN "ACTIVE"
                                      ELSE IF q \in supersedes[r] THEN "SUPERSEDED"
                                      ELSE ruleStatus[q]]
    /\ from' = [from EXCEPT ![r] = {d}]
    /\ ended' = [q \in Rules |-> IF q \in supersedes[r] THEN {EndedWhen(d)} ELSE ended[q]]
    /\ End(h)
    /\ UNCHANGED <<author, supersedes, claimVars, memberVars>>

RejectRead(h, r) ==
    /\ ruleStatus[r] = "DRAFT"
    /\ Begin(h, [op |-> "reject", rule |-> r])
    /\ UNCHANGED <<overlapped, ruleVars, claimVars, memberVars>>

RejectCommit(h) ==
    /\ handler[h].op = "reject"
    /\ ruleStatus' = [ruleStatus EXCEPT ![handler[h].rule] = "REJECTED"]
    /\ End(h)
    /\ UNCHANGED <<author, supersedes, from, ended, claimVars, memberVars>>
-----------------------------------------------------------------------------
(* Eligibility: evaluateBenefitEligibility. *)

\* A status change counts from the next day on: it came after the day's events.
OldestChange(e) ==                                                  \* mutant
    SelectInSeq(trail, LAMBDA c : c.at < e)
LatestChange(e) ==
    SelectLastInSeq(trail, LAMBDA c : c.at < e)

\* His status as of the event, by the audit trail; where that has none, the
\* event precedes his joining, and it is his status now.
StandingAsOf(e) ==
    IF LatestChange(e) = 0 THEN standing ELSE trail[LatestChange(e)].to

\* Claims under this version of the rule, for this subject, not rejected.
PriorClaims(r, s) ==
    {c \in Claims : status[c] # "REJECTED" /\ \E t \in terms[c] : t.rule = r /\ t.subject = s}

PaidWithinCap(r, s) ==                                              \* mutant
    Cardinality({c \in PriorClaims(r, s) : status[c] = "PAID"}) < Cap[r]
WithinCap(r, s) == Cardinality(PriorClaims(r, s)) < Cap[r]

\* The rule's dates are not looked at, only its status.
Eligible(r, s, e) ==
    /\ ruleStatus[r] = "ACTIVE"
    /\ e >= Tenure[r]
    /\ r \in Strict => StandingAsOf(e) = "ACTIVE"
    /\ WithinCap(r, s)
-----------------------------------------------------------------------------
(* Claims: ClaimService. *)

\* submit evaluates the eligibility in a transaction of its own ...
SubmitCheck(h, r, s, a, e) ==
    /\ Eligible(r, s, e)
    /\ BeginOn(h, [op |-> "submit", by |-> a, event |-> e, on |-> <<r, s>>])
    /\ UNCHANGED <<ruleVars, claimVars, memberVars>>

\* ... and inserts the claim in another.  Without approval stages it is
\* approved at once.
SubmitInsert(h, c) ==
    LET call == handler[h]
        r == call.on[1]
    IN
    /\ call.op = "submit"
    /\ status[c] = "absent"
    /\ status' = [status EXCEPT ![c] = IF Chain[r] = 0 THEN "APPROVED" ELSE "SUBMITTED"]
    /\ terms' = [terms EXCEPT ![c] = {[rule |-> r, subject |-> call.on[2],
                                      by |-> call.by, event |-> call.event]}]
    /\ End(h)
    /\ UNCHANGED <<ruleVars, stage, decisions, evidence, posted, memberVars>>

\* addEvidence finds the claim under review, and then inserts the row.
EvidenceCheck(h, c) ==
    /\ status[c] = "SUBMITTED"
    /\ evidence[c] < MaxEvidence                            \* bound
    /\ BeginOn(h, [op |-> "evidence", on |-> c])
    /\ UNCHANGED <<ruleVars, claimVars, memberVars>>

EvidenceAdd(h) ==
    /\ handler[h].op = "evidence"
    /\ evidence' = [evidence EXCEPT ![handler[h].on] = @ + 1]
    /\ End(h)
    /\ UNCHANGED <<ruleVars, status, terms, stage, decisions, posted, memberVars>>

\* decide reads the claim, which must be under review.
DecideRead(h, c, a, d) ==
    /\ status[c] = "SUBMITTED"
    /\ MakerChecker => \A t \in terms[c] : t.by # a
    /\ BeginOn(h, [op |-> "decide", stage |-> stage[c], by |-> a,
                 on |-> c, decision |-> d])
    /\ UNCHANGED <<ruleVars, claimVars, memberVars>>

OneBeforeLast(k, n) == k >= n - 2                                   \* mutant
IsFinalStage(k, n) == k >= n - 1

\* It records the decision at the stage it read, and rejects the claim,
\* approves it after the last stage, or moves it on: only that column.
DecideCommit(h) ==
    LET call == handler[h]
        c == call.on
        final == \E t \in terms[c] : IsFinalStage(call.stage, Chain[t.rule])
    IN
    /\ call.op = "decide"
    /\ decisions' = [decisions EXCEPT ![c] = @ \cup
          {[stage |-> call.stage, by |-> call.by, decision |-> call.decision]}]
    /\ \/ /\ call.decision = "REJECT"
          /\ status' = [status EXCEPT ![c] = "REJECTED"]
          /\ UNCHANGED stage
       \/ /\ call.decision = "APPROVE" /\ final
          /\ status' = [status EXCEPT ![c] = "APPROVED"]
          /\ UNCHANGED stage
       \/ /\ call.decision = "APPROVE" /\ ~final
          /\ stage' = [stage EXCEPT ![c] = call.stage + 1]
          /\ UNCHANGED status
    /\ End(h)
    /\ UNCHANGED <<ruleVars, terms, evidence, posted, memberVars>>

Undisbursed(c) == status[c] # "REJECTED"                            \* mutant
Disbursable(c) == status[c] = "APPROVED"

\* disburse finds the claim approved, posts the entry and marks it paid.
DisburseRead(h, c) ==
    /\ status[c] # "absent" /\ Disbursable(c)
    /\ BeginOn(h, [op |-> "disburse", on |-> c])
    /\ UNCHANGED <<ruleVars, claimVars, memberVars>>

DisburseCommit(h) ==
    LET c == handler[h].on IN
    /\ handler[h].op = "disburse"
    /\ posted' = [posted EXCEPT ![c] = @ + 1]
    /\ status' = [status EXCEPT ![c] = "PAID"]
    /\ End(h)
    /\ UNCHANGED <<ruleVars, terms, stage, decisions, evidence, memberVars>>
-----------------------------------------------------------------------------
(* The member and the calendar. *)

\* His status changes, by hand or by reassessment, and the change is recorded.
ChangeStanding(s) ==
    /\ Len(trail) < MaxChanges                              \* bound
    /\ s # standing
    /\ standing' = s
    /\ trail' = Append(trail, [at |-> day, to |-> s])
    /\ UNCHANGED <<day, held, ruleVars, claimVars, overlapped, handler, calls>>

NextDay ==
    /\ day < MaxDay
    /\ day' = day + 1
    /\ held' = [held EXCEPT ![day + 1] = standing]
    /\ UNCHANGED <<standing, trail, ruleVars, claimVars, overlapped, handler, calls>>

\* He joins PENDING, or ACTIVE as the founder, which the trail records.
Init ==
    /\ ruleStatus = [r \in Rules |-> IF r \in Enacted THEN "ACTIVE" ELSE "absent"]
    /\ author = [r \in Rules |-> {}] /\ supersedes = [r \in Rules |-> {}]
    /\ from = [r \in Rules |-> IF r \in Enacted THEN {0} ELSE {}]
    /\ ended = [r \in Rules |-> {}]
    /\ status = [c \in Claims |-> "absent"]
    /\ terms = [c \in Claims |-> {}] /\ stage = [c \in Claims |-> 0]
    /\ decisions = [c \in Claims |-> {}]
    /\ evidence = [c \in Claims |-> 0] /\ posted = [c \in Claims |-> 0]
    /\ day = 0 /\ standing \in {"ACTIVE", "PENDING"}
    /\ trail = <<[at |-> 0, to |-> standing]>>
    /\ held = [d \in Days |-> "PENDING"]
    /\ overlapped = {}
    /\ handler = [h \in Handlers |-> Idle] /\ calls = 0

Next ==
    \/ NextDay
    \/ \E s \in Standings : ChangeStanding(s)
    \/ \E r \in Rules, a \in Actors :
          Draft(r, a, {}) \/ \E q \in Rules : Draft(r, a, {q})
    \/ \E h \in Handlers :
          \/ \E r \in Rules :
                \/ \E a \in Actors, d \in Days : ActivateRead(h, r, a, d)
                \/ RejectRead(h, r)
                \/ \E s \in Subjects, a \in Actors, e \in Days : SubmitCheck(h, r, s, a, e)
          \/ \E c \in Claims :
                \/ SubmitInsert(h, c) \/ EvidenceCheck(h, c) \/ DisburseRead(h, c)
                \/ \E a \in Actors, d \in Decisions : DecideRead(h, c, a, d)
          \/ ActivateCommit(h) \/ RejectCommit(h)
          \/ EvidenceAdd(h) \/ DecideCommit(h) \/ DisburseCommit(h)

Spec == Init /\ [][Next]_vars
-----------------------------------------------------------------------------
Change == [at : Days, to : Standings]

TypeOK ==
    /\ ruleStatus \in [Rules -> RuleStatuses]
    /\ author \in [Rules -> SUBSET Actors] /\ supersedes \in [Rules -> SUBSET Rules]
    /\ from \in [Rules -> SUBSET Days] /\ ended \in [Rules -> SUBSET Days]
    /\ status \in [Claims -> Statuses] /\ terms \in [Claims -> SUBSET Terms]
    /\ stage \in [Claims -> Nat]
    /\ decisions \in [Claims -> SUBSET [stage : Nat, by : Actors, decision : Decisions]]
    /\ evidence \in [Claims -> Nat] /\ posted \in [Claims -> Nat]
    /\ day \in Days /\ standing \in Standings /\ trail \in Seq(Change)
    /\ held \in [Days -> Standings]
    /\ calls \in Nat /\ overlapped \subseteq Claims \cup (Rules \X Subjects)
    /\ handler \in [Handlers -> {Idle} \cup ActivateCall \cup RejectCall \cup SubmitCall
                                      \cup DecideCall \cup ClaimCall]

\* A claim is approved or paid only after every stage of its rule's chain was
\* approved, none of them by whoever submitted it where maker-checker is
\* enabled: however the decisions of several approvers interleave, no stage is
\* skipped.
ApprovedThroughEveryStage ==
    \A c \in Claims : \A t \in terms[c] :
        status[c] \in {"APPROVED", "PAID"} =>
            \A k \in 0..(Chain[t.rule] - 1) : \E d \in decisions[c] :
                /\ d.stage = k /\ d.decision = "APPROVE"
                /\ MakerChecker => d.by # t.by

\* "The predecessor is SUPERSEDED (its effectiveTo set to the new version's
\* effectiveFrom)" (contribution-plan.service.ts, whose reasoning
\* benefit-rule.service.ts refers to): two versions neither overlap nor leave
\* a gap, even if drafts are activated twice, rejected while they are activated,
\* or dated back.
VersionsAbut ==
    \A r \in Rules : \A p \in supersedes[r] : ended[p] = from[r]

\* The claims of a rule in the reports on benefits: disbursementReport lists
\* the PAID ones; benefitExpenditureAnalytics places every one by its status.
ClaimsOf(r) == {c \in Claims : \E t \in terms[c] : t.rule = r}
DisbursementReport(r) == {c \in ClaimsOf(r) : status[c] = "PAID"}
BenefitExpenditure(r) ==
    LET those(s) == {c \in ClaimsOf(r) : status[c] = s} IN
    [paid |-> those("PAID"), submitted |-> those("SUBMITTED"), approved |-> those("APPROVED"),
     rejected |-> ClaimsOf(r) \ UNION {those("PAID"), those("SUBMITTED"), those("APPROVED")}]

Rejections(c) == {d \in decisions[c] : d.decision = "REJECT"}

\* A claim about which no two calls overlapped is settled once, and the reports
\* on benefits show that: it is listed as disbursed if and only if one entry was
\* posted for it, and none otherwise; as committed only if none was; and as
\* rejected if and only if an approver rejected it.
SettledOnce ==
    \A r \in Rules : \A c \in ClaimsOf(r) \ overlapped :
        /\ posted[c] = IF c \in DisbursementReport(r) THEN 1 ELSE 0
        /\ posted[c] = 0 <=> c \notin BenefitExpenditure(r).paid
        /\ c \in BenefitExpenditure(r).rejected <=> Rejections(c) # {}

\* The lifetime cap of a rule version is kept for each subject, unless two
\* submissions for it overlapped, or two calls about one of its claims did.
CapsHold ==
    \A r \in Rules, s \in Subjects :
        <<r, s>> \notin overlapped /\ PriorClaims(r, s) \cap overlapped = {} =>
            Cardinality(PriorClaims(r, s)) <= Cap[r]

\* The rule engine "reads the member's status *as it stood on eventDate*": a
\* member is found eligible under a rule that asks for good standing only if
\* he was ACTIVE when the event happened, whatever he is today.  It says so
\* of events since he joined: for an earlier one the code takes his status now.
StandingOnEventDate ==
    [][\A h \in Handlers :
          /\ handler[h] = Idle /\ handler'[h].op = "submit"
          /\ handler'[h].on[1] \in Strict
          /\ handler'[h].event \in 1..day
          => held[handler'[h].event] = "ACTIVE"]_vars
=============================================================================
