------------------------------ MODULE Tenancy -------------------------------
(***************************************************************************)
(* Organisations, their members and their subscriptions: registration and  *)
(* joining (auth/auth.service.ts), the subscription of an organisation and *)
(* the guard that blocks lapsed ones (subscriptions/*.ts), and the daily   *)
(* sweep that reminds members and ends trials                              *)
(* (notifications/notification-scheduler.service.ts).                      *)
(*                                                                         *)
(* Registration commits in three transactions and may stop between them.   *)
(* A join looks for a membership in one transaction and inserts it in      *)
(* another.  The sweep is one transaction per organisation, without locks; *)
(* it may fail and roll back, and two of them may run at once.  The text   *)
(* message of a reminder is dispatched outside that transaction, at once,  *)
(* so a rollback forgets the reminder and not the message.                 *)
(* Definitions marked "mutant" are plausible bugs, as in Payouts.          *)
(***************************************************************************)
EXTENDS Integers, SequencesExt, FiniteSetsExt

CONSTANTS
    Accounts,       \* phone numbers
    Orgs,           \* ids of organisations rows
    Dues,           \* obligations of members, of plans with reminders
    DueOn,          \* DueOn[d]: day d is due
    Owes,           \* Owes[d]: the organisation d belongs to
    Window,         \* reminderDaysBeforeDue
    TrialDays,      \* DEFAULT_TRIAL_DAYS
    MaxDay,         \* bound: last day of the calendar
    MaxCalls,       \* bound: calls served, beside sweeps
    MaxFailures,    \* bound: sweeps and registrations that fail
    Handlers,
    Sweepers        \* instances of the service, each with its daily sweep

States == {"TRIAL", "ACTIVE", "PAST_DUE", "SUSPENDED", "CANCELLED"}

ASSUME TenancyAssumption ==
    /\ DueOn \in [Dues -> Nat] /\ Owes \in [Dues -> Orgs]
    /\ Window \in Nat /\ TrialDays \in Nat /\ MaxDay \in Nat
    /\ MaxCalls \in Nat /\ MaxFailures \in Nat

VARIABLES
    accounts,       \* accounts rows
    provisioned,    \* organisations rows
    members,        \* members[o]: its members rows, oldest first
    subscription,   \* subscription[o]: the row, at most one
    paid,           \* dues that are not open any more
    reminders,      \* reminders[d]: CONTRIBUTION_DUE_REMINDER rows about d
    texts,          \* texts[d]: text messages about d handed to SmsService
    lost,           \* history: lost[o] is the sweeps of o that were rolled back
    day,            \* today
    together,       \* history: pairs of an account and an organisation that two
                    \* calls were joining or founding at once, and organisations
                    \* that two sweeps were in at once
    handler,        \* handler[h]: the call it is serving
    sweeper,        \* sweeper[s]: the organisation it is sweeping, with what it read
    calls, failures \* for the bounds

tenants == <<accounts, provisioned, members>>
told == <<reminders, texts, lost>>
vars == <<tenants, subscription, paid, told, day, together, handler, sweeper, calls,
          failures>>

Row == [account : Accounts, founder : BOOLEAN]
Subscription == [state : States, trialEnds : Nat]
Idle == [op |-> "idle"]
FoundCall == [op : {"provision", "found"}, account : Accounts, org : Orgs]
JoinCall == [op : {"join", "joining"}, account : Accounts, org : Orgs]
StatusCall == [op : {"status"}, org : Orgs, to : States]
SweepStep == [op : {"reminding"}, org : Orgs, due : SUBSET Dues]
SweepEnd == [op : {"ending"}, org : Orgs, due : SUBSET Dues, lapsed : BOOLEAN]
-----------------------------------------------------------------------------
(* The guard: SubscriptionGuard, before every writing request of a tenant. *)

Lapsed(s) == s.state = "TRIAL" /\ s.trialEnds < day
Blocked(o) == \E s \in subscription[o] : s.state \in {"SUSPENDED", "CANCELLED"} \/ Lapsed(s)
\* login and switchOrganisation issue a token for an organisation of the caller's.
MemberOf(x, o) == \E i \in DOMAIN members[o] : members[o][i].account = x

\* A request is made with a password, or with a token for one of the caller's
\* organisations, which must not be blocked.
Admitted(x, token) == \A f \in token : MemberOf(x, f) /\ ~Blocked(f)

Begin(h, call) ==
    /\ calls < MaxCalls                                     \* bound
    /\ calls' = calls + 1
    /\ handler[h] = Idle
    /\ handler' = [handler EXCEPT ![h] = call]
    /\ UNCHANGED <<subscription, paid, told, day, sweeper, failures>>
Continue(h, call) ==
    /\ handler' = [handler EXCEPT ![h] = call]
    /\ UNCHANGED <<paid, told, day, sweeper, calls, failures>>

Joining(h, x, o) ==
    /\ handler[h] # Idle /\ handler[h].op # "status"
    /\ handler[h].account = x /\ handler[h].org = o
Meet(x, o) == together' = IF \E g \in Handlers : Joining(g, x, o)
                          THEN together \cup {<<x, o>>} ELSE together
-----------------------------------------------------------------------------
(* Founding an organisation: registerOrganisation, createAdditionalOrganisation. *)

\* The account is found or created, and committed.
Register(h, x, token, o) ==
    /\ Admitted(x, token)
    /\ o \notin provisioned
    /\ \A g \in Handlers : handler[g].op = "provision" => handler[g].org # o
    /\ accounts' = accounts \cup {x}
    /\ Meet(x, o)
    /\ Begin(h, [op |-> "provision", account |-> x, org |-> o])
    /\ UNCHANGED <<provisioned, members>>

\* The organisation is committed alone, under a join code of its own ...
Provision(h) ==
    /\ handler[h].op = "provision"
    /\ provisioned' = provisioned \cup {handler[h].org}
    /\ Continue(h, [handler[h] EXCEPT !.op = "found"])
    /\ UNCHANGED <<accounts, members, subscription, together>>

\* ... and then its founder, with his role and the trial.
Found(h) ==
    LET o == handler[h].org IN
    /\ handler[h].op = "found"
    /\ members' = [members EXCEPT ![o] =
                      Append(@, [account |-> handler[h].account, founder |-> TRUE])]
    /\ subscription' = [subscription EXCEPT ![o] =
                           {[state |-> "TRIAL", trialEnds |-> day + TrialDays]}]
    /\ Continue(h, Idle)
    /\ UNCHANGED <<accounts, provisioned, together>>

\* Every generated join code was taken, or the service stopped.
GiveUp(h) ==
    /\ failures < MaxFailures                               \* bound
    /\ handler[h].op \in {"provision", "found"}
    /\ failures' = failures + 1
    /\ handler' = [handler EXCEPT ![h] = Idle]
    /\ UNCHANGED <<tenants, subscription, paid, told, day, together, sweeper, calls>>
-----------------------------------------------------------------------------
(* Joining: joinOrganisation, joinAdditionalOrganisation. *)

Join(h, x, token, o) ==
    /\ Admitted(x, token)
    /\ o \in provisioned
    /\ accounts' = accounts \cup {x}
    /\ Meet(x, o)
    /\ Begin(h, [op |-> "join", account |-> x, org |-> o])
    /\ UNCHANGED <<provisioned, members>>

NeverMind(x, o) == FALSE                                            \* mutant
AlreadyIn(x, o) == MemberOf(x, o)

\* The account's memberships are read in a transaction of its own.
JoinRead(h) ==
    LET call == handler[h] IN
    /\ call.op = "join"
    /\ Continue(h, IF AlreadyIn(call.account, call.org) THEN Idle
                   ELSE [call EXCEPT !.op = "joining"])
    /\ UNCHANGED <<tenants, subscription, together>>

\* There is no unique key.  The administrators are told once of each row.
JoinCommit(h) ==
    LET call == handler[h] IN
    /\ call.op = "joining"
    /\ members' = [members EXCEPT ![call.org] =
                      Append(@, [account |-> call.account, founder |-> FALSE])]
    /\ Continue(h, Idle)
    /\ UNCHANGED <<accounts, provisioned, subscription, together>>
-----------------------------------------------------------------------------
(* The subscription: SubscriptionService. *)

ToPaid(s) == [s EXCEPT !.state = "PAID"]                            \* mutant
ToActive(s) == [s EXCEPT !.state = "ACTIVE"]

\* convertToPaid, by the founder: from any state, for the row is not looked at,
\* and past the guard.
Convert(o) ==
    /\ calls < MaxCalls                                     \* bound
    /\ calls' = calls + 1
    /\ subscription' = [subscription EXCEPT ![o] =
                           {ToActive(s) : s \in @}]
    /\ subscription[o] # {}
    /\ UNCHANGED <<tenants, paid, told, day, together, handler, sweeper, failures>>

\* updateStatusForOperator: a cancelled one is not revived.
StatusRead(h, o, t) ==
    /\ subscription[o] # {}
    /\ \A s \in subscription[o] : s.state = "CANCELLED" => t = "CANCELLED"
    /\ Begin(h, [op |-> "status", org |-> o, to |-> t])
    /\ UNCHANGED <<tenants, together>>

StatusCommit(h) ==
    LET o == handler[h].org IN
    /\ handler[h].op = "status"
    /\ subscription' = [subscription EXCEPT ![o] =
                           {[s EXCEPT !.state = handler[h].to] : s \in @}]
    /\ Continue(h, Idle)
    /\ UNCHANGED <<tenants, together>>
-----------------------------------------------------------------------------
(* The daily sweep: NotificationSchedulerService. *)

NoLookup(d) == TRUE                                                 \* mutant
NotReminded(d) == reminders[d] = 0

\* sendDueReminders: the open dues of the window, and those nobody was told of.
Remindable(o) ==
    {d \in Dues : /\ Owes[d] = o /\ d \notin paid
                  /\ day <= DueOn[d] /\ DueOn[d] <= day + Window
                  /\ NotReminded(d)}

Sweeping(o) == \E s \in Sweepers : sweeper[s] # Idle /\ sweeper[s].org = o
MeetSweep(o) == together' = IF Sweeping(o) THEN together \cup {o} ELSE together

\* A reminder is also sent as a text message, by a transaction of its own that
\* nobody waits for, if the operator has chosen so and the member has a number.
Text(dues) == texts' = [d \in Dues |-> IF d \in dues THEN texts[d] + 1 ELSE texts[d]]

SweepReminders(s, o) ==
    /\ sweeper[s] = Idle
    /\ o \in provisioned
    /\ MeetSweep(o)
    /\ \E dues \in SUBSET Remindable(o) : Text(dues)
    /\ sweeper' = [sweeper EXCEPT ![s] = [op |-> "reminding", org |-> o,
                                          due |-> Remindable(o)]]
    /\ UNCHANGED <<tenants, subscription, paid, reminders, lost, day, handler, calls, failures>>

\* expireLapsedTrial reads the subscription.
ExpiresToday(s) == s.state = "TRIAL" /\ s.trialEnds = day           \* mutant
Expired(s) == s.state = "TRIAL" /\ s.trialEnds <= day

SweepTrial(s) ==
    LET o == sweeper[s].org IN
    /\ sweeper[s].op = "reminding"
    /\ sweeper' = [sweeper EXCEPT ![s] = [op |-> "ending", org |-> o,
          due |-> sweeper[s].due, lapsed |-> \E t \in subscription[o] : Expired(t)]]
    /\ UNCHANGED <<tenants, subscription, paid, told, day, together, handler, calls, failures>>

\* All it wrote is committed at once; a lapsed trial is suspended, whatever
\* its state is by now.
SweepCommit(s) ==
    LET o == sweeper[s].org IN
    /\ sweeper[s].op = "ending"
    /\ reminders' = [d \in Dues |-> IF d \in sweeper[s].due THEN reminders[d] + 1
                                    ELSE reminders[d]]
    /\ subscription' = IF sweeper[s].lapsed
                       THEN [subscription EXCEPT ![o] =
                                {[t EXCEPT !.state = "SUSPENDED"] : t \in @}]
                       ELSE subscription
    /\ sweeper' = [sweeper EXCEPT ![s] = Idle]
    /\ UNCHANGED <<tenants, paid, texts, lost, day, together, handler, calls, failures>>

\* An error is logged, and the next organisation's turn comes.  What it wrote
\* is undone; the text messages it dispatched are not.
SweepFails(s) ==
    /\ failures < MaxFailures                               \* bound
    /\ sweeper[s] # Idle
    /\ failures' = failures + 1
    /\ lost' = [lost EXCEPT ![sweeper[s].org] = @ + 1]
    /\ sweeper' = [sweeper EXCEPT ![s] = Idle]
    /\ UNCHANGED <<tenants, subscription, paid, reminders, texts, day, together, handler, calls>>
-----------------------------------------------------------------------------
Pay(d) ==
    /\ d \notin paid
    /\ paid' = paid \cup {d}
    /\ UNCHANGED <<tenants, subscription, told, day, together, handler, sweeper, calls,
                   failures>>

NextDay ==
    /\ day < MaxDay
    /\ day' = day + 1
    /\ UNCHANGED <<tenants, subscription, paid, told, together, handler, sweeper, calls,
                   failures>>

Init ==
    /\ accounts = {} /\ provisioned = {}
    /\ members = [o \in Orgs |-> <<>>] /\ subscription = [o \in Orgs |-> {}]
    /\ paid = {} /\ reminders = [d \in Dues |-> 0]
    /\ texts = [d \in Dues |-> 0] /\ lost = [o \in Orgs |-> 0]
    /\ day = 0 /\ together = {}
    /\ handler = [h \in Handlers |-> Idle] /\ sweeper = [s \in Sweepers |-> Idle]
    /\ calls = 0 /\ failures = 0

Next ==
    \/ NextDay \/ \E d \in Dues : Pay(d)
    \/ \E o \in Orgs :
          \/ Convert(o)
          \/ \E s \in Sweepers : SweepReminders(s, o)
    \/ \E s \in Sweepers : SweepTrial(s) \/ SweepCommit(s) \/ SweepFails(s)
    \/ \E h \in Handlers :
          \/ \E x \in Accounts, o \in Orgs, token \in {{}} \cup {{f} : f \in Orgs} :
                Register(h, x, token, o) \/ Join(h, x, token, o)
          \/ \E o \in Orgs, t \in States : StatusRead(h, o, t)
          \/ Provision(h) \/ Found(h) \/ GiveUp(h)
          \/ JoinRead(h) \/ JoinCommit(h) \/ StatusCommit(h)

Spec == Init /\ [][Next]_vars

\* The sweep runs every day, for every organisation, and ends.
Fairness ==
    \A s \in Sweepers :
        /\ \A o \in Orgs : SF_vars(SweepReminders(s, o))
        /\ WF_vars(SweepTrial(s)) /\ WF_vars(SweepCommit(s))

FairSpec == Spec /\ Fairness
-----------------------------------------------------------------------------
TypeOK ==
    /\ accounts \subseteq Accounts /\ provisioned \subseteq Orgs
    /\ members \in [Orgs -> Seq(Row)]
    /\ subscription \in [Orgs -> SUBSET Subscription]
    /\ \A o \in Orgs : Cardinality(subscription[o]) <= 1
    /\ paid \subseteq Dues /\ reminders \in [Dues -> Nat] /\ day \in 0..MaxDay
    /\ texts \in [Dues -> Nat] /\ lost \in [Orgs -> Nat]
    /\ together \subseteq (Accounts \X Orgs) \cup Orgs
    /\ handler \in [Handlers -> {Idle} \cup FoundCall \cup JoinCall \cup StatusCall]
    /\ sweeper \in [Sweepers -> {Idle} \cup SweepStep \cup SweepEnd]
    /\ calls \in Nat /\ failures \in Nat

\* "This account is already a member of that organisation": nobody has two
\* rows in one organisation, not even its founder, unless two calls were
\* joining or founding it for him at once.
OneMembershipEach ==
    \A o \in Orgs : \A i, j \in DOMAIN members[o] :
        members[o][i].account = members[o][j].account /\ i # j =>
            <<members[o][i].account, o>> \in together

\* "Already reminded about obligation X should never fire twice": unless two
\* sweeps were in the organisation at once, a due has one reminder, on whichever
\* days the sweep runs or fails; but "an SMS can go out for a notification that
\* never actually persisted", so the text message may come once more for each
\* sweep of the organisation that was rolled back, and no more than that.
RemindedOnce ==
    \A d \in Dues : Owes[d] \notin together =>
        reminders[d] <= 1 /\ texts[d] <= 1 + lost[Owes[d]]

\* "A trial that runs out without converting doesn't just sit there forever":
\* it leaves TRIAL, though sweeps may fail now and then.
LapsedTrialsEnd ==
    \A o \in Orgs :
        (\E t \in subscription[o] : t.state = "TRIAL" /\ t.trialEnds <= day) ~>
            (\A t \in subscription[o] : t.state # "TRIAL")
=============================================================================
