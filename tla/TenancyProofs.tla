---------------------------- MODULE TenancyProofs ----------------------------
(***************************************************************************)
(* Theorems about Tenancy: its type invariant, that nobody holds two       *)
(* memberships in one organisation, and that a due is reminded of once.    *)
(*                                                                         *)
(* Both safety properties say "unless two were at it at once", and are     *)
(* proved alike: what a call or a sweep has read is still so when it       *)
(* writes, or another one met it on the way and the history says so.       *)
(***************************************************************************)
EXTENDS Tenancy, FiniteSetTheorems, SequenceTheorems, TLAPS

\* A subscription's rows, written by a function of each row, stay at most one.
OneRow == \A o \in Orgs : \A s, t \in subscription[o] : s = t

LEMMA AtMostOne ==
  ASSUME NEW S, \A a, b \in S : a = b
  PROVE  Cardinality(S) <= 1
<1>1. CASE S = {}
  BY <1>1, FS_EmptySet
<1>2. CASE S # {}
  <2>1. PICK a \in S : TRUE
    BY <1>2
  <2>2. S = {a}
    BY <2>1
  <2>. QED  BY <2>2, FS_Singleton
<1>. QED  BY <1>1, <1>2

\* What a handler is serving, by the name of its operation.
LEMMA CallByOp ==
  ASSUME TypeOK, NEW h \in Handlers
  PROVE  /\ handler[h].op \in {"provision", "found"} => handler[h] \in FoundCall
         /\ handler[h].op \in {"join", "joining"} => handler[h] \in JoinCall
         /\ handler[h].op = "status" => handler[h] \in StatusCall
<1>1. handler[h] \in {Idle} \cup FoundCall \cup JoinCall \cup StatusCall
  BY DEF TypeOK
<1>. QED  BY <1>1 DEF Idle, FoundCall, JoinCall, StatusCall

LEMMA SweepByOp ==
  ASSUME TypeOK, NEW s \in Sweepers
  PROVE  /\ sweeper[s].op = "reminding" => sweeper[s] \in SweepStep
         /\ sweeper[s].op = "ending" => sweeper[s] \in SweepEnd
         /\ sweeper[s] # Idle => sweeper[s].org \in Orgs /\ sweeper[s].due \subseteq Dues
<1>1. sweeper[s] \in {Idle} \cup SweepStep \cup SweepEnd
  BY DEF TypeOK
<1>. QED  BY <1>1 DEF Idle, SweepStep, SweepEnd
-----------------------------------------------------------------------------
(* Types. *)

Calls == {Idle} \cup FoundCall \cup JoinCall \cup StatusCall

LEMMA InitTypeOK == Init => TypeOK /\ OneRow
<1>. SUFFICES ASSUME Init PROVE TypeOK /\ OneRow
  OBVIOUS
<1>1. \A o \in Orgs : subscription[o] = {} /\ members[o] = <<>>
  BY DEF Init
<1>2. \A o \in Orgs : Cardinality(subscription[o]) <= 1
  BY <1>1, AtMostOne
<1>3. members \in [Orgs -> Seq(Row)]
  BY DEF Init
<1>4. day \in 0..MaxDay
  BY TenancyAssumption DEF Init
<1>. QED  BY <1>1, <1>2, <1>3, <1>4 DEF Init, TypeOK, OneRow

\* The history is of pairs and organisations.
LEMMA MeetType ==
  ASSUME TypeOK, NEW x \in Accounts, NEW o \in Orgs, Meet(x, o)
  PROVE  together' \subseteq (Accounts \X Orgs) \cup Orgs
  BY DEF TypeOK, Meet

\* A call is begun or continued with a call of its kind.
LEMMA HandlerType ==
  ASSUME TypeOK, NEW h \in Handlers, NEW call \in Calls,
         handler' = [handler EXCEPT ![h] = call]
  PROVE  handler' \in [Handlers -> {Idle} \cup FoundCall \cup JoinCall \cup StatusCall]
  BY DEF TypeOK, Calls

LEMMA BeginType ==
  ASSUME TypeOK, OneRow, NEW h \in Handlers, NEW call \in Calls, Begin(h, call),
         accounts' \subseteq Accounts, UNCHANGED <<provisioned, members>>,
         together' \subseteq (Accounts \X Orgs) \cup Orgs
  PROVE  TypeOK' /\ OneRow'
<1>1. handler' \in [Handlers -> {Idle} \cup FoundCall \cup JoinCall \cup StatusCall]
  BY HandlerType DEF Begin
<1>. QED  BY <1>1 DEF TypeOK, OneRow, Begin, told

\* Rows of one organisation rewritten one by one.
LEMMA RowsType ==
  ASSUME TypeOK, OneRow, NEW o \in Orgs, NEW S \in SUBSET Subscription,
         \A s, t \in S : s = t, subscription' = [subscription EXCEPT ![o] = S]
  PROVE  /\ subscription' \in [Orgs -> SUBSET Subscription] /\ OneRow'
         /\ \A p \in Orgs : Cardinality(subscription'[p]) <= 1
<1>1. subscription' \in [Orgs -> SUBSET Subscription]
  BY DEF TypeOK
<1>2. \A p \in Orgs : subscription'[p] = IF p = o THEN S ELSE subscription[p]
  BY DEF TypeOK
<1>3. OneRow'
  BY <1>2 DEF OneRow
<1>4. ASSUME NEW p \in Orgs PROVE Cardinality(subscription'[p]) <= 1
  <2>1. \A s, t \in subscription'[p] : s = t
    BY <1>3 DEF OneRow
  <2>. QED  BY <2>1, AtMostOne
<1>. QED  BY <1>1, <1>3, <1>4

LEMMA StateType ==
  ASSUME TypeOK, OneRow, NEW o \in Orgs, NEW state \in States,
         subscription' = [subscription EXCEPT ![o] = {[s EXCEPT !.state = state] : s \in @}]
  PROVE  /\ subscription' \in [Orgs -> SUBSET Subscription] /\ OneRow'
         /\ \A p \in Orgs : Cardinality(subscription'[p]) <= 1
<1>. DEFINE S == {[s EXCEPT !.state = state] : s \in subscription[o]}
<1>1. subscription' = [subscription EXCEPT ![o] = S]
  BY DEF TypeOK
<1>2. S \in SUBSET Subscription
  <2>1. subscription[o] \subseteq Subscription
    BY DEF TypeOK
  <2>2. \A s \in Subscription : [s EXCEPT !.state = state] \in Subscription
    BY DEF Subscription
  <2>. QED  BY <2>1, <2>2
<1>3. \A s, t \in S : s = t
  BY DEF OneRow
<1>. QED  BY <1>1, <1>2, <1>3, RowsType

LEMMA NextTypeOK ==
  ASSUME TypeOK, OneRow, [Next]_vars
  PROVE  TypeOK' /\ OneRow'
<1>1. CASE UNCHANGED vars
  BY <1>1 DEF TypeOK, OneRow, vars, tenants, told
<1>2. CASE NextDay
  BY <1>2, TenancyAssumption DEF NextDay, TypeOK, OneRow, tenants, told
<1>3. ASSUME NEW d \in Dues, Pay(d) PROVE TypeOK' /\ OneRow'
  BY <1>3 DEF Pay, TypeOK, OneRow, tenants, told
<1>4. ASSUME NEW o \in Orgs, Convert(o) PROVE TypeOK' /\ OneRow'
  <2>1. /\ subscription' \in [Orgs -> SUBSET Subscription] /\ OneRow'
        /\ \A p \in Orgs : Cardinality(subscription'[p]) <= 1
    BY <1>4, StateType DEF Convert, ToActive, States
  <2>2. /\ UNCHANGED <<tenants, paid, told, day, together, handler, sweeper, failures>>
        /\ calls' \in Nat
    BY <1>4 DEF Convert, TypeOK
  <2>. QED  BY <2>1, <2>2 DEF TypeOK, tenants, told
<1>5. ASSUME NEW o \in Orgs, NEW s \in Sweepers, SweepReminders(s, o) PROVE TypeOK' /\ OneRow'
  <2>1. [op |-> "reminding", org |-> o, due |-> Remindable(o)] \in SweepStep
    BY DEF SweepStep, Remindable
  <2>2. sweeper' \in [Sweepers -> {Idle} \cup SweepStep \cup SweepEnd]
    BY <1>5, <2>1 DEF SweepReminders, TypeOK
  <2>3. together' \subseteq (Accounts \X Orgs) \cup Orgs
    BY <1>5 DEF SweepReminders, MeetSweep, TypeOK
  <2>4. texts' \in [Dues -> Nat]
    <3>1. PICK dues \in SUBSET Remindable(o) : Text(dues)
      BY <1>5 DEF SweepReminders
    <3>. QED  BY <3>1 DEF Text, TypeOK
  <2>. QED  BY <1>5, <2>2, <2>3, <2>4 DEF SweepReminders, TypeOK, OneRow, tenants
<1>6. ASSUME NEW s \in Sweepers, SweepTrial(s) PROVE TypeOK' /\ OneRow'
  <2>. DEFINE lapsed == \E t \in subscription[sweeper[s].org] : Expired(t)
  <2>1. sweeper[s] \in SweepStep
    BY <1>6, SweepByOp DEF SweepTrial
  <2>2. [op |-> "ending", org |-> sweeper[s].org, due |-> sweeper[s].due, lapsed |-> lapsed]
           \in SweepEnd
    <3>1. lapsed \in BOOLEAN
      OBVIOUS
    <3>. HIDE DEF lapsed
    <3>. QED  BY <2>1, <3>1 DEF SweepStep, SweepEnd
  <2>3. sweeper' = [sweeper EXCEPT ![s] = [op |-> "ending", org |-> sweeper[s].org,
                                           due |-> sweeper[s].due, lapsed |-> lapsed]]
    BY <1>6 DEF SweepTrial
  <2>. HIDE DEF lapsed
  <2>4. sweeper' \in [Sweepers -> {Idle} \cup SweepStep \cup SweepEnd]
    BY <2>2, <2>3 DEF TypeOK
  <2>. QED  BY <1>6, <2>4 DEF SweepTrial, TypeOK, OneRow, tenants, told
<1>7. ASSUME NEW s \in Sweepers, SweepCommit(s) PROVE TypeOK' /\ OneRow'
  <2>1. sweeper[s].org \in Orgs
    BY <1>7, SweepByOp DEF SweepCommit, SweepEnd
  <2>2. /\ subscription' \in [Orgs -> SUBSET Subscription] /\ OneRow'
        /\ \A p \in Orgs : Cardinality(subscription'[p]) <= 1
    <3>1. CASE sweeper[s].lapsed
      BY <1>7, <2>1, <3>1, StateType DEF SweepCommit, States
    <3>2. CASE ~sweeper[s].lapsed
      BY <1>7, <3>2 DEF SweepCommit, TypeOK, OneRow
    <3>. QED  BY <3>1, <3>2
  <2>3. reminders' \in [Dues -> Nat]
    BY <1>7 DEF SweepCommit, TypeOK
  <2>4. sweeper' \in [Sweepers -> {Idle} \cup SweepStep \cup SweepEnd]
    BY <1>7 DEF SweepCommit, TypeOK
  <2>. QED  BY <1>7, <2>2, <2>3, <2>4 DEF SweepCommit, TypeOK, tenants
<1>8. ASSUME NEW s \in Sweepers, SweepFails(s) PROVE TypeOK' /\ OneRow'
  <2>1. sweeper' \in [Sweepers -> {Idle} \cup SweepStep \cup SweepEnd]
    BY <1>8 DEF SweepFails, TypeOK
  <2>2. lost' \in [Orgs -> Nat]
    <3>1. lost' = [lost EXCEPT ![sweeper[s].org] = @ + 1] /\ lost \in [Orgs -> Nat]
      BY <1>8 DEF SweepFails, TypeOK
    <3>2. \A o \in Orgs : lost[o] + 1 \in Nat
      BY <3>1
    <3>3. lost' = [o \in Orgs |-> IF o = sweeper[s].org THEN lost[o] + 1 ELSE lost[o]]
      BY <3>1
    <3>. QED  BY <3>1, <3>2, <3>3
  <2>. QED  BY <1>8, <2>1, <2>2 DEF SweepFails, TypeOK, OneRow, tenants
<1>9. ASSUME NEW h \in Handlers, NEW x \in Accounts, NEW o \in Orgs, NEW token,
             Register(h, x, token, o) \/ Join(h, x, token, o)
      PROVE  TypeOK' /\ OneRow'
  <2>1. /\ [op |-> "provision", account |-> x, org |-> o] \in Calls
        /\ [op |-> "join", account |-> x, org |-> o] \in Calls
    BY DEF Calls, FoundCall, JoinCall
  <2>2. accounts' \subseteq Accounts /\ UNCHANGED <<provisioned, members>> /\ Meet(x, o)
    BY <1>9 DEF Register, Join, TypeOK
  <2>3. \E call \in Calls : Begin(h, call)
    BY <1>9, <2>1 DEF Register, Join
  <2>4. together' \subseteq (Accounts \X Orgs) \cup Orgs
    BY <2>2, MeetType
  <2>. QED  BY <2>2, <2>3, <2>4, BeginType
<1>10. ASSUME NEW h \in Handlers, NEW o \in Orgs, NEW t \in States, StatusRead(h, o, t)
       PROVE  TypeOK' /\ OneRow'
  <2>1. [op |-> "status", org |-> o, to |-> t] \in Calls
    BY DEF Calls, StatusCall
  <2>2. /\ Begin(h, [op |-> "status", org |-> o, to |-> t]) /\ UNCHANGED <<provisioned, members>>
        /\ accounts' \subseteq Accounts /\ together' \subseteq (Accounts \X Orgs) \cup Orgs
    BY <1>10 DEF StatusRead, tenants, TypeOK
  <2>. QED  BY <2>1, <2>2, BeginType
<1>11. ASSUME NEW h \in Handlers, Provision(h) PROVE TypeOK' /\ OneRow'
  <2>1. handler[h] \in FoundCall
    BY <1>11, CallByOp DEF Provision
  <2>2. [handler[h] EXCEPT !.op = "found"] \in Calls /\ handler[h].org \in Orgs
    BY <2>1 DEF Calls, FoundCall
  <2>3. handler' \in [Handlers -> {Idle} \cup FoundCall \cup JoinCall \cup StatusCall]
    BY <1>11, <2>2, HandlerType DEF Provision, Continue
  <2>. QED  BY <1>11, <2>2, <2>3 DEF Provision, Continue, TypeOK, OneRow, told
<1>12. ASSUME NEW h \in Handlers, Found(h) PROVE TypeOK' /\ OneRow'
  <2>1. handler[h].org \in Orgs /\ handler[h].account \in Accounts
    BY <1>12, CallByOp DEF Found, FoundCall
  <2>2. [state |-> "TRIAL", trialEnds |-> day + TrialDays] \in Subscription
    BY TenancyAssumption DEF TypeOK, Subscription, States
  <2>3. /\ subscription' \in [Orgs -> SUBSET Subscription] /\ OneRow'
        /\ \A p \in Orgs : Cardinality(subscription'[p]) <= 1
    BY <1>12, <2>1, <2>2, RowsType DEF Found
  <2>4. members' \in [Orgs -> Seq(Row)]
    <3>1. [account |-> handler[h].account, founder |-> TRUE] \in Row
      BY <2>1 DEF Row
    <3>. QED  BY <1>12, <2>1, <3>1, AppendProperties DEF Found, TypeOK
  <2>5. handler' \in [Handlers -> {Idle} \cup FoundCall \cup JoinCall \cup StatusCall]
    BY <1>12, HandlerType DEF Found, Continue, Calls
  <2>. QED  BY <1>12, <2>3, <2>4, <2>5 DEF Found, Continue, TypeOK, told
<1>13. ASSUME NEW h \in Handlers, GiveUp(h) PROVE TypeOK' /\ OneRow'
  <2>1. handler' \in [Handlers -> {Idle} \cup FoundCall \cup JoinCall \cup StatusCall]
    BY <1>13, HandlerType DEF GiveUp, Calls
  <2>. QED  BY <1>13, <2>1 DEF GiveUp, TypeOK, OneRow, tenants, told
<1>14. ASSUME NEW h \in Handlers, JoinRead(h) PROVE TypeOK' /\ OneRow'
  <2>1. handler[h] \in JoinCall
    BY <1>14, CallByOp DEF JoinRead
  <2>2. [handler[h] EXCEPT !.op = "joining"] \in Calls /\ Idle \in Calls
    BY <2>1 DEF Calls, JoinCall
  <2>3. \E call \in Calls : handler' = [handler EXCEPT ![h] = call]
    BY <1>14, <2>2 DEF JoinRead, Continue
  <2>4. handler' \in [Handlers -> {Idle} \cup FoundCall \cup JoinCall \cup StatusCall]
    BY <2>3, HandlerType
  <2>. QED  BY <1>14, <2>4 DEF JoinRead, Continue, TypeOK, OneRow, tenants, told
<1>15. ASSUME NEW h \in Handlers, JoinCommit(h) PROVE TypeOK' /\ OneRow'
  <2>1. handler[h].org \in Orgs /\ handler[h].account \in Accounts
    BY <1>15, CallByOp DEF JoinCommit, JoinCall
  <2>2. members' \in [Orgs -> Seq(Row)]
    <3>1. [account |-> handler[h].account, founder |-> FALSE] \in Row
      BY <2>1 DEF Row
    <3>. QED  BY <1>15, <2>1, <3>1, AppendProperties DEF JoinCommit, TypeOK
  <2>3. handler' \in [Handlers -> {Idle} \cup FoundCall \cup JoinCall \cup StatusCall]
    BY <1>15, HandlerType DEF JoinCommit, Continue, Calls
  <2>. QED  BY <1>15, <2>2, <2>3 DEF JoinCommit, Continue, TypeOK, OneRow, told
<1>16. ASSUME NEW h \in Handlers, StatusCommit(h) PROVE TypeOK' /\ OneRow'
  <2>1. handler[h].org \in Orgs /\ handler[h].to \in States
    BY <1>16, CallByOp DEF StatusCommit, StatusCall
  <2>2. /\ subscription' \in [Orgs -> SUBSET Subscription] /\ OneRow'
        /\ \A p \in Orgs : Cardinality(subscription'[p]) <= 1
    BY <1>16, <2>1, StateType DEF StatusCommit
  <2>3. handler' \in [Handlers -> {Idle} \cup FoundCall \cup JoinCall \cup StatusCall]
    BY <1>16, HandlerType DEF StatusCommit, Continue, Calls
  <2>. QED  BY <1>16, <2>2, <2>3 DEF StatusCommit, Continue, TypeOK, tenants, told
<1>. QED
  BY <1>1, <1>2, <1>3, <1>4, <1>5, <1>6, <1>7, <1>8, <1>9, <1>10, <1>11, <1>12, <1>13, <1>14,
     <1>15, <1>16 DEF Next

\* Rows, subscriptions, calls and sweeps keep their shapes, and an organisation
\* has at most one subscription row (auth.service.ts, subscription.service.ts).
THEOREM TypeCorrect == Spec => []TypeOK
<1>1. Init => TypeOK /\ OneRow
  BY InitTypeOK
<1>2. TypeOK /\ OneRow /\ [Next]_vars => TypeOK' /\ OneRow'
  BY NextTypeOK
<1>. QED  BY <1>1, <1>2, PTL DEF Spec
-----------------------------------------------------------------------------
(* One membership each. *)

\* The calls that will add a member to an organisation.
Adding(h) == handler[h].op \in {"provision", "found", "join", "joining"}

\* Two calls that add one account to one organisation have met.
AddersMet ==
    \A g, h \in Handlers :
        /\ g # h /\ Adding(g) /\ Adding(h)
        /\ handler[g].account = handler[h].account /\ handler[g].org = handler[h].org
        => <<handler[g].account, handler[g].org>> \in together

\* A call that is past its look at the members adds one who is not there.
NotYetIn ==
    \A h \in Handlers :
        /\ handler[h].op \in {"provision", "found", "joining"}
        /\ MemberOf(handler[h].account, handler[h].org)
        => <<handler[h].account, handler[h].org>> \in together

\* Nobody belongs to an organisation, or joins it, before it is committed.
Founded ==
    /\ \A o \in Orgs : o \notin provisioned => members[o] = <<>>
    /\ \A h \in Handlers :
          handler[h].op \in {"found", "join", "joining"} => handler[h].org \in provisioned

MembersInv == AddersMet /\ NotYetIn /\ Founded /\ OneMembershipEach

LEMMA InitMembersInv == Init => MembersInv
<1>. SUFFICES ASSUME Init PROVE MembersInv
  OBVIOUS
<1>1. \A h \in Handlers : handler[h].op = "idle"
  BY DEF Init, Idle
<1>2. \A o \in Orgs : members[o] = <<>> /\ DOMAIN members[o] = {}
  BY DEF Init
<1>. QED
  BY <1>1, <1>2 DEF MembersInv, AddersMet, NotYetIn, Founded, OneMembershipEach, Adding

\* Nothing is disturbed by a step that adds no member and begins no addition:
\* each handler keeps its call, goes on to a later operation that has no new
\* promise, or is done with it.
LEMMA MembersKept ==
  ASSUME TypeOK, MembersInv, members' = members, provisioned \subseteq provisioned',
         together \subseteq together',
         \A h \in Handlers : handler'[h] = handler[h] \/ ~Adding(h)'
  PROVE  MembersInv'
<1>1. \A h \in Handlers : Adding(h)' => handler'[h] = handler[h] /\ Adding(h)
  BY DEF Adding
<1>2. AddersMet'
  BY <1>1 DEF MembersInv, AddersMet
<1>3. NotYetIn'
  BY <1>1 DEF MembersInv, NotYetIn, MemberOf, Adding
<1>4. Founded'
  BY <1>1 DEF MembersInv, Founded, Adding
<1>5. OneMembershipEach'
  BY DEF MembersInv, OneMembershipEach
<1>. QED  BY <1>2, <1>3, <1>4, <1>5 DEF MembersInv

\* An addition is begun: whoever adds the same one is met.  A founder's
\* organisation is not there yet.
LEMMA MembersBegun ==
  ASSUME TypeOK, MembersInv, NEW h \in Handlers, NEW x \in Accounts, NEW o \in Orgs,
         NEW call, call.account = x, call.org = o,
         \/ call.op = "provision" /\ o \notin provisioned
         \/ call.op = "join" /\ o \in provisioned,
         Begin(h, call), Meet(x, o), UNCHANGED <<provisioned, members>>
  PROVE  MembersInv'
<1>1. \A g \in Handlers : handler'[g] = IF g = h THEN call ELSE handler[g]
  BY DEF Begin, TypeOK
<1>2. together \subseteq together'
  BY DEF Meet
<1>3. ASSUME NEW g \in Handlers, g # h, Adding(g), handler[g].account = x, handler[g].org = o
      PROVE  <<x, o>> \in together'
  <2>1. Joining(g, x, o)
    BY <1>3 DEF Adding, Joining, Idle
  <2>. QED  BY <2>1 DEF Meet
<1>4. AddersMet'
  <2>. SUFFICES ASSUME NEW f \in Handlers, NEW g \in Handlers, f # g, Adding(f)', Adding(g)',
                       handler'[f].account = handler'[g].account,
                       handler'[f].org = handler'[g].org
                PROVE  <<handler'[f].account, handler'[f].org>> \in together'
    BY DEF AddersMet
  <2>1. CASE f # h /\ g # h
    BY <1>1, <1>2, <2>1 DEF MembersInv, AddersMet, Adding
  <2>2. CASE f = h
    BY <1>1, <1>3, <2>2 DEF Adding
  <2>3. CASE g = h
    BY <1>1, <1>3, <2>3 DEF Adding
  <2>. QED  BY <2>1, <2>2, <2>3
<1>5. NotYetIn'
  <2>. SUFFICES ASSUME NEW g \in Handlers, handler'[g].op \in {"provision", "found", "joining"},
                       MemberOf(handler[g].account, handler[g].org)'
                PROVE  <<handler'[g].account, handler'[g].org>> \in together'
    BY DEF NotYetIn
  <2>1. CASE g # h
    BY <1>1, <1>2, <2>1 DEF MembersInv, NotYetIn, MemberOf
  <2>2. CASE g = h
    <3>1. o \notin provisioned
      BY <1>1, <2>2
    <3>2. members[o] = <<>>
      BY <3>1 DEF MembersInv, Founded
    <3>3. \E i \in DOMAIN members[o] : TRUE
      BY <1>1, <2>2 DEF MemberOf
    <3>. QED  BY <3>2, <3>3
  <2>. QED  BY <2>1, <2>2
<1>6. Founded'
  BY <1>1 DEF MembersInv, Founded
<1>7. OneMembershipEach'
  BY <1>2 DEF MembersInv, OneMembershipEach
<1>. QED  BY <1>4, <1>5, <1>6, <1>7 DEF MembersInv

\* A call goes on with the addition it was serving: to what it promises then.
LEMMA MembersContinued ==
  ASSUME TypeOK, MembersInv, NEW h \in Handlers, NEW call, Adding(h),
         call.account = handler[h].account, call.org = handler[h].org,
         call.op \in {"found", "joining"}, call.org \in provisioned',
         handler[h].op = "join" => ~MemberOf(call.account, call.org),
         Continue(h, call), provisioned \subseteq provisioned', members' = members,
         together' = together
  PROVE  MembersInv'
<1>1. \A g \in Handlers : handler'[g] = IF g = h THEN call ELSE handler[g]
  BY DEF Continue, TypeOK
<1>2. AddersMet'
  BY <1>1 DEF MembersInv, AddersMet, Adding
<1>3. NotYetIn'
  BY <1>1 DEF MembersInv, NotYetIn, MemberOf, Adding
<1>4. Founded'
  BY <1>1 DEF MembersInv, Founded
<1>5. OneMembershipEach'
  BY DEF MembersInv, OneMembershipEach
<1>. QED  BY <1>2, <1>3, <1>4, <1>5 DEF MembersInv

\* A member is added by a call that is past its look.
LEMMA MembersAdded ==
  ASSUME TypeOK, MembersInv, NEW h \in Handlers, NEW o \in Orgs, NEW x \in Accounts, NEW row \in Row,
         handler[h].op \in {"found", "joining"}, handler[h].org = o, handler[h].account = x,
         row.account = x, members' = [members EXCEPT ![o] = Append(members[o], row)],
         \A g \in Handlers : handler'[g] = IF g = h THEN Idle ELSE handler[g],
         provisioned' = provisioned, together' = together
  PROVE  MembersInv'
<1>. DEFINE n == Len(members[o]) + 1
<1>1. \A g \in Handlers : handler'[g] = IF g = h THEN Idle ELSE handler[g]
  OBVIOUS
<1>2. \A g \in Handlers : Adding(g)' => g # h /\ handler'[g] = handler[g] /\ Adding(g)
  BY <1>1 DEF Adding, Idle
<1>3. \A p \in Orgs : p # o => members'[p] = members[p]
  BY DEF TypeOK
<1>4. members[o] \in Seq(Row) /\ members'[o] = Append(members[o], row)
  BY DEF TypeOK
<1>5. /\ DOMAIN members[o] = 1..(n - 1) /\ DOMAIN members'[o] = 1..n /\ n \in Nat
      /\ \A i \in DOMAIN members[o] : i # n /\ members'[o][i] = members[o][i]
      /\ members'[o][n] = row
  BY <1>4, AppendProperties, LenProperties
<1>. HIDE DEF n
<1>6. \A i \in DOMAIN members'[o] : i \in DOMAIN members[o] \/ i = n
  BY <1>5
<1>7. ASSUME NEW i \in DOMAIN members[o], members[o][i].account = x
      PROVE  <<x, o>> \in together
  BY <1>7 DEF MembersInv, NotYetIn, MemberOf
<1>8. OneMembershipEach'
  <2>. SUFFICES ASSUME NEW p \in Orgs, NEW i \in DOMAIN members'[p], NEW j \in DOMAIN members'[p],
                       members'[p][i].account = members'[p][j].account, i # j
                PROVE  <<members'[p][i].account, p>> \in together'
    BY DEF OneMembershipEach
  <2>1. CASE p # o
    BY <1>3, <2>1 DEF MembersInv, OneMembershipEach
  <2>2. CASE p = o /\ i \in DOMAIN members[o] /\ j \in DOMAIN members[o]
    BY <1>5, <2>2 DEF MembersInv, OneMembershipEach
  <2>3. CASE p = o /\ i = n /\ j \in DOMAIN members[o]
    BY <1>5, <1>7, <2>3
  <2>4. CASE p = o /\ j = n /\ i \in DOMAIN members[o]
    BY <1>5, <1>7, <2>4
  <2>. QED  BY <1>6, <2>1, <2>2, <2>3, <2>4
<1>9. NotYetIn'
  <2>. SUFFICES ASSUME NEW g \in Handlers, handler'[g].op \in {"provision", "found", "joining"},
                       MemberOf(handler[g].account, handler[g].org)'
                PROVE  <<handler'[g].account, handler'[g].org>> \in together'
    BY DEF NotYetIn
  <2>1. g # h /\ handler'[g] = handler[g] /\ Adding(g)
    BY <1>2 DEF Adding
  <2>2. handler[g].org \in Orgs
    BY <2>1, CallByOp DEF Adding, FoundCall, JoinCall
  <2>3. CASE MemberOf(handler[g].account, handler[g].org)
    BY <2>1, <2>3 DEF MembersInv, NotYetIn
  <2>4. CASE ~MemberOf(handler[g].account, handler[g].org)
    <3>1. handler[g].org = o
      BY <1>3, <2>1, <2>2, <2>4 DEF MemberOf
    <3>2. PICK i \in DOMAIN members'[o] : members'[o][i].account = handler[g].account
      BY <2>1, <3>1 DEF MemberOf
    <3>3. i = n
      BY <1>5, <1>6, <2>4, <3>1, <3>2 DEF MemberOf
    <3>4. handler[g].account = x /\ Adding(h)
      BY <1>5, <3>2, <3>3 DEF Adding
    <3>. QED  BY <2>1, <3>1, <3>4 DEF MembersInv, AddersMet
  <2>. QED  BY <2>3, <2>4
<1>10. AddersMet'
  BY <1>2 DEF MembersInv, AddersMet
<1>11. Founded'
  <2>1. o \in provisioned
    BY DEF MembersInv, Founded
  <2>2. \A g \in Handlers : handler'[g].op \in {"found", "join", "joining"} =>
                               handler'[g].org \in provisioned
    BY <1>1 DEF MembersInv, Founded, Idle
  <2>. QED  BY <1>3, <2>1, <2>2 DEF MembersInv, Founded
<1>. QED  BY <1>8, <1>9, <1>10, <1>11 DEF MembersInv

LEMMA NextMembersInv ==
  ASSUME TypeOK, MembersInv, [Next]_vars
  PROVE  MembersInv'
<1>1. CASE UNCHANGED <<members, provisioned, handler>> /\ together \subseteq together'
  BY <1>1, MembersKept
<1>2. CASE UNCHANGED vars
  BY <1>1, <1>2 DEF vars, tenants
<1>3. ASSUME NEW o \in Orgs, Convert(o) PROVE MembersInv'
  BY <1>1, <1>3 DEF Convert, tenants
<1>4. ASSUME NEW o \in Orgs, NEW s \in Sweepers, SweepReminders(s, o) PROVE MembersInv'
  BY <1>1, <1>4 DEF SweepReminders, MeetSweep, tenants
<1>5. ASSUME NEW s \in Sweepers, SweepTrial(s) \/ SweepCommit(s) \/ SweepFails(s)
      PROVE  MembersInv'
  BY <1>1, <1>5 DEF SweepTrial, SweepCommit, SweepFails, tenants
<1>6. CASE NextDay \/ \E d \in Dues : Pay(d)
  BY <1>1, <1>6 DEF NextDay, Pay, tenants
<1>7. ASSUME NEW h \in Handlers, NEW x \in Accounts, NEW o \in Orgs, NEW token,
             Register(h, x, token, o)
      PROVE  MembersInv'
  <2>1. /\ Begin(h, [op |-> "provision", account |-> x, org |-> o]) /\ Meet(x, o)
        /\ o \notin provisioned /\ UNCHANGED <<provisioned, members>>
    BY <1>7 DEF Register
  <2>. QED  BY <2>1, MembersBegun
<1>8. ASSUME NEW h \in Handlers, NEW x \in Accounts, NEW o \in Orgs, NEW token,
             Join(h, x, token, o)
      PROVE  MembersInv'
  <2>1. /\ Begin(h, [op |-> "join", account |-> x, org |-> o]) /\ Meet(x, o)
        /\ o \in provisioned /\ UNCHANGED <<provisioned, members>>
    BY <1>8 DEF Join
  <2>. QED  BY <2>1, MembersBegun
<1>9. ASSUME NEW h \in Handlers, NEW o \in Orgs, NEW t \in States, StatusRead(h, o, t)
      PROVE  MembersInv'
  <2>1. \A g \in Handlers : handler'[g] = IF g = h THEN [op |-> "status", org |-> o, to |-> t]
                                          ELSE handler[g]
    BY <1>9 DEF StatusRead, Begin, TypeOK
  <2>2. UNCHANGED <<members, provisioned, together>>
    BY <1>9 DEF StatusRead, tenants
  <2>. QED  BY <2>1, <2>2, MembersKept DEF Adding
<1>10. ASSUME NEW h \in Handlers, GiveUp(h) \/ StatusCommit(h) PROVE MembersInv'
  <2>1. \A g \in Handlers : handler'[g] = IF g = h THEN Idle ELSE handler[g]
    BY <1>10 DEF GiveUp, StatusCommit, Continue, TypeOK
  <2>2. UNCHANGED <<members, provisioned>> /\ together \subseteq together'
    BY <1>10 DEF GiveUp, StatusCommit, tenants
  <2>. QED  BY <2>1, <2>2, MembersKept DEF Adding, Idle
<1>11. ASSUME NEW h \in Handlers, Provision(h) PROVE MembersInv'
  <2>1. handler[h] \in FoundCall /\ handler[h].op = "provision"
    BY <1>11, CallByOp DEF Provision
  <2>2. PICK call : call = [handler[h] EXCEPT !.op = "found"]
    OBVIOUS
  <2>3. call.account = handler[h].account /\ call.org = handler[h].org /\ call.op = "found"
    BY <2>1, <2>2 DEF FoundCall
  <2>4. /\ Continue(h, call) /\ provisioned' = provisioned \cup {handler[h].org}
        /\ members' = members /\ together' = together
    BY <1>11, <2>2 DEF Provision
  <2>. QED  BY <2>1, <2>3, <2>4, MembersContinued DEF Adding
<1>12. ASSUME NEW h \in Handlers, JoinRead(h) PROVE MembersInv'
  <2>1. handler[h] \in JoinCall /\ handler[h].op = "join"
    BY <1>12, CallByOp DEF JoinRead
  <2>2. UNCHANGED <<members, provisioned, together>>
    BY <1>12 DEF JoinRead, tenants
  <2>3. CASE MemberOf(handler[h].account, handler[h].org)
    <3>1. \A g \in Handlers : handler'[g] = IF g = h THEN Idle ELSE handler[g]
      BY <1>12, <2>3 DEF JoinRead, AlreadyIn, Continue, TypeOK
    <3>. QED  BY <2>2, <3>1, MembersKept DEF Adding, Idle
  <2>4. CASE ~MemberOf(handler[h].account, handler[h].org)
    <3>1. PICK call : call = [handler[h] EXCEPT !.op = "joining"]
      OBVIOUS
    <3>2. call.account = handler[h].account /\ call.org = handler[h].org /\ call.op = "joining"
      BY <2>1, <3>1 DEF JoinCall
    <3>3. Continue(h, call)
      BY <1>12, <2>4, <3>1 DEF JoinRead, AlreadyIn
    <3>4. handler[h].org \in provisioned
      BY <2>1 DEF MembersInv, Founded
    <3>. QED  BY <2>1, <2>2, <2>4, <3>2, <3>3, <3>4, MembersContinued DEF Adding
  <2>. QED  BY <2>3, <2>4
<1>13. ASSUME NEW h \in Handlers, Found(h) \/ JoinCommit(h) PROVE MembersInv'
  <2>1. handler[h].org \in Orgs /\ handler[h].account \in Accounts
    BY <1>13, CallByOp DEF Found, JoinCommit, FoundCall, JoinCall
  <2>2. PICK o \in Orgs, x \in Accounts : handler[h].org = o /\ handler[h].account = x
    BY <2>1
  <2>3. \A f \in BOOLEAN : [account |-> x, founder |-> f] \in Row
    BY DEF Row
  <2>4. PICK row \in Row :
           row.account = x /\ members' = [members EXCEPT ![o] = Append(members[o], row)]
    BY <1>13, <2>2, <2>3 DEF Found, JoinCommit
  <2>5. /\ handler[h].op \in {"found", "joining"}
        /\ provisioned' = provisioned /\ together' = together
    BY <1>13 DEF Found, JoinCommit
  <2>6. \A g \in Handlers : handler'[g] = IF g = h THEN Idle ELSE handler[g]
    BY <1>13 DEF Found, JoinCommit, Continue, TypeOK
  <2>. QED  BY <2>2, <2>4, <2>5, <2>6, MembersAdded
<1>. QED
  BY <1>2, <1>3, <1>4, <1>5, <1>6, <1>7, <1>8, <1>9, <1>10, <1>11, <1>12, <1>13 DEF Next

\* "This account is already a member of that organisation": no account has two
\* rows in one organisation unless two calls were joining or founding it for
\* that account at once (registerOrganisation, joinOrganisation and their
\* signed-in forms).
THEOREM MembersOnce == Spec => []OneMembershipEach
<1>1. Init => TypeOK /\ OneRow /\ MembersInv
  BY InitTypeOK, InitMembersInv
<1>2. TypeOK /\ OneRow /\ MembersInv /\ [Next]_vars => (TypeOK /\ OneRow /\ MembersInv)'
  BY NextTypeOK, NextMembersInv
<1>3. MembersInv => OneMembershipEach
  BY DEF MembersInv
<1>. QED  BY <1>1, <1>2, <1>3, PTL DEF Spec
-----------------------------------------------------------------------------
(* One reminder each. *)

\* Two sweeps in one organisation have met.
SweepsMet ==
    \A s, t \in Sweepers :
        s # t /\ sweeper[s] # Idle /\ sweeper[t] # Idle /\ sweeper[s].org = sweeper[t].org =>
            sweeper[s].org \in together

\* What a sweep is about to remind of is its organisation's, and nobody has been
\* told of it since.
StillUntold ==
    \A s \in Sweepers : sweeper[s] # Idle =>
        \A d \in sweeper[s].due : /\ Owes[d] = sweeper[s].org
                                  /\ reminders[d] = 0 \/ Owes[d] \in together

\* A sweep is about to write the reminder of d.
Pending(d) == \E s \in Sweepers : sweeper[s] # Idle /\ d \in sweeper[s].due

\* A text message goes with a reminder that was written, with one that is about
\* to be, or with one that was rolled back.
TextsExplained ==
    \A d \in Dues : Owes[d] \notin together =>
        texts[d] <= lost[Owes[d]] + IF reminders[d] > 0 \/ Pending(d) THEN 1 ELSE 0

RemindersInv ==
    /\ SweepsMet /\ StillUntold /\ TextsExplained
    /\ \A d \in Dues : Owes[d] \notin together => reminders[d] <= 1

LEMMA Reminded == TypeOK /\ RemindersInv => RemindedOnce
<1>. SUFFICES ASSUME TypeOK, RemindersInv, NEW d \in Dues, Owes[d] \notin together
              PROVE  reminders[d] <= 1 /\ texts[d] <= 1 + lost[Owes[d]]
  BY DEF RemindedOnce
<1>1. texts[d] \in Nat /\ lost[Owes[d]] \in Nat
  BY TenancyAssumption DEF TypeOK
<1>. QED  BY <1>1 DEF RemindersInv, TextsExplained

LEMMA InitRemindersInv == Init => RemindersInv
<1>. SUFFICES ASSUME Init PROVE RemindersInv
  OBVIOUS
<1>1. SweepsMet /\ StillUntold
  BY DEF Init, SweepsMet, StillUntold
<1>2. \A d \in Dues : reminders[d] = 0 /\ texts[d] = 0 /\ lost[Owes[d]] = 0
  BY TenancyAssumption DEF Init
<1>. QED  BY <1>1, <1>2 DEF RemindersInv, TextsExplained

\* Nothing is disturbed by a step after which every sweep has still to write
\* what it had.
LEMMA RemindersKept ==
  ASSUME RemindersInv, UNCHANGED told, together \subseteq together',
         \A s \in Sweepers : IF sweeper[s] = Idle THEN sweeper'[s] = Idle
                             ELSE /\ sweeper'[s] # Idle
                                  /\ sweeper'[s].org = sweeper[s].org
                                  /\ sweeper'[s].due = sweeper[s].due
  PROVE  RemindersInv'
<1>1. SweepsMet' /\ StillUntold'
  BY DEF RemindersInv, SweepsMet, StillUntold, told
<1>2. \A d \in Dues : Pending(d)' <=> Pending(d)
  BY DEF Pending
<1>3. TextsExplained'
  BY <1>2 DEF RemindersInv, TextsExplained, told
<1>. QED  BY <1>1, <1>3 DEF RemindersInv, told

LEMMA NextRemindersInv ==
  ASSUME TypeOK, RemindersInv, [Next]_vars
  PROVE  RemindersInv'
<1>1. CASE UNCHANGED <<told, sweeper>> /\ together \subseteq together'
  BY <1>1, RemindersKept
<1>2. ASSUME NEW o \in Orgs, NEW s \in Sweepers, SweepReminders(s, o) PROVE RemindersInv'
  <2>1. \A t \in Sweepers : sweeper'[t] = IF t = s THEN [op |-> "reminding", org |-> o,
                                                         due |-> Remindable(o)]
                                          ELSE sweeper[t]
    BY <1>2 DEF SweepReminders, TypeOK
  <2>2. sweeper[s] = Idle /\ reminders' = reminders /\ MeetSweep(o)
    BY <1>2 DEF SweepReminders
  <2>3. together \subseteq together'
    BY <2>2 DEF MeetSweep
  <2>4. ASSUME NEW t \in Sweepers, t # s, sweeper[t] # Idle, sweeper[t].org = o
        PROVE  o \in together'
    BY <2>2, <2>4 DEF MeetSweep, Sweeping
  <2>5. SweepsMet'
    <3>. SUFFICES ASSUME NEW t \in Sweepers, NEW u \in Sweepers, t # u,
                         sweeper'[t] # Idle, sweeper'[u] # Idle, sweeper'[t].org = sweeper'[u].org
                  PROVE  sweeper'[t].org \in together'
      BY DEF SweepsMet
    <3>1. CASE t # s /\ u # s
      BY <2>1, <2>3, <3>1 DEF RemindersInv, SweepsMet
    <3>2. CASE t = s
      BY <2>1, <2>4, <3>2
    <3>3. CASE u = s
      BY <2>1, <2>4, <3>3
    <3>. QED  BY <3>1, <3>2, <3>3
  <2>6. StillUntold'
    <3>. SUFFICES ASSUME NEW t \in Sweepers, sweeper'[t] # Idle, NEW d \in sweeper'[t].due
                  PROVE  /\ Owes[d] = sweeper'[t].org
                         /\ reminders[d] = 0 \/ Owes[d] \in together'
      BY <2>2 DEF StillUntold
    <3>1. CASE t # s
      BY <2>1, <2>3, <3>1 DEF RemindersInv, StillUntold
    <3>2. CASE t = s
      <4>1. d \in Remindable(o) /\ sweeper'[t].org = o
        BY <2>1, <3>2
      <4>. QED  BY <4>1 DEF Remindable, NotReminded
    <3>. QED  BY <3>1, <3>2
  <2>7. TextsExplained'
    <3>. SUFFICES ASSUME NEW d \in Dues, Owes[d] \notin together'
                  PROVE  texts'[d] <= lost'[Owes[d]]
                                      + IF reminders'[d] > 0 \/ Pending(d)' THEN 1 ELSE 0
      BY DEF TextsExplained
    <3>1. PICK dues \in SUBSET Remindable(o) : Text(dues)
      BY <1>2 DEF SweepReminders
    <3>2. /\ texts[d] \in Nat /\ lost[Owes[d]] \in Nat /\ Owes[d] \in Orgs
          /\ lost' = lost /\ Owes[d] \notin together
      BY <1>2, <2>3, TenancyAssumption DEF TypeOK, SweepReminders
    <3>3. texts[d] <= lost[Owes[d]] + IF reminders[d] > 0 \/ Pending(d) THEN 1 ELSE 0
      BY <3>2 DEF RemindersInv, TextsExplained
    <3>4. texts'[d] = IF d \in dues THEN texts[d] + 1 ELSE texts[d]
      BY <3>1 DEF Text
    <3>5. CASE d \in dues
      <4>1. d \in Remindable(o)
        BY <3>1, <3>5
      <4>2. reminders[d] = 0 /\ Owes[d] = o
        BY <4>1 DEF Remindable, NotReminded
      <4>3. sweeper'[s] # Idle /\ d \in sweeper'[s].due
        BY <2>1, <4>1 DEF Idle
      <4>4. Pending(d)'
        BY <4>3 DEF Pending
      <4>5. ASSUME NEW t \in Sweepers, sweeper[t] # Idle, d \in sweeper[t].due PROVE FALSE
        <5>1. t # s /\ sweeper[t].org = o
          BY <2>2, <4>2, <4>5 DEF RemindersInv, StillUntold
        <5>. QED  BY <2>4, <4>2, <4>5, <5>1
      <4>6. ~Pending(d)
        BY <4>5 DEF Pending
      <4>. QED  BY <3>2, <3>3, <3>4, <3>5, <4>2, <4>4, <4>6
    <3>6. CASE d \notin dues
      <4>1. Pending(d) => Pending(d)'
        <5>. SUFFICES ASSUME NEW t \in Sweepers, sweeper[t] # Idle, d \in sweeper[t].due
                      PROVE  Pending(d)'
          BY DEF Pending
        <5>1. t # s
          BY <2>2
        <5>. QED  BY <2>1, <5>1 DEF Pending
      <4>. QED  BY <2>2, <3>2, <3>3, <3>4, <3>6, <4>1
    <3>. QED  BY <3>5, <3>6
  <2>. QED  BY <2>2, <2>3, <2>5, <2>6, <2>7 DEF RemindersInv
<1>3. ASSUME NEW s \in Sweepers, SweepTrial(s) PROVE RemindersInv'
  <2>1. sweeper[s] # Idle /\ UNCHANGED <<told, together>>
    BY <1>3 DEF SweepTrial, Idle
  <2>. DEFINE next == [op |-> "ending", org |-> sweeper[s].org, due |-> sweeper[s].due,
                       lapsed |-> \E t \in subscription[sweeper[s].org] : Expired(t)]
  <2>2. /\ sweeper' = [sweeper EXCEPT ![s] = next] /\ next # Idle
        /\ next.org = sweeper[s].org /\ next.due = sweeper[s].due
    BY <1>3 DEF SweepTrial, Idle
  <2>. HIDE DEF next
  <2>3. \A t \in Sweepers : IF sweeper[t] = Idle THEN sweeper'[t] = Idle
                             ELSE /\ sweeper'[t] # Idle
                                  /\ sweeper'[t].org = sweeper[t].org
                                  /\ sweeper'[t].due = sweeper[t].due
    BY <2>1, <2>2 DEF TypeOK
  <2>. QED  BY <2>1, <2>3, RemindersKept
<1>4. ASSUME NEW s \in Sweepers, SweepCommit(s) PROVE RemindersInv'
  <2>1. /\ sweeper[s] # Idle /\ together' = together
        /\ \A t \in Sweepers : sweeper'[t] = IF t = s THEN Idle ELSE sweeper[t]
    BY <1>4 DEF SweepCommit, TypeOK, Idle
  <2>2. \A d \in Dues : reminders'[d] = IF d \in sweeper[s].due THEN reminders[d] + 1
                                        ELSE reminders[d]
    BY <1>4 DEF SweepCommit
  <2>3. SweepsMet'
    BY <2>1 DEF RemindersInv, SweepsMet
  <2>4. StillUntold'
    <3>. SUFFICES ASSUME NEW t \in Sweepers, sweeper'[t] # Idle, NEW d \in sweeper'[t].due
                  PROVE  /\ Owes[d] = sweeper'[t].org
                         /\ reminders'[d] = 0 \/ Owes[d] \in together'
      BY DEF StillUntold
    <3>1. t # s /\ sweeper'[t] = sweeper[t] /\ sweeper[t] # Idle
      BY <2>1
    <3>2. d \in Dues /\ Owes[d] = sweeper[t].org /\ (reminders[d] = 0 \/ Owes[d] \in together)
      BY <3>1, SweepByOp DEF RemindersInv, StillUntold
    <3>3. CASE d \in sweeper[s].due
      <4>1. Owes[d] = sweeper[s].org
        BY <2>1, <3>3 DEF RemindersInv, StillUntold
      <4>. QED  BY <2>1, <3>1, <3>2, <4>1 DEF RemindersInv, SweepsMet
    <3>4. CASE d \notin sweeper[s].due
      BY <2>1, <2>2, <3>1, <3>2, <3>4
    <3>. QED  BY <3>3, <3>4
  <2>5. ASSUME NEW d \in Dues, Owes[d] \notin together'
        PROVE  /\ reminders'[d] <= 1
               /\ texts'[d] <= lost'[Owes[d]]
                               + IF reminders'[d] > 0 \/ Pending(d)' THEN 1 ELSE 0
    <3>1. /\ d \in sweeper[s].due => reminders[d] = 0
          /\ reminders[d] \in Nat /\ reminders[d] <= 1 /\ Owes[d] \notin together
      BY <2>1, <2>5 DEF RemindersInv, StillUntold, TypeOK
    <3>2. /\ texts[d] \in Nat /\ lost[Owes[d]] \in Nat /\ texts' = texts /\ lost' = lost
      BY <1>4, TenancyAssumption DEF SweepCommit, TypeOK
    <3>3. texts[d] <= lost[Owes[d]] + IF reminders[d] > 0 \/ Pending(d) THEN 1 ELSE 0
      BY <3>1 DEF RemindersInv, TextsExplained
    <3>4. CASE d \in sweeper[s].due
      BY <2>2, <3>1, <3>2, <3>3, <3>4
    <3>5. CASE d \notin sweeper[s].due
      <4>1. Pending(d) => Pending(d)'
        BY <2>1, <3>5 DEF Pending
      <4>. QED  BY <2>2, <3>1, <3>2, <3>3, <3>5, <4>1
    <3>. QED  BY <3>4, <3>5
  <2>. QED  BY <2>3, <2>4, <2>5 DEF RemindersInv, TextsExplained
<1>5. ASSUME NEW s \in Sweepers, SweepFails(s) PROVE RemindersInv'
  <2>1. /\ \A t \in Sweepers : sweeper'[t] = IF t = s THEN Idle ELSE sweeper[t]
        /\ sweeper[s] # Idle /\ UNCHANGED <<reminders, texts, together>>
    BY <1>5 DEF SweepFails, TypeOK
  <2>2. SweepsMet' /\ StillUntold'
    BY <2>1 DEF RemindersInv, SweepsMet, StillUntold
  <2>3. ASSUME NEW d \in Dues, Owes[d] \notin together
        PROVE  texts[d] <= lost'[Owes[d]] + IF reminders[d] > 0 \/ Pending(d)' THEN 1 ELSE 0
    <3>1. texts[d] \in Nat /\ lost \in [Orgs -> Nat] /\ Owes[d] \in Orgs
      BY TenancyAssumption DEF TypeOK
    <3>2. texts[d] <= lost[Owes[d]] + IF reminders[d] > 0 \/ Pending(d) THEN 1 ELSE 0
      BY <2>3 DEF RemindersInv, TextsExplained
    <3>3. lost' = [lost EXCEPT ![sweeper[s].org] = @ + 1]
      BY <1>5 DEF SweepFails
    <3>4. CASE sweeper[s].org = Owes[d]
      BY <3>1, <3>2, <3>3, <3>4
    <3>5. CASE sweeper[s].org # Owes[d]
      <4>1. d \notin sweeper[s].due
        BY <2>1, <3>5 DEF RemindersInv, StillUntold
      <4>2. Pending(d) => Pending(d)'
        BY <2>1, <4>1 DEF Pending
      <4>. QED  BY <3>1, <3>2, <3>3, <3>5, <4>2
    <3>. QED  BY <3>4, <3>5
  <2>. QED  BY <2>1, <2>2, <2>3 DEF RemindersInv, TextsExplained
<1>6. CASE NextDay \/ (\E d \in Dues : Pay(d)) \/ (\E o \in Orgs : Convert(o)) \/ UNCHANGED vars
  BY <1>1, <1>6 DEF NextDay, Pay, Convert, vars
<1>7. ASSUME NEW h \in Handlers, NEW x \in Accounts, NEW o \in Orgs, NEW token,
             Register(h, x, token, o) \/ Join(h, x, token, o)
      PROVE  RemindersInv'
  BY <1>1, <1>7 DEF Register, Join, Begin, Meet
<1>8. ASSUME NEW h \in Handlers, NEW o \in Orgs, NEW t \in States, StatusRead(h, o, t)
      PROVE  RemindersInv'
  BY <1>1, <1>8 DEF StatusRead, Begin
<1>9. ASSUME NEW h \in Handlers,
             \/ Provision(h) \/ Found(h) \/ GiveUp(h)
             \/ JoinRead(h) \/ JoinCommit(h) \/ StatusCommit(h)
      PROVE  RemindersInv'
  BY <1>1, <1>9 DEF Provision, Found, GiveUp, JoinRead, JoinCommit, StatusCommit, Continue
<1>. QED
  BY <1>2, <1>3, <1>4, <1>5, <1>6, <1>7, <1>8, <1>9 DEF Next

\* "Already reminded about obligation X should never fire twice": unless two
\* sweeps were in its organisation at once, a due has one reminder, and one text
\* message beside one for each sweep of the organisation that was rolled back
\* (NotificationSchedulerService.sendDueReminders, NotificationService).
THEOREM ToldOnce == Spec => []RemindedOnce
<1>1. Init => TypeOK /\ OneRow /\ RemindersInv
  BY InitTypeOK, InitRemindersInv
<1>2. TypeOK /\ OneRow /\ RemindersInv /\ [Next]_vars => (TypeOK /\ OneRow /\ RemindersInv)'
  BY NextTypeOK, NextRemindersInv
<1>. QED  BY <1>1, <1>2, Reminded, PTL DEF Spec
=============================================================================
