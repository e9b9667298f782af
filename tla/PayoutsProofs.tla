--------------------------- MODULE PayoutsProofs ----------------------------
(***************************************************************************)
(* Proofs about Payouts, for every value of its constants.                 *)
(*                                                                         *)
(* TypeOK and ApprovalInv are inductive for any calls at once.  The parts  *)
(* after them assume SerialHooks, that the webhooks of one organisation    *)
(* are served one at a time.  The code takes no lock in                    *)
(* handleTransferWebhook: without that assumption payouts do not settle as *)
(* Settlement says, as two concurrent deliveries of one success report     *)
(* show.                                                                   *)
(*                                                                         *)
(* Under the same assumption the daily and the monthly cap hold at every   *)
(* insert, whatever approvals, recoveries and webhooks run beside it: the  *)
(* request that is checked is the only one being made (RoomKept), and no   *)
(* other step makes the live total larger.  Totals are folds over a set:   *)
(* the part on sums shows how they change when one element does.           *)
(***************************************************************************)
EXTENDS Payouts, FiniteSetTheorems, SequenceTheorems, WellFoundedInduction, TLAPS

Calls == {Idle} \cup CreateCall \cup DecideCall \cup SettleCall \cup HookCall

-----------------------------------------------------------------------------
(* Type correctness. *)

LEMMA InitTypeOK == Init => TypeOK
  BY PayoutsAssumption, EmptySeq DEF Init, TypeOK, Statuses

LEMMA ConfigTypeOK ==
  ASSUME TypeOK,
         \/ \E p \in Recipients : CreatePayoutRecipient(p)
         \/ \E p \in Policies : UpdateFundControlPolicy(p)
         \/ NextDay
  PROVE  TypeOK'
<1>1. ASSUME NEW p \in Recipients, CreatePayoutRecipient(p) PROVE TypeOK'
  BY <1>1 DEF TypeOK, CreatePayoutRecipient, requestVars, ledgerVars, providerVars
<1>2. ASSUME NEW p \in Policies, UpdateFundControlPolicy(p) PROVE TypeOK'
  BY <1>2 DEF TypeOK, UpdateFundControlPolicy, requestVars, ledgerVars, providerVars
<1>3. CASE NextDay
  <2>1. day' \in 0..MaxDay
    BY <1>3, PayoutsAssumption DEF TypeOK, NextDay
  <2>. QED
    BY <1>3, <2>1 DEF TypeOK, NextDay, requestVars, ledgerVars, providerVars
<1>. QED  BY <1>1, <1>2, <1>3

LEMMA CreateTypeOK ==
  ASSUME TypeOK, NEW h \in Handlers,
         \/ \E o \in Officers, a \in Amounts, p \in Recipients : CreateCheck(h, o, a, p)
         \/ \E r \in Requests : CreateInsert(h, r)
  PROVE  TypeOK'
<1>1. ASSUME NEW o \in Officers, NEW a \in Amounts, NEW p \in Recipients,
             CreateCheck(h, o, a, p)
      PROVE  TypeOK'
  <2>1. [op |-> "create", amount |-> a, by |-> o, to |-> p,
         daily |-> policy.daily, monthly |-> policy.monthly] \in CreateCall
    BY PayoutsAssumption DEF TypeOK, CreateCall
  <2>2. handler' \in [Handlers -> Calls]
    BY <1>1, <2>1 DEF CreateCheck, Begin, TypeOK, Calls
  <2>. QED
    BY <1>1, <2>2 DEF CreateCheck, TypeOK, Calls, requestVars, ledgerVars, providerVars, configVars
<1>2. ASSUME NEW r \in Requests, CreateInsert(h, r) PROVE TypeOK'
  <2>1. handler[h] \in CreateCall
    BY <1>2 DEF CreateInsert, TypeOK, Idle, CreateCall, DecideCall, SettleCall, HookCall
  <2>2. [amount |-> handler[h].amount, by |-> handler[h].by,
         to |-> handler[h].to, on |-> day] \in Terms
    BY <2>1 DEF CreateCall, Terms, TypeOK
  <2>3. terms' \in [Requests -> Terms \cup {NoTerms}]
    BY <1>2, <2>2 DEF CreateInsert, TypeOK
  <2>4. status' \in [Requests -> Statuses]
    BY <1>2 DEF CreateInsert, TypeOK, Statuses
  <2>5. handler' \in [Handlers -> Calls]
    BY <1>2 DEF CreateInsert, End, TypeOK, Calls
  <2>. QED
    BY <1>2, <2>3, <2>4, <2>5
    DEF CreateInsert, TypeOK, Calls, ledgerVars, providerVars, configVars
<1>. QED  BY <1>1, <1>2

\* A handler that decides or settles is working on a request for an officer.
LEMMA CallTypes ==
  ASSUME TypeOK, NEW h \in Handlers
  PROVE  /\ handler[h].op = "create" => handler[h] \in CreateCall
         /\ handler[h].op = "decide" => handler[h] \in DecideCall
         /\ handler[h].op = "settle" => handler[h] \in SettleCall
         /\ handler[h].op = "hook" => handler[h] \in HookCall
         /\ handler[h].op \in {"idle", "create", "decide", "settle", "hook"}
  BY DEF TypeOK, Idle, CreateCall, DecideCall, SettleCall, HookCall

LEMMA ApproveTypeOK ==
  ASSUME TypeOK, NEW h \in Handlers,
         \/ \E o \in Officers, r \in Requests : ApproveLock(h, o, r)
         \/ ApproveReject(h)
         \/ ApproveWait(h)
         \/ ApproveCallProvider(h)
         \/ ApproveSettle(h)
  PROVE  TypeOK'
<1>1. ASSUME NEW o \in Officers, NEW r \in Requests, ApproveLock(h, o, r)
      PROVE  TypeOK'
  <2>1. [op |-> "decide", req |-> r, by |-> o, seen |-> approvals[r]] \in DecideCall
    BY DEF TypeOK, DecideCall
  <2>2. handler' \in [Handlers -> Calls]
    BY <1>1, <2>1 DEF ApproveLock, Begin, TypeOK, Calls
  <2>. QED
    BY <1>1, <2>2 DEF ApproveLock, TypeOK, Calls, requestVars, ledgerVars, providerVars, configVars
<1>2. CASE ApproveReject(h)
  <2>1. handler[h].req \in Requests /\ handler[h].by \in Officers
    BY <1>2, CallTypes DEF ApproveReject, DecideCall
  <2>2. rejections' \in [Requests -> Seq(Officers)]
    BY <1>2, <2>1 DEF ApproveReject, TypeOK
  <2>3. handler' \in [Handlers -> Calls]
    BY <1>2 DEF ApproveReject, End, TypeOK, Calls
  <2>. QED
    BY <1>2, <2>1, <2>2, <2>3
    DEF ApproveReject, TypeOK, Calls, Statuses, ledgerVars, providerVars, configVars
<1>3. CASE ApproveWait(h)
  <2>1. handler[h].req \in Requests /\ handler[h].by \in Officers
    BY <1>3, CallTypes DEF ApproveWait, DecideCall
  <2>2. approvals' \in [Requests -> Seq(Officers)]
    BY <1>3, <2>1 DEF ApproveWait, TypeOK
  <2>3. handler' \in [Handlers -> Calls]
    BY <1>3 DEF ApproveWait, End, TypeOK, Calls
  <2>. QED
    BY <1>3, <2>2, <2>3
    DEF ApproveWait, TypeOK, Calls, ledgerVars, providerVars, configVars
<1>4. CASE ApproveCallProvider(h)
  <2>1. handler[h].req \in Requests /\ handler[h].by \in Officers
    BY <1>4, CallTypes DEF ApproveCallProvider, DecideCall
  <2>2. PICK reached, answered \in BOOLEAN :
          /\ transfer' = IF reached THEN [transfer EXCEPT ![handler[h].req] = "live"]
                                    ELSE transfer
          /\ handler' = [handler EXCEPT ![h] =
                           [op |-> "settle", req |-> handler[h].req, by |-> handler[h].by,
                            under |-> policy, accepted |-> answered]]
    BY <1>4 DEF ApproveCallProvider
  <2>3. policy \in Policies
    BY DEF TypeOK
  <2>4. [op |-> "settle", req |-> handler[h].req, by |-> handler[h].by,
         under |-> policy, accepted |-> answered] \in SettleCall
    BY <2>1, <2>3 DEF SettleCall
  <2>5. handler' \in [Handlers -> Calls]
    BY <2>2, <2>4 DEF TypeOK, Calls
  <2>6. transfer' \in [Requests -> {"none", "live"}]
    BY <2>1, <2>2 DEF TypeOK
  <2>. QED
    BY <1>4, <2>5, <2>6
    DEF ApproveCallProvider, TypeOK, Calls, requestVars, ledgerVars, configVars
<1>5. CASE ApproveSettle(h)
  <2>1. /\ handler[h].req \in Requests /\ handler[h].by \in Officers
        /\ handler[h].under \in Policies
    BY <1>5, CallTypes DEF ApproveSettle, SettleCall
  <2>2. approvals' \in [Requests -> Seq(Officers)]
    BY <1>5, <2>1 DEF ApproveSettle, TypeOK
  <2>3. releasedUnder' \in [Requests -> Policies]
    BY <1>5, <2>1 DEF ApproveSettle, TypeOK
  <2>4. handler' \in [Handlers -> Calls]
    BY <1>5 DEF ApproveSettle, End, TypeOK, Calls
  <2>5. status' \in [Requests -> Statuses] /\ referenced' \in [Requests -> BOOLEAN]
    BY <1>5, <2>1 DEF ApproveSettle, TypeOK, Statuses
  <2>6. exceptions' \subseteq Requests \X Reasons
    BY <1>5, <2>1 DEF ApproveSettle, TypeOK, Reasons
  <2>. QED
    BY <1>5, <2>2, <2>3, <2>4, <2>5, <2>6 DEF ApproveSettle, TypeOK, Calls, providerVars, configVars
<1>. QED  BY <1>1, <1>2, <1>3, <1>4, <1>5

LEMMA ProviderTypeOK ==
  ASSUME TypeOK, NEW r \in Requests, NEW s \in Outcomes,
         ProviderReport(r, s) \/ IgnoreEvent(r, s)
  PROVE  TypeOK'
  BY DEF ProviderReport, IgnoreEvent, TypeOK, requestVars, ledgerVars, configVars

LEMMA WebhookReadTypeOK ==
  ASSUME TypeOK, NEW h \in Handlers, NEW r \in Requests, NEW s \in Outcomes,
         WebhookRead(h, r, s)
  PROVE  TypeOK'
<1>. DEFINE found == IF referenced[r] THEN status[r] ELSE "absent"
<1>1. found \in Statuses
  BY DEF TypeOK, Statuses
<1>2. handler' \in [Handlers -> Calls]
  <2>1. [op |-> "hook", req |-> r, outcome |-> s, found |-> found] \in HookCall
    BY <1>1 DEF HookCall
  <2>. QED
    BY <2>1 DEF WebhookRead, Begin, TypeOK, Calls
<1>. QED
  BY <1>2 DEF WebhookRead, TypeOK, Calls, requestVars, ledgerVars, providerVars, configVars

LEMMA WebhookCommitTypeOK ==
  ASSUME TypeOK, NEW h \in Handlers, WebhookCommit(h)
  PROVE  TypeOK'
<1>. DEFINE r == handler[h].req
            s == handler[h].outcome
            found == handler[h].found
<1>1. r \in Requests /\ s \in Outcomes /\ found \in Statuses
  BY CallTypes DEF WebhookCommit, HookCall
<1>2. terms[r].amount \in Int
  <2>1. terms[r] \in Terms \/ terms[r] = NoTerms
    BY <1>1 DEF TypeOK
  <2>2. Amounts \subseteq Int
    BY PayoutsAssumption
  <2>3. CASE terms[r] \in Terms
    BY <2>2, <2>3 DEF Terms
  <2>4. CASE terms[r] = NoTerms
    BY <2>4 DEF NoTerms
  <2>. QED  BY <2>1, <2>3, <2>4
<1>3. /\ status' \in [Requests -> Statuses]
      /\ posted' \in [Requests -> Nat]
      /\ cash' \in Int
      /\ exceptions' \subseteq Requests \X Reasons
  <2>1. CASE HookUnmatched(r, s, found)
    BY <1>1, <2>1 DEF HookUnmatched, Raise, Reasons, TypeOK
  <2>2. CASE HookAlreadyProcessed(r, s, found)
    BY <1>1, <2>2 DEF HookAlreadyProcessed, Raise, Reasons, TypeOK
  <2>3. CASE HookFailed(r, s, found)
    BY <1>1, <2>3 DEF HookFailed, Raise, Reasons, Statuses, TypeOK
  <2>4. CASE HookSucceeded(r, s, found)
    <3>1. status' \in [Requests -> Statuses] /\ exceptions' \subseteq Requests \X Reasons
      BY <1>1, <2>4 DEF HookSucceeded, Statuses, TypeOK
    <3>2. posted' \in [Requests -> Nat]
      BY <1>1, <2>4 DEF HookSucceeded, TypeOK
    <3>3. cash' \in Int
      BY <1>2, <2>4 DEF HookSucceeded, TypeOK
    <3>. QED  BY <3>1, <3>2, <3>3
  <2>. QED  BY <2>1, <2>2, <2>3, <2>4 DEF WebhookCommit
<1>4. handler' \in [Handlers -> Calls]
  BY DEF WebhookCommit, End, TypeOK, Calls
<1>5. handled' \subseteq Requests \X Outcomes
  BY <1>1 DEF WebhookCommit, TypeOK
<1>. QED
  BY <1>3, <1>4, <1>5 DEF WebhookCommit, TypeOK, Calls, configVars

LEMMA AbortTypeOK ==
  ASSUME TypeOK, NEW h \in Handlers, Abort(h)
  PROVE  TypeOK'
<1>1. handler' \in [Handlers -> Calls]
  BY DEF Abort, End, TypeOK, Calls
<1>2. aborts' \in 0..MaxAborts
  BY PayoutsAssumption DEF Abort, TypeOK
<1>. QED
  BY <1>1, <1>2 DEF Abort, TypeOK, Calls, requestVars, ledgerVars, providerVars

LEMMA NextTypeOK == TypeOK /\ [Next]_vars => TypeOK'
<1>. SUFFICES ASSUME TypeOK, [Next]_vars PROVE TypeOK'
  OBVIOUS
<1>1. CASE UNCHANGED vars
  BY <1>1 DEF vars, requestVars, ledgerVars, providerVars, configVars, TypeOK
<1>2. CASE Next
  BY <1>2, ConfigTypeOK, CreateTypeOK, ApproveTypeOK, ProviderTypeOK,
     WebhookReadTypeOK, WebhookCommitTypeOK, AbortTypeOK DEF Next
<1>. QED  BY <1>1, <1>2

\* Every variable keeps its type: the rows, the ledger, the provider's view and
\* what each handler of a service call remembers between its reads and commit.
THEOREM TypeCorrect == Spec => []TypeOK
  BY InitTypeOK, NextTypeOK, PTL DEF Spec
-----------------------------------------------------------------------------
(* Segregation of duties.  What makes the invariant inductive is the row lock: *)
(* a handler that is deciding a request is the only one, and what it read of   *)
(* the request still holds when it commits.                                    *)

Deciding(h) == handler[h].op \in {"decide", "settle"}

\* FOR UPDATE: at most one handler decides a request.
RowExclusive ==
    \A g, h \in Handlers :
        Deciding(g) /\ Deciding(h) /\ handler[g].req = handler[h].req => g = h

\* What a deciding handler read of its request is still so.
SnapshotHolds ==
    \A h \in Handlers : Deciding(h) =>
        LET r == handler[h].req IN
        /\ status[r] = "PENDING"
        /\ handler[h].by # terms[r].by
        /\ handler[h].by \notin Deciders(r)
        /\ handler[h].op = "decide" => handler[h].seen = approvals[r]
        /\ handler[h].op = "settle" =>
              RequiredApprovals(handler[h].under, terms[r].amount) <= Len(approvals[r]) + 1

\* A webhook that found a request in transfer works on one that was released.
HookHolds ==
    \A h \in Handlers :
        handler[h].op = "hook" /\ handler[h].found = "TRANSFER_PENDING" =>
            status[handler[h].req] \in Released

\* The decision rows of a request, by the stage it is in.
DecisionRows ==
    \A r \in Requests :
        /\ status[r] = "absent" => approvals[r] = <<>>
        /\ status[r] # "REJECTED" => rejections[r] = <<>>
        /\ IsFiniteSet(OfficersIn(approvals[r]))
        /\ Cardinality(OfficersIn(approvals[r])) = Len(approvals[r])

ApprovalInv ==
    /\ TypeOK
    /\ RowExclusive
    /\ SnapshotHolds
    /\ HookHolds
    /\ DecisionRows
    /\ SegregationOfDuties
    /\ EnoughApprovers

LEMMA AppendOfficer ==
  ASSUME NEW rows \in Seq(Officers), NEW o \in Officers
  PROVE  /\ OfficersIn(Append(rows, o)) = OfficersIn(rows) \cup {o}
         /\ Len(Append(rows, o)) = Len(rows) + 1
<1>. DEFINE after == Append(rows, o)
<1>1. /\ Len(rows) \in Nat
      /\ Len(after) = Len(rows) + 1
      /\ \A i \in 1..Len(rows) : after[i] = rows[i]
      /\ after[Len(rows) + 1] = o
  BY AppendProperties, LenProperties
<1>. HIDE DEF after
<1>2. ASSUME NEW x \in OfficersIn(after) PROVE x \in OfficersIn(rows) \cup {o}
  <2>1. PICK i \in 1..Len(after) : x = after[i]
    BY DEF OfficersIn
  <2>2. i \in 1..Len(rows) \/ i = Len(rows) + 1
    BY <1>1
  <2>. QED  BY <1>1, <2>1, <2>2 DEF OfficersIn
<1>3. ASSUME NEW x \in OfficersIn(rows) \cup {o} PROVE x \in OfficersIn(after)
  <2>1. CASE x = o
    BY <1>1, <2>1 DEF OfficersIn
  <2>2. ASSUME NEW i \in 1..Len(rows), x = rows[i] PROVE x \in OfficersIn(after)
    BY <1>1, <2>2 DEF OfficersIn
  <2>. QED  BY <2>1, <2>2 DEF OfficersIn
<1>. QED  BY <1>1, <1>2, <1>3 DEF after

LEMMA NoOfficers == OfficersIn(<<>>) = {} /\ Len(<<>>) = 0
  BY DEF OfficersIn

\* One more officer, who has not decided r before, is one more decider.
LEMMA NewDecider ==
  ASSUME NEW S, IsFiniteSet(S), NEW o, o \notin S
  PROVE  IsFiniteSet(S \cup {o}) /\ Cardinality(S \cup {o}) = Cardinality(S) + 1
  BY FS_AddElement

LEMMA ReleasedIsNot ==
  ASSUME NEW st \in Released
  PROVE  st \in Statuses /\ st \notin {"absent", "PENDING", "REJECTED"}
  BY DEF Released, Statuses

\* A step that changes no request row, and leaves every deciding handler alone
\* or ends it, preserves the invariant.
LEMMA QuietStep ==
  ASSUME ApprovalInv, TypeOK', UNCHANGED requestVars,
         \A h \in Handlers :
            \/ handler'[h] = handler[h]
            \/ handler'[h].op \in {"idle", "create"}
            \/ /\ handler'[h].op = "hook"
               /\ handler'[h].found = "TRANSFER_PENDING" =>
                     status[handler'[h].req] \in Released
  PROVE  ApprovalInv'
<1>1. UNCHANGED <<status, terms, approvals, rejections, releasedUnder>>
  BY DEF requestVars
<1>2. \A r \in Requests : UNCHANGED Deciders(r)
  BY <1>1 DEF Deciders
<1>3. \A h \in Handlers : Deciding(h)' => handler'[h] = handler[h] /\ Deciding(h)
  BY DEF Deciding
<1>4. RowExclusive'
  BY <1>3 DEF ApprovalInv, RowExclusive
<1>5. SnapshotHolds'
  BY <1>1, <1>2, <1>3 DEF ApprovalInv, SnapshotHolds, Deciders
<1>6. HookHolds'
  BY <1>1 DEF ApprovalInv, HookHolds
<1>7. DecisionRows' /\ SegregationOfDuties' /\ EnoughApprovers'
  BY <1>1, <1>2 DEF ApprovalInv, DecisionRows, SegregationOfDuties, EnoughApprovers, Deciders
<1>. QED  BY <1>4, <1>5, <1>6, <1>7 DEF ApprovalInv

LEMMA InitApprovalInv == Init => ApprovalInv
<1>. SUFFICES ASSUME Init PROVE ApprovalInv
  OBVIOUS
<1>1. TypeOK
  BY InitTypeOK
<1>2. \A h \in Handlers : handler[h].op = "idle"
  BY DEF Init, Idle
<1>3. RowExclusive /\ SnapshotHolds /\ HookHolds
  BY <1>2 DEF RowExclusive, SnapshotHolds, HookHolds, Deciding
<1>4. ASSUME NEW r \in Requests
      PROVE  /\ status[r] = "absent" /\ approvals[r] = <<>> /\ rejections[r] = <<>>
             /\ Deciders(r) = {}
  BY NoOfficers DEF Init, Deciders
<1>5. IsFiniteSet({}) /\ Cardinality({}) = 0
  BY FS_EmptySet
<1>7. DecisionRows
  <2>. SUFFICES ASSUME NEW r \in Requests
                PROVE  /\ IsFiniteSet(OfficersIn(approvals[r]))
                       /\ Cardinality(OfficersIn(approvals[r])) = Len(approvals[r])
    BY <1>4 DEF DecisionRows
  <2>1. OfficersIn(approvals[r]) = {} /\ Len(approvals[r]) = 0
    BY <1>4, NoOfficers
  <2>. QED  BY <1>5, <2>1
<1>8. SegregationOfDuties
  <2>. SUFFICES ASSUME NEW r \in Requests
                PROVE  Cardinality(Deciders(r)) = Len(approvals[r]) + Len(rejections[r])
    BY <1>4 DEF SegregationOfDuties
  <2>1. Cardinality(Deciders(r)) = 0 /\ Len(approvals[r]) = 0 /\ Len(rejections[r]) = 0
    BY <1>4, <1>5, NoOfficers
  <2>. QED  BY <2>1
<1>6. EnoughApprovers
  BY <1>4 DEF EnoughApprovers, Released
<1>. QED  BY <1>1, <1>3, <1>6, <1>7, <1>8 DEF ApprovalInv

LEMMA ConfigApprovalInv ==
  ASSUME ApprovalInv, TypeOK',
         \/ \E p \in Recipients : CreatePayoutRecipient(p)
         \/ \E p \in Policies : UpdateFundControlPolicy(p)
         \/ NextDay
         \/ \E r \in Requests, s \in Outcomes : ProviderReport(r, s) \/ IgnoreEvent(r, s)
  PROVE  ApprovalInv'
<1>1. UNCHANGED requestVars /\ UNCHANGED handler
  BY DEF CreatePayoutRecipient, UpdateFundControlPolicy, NextDay, ProviderReport, IgnoreEvent
<1>. QED  BY <1>1, QuietStep

LEMMA CreateApprovalInv ==
  ASSUME ApprovalInv, TypeOK', NEW h \in Handlers, NEW r \in Requests, CreateInsert(h, r)
  PROVE  ApprovalInv'
<1>1. /\ status[r] = "absent" /\ status' = [status EXCEPT ![r] = "PENDING"]
      /\ handler[h] \in CreateCall
      /\ UNCHANGED <<approvals, rejections, releasedUnder>>
      /\ handler' = [handler EXCEPT ![h] = Idle]
  BY CallTypes DEF CreateInsert, End, ApprovalInv
<1>2. /\ approvals[r] = <<>> /\ rejections[r] = <<>> /\ Deciders(r) = {}
      /\ status'[r] = "PENDING"
  BY <1>1, NoOfficers DEF ApprovalInv, DecisionRows, Deciders, TypeOK
<1>3. \A q \in Requests : q # r => status'[q] = status[q] /\ terms'[q] = terms[q]
  BY <1>1 DEF CreateInsert, ApprovalInv, TypeOK
<1>4. \A q \in Requests : UNCHANGED Deciders(q)
  BY <1>1 DEF Deciders
<1>5. \A g \in Handlers : Deciding(g)' =>
        handler'[g] = handler[g] /\ Deciding(g) /\ handler[g].req \in Requests \ {r}
  <2>. SUFFICES ASSUME NEW g \in Handlers, Deciding(g)'
                PROVE  handler'[g] = handler[g] /\ Deciding(g)
                       /\ handler[g].req \in Requests \ {r}
    OBVIOUS
  <2>1. g # h
    BY <1>1 DEF Deciding, Idle, ApprovalInv, TypeOK
  <2>2. handler'[g] = handler[g] /\ Deciding(g)
    BY <1>1, <2>1 DEF Deciding, ApprovalInv, TypeOK
  <2>3. handler[g].req \in Requests
    BY <2>2, CallTypes DEF Deciding, ApprovalInv, DecideCall, SettleCall
  <2>4. handler[g].req # r
    BY <1>1, <2>2 DEF ApprovalInv, SnapshotHolds
  <2>. QED  BY <2>2, <2>3, <2>4
<1>6. RowExclusive'
  BY <1>5 DEF ApprovalInv, RowExclusive
<1>7. SnapshotHolds'
  BY <1>1, <1>3, <1>4, <1>5 DEF ApprovalInv, SnapshotHolds
<1>8. HookHolds'
  <2>. SUFFICES ASSUME NEW g \in Handlers, handler'[g].op = "hook",
                       handler'[g].found = "TRANSFER_PENDING"
                PROVE  status'[handler'[g].req] \in Released
    BY DEF HookHolds
  <2>1. handler'[g] = handler[g]
    BY <1>1 DEF Idle, ApprovalInv, TypeOK
  <2>2. handler[g].req \in Requests /\ status[handler[g].req] \in Released
    BY <2>1, CallTypes DEF ApprovalInv, HookHolds, HookCall
  <2>. QED  BY <1>1, <1>3, <2>1, <2>2, ReleasedIsNot
<1>9. DecisionRows'
  BY <1>1, <1>2, <1>3 DEF ApprovalInv, DecisionRows
<1>10. SegregationOfDuties'
  BY <1>1, <1>2, <1>3, <1>4 DEF ApprovalInv, SegregationOfDuties
<1>11. EnoughApprovers'
  BY <1>1, <1>2, <1>3, ReleasedIsNot DEF ApprovalInv, EnoughApprovers
<1>. QED  BY <1>6, <1>7, <1>8, <1>9, <1>10, <1>11 DEF ApprovalInv

LEMMA LockApprovalInv ==
  ASSUME ApprovalInv, TypeOK', NEW h \in Handlers, NEW o \in Officers, NEW r \in Requests,
         ApproveLock(h, o, r)
  PROVE  ApprovalInv'
<1>. DEFINE call == [op |-> "decide", req |-> r, by |-> o, seen |-> approvals[r]]
<1>1. /\ UNCHANGED <<status, terms, approvals, rejections, releasedUnder>>
      /\ handler' = [handler EXCEPT ![h] = call]
  BY DEF ApproveLock, Begin, requestVars
<1>2. handler'[h] = call /\ \A g \in Handlers : g # h => handler'[g] = handler[g]
  BY <1>1 DEF ApprovalInv, TypeOK
<1>3. RowExclusive'
  BY <1>2 DEF ApproveLock, RowUnlocked, ApprovalInv, RowExclusive, Deciding
<1>4. SnapshotHolds'
  <2>. SUFFICES ASSUME NEW g \in Handlers, Deciding(g)'
                PROVE  LET q == handler'[g].req IN
                       /\ status[q] = "PENDING"
                       /\ handler'[g].by # terms[q].by
                       /\ handler'[g].by \notin Deciders(q)
                       /\ handler'[g].op = "decide" => handler'[g].seen = approvals[q]
                       /\ handler'[g].op = "settle" =>
                             RequiredApprovals(handler'[g].under, terms[q].amount) <= Len(approvals[q]) + 1
    BY <1>1 DEF SnapshotHolds, Deciders
  <2>1. CASE g = h
    BY <1>2, <2>1 DEF ApproveLock
  <2>2. CASE g # h
    BY <1>2, <2>2 DEF ApprovalInv, SnapshotHolds, Deciding
  <2>. QED  BY <2>1, <2>2
<1>5. HookHolds'
  BY <1>1, <1>2 DEF ApprovalInv, HookHolds
<1>6. DecisionRows' /\ SegregationOfDuties' /\ EnoughApprovers'
  BY <1>1 DEF ApprovalInv, DecisionRows, SegregationOfDuties, EnoughApprovers, Deciders
<1>. QED  BY <1>3, <1>4, <1>5, <1>6 DEF ApprovalInv

LEMMA CallApprovalInv ==
  ASSUME ApprovalInv, TypeOK', NEW h \in Handlers, ApproveCallProvider(h)
  PROVE  ApprovalInv'
<1>. DEFINE r == handler[h].req
            needs == RequiredApprovals(policy, terms[r].amount)
<1>1. UNCHANGED <<status, terms, approvals, rejections, releasedUnder>>
  BY DEF ApproveCallProvider, requestVars
<1>2. /\ handler'[h].op = "settle" /\ handler'[h].req = r
      /\ handler'[h].by = handler[h].by /\ handler'[h].under = policy
      /\ \A g \in Handlers : g # h => handler'[g] = handler[g]
  BY DEF ApproveCallProvider, ApprovalInv, TypeOK
<1>3. /\ Deciding(h) /\ handler[h].op = "decide" /\ r \in Requests
      /\ needs <= Len(approvals[r]) + 1
  BY CallTypes DEF ApproveCallProvider, Deciding, ApprovalInv, SnapshotHolds, DecideCall, TypeOK,
     RequiredApprovals
<1>4. \A g \in Handlers : Deciding(g)' => Deciding(g) /\ handler'[g].req = handler[g].req
  BY <1>2, <1>3 DEF Deciding
<1>5. RowExclusive'
  BY <1>4 DEF ApprovalInv, RowExclusive
<1>6. SnapshotHolds'
  <2>. SUFFICES ASSUME NEW g \in Handlers, Deciding(g)'
                PROVE  LET q == handler'[g].req IN
                       /\ status[q] = "PENDING"
                       /\ handler'[g].by # terms[q].by
                       /\ handler'[g].by \notin Deciders(q)
                       /\ handler'[g].op = "decide" => handler'[g].seen = approvals[q]
                       /\ handler'[g].op = "settle" =>
                             RequiredApprovals(handler'[g].under, terms[q].amount) <= Len(approvals[q]) + 1
    BY <1>1 DEF SnapshotHolds, Deciders
  <2>1. CASE g = h
    <3>1. /\ status[r] = "PENDING" /\ handler[h].by # terms[r].by
          /\ handler[h].by \notin Deciders(r)
      BY <1>3 DEF ApprovalInv, SnapshotHolds
    <3>. QED  BY <1>2, <1>3, <2>1, <3>1
  <2>2. CASE g # h
    BY <1>2, <2>2 DEF ApprovalInv, SnapshotHolds, Deciding
  <2>. QED  BY <2>1, <2>2
<1>7. HookHolds'
  BY <1>1, <1>2 DEF ApprovalInv, HookHolds
<1>8. DecisionRows' /\ SegregationOfDuties' /\ EnoughApprovers'
  BY <1>1 DEF ApprovalInv, DecisionRows, SegregationOfDuties, EnoughApprovers, Deciders
<1>. QED  BY <1>5, <1>6, <1>7, <1>8 DEF ApprovalInv

\* The officers who have decided r after a step.
NextDeciders(r) == OfficersIn(approvals'[r]) \cup OfficersIn(rejections'[r])

\* A step that ends h, which was deciding r, and changes no other row than r's
\* preserves the invariant if the new row of r satisfies it.
LEMMA DecisionStep ==
  ASSUME ApprovalInv, TypeOK', NEW h \in Handlers, Deciding(h),
         NEW r \in Requests, r = handler[h].req,
         handler' = [handler EXCEPT ![h] = Idle],
         UNCHANGED terms,
         \A q \in Requests \ {r} :
            /\ status'[q] = status[q] /\ releasedUnder'[q] = releasedUnder[q]
            /\ approvals'[q] = approvals[q] /\ rejections'[q] = rejections[q],
         status'[r] # "absent",
         status'[r] # "REJECTED" => rejections'[r] = <<>>,
         IsFiniteSet(OfficersIn(approvals'[r])),
         Cardinality(OfficersIn(approvals'[r])) = Len(approvals'[r]),
         terms[r].by \notin NextDeciders(r),
         Cardinality(NextDeciders(r)) = Len(approvals'[r]) + Len(rejections'[r]),
         status'[r] \in Released =>
            /\ Cardinality(OfficersIn(approvals'[r]))
                  >= RequiredApprovals(releasedUnder'[r], terms[r].amount)
            /\ rejections'[r] = <<>>
  PROVE  ApprovalInv'
<1>1. handler'[h] = Idle /\ \A g \in Handlers : g # h => handler'[g] = handler[g]
  BY DEF ApprovalInv, TypeOK
<1>2. \A q \in Requests \ {r} : NextDeciders(q) = Deciders(q)
  BY DEF Deciders, NextDeciders
<1>3. \A g \in Handlers : Deciding(g)' =>
        handler'[g] = handler[g] /\ Deciding(g) /\ handler[g].req \in Requests \ {r}
  <2>. SUFFICES ASSUME NEW g \in Handlers, Deciding(g)'
                PROVE  handler'[g] = handler[g] /\ Deciding(g)
                       /\ handler[g].req \in Requests \ {r}
    OBVIOUS
  <2>1. g # h
    BY <1>1 DEF Deciding, Idle
  <2>2. handler'[g] = handler[g] /\ Deciding(g)
    BY <1>1, <2>1 DEF Deciding
  <2>3. handler[g].req \in Requests
    BY <2>2, CallTypes DEF Deciding, ApprovalInv, DecideCall, SettleCall
  <2>4. handler[g].req # r
    BY <2>1, <2>2 DEF ApprovalInv, RowExclusive
  <2>. QED  BY <2>2, <2>3, <2>4
<1>4. RowExclusive'
  BY <1>3 DEF ApprovalInv, RowExclusive
<1>5. SnapshotHolds'
  <2>. SUFFICES ASSUME NEW g \in Handlers, Deciding(g)'
                PROVE  LET q == handler'[g].req IN
                       /\ status'[q] = "PENDING"
                       /\ handler'[g].by # terms[q].by
                       /\ handler'[g].by \notin NextDeciders(q)
                       /\ handler'[g].op = "decide" => handler'[g].seen = approvals'[q]
                       /\ handler'[g].op = "settle" =>
                             RequiredApprovals(handler'[g].under, terms[q].amount) <= Len(approvals'[q]) + 1
    BY DEF SnapshotHolds, Deciders, NextDeciders
  <2>1. handler'[g] = handler[g] /\ Deciding(g) /\ handler[g].req \in Requests \ {r}
    BY <1>3
  <2>. DEFINE q == handler[g].req
  <2>2. /\ status[q] = "PENDING"
        /\ handler[g].by # terms[q].by
        /\ handler[g].by \notin Deciders(q)
        /\ handler[g].op = "decide" => handler[g].seen = approvals[q]
        /\ handler[g].op = "settle" =>
              RequiredApprovals(handler[g].under, terms[q].amount) <= Len(approvals[q]) + 1
    BY <2>1 DEF ApprovalInv, SnapshotHolds
  <2>3. /\ status'[q] = status[q] /\ approvals'[q] = approvals[q]
        /\ NextDeciders(q) = Deciders(q)
    BY <1>2, <2>1
  <2>. QED  BY <2>1, <2>2, <2>3
<1>6. HookHolds'
  <2>. SUFFICES ASSUME NEW g \in Handlers, handler'[g].op = "hook",
                       handler'[g].found = "TRANSFER_PENDING"
                PROVE  status'[handler'[g].req] \in Released
    BY DEF HookHolds
  <2>1. handler'[g] = handler[g]
    BY <1>1 DEF Idle
  <2>2. handler[g].req \in Requests /\ status[handler[g].req] \in Released
    BY <2>1, CallTypes DEF ApprovalInv, HookHolds, HookCall
  <2>3. status[r] = "PENDING"
    BY DEF ApprovalInv, SnapshotHolds
  <2>. QED  BY <2>1, <2>2, <2>3, ReleasedIsNot
<1>7. DecisionRows'
  BY DEF ApprovalInv, DecisionRows
<1>8. SegregationOfDuties'
  BY <1>2 DEF ApprovalInv, SegregationOfDuties, Deciders, NextDeciders
<1>9. EnoughApprovers'
  BY DEF ApprovalInv, EnoughApprovers
<1>. QED  BY <1>4, <1>5, <1>6, <1>7, <1>8, <1>9 DEF ApprovalInv

\* What a deciding handler knows of the row it has locked.
LEMMA DecidedRow ==
  ASSUME ApprovalInv, NEW h \in Handlers, Deciding(h), NEW r, r = handler[h].req
  PROVE  /\ r \in Requests /\ handler[h].by \in Officers
         /\ status[r] = "PENDING" /\ rejections[r] = <<>>
         /\ approvals[r] \in Seq(Officers)
         /\ handler[h].by \notin OfficersIn(approvals[r])
         /\ handler[h].by # terms[r].by
         /\ terms[r].by \notin OfficersIn(approvals[r])
         /\ IsFiniteSet(OfficersIn(approvals[r]))
         /\ Cardinality(OfficersIn(approvals[r])) = Len(approvals[r])
<1>1. r \in Requests /\ handler[h].by \in Officers
  BY CallTypes DEF ApprovalInv, Deciding, DecideCall, SettleCall
<1>2. /\ status[r] = "PENDING" /\ handler[h].by # terms[r].by
      /\ handler[h].by \notin Deciders(r)
  BY DEF ApprovalInv, SnapshotHolds
<1>3. terms[r].by \notin Deciders(r)
  BY <1>1, <1>2 DEF ApprovalInv, SegregationOfDuties
<1>4. /\ rejections[r] = <<>>
      /\ IsFiniteSet(OfficersIn(approvals[r]))
      /\ Cardinality(OfficersIn(approvals[r])) = Len(approvals[r])
  BY <1>1, <1>2 DEF ApprovalInv, DecisionRows
<1>5. approvals[r] \in Seq(Officers)
  BY <1>1 DEF ApprovalInv, TypeOK
<1>. QED  BY <1>1, <1>2, <1>3, <1>4, <1>5 DEF Deciders, NextDeciders

\* The officers of a row with one decision more.
LEMMA OneMore ==
  ASSUME NEW rows \in Seq(Officers), NEW o \in Officers, o \notin OfficersIn(rows),
         IsFiniteSet(OfficersIn(rows)), Cardinality(OfficersIn(rows)) = Len(rows)
  PROVE  /\ OfficersIn(Append(rows, o)) = OfficersIn(rows) \cup {o}
         /\ IsFiniteSet(OfficersIn(rows) \cup {o})
         /\ Cardinality(OfficersIn(rows) \cup {o}) = Len(rows) + 1
         /\ IsFiniteSet(OfficersIn(Append(rows, o)))
         /\ Cardinality(OfficersIn(Append(rows, o))) = Len(Append(rows, o))
         /\ Len(Append(rows, o)) = Len(rows) + 1
         /\ Len(rows) \in Nat
<1>1. Len(rows) \in Nat
  BY LenProperties
<1>2. IsFiniteSet(OfficersIn(rows) \cup {o})
      /\ Cardinality(OfficersIn(rows) \cup {o}) = Len(rows) + 1
  BY NewDecider
<1>. QED  BY <1>1, <1>2, AppendOfficer
LEMMA RejectApprovalInv ==
  ASSUME ApprovalInv, TypeOK', NEW h \in Handlers, ApproveReject(h)
  PROVE  ApprovalInv'
<1>. DEFINE r == handler[h].req
            o == handler[h].by
<1>1. /\ Deciding(h) /\ handler' = [handler EXCEPT ![h] = Idle]
      /\ UNCHANGED <<terms, approvals, releasedUnder>>
  BY DEF ApproveReject, Deciding, End
<1>2. /\ r \in Requests /\ o \in Officers
      /\ rejections[r] = <<>> /\ o # terms[r].by
      /\ approvals[r] \in Seq(Officers)
      /\ o \notin OfficersIn(approvals[r])
      /\ terms[r].by \notin OfficersIn(approvals[r])
      /\ IsFiniteSet(OfficersIn(approvals[r]))
      /\ Cardinality(OfficersIn(approvals[r])) = Len(approvals[r])
  BY <1>1, DecidedRow
<1>3. status'[r] = "REJECTED" /\ rejections'[r] = Append(<<>>, o)
  BY <1>2 DEF ApproveReject, ApprovalInv, TypeOK
<1>4. \A q \in Requests \ {r} : status'[q] = status[q] /\ rejections'[q] = rejections[q]
  BY <1>2 DEF ApproveReject, ApprovalInv, TypeOK
<1>5. OfficersIn(rejections'[r]) = {o} /\ Len(rejections'[r]) = 1
  <2>1. <<>> \in Seq(Officers)
    OBVIOUS
  <2>2. /\ OfficersIn(Append(<<>>, o)) = OfficersIn(<<>>) \cup {o}
        /\ Len(Append(<<>>, o)) = Len(<<>>) + 1
    BY <1>2, <2>1, AppendOfficer
  <2>. QED  BY <1>3, <2>2, NoOfficers
<1>6. NextDeciders(r) = OfficersIn(approvals[r]) \cup {o}
  BY <1>1, <1>5 DEF Deciders, NextDeciders
<1>7. Cardinality(NextDeciders(r)) = Len(approvals'[r]) + Len(rejections'[r])
  BY <1>1, <1>2, <1>5, <1>6, OneMore
<1>8. terms[r].by \notin NextDeciders(r)
  BY <1>2, <1>6
<1>9. status'[r] \notin Released /\ status'[r] # "absent"
  BY <1>3 DEF Released
<1>. QED
  BY <1>1, <1>2, <1>3, <1>4, <1>7, <1>8, <1>9, DecisionStep

LEMMA WaitApprovalInv ==
  ASSUME ApprovalInv, TypeOK', NEW h \in Handlers, ApproveWait(h)
  PROVE  ApprovalInv'
<1>. DEFINE r == handler[h].req
            o == handler[h].by
<1>1. /\ Deciding(h) /\ handler' = [handler EXCEPT ![h] = Idle]
      /\ UNCHANGED <<status, terms, rejections, releasedUnder>>
  BY DEF ApproveWait, Deciding, End
<1>2. /\ r \in Requests /\ o \in Officers
      /\ status[r] = "PENDING" /\ rejections[r] = <<>> /\ o # terms[r].by
      /\ approvals[r] \in Seq(Officers)
      /\ o \notin OfficersIn(approvals[r])
      /\ terms[r].by \notin OfficersIn(approvals[r])
      /\ IsFiniteSet(OfficersIn(approvals[r]))
      /\ Cardinality(OfficersIn(approvals[r])) = Len(approvals[r])
  BY <1>1, DecidedRow
<1>3. /\ approvals'[r] = Append(approvals[r], o)
      /\ \A q \in Requests \ {r} : approvals'[q] = approvals[q]
  BY <1>2 DEF ApproveWait, ApprovalInv, TypeOK
<1>4. /\ OfficersIn(approvals'[r]) = OfficersIn(approvals[r]) \cup {o}
      /\ IsFiniteSet(OfficersIn(approvals'[r]))
      /\ Cardinality(OfficersIn(approvals'[r])) = Len(approvals'[r])
      /\ Len(approvals'[r]) \in Nat
  <2>. DEFINE more == Append(approvals[r], o)
  <2>1. /\ OfficersIn(more) = OfficersIn(approvals[r]) \cup {o}
        /\ IsFiniteSet(OfficersIn(more))
        /\ Cardinality(OfficersIn(more)) = Len(more)
        /\ Len(more) = Len(approvals[r]) + 1
        /\ Len(approvals[r]) \in Nat
    BY <1>2, OneMore
  <2>. HIDE DEF more
  <2>2. approvals'[r] = more
    BY <1>3 DEF more
  <2>3. Len(more) \in Nat
    BY <2>1
  <2>. HIDE DEF r, o
  <2>. QED  BY <2>1, <2>2, <2>3, Zenon
<1>5. NextDeciders(r) = OfficersIn(approvals'[r]) /\ rejections'[r] = <<>>
  BY <1>1, <1>2, NoOfficers DEF Deciders, NextDeciders
<1>6. Cardinality(NextDeciders(r)) = Len(approvals'[r]) + Len(rejections'[r])
  BY <1>4, <1>5, NoOfficers
<1>7. terms[r].by \notin NextDeciders(r)
  BY <1>2, <1>4, <1>5
<1>8. status'[r] = "PENDING" /\ status'[r] \notin Released
  BY <1>1, <1>2 DEF Released
<1>. QED
  BY <1>1, <1>2, <1>3, <1>4, <1>5, <1>6, <1>7, <1>8, DecisionStep

LEMMA SettleApprovalInv ==
  ASSUME ApprovalInv, TypeOK', NEW h \in Handlers, ApproveSettle(h)
  PROVE  ApprovalInv'
<1>. DEFINE r == handler[h].req
            o == handler[h].by
            needs == RequiredApprovals(handler[h].under, terms[r].amount)
<1>1. /\ Deciding(h) /\ handler' = [handler EXCEPT ![h] = Idle]
      /\ UNCHANGED <<terms, rejections>>
  BY DEF ApproveSettle, Deciding, End
<1>2. /\ r \in Requests /\ o \in Officers
      /\ rejections[r] = <<>> /\ o # terms[r].by
      /\ approvals[r] \in Seq(Officers)
      /\ o \notin OfficersIn(approvals[r])
      /\ terms[r].by \notin OfficersIn(approvals[r])
      /\ IsFiniteSet(OfficersIn(approvals[r]))
      /\ Cardinality(OfficersIn(approvals[r])) = Len(approvals[r])
  BY <1>1, DecidedRow
<1>3. /\ approvals'[r] = Append(approvals[r], o)
      /\ \A q \in Requests \ {r} : approvals'[q] = approvals[q]
  BY <1>2 DEF ApproveSettle, ApprovalInv, TypeOK
<1>4. /\ OfficersIn(approvals'[r]) = OfficersIn(approvals[r]) \cup {o}
      /\ IsFiniteSet(OfficersIn(approvals'[r]))
      /\ Cardinality(OfficersIn(approvals'[r])) = Len(approvals'[r])
      /\ Len(approvals'[r]) = Len(approvals[r]) + 1
      /\ Len(approvals'[r]) \in Nat
  <2>. DEFINE more == Append(approvals[r], o)
  <2>1. /\ OfficersIn(more) = OfficersIn(approvals[r]) \cup {o}
        /\ IsFiniteSet(OfficersIn(more))
        /\ Cardinality(OfficersIn(more)) = Len(more)
        /\ Len(more) = Len(approvals[r]) + 1
        /\ Len(approvals[r]) \in Nat
    BY <1>2, OneMore
  <2>. HIDE DEF more
  <2>2. approvals'[r] = more
    BY <1>3 DEF more
  <2>3. Len(more) \in Nat
    BY <2>1
  <2>. HIDE DEF r, o
  <2>. QED  BY <2>1, <2>2, <2>3, Zenon
<1>5. NextDeciders(r) = OfficersIn(approvals'[r]) /\ rejections'[r] = <<>>
  BY <1>1, <1>2, NoOfficers DEF Deciders, NextDeciders
<1>6. Cardinality(NextDeciders(r)) = Len(approvals'[r]) + Len(rejections'[r])
  BY <1>4, <1>5, NoOfficers
<1>7. terms[r].by \notin NextDeciders(r)
  BY <1>2, <1>4, <1>5
<1>8. needs <= Len(approvals[r]) + 1
  <2>1. handler[h].op = "settle"
    BY DEF ApproveSettle
  <2>. QED  BY <1>1, <2>1 DEF ApprovalInv, SnapshotHolds
<1>9. /\ releasedUnder'[r] = handler[h].under
      /\ \A q \in Requests \ {r} : releasedUnder'[q] = releasedUnder[q]
  BY <1>2 DEF ApproveSettle, ApprovalInv, TypeOK
<1>10. Cardinality(OfficersIn(approvals'[r])) >= RequiredApprovals(releasedUnder'[r], terms[r].amount)
  <2>1. needs \in Int
    BY DEF RequiredApprovals
  <2>2. Cardinality(OfficersIn(approvals'[r])) = Len(approvals[r]) + 1
    BY <1>4
  <2>. QED  BY <1>2, <1>8, <1>9, <2>1, <2>2, LenProperties
<1>11. /\ status'[r] \in {"TRANSFER_PENDING", "TRANSFER_FAILED"}
       /\ \A q \in Requests \ {r} : status'[q] = status[q]
  BY <1>2 DEF ApproveSettle, ApprovalInv, TypeOK
<1>12. status'[r] # "absent" /\ status'[r] # "REJECTED"
  BY <1>11
<1>13. status'[r] \in Released =>
         /\ Cardinality(OfficersIn(approvals'[r]))
               >= RequiredApprovals(releasedUnder'[r], terms[r].amount)
         /\ rejections'[r] = <<>>
  BY <1>5, <1>8, <1>9, <1>10
<1>14. \A q \in Requests \ {r} :
         /\ status'[q] = status[q] /\ releasedUnder'[q] = releasedUnder[q]
         /\ approvals'[q] = approvals[q] /\ rejections'[q] = rejections[q]
  BY <1>1, <1>3, <1>9, <1>11
<1>. QED
  BY <1>1, <1>2, <1>4, <1>5, <1>6, <1>7, <1>12, <1>13, <1>14, DecisionStep

LEMMA ReadApprovalInv ==
  ASSUME ApprovalInv, TypeOK', NEW h \in Handlers,
         \/ \E o \in Officers, a \in Amounts, p \in Recipients : CreateCheck(h, o, a, p)
         \/ \E r \in Requests, s \in Outcomes : WebhookRead(h, r, s)
         \/ Abort(h)
  PROVE  ApprovalInv'
<1>1. UNCHANGED requestVars /\ \A g \in Handlers : g # h => handler'[g] = handler[g]
  BY DEF CreateCheck, WebhookRead, Abort, Begin, End, ApprovalInv, TypeOK
<1>2. \/ handler'[h].op \in {"idle", "create"}
      \/ /\ handler'[h].op = "hook"
         /\ handler'[h].found = "TRANSFER_PENDING" =>
               status[handler'[h].req] \in Released
  <2>1. ASSUME NEW o \in Officers, NEW a \in Amounts, NEW p \in Recipients,
               CreateCheck(h, o, a, p)
        PROVE  handler'[h].op = "create"
    BY <2>1 DEF CreateCheck, Begin, ApprovalInv, TypeOK
  <2>2. ASSUME NEW r \in Requests, NEW s \in Outcomes, WebhookRead(h, r, s)
        PROVE  /\ handler'[h].op = "hook"
               /\ handler'[h].found = "TRANSFER_PENDING" =>
                     status[handler'[h].req] \in Released
    <3>1. /\ handler'[h].op = "hook" /\ handler'[h].req = r
          /\ handler'[h].found \in {status[r], "absent"}
      BY <2>2 DEF WebhookRead, Begin, ApprovalInv, TypeOK
    <3>. QED  BY <3>1 DEF Released
  <2>3. ASSUME Abort(h) PROVE handler'[h].op = "idle"
    BY <2>3 DEF Abort, End, Idle, ApprovalInv, TypeOK
  <2>. QED  BY <2>1, <2>2, <2>3
<1>. QED  BY <1>1, <1>2, QuietStep

LEMMA WebhookApprovalInv ==
  ASSUME ApprovalInv, TypeOK', NEW h \in Handlers, WebhookCommit(h)
  PROVE  ApprovalInv'
<1>. DEFINE r == handler[h].req
<1>1. /\ UNCHANGED <<terms, approvals, rejections, releasedUnder>>
      /\ handler'[h] = Idle /\ \A g \in Handlers : g # h => handler'[g] = handler[g]
      /\ r \in Requests
  BY CallTypes DEF WebhookCommit, End, ApprovalInv, TypeOK, HookCall
<1>2. \A q \in Requests : \/ status'[q] = status[q]
                          \/ status[q] \in Released /\ status'[q] \in Released
  <2>1. CASE UNCHANGED status
    BY <2>1
  <2>2. ASSUME handler[h].found = "TRANSFER_PENDING",
               \/ status' = [status EXCEPT ![r] = "TRANSFER_FAILED"]
               \/ status' = [status EXCEPT ![r] = "SUCCEEDED"]
        PROVE  \A q \in Requests : \/ status'[q] = status[q]
                                   \/ status[q] \in Released /\ status'[q] \in Released
    <3>1. status[r] \in Released
      BY <2>2 DEF WebhookCommit, ApprovalInv, HookHolds
    <3>. QED  BY <1>1, <2>2, <3>1 DEF ApprovalInv, TypeOK, Released
  <2>. QED
    BY <2>1, <2>2 DEF WebhookCommit, HookUnmatched, HookAlreadyProcessed, HookFailed,
       HookSucceeded
<1>3. \A q \in Requests : NextDeciders(q) = Deciders(q)
  BY <1>1 DEF Deciders, NextDeciders
<1>4. \A g \in Handlers : g # h \/ ~Deciding(g)'
  BY <1>1 DEF Deciding, Idle
<1>5. RowExclusive'
  BY <1>1, <1>4 DEF ApprovalInv, RowExclusive, Deciding
<1>6. SnapshotHolds'
  <2>. SUFFICES ASSUME NEW g \in Handlers, Deciding(g)'
                PROVE  LET q == handler'[g].req IN
                       /\ status'[q] = "PENDING"
                       /\ handler'[g].by # terms[q].by
                       /\ handler'[g].by \notin NextDeciders(q)
                       /\ handler'[g].op = "decide" => handler'[g].seen = approvals[q]
                       /\ handler'[g].op = "settle" =>
                             RequiredApprovals(handler'[g].under, terms[q].amount) <= Len(approvals[q]) + 1
    BY <1>1 DEF SnapshotHolds, Deciders, NextDeciders
  <2>. DEFINE q == handler[g].req
  <2>1. handler'[g] = handler[g] /\ Deciding(g)
    BY <1>1, <1>4 DEF Deciding
  <2>2. q \in Requests
    BY <2>1, CallTypes DEF ApprovalInv, Deciding, DecideCall, SettleCall
  <2>3. /\ status[q] = "PENDING"
        /\ handler[g].by # terms[q].by
        /\ handler[g].by \notin Deciders(q)
        /\ handler[g].op = "decide" => handler[g].seen = approvals[q]
        /\ handler[g].op = "settle" =>
              RequiredApprovals(handler[g].under, terms[q].amount) <= Len(approvals[q]) + 1
    BY <2>1 DEF ApprovalInv, SnapshotHolds
  <2>4. status'[q] = "PENDING" /\ NextDeciders(q) = Deciders(q)
    BY <1>2, <1>3, <2>2, <2>3, ReleasedIsNot
  <2>. QED  BY <2>1, <2>3, <2>4
<1>7. HookHolds'
  <2>. SUFFICES ASSUME NEW g \in Handlers, handler'[g].op = "hook",
                       handler'[g].found = "TRANSFER_PENDING"
                PROVE  status'[handler'[g].req] \in Released
    BY DEF HookHolds
  <2>1. handler'[g] = handler[g]
    BY <1>1 DEF Idle
  <2>2. handler[g].req \in Requests /\ status[handler[g].req] \in Released
    BY <2>1, CallTypes DEF ApprovalInv, HookHolds, HookCall
  <2>. QED  BY <1>2, <2>1, <2>2
<1>8. DecisionRows'
  BY <1>1, <1>2, ReleasedIsNot DEF ApprovalInv, DecisionRows, Released
<1>9. SegregationOfDuties'
  BY <1>1, <1>2, <1>3, ReleasedIsNot DEF ApprovalInv, SegregationOfDuties, Released,
     Deciders
<1>10. EnoughApprovers'
  BY <1>1, <1>2 DEF ApprovalInv, EnoughApprovers
<1>. QED  BY <1>5, <1>6, <1>7, <1>8, <1>9, <1>10 DEF ApprovalInv

LEMMA NextApprovalInv == ApprovalInv /\ [Next]_vars => ApprovalInv'
<1>. SUFFICES ASSUME ApprovalInv, [Next]_vars PROVE ApprovalInv'
  OBVIOUS
<1>1. TypeOK'
  BY NextTypeOK DEF ApprovalInv
<1>2. CASE UNCHANGED vars
  BY <1>1, <1>2, QuietStep DEF vars
<1>3. CASE Next
  BY <1>1, <1>3, ConfigApprovalInv, CreateApprovalInv, LockApprovalInv, RejectApprovalInv,
     WaitApprovalInv, CallApprovalInv, SettleApprovalInv, ReadApprovalInv, WebhookApprovalInv
     DEF Next
<1>. QED  BY <1>2, <1>3

\* The inductive invariant of the approval flow holds of every behaviour.
THEOREM ApprovalsInvariant == Spec => []ApprovalInv
  BY InitApprovalInv, NextApprovalInv, PTL DEF Spec

\* However many officers decide a request at once, no one decides a request
\* they made and no one holds two decisions on it (approvePayoutRequest).
THEOREM DutiesSegregated == Spec => []SegregationOfDuties
<1>1. ApprovalInv => SegregationOfDuties
  BY DEF ApprovalInv
<1>. QED  BY <1>1, ApprovalsInvariant, PTL

\* Whatever the thresholds, money is handed to the provider only on as many
\* different officers' approvals as the policy in force then demanded.
THEOREM ApproversSuffice == Spec => []EnoughApprovers
<1>1. ApprovalInv => EnoughApprovers
  BY DEF ApprovalInv
<1>. QED  BY <1>1, ApprovalsInvariant, PTL

-----------------------------------------------------------------------------
(* Settlement. *)

\* Webhooks are served by at most one handler.
SerialHooks == \A g, h \in HookHandlers : g = h

OnlyHookHandlers == \A h \in Handlers : handler[h].op = "hook" => h \in HookHandlers

\* What a webhook that found its request in transfer read is still so.
HookFresh ==
    \A h \in Handlers :
        handler[h].op = "hook" /\ handler[h].found = "TRANSFER_PENDING" =>
            status[handler[h].req] = "TRANSFER_PENDING"

SettlementInv ==
    /\ ApprovalInv
    /\ OnlyHookHandlers
    /\ HookFresh
    /\ BookedIffSucceeded

-----------------------------------------------------------------------------
(* The four ways in which a step changes the rows and the ledger. *)

Quiet == UNCHANGED <<status, posted>>

\* A request is created, or a decision on it is committed.
Decide(r) ==
    /\ status[r] \in {"absent", "PENDING"}
    /\ \E st \in {"PENDING", "REJECTED", "TRANSFER_PENDING", "TRANSFER_FAILED"} :
          status' = [status EXCEPT ![r] = st]
    /\ UNCHANGED posted

Fail(r) ==
    /\ status[r] = "TRANSFER_PENDING"
    /\ status' = [status EXCEPT ![r] = "TRANSFER_FAILED"]
    /\ UNCHANGED posted

Succeed(r) ==
    /\ status[r] = "TRANSFER_PENDING"
    /\ status' = [status EXCEPT ![r] = "SUCCEEDED"]
    /\ posted' = [posted EXCEPT ![r] = @ + 1]

RowStep == Quiet \/ \E r \in Requests : Decide(r) \/ Fail(r) \/ Succeed(r)

LEMMA CreateRowStep ==
  ASSUME NEW h \in Handlers, NEW r \in Requests, CreateInsert(h, r)
  PROVE  Decide(r)
  BY DEF CreateInsert, Decide, ledgerVars

LEMMA DecideRowStep ==
  ASSUME ApprovalInv, NEW h \in Handlers, ApproveReject(h) \/ ApproveSettle(h)
  PROVE  \E r \in Requests : Decide(r)
<1>. DEFINE r == handler[h].req
<1>1. Deciding(h)
  BY DEF ApproveReject, ApproveSettle, Deciding
<1>2. r \in Requests /\ status[r] = "PENDING"
  BY <1>1, DecidedRow
<1>3. CASE ApproveReject(h)
  BY <1>2, <1>3 DEF ApproveReject, Decide, ledgerVars
<1>4. CASE ApproveSettle(h)
  BY <1>2, <1>4 DEF ApproveSettle, Decide
<1>. QED  BY <1>3, <1>4

LEMMA WebhookRowStep ==
  ASSUME ApprovalInv, HookFresh, NEW h \in Handlers, WebhookCommit(h)
  PROVE  Quiet \/ \E r \in Requests : Fail(r) \/ Succeed(r)
<1>. DEFINE r == handler[h].req
            s == handler[h].outcome
            found == handler[h].found
<1>1. r \in Requests
  BY CallTypes DEF WebhookCommit, ApprovalInv, HookCall
<1>2. found = "TRANSFER_PENDING" => status[r] = "TRANSFER_PENDING"
  BY DEF WebhookCommit, HookFresh
<1>3. CASE HookUnmatched(r, s, found) \/ HookAlreadyProcessed(r, s, found)
  BY <1>3 DEF HookUnmatched, HookAlreadyProcessed, Quiet
<1>4. CASE HookFailed(r, s, found)
  BY <1>1, <1>2, <1>4 DEF HookFailed, Fail
<1>5. CASE HookSucceeded(r, s, found)
  BY <1>1, <1>2, <1>5 DEF HookSucceeded, Succeed
<1>. QED  BY <1>3, <1>4, <1>5 DEF WebhookCommit

\* Every step of the system is one of the four.
LEMMA NextRowStep ==
  ASSUME ApprovalInv, HookFresh, [Next]_vars
  PROVE  RowStep
<1>1. CASE UNCHANGED vars
  BY <1>1 DEF vars, requestVars, ledgerVars, RowStep, Quiet
<1>2. ASSUME \/ \E p \in Recipients : CreatePayoutRecipient(p)
             \/ \E p \in Policies : UpdateFundControlPolicy(p)
             \/ NextDay
             \/ \E r \in Requests, s \in Outcomes : ProviderReport(r, s) \/ IgnoreEvent(r, s)
      PROVE  Quiet
  BY <1>2 DEF CreatePayoutRecipient, UpdateFundControlPolicy, NextDay, ProviderReport, IgnoreEvent,
     requestVars, ledgerVars, Quiet
<1>3. ASSUME NEW h \in Handlers,
             \/ \E o \in Officers, a \in Amounts, p \in Recipients : CreateCheck(h, o, a, p)
             \/ \E o \in Officers, r \in Requests : ApproveLock(h, o, r)
             \/ ApproveWait(h) \/ ApproveCallProvider(h)
             \/ \E r \in Requests, s \in Outcomes : WebhookRead(h, r, s)
             \/ Abort(h)
      PROVE  Quiet
  BY <1>3 DEF CreateCheck, ApproveLock, ApproveWait, ApproveCallProvider, WebhookRead, Abort,
     requestVars, ledgerVars, Quiet
<1>4. CASE Next
  BY <1>2, <1>3, <1>4, CreateRowStep, DecideRowStep, WebhookRowStep DEF Next, RowStep
<1>. QED  BY <1>1, <1>4
-----------------------------------------------------------------------------
LEMMA InitSettlementInv == Init => SettlementInv
  BY InitApprovalInv DEF Init, Idle, SettlementInv, OnlyHookHandlers, HookFresh,
     BookedIffSucceeded

\* A handler serves a webhook only because it did, or because it just read one.
LEMMA HookHandlerStep ==
  ASSUME TypeOK, [Next]_vars, NEW g \in Handlers, handler'[g].op = "hook"
  PROVE  \/ handler'[g] = handler[g]
         \/ \E r \in Requests, s \in Outcomes : WebhookRead(g, r, s)
<1>. SUFFICES ASSUME handler'[g] # handler[g]
              PROVE  \E r \in Requests, s \in Outcomes : WebhookRead(g, r, s)
  OBVIOUS
<1>1. Next
  BY DEF vars
<1>2. ASSUME NEW h \in Handlers, NEW call, handler' = [handler EXCEPT ![h] = call]
      PROVE  g = h /\ call.op = "hook"
  BY <1>2 DEF TypeOK
<1>3. ASSUME NEW h \in Handlers, End(h) PROVE FALSE
  BY <1>2, <1>3 DEF End, Idle
<1>4. ASSUME \/ \E p \in Recipients : CreatePayoutRecipient(p)
             \/ \E p \in Policies : UpdateFundControlPolicy(p)
             \/ NextDay
             \/ \E r \in Requests, s \in Outcomes : ProviderReport(r, s) \/ IgnoreEvent(r, s)
      PROVE  FALSE
  BY <1>4 DEF CreatePayoutRecipient, UpdateFundControlPolicy, NextDay, ProviderReport, IgnoreEvent
<1>5. ASSUME NEW h \in Handlers,
             \/ \E r \in Requests : CreateInsert(h, r)
             \/ ApproveReject(h) \/ ApproveWait(h) \/ ApproveSettle(h)
             \/ WebhookCommit(h) \/ Abort(h)
      PROVE  FALSE
  BY <1>3, <1>5 DEF CreateInsert, ApproveReject, ApproveWait, ApproveSettle, WebhookCommit, Abort
<1>6. ASSUME NEW h \in Handlers, NEW o \in Officers, NEW a \in Amounts, NEW p \in Recipients,
             CreateCheck(h, o, a, p)
      PROVE  FALSE
  BY <1>2, <1>6 DEF CreateCheck, Begin
<1>7. ASSUME NEW h \in Handlers, NEW o \in Officers, NEW r \in Requests, ApproveLock(h, o, r)
      PROVE  FALSE
  BY <1>2, <1>7 DEF ApproveLock, Begin
<1>8. ASSUME NEW h \in Handlers, ApproveCallProvider(h) PROVE FALSE
  <2>1. PICK call : handler' = [handler EXCEPT ![h] = call] /\ call.op = "settle"
    BY <1>8 DEF ApproveCallProvider
  <2>. QED  BY <1>2, <2>1
<1>9. ASSUME NEW h \in Handlers, NEW r \in Requests, NEW s \in Outcomes, WebhookRead(h, r, s)
      PROVE  h = g
  BY <1>2, <1>9 DEF WebhookRead, Begin
<1>. QED  BY <1>1, <1>4, <1>5, <1>6, <1>7, <1>8, <1>9 DEF Next

LEMMA NextOnlyHookHandlers ==
  ASSUME TypeOK, OnlyHookHandlers, [Next]_vars
  PROVE  OnlyHookHandlers'
<1>. SUFFICES ASSUME NEW g \in Handlers, handler'[g].op = "hook" PROVE g \in HookHandlers
  BY DEF OnlyHookHandlers
<1>1. CASE handler'[g] = handler[g]
  BY <1>1 DEF OnlyHookHandlers
<1>2. ASSUME NEW r \in Requests, NEW s \in Outcomes, WebhookRead(g, r, s)
      PROVE  g \in HookHandlers
  BY <1>2 DEF WebhookRead
<1>. QED  BY <1>1, <1>2, HookHandlerStep

\* Only a webhook's commit moves a request out of transfer.
LEMMA KeepsTransfer ==
  ASSUME ApprovalInv, HookFresh, [Next]_vars, NEW q \in Requests,
         status[q] = "TRANSFER_PENDING",
         ~ \E h \in Handlers : WebhookCommit(h)
  PROVE  status'[q] = "TRANSFER_PENDING"
<1>1. CASE UNCHANGED vars
  BY <1>1 DEF vars, requestVars
<1>2. ASSUME \/ \E p \in Recipients : CreatePayoutRecipient(p)
             \/ \E p \in Policies : UpdateFundControlPolicy(p)
             \/ NextDay
             \/ \E r \in Requests, s \in Outcomes : ProviderReport(r, s) \/ IgnoreEvent(r, s)
      PROVE  UNCHANGED status
  BY <1>2 DEF CreatePayoutRecipient, UpdateFundControlPolicy, NextDay, ProviderReport, IgnoreEvent, requestVars
<1>3. ASSUME NEW h \in Handlers,
             \/ \E o \in Officers, a \in Amounts, p \in Recipients : CreateCheck(h, o, a, p)
             \/ \E o \in Officers, r \in Requests : ApproveLock(h, o, r)
             \/ ApproveWait(h) \/ ApproveCallProvider(h)
             \/ \E r \in Requests, s \in Outcomes : WebhookRead(h, r, s)
             \/ Abort(h)
      PROVE  UNCHANGED status
  BY <1>3 DEF CreateCheck, ApproveLock, ApproveWait, ApproveCallProvider, WebhookRead, Abort,
     requestVars
<1>4. ASSUME NEW r \in Requests, Decide(r) PROVE status'[q] = status[q]
  BY <1>4 DEF Decide, ApprovalInv, TypeOK
<1>5. CASE Next
  BY <1>2, <1>3, <1>4, <1>5, CreateRowStep, DecideRowStep DEF Next
<1>. QED  BY <1>1, <1>5

LEMMA NextHookFresh ==
  ASSUME SerialHooks, ApprovalInv, OnlyHookHandlers, HookFresh, [Next]_vars
  PROVE  HookFresh'
<1>. SUFFICES ASSUME NEW g \in Handlers, handler'[g].op = "hook",
                     handler'[g].found = "TRANSFER_PENDING"
              PROVE  status'[handler'[g].req] = "TRANSFER_PENDING"
  BY DEF HookFresh
<1>1. CASE handler'[g] = handler[g]
  <2>1. handler[g].req \in Requests /\ status[handler[g].req] = "TRANSFER_PENDING"
    BY <1>1, CallTypes DEF ApprovalInv, HookFresh, HookCall
  <2>2. ASSUME NEW h \in Handlers, WebhookCommit(h) PROVE FALSE
    <3>1. handler[h].op = "hook" /\ handler'[h] = Idle
      BY <2>2 DEF WebhookCommit, End, ApprovalInv, TypeOK
    <3>2. g = h
      BY <1>1, <3>1 DEF SerialHooks, OnlyHookHandlers
    <3>. QED  BY <3>1, <3>2 DEF Idle
  <2>. QED  BY <1>1, <2>1, <2>2, KeepsTransfer
<1>2. ASSUME NEW r \in Requests, NEW s \in Outcomes, WebhookRead(g, r, s)
      PROVE  status'[handler'[g].req] = "TRANSFER_PENDING"
  <2>1. handler'[g].req = r /\ handler'[g].found \in {status[r], "absent"}
    BY <1>2 DEF WebhookRead, Begin, ApprovalInv, TypeOK
  <2>. QED  BY <1>2, <2>1 DEF WebhookRead, requestVars
<1>. QED  BY <1>1, <1>2, HookHandlerStep DEF ApprovalInv

LEMMA RowStepBooks ==
  ASSUME TypeOK, BookedIffSucceeded, RowStep
  PROVE  BookedIffSucceeded'
<1>1. CASE Quiet
  BY <1>1 DEF Quiet, BookedIffSucceeded
<1>2. ASSUME NEW r \in Requests, Decide(r) \/ Fail(r) PROVE BookedIffSucceeded'
  BY <1>2 DEF Decide, Fail, BookedIffSucceeded, TypeOK
<1>3. ASSUME NEW r \in Requests, Succeed(r) PROVE BookedIffSucceeded'
  BY <1>3 DEF Succeed, BookedIffSucceeded, TypeOK
<1>. QED  BY <1>1, <1>2, <1>3 DEF RowStep

LEMMA NextSettlementInv ==
  ASSUME SerialHooks, SettlementInv, [Next]_vars
  PROVE  SettlementInv'
<1>1. RowStep
  BY NextRowStep DEF SettlementInv
<1>2. ApprovalInv'
  BY NextApprovalInv DEF SettlementInv
<1>. QED
  BY <1>1, <1>2, NextOnlyHookHandlers, NextHookFresh, RowStepBooks
  DEF SettlementInv, ApprovalInv

LEMMA SettlementInvariant == SerialHooks => (Spec => []SettlementInv)
<1>. SUFFICES ASSUME SerialHooks PROVE Spec => []SettlementInv
  OBVIOUS
<1>1. SettlementInv /\ [Next]_vars => SettlementInv'
  BY NextSettlementInv
<1>. QED  BY <1>1, InitSettlementInv, PTL DEF Spec
-----------------------------------------------------------------------------
\* With webhooks served one at a time, the ledger holds exactly one
\* disbursement for a paid request and none for another
\* (confirmPayoutTransfer: "posted only once, only here").
THEOREM BookedExactly == SerialHooks => (Spec => []BookedIffSucceeded)
<1>1. SettlementInv => BookedIffSucceeded
  BY DEF SettlementInv
<1>. QED  BY <1>1, SettlementInvariant, PTL

\* With webhooks served one at a time, a rejected, failed or paid request is
\* never changed again, by a late approval or by a late or repeated webhook.
THEOREM AnswersFinal == SerialHooks => (Spec => AnswersAreFinal)
<1>. SUFFICES ASSUME SerialHooks PROVE Spec => AnswersAreFinal
  OBVIOUS
<1>. DEFINE Kept == \A r \in Requests :
                       status[r] \in {"REJECTED", "TRANSFER_FAILED", "SUCCEEDED"} =>
                          status'[r] = status[r]
<1>1. SettlementInv /\ [Next]_vars => Kept
  <2>. SUFFICES ASSUME SettlementInv, [Next]_vars PROVE Kept
    OBVIOUS
  <2>1. RowStep
    BY NextRowStep DEF SettlementInv
  <2>2. TypeOK
    BY DEF SettlementInv, ApprovalInv
  <2>. QED  BY <2>1, <2>2 DEF RowStep, Quiet, Decide, Fail, Succeed, TypeOK
<1>. QED  BY <1>1, SettlementInvariant, PTL DEF Spec, AnswersAreFinal

\* With webhooks served one at a time, the payout flow implements the
\* settlement of provider operations: each request is confirmed and booked in
\* one step, at most once, or refused, and neither answer is revisited.
THEOREM PayoutsSettle == SerialHooks => (Spec => ImplementsSettlement)
<1>. SUFFICES ASSUME SerialHooks PROVE Spec => ImplementsSettlement
  OBVIOUS
<1>1. Init => Confirmation!SettlementInit
  BY DEF Init, Confirmation!SettlementInit, Outcome
<1>2. SettlementInv /\ [Next]_vars =>
        [Confirmation!SettlementNext]_(Confirmation!settlementVars)
  <2>. SUFFICES ASSUME SettlementInv, [Next]_vars
                PROVE  [Confirmation!SettlementNext]_(Confirmation!settlementVars)
    OBVIOUS
  <2>1. RowStep
    BY NextRowStep DEF SettlementInv
  <2>2. TypeOK
    BY DEF SettlementInv, ApprovalInv
  <2>3. CASE Quiet
    BY <2>3 DEF Quiet, Confirmation!settlementVars, Outcome
  <2>4. ASSUME NEW r \in Requests, Decide(r) \/ Fail(r)
        PROVE  [Confirmation!SettlementNext]_(Confirmation!settlementVars)
    <3>1. CASE status'[r] \in {"REJECTED", "TRANSFER_FAILED"}
      <4>1. Confirmation!Refuse(r)
        BY <2>2, <2>4, <3>1 DEF Decide, Fail, TypeOK, Confirmation!Refuse, Outcome
      <4>. QED  BY <4>1 DEF Confirmation!SettlementNext
    <3>2. CASE status'[r] \notin {"REJECTED", "TRANSFER_FAILED"}
      BY <2>2, <2>4, <3>2 DEF Decide, Fail, TypeOK, Confirmation!settlementVars, Outcome
    <3>. QED  BY <3>1, <3>2
  <2>5. ASSUME NEW r \in Requests, Succeed(r)
        PROVE  Confirmation!SettlementNext
    <3>1. Confirmation!Confirm(r)
      BY <2>2, <2>5 DEF Succeed, TypeOK, Confirmation!Confirm, Outcome
    <3>. QED  BY <3>1 DEF Confirmation!SettlementNext
  <2>. QED  BY <2>1, <2>3, <2>4, <2>5 DEF RowStep
<1>. QED
  BY <1>1, <1>2, SettlementInvariant, PTL
  DEF Spec, ImplementsSettlement, Confirmation!SettlementSpec

-----------------------------------------------------------------------------
(* Induction, over numbers and over finite sets.  The set of the numbers or *)
(* of the sets that have the property takes the place of the property.      *)

LEMMA Least == ASSUME NEW S \in SUBSET Nat, S # {} PROVE \E n \in S : \A m \in S : n <= m
<1>1. PICK n \in S : \A m \in S : ~ (<<m, n>> \in OpToRel(<, Nat))
  BY WFMin, NatLessThanWellFounded
<1>2. \A m \in S : ~ (m < n)
  BY <1>1 DEF OpToRel
<1>. QED  BY <1>2

LEMMA NatSets ==
  ASSUME NEW T \in SUBSET Nat, 0 \in T, \A n \in T : n + 1 \in T
  PROVE  \A n \in Nat : n \in T
<1>. SUFFICES ASSUME Nat \ T # {} PROVE FALSE
  OBVIOUS
<1>1. PICK n \in Nat \ T : \A m \in Nat \ T : n <= m
  BY Least
<1>2. n - 1 \in Nat /\ ~(n <= n - 1)
  BY <1>1
<1>3. n - 1 \in T
  BY <1>1, <1>2
<1>4. (n - 1) + 1 = n
  BY <1>1
<1>. QED  BY <1>1, <1>3, <1>4

LEMMA SetsByRemoval ==
  ASSUME NEW S, IsFiniteSet(S), NEW T,
         \A s \in SUBSET S : (\A x \in s : s \ {x} \in T) => s \in T
  PROVE  \A s \in SUBSET S : s \in T
<1>. DEFINE N == {n \in Nat : \E s \in SUBSET S : s \notin T /\ Cardinality(s) = n}
<1>. SUFFICES ASSUME NEW s0 \in SUBSET S, s0 \notin T PROVE FALSE
  OBVIOUS
<1>1. \A s \in SUBSET S : IsFiniteSet(s) /\ Cardinality(s) \in Nat
  BY FS_Subset, FS_CardinalityType
<1>2. N \in SUBSET Nat /\ N # {}
  BY <1>1
<1>3. PICK n \in N : \A m \in N : n <= m
  BY <1>2, Least
<1>4. PICK s \in SUBSET S : s \notin T /\ Cardinality(s) = n
  BY <1>3
<1>5. ASSUME NEW x \in s PROVE s \ {x} \in T
  <2>1. Cardinality(s \ {x}) = n - 1 /\ n \in Nat
    BY <1>1, <1>4, FS_RemoveElement
  <2>2. s \ {x} \in SUBSET S /\ Cardinality(s \ {x}) \in Nat
    BY <1>1
  <2>3. Cardinality(s \ {x}) \notin N
    <3>1. ~(n <= n - 1)
      BY <2>1
    <3>. HIDE DEF N
    <3>. QED  BY <1>3, <2>1, <3>1
  <2>. QED  BY <2>2, <2>3
<1>. QED  BY <1>4, <1>5

\* A function of the subsets of a finite set can be defined by removing, from
\* each, the element c picks.
Foldable(S, V, base, c, F) ==
    /\ IsFiniteSet(S) /\ base \in V
    /\ \A s \in SUBSET S : s # {} => c[s] \in s
    /\ \A s \in SUBSET S : \A v \in V : s # {} => F[s][v] \in V

IsFold(g, S, V, base, c, F) ==
    /\ g \in [SUBSET S -> V]
    /\ \A s \in SUBSET S : g[s] = IF s = {} THEN base ELSE F[s][g[s \ {c[s]}]]

LEMMA FoldExists ==
  ASSUME NEW S, NEW V, NEW base, NEW c, NEW F, Foldable(S, V, base, c, F)
  PROVE  \E g : IsFold(g, S, V, base, c, F)
<1>. USE DEF Foldable
<1>. DEFINE Next1(g) == [s \in SUBSET S |-> IF s = {} THEN base ELSE F[s][g[s \ {c[s]}]]]
            Good(g, n) == \A s \in SUBSET S : Cardinality(s) <= n => g[s] = Next1(g)[s]
            T == {n \in Nat : \E g \in [SUBSET S -> V] : Good(g, n)}
<1>1. \A s \in SUBSET S : IsFiniteSet(s) /\ Cardinality(s) \in Nat
  BY FS_Subset, FS_CardinalityType
<1>2. 0 \in T
  <2>. DEFINE g == [s \in SUBSET S |-> base]
  <2>1. \A s \in SUBSET S : Cardinality(s) <= 0 => s = {}
    BY <1>1, FS_EmptySet
  <2>2. g \in [SUBSET S -> V] /\ Good(g, 0)
    BY <2>1
  <2>. QED  BY <2>2
<1>3. ASSUME NEW n \in T PROVE n + 1 \in T
  <2>1. PICK g \in [SUBSET S -> V] : Good(g, n)
    OBVIOUS
  <2>2. PICK h : h = Next1(g)
    OBVIOUS
  <2>3. \A s \in SUBSET S : s # {} => c[s] \in s /\ s \ {c[s]} \in SUBSET S
    OBVIOUS
  <2>4. h \in [SUBSET S -> V]
    BY <2>2, <2>3
  <2>5. ASSUME NEW s \in SUBSET S, Cardinality(s) <= n + 1 PROVE h[s] = Next1(h)[s]
    <3>1. CASE s = {}
      BY <2>2, <3>1
    <3>2. CASE s # {}
      <4>1. s \ {c[s]} \in SUBSET S /\ Cardinality(s \ {c[s]}) <= n
        <5>1. s \ {c[s]} \in SUBSET S /\ Cardinality(s \ {c[s]}) = Cardinality(s) - 1
          BY <1>1, <2>3, <3>2, FS_RemoveElement
        <5>. QED  BY <1>1, <1>3, <2>5, <5>1
      <4>2. g[s \ {c[s]}] = h[s \ {c[s]}]
        BY <2>1, <2>2, <4>1
      <4>3. h[s] = F[s][g[s \ {c[s]}]]
        BY <2>2, <3>2
      <4>. QED  BY <3>2, <4>2, <4>3
    <3>. QED  BY <3>1, <3>2
  <2>6. Good(h, n + 1)
    BY <2>5
  <2>7. n + 1 \in Nat
    OBVIOUS
  <2>. HIDE DEF Good
  <2>. QED  BY <2>4, <2>6, <2>7
<1>4. Cardinality(S) \in Nat /\ \A s \in SUBSET S : Cardinality(s) <= Cardinality(S)
  BY FS_CardinalityType, FS_Subset
<1>5. Cardinality(S) \in T
  <2>1. T \in SUBSET Nat
    OBVIOUS
  <2>. HIDE DEF T
  <2>. QED  BY <1>2, <1>3, <1>4, <2>1, NatSets
<1>6. PICK g \in [SUBSET S -> V] : Good(g, Cardinality(S))
  BY <1>5
<1>7. \A s \in SUBSET S : g[s] = IF s = {} THEN base ELSE F[s][g[s \ {c[s]}]]
  BY <1>4, <1>6
<1>. QED  BY <1>7 DEF IsFold

-----------------------------------------------------------------------------
(* Sums of a function over a finite set. *)

Total(f, S) == MapThenSumSet(LAMBDA x : f[x], S)

\* The sums over the subsets of S, as the fold computes them.
IsTotals(g, f, S) ==
    \A s \in SUBSET S :
        /\ g[s] \in Int
        /\ g[s] = IF s = {} THEN 0
                  ELSE f[CHOOSE x \in s : TRUE] + g[s \ {CHOOSE x \in s : TRUE}]

LEMMA TotalsUnique ==
  ASSUME NEW S, IsFiniteSet(S), NEW f, NEW g, NEW R \in SUBSET S, NEW h,
         IsTotals(g, f, S), IsTotals(h, f, R)
  PROVE  g[R] = h[R]
<1>. DEFINE T == {s \in SUBSET R : g[s] = h[s]}
<1>1. IsFiniteSet(R)
  BY FS_Subset
<1>2. ASSUME NEW s \in SUBSET R, \A x \in s : s \ {x} \in T PROVE s \in T
  <2>1. CASE s = {}
    BY <2>1 DEF IsTotals
  <2>2. CASE s # {}
    <3>1. PICK c \in s : c = CHOOSE x \in s : TRUE
      BY <2>2
    <3>2. g[s \ {c}] = h[s \ {c}]
      BY <1>2
    <3>3. g[s] = f[c] + g[s \ {c}] /\ h[s] = f[c] + h[s \ {c}]
      BY <2>2, <3>1 DEF IsTotals
    <3>. QED  BY <3>2, <3>3
  <2>. QED  BY <2>1, <2>2
<1>. HIDE DEF T
<1>3. R \in T
  BY <1>1, <1>2, SetsByRemoval
<1>. QED  BY <1>3 DEF T

LEMMA TotalsExist ==
  ASSUME NEW S, IsFiniteSet(S), NEW f, \A x \in S : f[x] \in Int
  PROVE  \E g : IsTotals(g, f, S) /\ Total(f, S) = g[S]
<1>. DEFINE c == [s \in SUBSET S |-> CHOOSE x \in s : TRUE]
            F == [s \in SUBSET S |-> [v \in Int |-> f[CHOOSE x \in s : TRUE] + v]]
            Rec(g) == [s \in SUBSET S |->
                          IF s = {} THEN 0
                          ELSE f[CHOOSE x \in s : TRUE] + g[s \ {CHOOSE x \in s : TRUE}]]
<1>1. \A s \in SUBSET S : s # {} => (CHOOSE x \in s : TRUE) \in s
  OBVIOUS
<1>2. \A s \in SUBSET S : s # {} => c[s] \in s
  BY <1>1
<1>3. \A s \in SUBSET S : \A v \in Int : s # {} => F[s][v] \in Int
  BY <1>1
<1>4. PICK g \in [SUBSET S -> Int] : \A s \in SUBSET S :
         g[s] = IF s = {} THEN 0 ELSE F[s][g[s \ {c[s]}]]
  <2>. HIDE DEF F, c, Rec
  <2>1. Foldable(S, Int, 0, c, F)
    BY <1>2, <1>3 DEF Foldable
  <2>2. PICK g : IsFold(g, S, Int, 0, c, F)
    BY <2>1, FoldExists
  <2>. QED  BY <2>2 DEF IsFold
<1>5. g = Rec(g)
  <2>1. \A s \in SUBSET S : g[s] = Rec(g)[s]
    <3>. SUFFICES ASSUME NEW s \in SUBSET S PROVE g[s] = Rec(g)[s]
      OBVIOUS
    <3>1. g[s \ {c[s]}] \in Int
      OBVIOUS
    <3>. QED  BY <1>4, <3>1
  <2>. QED  BY <2>1
<1>6. PICK r : r = Rec(r) /\ r = CHOOSE h : h = Rec(h)
  BY <1>5
<1>7. \A s \in SUBSET S : r[s] = IF s = {} THEN 0 ELSE
             f[CHOOSE x \in s : TRUE] + r[s \ {CHOOSE x \in s : TRUE}]
  BY <1>6
<1>8. \A s \in SUBSET S : r[s] \in Int
  <2>. DEFINE T == {s \in SUBSET S : r[s] \in Int}
  <2>1. ASSUME NEW s \in SUBSET S, \A x \in s : s \ {x} \in T PROVE s \in T
    <3>1. CASE s = {}
      <4>1. r[s] = 0
        BY <1>7, <3>1
      <4>2. r[s] \in Int
        BY <4>1
      <4>. QED  BY <4>2
    <3>2. CASE s # {}
      <4>1. PICK x \in s : x = CHOOSE y \in s : TRUE
        BY <3>2
      <4>2. r[s] = f[x] + r[s \ {x}]
        BY <1>7, <3>2, <4>1
      <4>3. r[s \ {x}] \in Int /\ f[x] \in Int
        BY <2>1
      <4>4. r[s] \in Int
        <5>1. \A a, b \in Int : a + b \in Int
          OBVIOUS
        <5>. QED  BY <4>2, <4>3, <5>1
      <4>. QED  BY <4>4
    <3>. QED  BY <3>1, <3>2
  <2>2. \A s \in SUBSET S : s \in T
    <3>. HIDE DEF T
    <3>. QED  BY <2>1, SetsByRemoval
  <2>. QED  BY <2>2
<1>9. Total(f, S) = r[S]
  BY <1>6, Zenon DEF Total, MapThenSumSet, MapThenFoldSet
<1>. QED  BY <1>7, <1>8, <1>9 DEF IsTotals

\* The sum does not depend on the order in which elements are picked.
LEMMA TotalRemove ==
  ASSUME NEW S, IsFiniteSet(S), NEW f, \A x \in S : f[x] \in Int, NEW y \in S
  PROVE  /\ Total(f, S) = f[y] + Total(f, S \ {y})
         /\ Total(f, S) \in Int /\ Total(f, S \ {y}) \in Int
<1>1. PICK g : IsTotals(g, f, S) /\ Total(f, S) = g[S]
  BY TotalsExist
<1>2. IsFiniteSet(S \ {y}) /\ \A x \in S \ {y} : f[x] \in Int
  BY FS_RemoveElement
<1>3. PICK h : IsTotals(h, f, S \ {y}) /\ Total(f, S \ {y}) = h[S \ {y}]
  BY <1>2, TotalsExist
<1>4. g[S \ {y}] = Total(f, S \ {y})
  BY <1>1, <1>3, TotalsUnique
<1>. DEFINE T == {s \in SUBSET S : \A x \in s : g[s] = f[x] + g[s \ {x}]}
<1>5. ASSUME NEW s \in SUBSET S, \A x \in s : s \ {x} \in T PROVE s \in T
  <2>. SUFFICES ASSUME NEW x \in s PROVE g[s] = f[x] + g[s \ {x}]
    OBVIOUS
  <2>1. PICK c \in s : c = CHOOSE z \in s : TRUE
    OBVIOUS
  <2>2. g[s] = f[c] + g[s \ {c}]
    BY <1>1, <2>1 DEF IsTotals
  <2>3. CASE x = c
    BY <2>2, <2>3
  <2>4. CASE x # c
    <3>1. g[s \ {c}] = f[x] + g[(s \ {c}) \ {x}]
      BY <1>5, <2>4
    <3>2. g[s \ {x}] = f[c] + g[(s \ {x}) \ {c}]
      BY <1>5, <2>4
    <3>3. g[(s \ {c}) \ {x}] = g[(s \ {x}) \ {c}]
      <4>1. (s \ {c}) \ {x} = (s \ {x}) \ {c}
        OBVIOUS
      <4>. QED  BY <4>1
    <3>4. f[x] \in Int /\ f[c] \in Int /\ g[(s \ {x}) \ {c}] \in Int
      BY <1>1 DEF IsTotals
    <3>5. PICK n \in Int : n = g[(s \ {x}) \ {c}]
      BY <3>4
    <3>. QED  BY <2>2, <3>1, <3>2, <3>3, <3>4, <3>5
  <2>. QED  BY <2>3, <2>4
<1>6. S \in T
  <2>1. S \in SUBSET S
    OBVIOUS
  <2>. HIDE DEF T
  <2>. QED  BY <1>5, <2>1, SetsByRemoval
<1>7. g[S] \in Int /\ g[S \ {y}] \in Int
  BY <1>1 DEF IsTotals
<1>. QED  BY <1>1, <1>4, <1>6, <1>7

LEMMA TotalEmpty == ASSUME NEW f PROVE Total(f, {}) = 0
<1>1. PICK g : IsTotals(g, f, {}) /\ Total(f, {}) = g[{}]
  BY TotalsExist, FS_EmptySet
<1>. QED  BY <1>1 DEF IsTotals

LEMMA TotalType ==
  ASSUME NEW S, IsFiniteSet(S), NEW f, \A x \in S : f[x] \in Int
  PROVE  Total(f, S) \in Int
<1>1. PICK g : IsTotals(g, f, S) /\ Total(f, S) = g[S]
  BY TotalsExist
<1>. QED  BY <1>1 DEF IsTotals

\* Amounts that are left out, and are not negative, make the sum no larger.
LEMMA TotalLess ==
  ASSUME NEW R, IsFiniteSet(R), NEW S \in SUBSET R, NEW f, NEW h,
         \A x \in R : f[x] \in Nat, \A x \in S : h[x] = f[x]
  PROVE  Total(h, S) <= Total(f, R)
<1>. DEFINE T == {s \in SUBSET R : Total(h, s \cap S) <= Total(f, s)}
<1>1. ASSUME NEW s \in SUBSET R, \A x \in s : s \ {x} \in T PROVE s \in T
  <2>1. CASE s = {}
    <3>1. s \cap S = {}
      BY <2>1
    <3>. QED  BY <2>1, <3>1, TotalEmpty
  <2>2. CASE s # {}
    <3>1. PICK x \in s : TRUE
      BY <2>2
    <3>2. /\ IsFiniteSet(s) /\ \A z \in s : f[z] \in Int
          /\ IsFiniteSet(s \cap S) /\ \A z \in s \cap S : h[z] \in Int
      BY FS_Subset
    <3>3. /\ Total(f, s) = f[x] + Total(f, s \ {x})
          /\ Total(f, s \ {x}) \in Int /\ f[x] \in Nat
      BY <3>2, TotalRemove
    <3>4. Total(h, (s \ {x}) \cap S) <= Total(f, s \ {x})
      BY <1>1
    <3>5. CASE x \in S
      <4>1. (s \ {x}) \cap S = (s \cap S) \ {x} /\ x \in s \cap S
        BY <3>5
      <4>2. /\ Total(h, s \cap S) = h[x] + Total(h, (s \cap S) \ {x})
            /\ Total(h, (s \cap S) \ {x}) \in Int /\ h[x] = f[x]
        BY <3>2, <3>5, <4>1, TotalRemove
      <4>3. Total(h, (s \cap S) \ {x}) <= Total(f, s \ {x})
        BY <3>4, <4>1
      <4>. QED  BY <3>3, <4>2, <4>3
    <3>6. CASE x \notin S
      <4>1. (s \ {x}) \cap S = s \cap S
        BY <3>6
      <4>2. Total(h, s \cap S) \in Int
        BY <3>2, TotalType
      <4>3. Total(h, s \cap S) <= Total(f, s \ {x})
        BY <3>4, <4>1
      <4>. QED  BY <3>3, <4>2, <4>3
    <3>. QED  BY <3>5, <3>6
  <2>. QED  BY <2>1, <2>2
<1>2. R \in T
  <2>1. R \in SUBSET R
    OBVIOUS
  <2>. HIDE DEF T
  <2>. QED  BY <1>1, <2>1, SetsByRemoval
<1>3. R \cap S = S
  OBVIOUS
<1>. QED  BY <1>2, <1>3

\* One amount more.
LEMMA TotalMore ==
  ASSUME NEW S, IsFiniteSet(S), NEW y, NEW f, NEW h,
         \A x \in S : f[x] \in Nat /\ h[x] = f[x], h[y] \in Nat
  PROVE  Total(h, S \cup {y}) <= h[y] + Total(f, S)
<1>1. IsFiniteSet(S \cup {y}) /\ \A x \in S \cup {y} : h[x] \in Int
  BY FS_AddElement
<1>2. /\ Total(h, S \cup {y}) = h[y] + Total(h, (S \cup {y}) \ {y})
      /\ Total(h, (S \cup {y}) \ {y}) \in Int
  BY <1>1, TotalRemove
<1>3. (S \cup {y}) \ {y} \in SUBSET S
  OBVIOUS
<1>4. Total(h, (S \cup {y}) \ {y}) <= Total(f, S)
  BY <1>3, TotalLess
<1>5. Total(f, S) \in Int
  BY TotalType
<1>. QED  BY <1>2, <1>4, <1>5
-----------------------------------------------------------------------------
(* The daily and the monthly limit. *)

LiveIn(st, tm, Days) == {r \in Requests : st[r] \in Counted /\ tm[r].on \in Days}
AmountOf(st, tm, Days) == SumFunction([r \in LiveIn(st, tm, Days) |-> tm[r].amount])
ThisMonth == {d \in 0..MaxDay : Month(d) = Month(day)}

\* Rows are dated, and there are finitely many.
Dated ==
    /\ IsFiniteSet({r \in Requests : status[r] # "absent"})
    /\ \A r \in Requests : status[r] # "absent" =>
          /\ terms[r].amount \in Nat
          /\ terms[r].on \in 0..MaxDay /\ terms[r].on <= day

\* pg_advisory_xact_lock: at most one handler creates a request.
OneCreator ==
    \A g, h \in Handlers : handler[g].op = "create" /\ handler[h].op = "create" => g = h

\* The amount a creation checked still fits under the limits it read.
RoomKept ==
    \A h \in Handlers : handler[h].op = "create" =>
        /\ handler[h].amount \in Nat
        /\ DayTotal + handler[h].amount <= handler[h].daily
        /\ MonthTotal + handler[h].amount <= handler[h].monthly

CapsInv == SettlementInv /\ Dated /\ OneCreator /\ RoomKept

LEMMA SumTotal == ASSUME NEW f PROVE SumFunction(f) = Total(f, DOMAIN f)
  BY DEF SumFunction, SumFunctionOnSet, FoldFunctionOnSet, Total, MapThenSumSet

LEMMA Totals ==
  /\ DayTotal = AmountOf(status, terms, {day})
  /\ DayTotal' = AmountOf(status', terms', {day'})
  /\ MonthTotal = AmountOf(status, terms, ThisMonth)
  /\ MonthTotal' = AmountOf(status', terms', ThisMonth')
  BY DEF DayTotal, MonthTotal, CountedAmount, AmountOf, LiveIn, ThisMonth

\* Fewer live requests have no larger total, ...
LEMMA FewerLive ==
  ASSUME NEW st, NEW tm, NEW D, NEW st2, NEW tm2, NEW E,
         IsFiniteSet(LiveIn(st, tm, D)), \A r \in LiveIn(st, tm, D) : tm[r].amount \in Nat,
         LiveIn(st2, tm2, E) \in SUBSET LiveIn(st, tm, D),
         \A r \in LiveIn(st2, tm2, E) : tm2[r].amount = tm[r].amount
  PROVE  AmountOf(st2, tm2, E) <= AmountOf(st, tm, D)
<1>. DEFINE S == LiveIn(st2, tm2, E)
            R == LiveIn(st, tm, D)
            h == [r \in S |-> tm2[r].amount]
            f == [r \in R |-> tm[r].amount]
<1>1. (\A r \in R : f[r] \in Nat) /\ \A r \in S : h[r] = f[r]
  OBVIOUS
<1>2. AmountOf(st2, tm2, E) = Total(h, S) /\ AmountOf(st, tm, D) = Total(f, R)
  <2>1. DOMAIN h = S /\ DOMAIN f = R
    OBVIOUS
  <2>2. AmountOf(st2, tm2, E) = SumFunction(h) /\ AmountOf(st, tm, D) = SumFunction(f)
    BY DEF AmountOf
  <2>. HIDE DEF h, f
  <2>. QED  BY <2>1, <2>2, SumTotal
<1>. HIDE DEF h, f
<1>. QED  BY <1>1, <1>2, TotalLess

\* ... and one more adds its amount.
LEMMA OneMoreLive ==
  ASSUME NEW st, NEW tm, NEW D, NEW st2, NEW tm2, NEW E, NEW y,
         IsFiniteSet(LiveIn(st, tm, D)), \A r \in LiveIn(st, tm, D) : tm[r].amount \in Nat,
         LiveIn(st2, tm2, E) = LiveIn(st, tm, D) \cup {y},
         \A r \in LiveIn(st, tm, D) : tm2[r].amount = tm[r].amount,
         tm2[y].amount \in Nat
  PROVE  AmountOf(st2, tm2, E) <= AmountOf(st, tm, D) + tm2[y].amount
<1>. DEFINE S == LiveIn(st2, tm2, E)
            R == LiveIn(st, tm, D)
            h == [r \in S |-> tm2[r].amount]
            f == [r \in R |-> tm[r].amount]
<1>1. (\A r \in R : f[r] \in Nat /\ h[r] = f[r]) /\ h[y] \in Nat /\ h[y] = tm2[y].amount
  OBVIOUS
<1>2. AmountOf(st2, tm2, E) = Total(h, S) /\ AmountOf(st, tm, D) = Total(f, R)
  <2>1. DOMAIN h = S /\ DOMAIN f = R
    OBVIOUS
  <2>2. AmountOf(st2, tm2, E) = SumFunction(h) /\ AmountOf(st, tm, D) = SumFunction(f)
    BY DEF AmountOf
  <2>. HIDE DEF h, f
  <2>. QED  BY <2>1, <2>2, SumTotal
<1>3. Total(h, R \cup {y}) <= h[y] + Total(f, R)
  <2>. HIDE DEF h, f
  <2>. QED  BY <1>1, TotalMore
<1>4. Total(f, R) \in Int
  <2>1. \A r \in R : f[r] \in Int
    BY <1>1
  <2>. HIDE DEF h, f
  <2>. QED  BY <2>1, TotalType
<1>. QED  BY <1>1, <1>2, <1>3, <1>4

LEMMA LiveRows ==
  ASSUME CapsInv, NEW D
  PROVE  /\ IsFiniteSet(LiveIn(status, terms, D))
         /\ \A r \in LiveIn(status, terms, D) : terms[r].amount \in Nat
         /\ AmountOf(status, terms, D) \in Int
<1>. DEFINE R == LiveIn(status, terms, D)
            f == [r \in R |-> terms[r].amount]
<1>1. R \in SUBSET {r \in Requests : status[r] # "absent"}
  BY DEF LiveIn, Counted
<1>2. IsFiniteSet(R) /\ \A r \in R : f[r] \in Int /\ terms[r].amount \in Nat
  BY <1>1, FS_Subset DEF CapsInv, Dated
<1>3. AmountOf(status, terms, D) = SumFunction(f) /\ DOMAIN f = R
  BY DEF AmountOf
<1>. HIDE DEF f
<1>4. AmountOf(status, terms, D) \in Int
  BY <1>2, <1>3, SumTotal, TotalType
<1>. QED  BY <1>2, <1>4

\* A creation's commit apart, no step inserts a row, changes its terms or
\* brings it back under the limits.
LEMMA RowsKept ==
  ASSUME SettlementInv, [Next]_vars,
         ~ \E h \in Handlers, r \in Requests : CreateInsert(h, r)
  PROVE  /\ terms' = terms
         /\ \A q \in Requests :
               /\ status'[q] = "absent" <=> status[q] = "absent"
               /\ status'[q] \in Counted => status[q] \in Counted
<1>. USE DEF requestVars, ledgerVars, providerVars, configVars
<1>1. CASE UNCHANGED vars
  BY <1>1 DEF vars
<1>2. ASSUME \/ \E p \in Recipients : CreatePayoutRecipient(p)
             \/ \E p \in Policies : UpdateFundControlPolicy(p)
             \/ NextDay
             \/ \E r \in Requests, s \in Outcomes : ProviderReport(r, s) \/ IgnoreEvent(r, s)
      PROVE  UNCHANGED <<status, terms>>
  BY <1>2 DEF CreatePayoutRecipient, UpdateFundControlPolicy, NextDay, ProviderReport, IgnoreEvent
<1>3. ASSUME NEW h \in Handlers,
             \/ \E o \in Officers, a \in Amounts, p \in Recipients : CreateCheck(h, o, a, p)
             \/ \E o \in Officers, r \in Requests : ApproveLock(h, o, r)
             \/ ApproveWait(h) \/ ApproveCallProvider(h)
             \/ \E r \in Requests, s \in Outcomes : WebhookRead(h, r, s)
             \/ Abort(h)
      PROVE  UNCHANGED <<status, terms>>
  BY <1>3 DEF CreateCheck, ApproveLock, ApproveWait, ApproveCallProvider, WebhookRead, Abort
<1>. DEFINE Kept == \A q \in Requests :
               /\ status'[q] = "absent" <=> status[q] = "absent"
               /\ status'[q] \in Counted => status[q] \in Counted
<1>4. ASSUME NEW h \in Handlers, ApproveReject(h) \/ ApproveSettle(h)
      PROVE  terms' = terms /\ Kept
  <2>1. PICK r \in Requests : r = handler[h].req /\ status[r] = "PENDING"
    <3>1. Deciding(h)
      BY <1>4 DEF ApproveReject, ApproveSettle, Deciding
    <3>. QED  BY <3>1, DecidedRow DEF SettlementInv
  <2>2. \E st \in {"REJECTED", "TRANSFER_PENDING", "TRANSFER_FAILED"} :
           status' = [status EXCEPT ![r] = st]
    BY <1>4, <2>1 DEF ApproveReject, ApproveSettle
  <2>3. status \in [Requests -> Statuses]
    BY DEF SettlementInv, ApprovalInv, TypeOK
  <2>4. terms' = terms
    BY <1>4 DEF ApproveReject, ApproveSettle
  <2>. QED  BY <2>1, <2>2, <2>3, <2>4 DEF Counted
<1>5. ASSUME NEW h \in Handlers, WebhookCommit(h) PROVE terms' = terms /\ Kept
  <2>1. terms' = terms
    BY <1>5 DEF WebhookCommit
  <2>2. Quiet \/ \E r \in Requests : Fail(r) \/ Succeed(r)
    BY <1>5, WebhookRowStep DEF SettlementInv
  <2>3. status \in [Requests -> Statuses]
    BY DEF SettlementInv, ApprovalInv, TypeOK
  <2>. QED  BY <2>1, <2>2, <2>3 DEF Quiet, Fail, Succeed, Counted
<1>. QED  BY <1>1, <1>2, <1>3, <1>4, <1>5 DEF Next

\* A new day, or a new month, begins without payouts of its own.
LEMMA Dates ==
  ASSUME NEW d \in 0..MaxDay, NEW e \in 0..MaxDay, NEW on \in 0..MaxDay,
         on <= d, d <= e, Month(on) = Month(e)
  PROVE  Month(on) = Month(d)
  BY PayoutsAssumption DEF Month

\* Days pass one by one.
LEMMA NextDayOnly == ASSUME [Next]_vars PROVE day' = day \/ NextDay
  BY DEF Next, vars, configVars, CreatePayoutRecipient, UpdateFundControlPolicy, CreateCheck,
     CreateInsert, ApproveLock, ApproveReject, ApproveWait, ApproveCallProvider, ApproveSettle,
     ProviderReport, IgnoreEvent, WebhookRead, WebhookCommit, Abort

LEMMA DayType == ASSUME CapsInv PROVE day \in 0..MaxDay
  BY DEF CapsInv, SettlementInv, ApprovalInv, TypeOK

LEMMA TotalsKept ==
  ASSUME CapsInv, [Next]_vars,
         ~ \E h \in Handlers, r \in Requests : CreateInsert(h, r)
  PROVE  /\ DayTotal' <= DayTotal /\ MonthTotal' <= MonthTotal
         /\ DayTotal' \in Int /\ MonthTotal' \in Int
<1>1. /\ terms' = terms
      /\ \A q \in Requests : status'[q] \in Counted => status[q] \in Counted
  BY RowsKept DEF CapsInv
<1>2. day \in 0..MaxDay /\ day' \in 0..MaxDay /\ day <= day'
  <2>1. day' = day \/ NextDay
    BY NextDayOnly
  <2>2. day \in 0..MaxDay /\ day' \in 0..MaxDay
    BY NextTypeOK DEF CapsInv, SettlementInv, ApprovalInv, TypeOK
  <2>. QED  BY <2>1, <2>2, PayoutsAssumption DEF NextDay
<1>3. \A q \in Requests : status[q] \in Counted => terms[q].on \in 0..MaxDay /\ terms[q].on <= day
  BY DEF CapsInv, Dated, Counted
<1>4. LiveIn(status', terms', {day'}) \in SUBSET LiveIn(status, terms, {day})
  BY <1>1, <1>2, <1>3 DEF LiveIn
<1>5. LiveIn(status', terms', ThisMonth') \in SUBSET LiveIn(status, terms, ThisMonth)
  BY <1>1, <1>2, <1>3, Dates DEF LiveIn, ThisMonth
<1>6. AmountOf(status', terms', {day'}) <= AmountOf(status, terms, {day})
  BY <1>1, <1>4, LiveRows, FewerLive
<1>7. AmountOf(status', terms', ThisMonth') <= AmountOf(status, terms, ThisMonth)
  BY <1>1, <1>5, LiveRows, FewerLive
<1>8. ASSUME NEW D PROVE AmountOf(status', terms', D) \in Int
  <2>. DEFINE R == LiveIn(status', terms', D)
              f == [q \in R |-> terms'[q].amount]
  <2>1. R \in SUBSET {q \in Requests : status[q] # "absent"}
    BY <1>1 DEF LiveIn, Counted
  <2>2. IsFiniteSet(R) /\ \A q \in R : f[q] \in Int
    BY <1>1, <2>1, FS_Subset DEF CapsInv, Dated
  <2>3. AmountOf(status', terms', D) = SumFunction(f) /\ DOMAIN f = R
    BY DEF AmountOf
  <2>. HIDE DEF f
  <2>. QED  BY <2>2, <2>3, SumTotal, TotalType
<1>. QED  BY <1>6, <1>7, <1>8, Totals

\* A handler creates a request only because it did, or because it just checked.
LEMMA CreatorStep ==
  ASSUME TypeOK, [Next]_vars, NEW g \in Handlers, handler'[g].op = "create"
  PROVE  \/ handler'[g] = handler[g]
         \/ \E o \in Officers, a \in Amounts, p \in Recipients : CreateCheck(g, o, a, p)
<1>. SUFFICES ASSUME handler'[g] # handler[g]
              PROVE  \E o \in Officers, a \in Amounts, p \in Recipients : CreateCheck(g, o, a, p)
  OBVIOUS
<1>1. Next
  BY DEF vars
<1>2. ASSUME NEW h \in Handlers, NEW call, handler' = [handler EXCEPT ![h] = call]
      PROVE  g = h /\ call.op = "create"
  BY <1>2 DEF TypeOK
<1>3. ASSUME NEW h \in Handlers, End(h) PROVE FALSE
  BY <1>2, <1>3 DEF End, Idle
<1>4. ASSUME \/ \E p \in Recipients : CreatePayoutRecipient(p)
             \/ \E p \in Policies : UpdateFundControlPolicy(p)
             \/ NextDay
             \/ \E r \in Requests, s \in Outcomes : ProviderReport(r, s) \/ IgnoreEvent(r, s)
      PROVE  FALSE
  BY <1>4 DEF CreatePayoutRecipient, UpdateFundControlPolicy, NextDay, ProviderReport, IgnoreEvent
<1>5. ASSUME NEW h \in Handlers,
             \/ \E r \in Requests : CreateInsert(h, r)
             \/ ApproveReject(h) \/ ApproveWait(h) \/ ApproveSettle(h)
             \/ WebhookCommit(h) \/ Abort(h)
      PROVE  FALSE
  BY <1>3, <1>5 DEF CreateInsert, ApproveReject, ApproveWait, ApproveSettle, WebhookCommit, Abort
<1>6. ASSUME NEW h \in Handlers, NEW o \in Officers, NEW a \in Amounts, NEW p \in Recipients,
             CreateCheck(h, o, a, p)
      PROVE  h = g
  BY <1>2, <1>6 DEF CreateCheck, Begin
<1>7. ASSUME NEW h \in Handlers, NEW o \in Officers, NEW r \in Requests, ApproveLock(h, o, r)
      PROVE  FALSE
  BY <1>2, <1>7 DEF ApproveLock, Begin
<1>8. ASSUME NEW h \in Handlers, ApproveCallProvider(h) PROVE FALSE
  <2>1. PICK call : handler' = [handler EXCEPT ![h] = call] /\ call.op = "settle"
    BY <1>8 DEF ApproveCallProvider
  <2>. QED  BY <1>2, <2>1
<1>9. ASSUME NEW h \in Handlers, NEW r \in Requests, NEW s \in Outcomes, WebhookRead(h, r, s)
      PROVE  FALSE
  BY <1>2, <1>9 DEF WebhookRead, Begin
<1>. QED  BY <1>1, <1>4, <1>5, <1>6, <1>7, <1>8, <1>9 DEF Next

\* The commit of a creation adds the amount it checked to the two totals.
LEMMA InsertStep ==
  ASSUME CapsInv, NEW h \in Handlers, NEW r \in Requests, CreateInsert(h, r)
  PROVE  /\ DayTotal' <= DayTotal + handler[h].amount
         /\ MonthTotal' <= MonthTotal + handler[h].amount
         /\ handler[h].amount \in Nat
         /\ DayTotal' <= handler[h].daily /\ MonthTotal' <= handler[h].monthly
         /\ handler' = [handler EXCEPT ![h] = Idle]
<1>. USE DEF CapsInv, SettlementInv, ApprovalInv
<1>1. handler[h].op = "create" /\ handler[h] \in CreateCall /\ handler[h].amount \in Nat
  BY CallTypes DEF CreateInsert, RoomKept
<1>2. /\ day' = day /\ day \in 0..MaxDay /\ status[r] = "absent"
      /\ status' = [status EXCEPT ![r] = "PENDING"]
      /\ terms' = [terms EXCEPT ![r] = [amount |-> handler[h].amount, by |-> handler[h].by,
                                        to |-> handler[h].to, on |-> day]]
      /\ status \in [Requests -> Statuses] /\ terms \in [Requests -> Terms \cup {NoTerms}]
  BY DEF CreateInsert, configVars, TypeOK
<1>3. ASSUME NEW D, day \in D
      PROVE  /\ LiveIn(status', terms', D) = LiveIn(status, terms, D) \cup {r}
             /\ \A q \in LiveIn(status, terms, D) : terms'[q].amount = terms[q].amount
             /\ terms'[r].amount = handler[h].amount
  BY <1>2, <1>3 DEF LiveIn, Counted
<1>4. day \in {day} /\ day \in ThisMonth /\ ThisMonth' = ThisMonth
  BY <1>2 DEF ThisMonth, Month
<1>5. AmountOf(status', terms', {day}) <= AmountOf(status, terms, {day}) + handler[h].amount
  BY <1>1, <1>3, <1>4, LiveRows, OneMoreLive
<1>6. AmountOf(status', terms', ThisMonth)
         <= AmountOf(status, terms, ThisMonth) + handler[h].amount
  BY <1>1, <1>3, <1>4, LiveRows, OneMoreLive
<1>7. /\ DayTotal' <= DayTotal + handler[h].amount
      /\ MonthTotal' <= MonthTotal + handler[h].amount
  BY <1>2, <1>4, <1>5, <1>6, Totals
<1>8. /\ DayTotal + handler[h].amount <= handler[h].daily
      /\ MonthTotal + handler[h].amount <= handler[h].monthly
  BY <1>1 DEF RoomKept
<1>9. DayTotal' \in Int /\ MonthTotal' \in Int /\ DayTotal \in Int /\ MonthTotal \in Int
  <2>1. DayTotal \in Int /\ MonthTotal \in Int
    BY LiveRows, Totals
  <2>2. ASSUME NEW D PROVE AmountOf(status', terms', D) \in Int
    <3>. DEFINE R == LiveIn(status', terms', D)
                f == [q \in R |-> terms'[q].amount]
    <3>1. R \in SUBSET ({q \in Requests : status[q] # "absent"} \cup {r})
      BY <1>2 DEF LiveIn, Counted
    <3>2. IsFiniteSet({q \in Requests : status[q] # "absent"} \cup {r})
      BY FS_AddElement DEF Dated
    <3>3. \A q \in R : f[q] \in Int
      BY <1>1, <1>2, <3>1 DEF Dated
    <3>4. IsFiniteSet(R)
      BY <3>1, <3>2, FS_Subset
    <3>5. AmountOf(status', terms', D) = SumFunction(f) /\ DOMAIN f = R
      BY DEF AmountOf
    <3>. HIDE DEF f
    <3>. QED  BY <3>3, <3>4, <3>5, SumTotal, TotalType
  <2>. QED  BY <2>1, <2>2, Totals
<1>10. handler[h].daily \in Int /\ handler[h].monthly \in Int
  BY <1>1 DEF CreateCall
<1>11. DayTotal' <= handler[h].daily /\ MonthTotal' <= handler[h].monthly
  BY <1>1, <1>7, <1>8, <1>9, <1>10
<1>12. handler' = [handler EXCEPT ![h] = Idle]
  BY DEF CreateInsert, End
<1>. QED  BY <1>1, <1>7, <1>11, <1>12

LEMMA NextDated == ASSUME CapsInv, [Next]_vars PROVE Dated'
<1>. DEFINE rows == {q \in Requests : status[q] # "absent"}
<1>1. IsFiniteSet(rows) /\ day <= day'
  BY NextDayOnly, DayType DEF CapsInv, Dated, NextDay
<1>2. ASSUME NEW h \in Handlers, NEW r \in Requests, CreateInsert(h, r) PROVE Dated'
  <2>1. handler[h].op = "create" /\ handler[h] \in CreateCall /\ handler[h].amount \in Nat
    BY <1>2, CallTypes DEF CreateInsert, RoomKept, CapsInv, SettlementInv, ApprovalInv
  <2>2. /\ day' = day /\ status[r] = "absent"
        /\ status' = [status EXCEPT ![r] = "PENDING"]
        /\ terms' = [terms EXCEPT ![r] = [amount |-> handler[h].amount, by |-> handler[h].by,
                                          to |-> handler[h].to, on |-> day]]
        /\ status \in [Requests -> Statuses] /\ terms \in [Requests -> Terms \cup {NoTerms}]
    BY <1>2 DEF CreateInsert, configVars, TypeOK, CapsInv, SettlementInv, ApprovalInv
  <2>3. {q \in Requests : status'[q] # "absent"} \in SUBSET (rows \cup {r})
    BY <2>2
  <2>4. IsFiniteSet({q \in Requests : status'[q] # "absent"})
    BY <1>1, <2>3, FS_AddElement, FS_Subset
  <2>5. day \in 0..MaxDay
    BY DayType
  <2>. QED  BY <2>1, <2>2, <2>4, <2>5 DEF CapsInv, Dated
<1>3. CASE ~ \E h \in Handlers, r \in Requests : CreateInsert(h, r)
  <2>1. terms' = terms /\ \A q \in Requests : status'[q] = "absent" <=> status[q] = "absent"
    BY <1>3, RowsKept DEF CapsInv
  <2>2. {q \in Requests : status'[q] # "absent"} = rows
    BY <2>1
  <2>3. day \in Int /\ day' \in Int
    BY DayType, NextDayOnly DEF NextDay
  <2>. QED  BY <1>1, <2>1, <2>2, <2>3 DEF CapsInv, Dated
<1>. QED  BY <1>2, <1>3

LEMMA NextOneCreator == ASSUME CapsInv, [Next]_vars PROVE OneCreator'
<1>. SUFFICES ASSUME NEW g \in Handlers, NEW h \in Handlers,
                     handler'[g].op = "create", handler'[h].op = "create"
              PROVE  g = h
  BY DEF OneCreator
<1>. USE DEF CapsInv, SettlementInv, ApprovalInv
<1>1. ASSUME NEW f \in Handlers, NEW e \in Handlers, handler[e].op = "create",
             handler'[f].op = "create", handler'[f] # handler[f]
      PROVE  FALSE
  BY <1>1, CreatorStep DEF CreateCheck, CreationUnlocked
<1>2. ASSUME NEW f \in Handlers, NEW e \in Handlers, f # e, handler'[f] # handler[f],
             handler'[e] # handler[e], handler'[f].op = "create"
      PROVE  FALSE
  BY <1>2, CreatorStep DEF CreateCheck, Begin, TypeOK
<1>. QED  BY <1>1, <1>2 DEF OneCreator

LEMMA NextRoomKept == ASSUME CapsInv, [Next]_vars PROVE RoomKept'
<1>. SUFFICES ASSUME NEW g \in Handlers, handler'[g].op = "create"
              PROVE  /\ handler'[g].amount \in Nat
                     /\ DayTotal' + handler'[g].amount <= handler'[g].daily
                     /\ MonthTotal' + handler'[g].amount <= handler'[g].monthly
  BY DEF RoomKept
<1>. USE DEF CapsInv, SettlementInv, ApprovalInv
<1>0. DayTotal \in Int /\ MonthTotal \in Int
  BY LiveRows, Totals
<1>1. CASE handler'[g] = handler[g]
  <2>1. ~ \E h \in Handlers, r \in Requests : CreateInsert(h, r)
    <3>. SUFFICES ASSUME NEW h \in Handlers, NEW r \in Requests, CreateInsert(h, r) PROVE FALSE
      OBVIOUS
    <3>1. handler[h].op = "create" /\ handler'[h] = Idle
      BY DEF CreateInsert, End, TypeOK
    <3>2. g = h
      BY <1>1, <3>1 DEF OneCreator
    <3>. QED  BY <3>1, <3>2 DEF Idle
  <2>2. DayTotal' <= DayTotal /\ MonthTotal' <= MonthTotal
    BY <2>1, TotalsKept
  <2>3. /\ handler[g].amount \in Nat /\ handler[g].daily \in Int /\ handler[g].monthly \in Int
        /\ DayTotal + handler[g].amount <= handler[g].daily
        /\ MonthTotal + handler[g].amount <= handler[g].monthly
    BY <1>1, CallTypes DEF RoomKept, CreateCall
  <2>4. DayTotal' \in Int /\ MonthTotal' \in Int
    BY <2>1, TotalsKept
  <2>. QED  BY <1>0, <1>1, <2>2, <2>3, <2>4
<1>2. ASSUME NEW o \in Officers, NEW a \in Amounts, NEW p \in Recipients, CreateCheck(g, o, a, p)
      PROVE  /\ handler'[g].amount \in Nat
             /\ DayTotal' + handler'[g].amount <= handler'[g].daily
             /\ MonthTotal' + handler'[g].amount <= handler'[g].monthly
  <2>1. a \in Nat
    BY <1>2, PayoutsAssumption DEF CreateCheck
  <2>2. /\ handler'[g].amount = a /\ handler'[g].daily = policy.daily
        /\ handler'[g].monthly = policy.monthly
    BY <1>2 DEF CreateCheck, Begin, TypeOK
  <2>3. UNCHANGED <<status, terms, day>>
    BY <1>2 DEF CreateCheck, requestVars, configVars
  <2>4. DayTotal' = DayTotal /\ MonthTotal' = MonthTotal
    BY <2>3 DEF DayTotal, MonthTotal, CountedAmount, Month
  <2>5. DayTotal + a <= policy.daily /\ MonthTotal + a <= policy.monthly
    BY <1>2 DEF CreateCheck
  <2>. QED  BY <2>1, <2>2, <2>4, <2>5
<1>. QED  BY <1>1, <1>2, CreatorStep

LEMMA InitCapsInv == Init => CapsInv
<1>. SUFFICES ASSUME Init PROVE CapsInv
  OBVIOUS
<1>1. {q \in Requests : status[q] # "absent"} = {}
  BY DEF Init
<1>. QED  BY <1>1, InitSettlementInv, FS_EmptySet DEF Init, Idle, CapsInv, Dated, OneCreator, RoomKept

LEMMA CapsInvariant == SerialHooks => (Spec => []CapsInv)
<1>. SUFFICES ASSUME SerialHooks PROVE Spec => []CapsInv
  OBVIOUS
<1>1. CapsInv /\ [Next]_vars => CapsInv'
  BY NextSettlementInv, NextDated, NextOneCreator, NextRoomKept DEF CapsInv
<1>. QED  BY <1>1, InitCapsInv, PTL DEF Spec

\* With webhooks served one at a time, no creation takes the live payouts of
\* the day or the month over the limits it read, however many officers create
\* requests at once and whatever else happens, a new day included, between its
\* check and its insert (pg_advisory_xact_lock).
THEOREM CapsHeld == SerialHooks => (Spec => CapsHeldAtInsert)
<1>. SUFFICES ASSUME SerialHooks PROVE Spec => CapsHeldAtInsert
  OBVIOUS
<1>. DEFINE Held == \A h \in Handlers :
                       handler[h].op = "create" /\ status' # status /\ handler'[h] = Idle =>
                          /\ DayTotal' <= handler[h].daily
                          /\ MonthTotal' <= handler[h].monthly
<1>1. CapsInv /\ [Next]_vars => Held
  <2>. SUFFICES ASSUME CapsInv, [Next]_vars, NEW h \in Handlers,
                       handler[h].op = "create", status' # status, handler'[h] = Idle
                PROVE  /\ DayTotal' <= handler[h].daily
                       /\ MonthTotal' <= handler[h].monthly
    OBVIOUS
  <2>1. handler \in [Handlers -> Calls]
    BY DEF CapsInv, SettlementInv, ApprovalInv, TypeOK, Calls
  <2>2. ASSUME NEW g \in Handlers, handler' = [handler EXCEPT ![g] = Idle], g # h PROVE FALSE
    BY <2>1, <2>2 DEF Idle
  <2>3. ASSUME NEW g \in Handlers, NEW r \in Requests, CreateInsert(g, r)
        PROVE  /\ DayTotal' <= handler[h].daily
               /\ MonthTotal' <= handler[h].monthly
    BY <2>2, <2>3, InsertStep
  <2>4. ASSUME NEW g \in Handlers, ApproveReject(g) \/ ApproveSettle(g) \/ WebhookCommit(g)
        PROVE  FALSE
    BY <2>2, <2>4 DEF ApproveReject, ApproveSettle, WebhookCommit, End
  <2>. QED
    BY <2>3, <2>4 DEF Next, vars, requestVars, ledgerVars, providerVars, configVars,
       CreatePayoutRecipient, UpdateFundControlPolicy, NextDay, ProviderReport, IgnoreEvent, CreateCheck,
       ApproveLock, ApproveWait, ApproveCallProvider, WebhookRead, Abort
<1>. QED  BY <1>1, CapsInvariant, PTL DEF Spec, CapsHeldAtInsert
=============================================================================
