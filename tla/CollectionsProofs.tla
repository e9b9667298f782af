-------------------------- MODULE CollectionsProofs --------------------------
(***************************************************************************)
(* Proofs about Collections, for every value of its constants: any         *)
(* payments, any number of concurrent webhooks, any number of rollbacks.   *)
(***************************************************************************)
EXTENDS Collections, FiniteSetTheorems, TLAPS

Calls == {Idle} \cup InitiateCall \cup ChargeCall \cup OrderCall \cup TransferCall

LEMMA CallTypes ==
  ASSUME TypeOK, NEW h \in Handlers
  PROVE  /\ handler[h].op = "initiate" => handler[h] \in InitiateCall
         /\ handler[h].op = "charge" => handler[h] \in ChargeCall
         /\ handler[h].op = "order" => handler[h] \in OrderCall
         /\ handler[h].op = "transfer" => handler[h] \in TransferCall
  BY DEF TypeOK, Idle, InitiateCall, ChargeCall, OrderCall, TransferCall

\* Which of the calls a handler may be serving when it settles a charge.
LEMMA SettlingTypes ==
  ASSUME TypeOK, NEW h \in Handlers, Settling(h) \/ handler[h].op = "order"
  PROVE  handler[h].item \in Intents
  BY CallTypes DEF Settling, ChargeCall, OrderCall

-----------------------------------------------------------------------------
(* Transfers.  A transfer is ordered again only when the order before it was *)
(* rolled back, so that the number of rollbacks bounds the attempts.         *)

Ordering(h, i) == handler[h].op = "order" /\ handler[h].item = i

\* The unique key keeps two orders of one payment apart, and apart from a row.
OrdersApart ==
    \A i \in Intents : \A g, h \in Handlers :
        Ordering(g, i) => /\ disbursement[i] = "absent"
                          /\ Ordering(h, i) => g = h

\* No payment has more transfers than rollbacks and one; the last of them, if
\* no rollback followed it, is in progress or on record.
OneMoreThanRollbacks ==
    \A i \in Intents : \A n \in Attempts :
        <<i, n>> \in transfers =>
            /\ n <= aborts + 1
            /\ \/ n <= aborts
               \/ disbursement[i] # "absent"
               \/ \E h \in Handlers : Ordering(h, i)

\* A row that was never written refers to no transfer, and the reference of
\* one that was, once a webhook has found it, stays.
ReferencesStand ==
    /\ \A i \in Intents : disbursement[i] = "absent" => reference[i] = 0
    /\ \A h \in Handlers :
          handler[h].op = "transfer" /\ handler[h].found # "absent" =>
             reference[handler[h].item] = handler[h].ref

TransfersInv ==
    /\ TypeOK
    /\ OrdersApart
    /\ OneMoreThanRollbacks
    /\ ReferencesStand

LEMMA InitTransfersInv == Init => TransfersInv
<1>. SUFFICES ASSUME Init PROVE TransfersInv
  OBVIOUS
<1>1. TypeOK
  <2>1. aborts \in 0..MaxAborts
    BY CollectionsAssumption DEF Init
  <2>2. handler \in [Handlers -> Calls]
    BY DEF Init, Calls
  <2>. QED
    BY <2>1, <2>2 DEF Init, TypeOK, Calls, SettlementStates, IntentStates, DisbursementStates
<1>. QED
  BY <1>1 DEF Init, Idle, TransfersInv, OrdersApart, OneMoreThanRollbacks, ReferencesStand, Ordering

\* What the code counts before it orders a transfer.
LEMMA AttemptCounted ==
  ASSUME TransfersInv, NEW i \in Intents, RowFree(i)
  PROVE  /\ NextAttempt(i) \in Attempts
         /\ NextAttempt(i) <= aborts + 1
         /\ \A n \in Attempts : <<i, n>> \in transfers => n <= aborts
<1>. DEFINE T == {t \in transfers : t[1] = i}
            A == 1..aborts
<1>1. aborts \in Nat /\ MaxAborts \in Nat /\ aborts <= MaxAborts
  BY CollectionsAssumption DEF TransfersInv, TypeOK
<1>2. ~ \E h \in Handlers : Ordering(h, i)
  BY DEF RowFree, InsertUnlocked, Ordering
<1>3. \A n \in Attempts : <<i, n>> \in transfers => n <= aborts
  BY <1>2 DEF RowFree, TransfersInv, OneMoreThanRollbacks
<1>4. \A t \in T : t[2] \in A /\ t = <<i, t[2]>>
  BY <1>1, <1>3 DEF TransfersInv, TypeOK, Attempts
<1>5. IsFiniteSet(A) /\ Cardinality(A) = aborts
  BY <1>1, FS_Interval
<1>. DEFINE f == [t \in T |-> t[2]]
<1>6. f \in Injection(T, A)
  BY <1>4 DEF Injection, IsInjective
<1>7. IsFiniteSet(T) /\ Cardinality(T) <= aborts
  BY <1>5, <1>6, FS_Injection
<1>8. Cardinality(T) \in Nat
  BY <1>7, FS_CardinalityType
<1>9. NextAttempt(i) = 1 + Cardinality(T)
  BY DEF NextAttempt
<1>. QED  BY <1>1, <1>3, <1>7, <1>8, <1>9 DEF Attempts
-----------------------------------------------------------------------------
(* Type correctness: with OneMoreThanRollbacks, which bounds the attempts. *)

\* A webhook or an initiation begins: only its handler and the charge change.
LEMMA BeginTypeOK ==
  ASSUME TypeOK, NEW h \in Handlers, NEW call \in Calls, Begin(h, call),
         charge' \in [Intents -> {"none", "live"}],
         UNCHANGED <<configVars, intentVars, transferVars, transfers, reports, reviewVars, aborts>>
  PROVE  TypeOK'
  BY DEF TypeOK, Begin, Calls, configVars, intentVars, transferVars, reviewVars

LEMMA DeliverCall ==
  ASSUME TypeOK, NEW h \in Handlers, NEW ref \in References, NEW s \in Outcomes, Deliver(h, ref, s)
  PROVE  \E call \in Calls : Begin(h, call) /\ call.op \in {"charge", "transfer"}
<1>. DEFINE i == ref[1]
<1>1. i \in Intents /\ ref[2] \in {0} \cup Attempts /\ ref = <<i, ref[2]>>
  BY DEF References
<1>2. CASE ChargeRead(h, i, s)
  <2>1. [op |-> "charge", item |-> i, outcome |-> s, found |-> intent[i]] \in Calls
    BY <1>1 DEF Calls, ChargeCall, TypeOK
  <2>. QED  BY <1>2, <2>1 DEF ChargeRead
<1>3. CASE ref[2] # 0 /\ TransferRead(h, i, ref[2], s)
  <2>1. [op |-> "transfer", item |-> i, ref |-> ref[2], outcome |-> s,
         found |-> IF reference[i] = ref[2] THEN disbursement[i] ELSE "absent"] \in Calls
    BY <1>1, <1>3 DEF Calls, TransferCall, TypeOK, DisbursementStates
  <2>. QED  BY <1>3, <2>1 DEF TransferRead
<1>. QED  BY <1>2, <1>3 DEF Deliver

LEMMA DeliverTypeOK ==
  ASSUME TypeOK, NEW h \in Handlers, NEW ref \in References, NEW s \in Outcomes, Deliver(h, ref, s)
  PROVE  TypeOK'
<1>1. PICK call \in Calls : Begin(h, call)
  BY DeliverCall
<1>. QED
  BY <1>1, BeginTypeOK DEF Deliver, ChargeRead, TransferRead, providerVars, TypeOK

LEMMA EnvironmentTypeOK ==
  ASSUME TypeOK,
         \/ CreateSettlementAccount
         \/ \E on \in BOOLEAN : SetAutoDisbursement(on)
         \/ \E i \in Intents : ObligationsMove(i)
         \/ \E ref \in References, s \in Outcomes : ProviderReport(ref, s)
         \/ \E ref \in References, s \in Outcomes : IgnoreEvent(ref, s)
         \/ \E h \in Handlers : Abort(h) \/ \E i \in Intents : Initiate(h, i)
  PROVE  TypeOK'
<1>1. CASE CreateSettlementAccount
  BY <1>1 DEF CreateSettlementAccount, TypeOK, SettlementStates, intentVars, transferVars,
     providerVars, reviewVars
<1>2. ASSUME NEW on \in BOOLEAN, SetAutoDisbursement(on) PROVE TypeOK'
  BY <1>2 DEF SetAutoDisbursement, TypeOK, intentVars, transferVars, providerVars, reviewVars
<1>3. ASSUME NEW i \in Intents, ObligationsMove(i) PROVE TypeOK'
  BY <1>3 DEF ObligationsMove, TypeOK, intentVars, transferVars, providerVars, reviewVars
<1>4. ASSUME NEW ref \in References, NEW s \in Outcomes, ProviderReport(ref, s) PROVE TypeOK'
  BY <1>4 DEF ProviderReport, TypeOK, configVars, intentVars, transferVars, reviewVars
<1>5. ASSUME NEW h \in Handlers, Abort(h) PROVE TypeOK'
  <2>1. aborts' \in 0..MaxAborts
    BY <1>5, CollectionsAssumption DEF Abort, TypeOK
  <2>. QED
    BY <1>5, <2>1 DEF Abort, End, TypeOK, configVars, intentVars, transferVars, providerVars, reviewVars
<1>6. ASSUME NEW h \in Handlers, NEW i \in Intents, Initiate(h, i) PROVE TypeOK'
  <2>1. [op |-> "initiate", item |-> i] \in Calls
    BY DEF Calls, InitiateCall
  <2>. QED  BY <1>6, <2>1, BeginTypeOK DEF Initiate, TypeOK
<1>7. ASSUME NEW ref \in References, NEW s \in Outcomes, IgnoreEvent(ref, s) PROVE TypeOK'
  BY <1>7 DEF IgnoreEvent, Answer, TypeOK, configVars, intentVars, transferVars, providerVars
<1>. QED  BY <1>1, <1>2, <1>3, <1>4, <1>5, <1>6, <1>7

\* The commit of a successful charge.
LEMMA BookTypeOK ==
  ASSUME TypeOK, NEW h \in Handlers, NEW i \in Intents, Book(h, i), disbursed' = disbursed,
         disbursement' \in [Intents -> DisbursementStates],
         reference' \in [Intents -> {0} \cup Attempts]
  PROVE  TypeOK'
<1>1. <<ChargeOf(i), "succeeded">> \in References \X Outcomes
  BY DEF ChargeOf, References, Outcomes
<1>2. handled' \subseteq References \X Outcomes
  BY <1>1 DEF Book, Answer, TypeOK
<1>3. intent' \in [Intents -> IntentStates] /\ booked' \in [Intents -> Nat]
  BY DEF Book, TypeOK, IntentStates
<1>. QED
  BY <1>2, <1>3 DEF Book, End, TypeOK, configVars, providerVars

LEMMA FinishTypeOK ==
  ASSUME TransfersInv, NEW h \in Handlers, Finish(h)
  PROVE  TypeOK'
<1>. USE DEF TransfersInv
<1>1. CASE InitiateCommit(h)
  BY <1>1 DEF InitiateCommit, End, TypeOK, IntentStates, configVars, transferVars, providerVars,
     reviewVars
<1>2. CASE ChargeNotOpen(h) \/ ChargeFailed(h)
  <2>1. handler[h] \in ChargeCall
    BY <1>2, CallTypes DEF ChargeNotOpen, ChargeFailed
  <2>2. ChargeOf(handler[h].item) \in References /\ handler[h].outcome \in Outcomes
    BY <2>1 DEF ChargeCall, ChargeOf, References
  <2>3. exceptions' \subseteq References /\ handled' \subseteq References \X Outcomes
    BY <1>2, <2>2 DEF ChargeNotOpen, ChargeFailed, Raise, Answer, TypeOK, Outcomes
  <2>4. intent' \in [Intents -> IntentStates]
    BY <1>2 DEF ChargeNotOpen, ChargeFailed, TypeOK, IntentStates, intentVars
  <2>. QED
    BY <1>2, <2>3, <2>4 DEF ChargeNotOpen, ChargeFailed, End, TypeOK, configVars, intentVars,
       transferVars, providerVars
<1>3. CASE ChargeRejected(h)
  BY <1>3 DEF ChargeRejected, End, TypeOK, configVars, intentVars, transferVars, providerVars,
     reviewVars
<1>4. CASE ChargeBooked(h)
  <2>1. handler[h].item \in Intents /\ Book(h, handler[h].item)
    BY <1>4, SettlingTypes DEF ChargeBooked
  <2>2. /\ disbursement' \in [Intents -> DisbursementStates]
        /\ reference' = reference /\ disbursed' = disbursed
    BY <1>4 DEF ChargeBooked, TypeOK, DisbursementStates, transferVars
  <2>. QED  BY <2>1, <2>2, BookTypeOK DEF TypeOK
<1>5. CASE OrderTransfer(h)
  <2>. DEFINE i == handler[h].item
  <2>1. i \in Intents
    BY <1>5, SettlingTypes DEF OrderTransfer
  <2>2. NextAttempt(i) \in Attempts
    BY <1>5, <2>1, AttemptCounted DEF OrderTransfer
  <2>3. \A n \in {0, NextAttempt(i)} : [op |-> "order", item |-> i, ref |-> n] \in OrderCall
    BY <2>1, <2>2 DEF OrderCall
  <2>4. \/ transfers' = transfers
        \/ transfers' = transfers \cup {<<i, NextAttempt(i)>>}
    BY <1>5 DEF OrderTransfer
  <2>5. transfers' \subseteq Intents \X Attempts
    BY <2>1, <2>2, <2>4 DEF TypeOK
  <2>6. \E n \in {0, NextAttempt(i)} :
           handler' = [handler EXCEPT ![h] = [op |-> "order", item |-> i, ref |-> n]]
    BY <1>5 DEF OrderTransfer
  <2>7. handler' \in [Handlers -> Calls]
    BY <2>3, <2>6 DEF TypeOK, Calls
  <2>. QED
    BY <1>5, <2>5, <2>7 DEF OrderTransfer, TypeOK, Calls, configVars, intentVars, transferVars,
       reviewVars
<1>6. CASE OrderCommit(h)
  <2>1. handler[h] \in OrderCall /\ Book(h, handler[h].item)
    BY <1>6, CallTypes DEF OrderCommit
  <2>2. /\ disbursement' \in [Intents -> DisbursementStates]
        /\ reference' \in [Intents -> {0} \cup Attempts]
        /\ disbursed' = disbursed
    BY <1>6, <2>1 DEF OrderCommit, OrderCall, TypeOK, DisbursementStates
  <2>. QED  BY <2>1, <2>2, BookTypeOK DEF OrderCall
<1>7. CASE TransferCommit(h)
  <2>. DEFINE i == handler[h].item
              ref == <<i, handler[h].ref>>
              s == handler[h].outcome
              found == handler[h].found
  <2>1. handler[h] \in TransferCall
    BY <1>7, CallTypes DEF TransferCommit
  <2>2. ref \in References /\ s \in Outcomes
    BY <2>1 DEF TransferCall, References
  <2>3. /\ exceptions' \subseteq References /\ handled' \subseteq References \X Outcomes
        /\ disbursement' \in [Intents -> DisbursementStates]
        /\ disbursed' \in [Intents -> Nat]
    <3>1. handled' \subseteq References \X Outcomes
      BY <1>7, <2>2 DEF TransferCommit, Answer, TypeOK
    <3>2. CASE TransferNotOpen(ref, found, s)
      BY <2>2, <3>1, <3>2 DEF TransferNotOpen, Raise, TypeOK
    <3>3. CASE TransferFailed(i, ref, found, s)
      BY <2>2, <3>1, <3>3 DEF TransferFailed, Raise, TypeOK, DisbursementStates
    <3>4. CASE TransferSucceeded(i, found, s)
      BY <2>1, <3>1, <3>4 DEF TransferCall, TransferSucceeded, TypeOK, DisbursementStates
    <3>. QED  BY <1>7, <3>2, <3>3, <3>4 DEF TransferCommit
  <2>. QED
    BY <1>7, <2>3 DEF TransferCommit, End, TypeOK, configVars, intentVars, providerVars
<1>. QED  BY <1>1, <1>2, <1>3, <1>4, <1>5, <1>6, <1>7 DEF Finish

LEMMA NextTypeOK ==
  ASSUME TransfersInv, [Next]_vars
  PROVE  TypeOK'
<1>1. CASE UNCHANGED vars
  BY <1>1 DEF vars, configVars, intentVars, transferVars, providerVars, reviewVars, TypeOK,
     TransfersInv
<1>2. CASE Next
  BY <1>2, DeliverTypeOK, EnvironmentTypeOK, FinishTypeOK DEF Next, TransfersInv
<1>. QED  BY <1>1, <1>2
-----------------------------------------------------------------------------
(* Orders stay apart, through every step. *)

\* A step that leaves the orders, the rows and the transfers alone.
LEMMA OrdersKept ==
  ASSUME TransfersInv, aborts' \in {aborts, aborts + 1},
         UNCHANGED <<transfers, disbursement>>,
         \A g \in Handlers : handler'[g].op = "order" => handler'[g] = handler[g],
         \A g \in Handlers : handler[g].op = "order" /\ aborts' = aborts => handler'[g] = handler[g]
  PROVE  OrdersApart' /\ OneMoreThanRollbacks'
<1>1. \A g \in Handlers, i \in Intents : Ordering(g, i)' => Ordering(g, i)
  BY DEF Ordering
<1>2. OrdersApart'
  BY <1>1 DEF TransfersInv, OrdersApart
<1>3. \A g \in Handlers, i \in Intents : Ordering(g, i) /\ aborts' = aborts => Ordering(g, i)'
  BY DEF Ordering
<1>4. OneMoreThanRollbacks'
  <2>1. aborts \in Nat
    BY CollectionsAssumption DEF TransfersInv, TypeOK
  <2>2. Attempts \subseteq Nat
    BY DEF Attempts
  <2>. SUFFICES ASSUME NEW i \in Intents, NEW n \in Attempts, <<i, n>> \in transfers
                PROVE  /\ n <= aborts' + 1
                       /\ \/ n <= aborts'
                          \/ disbursement'[i] # "absent"
                          \/ \E h \in Handlers : Ordering(h, i)'
    BY DEF OneMoreThanRollbacks
  <2>3. /\ n <= aborts + 1
        /\ n <= aborts \/ disbursement[i] # "absent" \/ \E h \in Handlers : Ordering(h, i)
    BY DEF TransfersInv, OneMoreThanRollbacks
  <2>4. CASE aborts' = aborts + 1
    BY <2>1, <2>2, <2>3, <2>4
  <2>5. CASE aborts' = aborts
    BY <1>3, <2>3, <2>5
  <2>. QED  BY <2>4, <2>5
<1>. QED  BY <1>2, <1>4

\* A row is written for a payment that no other call is ordering for.
LEMMA RowWritten ==
  ASSUME TransfersInv, NEW h \in Handlers, NEW i \in Intents, handler[h].item = i,
         handler' = [handler EXCEPT ![h] = Idle],
         UNCHANGED <<transfers, aborts>>,
         NEW st \in DisbursementStates \ {"absent"},
         disbursement' = [disbursement EXCEPT ![i] = st],
         \A g \in Handlers \ {h} : ~Ordering(g, i)
  PROVE  OrdersApart' /\ OneMoreThanRollbacks'
<1>1. \A g \in Handlers : handler'[g] = IF g = h THEN Idle ELSE handler[g]
  BY DEF TransfersInv, TypeOK
<1>2. \A j \in Intents : disbursement'[j] = IF j = i THEN st ELSE disbursement[j]
  BY DEF TransfersInv, TypeOK
<1>3. \A g \in Handlers, j \in Intents : Ordering(g, j)' <=> g # h /\ Ordering(g, j)
  BY <1>1 DEF Ordering, Idle
<1>4. OrdersApart'
  BY <1>2, <1>3 DEF TransfersInv, OrdersApart
<1>5. \A j \in Intents \ {i} : ~Ordering(h, j)
  BY DEF Ordering
<1>6. OneMoreThanRollbacks'
  <2>. SUFFICES ASSUME NEW j \in Intents, NEW n \in Attempts, <<j, n>> \in transfers
                PROVE  /\ n <= aborts + 1
                       /\ \/ n <= aborts
                          \/ disbursement'[j] # "absent"
                          \/ \E g \in Handlers : Ordering(g, j)'
    BY DEF OneMoreThanRollbacks
  <2>1. /\ n <= aborts + 1
        /\ n <= aborts \/ disbursement[j] # "absent" \/ \E g \in Handlers : Ordering(g, j)
    BY DEF TransfersInv, OneMoreThanRollbacks
  <2>. QED  BY <1>2, <1>3, <1>5, <2>1
<1>. QED  BY <1>4, <1>6

LEMMA OrderTransferApart ==
  ASSUME TransfersInv, NEW h \in Handlers, OrderTransfer(h)
  PROVE  OrdersApart' /\ OneMoreThanRollbacks'
<1>. DEFINE i == handler[h].item
            n == NextAttempt(i)
<1>. HIDE DEF n
<1>1. /\ i \in Intents /\ RowFree(i) /\ Settling(h)
      /\ disbursement' = disbursement /\ aborts' = aborts
  BY SettlingTypes DEF OrderTransfer, TransfersInv, transferVars
<1>2. /\ n <= aborts + 1
      /\ \A m \in Attempts : <<i, m>> \in transfers => m <= aborts
  BY <1>1, AttemptCounted DEF n
<1>3. transfers' \subseteq transfers \cup {<<i, n>>}
  BY DEF OrderTransfer, n
<1>4. PICK answered \in BOOLEAN :
         handler' = [handler EXCEPT ![h] =
            [op |-> "order", item |-> i, ref |-> IF answered THEN NextAttempt(i) ELSE 0]]
  BY DEF OrderTransfer
<1>5. \A g \in Handlers : /\ g # h => handler'[g] = handler[g]
                          /\ g = h => handler'[g].op = "order" /\ handler'[g].item = i
  BY <1>4 DEF TransfersInv, TypeOK
<1>6. \A g \in Handlers, j \in Intents :
         Ordering(g, j)' <=> (g = h /\ j = i) \/ (g # h /\ Ordering(g, j))
  BY <1>5 DEF Ordering
<1>7. disbursement[i] = "absent" /\ \A g \in Handlers : ~Ordering(g, i)
  BY <1>1 DEF RowFree, InsertUnlocked, Ordering
<1>8. OrdersApart'
  BY <1>1, <1>6, <1>7 DEF TransfersInv, OrdersApart
<1>9. \A j \in Intents : ~Ordering(h, j)
  BY <1>1 DEF Settling, Ordering
<1>10. OneMoreThanRollbacks'
  <2>. SUFFICES ASSUME NEW j \in Intents, NEW m \in Attempts, <<j, m>> \in transfers'
                PROVE  /\ m <= aborts' + 1
                       /\ \/ m <= aborts'
                          \/ disbursement'[j] # "absent"
                          \/ \E g \in Handlers : Ordering(g, j)'
    BY DEF OneMoreThanRollbacks
  <2>1. CASE j = i
    <3>1. Ordering(h, j)'
      BY <1>6, <2>1
    <3>2. m <= aborts + 1
      <4>1. aborts \in Nat /\ m \in Nat
        BY CollectionsAssumption DEF TransfersInv, TypeOK, Attempts
      <4>2. m <= aborts \/ m = n
        BY <1>2, <1>3, <2>1
      <4>. QED  BY <1>2, <4>1, <4>2
    <3>. QED  BY <1>1, <3>1, <3>2
  <2>2. CASE j # i
    <3>1. <<j, m>> \in transfers
      BY <1>3, <2>2
    <3>. QED  BY <1>1, <1>6, <1>9, <2>2, <3>1 DEF TransfersInv, OneMoreThanRollbacks
  <2>. QED  BY <2>1, <2>2
<1>. QED  BY <1>8, <1>10

LEMMA WebhookFindsRow ==
  ASSUME TransfersInv, NEW h \in Handlers, handler[h].op = "transfer", handler[h].found # "absent"
  PROVE  disbursement[handler[h].item] # "absent"
<1>1. handler[h].item \in Intents /\ handler[h].ref # 0
  BY CallTypes DEF TransfersInv, TransferCall, Attempts
<1>. QED  BY <1>1 DEF TransfersInv, ReferencesStand

LEMMA FinishApart ==
  ASSUME TransfersInv, NEW h \in Handlers, Finish(h)
  PROVE  OrdersApart' /\ OneMoreThanRollbacks'
<1>1. CASE handler' = [handler EXCEPT ![h] = Idle] /\ handler[h].op # "order"
           /\ UNCHANGED <<transfers, disbursement, aborts>>
  <2>1. \A g \in Handlers : handler'[g] = IF g = h THEN Idle ELSE handler[g]
    BY <1>1 DEF TransfersInv, TypeOK
  <2>. QED  BY <1>1, <2>1, OrdersKept DEF Idle
<1>2. CASE InitiateCommit(h) \/ ChargeNotOpen(h) \/ ChargeFailed(h) \/ ChargeRejected(h)
  BY <1>1, <1>2 DEF InitiateCommit, ChargeNotOpen, ChargeFailed, ChargeRejected, Settling, End,
     transferVars, providerVars
<1>3. CASE ChargeBooked(h)
  <2>. DEFINE i == handler[h].item
  <2>1. /\ i \in Intents
        /\ handler[h].op # "order" /\ handler' = [handler EXCEPT ![h] = Idle]
        /\ UNCHANGED <<transfers, aborts>>
    BY <1>3, SettlingTypes DEF ChargeBooked, Settling, Book, End, providerVars, TransfersInv
  <2>2. CASE UNCHANGED transferVars
    BY <1>1, <2>1, <2>2 DEF transferVars
  <2>3. CASE RowFree(i) /\ disbursement' = [disbursement EXCEPT ![i] = "FAILED"]
    <3>1. \A g \in Handlers : ~Ordering(g, i)
      BY <2>3 DEF RowFree, InsertUnlocked, Ordering
    <3>2. "FAILED" \in DisbursementStates \ {"absent"}
      BY DEF DisbursementStates
    <3>. QED  BY <2>1, <2>3, <3>1, <3>2, RowWritten
  <2>. QED  BY <1>3, <2>2, <2>3 DEF ChargeBooked
<1>4. CASE OrderTransfer(h)
  BY <1>4, OrderTransferApart
<1>5. CASE OrderCommit(h)
  <2>. DEFINE i == handler[h].item
              st == IF handler[h].ref = 0 THEN "FAILED" ELSE "PENDING"
  <2>1. /\ i \in Intents /\ Ordering(h, i)
        /\ handler' = [handler EXCEPT ![h] = Idle]
        /\ disbursement' = [disbursement EXCEPT ![i] = st]
        /\ UNCHANGED <<transfers, aborts>>
    BY <1>5, SettlingTypes DEF OrderCommit, Ordering, Book, End, providerVars, TransfersInv
  <2>2. \A g \in Handlers \ {h} : ~Ordering(g, i)
    BY <2>1 DEF TransfersInv, OrdersApart
  <2>3. st \in DisbursementStates \ {"absent"}
    BY DEF DisbursementStates
  <2>. QED  BY <2>1, <2>2, <2>3, RowWritten
<1>6. CASE TransferCommit(h)
  <2>. DEFINE i == handler[h].item
  <2>1. /\ i \in Intents /\ handler[h].op # "order" /\ handler' = [handler EXCEPT ![h] = Idle]
        /\ UNCHANGED <<transfers, aborts>>
    BY <1>6, CallTypes DEF TransferCommit, End, providerVars, TransferCall, TransfersInv
  <2>2. CASE disbursement' = disbursement
    BY <1>1, <2>1, <2>2
  <2>3. ASSUME NEW st \in {"SUCCEEDED", "FAILED"}, handler[h].found = "PENDING",
               disbursement' = [disbursement EXCEPT ![i] = st]
        PROVE  OrdersApart' /\ OneMoreThanRollbacks'
    <3>1. disbursement[i] # "absent"
      BY <1>6, <2>3, WebhookFindsRow DEF TransferCommit
    <3>2. \A g \in Handlers : ~Ordering(g, i)
      BY <2>1, <3>1 DEF TransfersInv, OrdersApart
    <3>. QED  BY <2>1, <2>3, <3>2, RowWritten DEF DisbursementStates
  <2>. QED
    BY <1>6, <2>2, <2>3 DEF TransferCommit, TransferNotOpen, TransferFailed, TransferSucceeded
<1>. QED  BY <1>2, <1>3, <1>4, <1>5, <1>6 DEF Finish

LEMMA NextApart ==
  ASSUME TransfersInv, [Next]_vars
  PROVE  OrdersApart' /\ OneMoreThanRollbacks'
<1>1. CASE UNCHANGED <<handler, transfers, disbursement, aborts>>
  BY <1>1, OrdersKept
<1>2. CASE \/ UNCHANGED vars
           \/ CreateSettlementAccount
           \/ \E on \in BOOLEAN : SetAutoDisbursement(on)
           \/ \E i \in Intents : ObligationsMove(i)
           \/ \E ref \in References, s \in Outcomes : ProviderReport(ref, s)
           \/ \E ref \in References, s \in Outcomes : IgnoreEvent(ref, s)
  BY <1>1, <1>2 DEF vars, CreateSettlementAccount, SetAutoDisbursement, ObligationsMove,
     ProviderReport, IgnoreEvent, transferVars, providerVars
<1>3. ASSUME NEW h \in Handlers, NEW call \in Calls, call.op # "order", Begin(h, call),
             UNCHANGED <<transfers, disbursement, aborts>>
      PROVE  OrdersApart' /\ OneMoreThanRollbacks'
  <2>1. /\ handler[h] = Idle
        /\ \A g \in Handlers : handler'[g] = IF g = h THEN call ELSE handler[g]
    BY <1>3 DEF Begin, TransfersInv, TypeOK
  <2>. QED  BY <1>3, <2>1, OrdersKept DEF Idle
<1>4. ASSUME NEW h \in Handlers, NEW i \in Intents, Initiate(h, i)
      PROVE  OrdersApart' /\ OneMoreThanRollbacks'
  <2>1. [op |-> "initiate", item |-> i] \in Calls
    BY DEF Calls, InitiateCall
  <2>. QED  BY <1>3, <1>4, <2>1 DEF Initiate, transferVars
<1>5. ASSUME NEW h \in Handlers, NEW ref \in References, NEW s \in Outcomes, Deliver(h, ref, s)
      PROVE  OrdersApart' /\ OneMoreThanRollbacks'
  <2>1. PICK call \in Calls : Begin(h, call) /\ call.op # "order"
    BY <1>5, DeliverCall DEF TransfersInv
  <2>. QED
    BY <1>3, <1>5, <2>1 DEF Deliver, ChargeRead, TransferRead, transferVars, providerVars
<1>6. ASSUME NEW h \in Handlers, Abort(h) PROVE OrdersApart' /\ OneMoreThanRollbacks'
  <2>1. \A g \in Handlers : handler'[g] = IF g = h THEN Idle ELSE handler[g]
    BY <1>6 DEF Abort, End, TransfersInv, TypeOK
  <2>2. aborts' # aborts
    BY <1>6, CollectionsAssumption DEF Abort, TransfersInv, TypeOK
  <2>. QED
    BY <1>6, <2>1, <2>2, OrdersKept DEF Abort, Idle, transferVars, providerVars
<1>. QED  BY <1>2, <1>4, <1>5, <1>6, FinishApart DEF Next
-----------------------------------------------------------------------------
(* What a webhook read of a disbursement stays true of the row's reference. *)

\* The steps that do not end a webhook or an order leave the rows and the
\* counts alone.
LEMMA RowsUntouched ==
  ASSUME [Next]_vars, ~ \E h \in Handlers : Finish(h)
  PROVE  /\ UNCHANGED <<intentVars, transferVars, exceptions>>
         /\ \/ handled' = handled
            \/ \E e \in Unlabelled : handled' = handled \cup {e}
<1>1. CASE UNCHANGED vars
  BY <1>1 DEF vars, reviewVars
<1>2. ASSUME \/ CreateSettlementAccount
             \/ \E on \in BOOLEAN : SetAutoDisbursement(on)
             \/ \E i \in Intents : ObligationsMove(i)
             \/ \E ref \in References, s \in Outcomes : ProviderReport(ref, s)
      PROVE  UNCHANGED <<intentVars, transferVars, reviewVars>>
  BY <1>2 DEF CreateSettlementAccount, SetAutoDisbursement, ObligationsMove, ProviderReport
<1>3. ASSUME NEW h \in Handlers,
             \/ Abort(h)
             \/ \E i \in Intents : Initiate(h, i)
             \/ \E ref \in References, s \in Outcomes : Deliver(h, ref, s)
      PROVE  UNCHANGED <<intentVars, transferVars, reviewVars>>
  BY <1>3 DEF Abort, Initiate, Deliver, ChargeRead, TransferRead
<1>4. ASSUME NEW ref \in References, NEW s \in Outcomes, IgnoreEvent(ref, s)
      PROVE  /\ UNCHANGED <<intentVars, transferVars, exceptions>>
             /\ \E e \in Unlabelled : handled' = handled \cup {e}
  BY <1>4 DEF IgnoreEvent, Answer
<1>. QED  BY <1>1, <1>2, <1>3, <1>4 DEF Next, reviewVars

\* What a handler serves was there before, or it has just begun it.
LEMMA HandlerStep ==
  ASSUME TypeOK, [Next]_vars, NEW g \in Handlers, handler'[g] # handler[g], handler'[g] # Idle
  PROVE  \/ \E i \in Intents : Initiate(g, i)
         \/ OrderTransfer(g)
         \/ \E ref \in References, s \in Outcomes : Deliver(g, ref, s)
<1>1. ASSUME NEW h \in Handlers, NEW call, handler' = [handler EXCEPT ![h] = call]
      PROVE  g = h /\ handler'[g] = call
  BY <1>1 DEF TypeOK
<1>2. ASSUME NEW h \in Handlers, End(h) PROVE FALSE
  BY <1>1, <1>2 DEF End
<1>3. ~UNCHANGED vars
  BY DEF vars
<1>4. ASSUME \/ CreateSettlementAccount
             \/ \E on \in BOOLEAN : SetAutoDisbursement(on)
             \/ \E i \in Intents : ObligationsMove(i)
             \/ \E ref \in References, s \in Outcomes : ProviderReport(ref, s)
             \/ \E ref \in References, s \in Outcomes : IgnoreEvent(ref, s)
      PROVE  FALSE
  BY <1>4 DEF CreateSettlementAccount, SetAutoDisbursement, ObligationsMove, ProviderReport,
     IgnoreEvent
<1>5. ASSUME NEW h \in Handlers, Abort(h) \/ (Finish(h) /\ ~OrderTransfer(h)) PROVE FALSE
  BY <1>2, <1>5 DEF Abort, Finish, InitiateCommit, ChargeNotOpen, ChargeFailed, ChargeRejected,
     ChargeBooked, OrderCommit, Book, TransferCommit
<1>6. ASSUME NEW h \in Handlers, OrderTransfer(h) PROVE h = g
  BY <1>1, <1>6 DEF OrderTransfer
<1>7. ASSUME NEW h \in Handlers, NEW i \in Intents, Initiate(h, i) PROVE h = g
  BY <1>1, <1>7 DEF Initiate, Begin
<1>8. ASSUME NEW h \in Handlers, NEW ref \in References, NEW s \in Outcomes, Deliver(h, ref, s)
      PROVE  h = g
  BY <1>1, <1>8, DeliverCall DEF Begin
<1>. QED  BY <1>3, <1>4, <1>5, <1>6, <1>7, <1>8 DEF Next, Finish

LEMMA RowStays ==
  ASSUME TransfersInv, [Next]_vars, NEW i \in Intents
  PROVE  /\ disbursement[i] # "absent" =>
               disbursement'[i] # "absent" /\ reference'[i] = reference[i]
         /\ disbursement'[i] = "absent" => reference'[i] = reference[i]
<1>1. CASE UNCHANGED transferVars
  BY <1>1 DEF transferVars
<1>2. ASSUME NEW h \in Handlers, Finish(h), ~UNCHANGED transferVars
      PROVE  /\ disbursement[i] # "absent" =>
                  disbursement'[i] # "absent" /\ reference'[i] = reference[i]
             /\ disbursement'[i] = "absent" => reference'[i] = reference[i]
  <2>1. CASE ChargeBooked(h)
    <3>1. /\ disbursement' = [disbursement EXCEPT ![handler[h].item] = "FAILED"]
          /\ reference' = reference
      BY <1>2, <2>1 DEF ChargeBooked
    <3>. QED  BY <3>1 DEF TransfersInv, TypeOK
  <2>2. CASE OrderCommit(h)
    <3>1. /\ disbursement' = [disbursement EXCEPT ![handler[h].item] =
                                IF handler[h].ref = 0 THEN "FAILED" ELSE "PENDING"]
          /\ reference' = [reference EXCEPT ![handler[h].item] = handler[h].ref]
      BY <2>2 DEF OrderCommit
    <3>2. disbursement[handler[h].item] = "absent"
      BY <2>2, SettlingTypes DEF OrderCommit, TransfersInv, OrdersApart, Ordering
    <3>. QED  BY <3>1, <3>2 DEF TransfersInv, TypeOK
  <2>3. CASE TransferCommit(h)
    <3>1. reference' = reference
      BY <2>3 DEF TransferCommit
    <3>2. \/ disbursement' = disbursement
          \/ \E st \in {"FAILED", "SUCCEEDED"} :
                disbursement' = [disbursement EXCEPT ![handler[h].item] = st]
      BY <2>3 DEF TransferCommit, TransferNotOpen, TransferFailed, TransferSucceeded
    <3>. QED  BY <3>1, <3>2, WebhookFindsRow, <2>3 DEF TransfersInv, TypeOK, TransferCommit
  <2>. QED
    BY <1>2, <2>1, <2>2, <2>3 DEF Finish, InitiateCommit, ChargeNotOpen, ChargeFailed,
       ChargeRejected, OrderTransfer
<1>. QED  BY <1>1, <1>2, RowsUntouched

LEMMA NextReferencesStand ==
  ASSUME TransfersInv, [Next]_vars
  PROVE  ReferencesStand'
<1>1. \A i \in Intents : disbursement'[i] = "absent" => reference'[i] = 0
  BY RowStays DEF TransfersInv, ReferencesStand
<1>2. ASSUME NEW g \in Handlers, handler'[g].op = "transfer", handler'[g].found # "absent"
      PROVE  reference'[handler'[g].item] = handler'[g].ref
  <2>1. CASE handler'[g] = handler[g]
    <3>1. handler[g].item \in Intents /\ disbursement[handler[g].item] # "absent"
      BY <1>2, <2>1, WebhookFindsRow, CallTypes DEF TransfersInv, TransferCall
    <3>. QED  BY <1>2, <2>1, <3>1, RowStays DEF TransfersInv, ReferencesStand
  <2>2. CASE handler'[g] # handler[g]
    <3>1. PICK ref \in References, s \in Outcomes : Deliver(g, ref, s)
      <4>1. ~ \E i \in Intents : Initiate(g, i)
        BY <1>2 DEF Initiate, Begin, TransfersInv, TypeOK
      <4>2. ~OrderTransfer(g)
        <5>. SUFFICES ASSUME OrderTransfer(g) PROVE FALSE
          OBVIOUS
        <5>1. handler'[g].op = "order"
          BY DEF OrderTransfer, TransfersInv, TypeOK
        <5>. QED  BY <1>2, <5>1
      <4>. QED  BY <1>2, <2>2, <4>1, <4>2, HandlerStep DEF TransfersInv, Idle
    <3>2. TransferRead(g, ref[1], ref[2], s)
      BY <1>2, <3>1 DEF Deliver, ChargeRead, Begin, TransfersInv, TypeOK
    <3>3. /\ handler'[g].item = ref[1] /\ handler'[g].ref = ref[2]
          /\ handler'[g].found # "absent" => reference[ref[1]] = ref[2]
          /\ reference' = reference
      BY <3>2 DEF TransferRead, Begin, TransfersInv, TypeOK, transferVars
    <3>. QED  BY <1>2, <3>3
  <2>. QED  BY <2>1, <2>2
<1>. QED  BY <1>1, <1>2 DEF ReferencesStand

LEMMA TransfersInvariant == Spec => []TransfersInv
<1>1. TransfersInv /\ [Next]_vars => TransfersInv'
  BY NextTypeOK, NextApart, NextReferencesStand DEF TransfersInv
<1>. QED  BY <1>1, InitTransfersInv, PTL DEF Spec

\* Every row, entry and reference of the payments keeps its type; in
\* particular no payment is ever sent on more often than there were rollbacks,
\* and once.
THEOREM TypeCorrect == Spec => []TypeOK
<1>1. TransfersInv => TypeOK
  BY DEF TransfersInv
<1>. QED  BY <1>1, TransfersInvariant, PTL

\* The transfers of a payment are numbered from one, and no number is beyond
\* the rollbacks so far and one.
LEMMA TransfersBounded ==
  ASSUME TransfersInv
  PROVE  OneTransferPerReceipt
<1>. SUFFICES ASSUME NEW i \in Intents
              PROVE  Cardinality({t \in transfers : t[1] = i}) <= 1 + aborts
  BY DEF OneTransferPerReceipt
<1>. DEFINE T == {t \in transfers : t[1] = i}
            A == 1..(aborts + 1)
<1>1. aborts \in Nat
  BY CollectionsAssumption DEF TransfersInv, TypeOK
<1>2. \A t \in T : t[2] \in A /\ t = <<i, t[2]>>
  BY <1>1 DEF TransfersInv, TypeOK, OneMoreThanRollbacks, Attempts
<1>3. IsFiniteSet(A) /\ Cardinality(A) = aborts + 1
  BY <1>1, FS_Interval
<1>. DEFINE f == [t \in T |-> t[2]]
<1>4. f \in Injection(T, A)
  BY <1>2 DEF Injection, IsInjective
<1>5. Cardinality(T) <= aborts + 1
  BY <1>3, <1>4, FS_Injection
<1>. QED  BY <1>1, <1>5

\* However many webhooks of a payment are served at once, the provider accepts
\* one transfer of it, and one more for every rollback: the unique key of
\* auto_disbursements stops the second call before it reaches the
\* provider (payout.service.ts, triggerAutoDisbursementIfEnabledInTx).
THEOREM SentOnOnce == Spec => []OneTransferPerReceipt
  BY TransfersBounded, TransfersInvariant, PTL
-----------------------------------------------------------------------------
(* Nothing that was answered 200 is silent. *)

\* A settled row has its entry, and so has one that a webhook read as settled.
SettledRowsBooked ==
    /\ \A i \in Intents : intent[i] = "SUCCEEDED" => booked[i] > 0
    /\ \A i \in Intents : disbursement[i] = "SUCCEEDED" => disbursed[i] > 0
    /\ \A h \in Handlers :
          handler[h].op = "charge" /\ handler[h].found = "SUCCEEDED" =>
             booked[handler[h].item] > 0
    /\ \A h \in Handlers :
          handler[h].op = "transfer" /\ handler[h].found = "SUCCEEDED" =>
             disbursed[handler[h].item] > 0

SilentInv ==
    /\ TransfersInv
    /\ SettledRowsBooked
    /\ NoSilentMovement

\* Entries and exceptions are only ever added.
LEMMA HistoryGrows ==
  ASSUME TransfersInv, [Next]_vars, NEW i \in Intents
  PROVE  /\ booked[i] > 0 => booked'[i] > 0
         /\ disbursed[i] > 0 => disbursed'[i] > 0
         /\ exceptions \subseteq exceptions'
<1>1. CASE UNCHANGED <<intentVars, transferVars, exceptions>>
  BY <1>1 DEF intentVars, transferVars
<1>2. ASSUME NEW h \in Handlers, Finish(h)
      PROVE  /\ booked[i] > 0 => booked'[i] > 0
             /\ disbursed[i] > 0 => disbursed'[i] > 0
             /\ exceptions \subseteq exceptions'
  <2>1. booked' = booked \/ booked' = [booked EXCEPT ![handler[h].item] = @ + 1]
    BY <1>2 DEF Finish, InitiateCommit, ChargeNotOpen, ChargeFailed, ChargeRejected, ChargeBooked,
       OrderTransfer, OrderCommit, Book, TransferCommit, intentVars
  <2>2. disbursed' = disbursed \/ disbursed' = [disbursed EXCEPT ![handler[h].item] = @ + 1]
    BY <1>2 DEF Finish, InitiateCommit, ChargeNotOpen, ChargeFailed, ChargeRejected, ChargeBooked,
       OrderTransfer, OrderCommit, Book, TransferCommit, TransferNotOpen, TransferFailed,
       TransferSucceeded, transferVars
  <2>3. exceptions \subseteq exceptions'
    BY <1>2 DEF Finish, InitiateCommit, ChargeNotOpen, ChargeFailed, ChargeRejected, ChargeBooked,
       OrderTransfer, OrderCommit, Book, TransferCommit, TransferNotOpen, TransferFailed,
       TransferSucceeded, Raise, reviewVars
  <2>. QED  BY <2>1, <2>2, <2>3 DEF TransfersInv, TypeOK
<1>. QED  BY <1>1, <1>2, RowsUntouched

\* A row becomes SUCCEEDED in the step that adds its entry.
LEMMA SettledWithEntry ==
  ASSUME TransfersInv, [Next]_vars, NEW i \in Intents
  PROVE  /\ intent'[i] = "SUCCEEDED" => intent[i] = "SUCCEEDED" \/ booked'[i] > 0
         /\ disbursement'[i] = "SUCCEEDED" => disbursement[i] = "SUCCEEDED" \/ disbursed'[i] > 0
<1>1. CASE UNCHANGED <<intentVars, transferVars, exceptions>>
  BY <1>1 DEF intentVars, transferVars
<1>2. ASSUME NEW h \in Handlers, Finish(h), intent'[i] = "SUCCEEDED", intent[i] # "SUCCEEDED"
      PROVE  booked'[i] > 0
  <2>1. CASE ChargeBooked(h) \/ OrderCommit(h)
    BY <1>2, <2>1 DEF ChargeBooked, OrderCommit, Book, TransfersInv, TypeOK
  <2>2. CASE InitiateCommit(h) \/ ChargeFailed(h)
    BY <1>2, <2>2 DEF InitiateCommit, ChargeFailed, TransfersInv, TypeOK
  <2>. QED
    BY <1>2, <2>1, <2>2 DEF Finish, ChargeNotOpen, ChargeRejected, OrderTransfer, TransferCommit,
       intentVars
<1>3. ASSUME NEW h \in Handlers, Finish(h), disbursement'[i] = "SUCCEEDED",
             disbursement[i] # "SUCCEEDED"
      PROVE  disbursed'[i] > 0
  <2>1. CASE ChargeBooked(h) \/ OrderCommit(h)
    BY <1>3, <2>1 DEF ChargeBooked, OrderCommit, TransfersInv, TypeOK, transferVars
  <2>2. CASE TransferCommit(h)
    BY <1>3, <2>2 DEF TransferCommit, TransferNotOpen, TransferFailed, TransferSucceeded,
       TransfersInv, TypeOK
  <2>. QED
    BY <1>3, <2>1, <2>2 DEF Finish, InitiateCommit, ChargeNotOpen, ChargeFailed, ChargeRejected,
       OrderTransfer, transferVars
<1>. QED  BY <1>1, <1>2, <1>3, RowsUntouched

\* What a webhook has just read.
LEMMA WebhookReads ==
  ASSUME TypeOK, [Next]_vars, NEW g \in Handlers, handler'[g] # handler[g],
         handler'[g].op \in {"charge", "transfer"}
  PROVE  /\ g \in HookHandlers
         /\ UNCHANGED <<intentVars, transferVars, reviewVars>>
         /\ handler'[g].item \in Intents
         /\ handler'[g].op = "charge" => handler'[g].found = intent[handler'[g].item]
         /\ handler'[g].op = "transfer" =>
               handler'[g].found \in {disbursement[handler'[g].item], "absent"}
<1>1. PICK ref \in References, s \in Outcomes : Deliver(g, ref, s)
  <2>1. ~ \E i \in Intents : Initiate(g, i)
    BY DEF Initiate, Begin, TypeOK
  <2>2. ~OrderTransfer(g)
    <3>. SUFFICES ASSUME OrderTransfer(g) PROVE FALSE
      OBVIOUS
    <3>1. handler'[g].op = "order"
      BY DEF OrderTransfer, TypeOK
    <3>. QED  BY <3>1
  <2>. QED  BY <2>1, <2>2, HandlerStep DEF Idle
<1>2. ref[1] \in Intents
  BY DEF References
<1>3. CASE ChargeRead(g, ref[1], s)
  BY <1>2, <1>3 DEF ChargeRead, Begin, TypeOK
<1>4. CASE TransferRead(g, ref[1], ref[2], s)
  BY <1>2, <1>4 DEF TransferRead, Begin, TypeOK
<1>. QED  BY <1>1, <1>3, <1>4 DEF Deliver

LEMMA NextSettledRowsBooked ==
  ASSUME SilentInv, [Next]_vars
  PROVE  SettledRowsBooked'
<1>. USE DEF SilentInv
<1>1. \A i \in Intents : /\ intent'[i] = "SUCCEEDED" => booked'[i] > 0
                         /\ disbursement'[i] = "SUCCEEDED" => disbursed'[i] > 0
  BY SettledWithEntry, HistoryGrows DEF SettledRowsBooked
<1>2. ASSUME NEW g \in Handlers, handler'[g].op = "charge", handler'[g].found = "SUCCEEDED"
      PROVE  booked'[handler'[g].item] > 0
  <2>1. CASE handler'[g] = handler[g]
    BY <1>2, <2>1, CallTypes, HistoryGrows DEF SettledRowsBooked, ChargeCall, TransfersInv
  <2>2. CASE handler'[g] # handler[g]
    BY <1>1, <1>2, <2>2, WebhookReads DEF TransfersInv, intentVars
  <2>. QED  BY <2>1, <2>2
<1>3. ASSUME NEW g \in Handlers, handler'[g].op = "transfer", handler'[g].found = "SUCCEEDED"
      PROVE  disbursed'[handler'[g].item] > 0
  <2>1. CASE handler'[g] = handler[g]
    BY <1>3, <2>1, CallTypes, HistoryGrows DEF SettledRowsBooked, TransferCall, TransfersInv
  <2>2. CASE handler'[g] # handler[g]
    BY <1>1, <1>3, <2>2, WebhookReads DEF TransfersInv, transferVars
  <2>. QED  BY <2>1, <2>2
<1>. QED  BY <1>1, <1>2, <1>3 DEF SettledRowsBooked

\* Which call has just answered a report, and how.
LEMMA NewlyAnswered ==
  ASSUME TypeOK, [Next]_vars, NEW ref, Acknowledged(ref)', ~Acknowledged(ref)
  PROVE  \E h \in Handlers :
            \/ /\ ChargeNotOpen(h) /\ handler[h].outcome = "succeeded"
               /\ ref = ChargeOf(handler[h].item)
            \/ \E i \in Intents : Book(h, i) /\ ref = ChargeOf(i)
            \/ /\ TransferCommit(h) /\ handler[h].outcome = "succeeded"
               /\ ref = <<handler[h].item, handler[h].ref>>
<1>. USE DEF Acknowledged
<1>1. PICK h \in Handlers : Finish(h)
  BY RowsUntouched
<1>2. CASE ChargeNotOpen(h)
  BY <1>2 DEF ChargeNotOpen, Answer
<1>3. CASE ChargeFailed(h)
  BY <1>3 DEF ChargeFailed, Answer
<1>4. CASE ChargeBooked(h) \/ OrderCommit(h)
  BY <1>4, SettlingTypes DEF ChargeBooked, OrderCommit, Book, Answer
<1>5. CASE TransferCommit(h)
  BY <1>5 DEF TransferCommit, Answer
<1>. QED
  BY <1>1, <1>2, <1>3, <1>4, <1>5 DEF Finish, InitiateCommit, ChargeRejected, OrderTransfer,
     reviewVars

LEMMA NextNoSilentMovement ==
  ASSUME SilentInv, [Next]_vars
  PROVE  NoSilentMovement'
<1>. USE DEF SilentInv
<1>1. ASSUME NEW i \in Intents, Acknowledged(ChargeOf(i))'
      PROVE  booked'[i] > 0 \/ ChargeOf(i) \in exceptions'
  <2>1. CASE Acknowledged(ChargeOf(i))
    BY <2>1, HistoryGrows DEF NoSilentMovement
  <2>2. ASSUME NEW h \in Handlers, ChargeNotOpen(h), handler[h].outcome = "succeeded",
               ChargeOf(i) = ChargeOf(handler[h].item)
        PROVE  booked'[i] > 0 \/ ChargeOf(i) \in exceptions'
    BY <2>2, HistoryGrows DEF ChargeNotOpen, ChargeOf, Recorded, Raise, SettledRowsBooked
  <2>3. ASSUME NEW h \in Handlers, NEW j \in Intents, Book(h, j), ChargeOf(i) = ChargeOf(j)
        PROVE  booked'[i] > 0
    BY <2>3 DEF Book, ChargeOf, TransfersInv, TypeOK
  <2>4. ASSUME NEW h \in Handlers, TransferCommit(h), ChargeOf(i) = <<handler[h].item, handler[h].ref>>
        PROVE  FALSE
    <3>1. handler[h].ref \in Attempts
      BY <2>4, CallTypes DEF TransferCommit, TransferCall, TransfersInv
    <3>. QED  BY <2>4, <3>1 DEF ChargeOf, Attempts
  <2>. QED  BY <1>1, <2>1, <2>2, <2>3, <2>4, NewlyAnswered DEF TransfersInv
<1>2. ASSUME NEW i \in Intents, NEW n \in Attempts, Acknowledged(<<i, n>>)'
      PROVE  (reference'[i] = n /\ disbursed'[i] > 0) \/ <<i, n>> \in exceptions'
  <2>1. reference[i] = n => reference'[i] = n
    BY RowStays DEF TransfersInv, ReferencesStand, Attempts
  <2>2. CASE Acknowledged(<<i, n>>)
    BY <2>1, <2>2, HistoryGrows DEF NoSilentMovement
  <2>3. ASSUME NEW h \in Handlers, TransferCommit(h), handler[h].outcome = "succeeded",
               handler[h].item = i, handler[h].ref = n
        PROVE  (reference'[i] = n /\ disbursed'[i] > 0) \/ <<i, n>> \in exceptions'
    <3>1. handler[h].found # "absent" => reference[i] = n
      BY <2>3 DEF TransferCommit, TransfersInv, ReferencesStand
    <3>2. CASE TransferNotOpen(<<i, n>>, handler[h].found, "succeeded")
      BY <2>1, <2>3, <3>1, <3>2, HistoryGrows DEF TransferCommit, TransferNotOpen, Recorded, Raise,
         SettledRowsBooked
    <3>3. CASE TransferSucceeded(i, handler[h].found, "succeeded")
      BY <2>1, <3>1, <3>3 DEF TransferSucceeded, TransfersInv, TypeOK
    <3>. QED  BY <2>3, <3>2, <3>3 DEF TransferCommit, TransferFailed
  <2>4. \A j \in Intents : <<i, n>> # ChargeOf(j)
    BY DEF ChargeOf, Attempts
  <2>5. \A h \in Handlers : ChargeNotOpen(h) => handler[h].item \in Intents
    BY CallTypes DEF ChargeNotOpen, ChargeCall, TransfersInv
  <2>. QED  BY <1>2, <2>2, <2>3, <2>4, <2>5, NewlyAnswered DEF TransfersInv
<1>. QED  BY <1>1, <1>2 DEF NoSilentMovement

\* A success that named its organisation and was answered 200, of a charge or of
\* an onward transfer, is in the ledger or in the review queue, whatever order
\* the reports came in, however many of them were served at once and whatever
\* rolled back.  (One that names none is answered 200 and is in neither:
\* payment.controller.ts:108-111, 128-131.)
THEOREM NothingSilent == Spec => []NoSilentMovement
<1>1. Init => SilentInv
  BY InitTransfersInv DEF Init, Idle, SilentInv, SettledRowsBooked, NoSilentMovement, Acknowledged
<1>2. SilentInv /\ [Next]_vars => SilentInv'
  BY NextTypeOK, NextApart, NextReferencesStand, NextSettledRowsBooked, NextNoSilentMovement
  DEF SilentInv, TransfersInv
<1>3. SilentInv => NoSilentMovement
  BY DEF SilentInv
<1>. QED  BY <1>1, <1>2, <1>3, PTL DEF Spec
-----------------------------------------------------------------------------
(* Settlement.  The code takes no lock in either webhook handler: without    *)
(* the assumption below the claims are false, as two concurrent deliveries   *)
(* of one success report show.                                               *)

\* Webhooks are served by at most one handler.
SerialHooks == \A g, h \in HookHandlers : g = h

\* What a webhook read of an open row is still so when it commits.
WebhooksFresh ==
    \A h \in Handlers :
        LET call == handler[h] IN
        /\ call.op \in {"charge", "order", "transfer"} => h \in HookHandlers
        /\ call.op = "charge" /\ call.found = "INITIATED" => intent[call.item] = "INITIATED"
        /\ call.op = "order" => intent[call.item] = "INITIATED"
        /\ call.op = "transfer" /\ call.found = "PENDING" => disbursement[call.item] = "PENDING"

Initiating(h, i) == handler[h].op = "initiate" /\ handler[h].item = i

\* A payment is initiated once: its charge is made before its row is written.
InitiatedOnce ==
    \A i \in Intents :
        /\ charge[i] = "none" => intent[i] = "absent"
        /\ \A g, h \in Handlers :
              Initiating(g, i) => /\ charge[i] = "live" /\ intent[i] = "absent"
                                  /\ Initiating(h, i) => g = h

SettlementInv ==
    /\ TransfersInv
    /\ WebhooksFresh
    /\ InitiatedOnce

\* The ways in which a step changes the intents and their entries ...
Written(i) ==
    /\ intent[i] = "absent" /\ charge[i] = "live"
    /\ intent' = [intent EXCEPT ![i] = "INITIATED"]
    /\ UNCHANGED booked
ChargeRefused(i) ==
    /\ intent[i] = "INITIATED"
    /\ intent' = [intent EXCEPT ![i] = "FAILED"]
    /\ UNCHANGED booked
ChargeConfirmed(i) ==
    /\ intent[i] = "INITIATED"
    /\ intent' = [intent EXCEPT ![i] = "SUCCEEDED"]
    /\ booked' = [booked EXCEPT ![i] = @ + 1]

IntentStep ==
    \/ UNCHANGED intentVars
    \/ \E i \in Intents : Written(i) \/ ChargeRefused(i) \/ ChargeConfirmed(i)

\* ... and the automatic disbursements and theirs.
SentOn(i) ==
    /\ disbursement[i] = "absent"
    /\ \E st \in {"PENDING", "FAILED"} : disbursement' = [disbursement EXCEPT ![i] = st]
    /\ UNCHANGED disbursed
TransferRefused(i) ==
    /\ disbursement[i] = "PENDING"
    /\ disbursement' = [disbursement EXCEPT ![i] = "FAILED"]
    /\ UNCHANGED disbursed
TransferConfirmed(i) ==
    /\ disbursement[i] = "PENDING"
    /\ disbursement' = [disbursement EXCEPT ![i] = "SUCCEEDED"]
    /\ disbursed' = [disbursed EXCEPT ![i] = @ + 1]

DisbursementStep ==
    \/ UNCHANGED <<disbursement, disbursed>>
    \/ \E i \in Intents : SentOn(i) \/ TransferRefused(i) \/ TransferConfirmed(i)

LEMMA InitSettlementInv == Init => SettlementInv
  BY InitTransfersInv DEF Init, Idle, SettlementInv, WebhooksFresh, InitiatedOnce, Initiating

LEMMA NextIntentStep ==
  ASSUME SettlementInv, [Next]_vars
  PROVE  IntentStep
<1>. USE DEF SettlementInv
<1>1. CASE UNCHANGED intentVars
  BY <1>1 DEF IntentStep
<1>2. ASSUME NEW h \in Handlers, Finish(h), ~UNCHANGED intentVars
      PROVE  IntentStep
  <2>. DEFINE i == handler[h].item
  <2>1. CASE InitiateCommit(h)
    <3>1. i \in Intents /\ Initiating(h, i)
      BY <2>1, CallTypes DEF InitiateCommit, InitiateCall, TransfersInv, Initiating
    <3>2. Written(i)
      BY <2>1, <3>1 DEF InitiateCommit, InitiatedOnce, Written
    <3>. QED  BY <3>1, <3>2 DEF IntentStep
  <2>2. CASE ChargeFailed(h)
    <3>1. i \in Intents
      BY <2>2, CallTypes DEF ChargeFailed, ChargeCall, TransfersInv
    <3>2. ChargeRefused(i)
      BY <2>2 DEF ChargeFailed, WebhooksFresh, ChargeRefused
    <3>. QED  BY <3>1, <3>2 DEF IntentStep
  <2>3. CASE ChargeBooked(h) \/ OrderCommit(h)
    <3>1. i \in Intents
      BY <2>3, SettlingTypes DEF ChargeBooked, OrderCommit, TransfersInv
    <3>2. ChargeConfirmed(i)
      BY <2>3 DEF ChargeBooked, OrderCommit, Settling, Book, WebhooksFresh, ChargeConfirmed
    <3>. QED  BY <3>1, <3>2 DEF IntentStep
  <2>. QED
    BY <1>2, <2>1, <2>2, <2>3 DEF Finish, ChargeNotOpen, ChargeRejected, OrderTransfer,
       TransferCommit
<1>. QED  BY <1>1, <1>2, RowsUntouched

LEMMA NextDisbursementStep ==
  ASSUME SettlementInv, [Next]_vars
  PROVE  DisbursementStep
<1>. USE DEF SettlementInv
<1>1. CASE UNCHANGED <<disbursement, disbursed>>
  BY <1>1 DEF DisbursementStep
<1>2. ASSUME NEW h \in Handlers, Finish(h), ~UNCHANGED <<disbursement, disbursed>>
      PROVE  DisbursementStep
  <2>. DEFINE i == handler[h].item
  <2>1. CASE ChargeBooked(h)
    <3>1. i \in Intents
      BY <2>1, SettlingTypes DEF ChargeBooked, TransfersInv
    <3>2. SentOn(i)
      BY <1>2, <2>1 DEF ChargeBooked, RowFree, SentOn, transferVars
    <3>. QED  BY <3>1, <3>2 DEF DisbursementStep
  <2>2. CASE OrderCommit(h)
    <3>1. i \in Intents /\ Ordering(h, i)
      BY <2>2, SettlingTypes DEF OrderCommit, Ordering, TransfersInv
    <3>2. SentOn(i)
      BY <2>2, <3>1 DEF OrderCommit, TransfersInv, OrdersApart, SentOn
    <3>. QED  BY <3>1, <3>2 DEF DisbursementStep
  <2>3. CASE TransferCommit(h)
    <3>1. i \in Intents /\ (handler[h].found = "PENDING" => disbursement[i] = "PENDING")
      BY <2>3, CallTypes DEF TransferCommit, TransferCall, TransfersInv, WebhooksFresh
    <3>2. TransferRefused(i) \/ TransferConfirmed(i)
      BY <1>2, <2>3, <3>1 DEF TransferCommit, TransferNotOpen, TransferFailed, TransferSucceeded,
         TransferRefused, TransferConfirmed
    <3>. QED  BY <3>1, <3>2 DEF DisbursementStep
  <2>. QED
    BY <1>2, <2>1, <2>2, <2>3 DEF Finish, InitiateCommit, ChargeNotOpen, ChargeFailed,
       ChargeRejected, OrderTransfer, transferVars
<1>. QED  BY <1>1, <1>2, RowsUntouched DEF transferVars

\* Only a webhook that ends moves a row that is open.
LEMMA OpenUntilWebhook ==
  ASSUME SettlementInv, [Next]_vars, NEW i \in Intents,
         \/ intent[i] = "INITIATED" /\ intent'[i] # "INITIATED"
         \/ disbursement[i] = "PENDING" /\ disbursement'[i] # "PENDING"
  PROVE  \E h \in HookHandlers :
            handler[h].op \in {"charge", "order", "transfer"} /\ handler'[h] = Idle
<1>. USE DEF SettlementInv
<1>1. PICK h \in Handlers : Finish(h)
  BY RowsUntouched DEF intentVars, transferVars
<1>2. CASE ChargeFailed(h) \/ ChargeBooked(h) \/ OrderCommit(h) \/ TransferCommit(h)
  <2>1. handler[h].op \in {"charge", "order", "transfer"} /\ End(h)
    BY <1>2 DEF ChargeFailed, ChargeBooked, Settling, Book, OrderCommit, TransferCommit
  <2>2. handler'[h] = Idle
    BY <2>1 DEF End, TransfersInv, TypeOK
  <2>. QED  BY <2>1, <2>2 DEF WebhooksFresh
<1>3. CASE InitiateCommit(h)
  BY <1>3 DEF InitiateCommit, TransfersInv, TypeOK, transferVars
<1>4. CASE ChargeNotOpen(h) \/ ChargeRejected(h) \/ OrderTransfer(h)
  BY <1>4 DEF ChargeNotOpen, ChargeRejected, OrderTransfer, intentVars, transferVars
<1>. QED  BY <1>1, <1>2, <1>3, <1>4 DEF Finish

LEMMA NextWebhooksFresh ==
  ASSUME SerialHooks, SettlementInv, [Next]_vars
  PROVE  WebhooksFresh'
<1>. USE DEF SettlementInv
<1>. SUFFICES ASSUME NEW g \in Handlers, handler'[g].op \in {"charge", "order", "transfer"}
              PROVE  LET call == handler'[g] IN
                     /\ g \in HookHandlers
                     /\ call.op = "charge" /\ call.found = "INITIATED" =>
                           intent'[call.item] = "INITIATED"
                     /\ call.op = "order" => intent'[call.item] = "INITIATED"
                     /\ call.op = "transfer" /\ call.found = "PENDING" =>
                           disbursement'[call.item] = "PENDING"
  BY DEF WebhooksFresh
<1>1. CASE handler'[g] = handler[g]
  <2>1. g \in HookHandlers /\ handler[g].item \in Intents
    BY <1>1, CallTypes DEF WebhooksFresh, ChargeCall, OrderCall, TransferCall, TransfersInv
  <2>2. ~ \E h \in HookHandlers :
             handler[h].op \in {"charge", "order", "transfer"} /\ handler'[h] = Idle
    BY <2>1 DEF SerialHooks, Idle
  <2>. QED  BY <1>1, <2>1, <2>2, OpenUntilWebhook DEF WebhooksFresh
<1>2. CASE handler'[g] # handler[g] /\ handler'[g].op = "order"
  <2>1. OrderTransfer(g)
    <3>1. ~ \E i \in Intents : Initiate(g, i)
      BY <1>2 DEF Initiate, Begin, TransfersInv, TypeOK
    <3>2. ASSUME NEW ref \in References, NEW s \in Outcomes, Deliver(g, ref, s) PROVE FALSE
      BY <1>2, <3>2, DeliverCall DEF Begin, TransfersInv, TypeOK
    <3>. QED  BY <1>2, <3>1, <3>2, HandlerStep DEF TransfersInv, Idle
  <2>2. /\ g \in HookHandlers /\ intent[handler[g].item] = "INITIATED"
        /\ intent' = intent
    BY <2>1 DEF OrderTransfer, Settling, WebhooksFresh, intentVars
  <2>3. handler'[g].item = handler[g].item
    BY <2>1 DEF OrderTransfer, TransfersInv, TypeOK
  <2>. QED  BY <1>2, <2>2, <2>3
<1>3. CASE handler'[g] # handler[g] /\ handler'[g].op \in {"charge", "transfer"}
  BY <1>3, WebhookReads DEF TransfersInv, intentVars, transferVars
<1>. QED  BY <1>1, <1>2, <1>3

\* A charge that was made stays made, and an initiation that goes on is of it.
LEMMA ChargeStep ==
  ASSUME TransfersInv, [Next]_vars
  PROVE  \/ charge' = charge /\ \A g \in Handlers : handler'[g].op = "initiate" =>
                                                       handler'[g] = handler[g]
         \/ \E h \in Handlers, i \in Intents : Initiate(h, i)
<1>. SUFFICES ASSUME ~ \E h \in Handlers, i \in Intents : Initiate(h, i)
              PROVE  charge' = charge /\ \A g \in Handlers : handler'[g].op = "initiate" =>
                                                                handler'[g] = handler[g]
  OBVIOUS
<1>1. charge' = charge
  <2>1. CASE UNCHANGED vars
    BY <2>1 DEF vars, providerVars
  <2>2. ASSUME NEW h \in Handlers, Finish(h) PROVE charge' = charge
    BY <2>2 DEF Finish, InitiateCommit, ChargeNotOpen, ChargeFailed, ChargeRejected, ChargeBooked,
       Book, OrderTransfer, OrderCommit, TransferCommit, providerVars
  <2>3. ASSUME \/ CreateSettlementAccount
               \/ \E on \in BOOLEAN : SetAutoDisbursement(on)
               \/ \E i \in Intents : ObligationsMove(i)
               \/ \E ref \in References, s \in Outcomes : ProviderReport(ref, s)
               \/ \E ref \in References, s \in Outcomes : IgnoreEvent(ref, s)
               \/ \E h \in Handlers : \/ Abort(h)
                                      \/ \E ref \in References, s \in Outcomes : Deliver(h, ref, s)
        PROVE  charge' = charge
    BY <2>3 DEF CreateSettlementAccount, SetAutoDisbursement, ObligationsMove, ProviderReport,
       IgnoreEvent, Abort, Deliver, ChargeRead, TransferRead, providerVars
  <2>. QED  BY <2>1, <2>2, <2>3 DEF Next
<1>2. ASSUME NEW g \in Handlers, handler'[g].op = "initiate", handler'[g] # handler[g]
      PROVE  FALSE
  <2>1. CASE OrderTransfer(g)
    <3>1. handler'[g].op = "order"
      BY <2>1 DEF OrderTransfer, TransfersInv, TypeOK
    <3>. QED  BY <1>2, <3>1
  <2>2. ASSUME NEW ref \in References, NEW s \in Outcomes, Deliver(g, ref, s) PROVE FALSE
    BY <1>2, <2>2, DeliverCall DEF Begin, TransfersInv, TypeOK
  <2>. QED  BY <1>2, <2>1, <2>2, HandlerStep DEF TransfersInv, Idle
<1>. QED  BY <1>1, <1>2

LEMMA NextInitiatedOnce ==
  ASSUME SettlementInv, [Next]_vars
  PROVE  InitiatedOnce'
<1>. USE DEF SettlementInv
<1>1. CASE charge' = charge /\ \A g \in Handlers : handler'[g].op = "initiate" =>
                                                      handler'[g] = handler[g]
  <2>1. \A g \in Handlers, i \in Intents : Initiating(g, i)' => Initiating(g, i)
    BY <1>1 DEF Initiating
  <2>2. ASSUME NEW g \in Handlers, NEW i \in Intents, Initiating(g, i)' PROVE intent'[i] = "absent"
    <3>. SUFFICES ASSUME intent'[i] # intent[i] PROVE FALSE
      BY <2>1, <2>2 DEF InitiatedOnce
    <3>1. PICK h \in Handlers : Finish(h)
      BY RowsUntouched DEF intentVars
    <3>2. intent[i] = "absent" /\ Initiating(g, i)
      BY <2>1, <2>2 DEF InitiatedOnce
    <3>3. CASE InitiateCommit(h)
      <4>1. Initiating(h, i) /\ handler'[h] = Idle
        BY <3>3 DEF InitiateCommit, End, Initiating, TransfersInv, TypeOK
      <4>2. h = g
        BY <3>2, <4>1 DEF InitiatedOnce
      <4>. QED  BY <2>2, <4>1, <4>2 DEF Initiating, Idle
    <3>4. CASE ChargeFailed(h) \/ ChargeBooked(h) \/ OrderCommit(h)
      BY <3>2, <3>4 DEF ChargeFailed, ChargeBooked, OrderCommit, Settling, Book, WebhooksFresh,
         TransfersInv, TypeOK
    <3>. QED
      BY <3>1, <3>3, <3>4 DEF Finish, ChargeNotOpen, ChargeRejected, OrderTransfer, TransferCommit,
         intentVars
  <2>3. \A i \in Intents : charge'[i] = "none" => intent'[i] = "absent"
    <3>1. IntentStep
      BY NextIntentStep
    <3>. QED
      BY <1>1, <3>1 DEF IntentStep, Written, ChargeRefused, ChargeConfirmed, InitiatedOnce,
         TransfersInv, TypeOK, intentVars
  <2>. QED  BY <1>1, <2>1, <2>2, <2>3 DEF InitiatedOnce
<1>2. ASSUME NEW h \in Handlers, NEW i \in Intents, Initiate(h, i) PROVE InitiatedOnce'
  <2>1. /\ charge[i] = "none" /\ intent' = intent
        /\ \A j \in Intents : charge'[j] = IF j = i THEN "live" ELSE charge[j]
        /\ \A g \in Handlers : handler'[g] = IF g = h THEN [op |-> "initiate", item |-> i]
                                                     ELSE handler[g]
    BY <1>2 DEF Initiate, Begin, TransfersInv, TypeOK, intentVars
  <2>2. \A g \in Handlers, j \in Intents :
           Initiating(g, j)' => (g = h /\ j = i) \/ (g # h /\ Initiating(g, j))
    BY <2>1 DEF Initiating
  <2>. QED  BY <2>1, <2>2 DEF InitiatedOnce
<1>. QED  BY <1>1, <1>2, ChargeStep

LEMMA SettlementInvariant == SerialHooks => (Spec => []SettlementInv)
<1>. SUFFICES ASSUME SerialHooks PROVE Spec => []SettlementInv
  OBVIOUS
<1>1. SettlementInv /\ [Next]_vars => SettlementInv'
  BY NextTypeOK, NextApart, NextReferencesStand, NextWebhooksFresh, NextInitiatedOnce
  DEF SettlementInv, TransfersInv
<1>. QED  BY <1>1, InitSettlementInv, PTL DEF Spec
-----------------------------------------------------------------------------
\* With webhooks served one at a time, a contribution implements the settlement
\* of a provider operation: it is confirmed and booked in one step, at most
\* once, or refused, and neither answer is revisited (handleWebhook).
THEOREM ContributionsSettle == SerialHooks => (Spec => ReceiptsSettle)
<1>. SUFFICES ASSUME SerialHooks PROVE Spec => ReceiptsSettle
  OBVIOUS
<1>1. Init => Receipts!SettlementInit
  BY DEF Init, Receipts!SettlementInit, ReceiptOutcome
<1>2. SettlementInv /\ [Next]_vars => [Receipts!SettlementNext]_(Receipts!settlementVars)
  <2>. SUFFICES ASSUME SettlementInv, [Next]_vars
                PROVE  [Receipts!SettlementNext]_(Receipts!settlementVars)
    OBVIOUS
  <2>1. IntentStep
    BY NextIntentStep
  <2>2. TypeOK
    BY DEF SettlementInv, TransfersInv
  <2>3. CASE UNCHANGED intentVars
    BY <2>3 DEF intentVars, Receipts!settlementVars, ReceiptOutcome
  <2>4. ASSUME NEW i \in Intents, Written(i) PROVE UNCHANGED Receipts!settlementVars
    BY <2>2, <2>4 DEF Written, TypeOK, Receipts!settlementVars, ReceiptOutcome
  <2>5. ASSUME NEW i \in Intents, ChargeRefused(i) PROVE Receipts!Refuse(i)
    BY <2>2, <2>5 DEF ChargeRefused, TypeOK, Receipts!Refuse, ReceiptOutcome
  <2>6. ASSUME NEW i \in Intents, ChargeConfirmed(i) PROVE Receipts!Confirm(i)
    BY <2>2, <2>6 DEF ChargeConfirmed, TypeOK, Receipts!Confirm, ReceiptOutcome
  <2>. QED  BY <2>1, <2>3, <2>4, <2>5, <2>6 DEF IntentStep, Receipts!SettlementNext
<1>. QED
  BY <1>1, <1>2, SettlementInvariant, PTL
  DEF Spec, ReceiptsSettle, Receipts!SettlementSpec

\* With webhooks served one at a time, so does its onward transfer
\* (confirmAutoDisbursementTransfer), for any number of rollbacks.
THEOREM TransfersSettle == SerialHooks => (Spec => DisbursementsSettle)
<1>. SUFFICES ASSUME SerialHooks PROVE Spec => DisbursementsSettle
  OBVIOUS
<1>1. Init => Disbursements!SettlementInit
  BY DEF Init, Disbursements!SettlementInit, TransferOutcome
<1>2. SettlementInv /\ [Next]_vars =>
        [Disbursements!SettlementNext]_(Disbursements!settlementVars)
  <2>. SUFFICES ASSUME SettlementInv, [Next]_vars
                PROVE  [Disbursements!SettlementNext]_(Disbursements!settlementVars)
    OBVIOUS
  <2>1. DisbursementStep
    BY NextDisbursementStep
  <2>2. TypeOK
    BY DEF SettlementInv, TransfersInv
  <2>3. CASE UNCHANGED <<disbursement, disbursed>>
    BY <2>3 DEF Disbursements!settlementVars, TransferOutcome
  <2>4. ASSUME NEW i \in Intents, SentOn(i)
        PROVE  Disbursements!Refuse(i) \/ UNCHANGED Disbursements!settlementVars
    <3>1. CASE disbursement'[i] = "FAILED"
      BY <2>2, <2>4, <3>1 DEF SentOn, TypeOK, Disbursements!Refuse, TransferOutcome
    <3>2. CASE disbursement'[i] # "FAILED"
      BY <2>2, <2>4, <3>2 DEF SentOn, TypeOK, Disbursements!settlementVars, TransferOutcome
    <3>. QED  BY <3>1, <3>2
  <2>5. ASSUME NEW i \in Intents, TransferRefused(i) PROVE Disbursements!Refuse(i)
    BY <2>2, <2>5 DEF TransferRefused, TypeOK, Disbursements!Refuse, TransferOutcome
  <2>6. ASSUME NEW i \in Intents, TransferConfirmed(i) PROVE Disbursements!Confirm(i)
    BY <2>2, <2>6 DEF TransferConfirmed, TypeOK, Disbursements!Confirm, TransferOutcome
  <2>. QED  BY <2>1, <2>3, <2>4, <2>5, <2>6 DEF DisbursementStep, Disbursements!SettlementNext
<1>. QED
  BY <1>1, <1>2, SettlementInvariant, PTL
  DEF Spec, DisbursementsSettle, Disbursements!SettlementSpec
=============================================================================
