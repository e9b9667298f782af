---------------------------- MODULE ClaimsProofs ----------------------------
(***************************************************************************)
(* Proofs about Claims, for every value of its constants.                  *)
(***************************************************************************)
EXTENDS Claims, FiniteSetTheorems, SequenceTheorems, TLAPS

Calls == {Idle} \cup ActivateCall \cup RejectCall \cup SubmitCall \cup DecideCall \cup ClaimCall

LEMMA CallTypes ==
  ASSUME TypeOK, NEW h \in Handlers
  PROVE  /\ handler[h].op = "activate" => handler[h] \in ActivateCall
         /\ handler[h].op = "reject" => handler[h] \in RejectCall
         /\ handler[h].op = "submit" => handler[h] \in SubmitCall
         /\ handler[h].op = "decide" => handler[h] \in DecideCall
         /\ handler[h].op \in {"evidence", "disburse"} => handler[h] \in ClaimCall
  BY DEF TypeOK, Idle, ActivateCall, RejectCall, SubmitCall, DecideCall, ClaimCall

-----------------------------------------------------------------------------
(* Type correctness. *)

LEMMA InitTypeOK == Init => TypeOK
<1>. SUFFICES ASSUME Init PROVE TypeOK
  OBVIOUS
<1>1. [at |-> 0, to |-> standing] \in Change
  BY ClaimsAssumption DEF Init, Change, Days
<1>2. trail \in Seq(Change)
  BY <1>1 DEF Init
<1>. QED
  BY <1>2, ClaimsAssumption DEF Init, TypeOK, RuleStatuses, Statuses, Days

\* A call begins: only its handler and what overlapped change.
LEMMA BeginTypeOK ==
  ASSUME TypeOK, NEW h \in Handlers, NEW call \in Calls,
         Begin(h, call), overlapped' \subseteq Claims \cup (Rules \X Subjects),
         UNCHANGED <<ruleVars, claimVars, memberVars>>
  PROVE  TypeOK'
  BY DEF TypeOK, Begin, Calls, ruleVars, claimVars, memberVars

LEMMA BeginOnTypeOK ==
  ASSUME TypeOK, NEW h \in Handlers, NEW call \in Calls, BeginOn(h, call),
         call.on \in Claims \cup (Rules \X Subjects),
         UNCHANGED <<ruleVars, claimVars, memberVars>>
  PROVE  TypeOK'
<1>1. overlapped' \subseteq Claims \cup (Rules \X Subjects)
  BY DEF BeginOn, TypeOK
<1>. QED  BY <1>1, BeginTypeOK DEF BeginOn

LEMMA ReadTypeOK ==
  ASSUME TypeOK, NEW h \in Handlers,
         \/ \E r \in Rules, a \in Actors, d \in Days : ActivateRead(h, r, a, d)
         \/ \E r \in Rules : RejectRead(h, r)
         \/ \E r \in Rules, s \in Subjects, a \in Actors, e \in Days :
               SubmitCheck(h, r, s, a, e)
         \/ \E c \in Claims : EvidenceCheck(h, c) \/ DisburseRead(h, c)
         \/ \E c \in Claims, a \in Actors, d \in Decisions : DecideRead(h, c, a, d)
  PROVE  TypeOK'
<1>1. ASSUME NEW r \in Rules, NEW a \in Actors, NEW d \in Days, ActivateRead(h, r, a, d)
      PROVE  TypeOK'
  <2>1. [op |-> "activate", rule |-> r, from |-> d] \in Calls
    BY DEF Calls, ActivateCall
  <2>. QED  BY <1>1, <2>1, BeginTypeOK DEF ActivateRead, TypeOK
<1>2. ASSUME NEW r \in Rules, RejectRead(h, r) PROVE TypeOK'
  <2>1. [op |-> "reject", rule |-> r] \in Calls
    BY DEF Calls, RejectCall
  <2>. QED  BY <1>2, <2>1, BeginTypeOK DEF RejectRead, TypeOK
<1>3. ASSUME NEW r \in Rules, NEW s \in Subjects, NEW a \in Actors, NEW e \in Days,
             SubmitCheck(h, r, s, a, e)
      PROVE  TypeOK'
  <2>1. [op |-> "submit", on |-> <<r, s>>, by |-> a, event |-> e] \in Calls
    BY DEF Calls, SubmitCall
  <2>. QED  BY <1>3, <2>1, BeginOnTypeOK DEF SubmitCheck
<1>4. ASSUME NEW c \in Claims, EvidenceCheck(h, c) PROVE TypeOK'
  <2>1. [op |-> "evidence", on |-> c] \in Calls
    BY DEF Calls, ClaimCall
  <2>. QED  BY <1>4, <2>1, BeginOnTypeOK DEF EvidenceCheck
<1>5. ASSUME NEW c \in Claims, DisburseRead(h, c) PROVE TypeOK'
  <2>1. [op |-> "disburse", on |-> c] \in Calls
    BY DEF Calls, ClaimCall
  <2>. QED  BY <1>5, <2>1, BeginOnTypeOK DEF DisburseRead
<1>6. ASSUME NEW c \in Claims, NEW a \in Actors, NEW d \in Decisions, DecideRead(h, c, a, d)
      PROVE  TypeOK'
  <2>1. [op |-> "decide", on |-> c, by |-> a, decision |-> d, stage |-> stage[c]] \in Calls
    BY DEF Calls, DecideCall, TypeOK
  <2>. QED  BY <1>6, <2>1, BeginOnTypeOK DEF DecideRead
<1>. QED  BY <1>1, <1>2, <1>3, <1>4, <1>5, <1>6

LEMMA RuleTypeOK ==
  ASSUME TypeOK,
         \/ \E r \in Rules, a \in Actors : Draft(r, a, {}) \/ \E q \in Rules : Draft(r, a, {q})
         \/ \E h \in Handlers : ActivateCommit(h) \/ RejectCommit(h)
  PROVE  TypeOK'
<1>1. ASSUME NEW r \in Rules, NEW a \in Actors, NEW p \in SUBSET Rules, Draft(r, a, p)
      PROVE  TypeOK'
  BY <1>1 DEF Draft, TypeOK, RuleStatuses, claimVars, memberVars
<1>2. ASSUME NEW h \in Handlers, ActivateCommit(h) PROVE TypeOK'
  <2>1. handler[h].rule \in Rules /\ handler[h].from \in Days
    BY <1>2, CallTypes DEF ActivateCommit, ActivateCall
  <2>2. ruleStatus' \in [Rules -> RuleStatuses]
    BY <1>2 DEF ActivateCommit, TypeOK, RuleStatuses
  <2>3. from' \in [Rules -> SUBSET Days] /\ ended' \in [Rules -> SUBSET Days]
    BY <1>2, <2>1 DEF ActivateCommit, TypeOK, EndedWhen
  <2>. QED
    BY <1>2, <2>2, <2>3 DEF ActivateCommit, End, TypeOK, claimVars, memberVars
<1>3. ASSUME NEW h \in Handlers, RejectCommit(h) PROVE TypeOK'
  BY <1>3 DEF RejectCommit, End, TypeOK, RuleStatuses, claimVars, memberVars
<1>. QED  BY <1>1, <1>2, <1>3

LEMMA ClaimTypeOK ==
  ASSUME TypeOK, NEW h \in Handlers,
         \/ \E c \in Claims : SubmitInsert(h, c)
         \/ EvidenceAdd(h) \/ DecideCommit(h) \/ DisburseCommit(h)
  PROVE  TypeOK'
<1>1. ASSUME NEW c \in Claims, SubmitInsert(h, c) PROVE TypeOK'
  <2>1. handler[h] \in SubmitCall
    BY <1>1, CallTypes DEF SubmitInsert
  <2>2. [rule |-> handler[h].on[1], subject |-> handler[h].on[2],
         by |-> handler[h].by, event |-> handler[h].event] \in Terms
    BY <2>1 DEF SubmitCall, Terms
  <2>. QED
    BY <1>1, <2>2 DEF SubmitInsert, End, TypeOK, Statuses, ruleVars, memberVars
<1>2. CASE EvidenceAdd(h)
  <2>1. handler[h].on \in Claims
    BY <1>2, CallTypes DEF EvidenceAdd, ClaimCall
  <2>. QED
    BY <1>2, <2>1 DEF EvidenceAdd, End, TypeOK, ruleVars, memberVars
<1>3. CASE DecideCommit(h)
  <2>. DEFINE d == [stage |-> handler[h].stage, by |-> handler[h].by,
                    decision |-> handler[h].decision]
  <2>1. handler[h] \in DecideCall
    BY <1>3, CallTypes DEF DecideCommit
  <2>2. d \in [stage : Nat, by : Actors, decision : Decisions] /\ handler[h].stage + 1 \in Nat
    BY <2>1 DEF DecideCall
  <2>3. decisions' \in [Claims -> SUBSET [stage : Nat, by : Actors, decision : Decisions]]
    BY <1>3, <2>1, <2>2 DEF DecideCommit, TypeOK, DecideCall
  <2>4. \/ status' = [status EXCEPT ![handler[h].on] = "REJECTED"] /\ stage' = stage
        \/ status' = [status EXCEPT ![handler[h].on] = "APPROVED"] /\ stage' = stage
        \/ stage' = [stage EXCEPT ![handler[h].on] = handler[h].stage + 1] /\ status' = status
    BY <1>3 DEF DecideCommit
  <2>5. status \in [Claims -> Statuses] /\ stage \in [Claims -> Nat]
    BY DEF TypeOK
  <2>6. status' \in [Claims -> Statuses]
    BY <2>4, <2>5 DEF Statuses
  <2>7. stage' \in [Claims -> Nat]
    BY <2>2, <2>4, <2>5
  <2>. QED
    BY <1>3, <2>3, <2>6, <2>7 DEF DecideCommit, End, TypeOK, ruleVars, memberVars
<1>4. CASE DisburseCommit(h)
  <2>1. handler[h].on \in Claims
    BY <1>4, CallTypes DEF DisburseCommit, ClaimCall
  <2>. QED
    BY <1>4, <2>1 DEF DisburseCommit, End, TypeOK, Statuses, ruleVars, memberVars
<1>. QED  BY <1>1, <1>2, <1>3, <1>4

LEMMA MemberTypeOK ==
  ASSUME TypeOK, NextDay \/ \E s \in Standings : ChangeStanding(s)
  PROVE  TypeOK'
<1>1. CASE NextDay
  BY <1>1, ClaimsAssumption DEF NextDay, TypeOK, Days, ruleVars, claimVars
<1>2. ASSUME NEW s \in Standings, ChangeStanding(s) PROVE TypeOK'
  <2>1. [at |-> day, to |-> s] \in Change
    BY DEF TypeOK, Change
  <2>2. trail' \in Seq(Change)
    BY <1>2, <2>1, AppendProperties DEF ChangeStanding, TypeOK
  <2>. QED
    BY <1>2, <2>2 DEF ChangeStanding, TypeOK, ruleVars, claimVars
<1>. QED  BY <1>1, <1>2

LEMMA NextTypeOK == TypeOK /\ [Next]_vars => TypeOK'
<1>. SUFFICES ASSUME TypeOK, [Next]_vars PROVE TypeOK'
  OBVIOUS
<1>1. CASE UNCHANGED vars
  BY <1>1 DEF vars, ruleVars, claimVars, memberVars, TypeOK
<1>2. CASE Next
  BY <1>2, ReadTypeOK, RuleTypeOK, ClaimTypeOK, MemberTypeOK DEF Next
<1>. QED  BY <1>1, <1>2

\* Every row of the rules, the claims and the trail keeps its type.
THEOREM TypeCorrect == Spec => []TypeOK
  BY InitTypeOK, NextTypeOK, PTL DEF Spec
-----------------------------------------------------------------------------
(* Versions of a rule. *)

\* A rule amends one other at most, and no other rule amends the same; a rule's
\* last day is set when its amendment takes effect, to the day that it does.
RulesInv ==
    /\ \A r \in Rules : ruleStatus[r] = "absent" => supersedes[r] = {} /\ from[r] = {}
    /\ \A r \in Rules : \A p, q \in supersedes[r] : p = q
    /\ \A r, s \in Rules : \A p \in supersedes[r] : p \in supersedes[s] => r = s
    /\ \A p \in Rules : ended[p] # {} => \E r \in Rules : p \in supersedes[r]
    /\ VersionsAbut

LEMMA DraftRulesInv ==
  ASSUME TypeOK, RulesInv, NEW r \in Rules, NEW a \in Actors,
         NEW p \in {{}} \cup {{q} : q \in Rules}, Draft(r, a, p)
  PROVE  RulesInv'
<1>1. /\ ruleStatus[r] = "absent" /\ supersedes[r] = {} /\ from[r] = {}
      /\ ruleStatus' = [ruleStatus EXCEPT ![r] = "DRAFT"]
      /\ supersedes' = [supersedes EXCEPT ![r] = p]
      /\ from' = from /\ ended' = ended
  BY DEF Draft, RulesInv
<1>2. \A s \in Rules : p # {} => supersedes[s] # p
  BY DEF Draft, NotAmendedYet
<1>3. \A x \in p : p = {x} /\ x \in Rules
  OBVIOUS
<1>4. \A s \in Rules : \A x \in supersedes[s] : supersedes[s] = {x}
  BY DEF RulesInv
<1>5. \A s \in Rules : \A x \in p : x \notin supersedes[s]
  BY <1>2, <1>3, <1>4
<1>6. \A x \in p : ended[x] = {}
  BY <1>3, <1>5 DEF RulesInv
<1>7. \A s \in Rules : supersedes'[s] = IF s = r THEN p ELSE supersedes[s]
  BY <1>1 DEF TypeOK
<1>8. \A s \in Rules : ruleStatus'[s] = IF s = r THEN "DRAFT" ELSE ruleStatus[s]
  BY <1>1 DEF TypeOK
<1>9. \A s \in Rules : ruleStatus'[s] = "absent" => supersedes'[s] = {} /\ from'[s] = {}
  BY <1>1, <1>7, <1>8 DEF RulesInv
<1>10. \A s \in Rules : \A x, y \in supersedes'[s] : x = y
  BY <1>3, <1>7 DEF RulesInv
<1>11. \A s, t \in Rules : \A x \in supersedes'[s] : x \in supersedes'[t] => s = t
  BY <1>5, <1>7 DEF RulesInv
<1>12. \A x \in Rules : ended'[x] # {} => \E s \in Rules : x \in supersedes'[s]
  BY <1>1, <1>7 DEF RulesInv
<1>13. VersionsAbut'
  <2>. SUFFICES ASSUME NEW s \in Rules, NEW x \in supersedes'[s]
                PROVE  ended'[x] = from'[s]
    BY DEF VersionsAbut
  <2>1. CASE s = r
    BY <1>1, <1>6, <1>7, <2>1
  <2>2. CASE s # r
    BY <1>1, <1>7, <2>2 DEF RulesInv, VersionsAbut
  <2>. QED  BY <2>1, <2>2
<1>. QED  BY <1>9, <1>10, <1>11, <1>12, <1>13 DEF RulesInv

LEMMA ActivateRulesInv ==
  ASSUME TypeOK, RulesInv, NEW h \in Handlers, ActivateCommit(h)
  PROVE  RulesInv'
<1>. DEFINE r == handler[h].rule
            d == handler[h].from
<1>1. r \in Rules
  BY CallTypes DEF ActivateCommit, ActivateCall
<1>2. /\ supersedes' = supersedes
      /\ \A q \in Rules : ruleStatus'[q] = "absent" => ruleStatus[q] = "absent" /\ q # r
      /\ \A q \in Rules : from'[q] = IF q = r THEN {d} ELSE from[q]
      /\ \A q \in Rules : ended'[q] = IF q \in supersedes[r] THEN {d} ELSE ended[q]
  BY <1>1 DEF ActivateCommit, EndedWhen, TypeOK
<1>3. VersionsAbut'
  <2>. SUFFICES ASSUME NEW s \in Rules, NEW p \in supersedes[s]
                PROVE  ended'[p] = from'[s]
    BY <1>2 DEF VersionsAbut
  <2>1. p \in Rules
    BY DEF TypeOK
  <2>2. p \in supersedes[r] <=> s = r
    BY <1>1 DEF RulesInv
  <2>3. ended[p] = from[s]
    BY DEF RulesInv, VersionsAbut
  <2>4. CASE s = r
    BY <1>2, <2>1, <2>2, <2>4
  <2>5. CASE s # r
    BY <1>2, <2>1, <2>2, <2>3, <2>5
  <2>. QED  BY <2>4, <2>5
<1>. QED  BY <1>1, <1>2, <1>3 DEF RulesInv

LEMMA InitRulesInv == Init => RulesInv
<1>. SUFFICES ASSUME Init PROVE RulesInv
  OBVIOUS
<1>1. /\ \A r \in Rules : supersedes[r] = {} /\ ended[r] = {}
      /\ \A r \in Rules : ruleStatus[r] = "absent" => from[r] = {}
  BY DEF Init
<1>. QED  BY <1>1 DEF RulesInv, VersionsAbut

LEMMA NextRulesInv == TypeOK /\ RulesInv /\ [Next]_vars => RulesInv'
<1>. SUFFICES ASSUME TypeOK, RulesInv, [Next]_vars PROVE RulesInv'
  OBVIOUS
<1>1. ASSUME UNCHANGED ruleVars PROVE RulesInv'
  BY <1>1 DEF ruleVars, RulesInv, VersionsAbut
<1>2. ASSUME NEW h \in Handlers, RejectCommit(h) PROVE RulesInv'
  <2>1. /\ \A q \in Rules : ruleStatus'[q] = "absent" => ruleStatus[q] = "absent"
        /\ UNCHANGED <<supersedes, from, ended>>
    BY <1>2 DEF RejectCommit, TypeOK
  <2>. QED  BY <2>1 DEF RulesInv, VersionsAbut
<1>3. ASSUME NEW r \in Rules, NEW a \in Actors,
             Draft(r, a, {}) \/ \E q \in Rules : Draft(r, a, {q})
      PROVE  RulesInv'
  BY <1>3, DraftRulesInv
<1>4. CASE UNCHANGED vars
  BY <1>1, <1>4 DEF vars
<1>5. CASE Next
  BY <1>1, <1>2, <1>3, <1>5, ActivateRulesInv
  DEF Next, NextDay, ChangeStanding, ActivateRead, RejectRead, SubmitCheck, SubmitInsert,
      EvidenceCheck, DisburseRead, DecideRead, EvidenceAdd, DecideCommit, DisburseCommit
<1>. QED  BY <1>4, <1>5

\* However drafts are activated twice, rejected meanwhile or dated back, the
\* versions of a rule abut (BenefitRuleService.activate).
THEOREM VersionsMeet == Spec => []VersionsAbut
<1>1. Init => TypeOK /\ RulesInv
  BY InitTypeOK, InitRulesInv
<1>2. (TypeOK /\ RulesInv) /\ [Next]_vars => (TypeOK /\ RulesInv)'
  BY NextTypeOK, NextRulesInv
<1>3. TypeOK /\ RulesInv => VersionsAbut
  BY DEF RulesInv
<1>. QED  BY <1>1, <1>2, <1>3, PTL DEF Spec
-----------------------------------------------------------------------------
(* The approval chain. *)

\* Some approver of stage k approved the claim, who may do so.
Approved(c, k) ==
    \A t \in terms[c] : \E d \in decisions[c] :
        d.stage = k /\ d.decision = "APPROVE" /\ (MakerChecker => d.by # t.by)
ThroughAll(c) == \A t \in terms[c] : \A k \in 0..(Chain[t.rule] - 1) : Approved(c, k)

\* The stages before the current one were approved, those before the stage
\* that a call in progress decides too, and all of them when one disburses.
StagesInv ==
    /\ \A c \in Claims : status[c] = "absent" => terms[c] = {} /\ stage[c] = 0
    /\ \A c \in Claims : \A s, t \in terms[c] : s = t
    /\ \A c \in Claims : \A k \in 0..(stage[c] - 1) : Approved(c, k)
    /\ \A c \in Claims : status[c] \in {"APPROVED", "PAID"} => ThroughAll(c)
    /\ \A h \in Handlers :
          /\ handler[h].op \in {"decide", "disburse"} => status[handler[h].on] # "absent"
          /\ handler[h].op = "disburse" => ThroughAll(handler[h].on)
          /\ handler[h].op = "decide" =>
                /\ \A k \in 0..(handler[h].stage - 1) : Approved(handler[h].on, k)
                /\ MakerChecker => \A t \in terms[handler[h].on] : t.by # handler[h].by

LEMMA InitStagesInv == Init => StagesInv
  BY ClaimsAssumption DEF Init, StagesInv, Approved, ThroughAll, Idle

\* The approvals of a claim stay.
LEMMA ApprovedStays ==
  ASSUME NEW c \in Claims, NEW k, Approved(c, k),
         terms'[c] = terms[c], decisions[c] \subseteq decisions'[c]
  PROVE  Approved(c, k)'
  BY DEF Approved

LEMMA QuietStages ==
  ASSUME StagesInv, UNCHANGED <<status, terms, stage, decisions>>,
         \A h \in Handlers : \/ handler'[h] = handler[h]
                             \/ handler'[h].op \notin {"decide", "disburse"}
  PROVE  StagesInv'
<1>1. /\ \A c : \A k : Approved(c, k) <=> Approved(c, k)'
      /\ \A c : ThroughAll(c) <=> ThroughAll(c)'
  BY DEF Approved, ThroughAll
<1>2. ASSUME NEW h \in Handlers
      PROVE /\ handler'[h].op \in {"decide", "disburse"} => status'[handler'[h].on] # "absent"
            /\ handler'[h].op = "disburse" =>
                  \A t \in terms'[handler'[h].on] : \A k \in 0..(Chain[t.rule] - 1) :
                     \A u \in terms'[handler'[h].on] : \E d \in decisions'[handler'[h].on] :
                        d.stage = k /\ d.decision = "APPROVE" /\ (MakerChecker => d.by # u.by)
            /\ handler'[h].op = "decide" =>
                 /\ \A k \in 0..(handler'[h].stage - 1) :
                     \A u \in terms'[handler'[h].on] : \E d \in decisions'[handler'[h].on] :
                        d.stage = k /\ d.decision = "APPROVE" /\ (MakerChecker => d.by # u.by)
                 /\ MakerChecker => \A t \in terms'[handler'[h].on] : t.by # handler'[h].by
  <2>1. CASE handler'[h] = handler[h]
    BY <2>1 DEF StagesInv, Approved, ThroughAll
  <2>. QED  BY <2>1
<1>. QED  BY <1>1, <1>2 DEF StagesInv, Approved, ThroughAll

LEMMA ReadStages ==
  ASSUME TypeOK, StagesInv, NEW h \in Handlers, NEW c \in Claims,
         \/ DisburseRead(h, c)
         \/ \E a \in Actors, d \in Decisions : DecideRead(h, c, a, d)
  PROVE  StagesInv'
<1>0. handler \in [Handlers -> Calls]
  BY DEF TypeOK, Calls
<1>1. UNCHANGED <<status, terms, stage, decisions>>
  BY DEF DisburseRead, DecideRead, claimVars
<1>2. PICK call : /\ handler' = [handler EXCEPT ![h] = call]
                  /\ call.op \in {"decide", "disburse"} /\ call.on = c
                  /\ call.op = "disburse" => status[c] = "APPROVED"
                  /\ call.op = "decide" =>
                        /\ status[c] = "SUBMITTED" /\ call.stage = stage[c]
                        /\ MakerChecker => \A t \in terms[c] : t.by # call.by
  <2>1. CASE DisburseRead(h, c)
    <3>. DEFINE call == [op |-> "disburse", on |-> c]
    <3>1. handler' = [handler EXCEPT ![h] = call] /\ status[c] = "APPROVED"
      BY <2>1 DEF DisburseRead, BeginOn, Begin, Disbursable
    <3>2. call.op = "disburse" /\ call.on = c
      OBVIOUS
    <3>. QED  BY <3>1, <3>2
  <2>2. ASSUME NEW a \in Actors, NEW d \in Decisions, DecideRead(h, c, a, d)
        PROVE  \E call : /\ handler' = [handler EXCEPT ![h] = call]
                         /\ call.op = "decide" /\ call.on = c
                         /\ status[c] = "SUBMITTED" /\ call.stage = stage[c]
                         /\ MakerChecker => \A t \in terms[c] : t.by # call.by
    <3>. DEFINE call == [op |-> "decide", on |-> c, by |-> a, decision |-> d,
                         stage |-> stage[c]]
    <3>1. /\ handler' = [handler EXCEPT ![h] = call] /\ status[c] = "SUBMITTED"
          /\ MakerChecker => \A t \in terms[c] : t.by # a
      BY <2>2 DEF DecideRead, BeginOn, Begin
    <3>2. call.op = "decide" /\ call.on = c /\ call.by = a /\ call.stage = stage[c]
      OBVIOUS
    <3>. QED  BY <3>1, <3>2
  <2>. QED  BY <2>1, <2>2
<1>3. \A g \in Handlers : handler'[g] = IF g = h THEN call ELSE handler[g]
  BY <1>0, <1>2
<1>4. status[c] # "absent"
  BY <1>2
<1>5. call.op = "disburse" => ThroughAll(c)
  BY <1>2 DEF StagesInv
<1>6. call.op = "decide" => \A k \in 0..(call.stage - 1) : Approved(c, k)
  BY <1>2 DEF StagesInv
<1>. QED  BY <1>1, <1>2, <1>3, <1>4, <1>5, <1>6 DEF StagesInv, Approved, ThroughAll

LEMMA InsertStages ==
  ASSUME TypeOK, StagesInv, NEW h \in Handlers, NEW c \in Claims, SubmitInsert(h, c)
  PROVE  StagesInv'
<1>. DEFINE r == handler[h].on[1]
            term == [rule |-> r, subject |-> handler[h].on[2],
                     by |-> handler[h].by, event |-> handler[h].event]
<1>1. r \in Rules
  BY CallTypes DEF SubmitInsert, SubmitCall
<1>2. Chain[r] \in Nat
  BY <1>1, ClaimsAssumption
<1>3. /\ status[c] = "absent" /\ stage[c] = 0
      /\ \A b \in Claims : status'[b] = IF b = c
             THEN IF Chain[r] = 0 THEN "APPROVED" ELSE "SUBMITTED" ELSE status[b]
      /\ \A b \in Claims : terms'[b] = IF b = c THEN {term} ELSE terms[b]
      /\ UNCHANGED <<stage, decisions>>
      /\ \A g \in Handlers : handler'[g] = IF g = h THEN Idle ELSE handler[g]
  BY DEF SubmitInsert, End, TypeOK, StagesInv
<1>4. \A b \in Claims : b # c => /\ \A k : Approved(b, k)' <=> Approved(b, k)
                                 /\ ThroughAll(b)' <=> ThroughAll(b)
  BY <1>3 DEF Approved, ThroughAll
<1>5. \A k \in 0..(stage'[c] - 1) : FALSE
  BY <1>3
<1>6. status'[c] = "APPROVED" => ThroughAll(c)'
  BY <1>2, <1>3 DEF ThroughAll
<1>7. status'[c] \in {"APPROVED", "SUBMITTED"}
  BY <1>3
<1>8. \A g \in Handlers : handler'[g].op \in {"decide", "disburse"} =>
          handler'[g] = handler[g] /\ handler[g].on \in Claims /\ handler[g].on # c
  BY <1>3, CallTypes DEF StagesInv, Idle, DecideCall, ClaimCall
<1>9. \A b \in Claims : status'[b] = "absent" => terms'[b] = {} /\ stage'[b] = 0
  BY <1>3, <1>7 DEF StagesInv
<1>10. \A b \in Claims : \A s, t \in terms'[b] : s = t
  BY <1>3 DEF StagesInv
<1>11. \A b \in Claims : \A k \in 0..(stage'[b] - 1) : Approved(b, k)'
  BY <1>3, <1>4, <1>5 DEF StagesInv
<1>12. \A b \in Claims : status'[b] \in {"APPROVED", "PAID"} => ThroughAll(b)'
  BY <1>3, <1>4, <1>6, <1>7 DEF StagesInv
<1>13. ASSUME NEW g \in Handlers, handler'[g].op \in {"decide", "disburse"}
       PROVE  /\ status'[handler'[g].on] # "absent"
              /\ handler'[g].op = "disburse" => ThroughAll(handler[g].on)'
              /\ handler'[g].op = "decide" =>
                    /\ \A k \in 0..(handler[g].stage - 1) : Approved(handler[g].on, k)'
                    /\ MakerChecker => \A t \in terms'[handler[g].on] : t.by # handler[g].by
  <2>. DEFINE b == handler[g].on
  <2>1. handler'[g] = handler[g] /\ b \in Claims /\ b # c
    BY <1>8, <1>13
  <2>2. status'[b] = status[b] /\ terms'[b] = terms[b]
    BY <1>3, <2>1
  <2>. QED  BY <1>13, <2>1, <2>2, <1>4 DEF StagesInv
<1>. QED
  BY <1>3, <1>8, <1>9, <1>10, <1>11, <1>12, <1>13 DEF StagesInv, Approved, ThroughAll

LEMMA DecideStages ==
  ASSUME TypeOK, StagesInv, NEW h \in Handlers, DecideCommit(h),
         NEW call, call = handler[h], NEW c, c = call.on
  PROVE  StagesInv'
<1>. DEFINE d == [stage |-> call.stage, by |-> call.by, decision |-> call.decision]
<1>1. call \in DecideCall /\ c \in Claims /\ call.stage \in Nat /\ call.op = "decide"
  BY CallTypes DEF DecideCommit, DecideCall
<1>2. /\ \A b \in Claims : decisions'[b] = IF b = c THEN decisions[c] \cup {d}
                                           ELSE decisions[b]
      /\ terms' = terms
      /\ \A g \in Handlers : handler'[g] = IF g = h THEN Idle ELSE handler[g]
  BY <1>1 DEF DecideCommit, End, TypeOK
<1>3. \/ status' = [status EXCEPT ![c] = "REJECTED"] /\ stage' = stage
      \/ /\ call.decision = "APPROVE" /\ \E t \in terms[c] : IsFinalStage(call.stage, Chain[t.rule])
         /\ status' = [status EXCEPT ![c] = "APPROVED"] /\ stage' = stage
      \/ /\ call.decision = "APPROVE"
         /\ stage' = [stage EXCEPT ![c] = call.stage + 1] /\ status' = status
  BY DEF DecideCommit
<1>4. /\ status \in [Claims -> Statuses] /\ stage \in [Claims -> Nat]
      /\ status[c] # "absent"
      /\ \A t \in terms[c] : t.rule \in Rules /\ Chain[t.rule] \in Nat
  BY <1>1, ClaimsAssumption DEF TypeOK, StagesInv, Terms
<1>15. /\ \A b \in Claims : b # c => status'[b] = status[b] /\ stage'[b] = stage[b]
       /\ \/ status'[c] = status[c] \/ status'[c] = "REJECTED"
          \/ /\ call.decision = "APPROVE" /\ status'[c] = "APPROVED"
             /\ \E t \in terms[c] : IsFinalStage(call.stage, Chain[t.rule])
       /\ \/ stage'[c] = stage[c]
          \/ call.decision = "APPROVE" /\ stage'[c] = call.stage + 1
  <2>1. CASE status' = [status EXCEPT ![c] = "REJECTED"] /\ stage' = stage
    BY <1>1, <1>4, <2>1
  <2>2. CASE /\ call.decision = "APPROVE"
             /\ \E t \in terms[c] : IsFinalStage(call.stage, Chain[t.rule])
             /\ status' = [status EXCEPT ![c] = "APPROVED"] /\ stage' = stage
    BY <1>1, <1>4, <2>2
  <2>3. CASE /\ call.decision = "APPROVE"
             /\ stage' = [stage EXCEPT ![c] = call.stage + 1] /\ status' = status
    BY <1>1, <1>4, <2>3
  <2>. QED  BY <1>3, <2>1, <2>2, <2>3
<1>5. \A b \in Claims : status'[b] = "absent" <=> status[b] = "absent"
  BY <1>4, <1>15
<1>6. \A b \in Claims : \A k : Approved(b, k) => Approved(b, k)'
  BY <1>2, ApprovedStays
<1>7. \A b \in Claims : ThroughAll(b) => ThroughAll(b)'
  BY <1>2, <1>6 DEF ThroughAll
<1>8. call.decision = "APPROVE" => Approved(c, call.stage)'
  <2>1. d \in decisions'[c]
    BY <1>1, <1>2
  <2>2. MakerChecker => \A t \in terms'[c] : t.by # call.by
    BY <1>1, <1>2 DEF StagesInv
  <2>3. d.stage = call.stage /\ d.by = call.by /\ d.decision = call.decision
    OBVIOUS
  <2>. HIDE DEF d
  <2>. QED  BY <2>1, <2>2, <2>3 DEF Approved
<1>9. call.decision = "APPROVE" => \A k \in 0..call.stage : Approved(c, k)'
  <2>. SUFFICES ASSUME call.decision = "APPROVE", NEW k \in 0..call.stage
                PROVE  Approved(c, k)'
    OBVIOUS
  <2>1. k = call.stage \/ k \in 0..(call.stage - 1)
    BY <1>1
  <2>. QED  BY <1>1, <1>6, <1>8, <2>1 DEF StagesInv
<1>10. \A b \in Claims : status'[b] = "absent" => terms'[b] = {} /\ stage'[b] = 0
  BY <1>1, <1>2, <1>3, <1>4, <1>5 DEF StagesInv
<1>11. \A b \in Claims : \A s, t \in terms'[b] : s = t
  BY <1>2 DEF StagesInv
<1>12. ASSUME NEW b \in Claims, NEW k \in 0..(stage'[b] - 1) PROVE Approved(b, k)'
  <2>1. CASE stage'[b] = stage[b]
    BY <1>6, <2>1 DEF StagesInv
  <2>2. CASE stage'[b] # stage[b]
    <3>1. b = c /\ call.decision = "APPROVE" /\ stage'[b] = call.stage + 1
      BY <1>15, <2>2
    <3>2. k \in 0..call.stage
      BY <1>1, <3>1
    <3>. QED  BY <1>9, <3>1, <3>2
  <2>. QED  BY <2>1, <2>2
<1>13. ASSUME NEW b \in Claims, status'[b] \in {"APPROVED", "PAID"} PROVE ThroughAll(b)'
  <2>1. CASE status'[b] = status[b]
    BY <1>7, <1>13, <2>1 DEF StagesInv
  <2>2. CASE status'[b] # status[b]
    <3>1. /\ b = c /\ call.decision = "APPROVE"
          /\ \E t \in terms[c] : IsFinalStage(call.stage, Chain[t.rule])
      BY <1>13, <1>15, <2>2
    <3>2. \A t \in terms[c] : call.stage >= Chain[t.rule] - 1
      BY <1>1, <3>1 DEF StagesInv, IsFinalStage
    <3>3. \A t \in terms[c] : \A k \in 0..(Chain[t.rule] - 1) : k \in 0..call.stage
      BY <1>1, <1>4, <3>2
    <3>. QED  BY <1>2, <1>9, <3>1, <3>3 DEF ThroughAll
  <2>. QED  BY <2>1, <2>2
<1>14. ASSUME NEW g \in Handlers, handler'[g].op \in {"decide", "disburse"}
       PROVE  /\ handler'[g] = handler[g] /\ status'[handler[g].on] # "absent"
              /\ handler[g].op = "disburse" => ThroughAll(handler[g].on)'
              /\ handler[g].op = "decide" =>
                    /\ \A k \in 0..(handler[g].stage - 1) : Approved(handler[g].on, k)'
                    /\ MakerChecker => \A t \in terms'[handler[g].on] : t.by # handler[g].by
  <2>1. handler'[g] = handler[g]
    BY <1>2, <1>14 DEF Idle
  <2>2. handler[g].on \in Claims
    BY <1>14, <2>1, CallTypes DEF DecideCall, ClaimCall
  <2>. QED  BY <1>2, <1>5, <1>6, <1>7, <1>14, <2>1, <2>2 DEF StagesInv
<1>. QED
  BY <1>10, <1>11, <1>12, <1>13, <1>14 DEF StagesInv, Approved, ThroughAll

LEMMA DisburseStages ==
  ASSUME TypeOK, StagesInv, NEW h \in Handlers, DisburseCommit(h),
         NEW c, c = handler[h].on
  PROVE  StagesInv'
<1>1. c \in Claims /\ handler[h].op = "disburse"
  BY CallTypes DEF DisburseCommit, ClaimCall
<1>2. /\ \A b \in Claims : status'[b] = IF b = c THEN "PAID" ELSE status[b]
      /\ UNCHANGED <<terms, stage, decisions>>
      /\ \A g \in Handlers : handler'[g] = IF g = h THEN Idle ELSE handler[g]
  BY <1>1 DEF DisburseCommit, End, TypeOK
<1>3. /\ status[c] # "absent" /\ ThroughAll(c)
      /\ \A b \in Claims : status'[b] = "absent" <=> status[b] = "absent"
  BY <1>1, <1>2 DEF StagesInv
<1>4. /\ \A b : \A k : Approved(b, k) <=> Approved(b, k)'
      /\ \A b : ThroughAll(b) <=> ThroughAll(b)'
  BY <1>2 DEF Approved, ThroughAll
<1>5. \A b \in Claims : status'[b] \in {"APPROVED", "PAID"} => ThroughAll(b)'
  BY <1>2, <1>3, <1>4 DEF StagesInv
<1>6. ASSUME NEW g \in Handlers, handler'[g].op \in {"decide", "disburse"}
      PROVE  /\ handler'[g] = handler[g] /\ status'[handler[g].on] # "absent"
             /\ handler[g].op = "disburse" => ThroughAll(handler[g].on)'
             /\ handler[g].op = "decide" =>
                   /\ \A k \in 0..(handler[g].stage - 1) : Approved(handler[g].on, k)'
                   /\ MakerChecker => \A t \in terms'[handler[g].on] : t.by # handler[g].by
  <2>1. handler'[g] = handler[g]
    BY <1>2, <1>6 DEF Idle
  <2>2. handler[g].on \in Claims
    BY <1>6, <2>1, CallTypes DEF DecideCall, ClaimCall
  <2>. QED  BY <1>2, <1>3, <1>4, <1>6, <2>1, <2>2 DEF StagesInv
<1>. QED
  BY <1>2, <1>3, <1>4, <1>5, <1>6 DEF StagesInv, Approved, ThroughAll

LEMMA NextStagesInv == TypeOK /\ StagesInv /\ [Next]_vars => StagesInv'
<1>. SUFFICES ASSUME TypeOK, StagesInv, [Next]_vars PROVE StagesInv'
  OBVIOUS
<1>0. handler \in [Handlers -> Calls]
  BY DEF TypeOK, Calls
<1>1. ASSUME UNCHANGED <<claimVars, handler>> PROVE StagesInv'
  BY <1>1, QuietStages DEF claimVars
<1>2. ASSUME NEW h \in Handlers, EvidenceAdd(h) \/ ActivateCommit(h) \/ RejectCommit(h)
      PROVE  StagesInv'
  <2>1. \A g \in Handlers : handler'[g] = handler[g] \/ handler'[g].op = "idle"
    BY <1>0, <1>2 DEF EvidenceAdd, ActivateCommit, RejectCommit, End, Idle
  <2>2. UNCHANGED <<status, terms, stage, decisions>>
    BY <1>2 DEF EvidenceAdd, ActivateCommit, RejectCommit, claimVars
  <2>. QED  BY <2>1, <2>2, QuietStages
<1>3. ASSUME NEW h \in Handlers,
             \/ \E r \in Rules, a \in Actors, d \in Days : ActivateRead(h, r, a, d)
             \/ \E r \in Rules : RejectRead(h, r)
             \/ \E r \in Rules, s \in Subjects, a \in Actors, e \in Days :
                   SubmitCheck(h, r, s, a, e)
             \/ \E c \in Claims : EvidenceCheck(h, c)
      PROVE  StagesInv'
  <2>1. \A g \in Handlers : \/ handler'[g] = handler[g]
                            \/ handler'[g].op \notin {"decide", "disburse"}
    BY <1>0, <1>3 DEF ActivateRead, RejectRead, SubmitCheck, EvidenceCheck, BeginOn, Begin
  <2>2. UNCHANGED <<status, terms, stage, decisions>>
    BY <1>3 DEF ActivateRead, RejectRead, SubmitCheck, EvidenceCheck, claimVars
  <2>. QED  BY <2>1, <2>2, QuietStages
<1>4. CASE UNCHANGED vars
  BY <1>1, <1>4 DEF vars
<1>5. CASE Next
  BY <1>1, <1>2, <1>3, <1>5, ReadStages, InsertStages, DecideStages, DisburseStages
  DEF Next, NextDay, ChangeStanding, Draft
<1>. QED  BY <1>4, <1>5

\* However the decisions of several approvers interleave, a claim is approved
\* and paid only after every stage of its chain (ClaimService.decide).
THEOREM EveryStageApproved == Spec => []ApprovedThroughEveryStage
<1>1. Init => TypeOK /\ StagesInv
  BY InitTypeOK, InitStagesInv
<1>2. (TypeOK /\ StagesInv) /\ [Next]_vars => (TypeOK /\ StagesInv)'
  BY NextTypeOK, NextStagesInv
<1>3. TypeOK /\ StagesInv => ApprovedThroughEveryStage
  BY DEF StagesInv, ThroughAll, Approved, ApprovedThroughEveryStage
<1>. QED  BY <1>1, <1>2, <1>3, PTL DEF Spec
-----------------------------------------------------------------------------
(* Calls that overlap with no other. *)

\* CallTypes, of the state after a step.
LEMMA CallTypesNext ==
  ASSUME TypeOK', NEW h \in Handlers
  PROVE  /\ handler'[h].op = "decide" => handler'[h] \in DecideCall
         /\ handler'[h].op \in {"evidence", "disburse"} => handler'[h] \in ClaimCall
  BY DEF TypeOK, Idle, ActivateCall, RejectCall, SubmitCall, DecideCall, ClaimCall

On(h, x) == handler[h].op \in OnClaims /\ handler[h].on = x

\* Where no overlap is on record there is one call at most.
OneCallEach ==
    \A g, h \in Handlers :
        On(g, handler[h].on) /\ On(h, handler[h].on) /\ handler[h].on \notin overlapped => g = h

\* A call about a claim that has just begun, and what it read.
LEMMA NewCall ==
  ASSUME TypeOK, [Next]_vars, NEW g \in Handlers, handler'[g] # handler[g],
         handler'[g].op \in OnClaims
  PROVE  /\ BeginOn(g, handler'[g])
         /\ UNCHANGED <<ruleVars, claimVars, memberVars>>
         /\ handler'[g].op = "submit" =>
               \E r \in Rules, s \in Subjects, a \in Actors, e \in Days :
                  /\ SubmitCheck(g, r, s, a, e)
                  /\ handler'[g].on = <<r, s>> /\ handler'[g].event = e
         /\ handler'[g].op = "decide" => status[handler'[g].on] = "SUBMITTED"
         /\ handler'[g].op = "disburse" => status[handler'[g].on] = "APPROVED"
<1>1. ASSUME NEW h \in Handlers, NEW call, handler' = [handler EXCEPT ![h] = call]
      PROVE  g = h /\ handler'[g] = call
  BY <1>1 DEF TypeOK
<1>2. ASSUME NEW h \in Handlers, End(h) PROVE FALSE
  BY <1>1, <1>2 DEF End, Idle, OnClaims
<1>3. ~UNCHANGED handler
  OBVIOUS
<1>4. ASSUME \/ NextDay
             \/ \E s \in Standings : ChangeStanding(s)
             \/ \E r \in Rules, a \in Actors : Draft(r, a, {}) \/ \E q \in Rules : Draft(r, a, {q})
             \/ UNCHANGED vars
      PROVE  FALSE
  BY <1>3, <1>4 DEF NextDay, ChangeStanding, Draft, vars
<1>5. ASSUME NEW h \in Handlers,
             \/ \E c \in Claims : SubmitInsert(h, c)
             \/ ActivateCommit(h) \/ RejectCommit(h)
             \/ EvidenceAdd(h) \/ DecideCommit(h) \/ DisburseCommit(h)
      PROVE  FALSE
  BY <1>2, <1>5 DEF SubmitInsert, ActivateCommit, RejectCommit, EvidenceAdd, DecideCommit,
     DisburseCommit
<1>6. ASSUME NEW h \in Handlers, NEW r \in Rules,
             RejectRead(h, r) \/ \E a \in Actors, d \in Days : ActivateRead(h, r, a, d)
      PROVE  FALSE
  <2>1. CASE RejectRead(h, r)
    BY <1>1, <2>1 DEF RejectRead, Begin, OnClaims
  <2>2. ASSUME NEW a \in Actors, NEW d \in Days, ActivateRead(h, r, a, d) PROVE FALSE
    BY <1>1, <2>2 DEF ActivateRead, Begin, OnClaims
  <2>. QED  BY <1>6, <2>1, <2>2
<1>7. ASSUME NEW h \in Handlers, NEW call, BeginOn(h, call)
      PROVE  g = h /\ handler'[g] = call /\ BeginOn(g, handler'[g])
  BY <1>1, <1>7 DEF BeginOn, Begin
<1>8. ASSUME NEW h \in Handlers, NEW r \in Rules, NEW s \in Subjects, NEW a \in Actors,
             NEW e \in Days, SubmitCheck(h, r, s, a, e)
      PROVE  /\ g = h /\ BeginOn(g, handler'[g])
             /\ handler'[g].op = "submit" /\ handler'[g].on = <<r, s>> /\ handler'[g].event = e
             /\ UNCHANGED <<ruleVars, claimVars, memberVars>>
  <2>1. BeginOn(h, [op |-> "submit", by |-> a, event |-> e, on |-> <<r, s>>])
    BY <1>8 DEF SubmitCheck
  <2>. QED  BY <1>7, <1>8, <2>1 DEF SubmitCheck
<1>9. ASSUME NEW h \in Handlers, NEW c \in Claims, EvidenceCheck(h, c)
      PROVE  /\ BeginOn(g, handler'[g]) /\ handler'[g].op = "evidence"
             /\ UNCHANGED <<ruleVars, claimVars, memberVars>>
  <2>1. BeginOn(h, [op |-> "evidence", on |-> c])
    BY <1>9 DEF EvidenceCheck
  <2>. QED  BY <1>7, <1>9, <2>1 DEF EvidenceCheck
<1>10. ASSUME NEW h \in Handlers, NEW c \in Claims, DisburseRead(h, c)
       PROVE  /\ BeginOn(g, handler'[g]) /\ handler'[g].op = "disburse"
              /\ status[handler'[g].on] = "APPROVED"
              /\ UNCHANGED <<ruleVars, claimVars, memberVars>>
  <2>1. BeginOn(h, [op |-> "disburse", on |-> c])
    BY <1>10 DEF DisburseRead
  <2>. QED  BY <1>7, <1>10, <2>1 DEF DisburseRead, Disbursable
<1>11. ASSUME NEW h \in Handlers, NEW c \in Claims, NEW a \in Actors, NEW d \in Decisions,
              DecideRead(h, c, a, d)
       PROVE  /\ BeginOn(g, handler'[g]) /\ handler'[g].op = "decide"
              /\ status[handler'[g].on] = "SUBMITTED"
              /\ UNCHANGED <<ruleVars, claimVars, memberVars>>
  <2>1. BeginOn(h, [op |-> "decide", stage |-> stage[c], by |-> a, on |-> c, decision |-> d])
    BY <1>11 DEF DecideRead
  <2>. QED  BY <1>7, <1>11, <2>1 DEF DecideRead
<1>12. CASE handler'[g].op = "submit"
  <2>1. PICK h \in Handlers, r \in Rules, s \in Subjects, a \in Actors, e \in Days :
           SubmitCheck(h, r, s, a, e)
    BY <1>4, <1>5, <1>6, <1>9, <1>10, <1>11, <1>12 DEF Next
  <2>. QED  BY <1>8, <1>12, <2>1
<1>13. CASE handler'[g].op # "submit"
  <2>1. PICK h \in Handlers, c \in Claims :
           EvidenceCheck(h, c) \/ DisburseRead(h, c)
              \/ \E a \in Actors, d \in Decisions : DecideRead(h, c, a, d)
    BY <1>4, <1>5, <1>6, <1>8, <1>13 DEF Next
  <2>. QED  BY <1>9, <1>10, <1>11, <1>13, <2>1
<1>. QED
  BY <1>12, <1>13

LEMMA NextOneCallEach ==
  ASSUME TypeOK, OneCallEach, [Next]_vars
  PROVE  OneCallEach' /\ overlapped \subseteq overlapped'
<1>1. overlapped \subseteq overlapped'
  <2>1. ASSUME NEW h \in Handlers, NEW call, BeginOn(h, call) PROVE overlapped \subseteq overlapped'
    BY <2>1 DEF BeginOn
  <2>2. ASSUME NEW h \in Handlers, End(h) PROVE overlapped' = overlapped
    BY <2>2 DEF End
  <2>3. CASE NextDay \/ (\E s \in Standings : ChangeStanding(s)) \/ UNCHANGED vars
             \/ (\E r \in Rules, a \in Actors : Draft(r, a, {}) \/ \E q \in Rules : Draft(r, a, {q}))
    BY <2>3 DEF NextDay, ChangeStanding, Draft, vars
  <2>4. ASSUME NEW h \in Handlers,
               \/ \E r \in Rules :
                     \/ RejectRead(h, r)
                     \/ \E a \in Actors, d \in Days : ActivateRead(h, r, a, d)
                     \/ \E s \in Subjects, a \in Actors, e \in Days : SubmitCheck(h, r, s, a, e)
               \/ \E c \in Claims :
                     \/ EvidenceCheck(h, c) \/ DisburseRead(h, c)
                     \/ \E a \in Actors, d \in Decisions : DecideRead(h, c, a, d)
        PROVE  overlapped \subseteq overlapped'
    BY <2>1, <2>4 DEF RejectRead, ActivateRead, SubmitCheck, EvidenceCheck, DisburseRead, DecideRead
  <2>5. ASSUME NEW h \in Handlers,
               \/ \E c \in Claims : SubmitInsert(h, c)
               \/ ActivateCommit(h) \/ RejectCommit(h)
               \/ EvidenceAdd(h) \/ DecideCommit(h) \/ DisburseCommit(h)
        PROVE  overlapped' = overlapped
    BY <2>2, <2>5 DEF SubmitInsert, ActivateCommit, RejectCommit, EvidenceAdd, DecideCommit,
       DisburseCommit
  <2>. QED  BY <2>3, <2>4, <2>5 DEF Next
<1>2. ASSUME NEW g \in Handlers, NEW h \in Handlers, handler'[g] # handler[g],
             handler'[g].op \in OnClaims, handler'[h].op \in OnClaims,
             handler'[h].on = handler'[g].on, handler'[g].on \notin overlapped'
      PROVE  g = h
  <2>1. BeginOn(g, handler'[g])
    BY <1>2, NewCall
  <2>2. ~ \E k \in Handlers : On(k, handler'[g].on)
    BY <1>2, <2>1 DEF BeginOn, On
  <2>3. handler'[h] = handler[h] \/ g = h
    BY <2>1 DEF BeginOn, Begin, TypeOK
  <2>. QED  BY <1>2, <2>2, <2>3 DEF On
<1>3. OneCallEach'
  <2>. SUFFICES ASSUME NEW g \in Handlers, NEW h \in Handlers,
                       handler'[g].op \in OnClaims, handler'[h].op \in OnClaims,
                       handler'[g].on = handler'[h].on, handler'[h].on \notin overlapped'
                PROVE  g = h
    BY DEF OneCallEach, On
  <2>1. CASE handler'[g] = handler[g] /\ handler'[h] = handler[h]
    BY <1>1, <2>1 DEF OneCallEach, On
  <2>. QED  BY <1>2, <2>1
<1>. QED  BY <1>1, <1>3

\* What a step may do to the rows of the claims.
LEMMA ClaimStep ==
  ASSUME [Next]_vars
  PROVE  \/ UNCHANGED <<status, terms, decisions, posted>>
         \/ \E h \in Handlers : \/ \E c \in Claims : SubmitInsert(h, c)
                                \/ DecideCommit(h) \/ DisburseCommit(h)
<1>1. CASE NextDay \/ (\E s \in Standings : ChangeStanding(s)) \/ UNCHANGED vars
           \/ (\E r \in Rules, a \in Actors : Draft(r, a, {}) \/ \E q \in Rules : Draft(r, a, {q}))
  BY <1>1 DEF NextDay, ChangeStanding, Draft, vars, claimVars
<1>2. ASSUME NEW h \in Handlers,
             \/ \E r \in Rules :
                   \/ RejectRead(h, r)
                   \/ \E a \in Actors, d \in Days : ActivateRead(h, r, a, d)
                   \/ \E s \in Subjects, a \in Actors, e \in Days : SubmitCheck(h, r, s, a, e)
             \/ \E c \in Claims :
                   \/ EvidenceCheck(h, c) \/ DisburseRead(h, c)
                   \/ \E a \in Actors, d \in Decisions : DecideRead(h, c, a, d)
             \/ ActivateCommit(h) \/ RejectCommit(h) \/ EvidenceAdd(h)
      PROVE  UNCHANGED <<status, terms, decisions, posted>>
  BY <1>2 DEF RejectRead, ActivateRead, SubmitCheck, EvidenceCheck, DisburseRead, DecideRead,
     ActivateCommit, RejectCommit, EvidenceAdd, claimVars
<1>. QED  BY <1>1, <1>2 DEF Next
-----------------------------------------------------------------------------
(* One settlement of each claim. *)

\* The entries and decisions of a claim about which no calls overlapped are
\* those of its status, and so is what a call about it read.
SettledInv ==
    /\ OneCallEach
    /\ \A c \in Claims : status[c] = "absent" => decisions[c] = {} /\ posted[c] = 0
    /\ \A c \in Claims \ overlapped :
          /\ posted[c] = IF status[c] = "PAID" THEN 1 ELSE 0
          /\ status[c] = "REJECTED" <=> Rejections(c) # {}
    /\ \A h \in Handlers :
          handler[h].op \in OnClaims /\ handler[h].on \notin overlapped =>
             /\ handler[h].op = "decide" => status[handler[h].on] = "SUBMITTED"
             /\ handler[h].op = "disburse" => status[handler[h].on] = "APPROVED"

LEMMA InitSettledInv == Init => SettledInv
  BY DEF Init, Idle, SettledInv, OneCallEach, On, OnClaims, Rejections

\* Where the row and the decisions of a claim are left as they are.
LEMMA SettledElsewhere ==
  ASSUME TypeOK, SettledInv, [Next]_vars, NEW g \in Handlers,
         handler'[g].op \in {"decide", "disburse"}, handler'[g].on \notin overlapped',
         status'[handler'[g].on] = status[handler'[g].on]
  PROVE  /\ handler'[g].op = "decide" => status'[handler'[g].on] = "SUBMITTED"
         /\ handler'[g].op = "disburse" => status'[handler'[g].on] = "APPROVED"
<1>1. overlapped \subseteq overlapped' /\ handler'[g].op \in OnClaims
  BY NextOneCallEach DEF SettledInv, OnClaims
<1>2. CASE handler'[g] = handler[g]
  BY <1>1, <1>2 DEF SettledInv
<1>3. CASE handler'[g] # handler[g]
  BY <1>1, <1>3, NewCall
<1>. QED  BY <1>2, <1>3

LEMMA NextSettledInv ==
  ASSUME TypeOK, StagesInv, SettledInv, [Next]_vars
  PROVE  SettledInv'
<1>1. OneCallEach' /\ overlapped \subseteq overlapped'
  BY NextOneCallEach DEF SettledInv
<1>2. CASE UNCHANGED <<status, terms, decisions, posted>>
  <2>1. \A c \in Claims : Rejections(c)' = Rejections(c)
    BY <1>2 DEF Rejections
  <2>2. \A g \in Handlers :
           handler'[g].op \in OnClaims /\ handler'[g].on \notin overlapped' =>
              /\ handler'[g].op = "decide" => status'[handler'[g].on] = "SUBMITTED"
              /\ handler'[g].op = "disburse" => status'[handler'[g].on] = "APPROVED"
    BY <1>2, SettledElsewhere
  <2>. QED  BY <1>1, <1>2, <2>1, <2>2 DEF SettledInv
<1>. DEFINE Kept(c) ==   \* what remains to be shown of the claim that a commit is about
               /\ status'[c] = "absent" => decisions'[c] = {} /\ posted'[c] = 0
               /\ c \notin overlapped =>
                     /\ posted'[c] = IF status'[c] = "PAID" THEN 1 ELSE 0
                     /\ status'[c] = "REJECTED" <=> Rejections(c)' # {}
               /\ \A g \in Handlers : ~(handler'[g].op \in {"decide", "disburse"}
                                        /\ handler'[g].on = c /\ c \notin overlapped)
<1>3. ASSUME NEW c \in Claims, Kept(c), overlapped' = overlapped,
             \A b \in Claims \ {c} : /\ status'[b] = status[b] /\ posted'[b] = posted[b]
                                     /\ decisions'[b] = decisions[b]
      PROVE  SettledInv'
  <2>1. \A b \in Claims \ {c} : Rejections(b)' = Rejections(b)
    BY <1>3 DEF Rejections
  <2>2. ASSUME NEW g \in Handlers, handler'[g].op \in {"decide", "disburse"},
               handler'[g].on \notin overlapped'
        PROVE  /\ handler'[g].op = "decide" => status'[handler'[g].on] = "SUBMITTED"
               /\ handler'[g].op = "disburse" => status'[handler'[g].on] = "APPROVED"
    <3>1. handler'[g].on \in Claims /\ handler'[g].on # c
      BY <1>3, <2>2, NextTypeOK, CallTypesNext DEF DecideCall, ClaimCall
    <3>. QED  BY <1>3, <2>2, <3>1, SettledElsewhere
  <2>3. \A b \in Claims : status'[b] = "absent" => decisions'[b] = {} /\ posted'[b] = 0
    BY <1>3 DEF SettledInv
  <2>4. \A b \in Claims \ overlapped :
           /\ posted'[b] = IF status'[b] = "PAID" THEN 1 ELSE 0
           /\ status'[b] = "REJECTED" <=> Rejections(b)' # {}
    BY <1>3, <2>1 DEF SettledInv
  <2>. QED  BY <1>1, <1>3, <2>2, <2>3, <2>4 DEF SettledInv
<1>. HIDE DEF Kept
<1>4. ASSUME NEW h \in Handlers, NEW c \in Claims, SubmitInsert(h, c) PROVE SettledInv'
  <2>1. /\ status[c] = "absent" /\ status'[c] \in {"SUBMITTED", "APPROVED"}
        /\ \A b \in Claims \ {c} : status'[b] = status[b]
        /\ UNCHANGED <<decisions, posted, overlapped>>
        /\ \A g \in Handlers : handler'[g] = IF g = h THEN Idle ELSE handler[g]
    BY <1>4 DEF SubmitInsert, End, TypeOK
  <2>2. decisions[c] = {} /\ posted[c] = 0 /\ Rejections(c)' = {}
    BY <2>1 DEF SettledInv, Rejections
  <2>3. \A g \in Handlers : ~(handler'[g].op \in {"decide", "disburse"} /\ handler'[g].on = c)
    BY <2>1 DEF StagesInv, Idle
  <2>4. Kept(c)
    BY <2>1, <2>2, <2>3 DEF Kept
  <2>. QED  BY <1>3, <2>1, <2>4
<1>5. ASSUME NEW h \in Handlers, DecideCommit(h) \/ DisburseCommit(h),
             NEW c, c = handler[h].on
      PROVE  SettledInv'
  <2>1. /\ c \in Claims /\ On(h, c) /\ overlapped' = overlapped
        /\ \A g \in Handlers : handler'[g] = IF g = h THEN Idle ELSE handler[g]
    BY <1>5, CallTypes DEF DecideCommit, DisburseCommit, DecideCall, ClaimCall, End, TypeOK, On,
       OnClaims
  <2>2. status[c] # "absent"
    BY <1>5 DEF StagesInv, DecideCommit, DisburseCommit
  <2>3. \A g \in Handlers : ~(handler'[g].op \in {"decide", "disburse"} /\ handler'[g].on = c
                             /\ c \notin overlapped)
    <3>. SUFFICES ASSUME NEW g \in Handlers, handler'[g].op \in {"decide", "disburse"},
                         handler'[g].on = c, c \notin overlapped
                  PROVE  FALSE
      OBVIOUS
    <3>1. g # h /\ On(g, c)
      BY <2>1 DEF Idle, On, OnClaims
    <3>. QED  BY <1>5, <2>1, <3>1 DEF SettledInv, OneCallEach, On
  <2>4. CASE DecideCommit(h)
    <3>. DEFINE d == [stage |-> handler[h].stage, by |-> handler[h].by,
                      decision |-> handler[h].decision]
    <3>1. /\ \A b \in Claims : decisions'[b] = IF b = c THEN decisions[b] \cup {d} ELSE decisions[b]
          /\ posted' = posted
          /\ \A b \in Claims \ {c} : status'[b] = status[b]
      BY <1>5, <2>1, <2>4 DEF DecideCommit, TypeOK
    <3>2. /\ d.decision \in {"APPROVE", "REJECT"}
          /\ d.decision = "REJECT" => status'[c] = "REJECTED"
          /\ d.decision = "APPROVE" => status'[c] \in {status[c], "APPROVED"}
      BY <1>5, <2>1, <2>4 DEF DecideCommit, TypeOK
    <3>. HIDE DEF d
    <3>3. Rejections(c)' = IF d.decision = "REJECT" THEN Rejections(c) \cup {d} ELSE Rejections(c)
      BY <2>1, <3>1 DEF Rejections
    <3>4. c \notin overlapped =>
             status[c] = "SUBMITTED" /\ posted[c] = 0 /\ Rejections(c) = {}
      BY <1>5, <2>1, <2>4 DEF SettledInv, On, DecideCommit
    <3>5. Kept(c)
      BY <2>1, <2>2, <2>3, <3>1, <3>2, <3>3, <3>4 DEF Kept
    <3>. QED  BY <1>3, <2>1, <3>1, <3>5
  <2>5. CASE DisburseCommit(h)
    <3>1. /\ \A b \in Claims : status'[b] = IF b = c THEN "PAID" ELSE status[b]
          /\ \A b \in Claims : posted'[b] = IF b = c THEN posted[b] + 1 ELSE posted[b]
          /\ decisions' = decisions
      BY <1>5, <2>1, <2>5 DEF DisburseCommit, TypeOK
    <3>2. Rejections(c)' = Rejections(c)
      BY <3>1 DEF Rejections
    <3>3. c \notin overlapped =>
             status[c] = "APPROVED" /\ posted[c] = 0 /\ Rejections(c) = {}
      BY <1>5, <2>1, <2>5 DEF SettledInv, On, DisburseCommit
    <3>4. Kept(c)
      BY <2>1, <2>3, <3>1, <3>2, <3>3 DEF Kept
    <3>. QED  BY <1>3, <2>1, <3>1, <3>4
  <2>. QED  BY <1>5, <2>4, <2>5
<1>. QED  BY <1>2, <1>4, <1>5, ClaimStep

\* A claim about which no two calls overlapped is posted once if it is paid and
\* never otherwise, and is rejected if and only if an approver rejected it, as
\* the reports on benefits show it (ClaimService.decide, disburse).
THEOREM ClaimsSettledOnce == Spec => []SettledOnce
<1>. DEFINE Inv == TypeOK /\ StagesInv /\ SettledInv
<1>1. Init => Inv
  BY InitTypeOK, InitStagesInv, InitSettledInv
<1>2. Inv /\ [Next]_vars => Inv'
  BY NextTypeOK, NextStagesInv, NextSettledInv
<1>3. Inv => SettledOnce
  <2>. SUFFICES ASSUME Inv, NEW r \in Rules, NEW c \in ClaimsOf(r) \ overlapped
                PROVE  /\ posted[c] = IF c \in DisbursementReport(r) THEN 1 ELSE 0
                       /\ posted[c] = 0 <=> c \notin BenefitExpenditure(r).paid
                       /\ c \in BenefitExpenditure(r).rejected <=> Rejections(c) # {}
    BY DEF SettledOnce
  <2>1. /\ c \in Claims /\ terms[c] # {}
        /\ posted[c] = IF status[c] = "PAID" THEN 1 ELSE 0
        /\ status[c] = "REJECTED" <=> Rejections(c) # {}
    BY DEF ClaimsOf, SettledInv
  <2>2. status[c] \in Statuses \ {"absent"}
    BY <2>1 DEF StagesInv, TypeOK
  <2>3. /\ c \in DisbursementReport(r) <=> status[c] = "PAID"
        /\ c \in BenefitExpenditure(r).paid <=> status[c] = "PAID"
        /\ c \in BenefitExpenditure(r).rejected <=>
              status[c] \notin {"PAID", "SUBMITTED", "APPROVED"}
    BY DEF DisbursementReport, BenefitExpenditure
  <2>. QED  BY <2>1, <2>2, <2>3 DEF Statuses
<1>. HIDE DEF Inv
<1>. QED  BY <1>1, <1>2, <1>3, PTL DEF Spec
-----------------------------------------------------------------------------
(* The caps. *)

\* The claims that count towards a cap and were settled without overlap.
Counted(r, s) == PriorClaims(r, s) \ overlapped

\* They stay within the cap if no two submissions overlapped, and below it
\* while a submission is in progress.
CapInv ==
    \A r \in Rules, s \in Subjects :
        <<r, s>> \notin overlapped =>
            /\ Cardinality(Counted(r, s)) <= Cap[r]
            /\ \A h \in Handlers :
                  handler[h].op = "submit" /\ handler[h].on = <<r, s>> =>
                     Cardinality(Counted(r, s)) < Cap[r]

LEMMA SubsetOfClaims ==
  ASSUME NEW S \in SUBSET Claims, NEW T \in SUBSET Claims, S \subseteq T
  PROVE  /\ IsFiniteSet(S) /\ Cardinality(S) \in Nat /\ Cardinality(T) \in Nat
         /\ Cardinality(S) <= Cardinality(T)
<1>1. IsFiniteSet(S) /\ IsFiniteSet(T)
  BY ClaimsAssumption, FS_Subset
<1>. QED  BY <1>1, FS_Subset, FS_CardinalityType

\* Only an insertion adds to the claims counted: a rejected claim comes back
\* only by a decision that overlapped with the rejection.
LEMMA CountedShrinks ==
  ASSUME TypeOK, SettledInv, [Next]_vars, NEW r \in Rules, NEW s \in Subjects,
         ~ \E h \in Handlers, c \in Claims : SubmitInsert(h, c)
  PROVE  Counted(r, s)' \subseteq Counted(r, s)
<1>1. overlapped \subseteq overlapped'
  BY NextOneCallEach DEF SettledInv
<1>2. \A c \in Claims : c \in Counted(r, s) <=>
         /\ c \notin overlapped /\ status[c] # "REJECTED"
         /\ \E t \in terms[c] : t.rule = r /\ t.subject = s
  BY DEF Counted, PriorClaims
<1>3. \A c \in Claims : c \in Counted(r, s)' <=>
         /\ c \notin overlapped' /\ status'[c] # "REJECTED"
         /\ \E t \in terms'[c] : t.rule = r /\ t.subject = s
  BY DEF Counted, PriorClaims
<1>4. terms' = terms
  BY ClaimStep DEF DecideCommit, DisburseCommit
<1>5. ASSUME NEW c \in Claims, c \notin overlapped, status[c] = "REJECTED", status'[c] # "REJECTED"
      PROVE  FALSE
  <2>1. PICK h \in Handlers : DecideCommit(h) \/ DisburseCommit(h)
    BY <1>5, ClaimStep
  <2>2. handler[h].on = c
    BY <1>5, <2>1 DEF DecideCommit, DisburseCommit, TypeOK
  <2>. QED  BY <1>5, <2>1, <2>2 DEF SettledInv, DecideCommit, DisburseCommit, OnClaims
<1>6. Counted(r, s)' \subseteq Claims
  BY DEF Counted, PriorClaims
<1>. QED  BY <1>1, <1>2, <1>3, <1>4, <1>5, <1>6

LEMMA CountedGrows ==
  ASSUME TypeOK, NEW h \in Handlers, NEW c \in Claims, SubmitInsert(h, c),
         NEW r \in Rules, NEW s \in Subjects
  PROVE  /\ Counted(r, s)' \subseteq Counted(r, s) \cup {c}
         /\ handler[h].on # <<r, s>> => Counted(r, s)' \subseteq Counted(r, s)
<1>. DEFINE term == [rule |-> handler[h].on[1], subject |-> handler[h].on[2],
                     by |-> handler[h].by, event |-> handler[h].event]
<1>1. /\ overlapped' = overlapped
      /\ \A b \in Claims \ {c} : status'[b] = status[b] /\ terms'[b] = terms[b]
      /\ terms'[c] = {term}
  BY DEF SubmitInsert, End, TypeOK
<1>2. handler[h].on = <<handler[h].on[1], handler[h].on[2]>>
  BY CallTypes DEF SubmitInsert, SubmitCall
<1>3. term.rule = handler[h].on[1] /\ term.subject = handler[h].on[2]
  OBVIOUS
<1>. HIDE DEF term
<1>4. \A b \in Claims \ {c} : b \in Counted(r, s)' => b \in Counted(r, s)
  BY <1>1 DEF Counted, PriorClaims
<1>5. c \in Counted(r, s)' => handler[h].on = <<r, s>>
  BY <1>1, <1>2, <1>3 DEF Counted, PriorClaims
<1>6. Counted(r, s)' \subseteq Claims
  BY DEF Counted, PriorClaims
<1>. QED  BY <1>4, <1>5, <1>6

LEMMA InitCapInv == Init => CapInv
<1>. SUFFICES ASSUME Init, NEW r \in Rules, NEW s \in Subjects
              PROVE  /\ Cardinality(Counted(r, s)) <= Cap[r]
                     /\ \A h \in Handlers : handler[h].op # "submit"
  BY DEF CapInv
<1>1. Counted(r, s) = {}
  BY DEF Init, Counted, PriorClaims
<1>2. Cardinality({}) = 0
  BY FS_EmptySet
<1>3. Cap[r] \in Nat
  BY ClaimsAssumption
<1>. QED  BY <1>1, <1>2, <1>3 DEF Init, Idle

LEMMA OneMoreAtMost ==
  ASSUME NEW S, IsFiniteSet(S), NEW x
  PROVE  Cardinality(S \cup {x}) <= Cardinality(S) + 1
<1>1. Cardinality(S) \in Nat
  BY FS_CardinalityType
<1>2. CASE x \in S
  <2>1. S \cup {x} = S
    BY <1>2
  <2>. QED  BY <1>1, <2>1
<1>3. CASE x \notin S
  <2>1. Cardinality(S \cup {x}) = Cardinality(S) + 1
    BY <1>3, FS_AddElement
  <2>. QED  BY <1>1, <2>1
<1>. QED  BY <1>2, <1>3

LEMMA NextCapInv ==
  ASSUME TypeOK, SettledInv, CapInv, [Next]_vars
  PROVE  CapInv'
<1>. SUFFICES ASSUME NEW r \in Rules, NEW s \in Subjects, <<r, s>> \notin overlapped'
              PROVE  /\ Cardinality(Counted(r, s)') <= Cap[r]
                     /\ \A g \in Handlers :
                           handler'[g].op = "submit" /\ handler'[g].on = <<r, s>> =>
                              Cardinality(Counted(r, s)') < Cap[r]
  BY DEF CapInv
<1>1. /\ Counted(r, s) \in SUBSET Claims /\ Counted(r, s)' \in SUBSET Claims
      /\ PriorClaims(r, s) \in SUBSET Claims /\ Cap[r] \in Nat
  BY ClaimsAssumption DEF Counted, PriorClaims
<1>2. <<r, s>> \notin overlapped
  BY NextOneCallEach DEF SettledInv
<1>3. ASSUME Counted(r, s)' \subseteq Counted(r, s)
      PROVE  Cardinality(Counted(r, s)') <= Cardinality(Counted(r, s))
  BY <1>1, <1>3, SubsetOfClaims
<1>4. /\ Cardinality(Counted(r, s)) \in Nat /\ Cardinality(Counted(r, s)') \in Nat
      /\ Cardinality(Counted(r, s)) <= Cap[r]
  BY <1>1, <1>2, SubsetOfClaims DEF CapInv
<1>5. ASSUME NEW g \in Handlers, handler'[g] # handler[g],
             handler'[g].op = "submit", handler'[g].on = <<r, s>>
      PROVE  Cardinality(Counted(r, s)') < Cap[r]
  <2>1. PICK q \in Rules, t \in Subjects, a \in Actors, e \in Days :
           SubmitCheck(g, q, t, a, e) /\ handler'[g].on = <<q, t>>
    BY <1>5, NewCall DEF OnClaims
  <2>2. q = r /\ t = s
    BY <1>5, <2>1
  <2>3. Cardinality(PriorClaims(r, s)) < Cap[r] /\ UNCHANGED <<status, terms>>
    BY <2>1, <2>2 DEF SubmitCheck, Eligible, WithinCap, claimVars
  <2>4. Counted(r, s)' \subseteq PriorClaims(r, s)
    BY <2>3 DEF Counted, PriorClaims
  <2>5. /\ Cardinality(Counted(r, s)') <= Cardinality(PriorClaims(r, s))
        /\ Cardinality(PriorClaims(r, s)) \in Nat
    BY <1>1, <2>4, SubsetOfClaims
  <2>. QED  BY <1>1, <1>4, <2>3, <2>5
<1>6. CASE ~ \E h \in Handlers, c \in Claims : SubmitInsert(h, c)
  <2>1. Cardinality(Counted(r, s)') <= Cardinality(Counted(r, s))
    BY <1>3, <1>6, CountedShrinks
  <2>2. ASSUME NEW g \in Handlers, handler'[g].op = "submit", handler'[g].on = <<r, s>>,
               handler'[g] = handler[g]
        PROVE  Cardinality(Counted(r, s)) < Cap[r]
    BY <1>2, <2>2 DEF CapInv
  <2>. QED  BY <1>1, <1>4, <1>5, <2>1, <2>2
<1>7. ASSUME NEW h \in Handlers, NEW c \in Claims, SubmitInsert(h, c)
      PROVE  /\ Cardinality(Counted(r, s)') <= Cap[r]
             /\ \A g \in Handlers :
                   handler'[g].op = "submit" /\ handler'[g].on = <<r, s>> =>
                      Cardinality(Counted(r, s)') < Cap[r]
  <2>1. \A g \in Handlers : handler'[g] = IF g = h THEN Idle ELSE handler[g]
    BY <1>7 DEF SubmitInsert, End, TypeOK
  <2>2. handler[h].op = "submit"
    BY <1>7 DEF SubmitInsert
  <2>3. CASE handler[h].on = <<r, s>>
    <3>1. Cardinality(Counted(r, s)) < Cap[r]
      BY <1>2, <2>2, <2>3 DEF CapInv
    <3>2. /\ IsFiniteSet(Counted(r, s))
          /\ Counted(r, s) \cup {c} \in SUBSET Claims
      BY <1>1, SubsetOfClaims
    <3>3. Cardinality(Counted(r, s) \cup {c}) <= Cardinality(Counted(r, s)) + 1
      BY <3>2, OneMoreAtMost
    <3>4. /\ Cardinality(Counted(r, s)') <= Cardinality(Counted(r, s) \cup {c})
          /\ Cardinality(Counted(r, s) \cup {c}) \in Nat
      BY <1>1, <1>7, <3>2, CountedGrows, SubsetOfClaims
    <3>5. Cardinality(Counted(r, s)') <= Cap[r]
      BY <1>1, <1>4, <3>1, <3>3, <3>4
    <3>6. ASSUME NEW g \in Handlers, handler'[g].op = "submit", handler'[g].on = <<r, s>>
          PROVE  FALSE
      <4>1. g # h /\ handler[g].op = "submit" /\ handler[g].on = <<r, s>>
        BY <2>1, <3>6 DEF Idle
      <4>. QED  BY <1>2, <2>2, <2>3, <4>1 DEF SettledInv, OneCallEach, On, OnClaims
    <3>. QED  BY <3>5, <3>6
  <2>4. CASE handler[h].on # <<r, s>>
    <3>1. Cardinality(Counted(r, s)') <= Cardinality(Counted(r, s))
      BY <1>3, <1>7, <2>4, CountedGrows
    <3>2. ASSUME NEW g \in Handlers, handler'[g].op = "submit", handler'[g].on = <<r, s>>
          PROVE  Cardinality(Counted(r, s)) < Cap[r]
      <4>1. handler'[g] = handler[g]
        BY <2>1, <3>2 DEF Idle
      <4>. QED  BY <1>2, <3>2, <4>1 DEF CapInv
    <3>. QED  BY <1>1, <1>4, <3>1, <3>2
  <2>. QED  BY <2>3, <2>4
<1>. QED  BY <1>6, <1>7

\* Where no two submissions for one subject overlapped, no more claims than the
\* rule's lifetime cap count towards it, leaving out those that two calls were
\* about at once (evaluateBenefitEligibility, ClaimService.submit).
THEOREM CapsKept == Spec => []CapsHold
<1>. DEFINE Inv == TypeOK /\ StagesInv /\ SettledInv /\ CapInv
<1>1. Init => Inv
  BY InitTypeOK, InitStagesInv, InitSettledInv, InitCapInv
<1>2. Inv /\ [Next]_vars => Inv'
  BY NextTypeOK, NextStagesInv, NextSettledInv, NextCapInv
<1>3. Inv => CapsHold
  <2>. SUFFICES ASSUME CapInv, NEW r \in Rules, NEW s \in Subjects, <<r, s>> \notin overlapped,
                       PriorClaims(r, s) \cap overlapped = {}
                PROVE  Cardinality(PriorClaims(r, s)) <= Cap[r]
    BY DEF CapsHold
  <2>1. Counted(r, s) = PriorClaims(r, s)
    BY DEF Counted
  <2>. QED  BY <2>1 DEF CapInv
<1>. HIDE DEF Inv
<1>. QED  BY <1>1, <1>2, <1>3, PTL DEF Spec
-----------------------------------------------------------------------------
(* The standing on a past day. *)

\* The trail is in order, ends with his standing, and for each day since he
\* joined has a last change before it, which is to what he was held to be.
TrailInv ==
    /\ Len(trail) > 0 /\ trail[Len(trail)].to = standing
    /\ \A i \in 1..Len(trail) : trail[i].at <= day
    /\ \A e \in 1..day : \E k \in 1..Len(trail) :
          /\ trail[k].at < e /\ trail[k].to = held[e]
          /\ \A j \in 1..Len(trail) : trail[j].at < e => j <= k

LEMMA InitTrailInv == Init => TrailInv
  BY DEF Init, TrailInv

LEMMA NextTrailInv ==
  ASSUME TypeOK, TrailInv, [Next]_vars
  PROVE  TrailInv'
<1>1. CASE UNCHANGED memberVars
  BY <1>1 DEF memberVars, TrailInv
<1>2. /\ day \in Nat /\ MaxDay \in Nat
      /\ Len(trail) \in Nat /\ \A i \in 1..Len(trail) : trail[i].at \in Nat
  <2>1. trail \in Seq(Change) /\ day \in Nat /\ MaxDay \in Nat
    BY ClaimsAssumption DEF TypeOK, Days
  <2>2. Len(trail) \in Nat /\ \A i \in 1..Len(trail) : trail[i] \in Change
    BY <2>1, LenProperties, ElementOfSeq
  <2>3. \A i \in 1..Len(trail) : trail[i].at \in Nat
    BY <2>2 DEF Change, Days
  <2>. QED  BY <2>1, <2>2, <2>3
<1>3. CASE NextDay
  <2>1. /\ day' = day + 1 /\ day + 1 \in Days /\ standing' = standing /\ trail' = trail
        /\ held' = [held EXCEPT ![day + 1] = standing]
    BY <1>2, <1>3 DEF NextDay, Days
  <2>2. \A e \in 1..day : e \in Days /\ e # day + 1 /\ held'[e] = held[e]
    BY <1>2, <2>1 DEF TypeOK, Days
  <2>3. held'[day + 1] = standing
    BY <2>1 DEF TypeOK
  <2>4. ASSUME NEW e \in 1..day'
        PROVE  \E k \in 1..Len(trail) :
                  /\ trail[k].at < e /\ trail[k].to = held'[e]
                  /\ \A j \in 1..Len(trail) : trail[j].at < e => j <= k
    <3>1. CASE e \in 1..day
      BY <2>2, <3>1 DEF TrailInv
    <3>2. CASE e = day + 1
      <4>1. Len(trail) \in 1..Len(trail)
        BY <1>2 DEF TrailInv
      <4>2. trail[Len(trail)].at < e /\ trail[Len(trail)].to = held'[e]
        BY <1>2, <2>3, <3>2, <4>1 DEF TrailInv
      <4>. QED  BY <4>1, <4>2
    <3>. QED  BY <1>2, <2>1, <3>1, <3>2
  <2>5. \A i \in 1..Len(trail) : trail[i].at <= day + 1
    BY <1>2 DEF TrailInv
  <2>. QED  BY <2>1, <2>4, <2>5 DEF TrailInv
<1>4. ASSUME NEW s \in Standings, ChangeStanding(s) PROVE TrailInv'
  <2>. DEFINE n == Len(trail) + 1
  <2>1. /\ standing' = s /\ day' = day /\ held' = held
        /\ trail' = Append(trail, [at |-> day, to |-> s])
    BY <1>4 DEF ChangeStanding
  <2>2. /\ Len(trail') = n /\ n \in Nat /\ n > 0
        /\ \A i \in 1..Len(trail) : trail'[i] = trail[i]
        /\ trail'[n].at = day /\ trail'[n].to = s
    BY <1>2, <2>1, AppendProperties DEF TypeOK
  <2>. HIDE DEF n
  <2>3. \A i \in 1..n : i \in 1..Len(trail) \/ i = n
    BY <1>2 DEF n
  <2>4. \A i \in 1..Len(trail) : i \in 1..n
    BY <1>2 DEF n
  <2>5. \A i \in 1..n : trail'[i].at <= day
    BY <1>2, <2>2, <2>3 DEF TrailInv
  <2>6. ASSUME NEW e \in 1..day
        PROVE  \E k \in 1..n :
                  /\ trail'[k].at < e /\ trail'[k].to = held[e]
                  /\ \A j \in 1..n : trail'[j].at < e => j <= k
    <3>1. PICK k \in 1..Len(trail) :
             /\ trail[k].at < e /\ trail[k].to = held[e]
             /\ \A j \in 1..Len(trail) : trail[j].at < e => j <= k
      BY DEF TrailInv
    <3>2. ~(trail'[n].at < e)
      BY <1>2, <2>2
    <3>3. \A j \in 1..n : trail'[j].at < e => j <= k
      BY <2>2, <2>3, <3>1, <3>2
    <3>. QED  BY <2>2, <2>4, <3>1, <3>3
  <2>. QED  BY <2>1, <2>2, <2>5, <2>6 DEF TrailInv
<1>5. CASE UNCHANGED vars
  BY <1>1, <1>5 DEF vars
<1>6. CASE Next
  BY <1>1, <1>3, <1>4, <1>6
  DEF Next, Draft, ActivateRead, RejectRead, SubmitCheck, SubmitInsert, EvidenceCheck, DisburseRead,
      DecideRead, ActivateCommit, RejectCommit, EvidenceAdd, DecideCommit, DisburseCommit
<1>. QED  BY <1>5, <1>6

\* What the rule engine takes for his standing on a past day is what it was.
LEMMA StandingAsHeld ==
  ASSUME TypeOK, TrailInv, NEW e \in 1..day
  PROVE  StandingAsOf(e) = held[e]
<1>. DEFINE I == {i \in 1..Len(trail) : trail[i].at < e}
<1>1. PICK k \in 1..Len(trail) :
         /\ trail[k].at < e /\ trail[k].to = held[e]
         /\ \A j \in 1..Len(trail) : trail[j].at < e => j <= k
  BY DEF TrailInv
<1>2. k \in I /\ \A j \in I : k >= j
  BY <1>1
<1>3. I \subseteq Int
  OBVIOUS
<1>. HIDE DEF I
<1>4. \A x \in I : (\A y \in I : x >= y) => x = k
  BY <1>2, <1>3
<1>5. Max(I) = k
  BY <1>2, <1>4 DEF Max
<1>6. LatestChange(e) = IF I # {} THEN Max(I) ELSE 0
  BY DEF LatestChange, SelectLastInSeq, I
<1>7. LatestChange(e) = k /\ k # 0
  BY <1>2, <1>5, <1>6
<1>. QED  BY <1>1, <1>7 DEF StandingAsOf

\* A member is found eligible under a rule that asks for good standing only if
\* he was ACTIVE on the day of the event, whatever his status is by then
\* (RuleEngineService.evaluateBenefitEligibility).
THEOREM EligibleByThatDay == Spec => StandingOnEventDate
<1>. DEFINE Inv == TypeOK /\ TrailInv
            Judged == \A h \in Handlers :
                         /\ handler[h] = Idle /\ handler'[h].op = "submit"
                         /\ handler'[h].on[1] \in Strict
                         /\ handler'[h].event \in 1..day
                         => held[handler'[h].event] = "ACTIVE"
<1>1. Init => Inv
  BY InitTypeOK, InitTrailInv
<1>2. Inv /\ [Next]_vars => Inv'
  BY NextTypeOK, NextTrailInv
<1>3. Inv /\ [Next]_vars => Judged
  <2>. SUFFICES ASSUME Inv, [Next]_vars, NEW h \in Handlers, handler[h] = Idle,
                       handler'[h].op = "submit", handler'[h].on[1] \in Strict,
                       handler'[h].event \in 1..day
                PROVE  held[handler'[h].event] = "ACTIVE"
    OBVIOUS
  <2>1. PICK r \in Rules, s \in Subjects, a \in Actors, e \in Days :
           SubmitCheck(h, r, s, a, e) /\ handler'[h].on = <<r, s>> /\ handler'[h].event = e
    BY NewCall DEF Idle, OnClaims
  <2>2. StandingAsOf(e) = "ACTIVE"
    BY <2>1 DEF SubmitCheck, Eligible
  <2>. QED  BY <2>1, <2>2, StandingAsHeld
<1>. HIDE DEF Inv
<1>. QED  BY <1>1, <1>2, <1>3, PTL DEF Spec, StandingOnEventDate
=============================================================================
