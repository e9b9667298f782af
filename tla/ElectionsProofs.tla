-------------------------- MODULE ElectionsProofs ---------------------------
(***************************************************************************)
(* Proofs about Elections, for every value of its constants.               *)
(***************************************************************************)
EXTENDS Elections, FiniteSetTheorems, SequenceTheorems, TLAPS

Calls == {Idle} \cup NominateCall \cup SecondCall \cup VetCall \cup VoteCall

-----------------------------------------------------------------------------
(* What a call read and has not yet written is still there when it writes:  *)
(* elections and nominations are never removed, and ballots only get longer. *)

\* A nomination belongs to an election that was created.
NominationsStand ==
    \A n \in Nominations :
        nomination[n] # Absent => phase[nomination[n].election] # "absent"

\* So does what a call in progress is about.
CallsStand ==
    \A h \in Handlers :
        /\ handler[h].op = "nominate" => phase[handler[h].election] # "absent"
        /\ handler[h].op \in {"second", "vet"} => nomination[handler[h].nomination] # Absent
        /\ handler[h].op = "vote" =>
              /\ handler[h].line[1] = handler[h].election
              /\ handler[h].line[2] \in DOMAIN options[handler[h].election]

\* The ballot of an election is empty until it is created.
NoBallotYet == \A e \in Elections : phase[e] = "absent" => options[e] = <<>>

\* The registry holds the voters of the ballots, and a voter has one ballot
\* in an election, for a line of it.
BallotsMatchRegistry ==
    /\ registry = {<<b.election, b.voter>> : b \in ballots}
    /\ \A b, c \in ballots : b.election = c.election /\ b.voter = c.voter => b = c
    /\ \A b \in ballots : /\ b.line[1] = b.election
                          /\ b.line[2] \in DOMAIN options[b.election]

ElectionInv ==
    TypeOK /\ NominationsStand /\ CallsStand /\ NoBallotYet /\ BallotsMatchRegistry

LEMMA CallTypes ==
  ASSUME TypeOK, NEW h \in Handlers
  PROVE  /\ handler[h].op = "nominate" => handler[h] \in NominateCall
         /\ handler[h].op = "second" => handler[h] \in SecondCall
         /\ handler[h].op = "vet" => handler[h] \in VetCall
         /\ handler[h].op = "vote" => handler[h] \in VoteCall
  BY DEF TypeOK, Idle, NominateCall, SecondCall, VetCall, VoteCall

LEMMA InitElectionInv == Init => ElectionInv
<1>. SUFFICES ASSUME Init PROVE ElectionInv
  OBVIOUS
<1>1. TypeOK
  BY ElectionsAssumption, EmptySeq DEF Init, TypeOK, Phases
<1>2. NominationsStand /\ CallsStand /\ NoBallotYet /\ BallotsMatchRegistry
  BY DEF Init, NominationsStand, CallsStand, NoBallotYet, BallotsMatchRegistry, Idle, Absent
<1>. QED  BY <1>1, <1>2 DEF ElectionInv

-----------------------------------------------------------------------------
(* The administrator's actions. *)

LEMMA FunctionIsSeq == ASSUME NEW S, NEW n \in Nat, NEW f \in [1..n -> S] PROVE f \in Seq(S)
  BY SeqDef

\* The ballot that an election is created with is a sequence of lines.
Created(e, listed) ==
    [i \in 1..Issues[e] + Len(listed) |->
        [member |-> IF i <= Issues[e] THEN {} ELSE {listed[i - Issues[e]]}, from |-> {}]]

LEMMA CreatedBallot ==
  ASSUME NEW e \in Elections, NEW listed \in SeqOf(Members, MaxCandidates)
  PROVE  Created(e, listed) \in Seq(Line)
<1>1. Issues[e] \in Nat
  BY ElectionsAssumption
<1>2. listed \in Seq(Members)
  <2>1. PICK m \in 0..MaxCandidates : listed \in [1..m -> Members]
    BY DEF SeqOf
  <2>. QED  BY <2>1, FunctionIsSeq, ElectionsAssumption
<1>3. ASSUME NEW i \in 1..Issues[e] + Len(listed)
      PROVE  [member |-> IF i <= Issues[e] THEN {} ELSE {listed[i - Issues[e]]}, from |-> {}]
                \in Line
  <2>1. i > Issues[e] => i - Issues[e] \in 1..Len(listed)
    BY <1>1, <1>2
  <2>2. i > Issues[e] => listed[i - Issues[e]] \in Members
    BY <1>2, <2>1
  <2>3. i <= Issues[e] \/ i > Issues[e]
    BY <1>1, <1>2
  <2>. QED  BY <1>1, <2>2, <2>3 DEF Line
<1>4. Created(e, listed) \in [1..Issues[e] + Len(listed) -> Line]
  BY <1>3 DEF Created
<1>5. Issues[e] + Len(listed) \in Nat
  BY <1>1, <1>2
<1>. QED  BY <1>4, <1>5, FunctionIsSeq

LEMMA CreateElectionInv ==
  ASSUME ElectionInv, NEW e \in Elections, NEW listed \in SeqOf(Members, MaxCandidates),
         CreateElection(e, listed)
  PROVE  ElectionInv'
<1>1. PICK s \in Seq(Line) : options' = [options EXCEPT ![e] = s]
  BY CreatedBallot DEF CreateElection, Created
<1>2. /\ phase[e] = "absent" /\ phase' = [phase EXCEPT ![e] = "DRAFT"]
      /\ UNCHANGED <<nomination, registry, ballots, satisfies, vetted, handler,
                     moves, calls, changes>>
  BY DEF CreateElection, votes, counters
<1>3. /\ phase \in [Elections -> Phases] /\ options \in [Elections -> Seq(Line)]
      /\ options[e] = <<>> /\ TypeOK
  BY <1>2 DEF ElectionInv, TypeOK, NoBallotYet
<1>4. TypeOK'
  BY <1>1, <1>2, <1>3 DEF TypeOK, Phases
<1>5. NominationsStand'
  BY <1>2, <1>3 DEF ElectionInv, NominationsStand, TypeOK, Present
<1>6. CallsStand'
  <2>. SUFFICES ASSUME NEW h \in Handlers
       PROVE /\ handler[h].op = "nominate" => phase'[handler[h].election] # "absent"
             /\ handler[h].op \in {"second", "vet"} =>
                   nomination[handler[h].nomination] # Absent
             /\ handler[h].op = "vote" =>
                  /\ handler[h].line[1] = handler[h].election
                  /\ handler[h].line[2] \in DOMAIN (options'[handler[h].election])
    BY <1>2 DEF CallsStand
  <2>1. handler[h].op = "nominate" => handler[h].election \in Elections
    BY <1>3, CallTypes DEF NominateCall
  <2>2. handler[h].op = "vote" => handler[h].election \in Elections
    BY <1>3, CallTypes DEF VoteCall
  <2>3. handler[h].op = "vote" => handler[h].election # e
    BY <1>3, <2>2, EmptySeq DEF ElectionInv, CallsStand
  <2>. QED  BY <1>1, <1>2, <1>3, <2>1, <2>2, <2>3 DEF ElectionInv, CallsStand
<1>7. NoBallotYet'
  BY <1>1, <1>2, <1>3 DEF ElectionInv, NoBallotYet
<1>8. \A b \in ballots : b.election \in Elections /\ b.election # e
  BY <1>3, EmptySeq DEF ElectionInv, BallotsMatchRegistry, TypeOK, Ballot
<1>9. BallotsMatchRegistry'
  BY <1>1, <1>2, <1>3, <1>8 DEF ElectionInv, BallotsMatchRegistry
<1>. QED  BY <1>4, <1>5, <1>6, <1>7, <1>9 DEF ElectionInv

LEMMA TransitionInv ==
  ASSUME ElectionInv, NEW e \in Elections, NEW p \in Phases, Transition(e, p)
  PROVE  ElectionInv'
<1>1. /\ phase[e] # "absent" /\ p # "absent" /\ phase' = [phase EXCEPT ![e] = p]
      /\ moves' = moves + 1
      /\ UNCHANGED <<options, nomination, registry, ballots, satisfies, vetted, handler,
                     calls, changes>>
  BY DEF Transition, votes
<1>2. TypeOK /\ phase \in [Elections -> Phases]
  BY DEF ElectionInv, TypeOK
<1>3. TypeOK'
  BY <1>1, <1>2 DEF TypeOK
<1>4. \A f \in Elections : phase'[f] = "absent" <=> phase[f] = "absent"
  BY <1>1, <1>2
<1>5. NominationsStand'
  BY <1>1, <1>2, <1>4 DEF ElectionInv, NominationsStand, TypeOK, Present
<1>6. CallsStand'
  <2>1. \A h \in Handlers : handler[h].op = "nominate" => handler[h].election \in Elections
    BY <1>2, CallTypes DEF NominateCall
  <2>. QED  BY <1>1, <1>4, <2>1 DEF ElectionInv, CallsStand
<1>7. NoBallotYet' /\ BallotsMatchRegistry'
  BY <1>1, <1>4 DEF ElectionInv, NoBallotYet, BallotsMatchRegistry
<1>. QED  BY <1>3, <1>5, <1>6, <1>7 DEF ElectionInv

LEMMA MemberInv ==
  ASSUME ElectionInv, NEW m \in Members, NEW q \in Qualities, MemberChanges(m, q)
  PROVE  ElectionInv'
<1>1. TypeOK'
  BY DEF ElectionInv, TypeOK, MemberChanges, votes
<1>2. NominationsStand' /\ CallsStand' /\ NoBallotYet' /\ BallotsMatchRegistry'
  BY DEF ElectionInv, MemberChanges, votes, NominationsStand, CallsStand, NoBallotYet,
     BallotsMatchRegistry
<1>. QED  BY <1>1, <1>2 DEF ElectionInv

-----------------------------------------------------------------------------
(* The first half of a call: it reads, and only its handler changes. *)

LEMMA BeginInv ==
  ASSUME ElectionInv, NEW h \in Handlers, NEW call \in Calls, Begin(h, call),
         call.op = "nominate" => phase[call.election] # "absent",
         call.op \in {"second", "vet"} => nomination[call.nomination] # Absent,
         call.op = "vote" => /\ call.line[1] = call.election
                             /\ call.line[2] \in DOMAIN options[call.election]
  PROVE  ElectionInv'
<1>1. TypeOK'
  BY DEF ElectionInv, TypeOK, Begin, votes, Calls
<1>2. handler \in [Handlers -> Calls]
  BY DEF ElectionInv, TypeOK, Calls
<1>3. CallsStand'
  BY <1>2 DEF ElectionInv, CallsStand, Begin
<1>4. NominationsStand' /\ NoBallotYet' /\ BallotsMatchRegistry'
  BY DEF ElectionInv, Begin, votes, NominationsStand, NoBallotYet, BallotsMatchRegistry
<1>. QED  BY <1>1, <1>3, <1>4 DEF ElectionInv

LEMMA ReadInv ==
  ASSUME ElectionInv, NEW h \in Handlers,
         \/ \E m, x \in Members, e \in Elections : NominateRead(h, m, e, x)
         \/ \E m \in Members, n \in Nominations : SecondRead(h, m, n)
         \/ \E n \in Nominations, s \in {"APPROVED", "REJECTED"} : VetRead(h, n, s)
         \/ \E m \in Members, e, f \in Elections : \E i \in DOMAIN options[f] :
               VoteRead(h, m, e, <<f, i>>)
  PROVE  ElectionInv'
<1>0. TypeOK
  BY DEF ElectionInv
<1>1. ASSUME NEW m \in Members, NEW x \in Members, NEW e \in Elections,
             NominateRead(h, m, e, x)
      PROVE  ElectionInv'
  <2>. DEFINE call == [op |-> "nominate", by |-> m, election |-> e, nominee |-> x]
  <2>1. call \in Calls
    BY DEF Calls, NominateCall
  <2>2. phase[e] = "NOMINATION" /\ Begin(h, call)
    BY <1>1 DEF NominateRead
  <2>. QED  BY <2>1, <2>2, BeginInv
<1>2. ASSUME NEW m \in Members, NEW n \in Nominations, SecondRead(h, m, n)
      PROVE  ElectionInv'
  <2>. DEFINE call == [op |-> "second", by |-> m, nomination |-> n,
                       seconders |-> nomination[n].seconders]
  <2>1. nomination[n] # Absent /\ Begin(h, call)
    BY <1>2 DEF SecondRead
  <2>2. nomination[n] \in Present
    BY <1>0, <2>1 DEF TypeOK
  <2>3. call \in Calls
    BY <2>2 DEF Calls, SecondCall, Present
  <2>. QED  BY <2>1, <2>3, BeginInv
<1>3. ASSUME NEW n \in Nominations, NEW s \in {"APPROVED", "REJECTED"}, VetRead(h, n, s)
      PROVE  ElectionInv'
  <2>. DEFINE call == [op |-> "vet", nomination |-> n, state |-> s]
  <2>1. call \in Calls
    BY DEF Calls, VetCall
  <2>2. nomination[n] # Absent /\ Begin(h, call)
    BY <1>3 DEF VetRead
  <2>. QED  BY <2>1, <2>2, BeginInv
<1>4. ASSUME NEW m \in Members, NEW e \in Elections, NEW f \in Elections,
             NEW i \in DOMAIN options[f], VoteRead(h, m, e, <<f, i>>)
      PROVE  ElectionInv'
  <2>. DEFINE call == [op |-> "vote", by |-> m, election |-> e, line |-> <<f, i>>]
  <2>1. f = e /\ Begin(h, call)
    BY <1>4 DEF VoteRead, OnBallot
  <2>2. options[f] \in Seq(Line)
    BY <1>0 DEF TypeOK
  <2>3. i \in Nat \ {0}
    BY <2>2, LenProperties
  <2>4. call \in Calls
    BY <2>3 DEF Calls, VoteCall, Lines
  <2>. QED  BY <2>1, <2>4, BeginInv
<1>. QED  BY <1>1, <1>2, <1>3, <1>4

-----------------------------------------------------------------------------
(* The second half: it writes. *)

LEMMA NominateInv ==
  ASSUME ElectionInv, NEW h \in Handlers, NEW n \in Nominations, NominateCommit(h, n)
  PROVE  ElectionInv'
<1>. DEFINE row == [state |-> "PENDING", election |-> handler[h].election,
                    nominee |-> handler[h].nominee, by |-> handler[h].by, seconders |-> {}]
<1>0. TypeOK
  BY DEF ElectionInv
<1>1. handler[h] \in NominateCall /\ phase[handler[h].election] # "absent"
  BY <1>0, CallTypes DEF NominateCommit, ElectionInv, CallsStand
<1>2. row \in Present
  BY <1>1 DEF NominateCall, Present
<1>3. row # Absent
  BY DEF Absent
<1>4. /\ nomination' = [nomination EXCEPT ![n] = row]
      /\ handler' = [handler EXCEPT ![h] = Idle]
      /\ UNCHANGED <<phase, options, registry, ballots, satisfies, vetted, moves, calls,
                     changes>>
  BY DEF NominateCommit, End, votes, counters
<1>5. /\ nomination \in [Nominations -> {Absent} \cup Present]
      /\ handler \in [Handlers -> Calls]
  BY <1>0 DEF TypeOK, Calls
<1>6. TypeOK'
  <2>1. nomination' \in [Nominations -> {Absent} \cup Present]
    BY <1>2, <1>4, <1>5
  <2>2. handler' \in [Handlers -> Calls]
    BY <1>4, <1>5 DEF Calls
  <2>. QED  BY <1>0, <1>4, <2>1, <2>2 DEF TypeOK, Calls
<1>7. NominationsStand'
  BY <1>1, <1>4, <1>5 DEF ElectionInv, NominationsStand
<1>8. CallsStand'
  <2>1. \A k \in Handlers : handler[k].op \in {"second", "vet"} =>
            handler[k].nomination \in Nominations
    BY <1>0, CallTypes DEF SecondCall, VetCall
  <2>. QED  BY <1>3, <1>4, <1>5, <2>1 DEF ElectionInv, CallsStand, Idle
<1>9. NoBallotYet' /\ BallotsMatchRegistry'
  BY <1>4 DEF ElectionInv, NoBallotYet, BallotsMatchRegistry
<1>. QED  BY <1>6, <1>7, <1>8, <1>9 DEF ElectionInv

LEMMA SecondInv ==
  ASSUME ElectionInv, NEW h \in Handlers, SecondCommit(h)
  PROVE  ElectionInv'
<1>. DEFINE n == handler[h].nomination
            row == [nomination[n] EXCEPT !.seconders = handler[h].seconders \cup {handler[h].by}]
<1>0. TypeOK
  BY DEF ElectionInv
<1>1. handler[h] \in SecondCall /\ nomination[n] # Absent
  BY <1>0, CallTypes DEF SecondCommit, ElectionInv, CallsStand
<1>2. n \in Nominations /\ nomination[n] \in Present
  BY <1>0, <1>1 DEF SecondCall, TypeOK
<1>3. row \in Present /\ row.election = nomination[n].election
  BY <1>1, <1>2 DEF SecondCall, Present
<1>4. row # Absent
  BY <1>3 DEF Absent, Present
<1>5. /\ nomination' = [nomination EXCEPT ![n] = row]
      /\ handler' = [handler EXCEPT ![h] = Idle]
      /\ UNCHANGED <<phase, options, registry, ballots, satisfies, vetted, moves, calls,
                     changes>>
  BY DEF SecondCommit, End, votes, counters
<1>6. /\ nomination \in [Nominations -> {Absent} \cup Present]
      /\ handler \in [Handlers -> Calls]
  BY <1>0 DEF TypeOK, Calls
<1>7. TypeOK'
  <2>1. nomination' \in [Nominations -> {Absent} \cup Present]
    BY <1>3, <1>5, <1>6
  <2>2. handler' \in [Handlers -> Calls]
    BY <1>5, <1>6 DEF Calls
  <2>. QED  BY <1>0, <1>5, <2>1, <2>2 DEF TypeOK, Calls
<1>8. NominationsStand'
  BY <1>1, <1>2, <1>3, <1>5, <1>6 DEF ElectionInv, NominationsStand
<1>9. CallsStand'
  <2>1. \A k \in Handlers : handler[k].op \in {"second", "vet"} =>
            handler[k].nomination \in Nominations
    BY <1>0, CallTypes DEF SecondCall, VetCall
  <2>. QED  BY <1>4, <1>5, <1>6, <2>1 DEF ElectionInv, CallsStand, Idle
<1>10. NoBallotYet' /\ BallotsMatchRegistry'
  BY <1>5 DEF ElectionInv, NoBallotYet, BallotsMatchRegistry
<1>. QED  BY <1>7, <1>8, <1>9, <1>10 DEF ElectionInv

LEMMA VetInv ==
  ASSUME ElectionInv, NEW h \in Handlers, VetCommit(h)
  PROVE  ElectionInv'
<1>. DEFINE n == handler[h].nomination
            e == nomination[n].election
            row == [nomination[n] EXCEPT !.state = handler[h].state]
            ballot == IF Promotes(handler[h].state) THEN Append(options[e], LineOf(n))
                                                    ELSE options[e]
<1>0. TypeOK
  BY DEF ElectionInv
<1>1. handler[h] \in VetCall /\ nomination[n] # Absent
  BY <1>0, CallTypes DEF VetCommit, ElectionInv, CallsStand
<1>2. n \in Nominations /\ nomination[n] \in Present
  BY <1>0, <1>1 DEF VetCall, TypeOK
<1>3. /\ row \in Present /\ row.election = e /\ e \in Elections
      /\ phase[e] # "absent"
  BY <1>1, <1>2 DEF VetCall, Present, ElectionInv, NominationsStand
<1>4. row # Absent
  BY <1>3 DEF Absent, Present
<1>5. /\ nomination' = [nomination EXCEPT ![n] = row]
      /\ options' = [options EXCEPT ![e] = ballot]
      /\ vetted' = [vetted EXCEPT ![n] = @ + 1]
      /\ handler' = [handler EXCEPT ![h] = Idle]
      /\ UNCHANGED <<phase, registry, ballots, satisfies, moves, calls, changes>>
  BY DEF VetCommit, End, votes, counters
<1>6. /\ nomination \in [Nominations -> {Absent} \cup Present]
      /\ handler \in [Handlers -> Calls]
      /\ options \in [Elections -> Seq(Line)]
      /\ vetted \in [Nominations -> Nat]
  BY <1>0 DEF TypeOK, Calls
<1>7. LineOf(n) \in Line
  BY <1>2 DEF LineOf, Line, Present
<1>8. ballot \in Seq(Line) /\ DOMAIN options[e] \subseteq DOMAIN ballot
  BY <1>3, <1>6, <1>7, AppendProperties
<1>9. \A f \in Elections : DOMAIN options[f] \subseteq DOMAIN (options'[f])
  BY <1>5, <1>6, <1>8
<1>10. TypeOK'
  <2>1. nomination' \in [Nominations -> {Absent} \cup Present]
    BY <1>3, <1>5, <1>6
  <2>2. handler' \in [Handlers -> Calls]
    BY <1>5, <1>6 DEF Calls
  <2>3. options' \in [Elections -> Seq(Line)]
    BY <1>5, <1>6, <1>8
  <2>4. vetted' \in [Nominations -> Nat]
    BY <1>2, <1>5, <1>6
  <2>. QED  BY <1>0, <1>5, <2>1, <2>2, <2>3, <2>4 DEF TypeOK, Calls
<1>11. NominationsStand'
  BY <1>1, <1>2, <1>3, <1>5, <1>6 DEF ElectionInv, NominationsStand
<1>12. CallsStand'
  <2>1. \A k \in Handlers : handler[k].op \in {"second", "vet"} =>
            handler[k].nomination \in Nominations
    BY <1>0, CallTypes DEF SecondCall, VetCall
  <2>2. \A k \in Handlers : handler[k].op = "vote" => handler[k].election \in Elections
    BY <1>0, CallTypes DEF VoteCall
  <2>. QED  BY <1>4, <1>5, <1>6, <1>9, <2>1, <2>2 DEF ElectionInv, CallsStand, Idle
<1>13. NoBallotYet'
  BY <1>3, <1>5, <1>6 DEF ElectionInv, NoBallotYet
<1>14. BallotsMatchRegistry'
  <2>1. \A b \in ballots : b.election \in Elections
    BY <1>0 DEF TypeOK, Ballot
  <2>. QED  BY <1>5, <1>9, <2>1 DEF ElectionInv, BallotsMatchRegistry
<1>. QED  BY <1>10, <1>11, <1>12, <1>13, <1>14 DEF ElectionInv

LEMMA EndInv ==
  ASSUME ElectionInv, NEW h \in Handlers, End(h),
         UNCHANGED <<options, nomination, vetted>>,
         registry' \subseteq Elections \X Members, ballots' \subseteq Ballot,
         BallotsMatchRegistry'
  PROVE  ElectionInv'
<1>1. TypeOK'
  BY DEF ElectionInv, TypeOK, End, counters
<1>2. handler \in [Handlers -> Calls]
  BY DEF ElectionInv, TypeOK, Calls
<1>3. CallsStand'
  BY <1>2 DEF ElectionInv, CallsStand, End, Idle
<1>4. NominationsStand' /\ NoBallotYet'
  BY DEF ElectionInv, NominationsStand, NoBallotYet, End
<1>. QED  BY <1>1, <1>3, <1>4 DEF ElectionInv

LEMMA RegistryGrows ==
  ASSUME NEW S, NEW b
  PROVE  {<<c.election, c.voter>> : c \in S} \cup {<<b.election, b.voter>>}
             = {<<c.election, c.voter>> : c \in S \cup {b}}
  OBVIOUS

LEMMA VoteInv ==
  ASSUME ElectionInv, NEW h \in Handlers, VoteCommit(h) \/ VoteLost(h)
  PROVE  ElectionInv'
<1>0. TypeOK
  BY DEF ElectionInv
<1>1. CASE VoteCommit(h)
  <2>. DEFINE b == [election |-> handler[h].election, voter |-> handler[h].by,
                    line |-> handler[h].line]
  <2>1. /\ handler[h] \in VoteCall
        /\ handler[h].line[1] = handler[h].election
        /\ handler[h].line[2] \in DOMAIN options[handler[h].election]
    BY <1>0, <1>1, CallTypes DEF VoteCommit, ElectionInv, CallsStand
  <2>2. /\ <<b.election, b.voter>> \notin registry
        /\ registry' = registry \cup {<<b.election, b.voter>>}
        /\ ballots' = ballots \cup {b}
        /\ End(h) /\ UNCHANGED <<options, nomination, vetted>>
    BY <1>1 DEF VoteCommit, RegistryTakes
  <2>3. b \in Ballot /\ <<b.election, b.voter>> \in Elections \X Members
    BY <2>1 DEF VoteCall, Ballot
  <2>4. registry' \subseteq Elections \X Members /\ ballots' \subseteq Ballot
    BY <1>0, <2>2, <2>3 DEF TypeOK
  <2>5. /\ registry = {<<c.election, c.voter>> : c \in ballots}
        /\ \A c \in ballots : ~(c.election = b.election /\ c.voter = b.voter)
    BY <2>2 DEF ElectionInv, BallotsMatchRegistry
  <2>6. registry' = {<<c.election, c.voter>> : c \in ballots'}
    BY <2>2, <2>5, RegistryGrows
  <2>7. \A c, d \in ballots' : c.election = d.election /\ c.voter = d.voter => c = d
    BY <2>2, <2>5 DEF ElectionInv, BallotsMatchRegistry
  <2>8. \A c \in ballots' : /\ c.line[1] = c.election
                            /\ c.line[2] \in DOMAIN (options'[c.election])
    BY <2>1, <2>2 DEF ElectionInv, BallotsMatchRegistry
  <2>. QED  BY <2>2, <2>4, <2>6, <2>7, <2>8, EndInv DEF BallotsMatchRegistry
<1>2. CASE VoteLost(h)
  <2>1. End(h) /\ UNCHANGED <<options, nomination, vetted, registry, ballots>>
    BY <1>2 DEF VoteLost, votes
  <2>2. BallotsMatchRegistry'
    BY <2>1 DEF ElectionInv, BallotsMatchRegistry
  <2>. QED  BY <1>0, <2>1, <2>2, EndInv DEF TypeOK
<1>. QED  BY <1>1, <1>2

-----------------------------------------------------------------------------
(* The theorems. *)

LEMMA NextElectionInv == ElectionInv /\ [Next]_vars => ElectionInv'
<1>. SUFFICES ASSUME ElectionInv, [Next]_vars PROVE ElectionInv'
  OBVIOUS
<1>1. CASE UNCHANGED vars
  BY <1>1 DEF ElectionInv, vars, votes, counters, TypeOK, NominationsStand, CallsStand,
     NoBallotYet, BallotsMatchRegistry
<1>2. CASE Next
  BY <1>2, CreateElectionInv, TransitionInv, MemberInv, ReadInv, NominateInv, SecondInv,
     VetInv, VoteInv DEF Next
<1>. QED  BY <1>1, <1>2

\* The inductive invariant holds of every behaviour, for any number of
\* elections, members and concurrent calls (GovernanceService).
THEOREM ElectionsInvariant == Spec => []ElectionInv
  BY InitElectionInv, NextElectionInv, PTL DEF Spec

\* Every row of an election keeps its type (GovernanceService).
THEOREM TypeCorrect == Spec => []TypeOK
<1>1. ElectionInv => TypeOK
  BY DEF ElectionInv
<1>. QED  BY <1>1, ElectionsInvariant, PTL

\* However many votes overlap, and whatever becomes of the phase and the ballot
\* meanwhile, turnout and results add up (castVote, getElectionResults).
THEOREM ResultsAddUp == Spec => []OneBallotEach
<1>1. ElectionInv => OneBallotEach
  <2>. SUFFICES ASSUME ElectionInv, NEW e \in Elections
                PROVE  LET cast == {b \in ballots : b.election = e} IN
                       /\ {b.voter : b \in cast} = Turnout(e)
                       /\ \A b, c \in cast : b.voter = c.voter => b = c
                       /\ cast = UNION {VotesFor(e, i) : i \in DOMAIN options[e]}
    BY DEF OneBallotEach
  <2>. DEFINE cast == {b \in ballots : b.election = e}
  <2>1. \A b \in ballots : /\ b.voter \in Members
                           /\ b.line = <<b.line[1], b.line[2]>>
    BY DEF ElectionInv, TypeOK, Ballot, Lines
  <2>2. \A m : <<e, m>> \in registry <=> \E b \in ballots : b.election = e /\ b.voter = m
    BY DEF ElectionInv, BallotsMatchRegistry
  <2>3. {b.voter : b \in cast} = Turnout(e)
    BY <2>1, <2>2 DEF Turnout
  <2>4. \A b, c \in cast : b.voter = c.voter => b = c
    BY DEF ElectionInv, BallotsMatchRegistry
  <2>5. \A b \in cast : b \in VotesFor(e, b.line[2]) /\ b.line[2] \in DOMAIN options[e]
    BY <2>1 DEF ElectionInv, BallotsMatchRegistry, VotesFor
  <2>6. \A i : VotesFor(e, i) \subseteq cast
    BY DEF VotesFor
  <2>7. cast = UNION {VotesFor(e, i) : i \in DOMAIN options[e]}
    BY <2>5, <2>6
  <2>. QED  BY <2>3, <2>4, <2>7
<1>. QED  BY <1>1, ElectionsInvariant, PTL

-----------------------------------------------------------------------------
(* Vetting.  The line of a nomination is appended in the step that approves  *)
(* it; no other step touches a line that a nomination stands on.             *)

\* The line is about the nomination: its election's, for its nominee.
LineIsOf(l, n) == /\ l[1] = nomination[n].election
                  /\ options[l[1]][l[2]].member = {nomination[n].nominee}

\* A nomination that nobody decided on is pending and on no ballot; one decided
\* once is on a ballot if it was approved.
PromotedOnce(n) ==
    /\ nomination[n] = Absent => vetted[n] = 0
    /\ vetted[n] = 0 => /\ LinesFrom(n) = {}
                        /\ nomination[n] # Absent => nomination[n].state = "PENDING"
    /\ vetted[n] = 1 =>
          IF nomination[n].state = "APPROVED"
          THEN \E l : LinesFrom(n) = {l} /\ LineIsOf(l, n)
          ELSE LinesFrom(n) = {}

VettingInv == ElectionInv /\ \A n \in Nominations : PromotedOnce(n)

LEMMA LinesFromDef ==
  ASSUME NEW n, NEW l
  PROVE  l \in LinesFrom(n) <=>
            \E e \in Elections : \E i \in DOMAIN options[e] :
                l = <<e, i>> /\ n \in options[e][i].from
  BY DEF LinesFrom

\* An election is created with lines that no nomination stands on.
LEMMA CreatedLines ==
  ASSUME ElectionInv, NEW e \in Elections, NEW listed \in SeqOf(Members, MaxCandidates),
         CreateElection(e, listed), NEW n \in Nominations
  PROVE  LinesFrom(n)' = LinesFrom(n) /\ \A l \in LinesFrom(n) : options'[l[1]] = options[l[1]]
<1>1. /\ phase[e] = "absent" /\ options[e] = <<>>
      /\ options \in [Elections -> Seq(Line)]
  BY DEF CreateElection, ElectionInv, NoBallotYet, TypeOK
<1>2. PICK s : /\ options' = [options EXCEPT ![e] = s]
               /\ \A i \in DOMAIN s : s[i].from = {}
  <2>. DEFINE s == Created(e, listed)
  <2>2. \A i \in DOMAIN s : s[i].from = {}
    BY DEF Created
  <2>3. options' = [options EXCEPT ![e] = s]
    BY DEF CreateElection, Created
  <2>. HIDE DEF s
  <2>. QED  BY <2>2, <2>3
<1>3. \A f \in Elections : f # e => options'[f] = options[f]
  BY <1>1, <1>2
<1>4. DOMAIN options[e] = {} /\ options'[e] = s
  BY <1>1, <1>2, EmptySeq
<1>5. ASSUME NEW f \in Elections, NEW i
      PROVE  /\ i \in DOMAIN options[f] /\ n \in options[f][i].from
             <=> i \in DOMAIN (options'[f]) /\ n \in options'[f][i].from
  BY <1>2, <1>3, <1>4
<1>6. LinesFrom(n)' = LinesFrom(n)
  BY <1>5 DEF LinesFrom
<1>7. \A l \in LinesFrom(n) : l[1] \in Elections /\ l[1] # e
  BY <1>4, LinesFromDef
<1>. QED  BY <1>3, <1>6, <1>7

\* What appending does to a ballot.
LEMMA AppendedLine ==
  ASSUME NEW S, NEW s \in Seq(S), NEW x \in S
  PROVE  /\ Append(s, x)[Len(s) + 1] = x
         /\ \A i \in DOMAIN s : Append(s, x)[i] = s[i]
         /\ \A i : i \in DOMAIN Append(s, x) <=> i \in DOMAIN s \/ i = Len(s) + 1
         /\ Len(s) + 1 \notin DOMAIN s
<1>1. /\ Len(s) \in Nat /\ DOMAIN s = 1..Len(s) /\ DOMAIN Append(s, x) = 1..(Len(s) + 1)
  BY AppendProperties, LenProperties
<1>2. Append(s, x)[Len(s) + 1] = x /\ \A i \in DOMAIN s : Append(s, x)[i] = s[i]
  BY <1>1, AppendProperties
<1>3. \A i : i \in 1..(Len(s) + 1) <=> i \in 1..Len(s) \/ i = Len(s) + 1
  BY <1>1
<1>. QED  BY <1>1, <1>2, <1>3

\* A decision adds a line from its own nomination, or none.
LEMMA VettedLines ==
  ASSUME ElectionInv, NEW h \in Handlers, VetCommit(h), NEW n \in Nominations
  PROVE  LET v == handler[h].nomination
             e == nomination[v].election
             new == <<e, Len(options[e]) + 1>>
         IN  /\ e \in Elections /\ new \notin LinesFrom(n)
             /\ \A l \in LinesFrom(n) : options'[l[1]][l[2]] = options[l[1]][l[2]]
             /\ LinesFrom(n)' = IF n = v /\ Promotes(handler[h].state)
                                THEN LinesFrom(n) \cup {new} ELSE LinesFrom(n)
             /\ Promotes(handler[h].state) => options'[e][new[2]] = LineOf(v)
<1>. DEFINE v == handler[h].nomination
            e == nomination[v].election
            k == Len(options[e]) + 1
<1>1. handler[h] \in VetCall /\ nomination[v] # Absent
  BY CallTypes DEF VetCommit, ElectionInv, CallsStand
<1>2. v \in Nominations /\ nomination[v] \in Present /\ e \in Elections
  BY <1>1 DEF VetCall, ElectionInv, TypeOK, Present
<1>3. options \in [Elections -> Seq(Line)] /\ options[e] \in Seq(Line) /\ LineOf(v) \in Line
  BY <1>2 DEF ElectionInv, TypeOK, LineOf, Line, Present
<1>4. options' = [options EXCEPT ![e] = IF Promotes(handler[h].state)
                                        THEN Append(@, LineOf(v)) ELSE @]
  BY DEF VetCommit
<1>5. \A f \in Elections : f # e => options'[f] = options[f]
  BY <1>3, <1>4
<1>6. CASE Promotes(handler[h].state)
  <2>1. options'[e] = Append(options[e], LineOf(v))
    BY <1>2, <1>3, <1>4, <1>6
  <2>2. /\ options'[e][k] = LineOf(v)
        /\ \A i \in DOMAIN options[e] : options'[e][i] = options[e][i]
        /\ \A i : i \in DOMAIN (options'[e]) <=> i \in DOMAIN options[e] \/ i = k
        /\ k \notin DOMAIN options[e]
    <3>1. PICK s \in Seq(Line), x \in Line : s = options[e] /\ x = LineOf(v)
      BY <1>3
    <3>2. PICK b : b = options'[e] /\ b = Append(s, x)
      BY <2>1, <3>1
    <3>3. PICK j : j = k /\ j = Len(s) + 1
      BY <3>1
    <3>4. /\ Append(s, x)[Len(s) + 1] = x
          /\ \A i \in DOMAIN s : Append(s, x)[i] = s[i]
          /\ \A i : i \in DOMAIN Append(s, x) <=> i \in DOMAIN s \/ i = Len(s) + 1
          /\ Len(s) + 1 \notin DOMAIN s
      BY AppendedLine, Zenon
    <3>5. /\ b[j] = x /\ \A i \in DOMAIN s : b[i] = s[i]
          /\ \A i : i \in DOMAIN b <=> i \in DOMAIN s \/ i = j
          /\ j \notin DOMAIN s
      BY <3>2, <3>3, <3>4, Zenon
    <3>. HIDE DEF k
    <3>. QED  BY <3>1, <3>2, <3>3, <3>5
  <2>. HIDE DEF k
  <2>4. options'[e][k].from = {v}
    BY <2>2 DEF LineOf
  <2>5. <<e, k>> \notin LinesFrom(n)
    BY <2>2, LinesFromDef
  <2>6. \A l \in LinesFrom(n) : options'[l[1]][l[2]] = options[l[1]][l[2]]
    <3>. SUFFICES ASSUME NEW l \in LinesFrom(n)
                  PROVE  options'[l[1]][l[2]] = options[l[1]][l[2]]
      OBVIOUS
    <3>1. PICK f \in Elections : \E i \in DOMAIN options[f] : l = <<f, i>>
      BY LinesFromDef
    <3>2. PICK i \in DOMAIN options[f] : l = <<f, i>>
      BY <3>1
    <3>3. options'[f][i] = options[f][i]
      BY <1>5, <2>2
    <3>. QED  BY <3>2, <3>3
  <2>7. ASSUME NEW l
        PROVE  l \in LinesFrom(n)' <=> l \in LinesFrom(n) \/ (n = v /\ l = <<e, k>>)
    <3>1. l \in LinesFrom(n)' <=>
             \E f \in Elections : \E i \in DOMAIN (options'[f]) :
                 l = <<f, i>> /\ n \in options'[f][i].from
      BY DEF LinesFrom
    <3>2. ASSUME NEW f \in Elections, NEW i
          PROVE  i \in DOMAIN (options'[f]) /\ n \in options'[f][i].from <=>
                    \/ i \in DOMAIN options[f] /\ n \in options[f][i].from
                    \/ f = e /\ i = k /\ n = v
      <4>1. CASE f # e
        BY <1>5, <4>1
      <4>2. CASE f = e
        BY <2>2, <2>4, <4>2
      <4>. QED  BY <4>1, <4>2
    <3>. QED  BY <1>2, <3>1, <3>2, LinesFromDef
  <2>8. LinesFrom(n)' = IF n = v THEN LinesFrom(n) \cup {<<e, k>>} ELSE LinesFrom(n)
    BY <2>7
  <2>. QED  BY <1>2, <1>6, <2>2, <2>5, <2>6, <2>8 DEF k
<1>7. CASE ~Promotes(handler[h].state)
  <2>1. options' = options
    BY <1>3, <1>4, <1>7
  <2>2. k \notin DOMAIN options[e]
    BY <1>3
  <2>3. <<e, k>> \notin LinesFrom(n)
    BY <2>2, LinesFromDef
  <2>4. LinesFrom(n)' = LinesFrom(n)
    BY <2>1 DEF LinesFrom
  <2>. QED  BY <1>2, <1>7, <2>1, <2>3, <2>4
<1>. QED  BY <1>6, <1>7

\* Which steps write a ballot or a nomination.
LEMMA Writers ==
  ASSUME [Next]_vars
  PROVE  \/ \E e \in Elections, listed \in SeqOf(Members, MaxCandidates) :
               CreateElection(e, listed)
         \/ \E h \in Handlers : VetCommit(h)
         \/ \E h \in Handlers, n \in Nominations : NominateCommit(h, n)
         \/ \E h \in Handlers : SecondCommit(h)
         \/ UNCHANGED <<options, nomination, vetted>>
<1>1. CASE UNCHANGED vars
  BY <1>1 DEF vars
<1>2. ASSUME NEW e \in Elections, NEW p \in Phases, Transition(e, p)
      PROVE  UNCHANGED <<options, nomination, vetted>>
  BY <1>2 DEF Transition
<1>3. ASSUME NEW m \in Members, NEW q \in Qualities, MemberChanges(m, q)
      PROVE  UNCHANGED <<options, nomination, vetted>>
  BY <1>3 DEF MemberChanges
<1>4. ASSUME NEW h \in Handlers, NEW call, Begin(h, call)
      PROVE  UNCHANGED <<options, nomination, vetted>>
  BY <1>4 DEF Begin
<1>5. ASSUME NEW h \in Handlers, VoteCommit(h) \/ VoteLost(h)
      PROVE  UNCHANGED <<options, nomination, vetted>>
  BY <1>5 DEF VoteCommit, VoteLost
<1>6. ASSUME NEW h \in Handlers, NEW m \in Members, NEW e \in Elections, NEW x \in Members,
             NominateRead(h, m, e, x)
      PROVE  UNCHANGED <<options, nomination, vetted>>
  BY <1>4, <1>6 DEF NominateRead
<1>7. ASSUME NEW h \in Handlers, NEW m \in Members, NEW e \in Elections, NEW l,
             VoteRead(h, m, e, l)
      PROVE  UNCHANGED <<options, nomination, vetted>>
  BY <1>4, <1>7 DEF VoteRead
<1>8. ASSUME NEW h \in Handlers, NEW m \in Members, NEW n \in Nominations, SecondRead(h, m, n)
      PROVE  UNCHANGED <<options, nomination, vetted>>
  BY <1>4, <1>8 DEF SecondRead
<1>9. ASSUME NEW h \in Handlers, NEW n \in Nominations, NEW s, VetRead(h, n, s)
      PROVE  UNCHANGED <<options, nomination, vetted>>
  BY <1>4, <1>9 DEF VetRead
<1>. QED  BY <1>1, <1>2, <1>3, <1>5, <1>6, <1>7, <1>8, <1>9 DEF Next

\* A step that decides nothing leaves the lines of a nomination alone.
LEMMA OtherLines ==
  ASSUME ElectionInv, [Next]_vars, NEW n \in Nominations,
         \A h \in Handlers : ~VetCommit(h)
  PROVE  /\ LinesFrom(n)' = LinesFrom(n) /\ vetted' = vetted
         /\ \A l \in LinesFrom(n) : options'[l[1]] = options[l[1]]
<1>1. CASE \E e \in Elections, listed \in SeqOf(Members, MaxCandidates) :
               CreateElection(e, listed)
  BY <1>1, CreatedLines DEF CreateElection
<1>2. CASE options' = options /\ vetted' = vetted
  BY <1>2 DEF LinesFrom
<1>3. ASSUME NEW h \in Handlers, NEW m \in Nominations, NominateCommit(h, m) \/ SecondCommit(h)
      PROVE  options' = options /\ vetted' = vetted
  BY <1>3 DEF NominateCommit, SecondCommit
<1>. QED  BY <1>1, <1>2, <1>3, Writers

\* It may make a nomination, which is pending, or second one.
LEMMA OtherNominations ==
  ASSUME ElectionInv, [Next]_vars, NEW n \in Nominations,
         \A h \in Handlers : ~VetCommit(h)
  PROVE  \/ /\ nomination[n] = Absent
            /\ nomination'[n] # Absent => nomination'[n].state = "PENDING"
         \/ /\ nomination[n] # Absent /\ nomination'[n] # Absent
            /\ nomination'[n].state = nomination[n].state
            /\ nomination'[n].election = nomination[n].election
            /\ nomination'[n].nominee = nomination[n].nominee
<1>0. nomination \in [Nominations -> {Absent} \cup Present]
  BY DEF ElectionInv, TypeOK
<1>1. CASE \E h \in Handlers, m \in Nominations : NominateCommit(h, m)
  <2>1. PICK h \in Handlers, m \in Nominations : NominateCommit(h, m)
    BY <1>1
  <2>2. nomination[m] = Absent /\ nomination'[m].state = "PENDING"
    BY <1>0, <2>1 DEF NominateCommit
  <2>3. n # m => nomination'[n] = nomination[n]
    BY <1>0, <2>1 DEF NominateCommit
  <2>. QED  BY <2>2, <2>3
<1>2. CASE \E h \in Handlers : SecondCommit(h)
  <2>1. PICK h \in Handlers : SecondCommit(h)
    BY <1>2
  <2>2. /\ nomination[handler[h].nomination] # Absent
        /\ handler[h].nomination \in Nominations
    BY <2>1, CallTypes DEF ElectionInv, CallsStand, SecondCommit, SecondCall
  <2>3. \E s : nomination' = [nomination EXCEPT ![handler[h].nomination].seconders = s]
    BY <2>1 DEF SecondCommit
  <2>4. nomination[handler[h].nomination] \in Present
    BY <1>0, <2>2
  <2>5. CASE n = handler[h].nomination
    <3>1. PICK s : nomination'[n] = [nomination[n] EXCEPT !.seconders = s]
      BY <1>0, <2>3, <2>5
    <3>. QED  BY <2>2, <2>4, <2>5, <3>1 DEF Present, Absent
  <2>6. CASE n # handler[h].nomination
    BY <1>0, <2>3, <2>6
  <2>. QED  BY <2>5, <2>6
<1>3. CASE nomination' = nomination
  BY <1>3
<1>. QED  BY <1>1, <1>2, <1>3, Writers DEF CreateElection

LEMMA NextPromotedOnce ==
  ASSUME VettingInv, [Next]_vars, NEW n \in Nominations
  PROVE  PromotedOnce(n)'
<1>1. /\ ElectionInv /\ PromotedOnce(n) /\ vetted \in [Nominations -> Nat]
      /\ nomination \in [Nominations -> {Absent} \cup Present]
  BY DEF VettingInv, ElectionInv, TypeOK
<1>2. CASE \A h \in Handlers : ~VetCommit(h)
  <2>1. /\ LinesFrom(n)' = LinesFrom(n) /\ vetted' = vetted
        /\ \A l \in LinesFrom(n) : options'[l[1]] = options[l[1]]
    BY <1>1, <1>2, OtherLines
  <2>2. nomination[n] = Absent => PromotedOnce(n)'
    BY <1>1, <1>2, <2>1, OtherNominations DEF PromotedOnce
  <2>3. ASSUME nomination[n] # Absent PROVE PromotedOnce(n)'
    <3>1. /\ nomination'[n] # Absent /\ nomination'[n].state = nomination[n].state
          /\ \A l \in LinesFrom(n) : LineIsOf(l, n) => LineIsOf(l, n)'
      BY <1>1, <1>2, <2>1, <2>3, OtherNominations DEF LineIsOf
    <3>2. vetted'[n] = vetted[n]
      BY <2>1
    <3>3. CASE vetted[n] = 1 /\ nomination[n].state = "APPROVED"
      <4>1. \E l : LinesFrom(n) = {l} /\ LineIsOf(l, n)
        BY <1>1, <3>3 DEF PromotedOnce
      <4>2. \E l : LinesFrom(n)' = {l} /\ LineIsOf(l, n)'
        BY <2>1, <3>1, <4>1
      <4>. QED  BY <3>1, <3>2, <3>3, <4>2 DEF PromotedOnce
    <3>4. CASE ~(vetted[n] = 1 /\ nomination[n].state = "APPROVED")
      BY <1>1, <2>1, <2>3, <3>1, <3>2, <3>4 DEF PromotedOnce
    <3>. QED  BY <3>3, <3>4
  <2>. QED  BY <2>2, <2>3
<1>3. ASSUME NEW h \in Handlers, VetCommit(h) PROVE PromotedOnce(n)'
  <2>1. PICK v \in Nominations : v = handler[h].nomination /\ nomination[v] # Absent
    BY <1>1, <1>3, CallTypes DEF VetCommit, ElectionInv, CallsStand, VetCall
  <2>2. PICK s \in {"APPROVED", "REJECTED"} : s = handler[h].state
    BY <1>1, <1>3, CallTypes DEF VetCommit, ElectionInv, VetCall
  <2>3. PICK e \in Elections : e = nomination[v].election
    BY <1>1, <2>1 DEF Present
  <2>4. PICK new : new = <<e, Len(options[e]) + 1>>
    OBVIOUS
  <2>5. /\ \A l \in LinesFrom(n) : options'[l[1]][l[2]] = options[l[1]][l[2]]
        /\ LinesFrom(n)' = IF n = v /\ s = "APPROVED"
                           THEN LinesFrom(n) \cup {new} ELSE LinesFrom(n)
        /\ s = "APPROVED" => options'[e][new[2]] = LineOf(v)
    BY <1>1, <1>3, <2>1, <2>2, <2>3, <2>4, VettedLines DEF Promotes
  <2>6. /\ nomination' = [nomination EXCEPT ![v].state = s]
        /\ vetted' = [vetted EXCEPT ![v] = @ + 1]
    BY <1>3, <2>1, <2>2 DEF VetCommit
  <2>7. CASE n # v
    <3>1. nomination'[n] = nomination[n] /\ vetted'[n] = vetted[n] /\ LinesFrom(n)' = LinesFrom(n)
      BY <1>1, <2>5, <2>6, <2>7
    <3>2. \A l \in LinesFrom(n) : LineIsOf(l, n) => LineIsOf(l, n)'
      BY <2>5, <3>1 DEF LineIsOf
    <3>. QED  BY <1>1, <3>1, <3>2 DEF PromotedOnce
  <2>8. CASE n = v
    <3>1. vetted'[n] = vetted[n] + 1 /\ vetted[n] \in Nat
      BY <1>1, <2>6, <2>8
    <3>2. /\ nomination'[n] # Absent /\ nomination'[n].state = s
          /\ nomination'[n].election = e /\ nomination'[n].nominee = nomination[n].nominee
      <4>1. nomination[n] \in Present /\ nomination'[n] = [nomination[n] EXCEPT !.state = s]
        BY <1>1, <2>1, <2>6, <2>8
      <4>. QED  BY <2>3, <2>8, <4>1 DEF Present, Absent
    <3>3. CASE vetted[n] = 0 /\ s = "APPROVED"
      <4>1. LinesFrom(n)' = {new}
        BY <1>1, <2>5, <2>8, <3>3 DEF PromotedOnce
      <4>2. LineIsOf(new, n)'
        BY <2>4, <2>5, <2>8, <3>2, <3>3 DEF LineIsOf, LineOf
      <4>. QED  BY <3>1, <3>2, <3>3, <4>1, <4>2 DEF PromotedOnce
    <3>4. CASE vetted[n] = 0 /\ s # "APPROVED"
      <4>1. LinesFrom(n)' = {}
        BY <1>1, <2>5, <3>4 DEF PromotedOnce
      <4>. QED  BY <3>1, <3>2, <3>4, <4>1 DEF PromotedOnce
    <3>5. CASE vetted[n] # 0
      <4>1. vetted'[n] # 0 /\ vetted'[n] # 1
        BY <3>1, <3>5
      <4>. QED  BY <3>2, <4>1 DEF PromotedOnce
    <3>. QED  BY <3>3, <3>4, <3>5
  <2>. QED  BY <2>7, <2>8
<1>. QED  BY <1>2, <1>3

\* A nomination decided once is on the ballot of its own election, once, if it
\* was approved, and on none if it was rejected or nobody has decided, however
\* the phases change and the decisions overlap (vetNomination).
THEOREM VettingPromotes == Spec => []VettingDecides
<1>1. Init => VettingInv
  <2>. SUFFICES ASSUME Init PROVE VettingInv
    OBVIOUS
  <2>1. ASSUME NEW n \in Nominations PROVE LinesFrom(n) = {}
    <3>1. \A e \in Elections : DOMAIN options[e] = {}
      BY EmptySeq DEF Init
    <3>. QED  BY <3>1, LinesFromDef
  <2>2. \A n \in Nominations : nomination[n] = Absent /\ vetted[n] = 0
    BY DEF Init
  <2>. QED  BY <2>1, <2>2, InitElectionInv DEF VettingInv, PromotedOnce
<1>2. VettingInv /\ [Next]_vars => VettingInv'
  BY NextElectionInv, NextPromotedOnce DEF VettingInv
<1>3. VettingInv => VettingDecides
  <2>. SUFFICES ASSUME VettingInv, NEW n \in Nominations, nomination[n] # Absent, vetted[n] <= 1
                PROVE  /\ Cardinality(LinesFrom(n)) =
                             IF nomination[n].state = "APPROVED" THEN 1 ELSE 0
                       /\ \A l \in LinesFrom(n) : LineIsOf(l, n)
    BY DEF VettingDecides, LineIsOf
  <2>1. PromotedOnce(n) /\ (vetted[n] = 0 \/ vetted[n] = 1)
    BY DEF VettingInv, ElectionInv, TypeOK
  <2>2. CASE LinesFrom(n) = {}
    <3>1. nomination[n].state # "APPROVED"
      BY <2>1, <2>2 DEF PromotedOnce
    <3>. QED  BY <2>2, <3>1, FS_EmptySet
  <2>3. CASE LinesFrom(n) # {}
    <3>1. nomination[n].state = "APPROVED" /\ \E l : LinesFrom(n) = {l} /\ LineIsOf(l, n)
      BY <2>1, <2>3 DEF PromotedOnce
    <3>. QED  BY <3>1, FS_Singleton
  <2>. QED  BY <2>2, <2>3
<1>. QED  BY <1>1, <1>2, <1>3, PTL DEF Spec
=============================================================================
