----------------------------- MODULE Elections ------------------------------
(***************************************************************************)
(* Elections (governance/governance.service.ts): nominations, their        *)
(* seconders and vetting, the ballot and the votes.                        *)
(*                                                                         *)
(* An administrator moves an election to any phase from any other.  What   *)
(* members do in a phase reads that phase and writes later, without a      *)
(* lock, so that a nomination, a second or a vote may arrive after its     *)
(* phase, and two of them may overlap.  A ballot row names no voter in an  *)
(* anonymous election; the model's ballots carry theirs as history.        *)
(* Definitions marked "mutant" are plausible bugs, as in Payouts.          *)
(***************************************************************************)
EXTENDS Integers, SequencesExt, FiniteSetsExt

CONSTANTS
    Elections,      \* ids of elections rows
    Members,
    Nominations,    \* ids of nominations rows
    Officer,        \* elections of type OFFICER; the others are on an issue
    Issues,         \* Issues[e]: how many issue options e is created with
    Requirements,   \* Requirements[e]: what a nominee must satisfy
    MaxCandidates,  \* bound: candidates listed when an election is created
    MaxMoves,       \* bound: phase changes
    MaxCalls,       \* bound: calls served, beside those of administrators
    MaxChanges,     \* bound: changes of what members satisfy
    Handlers

Qualities == {"tenure", "good standing", "no arrears"}
Phases == {"absent", "DRAFT", "NOMINATION", "VETTING", "ACTIVE", "COMPLETED", "CANCELLED"}

ASSUME ElectionsAssumption ==
    /\ IsFiniteSet(Members)
    /\ Officer \subseteq Elections /\ Issues \in [Elections -> Nat]
    /\ Requirements \in [Elections -> SUBSET Qualities]
    /\ MaxCandidates \in Nat /\ MaxMoves \in Nat /\ MaxCalls \in Nat /\ MaxChanges \in Nat

\* A handler that serves no call.
Idle == [op |-> "idle"]

VARIABLES
    phase,          \* phase[e]: the status of e
    options,        \* options[e]: nominees or issue_options rows of e
    nomination,     \* nomination[n]: the row, Absent before it is inserted
    registry,       \* voter_registries rows: pairs of an election and a member
    ballots,        \* anonymous_ballots and public_ballots rows
    satisfies,      \* satisfies[m]: which qualities m has now
    vetted,         \* history: vetted[n] decisions were taken on n
    handler,        \* handler[h]: the call it is serving, with what it read
    moves, calls, changes   \* for the bounds

votes == <<registry, ballots>>
counters == <<moves, calls, changes>>
vars == <<phase, options, nomination, votes, satisfies, vetted, handler, counters>>

Absent == [state |-> "absent"]
Present == [state : {"PENDING", "APPROVED", "REJECTED"}, election : Elections,
            nominee : Members, by : Members, seconders : SUBSET Members]
\* A line of the ballot: whom it is for, and the nomination it came from, if any.
Line == [member : SUBSET Members, from : SUBSET Nominations]
\* The id of a line: the election it belongs to and its place.
Lines == Elections \X (Nat \ {0})
Ballot == [election : Elections, voter : Members, line : Lines]

NominateCall == [op : {"nominate"}, election : Elections, nominee : Members, by : Members]
SecondCall == [op : {"second"}, nomination : Nominations, by : Members,
               seconders : SUBSET Members]
VetCall  == [op : {"vet"}, nomination : Nominations, state : {"APPROVED", "REJECTED"}]
VoteCall == [op : {"vote"}, election : Elections, by : Members, line : Lines]

Begin(h, call) ==
    /\ calls < MaxCalls                                     \* bound
    /\ calls' = calls + 1
    /\ handler[h] = Idle
    /\ handler' = [handler EXCEPT ![h] = call]
    /\ UNCHANGED <<phase, options, nomination, votes, satisfies, vetted, moves, changes>>
End(h) ==
    /\ handler' = [handler EXCEPT ![h] = Idle]
    /\ UNCHANGED <<phase, satisfies, counters>>
-----------------------------------------------------------------------------
(* The election itself. *)

\* createElection: with the issue options and the candidates that were listed,
\* whichever its type is.  A candidate is not asked to satisfy anything, and may
\* be listed twice.
CreateElection(e, listed) ==
    /\ phase[e] = "absent"
    /\ phase' = [phase EXCEPT ![e] = "DRAFT"]
    /\ options' = [options EXCEPT ![e] =
          [i \in 1..Issues[e] + Len(listed) |->
              [member |-> IF i <= Issues[e] THEN {} ELSE {listed[i - Issues[e]]},
               from |-> {}]]]
    /\ UNCHANGED <<nomination, votes, satisfies, vetted, handler, counters>>

\* transitionElectionStatus: to any phase, even back from a completed one.
Transition(e, p) ==
    /\ moves < MaxMoves                                     \* bound
    /\ moves' = moves + 1
    /\ phase[e] # "absent" /\ p # "absent"
    /\ phase' = [phase EXCEPT ![e] = p]
    /\ UNCHANGED <<options, nomination, votes, satisfies, vetted, handler, calls, changes>>
-----------------------------------------------------------------------------
(* Nominations. *)

\* createNomination: anybody names anybody who satisfies what is required.
NominateRead(h, m, e, x) ==
    /\ phase[e] = "NOMINATION"
    /\ Requirements[e] \subseteq satisfies[x]
    /\ Begin(h, [op |-> "nominate", election |-> e, nominee |-> x, by |-> m])

NominateCommit(h, n) ==
    LET call == handler[h] IN
    /\ call.op = "nominate"
    /\ nomination[n] = Absent
    /\ nomination' = [nomination EXCEPT ![n] = [state |-> "PENDING",
          election |-> call.election, nominee |-> call.nominee, by |-> call.by,
          seconders |-> {}]]
    /\ End(h)
    /\ UNCHANGED <<options, votes, vetted>>

\* secondNomination: the list of seconders is read, and written whole.
SecondRead(h, m, n) ==
    /\ nomination[n] # Absent
    /\ phase[nomination[n].election] = "NOMINATION"
    /\ m \notin nomination[n].seconders
    /\ Begin(h, [op |-> "second", nomination |-> n, by |-> m,
                 seconders |-> nomination[n].seconders])

SecondCommit(h) ==
    LET call == handler[h] IN
    /\ call.op = "second"
    /\ nomination' = [nomination EXCEPT ![call.nomination].seconders =
                         call.seconders \cup {call.by}]
    /\ End(h)
    /\ UNCHANGED <<options, votes, vetted>>

\* vetNomination: also of one decided before; how many seconded is not asked.
VetRead(h, n, s) ==
    /\ nomination[n] # Absent
    /\ phase[nomination[n].election] = "VETTING"
    /\ Begin(h, [op |-> "vet", nomination |-> n, state |-> s])

AnyDecision(s) == TRUE                                              \* mutant
Promotes(s) == s = "APPROVED"

LineBy(n) ==                                                        \* mutant
    [member |-> {nomination[n].nominee}, from |-> {nomination[n].by}]
LineOf(n) == [member |-> {nomination[n].nominee}, from |-> {n}]

VetCommit(h) ==
    LET n == handler[h].nomination
        s == handler[h].state
    IN
    /\ handler[h].op = "vet"
    /\ nomination' = [nomination EXCEPT ![n].state = s]
    /\ options' = [options EXCEPT ![nomination[n].election] =
                      IF Promotes(s) THEN Append(@, LineOf(n)) ELSE @]
    /\ vetted' = [vetted EXCEPT ![n] = @ + 1]
    /\ End(h)
    /\ UNCHANGED votes
-----------------------------------------------------------------------------
(* Votes. *)

\* A candidate of an officers' election, an option of one on an issue.
OnBallot(e, line) ==
    /\ line[1] = e /\ line[2] \in DOMAIN options[e]
    /\ e \in Officer <=> options[e][line[2]].member # {}

\* castVote: any member, whatever his standing.
VoteRead(h, m, e, line) ==
    /\ phase[e] = "ACTIVE"
    /\ <<e, m>> \notin registry
    /\ OnBallot(e, line)
    /\ Begin(h, [op |-> "vote", election |-> e, by |-> m, line |-> line])

\* The unique key of voter_registries stops a second insert.
NoUniqueKey(e, m) == TRUE                                           \* mutant
RegistryTakes(e, m) == <<e, m>> \notin registry

VoteCommit(h) ==
    LET call == handler[h] IN
    /\ call.op = "vote"
    /\ RegistryTakes(call.election, call.by)
    /\ registry' = registry \cup {<<call.election, call.by>>}
    /\ ballots' = ballots \cup
          {[election |-> call.election, voter |-> call.by, line |-> call.line]}
    /\ End(h)
    /\ UNCHANGED <<options, nomination, vetted>>

VoteLost(h) ==
    /\ handler[h].op = "vote"
    /\ ~RegistryTakes(handler[h].election, handler[h].by)
    /\ End(h)
    /\ UNCHANGED <<options, nomination, votes, vetted>>
-----------------------------------------------------------------------------
(* The result: getElectionResults. *)

\* The turnout counts the registry, each line's result its ballots.
Turnout(e) == {m \in Members : <<e, m>> \in registry}
VotesFor(e, i) == {b \in ballots : b.election = e /\ b.line = <<e, i>>}
-----------------------------------------------------------------------------
\* Members gain and lose what nominees must satisfy; tenure is only gained.
MemberChanges(m, q) ==
    /\ changes < MaxChanges                                 \* bound
    /\ changes' = changes + 1
    /\ q = "tenure" => q \notin satisfies[m]
    /\ satisfies' = [satisfies EXCEPT ![m] = IF q \in @ THEN @ \ {q} ELSE @ \cup {q}]
    /\ UNCHANGED <<phase, options, nomination, votes, vetted, handler, moves, calls>>

Init ==
    /\ phase = [e \in Elections |-> "absent"]
    /\ options = [e \in Elections |-> <<>>]
    /\ nomination = [n \in Nominations |-> Absent]
    /\ registry = {} /\ ballots = {}
    /\ satisfies = [m \in Members |-> Qualities]
    /\ vetted = [n \in Nominations |-> 0]
    /\ handler = [h \in Handlers |-> Idle]
    /\ moves = 0 /\ calls = 0 /\ changes = 0

Next ==
    \/ \E e \in Elections :
          \/ \E listed \in SeqOf(Members, MaxCandidates) : CreateElection(e, listed)
          \/ \E p \in Phases : Transition(e, p)
    \/ \E m \in Members, q \in Qualities : MemberChanges(m, q)
    \/ \E h \in Handlers :
          \/ \E m \in Members, e \in Elections :
                \/ \E x \in Members : NominateRead(h, m, e, x)
                \/ \E f \in Elections : \E i \in DOMAIN options[f] : VoteRead(h, m, e, <<f, i>>)
          \/ \E n \in Nominations :
                \/ NominateCommit(h, n)
                \/ \E m \in Members : SecondRead(h, m, n)
                \/ \E s \in {"APPROVED", "REJECTED"} : VetRead(h, n, s)
          \/ SecondCommit(h) \/ VetCommit(h) \/ VoteCommit(h) \/ VoteLost(h)

Spec == Init /\ [][Next]_vars
-----------------------------------------------------------------------------
TypeOK ==
    /\ phase \in [Elections -> Phases]
    /\ options \in [Elections -> Seq(Line)]
    /\ nomination \in [Nominations -> {Absent} \cup Present]
    /\ registry \subseteq Elections \X Members
    /\ ballots \subseteq Ballot
    /\ satisfies \in [Members -> SUBSET Qualities]
    /\ vetted \in [Nominations -> Nat]
    /\ handler \in [Handlers -> {Idle} \cup NominateCall \cup SecondCall \cup VetCall
                                \cup VoteCall]
    /\ moves \in Nat /\ calls \in Nat /\ changes \in Nat

\* The result adds up, whichever votes overlap and however often the ballot or
\* the phase changes: each member of the turnout cast one ballot, nobody else
\* did, and every ballot counts for a line of its election's ballot.
OneBallotEach ==
    \A e \in Elections :
        LET cast == {b \in ballots : b.election = e} IN
        /\ {b.voter : b \in cast} = Turnout(e)
        /\ \A b, c \in cast : b.voter = c.voter => b = c
        /\ cast = UNION {VotesFor(e, i) : i \in DOMAIN options[e]}

LinesFrom(n) ==
    UNION {{e} \X {i \in DOMAIN options[e] : n \in options[e][i].from} : e \in Elections}

\* "Automatically promote approved nomination to Nominee ballot candidate": a
\* nomination decided once is on the ballot, of its own election and once, if
\* it was approved, and is not if it was rejected or nobody has decided.
VettingDecides ==
    \A n \in Nominations : nomination[n] # Absent /\ vetted[n] <= 1 =>
        /\ Cardinality(LinesFrom(n)) = IF nomination[n].state = "APPROVED" THEN 1 ELSE 0
        /\ \A l \in LinesFrom(n) :
              /\ l[1] = nomination[n].election
              /\ options[l[1]][l[2]].member = {nomination[n].nominee}
=============================================================================
