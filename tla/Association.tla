---------------------------- MODULE Association -----------------------------
(***************************************************************************)
(* Members, roles and officers: status changes and removals                *)
(* (membership/membership.service.ts), role assignments (rbac/             *)
(* rbac.service.ts) and appointments to a governance body (governance/     *)
(* governance.service.ts).                                                 *)
(*                                                                         *)
(* Every operation is an administrator's.  It runs in three steps: the     *)
(* permission check, in a transaction of its own (common/access.util.ts);  *)
(* the reads, none of which locks; and the writes.  Two calls interleave   *)
(* at these points, so one may act on a permission, a removal request or   *)
(* a term that is no longer there.                                         *)
(* Definitions marked "mutant" are plausible bugs, as in Payouts.          *)
(***************************************************************************)
EXTENDS Integers, SequencesExt, FiniteSetsExt

CONSTANTS
    Members,
    Founders,       \* members who hold Org Admin at first
    Standings,      \* member statuses
    Roles,          \* roles granted by assignRole
    Seats,          \* governance bodies, each with the role of its officer
    Wildcard,       \* grants whose role has the permission (*, *, organisation)
    MaxTerms,       \* MaxTerms[s]: maxConsecutiveTerms of the body, if it has one
    CoolingOff,     \* CoolingOff[s]: coolingOffPeriodMonths, in days
    TermEnds,       \* ends of term that an administrator asks for, or {}
    Requests,       \* ids of member_removal_requests rows
    MaxDay,         \* bound: last day of the calendar
    MaxCalls,       \* bound: calls served
    Handlers

ASSUME AssociationAssumption ==
    /\ Founders \subseteq Members /\ IsFiniteSet(Founders)
    /\ Roles \cap Seats = {} /\ Wildcard \subseteq Roles \cup Seats
    /\ "Org Admin" \in Roles \cap Wildcard
    /\ {"ACTIVE", "EXITED"} \subseteq Standings
    /\ MaxTerms \in [Seats -> SUBSET Nat] /\ CoolingOff \in [Seats -> Nat]
    /\ TermEnds \subseteq SUBSET (0..MaxDay)
    /\ MaxDay \in Nat /\ MaxCalls \in Nat

\* A handler that serves no call.
Idle == [op |-> "idle"]

VARIABLES
    makerChecker,   \* makerCheckerEnabled of the organisation
    status,         \* status[m]
    trail,          \* trail[m]: m's MemberStatusChange rows, oldest first
    request,        \* request[q]: the removal request, Absent before it is made
    assigned,       \* role_assignments rows, oldest first
    day,            \* today
    vacated,        \* history: vacated[m] rows of assigned existed when m last left
    contested,      \* history: requests and seats two calls were about at once
    handler,        \* handler[h]: the call it is serving, with what it read
    calls           \* calls begun so far

rows == <<status, trail, request, assigned>>
vars == <<makerChecker, rows, day, vacated, contested, handler, calls>>

Days == 0..MaxDay
Left == {"EXITED", "DECEASED"}
Absent == [state |-> "absent"]
Present == [state : {"PENDING", "CONFIRMED", "CANCELLED"}, member : Members, by : Members,
            confirmedBy : SUBSET Members, cancelledBy : SUBSET Members]
Change == [by : Members, from : Standings, to : Standings]
Assignment == [member : Members, grant : Roles \cup Seats, start : Days, end : SUBSET Days]

\* A call: what it does, by whom, about what (on), and after its reads the
\* standing or the time that it read (seen, at).
Phases == {"authorised", "read"}
StatusCall == [op : {"status"}, by : Members, to : Standings, on : Members,
               phase : Phases, seen : SUBSET Standings]
RemovalCall == [op : {"confirm", "cancel"}, by : Members, on : Requests,
                phase : Phases, seen : SUBSET Standings]
GrantCall  == [op : {"grant"}, member : Members, by : Members, end : TermEnds,
               on : Roles \cup Seats, phase : Phases]
RevokeCall == [op : {"revoke"}, by : Members, on : Nat, phase : Phases, at : Days]
-----------------------------------------------------------------------------
(* Permissions: RbacService. *)

InForce(a) == a.start <= day /\ \A e \in a.end : e > day

HasWildcard(m) ==
    \E i \in DOMAIN assigned :
        /\ assigned[i].member = m /\ InForce(assigned[i])
        /\ assigned[i].grant \in Wildcard

\* What a history of overlapping calls is kept for: requests and seats.
About(call) == CASE call.op \in {"confirm", "cancel"} -> {call.on}
                 [] call.op = "grant" -> {call.on} \cap Seats
                 [] call.op = "revoke" -> {assigned[call.on].grant} \cap Seats
                 [] OTHER -> {}

\* requireAdmin precedes the operation, in a transaction of its own.
Authorise(h, call) ==
    /\ calls < MaxCalls                                     \* bound
    /\ calls' = calls + 1
    /\ handler[h] = Idle
    /\ HasWildcard(call.by)
    /\ handler' = [handler EXCEPT ![h] = call]
    /\ contested' = IF \E g \in Handlers : About(handler[g]) \cap About(call) # {}
                    THEN contested \cup About(call) ELSE contested
    /\ UNCHANGED <<makerChecker, rows, day, vacated>>

Serving(h, op, phase) == handler[h].op = op /\ handler[h].phase = phase
Reads(h, call) ==
    /\ handler' = [handler EXCEPT ![h] = call]
    /\ UNCHANGED <<makerChecker, rows, day, vacated, contested, calls>>
End(h) ==
    /\ handler' = [handler EXCEPT ![h] = Idle]
    /\ UNCHANGED <<makerChecker, day, contested, calls>>
-----------------------------------------------------------------------------
(* Status changes and removals: MembershipService. *)

\* The terms that end with their holder's membership: seats, not plain roles,
\* and those with a set end as well as those without.
OpenEnded(a, m) ==                                                  \* mutant
    a.member = m /\ a.grant \in Seats /\ a.end = {}
Vacates(a, m) == a.member = m /\ a.grant \in Seats /\ InForce(a)

\* applyStatus: the status, a row of the trail, and the seats of one who left.
ApplyStatus(m, from, to, by) ==
    /\ status' = [status EXCEPT ![m] = to]
    /\ trail' = [trail EXCEPT ![m] = Append(@, [by |-> by, from |-> from, to |-> to])]
    /\ assigned' = [i \in DOMAIN assigned |->
                       IF to \in Left /\ Vacates(assigned[i], m)
                       THEN [assigned[i] EXCEPT !.end = {day}] ELSE assigned[i]]
    /\ vacated' = IF to \in Left THEN [vacated EXCEPT ![m] = Len(assigned)] ELSE vacated

\* changeStatus: nobody removes himself.
ChangeStatus(h, a, m, s) ==
    /\ s = "EXITED" => a # m
    /\ Authorise(h, [op |-> "status", by |-> a, to |-> s, on |-> m,
                     phase |-> "authorised", seen |-> {}])

\* With maker-checker a removal is only requested, whatever other requests
\* there are.
RequestRemoval(h, q) ==
    LET call == handler[h] IN
    /\ Serving(h, "status", "authorised")
    /\ call.to = "EXITED" /\ makerChecker
    /\ request[q] = Absent
    /\ request' = [request EXCEPT ![q] = [state |-> "PENDING", member |-> call.on,
          by |-> call.by, confirmedBy |-> {}, cancelledBy |-> {}]]
    /\ End(h)
    /\ UNCHANGED <<status, trail, assigned, vacated>>

StatusRead(h) ==
    /\ Serving(h, "status", "authorised")
    /\ ~(handler[h].to = "EXITED" /\ makerChecker)
    /\ Reads(h, [handler[h] EXCEPT !.phase = "read", !.seen = {status[handler[h].on]}])

StatusCommit(h) ==
    LET call == handler[h] IN
    /\ Serving(h, "status", "read")
    /\ \E from \in call.seen : ApplyStatus(call.on, from, call.to, call.by)
    /\ End(h)
    /\ UNCHANGED request

Resolve(h, a, q, op) ==
    /\ request[q] # Absent
    /\ Authorise(h, [op |-> op, by |-> a, on |-> q, phase |-> "authorised", seen |-> {}])

\* confirmRemoval: another administrator than the one who asked; the member
\* himself, if he is one, may be that other.
Anyone(q, a) == TRUE                                                \* mutant
MayConfirm(q, a) == request[q].by # a

ConfirmRead(h) ==
    LET q == handler[h].on IN
    /\ Serving(h, "confirm", "authorised")
    /\ request[q].state = "PENDING" /\ MayConfirm(q, handler[h].by)
    /\ Reads(h, [handler[h] EXCEPT !.phase = "read", !.seen = {status[request[q].member]}])

ConfirmCommit(h) ==
    LET q == handler[h].on IN
    /\ Serving(h, "confirm", "read")
    /\ \E from \in handler[h].seen :
          ApplyStatus(request[q].member, from, "EXITED", handler[h].by)
    /\ request' = [request EXCEPT ![q].state = "CONFIRMED",
                                  ![q].confirmedBy = {handler[h].by}]
    /\ End(h)

\* cancelRemoval: any administrator.
CancelRead(h) ==
    /\ Serving(h, "cancel", "authorised")
    /\ request[handler[h].on].state = "PENDING"
    /\ Reads(h, [handler[h] EXCEPT !.phase = "read"])

CancelCommit(h) ==
    LET q == handler[h].on IN
    /\ Serving(h, "cancel", "read")
    /\ request' = [request EXCEPT ![q].state = "CANCELLED",
                                  ![q].cancelledBy = {handler[h].by}]
    /\ End(h)
    /\ UNCHANGED <<status, trail, assigned, vacated>>
-----------------------------------------------------------------------------
(* Role assignments: RbacService, and GovernanceService.appointOfficer. *)

Grant(h, a, m, g, e) ==
    Authorise(h, [op |-> "grant", member |-> m, by |-> a, end |-> e, on |-> g,
                  phase |-> "authorised"])

\* The terms of a seat, by their rows, walked newest first as long as they are m's.
TermsOf(s) == {i \in DOMAIN assigned : assigned[i].grant = s}
IsNewest(i, terms) == i \in terms /\ \A j \in terms : j <= i
Consecutive(terms, m) ==
    Cardinality({i \in terms : \A j \in terms : i <= j => assigned[j].member = m})

\* The newest term tells when he may serve again; one without an end never does.
NoCooling(s, term) == TRUE                                          \* mutant
HasCooledOff(s, term) == \E e \in term.end : e + CoolingOff[s] <= day

MayServe(s, m) ==
    \A max \in MaxTerms[s] : Consecutive(TermsOf(s), m) >= max =>
        \E i \in TermsOf(s) : /\ IsNewest(i, TermsOf(s)) /\ assigned[i].member = m
                              /\ HasCooledOff(s, assigned[i])

\* appointOfficer looks at the terms; assignRole at nothing.
GrantRead(h) ==
    /\ Serving(h, "grant", "authorised")
    /\ handler[h].on \in Seats => MayServe(handler[h].on, handler[h].member)
    /\ Reads(h, [handler[h] EXCEPT !.phase = "read"])

\* A term starts when its row is inserted, and may end at once.
GrantCommit(h) ==
    LET call == handler[h] IN
    /\ Serving(h, "grant", "read")
    /\ assigned' = Append(assigned, [member |-> call.member, grant |-> call.on,
                                     start |-> day, end |-> call.end])
    /\ End(h)
    /\ UNCHANGED <<status, trail, request, vacated>>

Revoke(h, a, i) ==
    Authorise(h, [op |-> "revoke", by |-> a, on |-> i, phase |-> "authorised", at |-> day])

\* revokeAssignment: one that has not ended, be it the last administrator's.
RevokeRead(h) ==
    LET call == handler[h] IN
    /\ Serving(h, "revoke", "authorised")
    /\ InForce(assigned[call.on])
    /\ Reads(h, [call EXCEPT !.phase = "read", !.at = day])

NextMidnight(d) == {d + 1}                                          \* mutant
EndsAt(d) == {d}

RevokeCommit(h) ==
    LET call == handler[h] IN
    /\ Serving(h, "revoke", "read")
    /\ assigned' = [assigned EXCEPT ![call.on].end = EndsAt(call.at)]
    /\ End(h)
    /\ UNCHANGED <<status, trail, request, vacated>>

\* A call whose checks fail ends without an effect.
Refused(h) ==
    LET call == handler[h] IN
    /\ call # Idle /\ call.phase = "authorised"
    /\ \/ /\ call.op \in {"confirm", "cancel"}
          /\ request[call.on].state # "PENDING"
       \/ call.op = "confirm" /\ ~MayConfirm(call.on, call.by)
       \/ call.op = "grant" /\ call.on \in Seats /\ ~MayServe(call.on, call.member)
       \/ call.op = "revoke" /\ ~InForce(assigned[call.on])
    /\ End(h)
    /\ UNCHANGED <<rows, vacated>>
-----------------------------------------------------------------------------
NextDay ==
    /\ day < MaxDay
    /\ day' = day + 1
    /\ UNCHANGED <<makerChecker, rows, vacated, contested, handler, calls>>

\* Members in good standing, founders with their grant.
Init ==
    /\ makerChecker \in BOOLEAN
    /\ status = [m \in Members |-> "ACTIVE"]
    /\ trail = [m \in Members |-> <<>>]
    /\ request = [q \in Requests |-> Absent]
    /\ assigned = SetToSeq({[member |-> m, grant |-> "Org Admin", start |-> 0, end |-> {}] :
                            m \in Founders})
    /\ day = 0 /\ vacated = [m \in Members |-> 0]
    /\ contested = {} /\ handler = [h \in Handlers |-> Idle] /\ calls = 0

Next ==
    \/ NextDay
    \/ \E h \in Handlers :
          \/ \E a \in Members :
                \/ \E m \in Members, s \in Standings : ChangeStatus(h, a, m, s)
                \/ \E q \in Requests, op \in {"confirm", "cancel"} : Resolve(h, a, q, op)
                \/ \E m \in Members, g \in Roles \cup Seats, e \in TermEnds : Grant(h, a, m, g, e)
                \/ \E i \in DOMAIN assigned : Revoke(h, a, i)
          \/ \E q \in Requests : RequestRemoval(h, q)
          \/ StatusRead(h) \/ StatusCommit(h) \/ ConfirmRead(h) \/ ConfirmCommit(h)
          \/ CancelRead(h) \/ CancelCommit(h) \/ GrantRead(h) \/ GrantCommit(h)
          \/ RevokeRead(h) \/ RevokeCommit(h) \/ Refused(h)

Spec == Init /\ [][Next]_vars
-----------------------------------------------------------------------------
TypeOK ==
    /\ makerChecker \in BOOLEAN /\ status \in [Members -> Standings]
    /\ trail \in [Members -> Seq(Change)]
    /\ request \in [Requests -> {Absent} \cup Present]
    /\ assigned \in Seq(Assignment)
    /\ day \in Days /\ vacated \in [Members -> Nat] /\ calls \in Nat
    /\ contested \subseteq Requests \cup Seats
    /\ handler \in [Handlers -> {Idle} \cup StatusCall \cup RemovalCall \cup GrantCall
                                \cup RevokeCall]

RequestsAbout(m) == {q \in Requests : request[q] # Absent /\ request[q].member = m}
Removals(m) == {i \in DOMAIN trail[m] : trail[m][i].to = "EXITED"}

\* "A different admin than the requester signs off, and only then does the
\* member actually become EXITED" (membership.service.ts): with maker-checker
\* every removal on a member's trail answers a request that another
\* administrator made, and he has as many as there are confirmed requests,
\* unless two calls were about one of them at once.  Nobody asked for his own.
RemovedByTwo ==
    \A m \in Members :
        /\ \A q \in RequestsAbout(m) : request[q].by # m
        /\ makerChecker =>
              /\ \A i \in Removals(m) : \E q \in RequestsAbout(m) :
                    request[q].by # trail[m][i].by
              /\ RequestsAbout(m) \cap contested = {} =>
                    Cardinality(Removals(m)) =
                       Cardinality({q \in RequestsAbout(m) : request[q].state = "CONFIRMED"})

\* "Auto-flag a role as vacant when its holder's membership status changes to
\* Exited or Deceased" (FR-GOV-02): no seat that was given before its holder
\* left is in force afterwards, whatever calls were in progress then and even
\* if he comes back.
VacatedOnExit ==
    \A m \in Members : \A i \in 1..vacated[m] :
        assigned[i].member = m /\ assigned[i].grant \in Seats => ~InForce(assigned[i])

\* "Term limits + cooling-off": nobody serves a term beyond the body's limit of
\* consecutive ones unless his last had ended, and the cooling-off period had
\* passed, when it started; or two calls about the seat were served at once.
TermLimitKept ==
    \A s \in Seats \ contested : \A i \in TermsOf(s) : \A max \in MaxTerms[s] :
        LET before == {j \in TermsOf(s) : j < i}
        IN  Consecutive(before, assigned[i].member) >= max =>
                \E k \in before :
                    /\ IsNewest(k, before) /\ assigned[k].member = assigned[i].member
                    /\ \E e \in assigned[k].end : e + CoolingOff[s] <= assigned[i].start
=============================================================================
