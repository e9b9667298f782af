-------------------------- MODULE AssociationProofs --------------------------
(***************************************************************************)
(* Theorems about Association: its type invariant, that a removal is the   *)
(* work of two administrators, that whoever leaves gives up his seats, and *)
(* that nobody serves beyond a body's term limit.                          *)
(*                                                                         *)
(* What a call checked is made to last until it commits: a removal request *)
(* that was pending still is, a member who might serve still may, a term   *)
(* that was in force has not ended before the day it was read; unless two  *)
(* calls were about the request or the seat at once, which the history     *)
(* records.  A step changes at most the end of a row of assigned, or adds  *)
(* one row to it (RowsStep), and each argument about terms starts there.   *)
(***************************************************************************)
EXTENDS Association, FiniteSetTheorems, SequenceTheorems, TLAPS

Calls == {Idle} \cup StatusCall \cup RemovalCall \cup GrantCall \cup RevokeCall

\* Calls are about requests that were made and rows that were inserted.
OnRecord ==
    \A h \in Handlers :
        /\ handler[h].op \in {"confirm", "cancel"} => request[handler[h].on] # Absent
        /\ handler[h].op = "revoke" => handler[h].on \in DOMAIN assigned

TypeInv == TypeOK /\ OnRecord

\* What a handler is serving, by the name of its operation.
LEMMA CallByOp ==
  ASSUME TypeOK, NEW h \in Handlers
  PROVE  /\ handler[h] \in Calls
         /\ handler[h].op = "status" => handler[h] \in StatusCall
         /\ handler[h].op \in {"confirm", "cancel"} => handler[h] \in RemovalCall
         /\ handler[h].op = "grant" => handler[h] \in GrantCall
         /\ handler[h].op = "revoke" => handler[h] \in RevokeCall
<1>1. handler[h] \in Calls
  BY DEF TypeOK, Calls
<1>. QED  BY <1>1 DEF Calls, Idle, StatusCall, RemovalCall, GrantCall, RevokeCall

\* What is assumed of the constants, one at a time.
LEMMA Assumed ==
  /\ Founders \subseteq Members /\ IsFiniteSet(Founders) /\ Roles \cap Seats = {}
  /\ "Org Admin" \in Roles /\ "ACTIVE" \in Standings /\ "EXITED" \in Standings
  /\ MaxDay \in Nat /\ 0 \in Days /\ Days \subseteq Nat /\ TermEnds \subseteq SUBSET Days
  /\ CoolingOff \in [Seats -> Nat]
<1>1. MaxDay \in Nat
  BY AssociationAssumption
<1>2. 0 \in Days /\ Days \subseteq Nat
  BY <1>1 DEF Days
<1>3. TermEnds \subseteq SUBSET Days
  BY AssociationAssumption DEF Days
<1>4. "Org Admin" \in Roles /\ "ACTIVE" \in Standings /\ "EXITED" \in Standings
  BY AssociationAssumption
<1>5. /\ Founders \subseteq Members /\ IsFiniteSet(Founders) /\ Roles \cap Seats = {}
      /\ CoolingOff \in [Seats -> Nat]
  BY AssociationAssumption
<1>. QED  BY <1>1, <1>2, <1>3, <1>4, <1>5

\* assigned is a sequence of rows.
LEMMA RowsType ==
  ASSUME TypeOK
  PROVE  /\ Len(assigned) \in Nat /\ DOMAIN assigned = 1..Len(assigned)
         /\ assigned \in [1..Len(assigned) -> Assignment]
         /\ \A i \in DOMAIN assigned : assigned[i] \in Assignment
         /\ day \in Nat /\ MaxDay \in Nat /\ Days \subseteq Nat
<1>1. assigned \in Seq(Assignment)
  BY DEF TypeOK
<1>2. /\ Len(assigned) \in Nat /\ DOMAIN assigned = 1..Len(assigned)
      /\ assigned \in [1..Len(assigned) -> Assignment]
  BY <1>1, LenProperties
<1>3. MaxDay \in Nat /\ Days \subseteq Nat /\ day \in Days
  BY Assumed DEF TypeOK
<1>. QED  BY <1>2, <1>3

LEMMA AboutType ==
  ASSUME TypeOK, NEW call \in Calls
  PROVE  /\ About(call) \subseteq Requests \cup Seats
         /\ call.op \in {"confirm", "cancel"} => About(call) = {call.on}
         /\ call.op = "grant" => About(call) = {call.on} \cap Seats
         /\ call.op = "revoke" => About(call) = {assigned[call.on].grant} \cap Seats
         /\ call.op \notin {"confirm", "cancel", "grant", "revoke"} => About(call) = {}
<1>1. CASE call.op \in {"confirm", "cancel"}
  BY <1>1 DEF Calls, Idle, StatusCall, RemovalCall, GrantCall, RevokeCall, About
<1>2. CASE call.op = "grant"
  BY <1>2 DEF About
<1>3. CASE call.op = "revoke"
  BY <1>3 DEF About
<1>4. CASE call.op \notin {"confirm", "cancel", "grant", "revoke"}
  BY <1>4 DEF About
<1>. QED  BY <1>1, <1>2, <1>3, <1>4
-----------------------------------------------------------------------------
(* Types. *)

\* A finite set is listed in some order.
LEMMA ListOf ==
  ASSUME NEW S, NEW T, S \subseteq T, IsFiniteSet(S)
  PROVE  /\ SetToSeq(S) \in Seq(T) /\ Len(SetToSeq(S)) = Cardinality(S)
         /\ \A i \in DOMAIN SetToSeq(S) : SetToSeq(S)[i] \in S
<1>1. Cardinality(S) \in Nat /\ ExistsBijection(1..Cardinality(S), S)
  BY FS_CardinalityType
<1>2. \E f \in [1..Cardinality(S) -> S] : IsInjective(f)
  BY <1>1 DEF ExistsBijection, Bijection, Injection
<1>3. SetToSeq(S) \in [1..Cardinality(S) -> S]
  BY <1>2 DEF SetToSeq
<1>. QED  BY <1>1, <1>3, SeqDef

\* The founders' grants are finitely many.
FirstGrants == {[member |-> m, grant |-> "Org Admin", start |-> 0, end |-> {}] : m \in Founders}

LEMMA FirstRows ==
  ASSUME Init
  PROVE  /\ assigned \in Seq(Assignment)
         /\ \A i \in DOMAIN assigned : assigned[i].start = 0 /\ assigned[i].grant \in Roles
<1>. DEFINE First(m) == [member |-> m, grant |-> "Org Admin", start |-> 0, end |-> {}]
            f == [m \in Founders |-> First(m)]
<1>1. FirstGrants \subseteq Assignment
  <2>1. ASSUME NEW m \in Founders PROVE First(m) \in Assignment
    BY Assumed DEF Assignment
  <2>. QED  BY <2>1 DEF FirstGrants
<1>2. IsFiniteSet(FirstGrants)
  <2>1. f \in Bijection(Founders, FirstGrants)
    <3>1. f \in [Founders -> FirstGrants] /\ IsInjective(f)
      BY DEF IsInjective, FirstGrants
    <3>2. \A t \in FirstGrants : \E s \in Founders : f[s] = t
      BY DEF FirstGrants
    <3>. QED  BY <3>1, <3>2 DEF Bijection, Injection, Surjection
  <2>2. ExistsBijection(Founders, FirstGrants)
    BY <2>1 DEF ExistsBijection
  <2>. QED  BY <2>2, Assumed, FS_Bijection
<1>3. assigned = SetToSeq(FirstGrants)
  BY DEF Init, FirstGrants
<1>4. \A r \in FirstGrants : r.start = 0 /\ r.grant \in Roles
  <2>1. \A m \in Founders : First(m).start = 0 /\ First(m).grant \in Roles
    BY Assumed
  <2>2. \A r \in FirstGrants : \E m \in Founders : r = First(m)
    BY DEF FirstGrants
  <2>. HIDE DEF First
  <2>. QED  BY <2>1, <2>2
<1>. QED  BY <1>1, <1>2, <1>3, <1>4, ListOf

LEMMA InitTypeInv == Init => TypeInv
<1>. SUFFICES ASSUME Init PROVE TypeInv
  OBVIOUS
<1>3. assigned \in Seq(Assignment)
  BY FirstRows
<1>4. trail \in [Members -> Seq(Change)]
  <2>1. trail = [m \in Members |-> <<>>]
    BY DEF Init
  <2>. QED  BY <2>1, EmptySeq
<1>5. status \in [Members -> Standings] /\ day \in Days
  BY Assumed DEF Init
<1>6. TypeOK
  BY <1>3, <1>4, <1>5 DEF Init, TypeOK
<1>7. OnRecord
  BY DEF Init, OnRecord, Idle
<1>. QED  BY <1>6, <1>7 DEF TypeInv

LEMMA AuthoriseType ==
  ASSUME TypeInv, NEW h \in Handlers, NEW call \in Calls, Authorise(h, call),
         call.op \in {"confirm", "cancel"} => request[call.on] # Absent,
         call.op = "revoke" => call.on \in DOMAIN assigned
  PROVE  TypeInv'
<1>1. \A g \in Handlers : handler'[g] = IF g = h THEN call ELSE handler[g]
  BY DEF Authorise, TypeInv, TypeOK
<1>2. handler' \in [Handlers -> {Idle} \cup StatusCall \cup RemovalCall \cup GrantCall
                                \cup RevokeCall]
  BY DEF Authorise, TypeInv, TypeOK, Calls
<1>3. contested' \subseteq Requests \cup Seats
  BY AboutType DEF Authorise, TypeInv, TypeOK
<1>4. UNCHANGED <<makerChecker, status, trail, request, assigned, day, vacated>> /\ calls' \in Nat
  BY DEF Authorise, rows, TypeInv, TypeOK
<1>5. TypeOK'
  BY <1>2, <1>3, <1>4 DEF TypeInv, TypeOK
<1>6. OnRecord'
  BY <1>1, <1>4 DEF TypeInv, OnRecord
<1>. QED  BY <1>5, <1>6 DEF TypeInv

\* A call reads: it stays about what it was about.
LEMMA ReadsType ==
  ASSUME TypeInv, NEW h \in Handlers, NEW call \in Calls, Reads(h, call),
         call.op = handler[h].op, call.op # "status" => call.on = handler[h].on
  PROVE  TypeInv'
<1>1. \A g \in Handlers : handler'[g] = IF g = h THEN call ELSE handler[g]
  BY DEF Reads, TypeInv, TypeOK
<1>2. handler' \in [Handlers -> {Idle} \cup StatusCall \cup RemovalCall \cup GrantCall
                                \cup RevokeCall]
  BY DEF Reads, TypeInv, TypeOK, Calls
<1>3. UNCHANGED <<makerChecker, status, trail, request, assigned, day, vacated, contested, calls>>
  BY DEF Reads, rows
<1>4. TypeOK'
  BY <1>2, <1>3 DEF TypeInv, TypeOK
<1>5. OnRecord'
  BY <1>1, <1>3 DEF TypeInv, OnRecord
<1>. QED  BY <1>4, <1>5 DEF TypeInv

\* A call ends: requests stay made and rows stay there.
LEMMA EndType ==
  ASSUME TypeInv, NEW h \in Handlers, End(h),
         status' \in [Members -> Standings], trail' \in [Members -> Seq(Change)],
         request' \in [Requests -> {Absent} \cup Present], assigned' \in Seq(Assignment),
         vacated' \in [Members -> Nat], DOMAIN assigned \subseteq DOMAIN assigned',
         \A q \in Requests : request[q] # Absent => request'[q] # Absent
  PROVE  TypeInv'
<1>1. \A g \in Handlers : handler'[g] = IF g = h THEN Idle ELSE handler[g]
  BY DEF End, TypeInv, TypeOK
<1>2. handler' \in [Handlers -> {Idle} \cup StatusCall \cup RemovalCall \cup GrantCall
                                \cup RevokeCall]
  BY DEF End, TypeInv, TypeOK
<1>3. TypeOK'
  BY <1>2 DEF End, TypeInv, TypeOK
<1>4. ASSUME NEW g \in Handlers, g # h
      PROVE  /\ handler[g].op \in {"confirm", "cancel"} => request'[handler[g].on] # Absent
             /\ handler[g].op = "revoke" => handler[g].on \in DOMAIN assigned'
  <2>1. handler[g].op \in {"confirm", "cancel"} => handler[g].on \in Requests
    BY CallByOp DEF TypeInv, RemovalCall
  <2>. QED  BY <2>1 DEF TypeInv, OnRecord
<1>5. OnRecord'
  BY <1>1, <1>4 DEF OnRecord, Idle
<1>. QED  BY <1>3, <1>5 DEF TypeInv

\* What applyStatus does to the rows.
LEMMA ApplyStatusType ==
  ASSUME TypeOK, NEW m \in Members, NEW from \in Standings, NEW to \in Standings,
         NEW by \in Members, ApplyStatus(m, from, to, by)
  PROVE  /\ status' \in [Members -> Standings] /\ trail' \in [Members -> Seq(Change)]
         /\ assigned' \in Seq(Assignment) /\ vacated' \in [Members -> Nat]
         /\ DOMAIN assigned' = DOMAIN assigned /\ Len(assigned') = Len(assigned)
<1>1. status' \in [Members -> Standings]
  BY DEF ApplyStatus, TypeOK
<1>2. trail' \in [Members -> Seq(Change)]
  <2>1. [by |-> by, from |-> from, to |-> to] \in Change
    BY DEF Change
  <2>. QED  BY <2>1, AppendProperties DEF ApplyStatus, TypeOK
<1>3. vacated' \in [Members -> Nat]
  BY RowsType DEF ApplyStatus, TypeOK
<1>4. \A i \in DOMAIN assigned : [assigned[i] EXCEPT !.end = {day}] \in Assignment
  BY RowsType DEF Assignment, TypeOK
<1>5. assigned' \in [1..Len(assigned) -> Assignment]
  BY <1>4, RowsType DEF ApplyStatus
<1>6. assigned' \in Seq(Assignment)
  BY <1>5, RowsType, SeqDef
<1>7. DOMAIN assigned' = 1..Len(assigned) /\ Len(assigned') = Len(assigned)
  BY <1>5, RowsType
<1>. QED  BY <1>1, <1>2, <1>3, <1>6, <1>7, RowsType

LEMMA NextTypeInv ==
  ASSUME TypeInv, [Next]_vars
  PROVE  TypeInv'
<1>1. CASE UNCHANGED vars
  BY <1>1 DEF TypeInv, TypeOK, OnRecord, vars, rows
<1>2. CASE NextDay
  <2>1. day' \in Days
    <3>1. day \in Nat /\ day < MaxDay /\ day' = day + 1 /\ MaxDay \in Nat
      BY <1>2, RowsType DEF NextDay, TypeInv
    <3>. QED  BY <3>1 DEF Days
  <2>. QED  BY <1>2, <2>1 DEF NextDay, TypeInv, TypeOK, OnRecord, rows
<1>3. ASSUME NEW h \in Handlers, NEW a \in Members, NEW m \in Members, NEW s \in Standings,
             ChangeStatus(h, a, m, s)
      PROVE  TypeInv'
  <2>. DEFINE call == [op |-> "status", by |-> a, to |-> s, on |-> m,
                       phase |-> "authorised", seen |-> {}]
  <2>1. call \in Calls /\ call.op = "status"
    BY DEF Calls, StatusCall, Phases
  <2>2. Authorise(h, call)
    BY <1>3 DEF ChangeStatus
  <2>. HIDE DEF call
  <2>. QED  BY <2>1, <2>2, AuthoriseType
<1>4. ASSUME NEW h \in Handlers, NEW a \in Members, NEW q \in Requests,
             NEW op \in {"confirm", "cancel"}, Resolve(h, a, q, op)
      PROVE  TypeInv'
  <2>. DEFINE call == [op |-> op, by |-> a, on |-> q, phase |-> "authorised", seen |-> {}]
  <2>1. call \in Calls /\ call.op = op /\ call.on = q
    BY DEF Calls, RemovalCall, Phases
  <2>2. Authorise(h, call) /\ request[q] # Absent
    BY <1>4 DEF Resolve
  <2>. HIDE DEF call
  <2>. QED  BY <2>1, <2>2, AuthoriseType
<1>5. ASSUME NEW h \in Handlers, NEW a \in Members, NEW m \in Members, NEW g \in Roles \cup Seats,
             NEW e \in TermEnds, Grant(h, a, m, g, e)
      PROVE  TypeInv'
  <2>. DEFINE call == [op |-> "grant", member |-> m, by |-> a, end |-> e, on |-> g,
                       phase |-> "authorised"]
  <2>1. call \in Calls /\ call.op = "grant"
    BY DEF Calls, GrantCall, Phases
  <2>2. Authorise(h, call)
    BY <1>5 DEF Grant
  <2>. HIDE DEF call
  <2>. QED  BY <2>1, <2>2, AuthoriseType
<1>6. ASSUME NEW h \in Handlers, NEW a \in Members, NEW i \in DOMAIN assigned, Revoke(h, a, i)
      PROVE  TypeInv'
  <2>. DEFINE call == [op |-> "revoke", by |-> a, on |-> i, phase |-> "authorised", at |-> day]
  <2>1. i \in Nat /\ day \in Days
    BY RowsType DEF TypeInv, TypeOK
  <2>2. call \in Calls /\ call.op = "revoke" /\ call.on = i
    BY <2>1 DEF Calls, RevokeCall, Phases
  <2>3. Authorise(h, call)
    BY <1>6 DEF Revoke
  <2>. HIDE DEF call
  <2>. QED  BY <2>2, <2>3, AuthoriseType
<1>7. ASSUME NEW h \in Handlers, NEW q \in Requests, RequestRemoval(h, q) PROVE TypeInv'
  <2>1. handler[h].on \in Members /\ handler[h].by \in Members
    BY <1>7, CallByOp DEF RequestRemoval, Serving, StatusCall, TypeInv
  <2>2. [state |-> "PENDING", member |-> handler[h].on, by |-> handler[h].by,
         confirmedBy |-> {}, cancelledBy |-> {}] \in Present
    BY <2>1 DEF Present
  <2>3. /\ request' \in [Requests -> {Absent} \cup Present]
        /\ \A p \in Requests : request[p] # Absent => request'[p] # Absent
    BY <1>7, <2>2 DEF RequestRemoval, TypeInv, TypeOK
  <2>4. UNCHANGED <<status, trail, assigned, vacated>> /\ End(h)
    BY <1>7 DEF RequestRemoval
  <2>. QED  BY <2>3, <2>4, EndType DEF TypeInv, TypeOK
<1>8. ASSUME NEW h \in Handlers, StatusRead(h) PROVE TypeInv'
  <2>1. handler[h] \in StatusCall
    BY <1>8, CallByOp DEF StatusRead, Serving, TypeInv
  <2>2. status[handler[h].on] \in Standings
    BY <2>1 DEF StatusCall, TypeInv, TypeOK
  <2>. DEFINE call == [handler[h] EXCEPT !.phase = "read", !.seen = {status[handler[h].on]}]
  <2>3. call \in Calls /\ call.op = handler[h].op /\ call.on = handler[h].on
    BY <2>1, <2>2 DEF Calls, StatusCall, Phases
  <2>4. Reads(h, call)
    BY <1>8 DEF StatusRead
  <2>. HIDE DEF call
  <2>. QED  BY <2>3, <2>4, ReadsType
<1>9. ASSUME NEW h \in Handlers, StatusCommit(h) PROVE TypeInv'
  <2>1. handler[h] \in StatusCall
    BY <1>9, CallByOp DEF StatusCommit, Serving, TypeInv
  <2>2. PICK from \in Standings : ApplyStatus(handler[h].on, from, handler[h].to, handler[h].by)
    BY <1>9, <2>1 DEF StatusCommit, StatusCall
  <2>3. End(h) /\ request' = request
    BY <1>9 DEF StatusCommit
  <2>4. /\ status' \in [Members -> Standings] /\ trail' \in [Members -> Seq(Change)]
        /\ assigned' \in Seq(Assignment) /\ vacated' \in [Members -> Nat]
        /\ DOMAIN assigned' = DOMAIN assigned
    BY <2>1, <2>2, ApplyStatusType DEF TypeInv, StatusCall
  <2>. QED  BY <2>3, <2>4, EndType DEF TypeInv, TypeOK
<1>10. ASSUME NEW h \in Handlers, ConfirmRead(h) PROVE TypeInv'
  <2>1. handler[h] \in RemovalCall
    BY <1>10, CallByOp DEF ConfirmRead, Serving, TypeInv
  <2>2. request[handler[h].on] \in Present
    BY <1>10, <2>1 DEF ConfirmRead, Serving, TypeInv, TypeOK, OnRecord, RemovalCall
  <2>3. status[request[handler[h].on].member] \in Standings
    BY <2>2 DEF Present, TypeInv, TypeOK
  <2>. DEFINE call == [handler[h] EXCEPT !.phase = "read",
                                         !.seen = {status[request[handler[h].on].member]}]
  <2>4. call \in Calls /\ call.op = handler[h].op /\ call.on = handler[h].on
    BY <2>1, <2>3 DEF Calls, RemovalCall, Phases
  <2>5. Reads(h, call)
    BY <1>10 DEF ConfirmRead
  <2>. HIDE DEF call
  <2>. QED  BY <2>4, <2>5, ReadsType
<1>11. ASSUME NEW h \in Handlers, ConfirmCommit(h) PROVE TypeInv'
  <2>1. handler[h] \in RemovalCall
    BY <1>11, CallByOp DEF ConfirmCommit, Serving, TypeInv
  <2>2. request[handler[h].on] \in Present /\ handler[h].on \in Requests
    BY <1>11, <2>1 DEF ConfirmCommit, Serving, TypeInv, TypeOK, OnRecord, RemovalCall
  <2>3. PICK from \in Standings :
           ApplyStatus(request[handler[h].on].member, from, "EXITED", handler[h].by)
    BY <1>11, <2>1 DEF ConfirmCommit, RemovalCall
  <2>4. /\ status' \in [Members -> Standings] /\ trail' \in [Members -> Seq(Change)]
        /\ assigned' \in Seq(Assignment) /\ vacated' \in [Members -> Nat]
        /\ DOMAIN assigned' = DOMAIN assigned
    BY <2>1, <2>2, <2>3, ApplyStatusType, Assumed DEF TypeInv, RemovalCall, Present
  <2>5. /\ request' = [request EXCEPT ![handler[h].on] =
                          [@ EXCEPT !.state = "CONFIRMED", !.confirmedBy = {handler[h].by}]]
        /\ End(h)
    BY <1>11, <2>2 DEF ConfirmCommit, TypeInv, TypeOK
  <2>6. [request[handler[h].on] EXCEPT !.state = "CONFIRMED", !.confirmedBy = {handler[h].by}]
           \in Present
    BY <2>1, <2>2 DEF Present, RemovalCall
  <2>7. /\ request' \in [Requests -> {Absent} \cup Present]
        /\ \A p \in Requests : request[p] # Absent => request'[p] # Absent
    BY <2>2, <2>5, <2>6 DEF TypeInv, TypeOK, Present, Absent
  <2>. QED  BY <2>4, <2>5, <2>7, EndType
<1>12. ASSUME NEW h \in Handlers, CancelRead(h) PROVE TypeInv'
  <2>1. handler[h] \in RemovalCall
    BY <1>12, CallByOp DEF CancelRead, Serving, TypeInv
  <2>. DEFINE call == [handler[h] EXCEPT !.phase = "read"]
  <2>2. call \in Calls /\ call.op = handler[h].op /\ call.on = handler[h].on
    BY <2>1 DEF Calls, RemovalCall, Phases
  <2>3. Reads(h, call)
    BY <1>12 DEF CancelRead
  <2>. HIDE DEF call
  <2>. QED  BY <2>2, <2>3, ReadsType
<1>13. ASSUME NEW h \in Handlers, CancelCommit(h) PROVE TypeInv'
  <2>1. handler[h] \in RemovalCall
    BY <1>13, CallByOp DEF CancelCommit, Serving, TypeInv
  <2>2. request[handler[h].on] \in Present /\ handler[h].on \in Requests
    BY <1>13, <2>1 DEF CancelCommit, Serving, TypeInv, TypeOK, OnRecord, RemovalCall
  <2>3. /\ request' = [request EXCEPT ![handler[h].on] =
                          [@ EXCEPT !.state = "CANCELLED", !.cancelledBy = {handler[h].by}]]
        /\ UNCHANGED <<status, trail, assigned, vacated>> /\ End(h)
    BY <1>13, <2>2 DEF CancelCommit, TypeInv, TypeOK
  <2>4. [request[handler[h].on] EXCEPT !.state = "CANCELLED", !.cancelledBy = {handler[h].by}]
           \in Present
    BY <2>1, <2>2 DEF Present, RemovalCall
  <2>5. /\ request' \in [Requests -> {Absent} \cup Present]
        /\ \A p \in Requests : request[p] # Absent => request'[p] # Absent
    BY <2>2, <2>3, <2>4 DEF TypeInv, TypeOK, Present, Absent
  <2>. QED  BY <2>3, <2>5, EndType DEF TypeInv, TypeOK
<1>14. ASSUME NEW h \in Handlers, GrantRead(h) PROVE TypeInv'
  <2>1. handler[h] \in GrantCall
    BY <1>14, CallByOp DEF GrantRead, Serving, TypeInv
  <2>. DEFINE call == [handler[h] EXCEPT !.phase = "read"]
  <2>2. call \in Calls /\ call.op = handler[h].op /\ call.on = handler[h].on
    BY <2>1 DEF Calls, GrantCall, Phases
  <2>3. Reads(h, call)
    BY <1>14 DEF GrantRead
  <2>. HIDE DEF call
  <2>. QED  BY <2>2, <2>3, ReadsType
<1>15. ASSUME NEW h \in Handlers, GrantCommit(h) PROVE TypeInv'
  <2>1. handler[h] \in GrantCall
    BY <1>15, CallByOp DEF GrantCommit, Serving, TypeInv
  <2>2. [member |-> handler[h].member, grant |-> handler[h].on, start |-> day,
         end |-> handler[h].end] \in Assignment
    BY <2>1, Assumed DEF GrantCall, Assignment, TypeInv, TypeOK
  <2>3. assigned' \in Seq(Assignment) /\ Len(assigned') = Len(assigned) + 1
    BY <1>15, <2>2, AppendProperties DEF GrantCommit, TypeInv, TypeOK
  <2>4. DOMAIN assigned \subseteq DOMAIN assigned'
    BY <2>3, RowsType, LenProperties DEF TypeInv
  <2>5. UNCHANGED <<status, trail, request, vacated>> /\ End(h)
    BY <1>15 DEF GrantCommit
  <2>. QED  BY <2>3, <2>4, <2>5, EndType DEF TypeInv, TypeOK
<1>16. ASSUME NEW h \in Handlers, RevokeRead(h) PROVE TypeInv'
  <2>1. handler[h] \in RevokeCall
    BY <1>16, CallByOp DEF RevokeRead, Serving, TypeInv
  <2>. DEFINE call == [handler[h] EXCEPT !.phase = "read", !.at = day]
  <2>2. call \in Calls /\ call.op = handler[h].op /\ call.on = handler[h].on
    BY <2>1 DEF Calls, RevokeCall, Phases, TypeInv, TypeOK
  <2>3. Reads(h, call)
    BY <1>16 DEF RevokeRead
  <2>. HIDE DEF call
  <2>. QED  BY <2>2, <2>3, ReadsType
<1>17. ASSUME NEW h \in Handlers, RevokeCommit(h) PROVE TypeInv'
  <2>1. handler[h] \in RevokeCall /\ handler[h].on \in DOMAIN assigned
    BY <1>17, CallByOp DEF RevokeCommit, Serving, TypeInv, OnRecord
  <2>2. assigned' = [assigned EXCEPT ![handler[h].on] =
                        [assigned[handler[h].on] EXCEPT !.end = EndsAt(handler[h].at)]]
    BY <1>17 DEF RevokeCommit
  <2>3. [assigned[handler[h].on] EXCEPT !.end = EndsAt(handler[h].at)] \in Assignment
    BY <2>1, RowsType DEF EndsAt, Assignment, RevokeCall, TypeInv
  <2>4. assigned' \in Seq(Assignment) /\ Len(assigned') = Len(assigned)
    BY <2>1, <2>2, <2>3, RowsType, ExceptSeq DEF TypeInv, TypeOK
  <2>5. DOMAIN assigned' = DOMAIN assigned
    BY <2>2
  <2>6. UNCHANGED <<status, trail, request, vacated>> /\ End(h)
    BY <1>17 DEF RevokeCommit
  <2>. QED  BY <2>4, <2>5, <2>6, EndType DEF TypeInv, TypeOK
<1>18. ASSUME NEW h \in Handlers, Refused(h) PROVE TypeInv'
  BY <1>18, EndType DEF Refused, rows, TypeInv, TypeOK
<1>. QED
  BY <1>1, <1>2, <1>3, <1>4, <1>5, <1>6, <1>7, <1>8, <1>9, <1>10, <1>11, <1>12, <1>13, <1>14,
     <1>15, <1>16, <1>17, <1>18 DEF Next

\* Statuses, trails, requests, grants and calls keep their shapes, and calls are
\* about requests and grants that exist (membership.service.ts, rbac.service.ts,
\* governance.service.ts).
THEOREM TypeCorrect == Spec => []TypeOK
<1>1. Init => TypeInv
  BY InitTypeInv
<1>2. TypeInv /\ [Next]_vars => TypeInv'
  BY NextTypeInv
<1>3. TypeInv => TypeOK
  BY DEF TypeInv
<1>. QED  BY <1>1, <1>2, <1>3, PTL DEF Spec
-----------------------------------------------------------------------------
(* What a step does to the calls and to the rows of assigned. *)

\* A call as it is begun.
Fresh(call) ==
    /\ call \in Calls /\ call # Idle /\ call.phase = "authorised"
    /\ call.op = "revoke" => call.at = day
    /\ call.op = "status" /\ call.to = "EXITED" => call.by # call.on

\* A handler's call changes when it is begun, when it reads, or when it ends.
LEMMA HandlerStep ==
  ASSUME TypeInv, [Next]_vars, NEW g \in Handlers, handler'[g] # handler[g]
  PROVE  \/ handler'[g] = Idle
         \/ \E call : Fresh(call) /\ Authorise(g, call) /\ handler'[g] = call
         \/ StatusRead(g) \/ ConfirmRead(g) \/ CancelRead(g) \/ GrantRead(g) \/ RevokeRead(g)
<1>1. \A h \in Handlers : Serving(h, "status", "authorised") => TRUE
  OBVIOUS
<1>2. \A h \in Handlers : End(h) => handler'[g] = Idle \/ handler'[g] = handler[g]
  BY DEF End, TypeInv, TypeOK
<1>3. \A h \in Handlers : \A call : Reads(h, call) /\ h # g => handler'[g] = handler[g]
  BY DEF Reads, TypeInv, TypeOK
<1>4. \A h \in Handlers : \A call : Authorise(h, call) =>
         handler'[g] = IF g = h THEN call ELSE handler[g]
  BY DEF Authorise, TypeInv, TypeOK
<1>5. ASSUME NEW h \in Handlers, NEW a \in Members, NEW m \in Members, NEW s \in Standings,
             ChangeStatus(h, a, m, s)
      PROVE  \E call : Fresh(call) /\ Authorise(g, call) /\ handler'[g] = call
  <2>. DEFINE call == [op |-> "status", by |-> a, to |-> s, on |-> m,
                       phase |-> "authorised", seen |-> {}]
  <2>1. Fresh(call)
    BY <1>5 DEF ChangeStatus, Fresh, Calls, StatusCall, Phases, Idle
  <2>2. Authorise(h, call)
    BY <1>5 DEF ChangeStatus
  <2>. HIDE DEF call
  <2>. QED  BY <1>4, <2>1, <2>2
<1>6. ASSUME NEW h \in Handlers, NEW a \in Members, NEW q \in Requests,
             NEW op \in {"confirm", "cancel"}, Resolve(h, a, q, op)
      PROVE  \E call : Fresh(call) /\ Authorise(g, call) /\ handler'[g] = call
  <2>. DEFINE call == [op |-> op, by |-> a, on |-> q, phase |-> "authorised", seen |-> {}]
  <2>1. Fresh(call)
    BY DEF Fresh, Calls, RemovalCall, Phases, Idle
  <2>2. Authorise(h, call)
    BY <1>6 DEF Resolve
  <2>. HIDE DEF call
  <2>. QED  BY <1>4, <2>1, <2>2
<1>7. ASSUME NEW h \in Handlers, NEW a \in Members, NEW m \in Members, NEW s \in Roles \cup Seats,
             NEW e \in TermEnds, Grant(h, a, m, s, e)
      PROVE  \E call : Fresh(call) /\ Authorise(g, call) /\ handler'[g] = call
  <2>. DEFINE call == [op |-> "grant", member |-> m, by |-> a, end |-> e, on |-> s,
                       phase |-> "authorised"]
  <2>1. Fresh(call)
    BY DEF Fresh, Calls, GrantCall, Phases, Idle
  <2>2. Authorise(h, call)
    BY <1>7 DEF Grant
  <2>. HIDE DEF call
  <2>. QED  BY <1>4, <2>1, <2>2
<1>8. ASSUME NEW h \in Handlers, NEW a \in Members, NEW i \in DOMAIN assigned, Revoke(h, a, i)
      PROVE  \E call : Fresh(call) /\ Authorise(g, call) /\ handler'[g] = call
  <2>. DEFINE call == [op |-> "revoke", by |-> a, on |-> i, phase |-> "authorised", at |-> day]
  <2>1. i \in Nat /\ day \in Days
    BY RowsType DEF TypeInv, TypeOK
  <2>2. Fresh(call)
    BY <2>1 DEF Fresh, Calls, RevokeCall, Phases, Idle
  <2>3. Authorise(h, call)
    BY <1>8 DEF Revoke
  <2>. HIDE DEF call
  <2>. QED  BY <1>4, <2>2, <2>3
<1>9. ASSUME NEW h \in Handlers,
             StatusRead(h) \/ ConfirmRead(h) \/ CancelRead(h) \/ GrantRead(h) \/ RevokeRead(h)
      PROVE  StatusRead(g) \/ ConfirmRead(g) \/ CancelRead(g) \/ GrantRead(g) \/ RevokeRead(g)
  <2>1. \E call : Reads(h, call)
    BY <1>9 DEF StatusRead, ConfirmRead, CancelRead, GrantRead, RevokeRead
  <2>. QED  BY <1>3, <1>9, <2>1
<1>10. ASSUME NEW h \in Handlers,
              \/ \E q \in Requests : RequestRemoval(h, q)
              \/ StatusCommit(h) \/ ConfirmCommit(h) \/ CancelCommit(h) \/ GrantCommit(h)
              \/ RevokeCommit(h) \/ Refused(h)
       PROVE  handler'[g] = Idle
  <2>1. End(h)
    BY <1>10 DEF RequestRemoval, StatusCommit, ConfirmCommit, CancelCommit, GrantCommit,
                 RevokeCommit, Refused
  <2>. QED  BY <1>2, <2>1
<1>11. ~(NextDay \/ UNCHANGED vars)
  BY DEF NextDay, vars
<1>. QED  BY <1>5, <1>6, <1>7, <1>8, <1>9, <1>10, <1>11 DEF Next

\* What a call keeps, and finds unchanged, when it reads.
LEMMA ReadStep ==
  ASSUME TypeInv, NEW h \in Handlers,
         StatusRead(h) \/ ConfirmRead(h) \/ CancelRead(h) \/ GrantRead(h) \/ RevokeRead(h)
  PROVE  /\ handler'[h].op = handler[h].op /\ handler'[h].on = handler[h].on
         /\ handler'[h].by = handler[h].by /\ handler'[h].phase = "read"
         /\ handler[h].op = "grant" => handler'[h].member = handler[h].member
         /\ handler[h].op = "status" => handler'[h].to = handler[h].to
         /\ handler[h].op = "revoke" => handler'[h].at = day
         /\ \A g \in Handlers : g # h => handler'[g] = handler[g]
         /\ UNCHANGED <<makerChecker, status, trail, request, assigned, day, vacated, contested>>
<1>1. \A call : Reads(h, call) =>
         /\ handler'[h] = call /\ \A g \in Handlers : g # h => handler'[g] = handler[g]
         /\ UNCHANGED <<makerChecker, status, trail, request, assigned, day, vacated, contested>>
  BY DEF Reads, TypeInv, TypeOK, rows
<1>2. CASE StatusRead(h)
  <2>1. handler[h] \in StatusCall /\ handler[h].op = "status"
    BY <1>2, CallByOp DEF StatusRead, Serving, TypeInv
  <2>. DEFINE call == [handler[h] EXCEPT !.phase = "read", !.seen = {status[handler[h].on]}]
  <2>2. Reads(h, call)
    BY <1>2 DEF StatusRead
  <2>3. /\ call.op = handler[h].op /\ call.on = handler[h].on /\ call.by = handler[h].by
        /\ call.phase = "read" /\ call.to = handler[h].to
    BY <2>1 DEF StatusCall
  <2>. HIDE DEF call
  <2>. QED  BY <1>1, <2>1, <2>2, <2>3
<1>3. CASE ConfirmRead(h)
  <2>1. handler[h] \in RemovalCall /\ handler[h].op = "confirm"
    BY <1>3, CallByOp DEF ConfirmRead, Serving, TypeInv
  <2>. DEFINE call == [handler[h] EXCEPT !.phase = "read",
                                         !.seen = {status[request[handler[h].on].member]}]
  <2>2. Reads(h, call)
    BY <1>3 DEF ConfirmRead
  <2>3. /\ call.op = handler[h].op /\ call.on = handler[h].on /\ call.by = handler[h].by
        /\ call.phase = "read"
    BY <2>1 DEF RemovalCall
  <2>. HIDE DEF call
  <2>. QED  BY <1>1, <2>1, <2>2, <2>3
<1>4. CASE CancelRead(h)
  <2>1. handler[h] \in RemovalCall /\ handler[h].op = "cancel"
    BY <1>4, CallByOp DEF CancelRead, Serving, TypeInv
  <2>2. Reads(h, [handler[h] EXCEPT !.phase = "read"])
    BY <1>4 DEF CancelRead
  <2>. QED  BY <1>1, <2>1, <2>2 DEF RemovalCall
<1>5. CASE GrantRead(h)
  <2>1. handler[h] \in GrantCall /\ handler[h].op = "grant"
    BY <1>5, CallByOp DEF GrantRead, Serving, TypeInv
  <2>2. Reads(h, [handler[h] EXCEPT !.phase = "read"])
    BY <1>5 DEF GrantRead
  <2>. QED  BY <1>1, <2>1, <2>2 DEF GrantCall
<1>6. CASE RevokeRead(h)
  <2>1. handler[h] \in RevokeCall /\ handler[h].op = "revoke"
    BY <1>6, CallByOp DEF RevokeRead, Serving, TypeInv
  <2>. DEFINE call == [handler[h] EXCEPT !.phase = "read", !.at = day]
  <2>2. Reads(h, call)
    BY <1>6 DEF RevokeRead
  <2>3. /\ call.op = handler[h].op /\ call.on = handler[h].on /\ call.by = handler[h].by
        /\ call.phase = "read" /\ call.at = day
    BY <2>1 DEF RevokeCall
  <2>. HIDE DEF call
  <2>. QED  BY <1>1, <2>1, <2>2, <2>3
<1>. QED  BY <1>2, <1>3, <1>4, <1>5, <1>6

\* A row keeps all but its end.  That is set to today if the row is in force and
\* its holder leaves, and by a revocation to the day it was looked at.
RowChange(i) ==
    /\ i \in DOMAIN assigned' /\ assigned'[i].member = assigned[i].member
    /\ assigned'[i].grant = assigned[i].grant /\ assigned'[i].start = assigned[i].start
    /\ \/ assigned'[i].end = assigned[i].end
       \/ InForce(assigned[i]) /\ assigned'[i].end = {day}
       \/ \E h \in Handlers : /\ RevokeCommit(h) /\ handler[h].on = i
                              /\ assigned'[i].end = {handler[h].at}

\* A grant adds the one row.
NewRow(i) ==
    \E h \in Handlers :
        /\ GrantCommit(h) /\ i = Len(assigned) + 1 /\ Len(assigned') = i
        /\ assigned'[i] = [member |-> handler[h].member, grant |-> handler[h].on,
                           start |-> day, end |-> handler[h].end]

LEMMA RowsOfStatus ==
  ASSUME TypeInv, NEW m, NEW from, NEW to, NEW by, ApplyStatus(m, from, to, by)
  PROVE  /\ \A i \in DOMAIN assigned : RowChange(i)
         /\ DOMAIN assigned' = DOMAIN assigned
         /\ \A i \in DOMAIN assigned :
               to \in Left /\ Vacates(assigned[i], m) => assigned'[i].end = {day}
<1>1. assigned' = [i \in DOMAIN assigned |->
                      IF to \in Left /\ Vacates(assigned[i], m)
                      THEN [assigned[i] EXCEPT !.end = {day}] ELSE assigned[i]]
  BY DEF ApplyStatus
<1>2. \A i \in DOMAIN assigned : assigned[i] \in Assignment
  BY RowsType DEF TypeInv
<1>3. ASSUME NEW i \in DOMAIN assigned
      PROVE  /\ RowChange(i)
             /\ to \in Left /\ Vacates(assigned[i], m) => assigned'[i].end = {day}
  <2>1. CASE to \in Left /\ Vacates(assigned[i], m)
    <3>1. assigned'[i] = [assigned[i] EXCEPT !.end = {day}] /\ assigned[i] \in Assignment
      BY <1>1, <1>2, <1>3, <2>1
    <3>2. /\ assigned'[i].member = assigned[i].member /\ assigned'[i].grant = assigned[i].grant
          /\ assigned'[i].start = assigned[i].start /\ assigned'[i].end = {day}
      BY <3>1 DEF Assignment
    <3>. QED  BY <1>1, <1>3, <2>1, <3>2 DEF RowChange, Vacates
  <2>2. CASE ~(to \in Left /\ Vacates(assigned[i], m))
    <3>1. assigned'[i] = assigned[i]
      BY <1>1, <1>3, <2>2
    <3>. QED  BY <1>1, <1>3, <2>2, <3>1 DEF RowChange
  <2>. QED  BY <2>1, <2>2
<1>. QED  BY <1>1, <1>3

LEMMA RowsStep ==
  ASSUME TypeInv, [Next]_vars
  PROVE  /\ \A i \in DOMAIN assigned : RowChange(i)
         /\ \A i \in DOMAIN assigned' : i \in DOMAIN assigned \/ NewRow(i)
         /\ Len(assigned) \in Nat /\ Len(assigned') \in Nat /\ Len(assigned) <= Len(assigned')
         /\ day \in Nat /\ day' \in Nat /\ day <= day'
<1>. DEFINE Rows == /\ \A i \in DOMAIN assigned : RowChange(i)
                    /\ \A i \in DOMAIN assigned' : i \in DOMAIN assigned \/ NewRow(i)
<1>1. ASSUME assigned' = assigned PROVE Rows
  BY <1>1 DEF RowChange
<1>2. ASSUME NEW h \in Handlers, StatusCommit(h) \/ ConfirmCommit(h) PROVE Rows
  <2>1. \E m, from, to, by : ApplyStatus(m, from, to, by)
    BY <1>2 DEF StatusCommit, ConfirmCommit
  <2>. QED  BY <2>1, RowsOfStatus
<1>3. ASSUME NEW h \in Handlers, GrantCommit(h) PROVE Rows
  <2>. DEFINE row == [member |-> handler[h].member, grant |-> handler[h].on,
                      start |-> day, end |-> handler[h].end]
  <2>1. row \in Assignment
    BY <1>3, CallByOp, Assumed DEF GrantCommit, Serving, GrantCall, Assignment, TypeInv, TypeOK
  <2>2. assigned' = Append(assigned, row) /\ assigned \in Seq(Assignment)
    BY <1>3 DEF GrantCommit, TypeInv, TypeOK
  <2>. HIDE DEF row
  <2>3. /\ Len(assigned') = Len(assigned) + 1 /\ DOMAIN assigned' = 1..Len(assigned')
        /\ \A i \in 1..Len(assigned) : assigned'[i] = assigned[i]
        /\ assigned'[Len(assigned) + 1] = row
    BY <2>1, <2>2, AppendProperties, LenProperties
  <2>4. DOMAIN assigned = 1..Len(assigned) /\ Len(assigned) \in Nat
    BY RowsType DEF TypeInv
  <2>5. \A i \in DOMAIN assigned : RowChange(i)
    BY <2>3, <2>4 DEF RowChange
  <2>6. ASSUME NEW i \in DOMAIN assigned', i \notin DOMAIN assigned PROVE NewRow(i)
    <3>1. i = Len(assigned) + 1
      BY <2>3, <2>4, <2>6
    <3>. QED  BY <1>3, <2>3, <3>1 DEF NewRow, row
  <2>. QED  BY <2>5, <2>6
<1>4. ASSUME NEW h \in Handlers, RevokeCommit(h) PROVE Rows
  <2>1. assigned' = [assigned EXCEPT ![handler[h].on] =
                        [assigned[handler[h].on] EXCEPT !.end = {handler[h].at}]]
    BY <1>4 DEF RevokeCommit, EndsAt
  <2>2. ASSUME NEW i \in DOMAIN assigned PROVE RowChange(i)
    <3>1. CASE i = handler[h].on
      <4>1. assigned'[i] = [assigned[i] EXCEPT !.end = {handler[h].at}] /\ assigned[i] \in Assignment
        BY <2>1, <3>1, RowsType DEF TypeInv
      <4>2. /\ assigned'[i].member = assigned[i].member /\ assigned'[i].grant = assigned[i].grant
            /\ assigned'[i].start = assigned[i].start /\ assigned'[i].end = {handler[h].at}
        BY <4>1 DEF Assignment
      <4>. QED  BY <1>4, <2>1, <3>1, <4>2 DEF RowChange
    <3>2. CASE i # handler[h].on
      BY <2>1, <3>2 DEF RowChange
    <3>. QED  BY <3>1, <3>2
  <2>3. DOMAIN assigned' = DOMAIN assigned
    BY <2>1
  <2>. QED  BY <2>2, <2>3
<1>5. Rows
  <2>. HIDE DEF Rows
  <2>1. CASE UNCHANGED vars \/ NextDay
    BY <1>1, <2>1 DEF vars, rows, NextDay, Rows
  <2>2. ASSUME NEW h \in Handlers, \E call : Authorise(h, call) \/ Reads(h, call) PROVE Rows
    BY <1>1, <2>2 DEF Authorise, Reads, rows, Rows
  <2>3. ASSUME NEW h \in Handlers,
               (\E q \in Requests : RequestRemoval(h, q)) \/ CancelCommit(h) \/ Refused(h)
        PROVE  Rows
    BY <1>1, <2>3 DEF RequestRemoval, CancelCommit, Refused, rows, Rows
  <2>. QED
    BY <1>2, <1>3, <1>4, <2>1, <2>2, <2>3
    DEF Next, ChangeStatus, Resolve, Grant, Revoke, StatusRead, ConfirmRead, CancelRead, GrantRead,
        RevokeRead
<1>6. TypeInv'
  BY NextTypeInv
<1>7. /\ DOMAIN assigned = 1..Len(assigned) /\ Len(assigned) \in Nat /\ day \in Nat
      /\ DOMAIN assigned' = 1..Len(assigned') /\ Len(assigned') \in Nat /\ day' \in Nat
  <2>1. /\ DOMAIN assigned = 1..Len(assigned) /\ Len(assigned) \in Nat /\ day \in Nat
        /\ Days \subseteq Nat
    BY RowsType DEF TypeInv
  <2>2. assigned' \in Seq(Assignment) /\ day' \in Days
    BY <1>6 DEF TypeInv, TypeOK
  <2>3. DOMAIN assigned' = 1..Len(assigned') /\ Len(assigned') \in Nat
    BY <2>2, LenProperties
  <2>. QED  BY <2>1, <2>2, <2>3
<1>8. Len(assigned) <= Len(assigned')
  BY <1>5, <1>7 DEF RowChange
<1>9. day <= day'
  <2>1. day' = day \/ day' = day + 1
    <3>1. \A h \in Handlers : End(h) \/ (\E call : Authorise(h, call) \/ Reads(h, call)) =>
             day' = day
      BY DEF End, Authorise, Reads
    <3>2. CASE NextDay \/ UNCHANGED vars
      BY <3>2 DEF NextDay, vars
    <3>. QED
      BY <3>1, <3>2
      DEF Next, ChangeStatus, Resolve, Grant, Revoke, StatusRead, ConfirmRead, CancelRead, GrantRead,
          RevokeRead, RequestRemoval, StatusCommit, ConfirmCommit, CancelCommit, GrantCommit,
          RevokeCommit, Refused
  <2>. QED  BY <1>7, <2>1
<1>. QED  BY <1>5, <1>7, <1>8, <1>9
-----------------------------------------------------------------------------
(* Who leaves gives up his seats. *)

\* Terms have begun, a revocation is of some day up to today, and what was
\* vacated is on record.
DatesInv ==
    /\ \A i \in DOMAIN assigned : assigned[i].start <= day
    /\ \A h \in Handlers : handler[h].op = "revoke" => handler[h].at <= day

VacatedInv ==
    /\ DatesInv /\ \A m \in Members : vacated[m] <= Len(assigned)
    /\ VacatedOnExit

LEMMA InitDatesInv == Init => DatesInv
<1>. SUFFICES ASSUME Init PROVE DatesInv
  OBVIOUS
<1>1. \A i \in DOMAIN assigned : assigned[i].start = 0
  BY FirstRows
<1>2. day = 0 /\ \A h \in Handlers : handler[h].op # "revoke"
  BY DEF Init, Idle
<1>. QED  BY <1>1, <1>2 DEF DatesInv

LEMMA InitVacatedInv == Init => VacatedInv
<1>. SUFFICES ASSUME Init PROVE VacatedInv
  OBVIOUS
<1>1. TypeInv /\ DatesInv
  BY InitTypeInv, InitDatesInv
<1>2. \A m \in Members : vacated[m] = 0
  BY DEF Init
<1>. QED  BY <1>1, <1>2, RowsType DEF VacatedInv, VacatedOnExit, TypeInv

LEMMA NextDatesInv ==
  ASSUME TypeInv, DatesInv, [Next]_vars
  PROVE  DatesInv'
<1>1. day \in Nat /\ day' \in Nat /\ day <= day'
  BY RowsStep
<1>2. ASSUME NEW i \in DOMAIN assigned' PROVE assigned'[i].start <= day'
  <2>1. CASE i \in DOMAIN assigned
    <3>1. assigned'[i].start = assigned[i].start /\ assigned[i].start <= day
      BY <2>1, RowsStep DEF RowChange, DatesInv
    <3>2. assigned[i].start \in Nat
      BY <2>1, RowsType DEF TypeInv, Assignment
    <3>. QED  BY <1>1, <3>1, <3>2
  <2>2. CASE i \notin DOMAIN assigned
    <3>1. assigned'[i].start = day
      BY <1>2, <2>2, RowsStep DEF NewRow
    <3>. QED  BY <1>1, <3>1
  <2>. QED  BY <2>1, <2>2
<1>3. ASSUME NEW h \in Handlers, handler'[h].op = "revoke" PROVE handler'[h].at <= day'
  <2>1. CASE handler'[h] = handler[h]
    <3>1. handler[h].at \in Nat
      BY <1>3, <2>1, CallByOp, RowsType DEF RevokeCall, TypeInv
    <3>. QED  BY <1>1, <1>3, <2>1, <3>1 DEF DatesInv
  <2>2. CASE handler'[h] # handler[h]
    <3>1. CASE \E call : Fresh(call) /\ Authorise(h, call) /\ handler'[h] = call
      BY <1>1, <1>3, <3>1 DEF Fresh
    <3>2. CASE StatusRead(h) \/ ConfirmRead(h) \/ CancelRead(h) \/ GrantRead(h) \/ RevokeRead(h)
      BY <1>1, <1>3, <3>2, ReadStep
    <3>. QED  BY <1>3, <2>2, <3>1, <3>2, HandlerStep DEF Idle
  <2>. QED  BY <2>1, <2>2
<1>. QED  BY <1>2, <1>3 DEF DatesInv

\* A row that is not in force has ended, and does not come into force again.
LEMMA NeverAgain ==
  ASSUME TypeInv, DatesInv, [Next]_vars, NEW i \in DOMAIN assigned, ~InForce(assigned[i])
  PROVE  ~InForce(assigned[i])'
<1>1. /\ day \in Nat /\ day' \in Nat /\ day <= day' /\ RowChange(i)
      /\ assigned[i] \in Assignment /\ assigned[i].start <= day
  BY RowsStep, RowsType DEF TypeInv, DatesInv
<1>2. PICK e \in assigned[i].end : ~(e > day)
  BY <1>1 DEF InForce
<1>3. e \in Nat
  BY <1>1, RowsType DEF Assignment, TypeInv
<1>4. CASE assigned'[i].end = assigned[i].end
  BY <1>1, <1>2, <1>3, <1>4 DEF InForce
<1>5. ASSUME NEW h \in Handlers, RevokeCommit(h), handler[h].on = i,
             assigned'[i].end = {handler[h].at}
      PROVE  ~InForce(assigned[i])'
  <2>1. handler[h].at \in Nat /\ handler[h].at <= day
    BY <1>5, CallByOp, RowsType DEF RevokeCommit, Serving, RevokeCall, TypeInv, DatesInv
  <2>. QED  BY <1>1, <1>5, <2>1 DEF InForce
<1>. QED  BY <1>1, <1>4, <1>5 DEF RowChange

LEMMA NextVacatedInv ==
  ASSUME TypeInv, VacatedInv, [Next]_vars
  PROVE  VacatedInv'
<1>1. /\ \A i \in DOMAIN assigned : RowChange(i)
      /\ Len(assigned) \in Nat /\ Len(assigned') \in Nat /\ Len(assigned) <= Len(assigned')
      /\ day \in Nat /\ day' \in Nat
  BY RowsStep
<1>2. DOMAIN assigned = 1..Len(assigned)
  BY RowsType DEF TypeInv
<1>3. ASSUME NEW m \in Members, NEW i \in 1..vacated[m],
             assigned'[i].member = m, assigned'[i].grant \in Seats
      PROVE  ~InForce(assigned[i])'
  <2>1. vacated[m] \in Nat /\ vacated[m] <= Len(assigned)
    BY DEF TypeInv, TypeOK, VacatedInv
  <2>2. i \in DOMAIN assigned
    BY <1>1, <1>2, <2>1
  <2>3. ~InForce(assigned[i])
    BY <1>1, <1>3, <2>2 DEF RowChange, VacatedInv, VacatedOnExit
  <2>. QED  BY <2>2, <2>3, NeverAgain DEF VacatedInv
<1>4. ASSUME vacated' = vacated
      PROVE  /\ \A m \in Members : vacated'[m] <= Len(assigned')
             /\ VacatedOnExit'
  <2>1. \A m \in Members : vacated[m] \in Nat /\ vacated[m] <= Len(assigned)
    BY DEF TypeInv, TypeOK, VacatedInv
  <2>2. \A m \in Members : vacated'[m] <= Len(assigned')
    BY <1>1, <1>4, <2>1
  <2>3. VacatedOnExit'
    BY <1>3, <1>4 DEF VacatedOnExit
  <2>. QED  BY <2>2, <2>3
<1>5. ASSUME NEW m \in Members, NEW from, NEW to, NEW by, ApplyStatus(m, from, to, by), day' = day
      PROVE  /\ \A n \in Members : vacated'[n] <= Len(assigned')
             /\ VacatedOnExit'
  <2>1. CASE to \notin Left
    BY <1>4, <1>5, <2>1 DEF ApplyStatus
  <2>2. CASE to \in Left
    <3>1. \A n \in Members : vacated'[n] = IF n = m THEN Len(assigned) ELSE vacated[n]
      BY <1>5, <2>2 DEF ApplyStatus, TypeInv, TypeOK
    <3>2. \A n \in Members : vacated'[n] <= Len(assigned')
      <4>1. \A n \in Members : vacated[n] \in Nat /\ vacated[n] <= Len(assigned)
        BY DEF TypeInv, TypeOK, VacatedInv
      <4>. QED  BY <1>1, <3>1, <4>1
    <3>3. ASSUME NEW i \in 1..Len(assigned), assigned'[i].member = m, assigned'[i].grant \in Seats
          PROVE  ~InForce(assigned[i])'
      <4>1. RowChange(i) /\ i \in DOMAIN assigned
        BY <1>1, <1>2
      <4>2. CASE InForce(assigned[i])
        <5>1. Vacates(assigned[i], m)
          BY <3>3, <4>1, <4>2 DEF Vacates, RowChange
        <5>2. assigned'[i].end = {day}
          BY <1>5, <2>2, <4>1, <5>1, RowsOfStatus
        <5>. QED  BY <1>1, <1>5, <5>2 DEF InForce
      <4>3. CASE ~InForce(assigned[i])
        BY <4>1, <4>3, NeverAgain DEF VacatedInv
      <4>. QED  BY <4>2, <4>3
    <3>4. VacatedOnExit'
      BY <1>3, <3>1, <3>3 DEF VacatedOnExit
    <3>. QED  BY <3>2, <3>4
  <2>. QED  BY <2>1, <2>2
<1>6. \/ vacated' = vacated
      \/ \E m \in Members : \E from, to, by : ApplyStatus(m, from, to, by) /\ day' = day
  <2>1. ASSUME NEW h \in Handlers, StatusCommit(h) \/ ConfirmCommit(h)
        PROVE  \E m \in Members : \E from, to, by : ApplyStatus(m, from, to, by) /\ day' = day
    <3>1. CASE StatusCommit(h)
      <4>1. handler[h].on \in Members
        BY <3>1, CallByOp DEF StatusCommit, Serving, StatusCall, TypeInv
      <4>. QED  BY <3>1, <4>1 DEF StatusCommit, End
    <3>2. CASE ConfirmCommit(h)
      <4>1. handler[h].on \in Requests /\ request[handler[h].on] # Absent
        BY <3>2, CallByOp DEF ConfirmCommit, Serving, RemovalCall, TypeInv, OnRecord
      <4>2. request[handler[h].on].member \in Members
        BY <4>1 DEF TypeInv, TypeOK, Present
      <4>. QED  BY <3>2, <4>2 DEF ConfirmCommit, End
    <3>. QED  BY <2>1, <3>1, <3>2
  <2>2. \A h \in Handlers : (\E call : Authorise(h, call) \/ Reads(h, call)) => vacated' = vacated
    BY DEF Authorise, Reads
  <2>3. CASE NextDay \/ UNCHANGED vars
    BY <2>3 DEF NextDay, vars
  <2>. QED
    BY <2>1, <2>2, <2>3
    DEF Next, ChangeStatus, Resolve, Grant, Revoke, StatusRead, ConfirmRead, CancelRead, GrantRead,
        RevokeRead, RequestRemoval, CancelCommit, GrantCommit, RevokeCommit, Refused
<1>7. DatesInv'
  BY NextDatesInv DEF VacatedInv
<1>. QED  BY <1>4, <1>5, <1>6, <1>7 DEF VacatedInv

\* "Auto-flag a role as vacant when its holder's membership status changes to
\* Exited or Deceased": no seat that its holder was given before he left is in
\* force afterwards (applyStatus), whatever calls about it were in progress then:
\* a revocation can only set an earlier end (revokeAssignment).
THEOREM SeatsVacated == Spec => []VacatedOnExit
<1>1. Init => TypeInv /\ VacatedInv
  BY InitTypeInv, InitVacatedInv
<1>2. TypeInv /\ VacatedInv /\ [Next]_vars => TypeInv' /\ VacatedInv'
  BY NextTypeInv, NextVacatedInv
<1>3. VacatedInv => VacatedOnExit
  BY DEF VacatedInv
<1>. QED  BY <1>1, <1>2, <1>3, PTL DEF Spec
-----------------------------------------------------------------------------
(* Calls about one request or one seat have met. *)

CallsMet ==
    \A g, h \in Handlers : g # h => About(handler[g]) \cap About(handler[h]) \subseteq contested

LEMMA InitCallsMet == Init => CallsMet
<1>. SUFFICES ASSUME Init PROVE CallsMet
  OBVIOUS
<1>1. TypeOK /\ \A h \in Handlers : handler[h] = Idle
  BY InitTypeInv DEF TypeInv, Init
<1>2. About(Idle) = {}
  BY DEF About, Idle
<1>. QED  BY <1>1, <1>2 DEF CallsMet

\* A call stays about what it is about, and what two calls met in is kept.
LEMMA AboutStep ==
  ASSUME TypeInv, [Next]_vars, NEW g \in Handlers
  PROVE  /\ contested \subseteq contested'
         /\ \/ About(handler[g])' \subseteq About(handler[g])
            \/ \E call : /\ Fresh(call) /\ Authorise(g, call) /\ handler'[g] = call
                         /\ About(handler[g])' = About(call)
<1>1. contested \subseteq contested'
  <2>1. \A h \in Handlers : End(h) \/ (\E call : Authorise(h, call) \/ Reads(h, call)) =>
           contested \subseteq contested'
    BY DEF End, Authorise, Reads
  <2>2. CASE NextDay \/ UNCHANGED vars
    BY <2>2 DEF NextDay, vars
  <2>. QED
    BY <2>1, <2>2
    DEF Next, ChangeStatus, Resolve, Grant, Revoke, StatusRead, ConfirmRead, CancelRead, GrantRead,
        RevokeRead, RequestRemoval, StatusCommit, ConfirmCommit, CancelCommit, GrantCommit,
        RevokeCommit, Refused
<1>2. TypeInv'
  BY NextTypeInv
<1>3. CASE handler'[g].op = handler[g].op /\ handler'[g].on = handler[g].on /\ handler[g] # Idle
  <2>1. handler[g].op = "revoke" => assigned'[handler[g].on].grant = assigned[handler[g].on].grant
    BY RowsStep DEF RowChange, TypeInv, OnRecord
  <2>. QED  BY <1>1, <1>3, <2>1 DEF About
<1>4. CASE handler'[g] = Idle
  BY <1>1, <1>4 DEF About, Idle
<1>5. ASSUME NEW call, Fresh(call), Authorise(g, call), handler'[g] = call
      PROVE  About(handler[g])' = About(call)
  <2>1. assigned' = assigned
    BY <1>5 DEF Authorise, rows
  <2>. QED  BY <1>5, <2>1 DEF About
<1>6. CASE StatusRead(g) \/ ConfirmRead(g) \/ CancelRead(g) \/ GrantRead(g) \/ RevokeRead(g)
  <2>1. handler[g] # Idle
    BY <1>6 DEF StatusRead, ConfirmRead, CancelRead, GrantRead, RevokeRead, Serving, Idle
  <2>. QED  BY <1>1, <1>3, <1>6, <2>1, ReadStep
<1>7. CASE handler'[g] = handler[g]
  BY <1>1, <1>3, <1>4, <1>7
<1>. QED  BY <1>1, <1>4, <1>5, <1>6, <1>7, HandlerStep

LEMMA NextCallsMet ==
  ASSUME TypeInv, CallsMet, [Next]_vars
  PROVE  CallsMet'
<1>1. ASSUME NEW g \in Handlers, NEW h \in Handlers, g # h,
             NEW call, Authorise(g, call), handler'[g] = call, About(handler[g])' = About(call)
      PROVE  About(handler[g])' \cap About(handler[h])' \subseteq contested'
  <2>1. handler'[h] = handler[h] /\ assigned' = assigned
    BY <1>1 DEF Authorise, TypeInv, TypeOK, rows
  <2>2. About(handler[h])' = About(handler[h])
    BY <2>1 DEF About
  <2>. QED  BY <1>1, <2>2 DEF Authorise
<1>2. ASSUME NEW g \in Handlers, NEW h \in Handlers, g # h
      PROVE  About(handler[g])' \cap About(handler[h])' \subseteq contested'
  <2>1. CASE About(handler[g])' \subseteq About(handler[g]) /\ About(handler[h])' \subseteq About(handler[h])
    BY <1>2, <2>1, AboutStep DEF CallsMet
  <2>2. CASE \E call : Authorise(g, call) /\ handler'[g] = call /\ About(handler[g])' = About(call)
    BY <1>1, <1>2, <2>2
  <2>3. CASE \E call : Authorise(h, call) /\ handler'[h] = call /\ About(handler[h])' = About(call)
    BY <1>1, <1>2, <2>3
  <2>. QED  BY <2>1, <2>2, <2>3, AboutStep
<1>. QED  BY <1>2 DEF CallsMet
-----------------------------------------------------------------------------
(* A removal is the work of two administrators. *)

\* Nobody asks for his own removal.
NotByHimself ==
    /\ \A h \in Handlers : handler[h].op = "status" /\ handler[h].to = "EXITED" =>
                              handler[h].by # handler[h].on
    /\ \A q \in Requests : request[q] # Absent => request[q].by # request[q].member

\* A call that has read will not remove without a request, nor confirm its own
\* caller's, nor resolve one that is not pending.
StillAsRead ==
    \A h \in Handlers : handler[h] # Idle /\ handler[h].phase = "read" =>
        /\ handler[h].op = "status" /\ makerChecker => handler[h].to # "EXITED"
        /\ handler[h].op = "confirm" => request[handler[h].on].by # handler[h].by
        /\ handler[h].op \in {"confirm", "cancel"} /\ handler[h].on \notin contested =>
              request[handler[h].on].state = "PENDING"

Confirmed(m) == {q \in RequestsAbout(m) : request[q].state = "CONFIRMED"}

\* Each removal on a trail answers a request of another, one each.
Answered ==
    makerChecker => \A m \in Members :
        /\ \A i \in Removals(m) : \E q \in RequestsAbout(m) : request[q].by # trail[m][i].by
        /\ IsFiniteSet(Confirmed(m))
        /\ RequestsAbout(m) \cap contested = {} =>
              Cardinality(Removals(m)) = Cardinality(Confirmed(m))

RemovalsInv == CallsMet /\ NotByHimself /\ StillAsRead /\ Answered

LEMMA InitRemovalsInv == Init => RemovalsInv
<1>. SUFFICES ASSUME Init PROVE RemovalsInv
  OBVIOUS
<1>1. CallsMet
  BY InitCallsMet
<1>2. /\ \A h \in Handlers : handler[h] = Idle
      /\ \A q \in Requests : request[q] = Absent
      /\ \A m \in Members : DOMAIN trail[m] = {}
  <2>1. \A h \in Handlers : handler[h] = Idle
    BY DEF Init
  <2>2. \A q \in Requests : request[q] = Absent
    BY DEF Init
  <2>3. trail = [m \in Members |-> <<>>]
    BY DEF Init
  <2>. QED  BY <2>1, <2>2, <2>3
<1>3. \A m \in Members : RequestsAbout(m) = {} /\ Confirmed(m) = {} /\ Removals(m) = {}
  <2>1. \A m \in Members : RequestsAbout(m) = {}
    BY <1>2 DEF RequestsAbout
  <2>. QED  BY <1>2, <2>1 DEF Confirmed, Removals
<1>4. Answered
  BY <1>3, FS_EmptySet DEF Answered
<1>. QED  BY <1>1, <1>2, <1>4 DEF RemovalsInv, NotByHimself, StillAsRead, Idle

\* A request that was made keeps its member and who asked.
RequestChange(q) ==
    \/ request'[q] = request[q]
    \/ \E h \in Handlers :
          /\ RequestRemoval(h, q) /\ request[q] = Absent
          /\ request'[q].state = "PENDING" /\ request'[q].member = handler[h].on
          /\ request'[q].by = handler[h].by
    \/ /\ request[q] # Absent /\ request'[q] # Absent
       /\ request'[q].member = request[q].member /\ request'[q].by = request[q].by
       /\ \E h \in Handlers : /\ handler[h].on = q
                              /\ \/ ConfirmCommit(h) /\ request'[q].state = "CONFIRMED"
                                 \/ CancelCommit(h) /\ request'[q].state = "CANCELLED"

LEMMA RequestStep ==
  ASSUME TypeInv, [Next]_vars, NEW q \in Requests
  PROVE  RequestChange(q)
<1>1. CASE request' = request
  BY <1>1 DEF RequestChange
<1>2. ASSUME NEW h \in Handlers, NEW p \in Requests, RequestRemoval(h, p) PROVE RequestChange(q)
  BY <1>2 DEF RequestRemoval, RequestChange, TypeInv, TypeOK
<1>3. ASSUME NEW h \in Handlers, ConfirmCommit(h) \/ CancelCommit(h), handler[h].on = q
      PROVE  request[q] \in Present
  BY <1>3, CallByOp DEF ConfirmCommit, CancelCommit, Serving, TypeInv, TypeOK, OnRecord
<1>4. ASSUME NEW h \in Handlers, ConfirmCommit(h) PROVE RequestChange(q)
  <2>1. CASE handler[h].on = q
    <3>1. request'[q] = [request[q] EXCEPT !.state = "CONFIRMED",
                                           !.confirmedBy = {handler[h].by}]
      <4>1. request' = [request EXCEPT ![q] = [@ EXCEPT !.state = "CONFIRMED",
                                                       !.confirmedBy = {handler[h].by}]]
        BY <1>4, <2>1 DEF ConfirmCommit, TypeInv, TypeOK
      <4>. QED  BY <4>1 DEF TypeInv, TypeOK
    <3>2. request[q] \in Present
      BY <1>3, <1>4, <2>1
    <3>3. /\ request[q] # Absent /\ request'[q] # Absent
          /\ request'[q].member = request[q].member /\ request'[q].by = request[q].by
          /\ request'[q].state = "CONFIRMED"
      <4>1. /\ request'[q].member = request[q].member /\ request'[q].by = request[q].by
            /\ request'[q].state = "CONFIRMED"
        BY <3>1, <3>2 DEF Present
      <4>2. request[q] # Absent
        BY <3>2 DEF Present, Absent
      <4>3. request'[q] # Absent
        BY <4>1 DEF Absent
      <4>. QED  BY <4>1, <4>2, <4>3
    <3>. QED  BY <1>4, <2>1, <3>3 DEF RequestChange
  <2>2. CASE handler[h].on # q
    BY <1>4, <2>2 DEF ConfirmCommit, RequestChange, TypeInv, TypeOK
  <2>. QED  BY <2>1, <2>2
<1>5. ASSUME NEW h \in Handlers, CancelCommit(h) PROVE RequestChange(q)
  <2>1. CASE handler[h].on = q
    <3>1. request'[q] = [request[q] EXCEPT !.state = "CANCELLED",
                                           !.cancelledBy = {handler[h].by}]
      <4>1. request' = [request EXCEPT ![q] = [@ EXCEPT !.state = "CANCELLED",
                                                       !.cancelledBy = {handler[h].by}]]
        BY <1>5, <2>1 DEF CancelCommit, TypeInv, TypeOK
      <4>. QED  BY <4>1 DEF TypeInv, TypeOK
    <3>2. request[q] \in Present
      BY <1>3, <1>5, <2>1
    <3>3. /\ request[q] # Absent /\ request'[q] # Absent
          /\ request'[q].member = request[q].member /\ request'[q].by = request[q].by
          /\ request'[q].state = "CANCELLED"
      <4>1. /\ request'[q].member = request[q].member /\ request'[q].by = request[q].by
            /\ request'[q].state = "CANCELLED"
        BY <3>1, <3>2 DEF Present
      <4>2. request[q] # Absent
        BY <3>2 DEF Present, Absent
      <4>3. request'[q] # Absent
        BY <4>1 DEF Absent
      <4>. QED  BY <4>1, <4>2, <4>3
    <3>. QED  BY <1>5, <2>1, <3>3 DEF RequestChange
  <2>2. CASE handler[h].on # q
    BY <1>5, <2>2 DEF CancelCommit, RequestChange, TypeInv, TypeOK
  <2>. QED  BY <2>1, <2>2
<1>6. \A h \in Handlers :
         (\E call : Authorise(h, call) \/ Reads(h, call)) \/ StatusCommit(h) \/ GrantCommit(h)
            \/ RevokeCommit(h) \/ Refused(h) => request' = request
  BY DEF Authorise, Reads, StatusCommit, GrantCommit, RevokeCommit, Refused, rows
<1>7. CASE NextDay \/ UNCHANGED vars
  BY <1>1, <1>7 DEF NextDay, vars, rows
<1>. QED
  BY <1>1, <1>2, <1>4, <1>5, <1>6, <1>7
  DEF Next, ChangeStatus, Resolve, Grant, Revoke, StatusRead, ConfirmRead, CancelRead, GrantRead,
      RevokeRead

\* Requests about a member stay, with who asked.
LEMMA RequestsStay ==
  ASSUME TypeInv, [Next]_vars, NEW m \in Members
  PROVE  \A q \in RequestsAbout(m) : q \in RequestsAbout(m)' /\ request'[q].by = request[q].by
  BY RequestStep DEF RequestChange, RequestsAbout

LEMMA NextNotByHimself ==
  ASSUME TypeInv, NotByHimself, [Next]_vars
  PROVE  NotByHimself'
<1>1. ASSUME NEW h \in Handlers, handler'[h].op = "status", handler'[h].to = "EXITED"
      PROVE  handler'[h].by # handler'[h].on
  <2>1. CASE handler'[h] = handler[h]
    BY <1>1, <2>1 DEF NotByHimself
  <2>2. CASE \E call : Fresh(call) /\ handler'[h] = call
    BY <1>1, <2>2 DEF Fresh
  <2>3. CASE StatusRead(h) \/ ConfirmRead(h) \/ CancelRead(h) \/ GrantRead(h) \/ RevokeRead(h)
    BY <1>1, <2>3, ReadStep DEF NotByHimself
  <2>. QED  BY <1>1, <2>1, <2>2, <2>3, HandlerStep DEF Idle
<1>2. ASSUME NEW q \in Requests, request'[q] # Absent
      PROVE  request'[q].by # request'[q].member
  <2>1. ASSUME NEW h \in Handlers, RequestRemoval(h, q) PROVE handler[h].by # handler[h].on
    BY <2>1 DEF RequestRemoval, Serving, NotByHimself
  <2>. QED  BY <1>2, <2>1, RequestStep DEF RequestChange, NotByHimself
<1>. QED  BY <1>1, <1>2 DEF NotByHimself

LEMMA NextStillAsRead ==
  ASSUME TypeInv, CallsMet, StillAsRead, [Next]_vars
  PROVE  StillAsRead'
<1>. SUFFICES ASSUME NEW h \in Handlers, handler'[h] # Idle, handler'[h].phase = "read"
              PROVE  /\ handler'[h].op = "status" /\ makerChecker' => handler'[h].to # "EXITED"
                     /\ handler'[h].op = "confirm" => request'[handler'[h].on].by # handler'[h].by
                     /\ handler'[h].op \in {"confirm", "cancel"} /\ handler'[h].on \notin contested' =>
                           request'[handler'[h].on].state = "PENDING"
  BY DEF StillAsRead
<1>1. makerChecker' = makerChecker
  <2>1. \A g \in Handlers : End(g) \/ (\E call : Authorise(g, call) \/ Reads(g, call)) =>
           makerChecker' = makerChecker
    BY DEF End, Authorise, Reads
  <2>2. CASE NextDay \/ UNCHANGED vars
    BY <2>2 DEF NextDay, vars
  <2>. QED
    BY <2>1, <2>2
    DEF Next, ChangeStatus, Resolve, Grant, Revoke, StatusRead, ConfirmRead, CancelRead, GrantRead,
        RevokeRead, RequestRemoval, StatusCommit, ConfirmCommit, CancelCommit, GrantCommit,
        RevokeCommit, Refused
<1>2. CASE StatusRead(h)
  BY <1>1, <1>2, ReadStep DEF StatusRead, Serving
<1>3. CASE ConfirmRead(h)
  BY <1>3, ReadStep DEF ConfirmRead, Serving, MayConfirm
<1>4. CASE CancelRead(h)
  BY <1>4, ReadStep DEF CancelRead, Serving
<1>5. CASE GrantRead(h) \/ RevokeRead(h)
  BY <1>5, ReadStep DEF GrantRead, RevokeRead, Serving
<1>6. CASE handler'[h] = handler[h]
  <2>1. CASE handler[h].op \notin {"confirm", "cancel"}
    BY <1>1, <1>6, <2>1 DEF StillAsRead
  <2>2. CASE handler[h].op \in {"confirm", "cancel"}
    <3>1. PICK q \in Requests : handler[h].on = q
      BY <2>2, CallByOp DEF RemovalCall, TypeInv
    <3>2. request[q] # Absent
      BY <2>2, <3>1 DEF TypeInv, OnRecord
    <3>3. request'[q].by = request[q].by
      BY <3>2, RequestStep DEF RequestChange
    <3>4. ASSUME NEW g \in Handlers, ConfirmCommit(g) \/ CancelCommit(g), handler[g].on = q
          PROVE  q \in contested
      <4>1. handler[g].op \in {"confirm", "cancel"} /\ handler'[g] = Idle
        BY <3>4 DEF ConfirmCommit, CancelCommit, Serving, End, TypeInv, TypeOK
      <4>2. g # h
        BY <1>6, <4>1
      <4>3. q \in About(handler[g]) /\ q \in About(handler[h])
        BY <2>2, <3>1, <3>4, <4>1, CallByOp, AboutType DEF TypeInv
      <4>. QED  BY <4>2, <4>3 DEF CallsMet
    <3>5. q \notin contested' => q \notin contested
      BY AboutStep
    <3>6. q \notin contested' => request'[q] = request[q]
      BY <3>2, <3>4, <3>5, RequestStep DEF RequestChange
    <3>. QED  BY <1>6, <2>2, <3>1, <3>3, <3>5, <3>6 DEF StillAsRead
  <2>. QED  BY <2>1, <2>2
<1>. QED  BY <1>2, <1>3, <1>4, <1>5, <1>6, HandlerStep DEF Fresh

\* A row on a member's trail is one removal more if it is one.
LEMMA TrailRow ==
  ASSUME TypeInv, NEW m \in Members, NEW row \in Change, trail'[m] = Append(trail[m], row)
  PROVE  LET n == Len(trail[m]) + 1 IN
         /\ Removals(m)' = IF row.to = "EXITED" THEN Removals(m) \cup {n} ELSE Removals(m)
         /\ n \notin Removals(m) /\ trail'[m][n] = row
         /\ \A i \in Removals(m) : trail'[m][i] = trail[m][i]
         /\ IsFiniteSet(Removals(m))
<1>. DEFINE n == Len(trail[m]) + 1
<1>1. trail[m] \in Seq(Change)
  BY DEF TypeInv, TypeOK
<1>2. /\ DOMAIN trail[m] = 1..(n - 1) /\ DOMAIN trail'[m] = 1..n /\ n \in Nat
      /\ \A i \in 1..(n - 1) : trail'[m][i] = trail[m][i]
      /\ trail'[m][n] = row
  BY <1>1, AppendProperties, LenProperties
<1>3. IsFiniteSet(Removals(m))
  <2>1. IsFiniteSet(1..(n - 1))
    BY <1>2, FS_Interval
  <2>. QED  BY <1>2, <2>1, FS_Subset DEF Removals
<1>. HIDE DEF n
<1>4. n \notin Removals(m) /\ \A i \in Removals(m) : trail'[m][i] = trail[m][i]
  BY <1>2 DEF Removals
<1>5. 1..n = 1..(n - 1) \cup {n}
  BY <1>2
<1>6. Removals(m)' = IF row.to = "EXITED" THEN Removals(m) \cup {n} ELSE Removals(m)
  BY <1>2, <1>5 DEF Removals
<1>. QED  BY <1>2, <1>3, <1>4, <1>6 DEF n

\* Where a member's trail and his confirmed requests stand, nothing is to show.
LEMMA AnsweredKept ==
  ASSUME TypeInv, Answered, [Next]_vars, NEW m \in Members, makerChecker,
         Removals(m)' = Removals(m), \A i \in Removals(m) : trail'[m][i] = trail[m][i],
         Confirmed(m)' = Confirmed(m)
  PROVE  /\ \A i \in Removals(m)' : \E q \in RequestsAbout(m)' : request'[q].by # trail'[m][i].by
         /\ IsFiniteSet(Confirmed(m)')
         /\ RequestsAbout(m)' \cap contested' = {} =>
               Cardinality(Removals(m)') = Cardinality(Confirmed(m)')
<1>1. \A q \in RequestsAbout(m) : q \in RequestsAbout(m)' /\ request'[q].by = request[q].by
  BY RequestsStay
<1>2. contested \subseteq contested'
  <2>1. CASE Handlers = {}
    BY <2>1 DEF Next, NextDay, vars
  <2>2. CASE Handlers # {}
    BY <2>2, AboutStep
  <2>. QED  BY <2>1, <2>2
<1>3. RequestsAbout(m)' \cap contested' = {} => RequestsAbout(m) \cap contested = {}
  BY <1>1, <1>2
<1>. QED  BY <1>1, <1>3 DEF Answered

LEMMA NextAnswered ==
  ASSUME TypeInv, RemovalsInv, [Next]_vars
  PROVE  Answered'
<1>. DEFINE Good(m) ==
        /\ \A i \in Removals(m)' : \E q \in RequestsAbout(m)' : request'[q].by # trail'[m][i].by
        /\ IsFiniteSet(Confirmed(m)')
        /\ RequestsAbout(m)' \cap contested' = {} =>
              Cardinality(Removals(m)') = Cardinality(Confirmed(m)')
<1>1. makerChecker' = makerChecker
  <2>1. \A g \in Handlers : End(g) \/ (\E call : Authorise(g, call) \/ Reads(g, call)) =>
           makerChecker' = makerChecker
    BY DEF End, Authorise, Reads
  <2>2. CASE NextDay \/ UNCHANGED vars
    BY <2>2 DEF NextDay, vars
  <2>. QED
    BY <2>1, <2>2
    DEF Next, ChangeStatus, Resolve, Grant, Revoke, StatusRead, ConfirmRead, CancelRead, GrantRead,
        RevokeRead, RequestRemoval, StatusCommit, ConfirmCommit, CancelCommit, GrantCommit,
        RevokeCommit, Refused
<1>2. ASSUME makerChecker, NEW m \in Members, trail'[m] = trail[m], Confirmed(m)' = Confirmed(m)
      PROVE  Good(m)
  <2>1. Removals(m)' = Removals(m)
    BY <1>2 DEF Removals
  <2>. QED  BY <1>2, <2>1, AnsweredKept DEF RemovalsInv
<1>3. ASSUME makerChecker, NEW m \in Members, UNCHANGED <<trail, request>>
      PROVE  Good(m)
  <2>1. Confirmed(m)' = Confirmed(m)
    BY <1>3 DEF Confirmed, RequestsAbout
  <2>. QED  BY <1>2, <1>3, <2>1
<1>4. ASSUME makerChecker, NEW m \in Members, NEW h \in Handlers, NEW q \in Requests,
             RequestRemoval(h, q)
      PROVE  Good(m)
  <2>1. /\ trail' = trail /\ request[q] = Absent /\ request'[q].state = "PENDING"
        /\ \A p \in Requests : p # q => request'[p] = request[p]
    BY <1>4 DEF RequestRemoval, TypeInv, TypeOK
  <2>2. Confirmed(m)' = Confirmed(m)
    BY <2>1 DEF Confirmed, RequestsAbout
  <2>. QED  BY <1>2, <1>4, <2>1, <2>2
<1>5. ASSUME makerChecker, NEW m \in Members, NEW h \in Handlers, StatusCommit(h) PROVE Good(m)
  <2>1. handler[h] \in StatusCall /\ handler[h].to # "EXITED" /\ handler[h] # Idle
    BY <1>5, CallByOp DEF StatusCommit, Serving, TypeInv, RemovalsInv, StillAsRead, Idle
  <2>2. PICK from \in Standings : ApplyStatus(handler[h].on, from, handler[h].to, handler[h].by)
    BY <1>5, <2>1 DEF StatusCommit, StatusCall
  <2>3. Confirmed(m)' = Confirmed(m)
    BY <1>5 DEF StatusCommit, Confirmed, RequestsAbout
  <2>4. CASE m # handler[h].on
    <3>1. trail'[m] = trail[m]
      BY <2>2, <2>4 DEF ApplyStatus, TypeInv, TypeOK
    <3>. QED  BY <1>2, <1>5, <2>3, <3>1
  <2>5. CASE m = handler[h].on
    <3>. DEFINE row == [by |-> handler[h].by, from |-> from, to |-> handler[h].to]
    <3>1. trail'[m] = Append(trail[m], row)
      BY <2>2, <2>5 DEF ApplyStatus, TypeInv, TypeOK
    <3>2. row \in Change /\ row.to # "EXITED"
      BY <2>1 DEF Change, StatusCall
    <3>. HIDE DEF row
    <3>3. Removals(m)' = Removals(m) /\ \A i \in Removals(m) : trail'[m][i] = trail[m][i]
      BY <3>1, <3>2, TrailRow
    <3>. QED  BY <1>5, <2>3, <3>3, AnsweredKept DEF RemovalsInv
  <2>. QED  BY <2>4, <2>5
<1>6. ASSUME makerChecker, NEW m \in Members, NEW h \in Handlers, CancelCommit(h) PROVE Good(m)
  <2>1. PICK q \in Requests : handler[h].on = q /\ request[q] # Absent
    BY <1>6, CallByOp DEF CancelCommit, Serving, RemovalCall, TypeInv, OnRecord
  <2>2. /\ trail' = trail /\ \A p \in Requests : p # q => request'[p] = request[p]
        /\ request' = [request EXCEPT ![q] = [@ EXCEPT !.state = "CANCELLED",
                                                       !.cancelledBy = {handler[h].by}]]
    BY <1>6, <2>1 DEF CancelCommit, TypeInv, TypeOK
  <2>3. request[q] \in Present
    BY <2>1 DEF TypeInv, TypeOK
  <2>4. request'[q].state = "CANCELLED" /\ request'[q].member = request[q].member
    BY <2>2, <2>3 DEF Present, TypeInv, TypeOK
  <2>5. CASE request[q].state = "PENDING" \/ request[q].member # m
    <3>1. Confirmed(m)' = Confirmed(m)
      BY <2>2, <2>4, <2>5 DEF Confirmed, RequestsAbout
    <3>. QED  BY <1>2, <1>6, <2>2, <3>1
  <2>6. CASE request[q].state # "PENDING" /\ request[q].member = m
    <3>1. q \in contested
      BY <1>6, <2>1, <2>6 DEF CancelCommit, Serving, RemovalsInv, StillAsRead, Idle
    <3>2. q \in RequestsAbout(m)' /\ q \in contested'
      BY <2>1, <2>6, <3>1, RequestsStay, AboutStep DEF RequestsAbout
    <3>3. Confirmed(m)' \subseteq Confirmed(m)
      BY <2>2, <2>4 DEF Confirmed, RequestsAbout
    <3>4. IsFiniteSet(Confirmed(m)')
      BY <1>6, <3>3, FS_Subset DEF RemovalsInv, Answered
    <3>5. \A i \in Removals(m)' : i \in Removals(m) /\ trail'[m][i] = trail[m][i]
      BY <2>2 DEF Removals
    <3>. QED  BY <1>6, <3>2, <3>4, <3>5, RequestsStay DEF RemovalsInv, Answered
  <2>. QED  BY <2>5, <2>6
<1>7. ASSUME makerChecker, NEW m \in Members, NEW h \in Handlers, ConfirmCommit(h) PROVE Good(m)
  <2>1. PICK q \in Requests : handler[h].on = q /\ request[q] # Absent
    BY <1>7, CallByOp DEF ConfirmCommit, Serving, RemovalCall, TypeInv, OnRecord
  <2>2. handler[h] \in RemovalCall /\ request[q].by # handler[h].by /\ request[q] \in Present
    BY <1>7, <2>1, CallByOp
    DEF ConfirmCommit, Serving, TypeInv, TypeOK, RemovalsInv, StillAsRead, Idle
  <2>3. /\ \A p \in Requests : p # q => request'[p] = request[p]
        /\ request' = [request EXCEPT ![q] = [@ EXCEPT !.state = "CONFIRMED",
                                                       !.confirmedBy = {handler[h].by}]]
    BY <1>7, <2>1 DEF ConfirmCommit, TypeInv, TypeOK
  <2>4. /\ request'[q].state = "CONFIRMED" /\ request'[q].member = request[q].member
        /\ request'[q].by = request[q].by
    BY <2>2, <2>3 DEF Present, TypeInv, TypeOK
  <2>5. PICK from \in Standings : ApplyStatus(request[q].member, from, "EXITED", handler[h].by)
    BY <1>7, <2>1, <2>2 DEF ConfirmCommit, RemovalCall
  <2>6. CASE request[q].member # m
    <3>1. trail'[m] = trail[m]
      BY <2>5, <2>6 DEF ApplyStatus, TypeInv, TypeOK
    <3>2. Confirmed(m)' = Confirmed(m)
      BY <2>3, <2>4, <2>6 DEF Confirmed, RequestsAbout
    <3>. QED  BY <1>2, <1>7, <3>1, <3>2
  <2>7. CASE request[q].member = m
    <3>. DEFINE row == [by |-> handler[h].by, from |-> from, to |-> "EXITED"]
                n == Len(trail[m]) + 1
    <3>1. trail'[m] = Append(trail[m], row)
      BY <2>5, <2>7 DEF ApplyStatus, TypeInv, TypeOK
    <3>2. row \in Change /\ row.to = "EXITED" /\ row.by = handler[h].by
      BY <2>2, Assumed DEF Change, RemovalCall
    <3>. HIDE DEF row
    <3>3. /\ Removals(m)' = Removals(m) \cup {n} /\ n \notin Removals(m)
          /\ trail'[m][n] = row /\ \A i \in Removals(m) : trail'[m][i] = trail[m][i]
          /\ IsFiniteSet(Removals(m))
      BY <3>1, <3>2, TrailRow
    <3>. HIDE DEF n
    <3>4. q \in RequestsAbout(m) /\ q \in RequestsAbout(m)'
      BY <2>1, <2>7, RequestsStay DEF RequestsAbout
    <3>5. Confirmed(m)' = Confirmed(m) \cup {q}
      <4>1. \A p \in Requests : p # q => (p \in RequestsAbout(m)' <=> p \in RequestsAbout(m))
        BY <2>3 DEF RequestsAbout
      <4>2. \A p \in Requests : p # q => (p \in Confirmed(m)' <=> p \in Confirmed(m))
        BY <2>3, <4>1 DEF Confirmed
      <4>3. q \in Confirmed(m)'
        BY <2>4, <3>4 DEF Confirmed
      <4>4. Confirmed(m) \subseteq Requests /\ Confirmed(m)' \subseteq Requests
        BY DEF Confirmed, RequestsAbout
      <4>. QED  BY <4>2, <4>3, <4>4
    <3>6. IsFiniteSet(Confirmed(m)) /\ IsFiniteSet(Confirmed(m)')
      BY <1>7, <3>5, FS_AddElement DEF RemovalsInv, Answered
    <3>7. ASSUME NEW i \in Removals(m)'
          PROVE  \E p \in RequestsAbout(m)' : request'[p].by # trail'[m][i].by
      <4>1. CASE i \in Removals(m)
        BY <1>7, <3>3, <4>1, RequestsStay DEF RemovalsInv, Answered
      <4>2. CASE i = n
        BY <2>2, <2>4, <3>2, <3>3, <3>4, <4>2
      <4>. QED  BY <3>3, <4>1, <4>2
    <3>8. ASSUME RequestsAbout(m)' \cap contested' = {}
          PROVE  Cardinality(Removals(m)') = Cardinality(Confirmed(m)')
      <4>1. contested \subseteq contested'
        BY AboutStep
      <4>2. RequestsAbout(m) \cap contested = {} /\ q \notin contested
        BY <3>4, <3>8, <4>1, RequestsStay
      <4>3. request[q].state = "PENDING"
        BY <1>7, <2>1, <4>2 DEF ConfirmCommit, Serving, RemovalsInv, StillAsRead, Idle
      <4>4. q \notin Confirmed(m)
        BY <4>3 DEF Confirmed
      <4>5. Cardinality(Removals(m)) = Cardinality(Confirmed(m))
        BY <1>7, <4>2 DEF RemovalsInv, Answered
      <4>6. Cardinality(Removals(m)') = Cardinality(Removals(m)) + 1
        BY <3>3, FS_AddElement
      <4>7. Cardinality(Confirmed(m)') = Cardinality(Confirmed(m)) + 1
        BY <3>5, <3>6, <4>4, FS_AddElement
      <4>. QED  BY <4>5, <4>6, <4>7
    <3>. QED  BY <3>6, <3>7, <3>8
  <2>. QED  BY <2>6, <2>7
<1>8. ASSUME makerChecker, NEW m \in Members PROVE Good(m)
  <2>. HIDE DEF Good
  <2>1. \A h \in Handlers :
           (\E call : Authorise(h, call) \/ Reads(h, call)) \/ GrantCommit(h) \/ RevokeCommit(h)
              \/ Refused(h) => UNCHANGED <<trail, request>>
    BY DEF Authorise, Reads, GrantCommit, RevokeCommit, Refused, rows
  <2>2. CASE NextDay \/ UNCHANGED vars
    BY <1>3, <1>8, <2>2 DEF NextDay, vars, rows
  <2>. QED
    BY <1>3, <1>4, <1>5, <1>6, <1>7, <1>8, <2>1, <2>2
    DEF Next, ChangeStatus, Resolve, Grant, Revoke, StatusRead, ConfirmRead, CancelRead, GrantRead,
        RevokeRead
<1>. QED  BY <1>1, <1>8 DEF Answered

\* "A different admin than the requester signs off, and only then does the
\* member actually become EXITED" (changeStatus, confirmRemoval): nobody asks for
\* his own removal, and with maker-checker every removal answers a request of
\* another administrator's, one each unless two calls were about one at once.
THEOREM TwoForARemoval == Spec => []RemovedByTwo
<1>1. Init => TypeInv /\ RemovalsInv
  BY InitTypeInv, InitRemovalsInv
<1>2. TypeInv /\ RemovalsInv /\ [Next]_vars => TypeInv' /\ RemovalsInv'
  BY NextTypeInv, NextCallsMet, NextNotByHimself, NextStillAsRead, NextAnswered DEF RemovalsInv
<1>3. RemovalsInv => RemovedByTwo
  BY DEF RemovalsInv, NotByHimself, Answered, RemovedByTwo, RequestsAbout, Confirmed
<1>. QED  BY <1>1, <1>2, <1>3, PTL DEF Spec
-----------------------------------------------------------------------------
(* Nobody serves beyond the limit of terms. *)

\* A member who was found eligible for a seat may still serve.
ServesStill ==
    \A h \in Handlers :
        /\ handler[h].op = "grant" /\ handler[h].phase = "read"
        /\ handler[h].on \in Seats \ contested
        => MayServe(handler[h].on, handler[h].member)

\* A revocation ends a term no later than it has ended by now.
EndsEarlier ==
    \A h \in Handlers :
        /\ handler[h].op = "revoke" /\ handler[h].phase = "read"
        /\ assigned[handler[h].on].grant \in Seats \ contested
        => \A e \in assigned[handler[h].on].end : handler[h].at <= e

TermsInv == CallsMet /\ DatesInv /\ ServesStill /\ EndsEarlier /\ TermLimitKept

LEMMA InitTermsInv == Init => TermsInv
<1>. SUFFICES ASSUME Init PROVE TermsInv
  OBVIOUS
<1>1. CallsMet /\ DatesInv
  BY InitCallsMet, InitDatesInv
<1>2. \A h \in Handlers : handler[h].op = "idle"
  BY DEF Init, Idle
<1>3. ServesStill /\ EndsEarlier
  BY <1>2 DEF ServesStill, EndsEarlier
<1>4. \A s \in Seats : TermsOf(s) = {}
  BY FirstRows, Assumed DEF TermsOf
<1>5. TermLimitKept
  BY <1>4 DEF TermLimitKept
<1>. QED  BY <1>1, <1>3, <1>5 DEF TermsInv

\* The terms of a seat stay, each another's after as before.  A new one is the
\* newest of all and fills the seat of the call that commits.
LEMMA TermsStep ==
  ASSUME TypeInv, [Next]_vars, NEW s \in Seats
  PROVE  /\ TermsOf(s) \subseteq DOMAIN assigned /\ TermsOf(s) \subseteq Nat
         /\ TermsOf(s)' \subseteq Nat
         /\ \A i \in TermsOf(s) : i \in TermsOf(s)' /\ assigned'[i].member = assigned[i].member
         /\ \A i \in TermsOf(s)' \ TermsOf(s) :
               /\ NewRow(i) /\ \A j \in DOMAIN assigned : j < i
               /\ \A j \in TermsOf(s)' : j < i => j \in TermsOf(s)
<1>1. /\ \A i \in DOMAIN assigned : RowChange(i)
      /\ \A i \in DOMAIN assigned' : i \in DOMAIN assigned \/ NewRow(i)
      /\ Len(assigned) \in Nat /\ DOMAIN assigned = 1..Len(assigned)
  BY RowsStep, RowsType DEF TypeInv
<1>2. \A i \in DOMAIN assigned : i \in TermsOf(s)' <=> i \in TermsOf(s)
  BY <1>1 DEF TermsOf, RowChange
<1>3. \A i \in DOMAIN assigned' : i \notin DOMAIN assigned => i = Len(assigned) + 1
  BY <1>1 DEF NewRow
<1>4. TermsOf(s) \subseteq DOMAIN assigned /\ TermsOf(s)' \subseteq DOMAIN assigned'
  BY DEF TermsOf
<1>5. TermsOf(s)' \subseteq Nat
  BY <1>1, <1>3, <1>4
<1>6. \A i \in TermsOf(s) : i \in TermsOf(s)' /\ assigned'[i].member = assigned[i].member
  BY <1>1, <1>2, <1>4 DEF RowChange
<1>7. ASSUME NEW i \in TermsOf(s)' \ TermsOf(s)
      PROVE  /\ NewRow(i) /\ \A j \in DOMAIN assigned : j < i
             /\ \A j \in TermsOf(s)' : j < i => j \in TermsOf(s)
  <2>1. i \notin DOMAIN assigned /\ i = Len(assigned) + 1
    BY <1>2, <1>3, <1>4, <1>7
  <2>2. \A j \in TermsOf(s)' : j < i => j \in DOMAIN assigned
    BY <1>1, <1>3, <1>4, <2>1
  <2>. QED  BY <1>1, <1>2, <1>4, <2>1, <2>2
<1>. QED  BY <1>1, <1>4, <1>5, <1>6, <1>7

\* The end of a term that is over is only ever moved earlier.
LEMMA EndsStay ==
  ASSUME TypeInv, EndsEarlier, [Next]_vars, NEW i \in DOMAIN assigned,
         assigned[i].grant \in Seats \ contested, NEW e \in assigned[i].end, e <= day
  PROVE  e \in Nat /\ \E f \in assigned'[i].end : f \in Nat /\ f <= e
<1>1. e \in Nat /\ day \in Nat
  BY RowsType DEF Assignment, TypeInv
<1>2. RowChange(i)
  BY RowsStep
<1>3. ~InForce(assigned[i])
  BY <1>1 DEF InForce
<1>4. ASSUME NEW h \in Handlers, RevokeCommit(h), handler[h].on = i
      PROVE  handler[h].at \in Nat /\ handler[h].at <= e
  <2>1. handler[h].at \in Nat
    BY <1>4, CallByOp, RowsType DEF RevokeCommit, Serving, RevokeCall, TypeInv
  <2>. QED  BY <1>4, <2>1 DEF RevokeCommit, Serving, EndsEarlier
<1>. QED  BY <1>1, <1>2, <1>3, <1>4 DEF RowChange

LEMMA NextEndsEarlier ==
  ASSUME TypeInv, CallsMet, DatesInv, EndsEarlier, [Next]_vars
  PROVE  EndsEarlier'
<1>. SUFFICES ASSUME NEW h \in Handlers, handler'[h].op = "revoke", handler'[h].phase = "read",
                     assigned'[handler'[h].on].grant \in Seats \ contested'
              PROVE  \A e \in assigned'[handler'[h].on].end : handler'[h].at <= e
  BY DEF EndsEarlier
<1>1. contested \subseteq contested'
  BY AboutStep
<1>2. CASE RevokeRead(h)
  <2>1. handler'[h].on = handler[h].on /\ handler'[h].at = day /\ assigned' = assigned
    BY <1>2, ReadStep DEF RevokeRead, Serving
  <2>2. InForce(assigned[handler[h].on]) /\ assigned[handler[h].on] \in Assignment
    BY <1>2, RowsType DEF RevokeRead, Serving, TypeInv, OnRecord
  <2>. QED  BY <2>1, <2>2, RowsType DEF InForce, Assignment, TypeInv
<1>3. CASE StatusRead(h) \/ ConfirmRead(h) \/ CancelRead(h) \/ GrantRead(h)
  BY <1>3, ReadStep DEF StatusRead, ConfirmRead, CancelRead, GrantRead, Serving
<1>4. CASE handler'[h] = handler[h]
  <2>1. PICK i \in DOMAIN assigned : handler[h].on = i
    BY <1>4 DEF TypeInv, OnRecord
  <2>2. RowChange(i)
    BY RowsStep
  <2>3. assigned[i].grant \in Seats \ contested
    BY <1>1, <1>4, <2>1, <2>2 DEF RowChange
  <2>4. handler[h].at <= day
    BY <1>4 DEF DatesInv
  <2>5. ASSUME NEW g \in Handlers, RevokeCommit(g), handler[g].on = i PROVE FALSE
    <3>1. handler[g].op = "revoke" /\ handler'[g] = Idle
      BY <2>5 DEF RevokeCommit, Serving, End, TypeInv, TypeOK
    <3>2. g # h
      BY <1>4, <3>1 DEF Idle
    <3>3. assigned[i].grant \in About(handler[g]) /\ assigned[i].grant \in About(handler[h])
      BY <1>4, <2>1, <2>3, <2>5, <3>1, CallByOp, AboutType DEF TypeInv
    <3>. QED  BY <2>3, <3>2, <3>3 DEF CallsMet
  <2>6. \A e \in assigned[i].end : handler[h].at <= e
    BY <1>4, <2>1, <2>3 DEF EndsEarlier
  <2>. QED  BY <1>4, <2>1, <2>2, <2>4, <2>5, <2>6 DEF RowChange
<1>. QED  BY <1>2, <1>3, <1>4, HandlerStep DEF Fresh, Idle

LEMMA NextServesStill ==
  ASSUME TypeInv, CallsMet, EndsEarlier, ServesStill, [Next]_vars
  PROVE  ServesStill'
<1>. SUFFICES ASSUME NEW h \in Handlers, handler'[h].op = "grant", handler'[h].phase = "read",
                     handler'[h].on \in Seats \ contested'
              PROVE  MayServe(handler[h].on, handler[h].member)'
  BY DEF ServesStill
<1>1. contested \subseteq contested'
  BY AboutStep
<1>2. CASE GrantRead(h)
  <2>1. /\ handler'[h].on = handler[h].on /\ handler'[h].member = handler[h].member
        /\ assigned' = assigned /\ day' = day
    BY <1>2, ReadStep DEF GrantRead, Serving
  <2>2. MayServe(handler[h].on, handler[h].member)
    BY <1>2, <2>1 DEF GrantRead
  <2>. QED  BY <2>1, <2>2 DEF MayServe, TermsOf, Consecutive, IsNewest, HasCooledOff
<1>3. CASE StatusRead(h) \/ ConfirmRead(h) \/ CancelRead(h) \/ RevokeRead(h)
  BY <1>3, ReadStep DEF StatusRead, ConfirmRead, CancelRead, RevokeRead, Serving
<1>4. CASE handler'[h] = handler[h]
  <2>1. PICK s \in Seats, m \in Members : handler[h].on = s /\ handler[h].member = m
    BY <1>4, CallByOp DEF GrantCall, TypeInv
  <2>2. s \notin contested /\ MayServe(s, m)
    BY <1>1, <1>4, <2>1 DEF ServesStill
  <2>3. ASSUME NEW i \in TermsOf(s)' \ TermsOf(s) PROVE FALSE
    <3>0. NewRow(i)
      BY <2>3, TermsStep
    <3>1. PICK g \in Handlers : GrantCommit(g) /\ assigned'[i].grant = handler[g].on
      BY <3>0 DEF NewRow
    <3>2. handler[g].on = s /\ handler[g].op = "grant" /\ handler'[g] = Idle
      BY <2>3, <3>1 DEF TermsOf, GrantCommit, Serving, End, TypeInv, TypeOK
    <3>3. g # h
      BY <1>4, <3>2 DEF Idle
    <3>4. s \in About(handler[g]) /\ s \in About(handler[h])
      BY <1>4, <2>1, <3>2, CallByOp, AboutType DEF TypeInv
    <3>. QED  BY <2>2, <3>3, <3>4 DEF CallsMet
  <2>4. /\ TermsOf(s)' = TermsOf(s) /\ TermsOf(s) \subseteq DOMAIN assigned
        /\ \A i \in TermsOf(s) : assigned'[i].member = assigned[i].member
    BY <2>3, TermsStep
  <2>5. Consecutive(TermsOf(s), m)' = Consecutive(TermsOf(s), m)
    BY <2>4 DEF Consecutive
  <2>6. ASSUME NEW i \in TermsOf(s), HasCooledOff(s, assigned[i])
        PROVE  HasCooledOff(s, assigned[i])'
    <3>1. CoolingOff[s] \in Nat /\ day \in Nat /\ day' \in Nat /\ day <= day'
      BY Assumed, RowsStep
    <3>2. PICK e \in assigned[i].end : e + CoolingOff[s] <= day
      BY <2>6 DEF HasCooledOff
    <3>3. e \in Nat
      BY <2>4, RowsType DEF Assignment, TypeInv
    <3>4. PICK f \in assigned'[i].end : f \in Nat /\ f <= e
      BY <2>2, <2>4, <3>1, <3>2, <3>3, EndsStay DEF TermsOf
    <3>5. f + CoolingOff[s] <= day'
      BY <3>1, <3>2, <3>3, <3>4
    <3>. QED  BY <3>5 DEF HasCooledOff
  <2>7. MayServe(s, m)'
    BY <2>2, <2>4, <2>5, <2>6 DEF MayServe, IsNewest
  <2>. QED  BY <1>4, <2>1, <2>7
<1>. QED  BY <1>2, <1>3, <1>4, HandlerStep DEF Fresh, Idle

LEMMA NextTermLimitKept ==
  ASSUME TypeInv, TermsInv, [Next]_vars
  PROVE  TermLimitKept'
<1>. SUFFICES ASSUME NEW s \in Seats, s \notin contested', NEW i \in TermsOf(s)',
                     NEW max \in MaxTerms[s],
                     Consecutive({j \in TermsOf(s) : j < i}, assigned[i].member)' >= max
              PROVE  \E k \in TermsOf(s)' :
                        /\ k < i /\ IsNewest(k, {j \in TermsOf(s)' : j < i})
                        /\ assigned'[k].member = assigned'[i].member
                        /\ \E e \in assigned'[k].end : e + CoolingOff[s] <= assigned'[i].start
  BY DEF TermLimitKept
<1>. DEFINE before == {j \in TermsOf(s) : j < i}
            m == assigned'[i].member
<1>1. s \notin contested /\ CoolingOff[s] \in Nat
  <2>1. CASE Handlers = {}
    BY <2>1, Assumed DEF Next, NextDay, vars
  <2>2. CASE Handlers # {}
    BY <2>2, Assumed, AboutStep
  <2>. QED  BY <2>1, <2>2
<1>2. /\ TermsOf(s) \subseteq DOMAIN assigned /\ TermsOf(s)' \subseteq Nat
      /\ \A j \in TermsOf(s) : j \in TermsOf(s)' /\ assigned'[j].member = assigned[j].member
  BY TermsStep
<1>3. {j \in TermsOf(s)' : j < i} = before
  <2>1. CASE i \in TermsOf(s)
    <3>1. \A j \in TermsOf(s)' \ TermsOf(s) : i < j
      BY <1>2, <2>1, TermsStep
    <3>2. \A j \in TermsOf(s)' : j < i => j \in TermsOf(s)
      BY <1>2, <3>1
    <3>. QED  BY <1>2, <3>2
  <2>2. CASE i \notin TermsOf(s)
    BY <1>2, <2>2, TermsStep
  <2>. QED  BY <2>1, <2>2
<1>4. Consecutive({j \in TermsOf(s) : j < i}, assigned[i].member)' = Consecutive(before, m)
  BY <1>2, <1>3 DEF Consecutive
<1>5. ASSUME NEW k \in before, NEW e \in assigned[k].end, NEW d \in Nat, d <= day,
             e + CoolingOff[s] <= d
      PROVE  \E f \in assigned'[k].end : f + CoolingOff[s] <= d
  <2>1. e \in Nat /\ day \in Nat
    BY <1>2, RowsType DEF Assignment, TypeInv
  <2>2. e <= day
    BY <1>1, <1>5, <2>1
  <2>3. PICK f \in assigned'[k].end : f \in Nat /\ f <= e
    BY <1>1, <1>2, <2>2, EndsStay DEF TermsOf, TermsInv
  <2>. QED  BY <1>1, <1>5, <2>1, <2>3
<1>6. CASE i \in TermsOf(s)
  <2>1. m = assigned[i].member /\ assigned'[i].start = assigned[i].start
    BY <1>2, <1>6, RowsStep DEF RowChange
  <2>2. PICK k \in before : /\ IsNewest(k, before) /\ assigned[k].member = m
                            /\ \E e \in assigned[k].end : e + CoolingOff[s] <= assigned[i].start
    BY <1>1, <1>4, <1>6, <2>1 DEF TermsInv, TermLimitKept
  <2>3. assigned[i].start \in Nat /\ assigned[i].start <= day
    BY <1>2, <1>6, RowsType DEF Assignment, TypeInv, TermsInv, DatesInv
  <2>4. \E f \in assigned'[k].end : f + CoolingOff[s] <= assigned[i].start
    BY <1>5, <2>2, <2>3
  <2>. QED  BY <1>2, <1>3, <2>1, <2>2, <2>4
<1>7. CASE i \notin TermsOf(s)
  <2>1. before = TermsOf(s)
    BY <1>2, <1>7, TermsStep
  <2>2. PICK h \in Handlers : /\ GrantCommit(h)
                              /\ assigned'[i] = [member |-> handler[h].member,
                                                 grant |-> handler[h].on,
                                                 start |-> day, end |-> handler[h].end]
    BY <1>7, TermsStep DEF NewRow
  <2>3. m = handler[h].member /\ handler[h].on = s /\ assigned'[i].start = day
    BY <2>2 DEF TermsOf
  <2>4. MayServe(s, m)
    BY <1>1, <2>2, <2>3 DEF GrantCommit, Serving, TermsInv, ServesStill
  <2>5. PICK k \in before : /\ IsNewest(k, before) /\ assigned[k].member = m
                            /\ \E e \in assigned[k].end : e + CoolingOff[s] <= day
    BY <1>4, <2>1, <2>4 DEF MayServe, HasCooledOff
  <2>6. \E f \in assigned'[k].end : f + CoolingOff[s] <= day
    BY <1>5, <2>5, RowsType DEF TypeInv
  <2>. QED  BY <1>2, <1>3, <2>3, <2>5, <2>6
<1>. QED  BY <1>6, <1>7

\* "Term limits + cooling-off" (appointOfficer): a term beyond a body's limit of
\* consecutive ones starts only after its holder's last one ended, and after the
\* cooling-off period; unless two calls about the seat were served at once.
THEOREM TermsLimited == Spec => []TermLimitKept
<1>1. Init => TypeInv /\ TermsInv
  BY InitTypeInv, InitTermsInv
<1>2. TypeInv /\ TermsInv /\ [Next]_vars => TypeInv' /\ TermsInv'
  BY NextTypeInv, NextCallsMet, NextDatesInv, NextServesStill, NextEndsEarlier, NextTermLimitKept
  DEF TermsInv
<1>3. TermsInv => TermLimitKept
  BY DEF TermsInv
<1>. QED  BY <1>1, <1>2, <1>3, PTL DEF Spec
=============================================================================
