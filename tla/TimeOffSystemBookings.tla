------------------------ MODULE TimeOffSystemBookings ------------------------
(***************************************************************************)
(* What the requests table and the balances table say together, in every   *)
(* reachable state of TimeOffSystem: no day is booked twice, no            *)
(* idempotency key is carried twice, and reserved is the sum of what is    *)
(* PENDING.  A step writes no request, moves one active request, or        *)
(* submits one; each property needs to be looked at for these three only.  *)
(***************************************************************************)
EXTENDS TimeOffSystemAgreement

\* No request and no reservation is written.
Rests ==
  /\ UNCHANGED requests
  /\ \A k \in Keys : balances'[k].reserved = balances[k].reserved

\* An active request moves on, and its reservation goes if it had one.
Moves(r, s) ==
  /\ Active(r)
  /\ s \in Statuses \ {"PENDING"}
  /\ SetStatus(r, s)
  /\ \A k \in Keys :
       balances'[k].reserved =
         IF k = requests[r].key /\ requests[r].status = "PENDING"
           THEN Floor0(balances[k].reserved - Days(r))
           ELSE balances[k].reserved
-----------------------------------------------------------------------------
(* Every step is one of these *)

LEMMA ReservedWrite ==
  ASSUME balances \in [Keys -> BalanceRow], NEW k \in Keys, NEW n
  PROVE  /\ Reserve(k, n) =>
              \A j \in Keys : balances'[j].reserved =
                IF j = k THEN balances[j].reserved + n ELSE balances[j].reserved
         /\ Release(k, n) \/ Commit(k, n) =>
              \A j \in Keys : balances'[j].reserved =
                IF j = k THEN Floor0(balances[j].reserved - n) ELSE balances[j].reserved
         /\ Restore(k, n) \/ ApplyHcmSnapshot(k, n) =>
              \A j \in Keys : balances'[j].reserved = balances[j].reserved
<1>1. \A j \in Keys : balances[j] \in BalanceRow
  OBVIOUS
<1> QED
  BY <1>1 DEF Reserve, Release, Commit, Restore, ApplyHcmSnapshot, BalanceRow

LEMMA HandlerMoves ==
  ASSUME Inv, NEW r \in Submitted, ApprovePast(r) \/ Reject(r) \/ Cancel(r) \/ SweepOne(r)
  PROVE  \E s : Moves(r, s)
<1> DEFINE k == requests[r].key
<1>1. k \in Keys /\ balances \in [Keys -> BalanceRow]
  BY RequestTypes DEF Inv, TypeOK
<1>2. Active(r)
  BY DEF ApprovePast, MayApprove, Reject, Cancel, SweepOne, Expire,
         Active, ActiveStatuses, Statuses, TerminalStatuses
<1>3. \/ requests[r].status = "PENDING" /\ Release(k, Days(r))
      \/ requests[r].status # "PENDING" /\ Restore(k, Days(r))
  BY DEF ApprovePast, MayApprove, Reject, Cancel, SweepOne, Expire
<1>4. PICK s \in TerminalStatuses : SetStatus(r, s)
  BY DEF ApprovePast, Reject, Cancel, SweepOne, Expire, TerminalStatuses
<1>5. s \in Statuses \ {"PENDING"}
  BY DEF TerminalStatuses, Statuses
<1> QED
  BY <1>1, <1>2, <1>3, <1>4, <1>5, ReservedWrite DEF Moves

LEMMA ApproveEndMoves ==
  ASSUME Inv, NEW k \in Keys, ApproveReject(k) \/ ApproveCommit(k)
  PROVE  \E r \in Submitted, s \in Statuses : Moves(r, s)
<1>1. PICK r \in Submitted :
        r = lock[k].req /\ requests[r].key = k /\ requests[r].status = "PENDING"
  BY DEF ApproveReject, ApproveCommit, Inv, StillRight
<1>2. Active(r)
  BY <1>1 DEF Active, ActiveStatuses, Statuses, TerminalStatuses
<1>3. Release(k, Days(r)) \/ Commit(k, Days(r))
  BY <1>1 DEF ApproveReject, ApproveCommit
<1>4. PICK s \in Statuses \ {"PENDING"} : SetStatus(r, s)
  BY <1>1 DEF ApproveReject, ApproveCommit, Statuses
<1>5. Moves(r, s)
  BY <1>1, <1>2, <1>3, <1>4, ReservedWrite DEF Moves, Inv, TypeOK
<1> QED
  BY <1>5

LEMMA DispatchMoves ==
  ASSUME Inv, NEW k \in Keys, DispatchEnd(k)
  PROVE  Rests \/ \E r \in Submitted, s \in Statuses : Moves(r, s)
<1>1. lock[k].by = "dispatch"
  BY DEF DispatchEnd, DispatchAcked, DispatchAckClash, DispatchRetryLater,
         DispatchFileCap, DispatchReverseCap
<1>2. PICK i \in DOMAIN outbox :
        /\ i = lock[k].row
        /\ requests[outbox[i].req].key = k
        /\ outbox[i].op = "FILE" => requests[outbox[i].req].status = "PENDING_SYNC"
  BY <1>1 DEF Inv, StillRight
<1>3. PICK r \in Submitted : r = outbox[i].req
  BY DEF Inv, ReferencesResolve
<1>4. balances \in [Keys -> BalanceRow]
  BY DEF Inv, TypeOK
<1>5. CASE DispatchAcked(k) /\ outbox[i].op = "FILE"
  <2>1. Moves(r, "APPROVED")
    BY <1>2, <1>3, <1>5
    DEF DispatchAcked, Moves, Active, ActiveStatuses, Statuses, TerminalStatuses
  <2> QED
    BY <2>1 DEF Statuses
<1>6. CASE DispatchFileCap(k)
  <2>1. /\ requests[r].status = "PENDING_SYNC"
        /\ Restore(k, Days(r))
        /\ SetStatus(r, "REJECTED")
    BY <1>2, <1>3, <1>6 DEF DispatchFileCap
  <2>2. \A j \in Keys : balances'[j].reserved = balances[j].reserved
    BY <1>4, <2>1, ReservedWrite
  <2>3. Moves(r, "REJECTED")
    BY <2>1, <2>2 DEF Moves, Active, ActiveStatuses, Statuses, TerminalStatuses
  <2> QED
    BY <2>3 DEF Statuses
<1>7. CASE UNCHANGED <<requests, balances>>
  BY <1>7 DEF Rests
<1> QED
  BY <1>2, <1>5, <1>6, <1>7
  DEF DispatchEnd, DispatchAcked, DispatchAckClash, DispatchRetryLater, DispatchReverseCap

LEMMA StepMoves ==
  ASSUME Inv, [Next]_vars
  PROVE  \/ Rests
         \/ \E r \in Submitted, s \in Statuses : Moves(r, s)
         \/ \E k \in Keys, range \in Ranges, i \in IdemKeys, r \in Requests :
              Submit(r, k, range, i)
<1>1. CASE UNCHANGED <<requests, balances>>
  BY <1>1 DEF Rests
<1>2. CASE \E k \in Keys : HydrateApply(k) \/ ApproveSnapshot(k)
  BY <1>2, ReservedWrite DEF HydrateApply, ApproveSnapshot, Rests, Inv, TypeOK
<1>3. CASE \E r \in Submitted : ApprovePast(r) \/ Reject(r) \/ Cancel(r) \/ SweepOne(r)
  <2>1. \E r \in Submitted : \E s : Moves(r, s)
    BY <1>3, HandlerMoves
  <2> QED
    BY <2>1 DEF Moves
<1>4. CASE \E k \in Keys : ApproveReject(k) \/ ApproveCommit(k)
  BY <1>4, ApproveEndMoves
<1>5. CASE \E k \in Keys : DispatchEnd(k)
  BY <1>5, DispatchMoves
<1>6. CASE Client
  BY <1>1, <1>6 DEF Client, SubmitHangs
<1>7. CASE \/ Tick \/ Crash
           \/ \E r \in Submitted : ApproveRefresh(r) \/ ServeFile(r) \/ ServeReverse(r)
           \/ \E k \in Keys : HydrateRead(k) \/ HydrateDegraded(k) \/ Refresh(k)
           \/ \E i \in DOMAIN outbox : DispatchBegin(i)
           \/ UNCHANGED vars
  BY <1>1, <1>7
  DEF Tick, Crash, ApproveRefresh, ServeFile, ServeReverse, HydrateRead, HydrateDegraded,
      Refresh, DispatchBegin, vars, serviceVars
<1> QED
  BY <1>2, <1>3, <1>4, <1>5, <1>6, <1>7 DEF Next, Handler, Resume

\* What submit writes.
LEMMA SubmitWrites ==
  ASSUME Inv, NEW k \in Keys, NEW range \in Ranges, NEW i \in IdemKeys, NEW r \in Requests,
         Submit(r, k, range, i)
  PROVE  /\ r \notin Submitted
         /\ Submitted' = Submitted \cup {r}
         /\ requests'[r] = NewRequest(k, range, i)
         /\ \A q \in Submitted :
              /\ requests'[q].key = requests[q].key
              /\ requests'[q].start = requests[q].start
              /\ requests'[q].end = requests[q].end
              /\ requests'[q].status = requests[q].status
              /\ requests'[q].idem = IF requests[q].idem = i THEN Retired ELSE requests[q].idem
<1>1. \A q \in Submitted : requests[q] \in RequestRow
  BY DEF Inv, TypeOK
<1> QED
  BY <1>1 DEF Submit, Submitted, Rekeyed, RequestRow

\* What a move writes.
LEMMA MoveWrites ==
  ASSUME Inv, NEW r \in Submitted, NEW s, SetStatus(r, s)
  PROVE  /\ Submitted' = Submitted
         /\ requests'[r] = [requests[r] EXCEPT !.status = s]
         /\ \A q \in Submitted \ {r} : requests'[q] = requests[q]
         /\ \A q \in Submitted :
              /\ requests'[q].key = requests[q].key
              /\ requests'[q].start = requests[q].start
              /\ requests'[q].end = requests[q].end
              /\ requests'[q].idem = requests[q].idem
<1>1. /\ \A q \in Submitted : requests[q] \in RequestRow
      /\ requests \in [Submitted -> RequestRow]
  BY DEF Inv, TypeOK
<1>2. requests' = [requests EXCEPT ![r].status = s]
  BY DEF SetStatus
<1>3. requests'[r] = [requests[r] EXCEPT !.status = s]
  BY <1>1, <1>2
<1>4. \A q \in Submitted \ {r} : requests'[q] = requests[q]
  BY <1>1, <1>2
<1> QED
  BY <1>1, <1>2, <1>3, <1>4 DEF RequestRow, Submitted
-----------------------------------------------------------------------------
(* Days and idempotency keys *)

LEMMA DaysBookedOnce ==
  ASSUME Inv, NoDoubleBooking, [Next]_vars
  PROVE  NoDoubleBooking'
<1>1. CASE Rests
  BY <1>1 DEF Rests, NoDoubleBooking, Active, Dates, Submitted
<1>2. CASE \E r \in Submitted, s \in Statuses : Moves(r, s)
  <2>1. PICK r \in Submitted, s \in Statuses : Moves(r, s)
    BY <1>2
  <2>2. /\ Submitted' = Submitted
        /\ \A q \in Submitted : /\ Active(q)' => Active(q)
                                /\ requests'[q].key = requests[q].key
                                /\ Dates(q)' = Dates(q)
    BY <2>1, MoveWrites DEF Moves, Active, Dates
  <2> QED
    BY <2>2 DEF NoDoubleBooking
<1>3. CASE \E k \in Keys, range \in Ranges, i \in IdemKeys, r \in Requests :
             Submit(r, k, range, i)
  <2>1. PICK k \in Keys, range \in Ranges, i \in IdemKeys, r \in Requests :
          Submit(r, k, range, i)
    BY <1>3
  <2>2. /\ Submitted' = Submitted \cup {r}
        /\ \A q \in Submitted : /\ requests'[q].key = requests[q].key
                                /\ requests'[q].start = requests[q].start
                                /\ requests'[q].end = requests[q].end
                                /\ requests'[q].status = requests[q].status
        /\ requests'[r] = NewRequest(k, range, i)
    BY <2>1, SubmitWrites
  <2>3. /\ requests'[r].key = k
        /\ Dates(r)' = range.start .. range.end
        /\ \A q \in Submitted : Active(q)' = Active(q) /\ Dates(q)' = Dates(q)
    BY <2>2 DEF Active, Dates, NewRequest
  <2>4. ASSUME NEW q \in Submitted, Active(q), requests[q].key = k
        PROVE  Dates(q) \cap (range.start .. range.end) = {}
    <3>1. requests[q].start > range.end \/ requests[q].end < range.start
      <4>1. ~Overlaps(requests[q], range)
        BY <2>1, <2>4 DEF Submit, MaySubmit, OverlapsActive
      <4>2. /\ requests[q].start \in Nat /\ requests[q].end \in Nat
            /\ range.start \in Nat /\ range.end \in Nat
        BY RequestTypes, RangesAssumption DEF Inv, RequestRow
      <4> QED
        BY <4>1, <4>2 DEF Overlaps
    <3>2. /\ requests[q].start \in Nat /\ requests[q].end \in Nat
          /\ range.start \in Nat /\ range.end \in Nat
      BY RequestTypes, RangesAssumption DEF Inv, RequestRow
    <3> QED
      BY <3>1, <3>2 DEF Dates
  <2>5. \A q \in Submitted :
          Active(q)' /\ requests'[q].key = requests'[r].key => Dates(q)' \cap Dates(r)' = {}
    BY <2>2, <2>3, <2>4
  <2>6. \A p, q \in Submitted :
          p # q /\ Active(p)' /\ Active(q)' /\ requests'[p].key = requests'[q].key
            => Dates(p)' \cap Dates(q)' = {}
    BY <2>2, <2>3 DEF NoDoubleBooking
  <2> QED
    BY <2>2, <2>5, <2>6 DEF NoDoubleBooking
<1> QED
  BY <1>1, <1>2, <1>3, StepMoves

LEMMA KeysCarriedOnce ==
  ASSUME Inv, OneRequestPerKey, [Next]_vars
  PROVE  OneRequestPerKey'
<1>1. CASE Rests
  BY <1>1 DEF Rests, OneRequestPerKey, Submitted
<1>2. CASE \E r \in Submitted, s \in Statuses : Moves(r, s)
  <2>1. PICK r \in Submitted, s \in Statuses : Moves(r, s)
    BY <1>2
  <2>2. Submitted' = Submitted /\ \A q \in Submitted : requests'[q].idem = requests[q].idem
    BY <2>1, MoveWrites DEF Moves
  <2> QED
    BY <2>2 DEF OneRequestPerKey
<1>3. CASE \E k \in Keys, range \in Ranges, i \in IdemKeys, r \in Requests :
             Submit(r, k, range, i)
  <2>1. PICK k \in Keys, range \in Ranges, i \in IdemKeys, r \in Requests :
          Submit(r, k, range, i)
    BY <1>3
  <2>2. requests'[r].idem = i /\ i # Retired
    <3>1. requests'[r] = NewRequest(k, range, i)
      BY <2>1, SubmitWrites
    <3> QED
      BY <3>1, RetiredAssumption DEF NewRequest
  <2>3. /\ Submitted' = Submitted \cup {r}
        /\ \A q \in Submitted :
             requests'[q].idem = IF requests[q].idem = i THEN Retired ELSE requests[q].idem
    BY <2>1, SubmitWrites
  <2>4. \A p, q \in Submitted :
          requests'[p].idem = requests'[q].idem /\ requests'[p].idem # Retired => p = q
    BY <2>3 DEF OneRequestPerKey
  <2>5. \A q \in Submitted : requests'[q].idem # i
    BY <2>2, <2>3
  <2> QED
    BY <2>2, <2>3, <2>4, <2>5 DEF OneRequestPerKey
<1> QED
  BY <1>1, <1>2, <1>3, StepMoves

\* time-off-request.service.ts 262-289: two active requests of one balance key
\* never share a date, in any order of submits, decisions and restarts.
THEOREM NobodyBookedTwice == Spec => []NoDoubleBooking
<1>1. Init => NoDoubleBooking
  BY DEF Init, NoDoubleBooking, Submitted
<1>2. Inv /\ NoDoubleBooking /\ [Next]_vars => NoDoubleBooking'
  BY DaysBookedOnce
<1> QED
  BY <1>1, <1>2, InvAlways, PTL DEF Spec

\* time-off-request.service.ts 316-330: an idempotency key that a client sends
\* is on one request at most, although re-keying writes requests of other keys.
THEOREM KeyNamesOneRequest == Spec => []OneRequestPerKey
<1>1. Init => OneRequestPerKey
  BY DEF Init, OneRequestPerKey, Submitted
<1>2. Inv /\ OneRequestPerKey /\ [Next]_vars => OneRequestPerKey'
  BY KeysCarriedOnce
<1> QED
  BY <1>1, <1>2, InvAlways, PTL DEF Spec
-----------------------------------------------------------------------------
(* Reservations *)

\* The days that one PENDING request holds, tagged with the request.
Slots(r) == {r} \X BusinessDays(requests[r].start, requests[r].end)

Holds(r, k) == r \in Submitted /\ requests[r].key = k /\ requests[r].status = "PENDING"

\* ReservedMatchesHeld, with what makes the sum a number.
ReservedSums ==
  \A k \in Keys :
    IsFiniteSet(HeldDays(k)) /\ balances[k].reserved = Cardinality(HeldDays(k))

LEMMA SlotsCount ==
  ASSUME NEW r, NEW s \in Nat, NEW e \in Nat
  PROVE  /\ IsFiniteSet({r} \X BusinessDays(s, e))
         /\ Cardinality({r} \X BusinessDays(s, e)) = CountBusinessDays(s, e)
<1>1. IsFiniteSet({r}) /\ Cardinality({r}) = 1
  BY FS_Singleton
<1>2. IsFiniteSet(BusinessDays(s, e)) /\ CountBusinessDays(s, e) \in Nat
  BY DaysNat
<1>3. /\ IsFiniteSet({r} \X BusinessDays(s, e))
      /\ Cardinality({r} \X BusinessDays(s, e)) = 1 * Cardinality(BusinessDays(s, e))
  BY <1>1, <1>2, FS_Product
<1> QED
  BY <1>2, <1>3 DEF CountBusinessDays

LEMMA DisjointSum ==
  ASSUME NEW S, NEW T, IsFiniteSet(S), IsFiniteSet(T), S \cap T = {}
  PROVE  /\ IsFiniteSet(S \cup T)
         /\ Cardinality(S \cup T) = Cardinality(S) + Cardinality(T)
<1>1. Cardinality(S) \in Nat /\ Cardinality(T) \in Nat /\ Cardinality({}) = 0
  BY FS_CardinalityType, FS_EmptySet
<1>2. /\ IsFiniteSet(S \cup T)
      /\ Cardinality(S \cup T) = Cardinality(S) + Cardinality(T) - Cardinality(S \cap T)
  BY FS_Union
<1>3. Cardinality(S \cap T) = 0
  BY <1>1
<1> QED
  BY <1>1, <1>2, <1>3

LEMMA HeldDaysMembers ==
  ASSUME NEW k
  PROVE  /\ \A x : x \in HeldDays(k) <=> \E q : Holds(q, k) /\ x \in Slots(q)
         /\ \A x : x \in HeldDays(k)' <=> \E q : Holds(q, k)' /\ x \in Slots(q)'
BY DEF HeldDays, Holds, Slots

\* A request's days are nobody else's.
LEMMA SlotsApart ==
  ASSUME NEW q, NEW r, q # r, NEW x, x \in Slots(q)
  PROVE  x \notin Slots(r)
BY DEF Slots

LEMMA HeldAfterRest ==
  ASSUME ReservedSums, Rests
  PROVE  ReservedSums'
<1>1. \A k \in Keys : HeldDays(k)' = HeldDays(k)
  BY DEF Rests, HeldDays, Submitted
<1> QED
  BY <1>1 DEF Rests, ReservedSums

LEMMA HeldAfterMove ==
  ASSUME Inv, ReservedSums, NEW r \in Submitted, NEW s, Moves(r, s)
  PROVE  ReservedSums'
<1>1. /\ s # "PENDING"
      /\ Submitted' = Submitted
      /\ requests'[r] = [requests[r] EXCEPT !.status = s]
      /\ \A q \in Submitted \ {r} : requests'[q] = requests[q]
  BY MoveWrites DEF Moves
<1>2. requests[r] \in RequestRow
  BY RequestTypes DEF Inv
<1>3. \A q, k : Holds(q, k)' <=> Holds(q, k) /\ q # r
  BY <1>1, <1>2 DEF Holds, RequestRow
<1>4. \A q : q # r /\ q \in Submitted => Slots(q)' = Slots(q)
  BY <1>1 DEF Slots
<1> SUFFICES ASSUME NEW k \in Keys
             PROVE  /\ IsFiniteSet(HeldDays(k)')
                    /\ balances'[k].reserved = Cardinality(HeldDays(k)')
  BY DEF ReservedSums
<1>5. CASE ~Holds(r, k)
  <2>1. HeldDays(k)' = HeldDays(k)
    <3>1. \A x : x \in HeldDays(k)' <=> x \in HeldDays(k)
      BY <1>3, <1>4, <1>5, HeldDaysMembers DEF Holds
    <3> QED
      BY <3>1
  <2>2. balances'[k].reserved = balances[k].reserved
    BY <1>5 DEF Moves, Holds
  <2> QED
    BY <2>1, <2>2 DEF ReservedSums
<1>6. CASE Holds(r, k)
  <2>1. HeldDays(k) = HeldDays(k)' \cup Slots(r) /\ HeldDays(k)' \cap Slots(r) = {}
    <3>1. \A x : x \in HeldDays(k) <=> x \in HeldDays(k)' \/ x \in Slots(r)
      BY <1>3, <1>4, <1>6, HeldDaysMembers DEF Holds
    <3>2. \A x : x \in HeldDays(k)' => x \notin Slots(r)
      BY <1>3, <1>4, HeldDaysMembers, SlotsApart DEF Holds
    <3> QED
      BY <3>1, <3>2
  <2>2. IsFiniteSet(HeldDays(k)) /\ balances[k].reserved = Cardinality(HeldDays(k))
    BY DEF ReservedSums
  <2>3. IsFiniteSet(HeldDays(k)')
    BY <2>1, <2>2, FS_Subset
  <2>4. IsFiniteSet(Slots(r)) /\ Cardinality(Slots(r)) = Days(r)
    BY <1>2, SlotsCount DEF Slots, Days, RequestRow
  <2>5. Cardinality(HeldDays(k)) = Cardinality(HeldDays(k)') + Days(r)
    BY <2>1, <2>3, <2>4, DisjointSum
  <2>6. Cardinality(HeldDays(k)') \in Nat /\ Days(r) \in Nat
    BY <2>3, RequestTypes, FS_CardinalityType DEF Inv
  <2>7. balances'[k].reserved = Floor0(balances[k].reserved - Days(r))
    BY <1>6 DEF Moves, Holds
  <2> QED
    BY <2>2, <2>3, <2>5, <2>6, <2>7 DEF Floor0
<1> QED
  BY <1>5, <1>6

LEMMA HeldAfterSubmit ==
  ASSUME Inv, ReservedSums, NEW k \in Keys, NEW range \in Ranges, NEW i \in IdemKeys,
         NEW r \in Requests, Submit(r, k, range, i)
  PROVE  ReservedSums'
<1>1. /\ r \notin Submitted
      /\ Submitted' = Submitted \cup {r}
      /\ requests'[r] = NewRequest(k, range, i)
      /\ \A q \in Submitted : /\ requests'[q].key = requests[q].key
                              /\ requests'[q].start = requests[q].start
                              /\ requests'[q].end = requests[q].end
                              /\ requests'[q].status = requests[q].status
  BY SubmitWrites
<1> DEFINE New == {r} \X BusinessDays(range.start, range.end)
           days == CountBusinessDays(range.start, range.end)
<1>2. \A q, j : Holds(q, j)' <=> Holds(q, j) \/ (q = r /\ j = k)
  BY <1>1 DEF Holds, NewRequest
<1>3. Slots(r)' = New /\ \A q \in Submitted : Slots(q)' = Slots(q)
  BY <1>1 DEF Slots, NewRequest
<1>4. \A j \in Keys : balances'[j].reserved =
                        IF j = k THEN balances[j].reserved + days ELSE balances[j].reserved
  BY ReservedWrite DEF Submit, Inv, TypeOK
<1>5. range.start \in Nat /\ range.end \in Nat
  BY RangesAssumption
<1> SUFFICES ASSUME NEW j \in Keys
             PROVE  /\ IsFiniteSet(HeldDays(j)')
                    /\ balances'[j].reserved = Cardinality(HeldDays(j)')
  BY DEF ReservedSums
<1>6. CASE j # k
  <2>1. HeldDays(j)' = HeldDays(j)
    <3>1. \A x : x \in HeldDays(j)' <=> x \in HeldDays(j)
      BY <1>2, <1>3, <1>6, HeldDaysMembers DEF Holds
    <3> QED
      BY <3>1
  <2> QED
    BY <1>4, <1>6, <2>1 DEF ReservedSums
<1>7. CASE j = k
  <2>1. HeldDays(k)' = HeldDays(k) \cup New /\ HeldDays(k) \cap New = {}
    <3>1. \A x : x \in HeldDays(k)' <=> x \in HeldDays(k) \/ x \in New
      BY <1>2, <1>3, HeldDaysMembers DEF Holds
    <3>2. \A x : x \in HeldDays(k) => x \notin New
      BY <1>1, HeldDaysMembers DEF Holds, Slots
    <3> QED
      BY <3>1, <3>2
  <2>2. IsFiniteSet(HeldDays(k)) /\ balances[k].reserved = Cardinality(HeldDays(k))
    BY DEF ReservedSums
  <2>3. IsFiniteSet(New) /\ Cardinality(New) = days
    BY <1>5, SlotsCount
  <2> QED
    BY <1>4, <1>7, <2>1, <2>2, <2>3, DisjointSum
<1> QED
  BY <1>6, <1>7

LEMMA HeldInit == Init => ReservedSums
<1> SUFFICES ASSUME Init, NEW k \in Keys
             PROVE  IsFiniteSet(HeldDays(k)) /\ balances[k].reserved = Cardinality(HeldDays(k))
  BY DEF ReservedSums
<1>1. HeldDays(k) = {}
  BY DEF Init, HeldDays, Submitted
<1> QED
  BY <1>1, FS_EmptySet DEF Init

LEMMA HeldStep ==
  ASSUME Inv, ReservedSums, [Next]_vars
  PROVE  ReservedSums'
BY StepMoves, HeldAfterRest, HeldAfterMove, HeldAfterSubmit

LEMMA HeldMeaning == ReservedSums => ReservedMatchesHeld
BY DEF ReservedSums, ReservedMatchesHeld

\* balance.service.ts 286-335 and time-off-request.service.ts: for any number
\* of keys, requests, dates and restarts, reserved is the business days of the
\* PENDING requests of the key; no reservation is lost or released twice.
THEOREM ReservedIsHeld == Spec => []ReservedMatchesHeld
<1> QED
  BY HeldInit, HeldStep, HeldMeaning, InvAlways, PTL DEF Spec
=============================================================================
