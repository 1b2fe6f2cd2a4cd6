-------------------------- MODULE TimeOffSystemTypes --------------------------
(***************************************************************************)
(* Type correctness of TimeOffSystem, for every value of its constants,    *)
(* and the facts about days, lock holders and outbox updates that the      *)
(* other proofs use too.                                                   *)
(***************************************************************************)
EXTENDS TimeOffSystem, FiniteSetTheorems, SequenceTheorems, TLAPS

\* A date range holds a whole number of business days: countBusinessDays
\* always ends and never returns less than zero.
LEMMA DaysNat ==
  ASSUME NEW s \in Nat, NEW e \in Nat
  PROVE  /\ IsFiniteSet(BusinessDays(s, e))
         /\ CountBusinessDays(s, e) \in Nat
<1>1. IsFiniteSet(s .. e)
  BY FS_Interval
<1>2. BusinessDays(s, e) \in SUBSET (s .. e)
  BY DEF BusinessDays
<1>3. IsFiniteSet(BusinessDays(s, e))
  BY <1>1, <1>2, FS_Subset
<1> QED
  BY <1>3, FS_CardinalityType DEF CountBusinessDays

\* What the type invariant says of one stored request.
LEMMA RequestTypes ==
  ASSUME TypeOK, NEW r \in Submitted
  PROVE  /\ r \in Requests
         /\ requests[r] \in RequestRow
         /\ requests[r].key \in Keys
         /\ Days(r) \in Nat
<1>1. requests[r] \in RequestRow /\ r \in Requests
  BY DEF TypeOK
<1>2. requests[r].start \in Nat /\ requests[r].end \in Nat /\ requests[r].key \in Keys
  BY <1>1 DEF RequestRow
<1> QED
  BY <1>1, <1>2, DaysNat DEF Days

\* The fields a lock holder carries, by what it is doing.
LEMMA HolderTypes ==
  ASSUME TypeOK, NEW k \in Keys
  PROVE  /\ lock[k].by \in {"hydrate", "approve"} => lock[k].snapshot \in Nat
         /\ lock[k].by \in {"approve", "validate"} => lock[k].req \in Requests
         /\ lock[k].by = "dispatch" =>
              lock[k].row \in Nat /\ lock[k].idem \in IdemKeys \cup {Retired}
<1>1. lock[k] \in LockState
  BY DEF TypeOK
<1>2. CASE lock[k] = Free
  BY <1>2 DEF Free
<1>3. CASE lock[k] \in [by : {"hydrate"}, snapshot : Nat]
  BY <1>3
<1>4. CASE lock[k] \in [by : {"approve"}, req : Requests, snapshot : Nat]
  BY <1>4
<1>5. CASE lock[k] \in [by : {"validate"}, req : Requests]
  BY <1>5
<1>6. CASE lock[k] \in [by : {"dispatch"}, row : Nat, idem : IdemKeys \cup {Retired}]
  BY <1>6
<1>7. CASE lock[k] \in [by : {"submit"}]
  BY <1>7
<1> QED
  BY <1>1, <1>2, <1>3, <1>4, <1>5, <1>6, <1>7 DEF LockState

\* voidPendingFileRows rewrites statuses in place.
LEMMA VoidedRows ==
  ASSUME outbox \in Seq(OutboxRow), NEW r, VoidPendingFileRows(r)
  PROVE  /\ outbox' \in Seq(OutboxRow)
         /\ Len(outbox') = Len(outbox)
         /\ DOMAIN outbox' = DOMAIN outbox
<1>1. Len(outbox) \in Nat /\ DOMAIN outbox = 1 .. Len(outbox)
  BY LenProperties
<1>2. \A i \in 1 .. Len(outbox) : outbox[i] \in OutboxRow
  BY ElementOfSeq
<1>3. outbox' \in [1 .. Len(outbox) -> OutboxRow]
  BY <1>1, <1>2 DEF VoidPendingFileRows, OutboxRow, OutboxStatuses
<1> QED
  BY <1>1, <1>3, LenProperties, SeqDef

\* An insert keeps what is there and adds one row at the end.
LEMMA AppendedRow ==
  ASSUME NEW rows \in Seq(OutboxRow), NEW r \in Requests, NEW op \in Operations
  PROVE  /\ NewRow(r, op) \in OutboxRow
         /\ Append(rows, NewRow(r, op)) \in Seq(OutboxRow)
         /\ DOMAIN Append(rows, NewRow(r, op)) = DOMAIN rows \cup {Len(rows) + 1}
         /\ Len(rows) + 1 \notin DOMAIN rows
         /\ \A i \in DOMAIN rows : Append(rows, NewRow(r, op))[i] = rows[i]
         /\ Append(rows, NewRow(r, op))[Len(rows) + 1] = NewRow(r, op)
<1>1. NewRow(r, op) \in OutboxRow
  BY DEF NewRow, OutboxRow, OutboxStatuses
<1> QED
  BY <1>1

\* Writing one row back keeps the length.
LEMMA RewrittenRow ==
  ASSUME NEW rows \in Seq(OutboxRow), NEW i \in DOMAIN rows, NEW row \in OutboxRow
  PROVE  /\ [rows EXCEPT ![i] = row] \in Seq(OutboxRow)
         /\ DOMAIN [rows EXCEPT ![i] = row] = DOMAIN rows
         /\ Len([rows EXCEPT ![i] = row]) = Len(rows)
<1>1. i \in 1 .. Len(rows)
  BY LenProperties
<1> QED
  BY <1>1, ExceptSeq, LenProperties
-----------------------------------------------------------------------------
\* The initial states are well typed.
LEMMA TypeInit == Init => TypeOK
<1> SUFFICES ASSUME Init PROVE TypeOK
  OBVIOUS
<1>1. balances \in [Keys -> BalanceRow]
  BY DEF Init, BalanceRow
<1>2. Submitted = {} /\ requests \in [Submitted -> RequestRow]
  BY DEF Init, Submitted
<1>3. lock \in [Keys -> LockState]
  BY DEF Init, LockState
<1>4. hcm \in [Keys -> Nat]
  BY EntitlementsAssumption DEF Init
<1>5. idempotencyStore \in [Calls -> {"unseen", "ok", "refused"}]
  BY DEF Init
<1> QED
  BY <1>1, <1>2, <1>3, <1>4, <1>5, NumbersAssumption DEF Init, TypeOK

\* Every balance write keeps the row well typed.
LEMMA BalanceTypes ==
  ASSUME balances \in [Keys -> BalanceRow], NEW k \in Keys, NEW n \in Nat,
         \/ Reserve(k, n) \/ Release(k, n) \/ Commit(k, n) \/ Restore(k, n)
           \/ ApplyHcmSnapshot(k, n)
  PROVE  balances' \in [Keys -> BalanceRow]
<1>1. balances[k] \in BalanceRow
  OBVIOUS
<1>2. /\ balances[k].available \in Int
      /\ balances[k].reserved \in Nat
  BY <1>1 DEF BalanceRow
<1>3. Floor0(balances[k].reserved - n) \in Nat
  BY <1>2 DEF Floor0
<1> QED
  BY <1>1, <1>2, <1>3
  DEF Reserve, Release, Commit, Restore, ApplyHcmSnapshot, BalanceRow

\* A status write keeps the rows well typed and their ids.
LEMMA StatusTypes ==
  ASSUME TypeOK, NEW r \in Submitted, NEW s \in Statuses, SetStatus(r, s)
  PROVE  /\ requests' \in [Submitted' -> RequestRow]
         /\ Submitted' = Submitted
<1>1. requests[r] \in RequestRow
  BY DEF TypeOK
<1>2. [requests[r] EXCEPT !.status = s] \in RequestRow
  BY <1>1 DEF RequestRow
<1> QED
  BY <1>1, <1>2 DEF SetStatus, Submitted, TypeOK

\* Taking or giving back a lock keeps the lock table well typed.
LEMMA LockTypes ==
  ASSUME TypeOK, NEW k, NEW h \in LockState, Acquire(k, h)
  PROVE  lock' \in [Keys -> LockState]
BY DEF Acquire, TypeOK

LEMMA FreeType == Free \in LockState
BY DEF LockState
-----------------------------------------------------------------------------
(* One lemma per component: none of its steps breaks a type. *)

LEMMA TypeHydrate ==
  ASSUME TypeOK, NEW k \in Keys, HydrateRead(k) \/ HydrateApply(k) \/ HydrateDegraded(k)
  PROVE  TypeOK'
<1> USE DEF TypeOK, Submitted
<1>1. CASE HydrateRead(k)
  <2>1. [by |-> "hydrate", snapshot |-> hcm[k]] \in LockState
    BY DEF LockState
  <2> QED
    BY <1>1, <2>1, LockTypes DEF HydrateRead, hcmVars
<1>2. CASE HydrateApply(k)
  <2>1. lock[k].snapshot \in Nat
    BY <1>2, HolderTypes DEF HydrateApply
  <2>2. balances' \in [Keys -> BalanceRow]
    BY <1>2, <2>1, BalanceTypes DEF HydrateApply
  <2> QED
    BY <1>2, <2>2, LockTypes, FreeType DEF HydrateApply, Unlock, hcmVars
<1>3. CASE HydrateDegraded(k)
  BY <1>3, LockTypes, FreeType DEF HydrateDegraded, Unlock, hcmVars
<1> QED
  BY <1>1, <1>2, <1>3

LEMMA TypeSubmit ==
  ASSUME TypeOK, NEW k \in Keys, NEW range \in Ranges, NEW i \in IdemKeys, NEW r \in Requests,
         Submit(r, k, range, i)
  PROVE  TypeOK'
<1>1. range.start \in Nat /\ range.end \in Nat
  BY RangesAssumption
<1>2. CountBusinessDays(range.start, range.end) \in Nat
  BY <1>1, DaysNat
<1>3. balances' \in [Keys -> BalanceRow]
  BY <1>2, BalanceTypes DEF Submit, TypeOK
<1>4. NewRequest(k, range, i) \in RequestRow
  BY <1>1, NumbersAssumption DEF NewRequest, RequestRow, Statuses, TypeOK
<1>5. \A q \in Submitted : Rekeyed(q, i) \in RequestRow
  BY DEF Rekeyed, RequestRow, TypeOK
<1>6. /\ Submitted' = Submitted \cup {r}
      /\ requests' \in [Submitted' -> RequestRow]
  BY <1>4, <1>5 DEF Submit, Submitted
<1> QED
  BY <1>3, <1>6 DEF Submit, TypeOK, hcmVars

LEMMA TypeHangs ==
  ASSUME TypeOK, NEW k \in Keys, NEW range \in Ranges, NEW i \in IdemKeys,
         SubmitHangs(k, range, i)
  PROVE  TypeOK'
<1>1. [by |-> "submit"] \in LockState
  BY DEF LockState
<1> QED
  BY <1>1, LockTypes DEF SubmitHangs, TypeOK, Submitted, hcmVars

LEMMA TypeApprove ==
  ASSUME TypeOK, NEW r \in Submitted, ApprovePast(r) \/ ApproveRefresh(r)
  PROVE  TypeOK'
<1>1. CASE ApprovePast(r)
  BY <1>1, RequestTypes, BalanceTypes, StatusTypes
  DEF ApprovePast, TypeOK, Statuses, hcmVars
<1>2. CASE ApproveRefresh(r)
  <2>1. [by |-> "approve", req |-> r, snapshot |-> hcm[requests[r].key]] \in LockState
    BY RequestTypes DEF LockState, TypeOK
  <2> QED
    BY <1>2, <2>1, LockTypes DEF ApproveRefresh, TypeOK, Submitted, hcmVars
<1> QED
  BY <1>1, <1>2

LEMMA TypeSnapshot ==
  ASSUME TypeOK, NEW k \in Keys, ApproveSnapshot(k)
  PROVE  TypeOK'
<1>1. lock[k].snapshot \in Nat /\ lock[k].req \in Requests
  BY HolderTypes DEF ApproveSnapshot
<1>2. [by |-> "validate", req |-> lock[k].req] \in LockState
  BY <1>1 DEF LockState
<1>3. balances' \in [Keys -> BalanceRow]
  BY <1>1, BalanceTypes DEF ApproveSnapshot, TypeOK
<1> QED
  BY <1>2, <1>3, LockTypes DEF ApproveSnapshot, TypeOK, Submitted, hcmVars

LEMMA TypeApproveEnd ==
  ASSUME TypeOK, ReferencesResolve, NEW k \in Keys,
         ApproveReject(k) \/ ApproveCommit(k)
  PROVE  TypeOK'
<1> DEFINE r == lock[k].req
<1>1. r \in Submitted
  BY DEF ApproveReject, ApproveCommit, ReferencesResolve
<1>2. r \in Requests /\ Days(r) \in Nat
  BY <1>1, RequestTypes
<1>3. balances' \in [Keys -> BalanceRow]
  BY <1>2, BalanceTypes DEF ApproveReject, ApproveCommit, TypeOK
<1>4. requests' \in [Submitted' -> RequestRow] /\ Submitted' = Submitted
  BY <1>1, StatusTypes DEF ApproveReject, ApproveCommit, Statuses
<1>5. lock' \in [Keys -> LockState]
  BY LockTypes, FreeType DEF ApproveReject, ApproveCommit, Unlock
<1>6. outbox' \in Seq(OutboxRow)
  <2>1. CASE ApproveReject(k)
    BY <2>1 DEF ApproveReject, TypeOK
  <2>2. CASE ApproveCommit(k)
    BY <1>2, <2>2, AppendedRow DEF ApproveCommit, Enqueue, Operations, TypeOK
  <2> QED
    BY <2>1, <2>2
<1> QED
  BY <1>3, <1>4, <1>5, <1>6 DEF ApproveReject, ApproveCommit, TypeOK, hcmVars

LEMMA TypeWithdraw ==
  ASSUME TypeOK, NEW r \in Submitted, Reject(r) \/ Cancel(r) \/ Expire(r)
  PROVE  TypeOK'
<1>1. r \in Requests /\ Days(r) \in Nat /\ requests[r].key \in Keys
  BY RequestTypes
<1>2. balances' \in [Keys -> BalanceRow]
  BY <1>1, BalanceTypes DEF Reject, Cancel, Expire, TypeOK
<1>3. requests' \in [Submitted' -> RequestRow] /\ Submitted' = Submitted
  BY StatusTypes DEF Reject, Cancel, Expire, Statuses
<1>4. UNCHANGED outbox \/ VoidPendingFileRows(r) \/ Enqueue(r, "REVERSE")
  BY DEF Reject, Cancel, Expire
<1>5. outbox \in Seq(OutboxRow)
  BY DEF TypeOK
<1>6. outbox' \in Seq(OutboxRow)
  <2>1. CASE UNCHANGED outbox
    BY <1>5, <2>1
  <2>2. CASE VoidPendingFileRows(r)
    BY <1>5, <2>2, VoidedRows
  <2>3. CASE Enqueue(r, "REVERSE")
    BY <1>1, <1>5, <2>3, AppendedRow DEF Enqueue, Operations
  <2> QED
    BY <1>4, <2>1, <2>2, <2>3
<1> QED
  BY <1>2, <1>3, <1>6 DEF Reject, Cancel, Expire, TypeOK, hcmVars

LEMMA TypeDispatch ==
  ASSUME TypeOK, ReferencesResolve, NEW k \in Keys, DispatchEnd(k)
  PROVE  TypeOK'
<1> DEFINE i == lock[k].row
           row == outbox[i]
<1>1. lock[k].by = "dispatch" /\ i \in DOMAIN outbox
  BY DEF DispatchEnd, DispatchAcked, DispatchAckClash, DispatchRetryLater, DispatchFileCap,
         DispatchReverseCap, ReferencesResolve
<1>2. row \in OutboxRow /\ row.req \in Submitted
  BY <1>1, LenProperties, ElementOfSeq DEF TypeOK, ReferencesResolve
<1>3. row.req \in Requests /\ Days(row.req) \in Nat /\ requests[row.req].key \in Keys
  BY <1>2, RequestTypes
<1>4. lock' \in [Keys -> LockState]
  BY LockTypes, FreeType
  DEF DispatchEnd, DispatchAcked, DispatchAckClash, DispatchRetryLater, DispatchFileCap,
      DispatchReverseCap, Unlock
<1>5. \A s \in OutboxStatuses : [outbox EXCEPT ![i].status = s] \in Seq(OutboxRow)
  <2> SUFFICES ASSUME NEW s \in OutboxStatuses
               PROVE  [outbox EXCEPT ![i] = [row EXCEPT !.status = s]] \in Seq(OutboxRow)
    OBVIOUS
  <2>1. [row EXCEPT !.status = s] \in OutboxRow
    BY <1>2 DEF OutboxRow
  <2> QED
    BY <1>1, <2>1, RewrittenRow DEF TypeOK
<1>6. CASE DispatchAcked(k)
  <2>1. requests' \in [Submitted' -> RequestRow] /\ Submitted' = Submitted
    BY <1>2, <1>6, StatusTypes DEF DispatchAcked, Statuses, TypeOK, Submitted
  <2> QED
    BY <1>4, <1>5, <1>6, <2>1 DEF DispatchAcked, TypeOK, OutboxStatuses, hcmVars
<1>7. CASE DispatchAckClash(k) \/ DispatchRetryLater(k)
  BY <1>4, <1>7 DEF DispatchAckClash, DispatchRetryLater, TypeOK, Submitted, hcmVars
<1>8. CASE DispatchFileCap(k)
  <2>1. requests' \in [Submitted' -> RequestRow] /\ Submitted' = Submitted
    BY <1>2, <1>8, StatusTypes DEF DispatchFileCap, Statuses
  <2>2. balances' \in [Keys -> BalanceRow]
    BY <1>3, <1>8, BalanceTypes DEF DispatchFileCap, TypeOK
  <2>3. outbox' \in Seq(OutboxRow)
    <3>1. [outbox EXCEPT ![i].status = "FAILED"] \in Seq(OutboxRow)
      BY <1>5 DEF OutboxStatuses
    <3> QED
      BY <1>3, <1>8, <3>1, AppendedRow DEF DispatchFileCap, Operations
  <2> QED
    BY <1>4, <1>8, <2>1, <2>2, <2>3 DEF DispatchFileCap, TypeOK, hcmVars
<1>9. CASE DispatchReverseCap(k)
  BY <1>4, <1>5, <1>9
  DEF DispatchReverseCap, TypeOK, OutboxStatuses, Submitted, hcmVars
<1> QED
  BY <1>6, <1>7, <1>8, <1>9 DEF DispatchEnd

LEMMA TypeDispatchBegin ==
  ASSUME TypeOK, ReferencesResolve, NEW i \in DOMAIN outbox, DispatchBegin(i)
  PROVE  TypeOK'
<1>1. i \in Nat /\ outbox[i] \in OutboxRow
  BY LenProperties, ElementOfSeq DEF TypeOK
<1>2. [outbox[i] EXCEPT !.attempts = @ + 1] \in OutboxRow
  BY <1>1 DEF OutboxRow
<1>3. outbox' \in Seq(OutboxRow)
  BY <1>2, RewrittenRow DEF DispatchBegin, TypeOK
<1>4. ASSUME outbox[i].req \in Submitted
      PROVE  [by |-> "dispatch", row |-> i, idem |-> requests[outbox[i].req].idem]
               \in LockState
  BY <1>1, <1>4, RequestTypes DEF LockState, RequestRow
<1>5. CallOf(outbox[i]) \in Calls
  BY <1>1 DEF CallOf, Calls, OutboxRow
<1> QED
  BY <1>3, <1>4, <1>5, LockTypes DEF DispatchBegin, TypeOK, Submitted, ReferencesResolve

LEMMA TypeHcm ==
  ASSUME TypeOK, NEW r \in Submitted, ServeFile(r) \/ ServeReverse(r)
  PROVE  TypeOK'
<1>1. r \in Requests /\ Days(r) \in Nat /\ requests[r].key \in Keys
  BY RequestTypes
<1>2. hcm[requests[r].key] \in Nat
  BY <1>1 DEF TypeOK
<1>3. CASE ServeFile(r)
  <2> DEFINE call == <<r, "FILE">>
  <2>1. call \in Calls
    BY <1>1 DEF Calls, Operations
  <2>2. idempotencyStore' \in [Calls -> {"unseen", "ok", "refused"}]
    BY <1>3, <2>1 DEF ServeFile, TypeOK
  <2>3. hcm' \in [Keys -> Nat]
    BY <1>1, <1>2, <1>3 DEF ServeFile, TypeOK
  <2>4. wire' \subseteq Calls
    BY <1>3 DEF ServeFile, TypeOK
  <2> QED
    BY <1>3, <2>2, <2>3, <2>4 DEF ServeFile, TypeOK, Submitted, serviceVars
<1>4. CASE ServeReverse(r)
  <2> DEFINE call == <<r, "REVERSE">>
  <2>1. call \in Calls
    BY <1>1 DEF Calls, Operations
  <2>2. idempotencyStore' \in [Calls -> {"unseen", "ok", "refused"}]
    BY <1>4, <2>1 DEF ServeReverse, TypeOK
  <2>3. hcm' \in [Keys -> Nat]
    BY <1>1, <1>2, <1>4 DEF ServeReverse, TypeOK
  <2>4. wire' \subseteq Calls
    BY <1>4 DEF ServeReverse, TypeOK
  <2> QED
    BY <1>4, <2>2, <2>3, <2>4 DEF ServeReverse, TypeOK, Submitted, serviceVars
<1> QED
  BY <1>3, <1>4

LEMMA TypeRefresh ==
  ASSUME TypeOK, NEW k \in Keys, Refresh(k)
  PROVE  TypeOK'
BY EntitlementsAssumption DEF Refresh, TypeOK, Submitted, serviceVars

LEMMA TypeOther ==
  ASSUME TypeOK, Tick \/ Crash \/ UNCHANGED vars
  PROVE  TypeOK'
BY FreeType DEF Tick, Crash, TypeOK, Submitted, vars, serviceVars, hcmVars
-----------------------------------------------------------------------------
(* The ids one record keeps of another keep resolving: no step forgets a     *)
(* request, shortens the outbox, or takes the lock for a row it did not see. *)

\* What a step has to show for the lemma: rows and holders are old ones, or
\* refer to something stored.
LEMMA ReferencesKept ==
  ASSUME ReferencesResolve,
         Submitted \subseteq Submitted',
         DOMAIN outbox \subseteq DOMAIN outbox',
         \A i \in DOMAIN outbox' :
           \/ outbox'[i].req \in Submitted
           \/ i \in DOMAIN outbox /\ outbox'[i].req = outbox[i].req,
         \A k \in Keys :
           \/ lock'[k] = lock[k]
           \/ lock'[k].by \notin {"approve", "validate", "dispatch"}
           \/ lock'[k].by \in {"approve", "validate"} /\ lock'[k].req \in Submitted
           \/ lock'[k].by = "dispatch" /\ lock'[k].row \in DOMAIN outbox
  PROVE  ReferencesResolve'
<1>1. \A i \in DOMAIN outbox' : outbox'[i].req \in Submitted'
  BY DEF ReferencesResolve
<1>2. ASSUME NEW k \in Keys
      PROVE  /\ lock'[k].by \in {"approve", "validate"} => lock'[k].req \in Submitted'
             /\ lock'[k].by = "dispatch" => lock'[k].row \in DOMAIN outbox'
  <2>1. CASE lock'[k] = lock[k]
    BY <2>1 DEF ReferencesResolve
  <2> QED
    BY <2>1
<1> QED
  BY <1>1, <1>2 DEF ReferencesResolve

LEMMA ReferencesInit == Init => ReferencesResolve
BY DEF Init, ReferencesResolve, Submitted, Free
\* A status write keeps the ids in use.
LEMMA StatusKeepsIds ==
  ASSUME NEW r, NEW s, SetStatus(r, s)
  PROVE  Submitted' = Submitted
BY DEF SetStatus, Submitted

\* Voiding keeps whose row each row is.
LEMMA VoidKeepsOwners ==
  ASSUME NEW r, VoidPendingFileRows(r)
  PROVE  /\ DOMAIN outbox' = DOMAIN outbox
         /\ \A i \in DOMAIN outbox : outbox'[i].req = outbox[i].req
BY DEF VoidPendingFileRows

LEMMA ReferencesHandler ==
  ASSUME TypeOK, ReferencesResolve, NEW r \in Submitted, Handler(r)
  PROVE  ReferencesResolve'
<1>1. r \in Requests
  BY DEF TypeOK
<1>2. CASE ApproveRefresh(r)
  <2>1. /\ Submitted' = Submitted
        /\ UNCHANGED outbox
    BY <1>2 DEF ApproveRefresh, Submitted
  <2>2. lock' = [lock EXCEPT ![requests[r].key] =
                   [by |-> "approve", req |-> r, snapshot |-> hcm[requests[r].key]]]
    BY <1>2 DEF ApproveRefresh, Acquire
  <2> QED
    BY <2>1, <2>2, ReferencesKept DEF TypeOK
<1>3. ASSUME ApprovePast(r) \/ Reject(r) \/ Cancel(r) \/ SweepOne(r)
      PROVE  ReferencesResolve'
  <2>1. Submitted' = Submitted /\ UNCHANGED lock
    BY <1>3, StatusKeepsIds DEF ApprovePast, Reject, Cancel, SweepOne, Expire
  <2>2. /\ DOMAIN outbox \subseteq DOMAIN outbox'
        /\ \A i \in DOMAIN outbox' :
             \/ outbox'[i].req \in Submitted
             \/ i \in DOMAIN outbox /\ outbox'[i].req = outbox[i].req
    <3>1. CASE UNCHANGED outbox
      BY <3>1
    <3>2. CASE VoidPendingFileRows(r)
      BY <3>2, VoidKeepsOwners
    <3>3. CASE Enqueue(r, "REVERSE")
      <4>1. /\ DOMAIN outbox' = DOMAIN outbox \cup {Len(outbox) + 1}
            /\ \A i \in DOMAIN outbox : outbox'[i] = outbox[i]
            /\ outbox'[Len(outbox) + 1].req = r
        BY <1>1, <3>3, AppendedRow DEF Enqueue, Operations, NewRow, TypeOK
      <4> QED
        BY <4>1
    <3> QED
      BY <1>3, <3>1, <3>2, <3>3 DEF ApprovePast, Reject, Cancel, SweepOne, Expire
  <2> QED
    BY <2>1, <2>2, ReferencesKept
<1> QED
  BY <1>2, <1>3 DEF Handler

LEMMA ReferencesResume ==
  ASSUME TypeOK, ReferencesResolve, NEW k \in Keys, HydrateRead(k) \/ Resume(k)
  PROVE  ReferencesResolve'
<1>1. CASE HydrateRead(k) \/ HydrateApply(k) \/ HydrateDegraded(k)
  <2>1. Submitted' = Submitted /\ UNCHANGED outbox
    BY <1>1 DEF HydrateRead, HydrateApply, HydrateDegraded, Submitted
  <2>2. \/ lock' = [lock EXCEPT ![k] = [by |-> "hydrate", snapshot |-> hcm[k]]]
        \/ lock' = [lock EXCEPT ![k] = [by |-> "nobody"]]
    BY <1>1
    DEF HydrateRead, HydrateApply, HydrateDegraded, Unlock, Acquire, Free
  <2>3. lock' = [lock EXCEPT ![k] = lock'[k]] /\ lock'[k].by \in {"hydrate", "nobody"}
    BY <2>2 DEF TypeOK
  <2> QED
    BY <2>1, <2>3, ReferencesKept DEF TypeOK
<1>2. CASE ApproveSnapshot(k)
  <2>1. Submitted' = Submitted /\ UNCHANGED outbox
    BY <1>2 DEF ApproveSnapshot, Submitted
  <2>2. lock' = [lock EXCEPT ![k] = [by |-> "validate", req |-> lock[k].req]]
    BY <1>2 DEF ApproveSnapshot, Acquire
  <2>3. lock[k].req \in Submitted
    BY <1>2 DEF ApproveSnapshot, ReferencesResolve
  <2> QED
    BY <2>1, <2>2, <2>3, ReferencesKept DEF TypeOK
<1>3. CASE ApproveReject(k) \/ ApproveCommit(k)
  <2>1. Submitted' = Submitted
    BY <1>3, StatusKeepsIds DEF ApproveReject, ApproveCommit
  <2>2. lock' = [lock EXCEPT ![k] = Free]
    BY <1>3 DEF ApproveReject, ApproveCommit, Unlock, Acquire
  <2>3. lock[k].req \in Submitted /\ lock[k].req \in Requests
    BY <1>3 DEF ApproveReject, ApproveCommit, ReferencesResolve, TypeOK
  <2>4. /\ DOMAIN outbox \subseteq DOMAIN outbox'
        /\ \A i \in DOMAIN outbox' :
             \/ outbox'[i].req \in Submitted
             \/ i \in DOMAIN outbox /\ outbox'[i].req = outbox[i].req
    <3>1. CASE UNCHANGED outbox
      BY <3>1
    <3>2. CASE Enqueue(lock[k].req, "FILE")
      <4>1. /\ DOMAIN outbox' = DOMAIN outbox \cup {Len(outbox) + 1}
            /\ \A i \in DOMAIN outbox : outbox'[i] = outbox[i]
            /\ outbox'[Len(outbox) + 1].req = lock[k].req
        BY <2>3, <3>2, AppendedRow DEF Enqueue, Operations, NewRow, TypeOK
      <4> QED
        BY <2>3, <4>1
    <3> QED
      BY <1>3, <3>1, <3>2 DEF ApproveReject, ApproveCommit
  <2> QED
    BY <2>1, <2>2, <2>4, ReferencesKept DEF Free, TypeOK
<1> QED
  BY <1>1, <1>2, <1>3 DEF Resume

LEMMA ReferencesDispatch ==
  ASSUME TypeOK, ReferencesResolve,
         \/ \E i \in DOMAIN outbox : DispatchBegin(i)
         \/ \E k \in Keys : DispatchEnd(k)
  PROVE  ReferencesResolve'
<1>1. ASSUME NEW i \in DOMAIN outbox, DispatchBegin(i)
      PROVE  ReferencesResolve'
  <2>1. /\ Submitted' = Submitted
        /\ outbox' = [outbox EXCEPT ![i].attempts = @ + 1]
        /\ lock' = 
             [lock EXCEPT ![KeyOf(outbox[i])] =
                [by |-> "dispatch", row |-> i, idem |-> requests[outbox[i].req].idem]]
    BY <1>1 DEF DispatchBegin, Acquire, Submitted
  <2>2. \A j \in DOMAIN outbox : outbox'[j].req = outbox[j].req
    BY <2>1
  <2> QED
    BY <2>1, <2>2, ReferencesKept DEF TypeOK
<1>2. ASSUME NEW k \in Keys, DispatchEnd(k)
      PROVE  ReferencesResolve'
  <2> DEFINE i == lock[k].row
  <2>1. Submitted' = Submitted /\ lock' = [lock EXCEPT ![k] = Free]
    BY <1>2, StatusKeepsIds
    DEF DispatchEnd, DispatchAcked, DispatchAckClash, DispatchRetryLater, DispatchFileCap,
        DispatchReverseCap, Unlock, Acquire, Submitted
  <2>2. i \in DOMAIN outbox
    BY <1>2
    DEF DispatchEnd, DispatchAcked, DispatchAckClash, DispatchRetryLater, DispatchFileCap,
        DispatchReverseCap, ReferencesResolve
  <2>3. /\ DOMAIN outbox \subseteq DOMAIN outbox'
        /\ \A j \in DOMAIN outbox' :
             \/ outbox'[j].req \in Submitted
             \/ j \in DOMAIN outbox /\ outbox'[j].req = outbox[j].req
    <3>1. CASE UNCHANGED outbox
      BY <3>1
    <3>2. CASE DispatchAcked(k) \/ DispatchReverseCap(k)
      <4>1. \E s \in OutboxStatuses : outbox' = [outbox EXCEPT ![i].status = s]
        BY <3>2 DEF DispatchAcked, DispatchReverseCap, OutboxStatuses
      <4> QED
        BY <2>2, <4>1
    <3>3. CASE DispatchFileCap(k)
      <4> DEFINE given == [outbox EXCEPT ![i].status = "FAILED"]
      <4>1. /\ outbox[i] \in OutboxRow
            /\ outbox[i].req \in Submitted
            /\ outbox[i].req \in Requests
        BY <2>2, LenProperties, ElementOfSeq DEF TypeOK, ReferencesResolve
      <4>2. [outbox[i] EXCEPT !.status = "FAILED"] \in OutboxRow
        BY <4>1 DEF OutboxRow, OutboxStatuses
      <4>3. given \in Seq(OutboxRow) /\ DOMAIN given = DOMAIN outbox
        BY <2>2, <4>2, RewrittenRow DEF TypeOK
      <4>4. /\ DOMAIN outbox' = DOMAIN given \cup {Len(given) + 1}
            /\ \A j \in DOMAIN given : outbox'[j] = given[j]
            /\ outbox'[Len(given) + 1].req = outbox[i].req
        BY <3>3, <4>1, <4>3, AppendedRow DEF DispatchFileCap, Operations, NewRow
      <4>5. \A j \in DOMAIN outbox : given[j].req = outbox[j].req
        OBVIOUS
      <4> QED
        BY <4>1, <4>3, <4>4, <4>5
    <3> QED
      BY <1>2, <3>1, <3>2, <3>3 DEF DispatchEnd, DispatchAckClash, DispatchRetryLater
  <2> QED
    BY <2>1, <2>3, ReferencesKept DEF Free, TypeOK
<1> QED
  BY <1>1, <1>2
LEMMA ReferencesOther ==
  ASSUME TypeOK, ReferencesResolve,
         \/ Tick \/ Crash \/ Client \/ UNCHANGED vars
         \/ \E r \in Submitted : ServeFile(r) \/ ServeReverse(r)
         \/ \E k \in Keys : Refresh(k)
  PROVE  ReferencesResolve'
<1>1. CASE Client
  <2>1. UNCHANGED outbox /\ Submitted \subseteq Submitted'
    BY <1>1 DEF Client, Submit, SubmitHangs, Submitted
  <2>2. \/ UNCHANGED lock
        \/ \E k \in Keys : lock' = [lock EXCEPT ![k] = [by |-> "submit"]]
    BY <1>1 DEF Client, Submit, SubmitHangs, Acquire
  <2> QED
    BY <2>1, <2>2, ReferencesKept DEF TypeOK
<1>2. CASE Crash
  BY <1>2, ReferencesKept DEF Crash, Free, Submitted
<1>3. CASE \/ Tick \/ UNCHANGED vars
           \/ \E r \in Submitted : ServeFile(r) \/ ServeReverse(r)
           \/ \E k \in Keys : Refresh(k)
  <2>1. UNCHANGED <<outbox, lock, requests>>
    BY <1>3 DEF Tick, ServeFile, ServeReverse, Refresh, vars, serviceVars
  <2> QED
    BY <2>1, ReferencesKept DEF Submitted
<1> QED
  BY <1>1, <1>2, <1>3
-----------------------------------------------------------------------------
\* Every step keeps both, one component at a time.
LEMMA TypeStep ==
  ASSUME TypeOK, ReferencesResolve, [Next]_vars
  PROVE  TypeOK' /\ ReferencesResolve'
<1>1. CASE Tick \/ Crash \/ UNCHANGED vars
  BY <1>1, TypeOther, ReferencesOther
<1>2. CASE Client
  BY <1>2, TypeSubmit, TypeHangs, ReferencesOther DEF Client
<1>3. CASE \E r \in Submitted : Handler(r)
  BY <1>3, TypeApprove, TypeWithdraw, ReferencesHandler DEF Handler, SweepOne
<1>4. CASE \E r \in Submitted : ServeFile(r) \/ ServeReverse(r)
  BY <1>4, TypeHcm, ReferencesOther
<1>5. CASE \E k \in Keys : HydrateRead(k) \/ Resume(k)
  BY <1>5, TypeHydrate, TypeSnapshot, TypeApproveEnd, ReferencesResume DEF Resume
<1>6. CASE \E k \in Keys : Refresh(k)
  BY <1>6, TypeRefresh, ReferencesOther
<1>7. CASE \/ \E k \in Keys : DispatchEnd(k)
           \/ \E i \in DOMAIN outbox : DispatchBegin(i)
  BY <1>7, TypeDispatch, TypeDispatchBegin, ReferencesDispatch
<1> QED
  BY <1>1, <1>2, <1>3, <1>4, <1>5, <1>6, <1>7 DEF Next

\* The tables, the lock holders and HCM's records always have the shape the
\* entities declare, and reserved is never negative, whatever the number of
\* keys, requests, ranges, attempts and restarts; and ids always resolve.
THEOREM TypeCorrect == Spec => [](TypeOK /\ ReferencesResolve)
<1>1. Init => TypeOK /\ ReferencesResolve
  BY TypeInit, ReferencesInit
<1>2. TypeOK /\ ReferencesResolve /\ [Next]_vars => (TypeOK /\ ReferencesResolve)'
  BY TypeStep
<1> QED
  BY <1>1, <1>2, PTL DEF Spec
=============================================================================
