------------------------- MODULE TimeOffSystemOutbox -------------------------
(***************************************************************************)
(* What the outbox says of HCM, in every reachable state of TimeOffSystem: *)
(* nothing reaches HCM uncounted, no row is tried beyond its bound, and    *)
(* what is decided stays decided.  A step either lets rows evolve without  *)
(* counting an attempt, or it is the begin of a dispatch.  And as a whole  *)
(* TimeOffSystem implements RequestLifecycle: each step moves one request  *)
(* along the state machine, is one thing HCM does for one request, or is a *)
(* stutter.                                                                *)
(***************************************************************************)
EXTENDS TimeOffSystemBookings

\* Rows stay, only open ones are written, SENT is written only for what HCM
\* took, and new rows are open and untried.
Evolves ==
  /\ DOMAIN outbox \subseteq DOMAIN outbox'
  /\ \A i \in DOMAIN outbox :
       /\ outbox'[i].req = outbox[i].req
       /\ outbox'[i].op = outbox[i].op
       /\ outbox'[i].attempts = outbox[i].attempts
       /\ outbox'[i] = outbox[i] \/ outbox[i].status = "PENDING"
       /\ outbox'[i].status = "SENT" => \/ outbox[i].status = "SENT"
                                        \/ idempotencyStore[CallOf(outbox[i])] = "ok"
  /\ \A i \in DOMAIN outbox' \ DOMAIN outbox :
       outbox'[i].attempts = 0 /\ outbox'[i].status = "PENDING"

LEMMA RowTypes ==
  ASSUME TypeOK, NEW i \in DOMAIN outbox
  PROVE  outbox[i] \in OutboxRow /\ CallOf(outbox[i]) \in Calls
<1>1. outbox[i] \in OutboxRow
  BY LenProperties, ElementOfSeq DEF TypeOK
<1> QED
  BY <1>1 DEF OutboxRow, CallOf, Calls
-----------------------------------------------------------------------------
(* The writes let rows evolve *)

LEMMA VoidEvolves ==
  ASSUME TypeOK, NEW r, VoidPendingFileRows(r)
  PROVE  Evolves
<1>1. \A i \in DOMAIN outbox : outbox[i] \in OutboxRow
  BY RowTypes
<1> QED
  BY <1>1 DEF VoidPendingFileRows, Evolves, OutboxRow

LEMMA EnqueueEvolves ==
  ASSUME TypeOK, NEW r \in Requests, NEW op \in Operations, Enqueue(r, op)
  PROVE  Evolves
<1>1. /\ DOMAIN outbox' = DOMAIN outbox \cup {Len(outbox) + 1}
      /\ \A i \in DOMAIN outbox : outbox'[i] = outbox[i]
      /\ outbox'[Len(outbox) + 1] = NewRow(r, op)
  BY AppendedRow DEF TypeOK, Enqueue
<1> QED
  BY <1>1 DEF Evolves, NewRow

LEMMA CloseEvolves ==
  ASSUME TypeOK, NEW i \in DOMAIN outbox, NEW s, outbox[i].status = "PENDING",
         s = "SENT" => idempotencyStore[CallOf(outbox[i])] = "ok",
         outbox' = [outbox EXCEPT ![i].status = s]
  PROVE  Evolves
<1>1. \A j \in DOMAIN outbox : outbox[j] \in OutboxRow
  BY RowTypes
<1> QED
  BY <1>1 DEF Evolves, OutboxRow

LEMMA GiveUpEvolves ==
  ASSUME TypeOK, NEW i \in DOMAIN outbox, outbox[i].status = "PENDING",
         outbox' = Append([outbox EXCEPT ![i].status = "FAILED"],
                          NewRow(outbox[i].req, "REVERSE"))
  PROVE  Evolves
<1> DEFINE given == [outbox EXCEPT ![i].status = "FAILED"]
<1>1. \A j \in DOMAIN outbox : outbox[j] \in OutboxRow
  BY RowTypes
<1>2. [outbox[i] EXCEPT !.status = "FAILED"] \in OutboxRow
  BY <1>1 DEF OutboxRow, OutboxStatuses
<1>3. given \in Seq(OutboxRow) /\ DOMAIN given = DOMAIN outbox
  BY <1>2, RewrittenRow DEF TypeOK
<1>4. \A j \in DOMAIN outbox :
        /\ given[j].req = outbox[j].req
        /\ given[j].op = outbox[j].op
        /\ given[j].attempts = outbox[j].attempts
        /\ j # i => given[j] = outbox[j]
        /\ j = i => given[j].status = "FAILED"
  BY <1>1 DEF OutboxRow
<1>5. outbox[i].req \in Requests
  BY <1>1 DEF OutboxRow
<1> HIDE DEF given
<1>6. /\ DOMAIN outbox' = DOMAIN given \cup {Len(given) + 1}
      /\ \A j \in DOMAIN given : outbox'[j] = given[j]
      /\ outbox'[Len(given) + 1] = NewRow(outbox[i].req, "REVERSE")
  <2>1. outbox' = Append(given, NewRow(outbox[i].req, "REVERSE"))
    BY DEF given
  <2> QED
    BY <1>3, <1>5, <2>1, AppendedRow DEF Operations
<1> QED
  BY <1>3, <1>4, <1>6 DEF Evolves, NewRow

LEMMA HandlerEvolves ==
  ASSUME Inv, NEW r \in Submitted, ApprovePast(r) \/ Reject(r) \/ Cancel(r) \/ SweepOne(r)
  PROVE  Evolves
<1>1. r \in Requests /\ TypeOK
  BY RequestTypes DEF Inv
<1>2. \/ UNCHANGED outbox
      \/ VoidPendingFileRows(r)
      \/ Enqueue(r, "REVERSE")
  BY DEF ApprovePast, Reject, Cancel, SweepOne, Expire
<1>3. CASE UNCHANGED outbox
  BY <1>3 DEF Evolves
<1> QED
  BY <1>1, <1>2, <1>3, VoidEvolves, EnqueueEvolves DEF Operations

LEMMA DispatchEndEvolves ==
  ASSUME Inv, NEW k \in Keys, DispatchEnd(k)
  PROVE  Evolves
<1>1. lock[k].by = "dispatch"
  BY DEF DispatchEnd, DispatchAcked, DispatchAckClash, DispatchRetryLater,
         DispatchFileCap, DispatchReverseCap
<1>2. PICK i \in DOMAIN outbox : i = lock[k].row /\ outbox[i].status = "PENDING"
  BY <1>1 DEF Inv, StillRight
<1>3. CASE UNCHANGED outbox
  BY <1>3 DEF Evolves
<1>4. CASE DispatchAcked(k)
  <2>1. /\ idempotencyStore[CallOf(outbox[i])] = "ok"
        /\ outbox' = [outbox EXCEPT ![i].status = "SENT"]
    BY <1>2, <1>4 DEF DispatchAcked, Acked
  <2> QED
    BY <1>2, <2>1, CloseEvolves DEF Inv
<1>5. CASE DispatchReverseCap(k)
  <2>1. outbox' = [outbox EXCEPT ![i].status = "FAILED"]
    BY <1>2, <1>5 DEF DispatchReverseCap
  <2> QED
    BY <1>2, <2>1, CloseEvolves DEF Inv
<1>6. CASE DispatchFileCap(k)
  BY <1>2, <1>6, GiveUpEvolves DEF DispatchFileCap, Inv
<1> QED
  BY <1>3, <1>4, <1>5, <1>6 DEF DispatchEnd, DispatchAckClash, DispatchRetryLater

LEMMA StepEvolves ==
  ASSUME Inv, [Next]_vars
  PROVE  Evolves \/ \E i \in DOMAIN outbox : DispatchBegin(i)
<1>1. CASE UNCHANGED outbox
  BY <1>1 DEF Evolves
<1>2. CASE \E r \in Submitted : ApprovePast(r) \/ Reject(r) \/ Cancel(r) \/ SweepOne(r)
  BY <1>2, HandlerEvolves
<1>3. CASE \E k \in Keys : ApproveCommit(k)
  <2>1. PICK k \in Keys : ApproveCommit(k)
    BY <1>3
  <2>2. lock[k].req \in Requests
    BY <2>1, HolderTypes DEF ApproveCommit, Inv
  <2> QED
    BY <2>1, <2>2, EnqueueEvolves DEF ApproveCommit, Operations, Inv
<1>4. CASE \E k \in Keys : DispatchEnd(k)
  BY <1>4, DispatchEndEvolves
<1>5. CASE \/ Tick \/ Crash \/ Client
           \/ \E r \in Submitted : ApproveRefresh(r) \/ ServeFile(r) \/ ServeReverse(r)
           \/ \E k \in Keys : HydrateRead(k) \/ HydrateApply(k) \/ HydrateDegraded(k)
                                \/ ApproveSnapshot(k) \/ ApproveReject(k) \/ Refresh(k)
           \/ UNCHANGED vars
  BY <1>1, <1>5
  DEF Tick, Crash, Client, Submit, SubmitHangs, ApproveRefresh, ServeFile, ServeReverse,
      HydrateRead, HydrateApply, HydrateDegraded, ApproveSnapshot, ApproveReject, Refresh,
      vars, serviceVars
<1> QED
  BY <1>2, <1>3, <1>4, <1>5 DEF Next, Handler, Resume

\* HCM's first answer to a command is its answer for good, and a POST is on
\* the wire only if a dispatch put it there.
LEMMA HcmStep ==
  ASSUME TypeOK, [Next]_vars, NEW c \in Calls
  PROVE  /\ idempotencyStore'[c] # idempotencyStore[c]
              => idempotencyStore[c] = "unseen" /\ c \in wire
         /\ c \in wire' => c \in wire \/ \E i \in DOMAIN outbox :
                                           DispatchBegin(i) /\ c = CallOf(outbox[i])
<1>1. CASE UNCHANGED <<idempotencyStore, wire>>
  BY <1>1
<1>2. CASE \E r \in Submitted : ServeFile(r) \/ ServeReverse(r)
  BY <1>2 DEF ServeFile, ServeReverse, TypeOK
<1>3. CASE \E i \in DOMAIN outbox : DispatchBegin(i)
  BY <1>3 DEF DispatchBegin
<1>4. CASE \/ Tick \/ Crash \/ Client
           \/ \E r \in Submitted : Handler(r)
           \/ \E k \in Keys : HydrateRead(k) \/ Resume(k) \/ DispatchEnd(k) \/ Refresh(k)
           \/ UNCHANGED vars
  BY <1>1, <1>4
  DEF Tick, Crash, Client, Submit, SubmitHangs, Handler, ApprovePast, ApproveRefresh, Reject,
      Cancel, SweepOne, Expire, HydrateRead, Resume, HydrateApply, HydrateDegraded,
      ApproveSnapshot, ApproveReject, ApproveCommit, DispatchEnd, DispatchAcked,
      DispatchAckClash, DispatchRetryLater, DispatchFileCap, DispatchReverseCap, Refresh,
      vars, hcmVars
<1> QED
  BY <1>2, <1>3, <1>4 DEF Next
-----------------------------------------------------------------------------
(* Counted before sent *)

LEMMA CountedStep ==
  ASSUME Inv, CountedBeforeSent, [Next]_vars
  PROVE  CountedBeforeSent'
<1>1. TypeOK
  BY DEF Inv
<1>2. \A c \in Calls :
        idempotencyStore[c] = "ok" => idempotencyStore'[c] = "ok"
  BY <1>1, HcmStep
<1>3. CASE Evolves /\ ~\E i \in DOMAIN outbox : DispatchBegin(i)
  <2>1. \A i \in DOMAIN outbox : /\ CallOf(outbox'[i]) = CallOf(outbox[i])
                                 /\ outbox'[i].attempts = outbox[i].attempts
                                 /\ i \in DOMAIN outbox'
    BY <1>3 DEF Evolves, CallOf
  <2>2. ASSUME NEW c \in Calls, c \in wire' \/ idempotencyStore'[c] # "unseen"
        PROVE  \E i \in DOMAIN outbox' : CallOf(outbox'[i]) = c /\ outbox'[i].attempts > 0
    <3>1. c \in wire \/ idempotencyStore[c] # "unseen"
      BY <1>1, <1>3, <2>2, HcmStep
    <3> QED
      BY <2>1, <3>1 DEF CountedBeforeSent
  <2>3. ASSUME NEW i \in DOMAIN outbox', outbox'[i].status = "SENT"
        PROVE  idempotencyStore'[CallOf(outbox'[i])] = "ok"
    <3>1. i \in DOMAIN outbox
      BY <1>3, <2>3 DEF Evolves
    <3>2. idempotencyStore[CallOf(outbox[i])] = "ok"
      BY <1>3, <2>3, <3>1 DEF Evolves, CountedBeforeSent
    <3> QED
      BY <1>1, <1>2, <2>1, <3>1, <3>2, RowTypes
  <2> QED
    BY <2>2, <2>3 DEF CountedBeforeSent, CallOf
<1>4. CASE \E i \in DOMAIN outbox : DispatchBegin(i)
  <2>1. PICK i \in DOMAIN outbox : DispatchBegin(i)
    BY <1>4
  <2>2. \A j \in DOMAIN outbox : outbox[j] \in OutboxRow
    BY <1>1, RowTypes
  <2>3. /\ DOMAIN outbox' = DOMAIN outbox
        /\ \A j \in DOMAIN outbox :
             /\ CallOf(outbox'[j]) = CallOf(outbox[j])
             /\ outbox'[j].status = outbox[j].status
             /\ outbox'[j].attempts = IF j = i THEN outbox[j].attempts + 1
                                               ELSE outbox[j].attempts
        /\ UNCHANGED idempotencyStore
        /\ wire' = wire \cup {CallOf(outbox[i])}
    BY <2>1, <2>2 DEF DispatchBegin, OutboxRow, CallOf
  <2>4. \A j \in DOMAIN outbox : outbox[j].attempts \in Nat
    BY <2>2 DEF OutboxRow
  <2>5. ASSUME NEW c \in Calls, c \in wire' \/ idempotencyStore'[c] # "unseen"
        PROVE  \E j \in DOMAIN outbox' : CallOf(outbox'[j]) = c /\ outbox'[j].attempts > 0
    <3>1. CASE c = CallOf(outbox[i])
      BY <2>3, <2>4, <3>1
    <3>2. CASE c # CallOf(outbox[i])
      <4>1. PICK j \in DOMAIN outbox : CallOf(outbox[j]) = c /\ outbox[j].attempts > 0
        BY <2>3, <2>5, <3>2 DEF CountedBeforeSent
      <4> QED
        BY <2>3, <2>4, <4>1
    <3> QED
      BY <3>1, <3>2
  <2>6. ASSUME NEW j \in DOMAIN outbox', outbox'[j].status = "SENT"
        PROVE  idempotencyStore'[CallOf(outbox'[j])] = "ok"
    BY <2>3, <2>6 DEF CountedBeforeSent
  <2> QED
    BY <2>5, <2>6 DEF CountedBeforeSent, CallOf
<1> QED
  BY <1>3, <1>4, StepEvolves

\* outbox-dispatcher.service.ts 118-186: whatever HCM was sent, answered or
\* still has on the wire was counted in a row first, restarts included.
THEOREM NothingSentUncounted == Spec => []CountedBeforeSent
<1>1. Init => CountedBeforeSent
  BY DEF Init, CountedBeforeSent
<1>2. Inv /\ CountedBeforeSent /\ [Next]_vars => CountedBeforeSent'
  BY CountedStep
<1> QED
  BY <1>1, <1>2, InvAlways, PTL DEF Spec
-----------------------------------------------------------------------------
(* Decided is final *)

LEMMA TerminalStays ==
  ASSUME Inv, [Next]_vars, NEW r \in Submitted, ~Active(r)
  PROVE  requests'[r] = [requests[r] EXCEPT !.idem = requests'[r].idem]
<1>1. requests[r] \in RequestRow
  BY RequestTypes DEF Inv
<1>2. CASE Rests
  BY <1>1, <1>2 DEF Rests, RequestRow
<1>3. CASE \E q \in Submitted, s \in Statuses : Moves(q, s)
  <2>1. PICK q \in Submitted, s \in Statuses : Moves(q, s)
    BY <1>3
  <2>2. q # r
    BY <2>1 DEF Moves
  <2>3. requests'[r] = requests[r]
    BY <2>1, <2>2, MoveWrites DEF Moves
  <2> QED
    BY <1>1, <2>3 DEF RequestRow
<1>4. CASE \E k \in Keys, range \in Ranges, i \in IdemKeys, q \in Requests :
             Submit(q, k, range, i)
  <2>1. PICK i \in IdemKeys : requests'[r] = Rekeyed(r, i)
    BY <1>4 DEF Submit
  <2> QED
    BY <1>1, <2>1 DEF Rekeyed, RequestRow
<1> QED
  BY <1>2, <1>3, <1>4, StepMoves

LEMMA ClosedStays ==
  ASSUME Inv, [Next]_vars, NEW i \in DOMAIN outbox, outbox[i].status # "PENDING"
  PROVE  outbox'[i] = outbox[i]
<1>1. CASE Evolves
  BY <1>1 DEF Evolves
<1>2. CASE \E j \in DOMAIN outbox : DispatchBegin(j)
  BY <1>2 DEF DispatchBegin
<1> QED
  BY <1>1, <1>2, StepEvolves

\* A decided request keeps all but its idempotency key and a closed row all it
\* has, whatever late outcome, stale list or concurrent handler comes after.
THEOREM NothingRevived == Spec => DecidedIsFinal
<1>1. Inv /\ [Next]_vars =>
        [ /\ \A r \in Submitted :
               ~Active(r) => requests'[r] = [requests[r] EXCEPT !.idem = requests'[r].idem]
          /\ \A i \in DOMAIN outbox :
               outbox[i].status # "PENDING" => outbox'[i] = outbox[i] ]_vars
  BY TerminalStays, ClosedStays
<1> QED
  BY <1>1, InvAlways, PTL DEF Spec, DecidedIsFinal
-----------------------------------------------------------------------------
(* Attempts *)

Cap(i) == MaxAttempts + crashes + Clashes(outbox[i].req)

InFlight(i) == \E k \in Keys : lock[k].by = "dispatch" /\ lock[k].row = i

\* AttemptsBounded and, so that it is inductive, what is left: an open row that
\* nobody sends has an attempt to go, and one that is sent has the clash to go
\* as long as the clash can happen.
AttemptsLeft ==
  /\ \A i \in DOMAIN outbox : outbox[i].attempts <= Cap(i)
  /\ \A i \in DOMAIN outbox :
       outbox[i].status = "PENDING" /\ ~InFlight(i) => outbox[i].attempts < Cap(i)
  /\ \A k \in Keys :
       lock[k].by = "dispatch" /\ lock[k].idem # Retired
         => outbox[lock[k].row].attempts <= MaxAttempts + crashes

\* No dispatch starts or ends, and nothing crashes.
NoDispatch ==
  /\ UNCHANGED crashes
  /\ \A k \in Keys :
       lock[k].by = "dispatch" \/ lock'[k].by = "dispatch" => lock'[k] = lock[k]

LEMMA CapTypes ==
  ASSUME Inv, NEW i \in DOMAIN outbox
  PROVE  /\ outbox[i].attempts \in Nat
         /\ MaxAttempts \in Nat \ {0}
         /\ crashes \in Nat
         /\ Clashes(outbox[i].req) \in {0, 1}
         /\ outbox[i].req \in Submitted
BY RowTypes, NumbersAssumption DEF Inv, TypeOK, OutboxRow, Clashes, ReferencesResolve

\* The suffix of a re-keyed request stays.
LEMMA ClashesStay ==
  ASSUME Inv, [Next]_vars, NEW r \in Submitted
  PROVE  Clashes(r) <= Clashes(r)' /\ Clashes(r)' \in {0, 1}
<1>1. requests[r].idem = Retired => requests'[r].idem = Retired
  <2>1. CASE Rests
    BY <2>1 DEF Rests
  <2>2. CASE \E q \in Submitted, s \in Statuses : Moves(q, s)
    BY <2>2, MoveWrites DEF Moves
  <2>3. CASE \E k \in Keys, range \in Ranges, i \in IdemKeys, q \in Requests :
               Submit(q, k, range, i)
    <3>1. PICK k \in Keys, range \in Ranges, i \in IdemKeys, q \in Requests :
            Submit(q, k, range, i)
      BY <2>3
    <3>2. requests'[r].idem = IF requests[r].idem = i THEN Retired ELSE requests[r].idem
      BY <3>1, SubmitWrites
    <3> QED
      BY <3>2
  <2> QED
    BY <2>1, <2>2, <2>3, StepMoves
<1> QED
  BY <1>1 DEF Clashes

LEMMA AtMost ==
  ASSUME NEW a \in Nat, NEW b \in Nat, NEW c \in Nat, a <= b, b <= c
  PROVE  a <= c
OBVIOUS

\* The bounds of the rows there are and of the new ones, when rows only evolve.
LEMMA EvolvedCaps ==
  ASSUME Inv, AttemptsLeft, [Next]_vars, Evolves, UNCHANGED crashes
  PROVE  /\ \A i \in DOMAIN outbox : Cap(i) <= Cap(i)' /\ Cap(i) \in Nat /\ Cap(i)' \in Nat
         /\ \A i \in DOMAIN outbox' \ DOMAIN outbox : 0 < Cap(i)'
         /\ \A i \in DOMAIN outbox' : outbox'[i].attempts <= Cap(i)'
<1>1. \A i \in DOMAIN outbox : Cap(i) <= Cap(i)' /\ Cap(i) \in Nat /\ Cap(i)' \in Nat
  <2>1. TAKE i \in DOMAIN outbox
  <2>2. /\ outbox[i].req \in Submitted
        /\ MaxAttempts \in Nat \ {0} /\ crashes \in Nat
        /\ Clashes(outbox[i].req) \in {0, 1}
    BY CapTypes
  <2>3. /\ Clashes(outbox[i].req) <= Clashes(outbox[i].req)'
        /\ Clashes(outbox[i].req)' \in {0, 1}
    <3>1. ASSUME NEW r \in Submitted
          PROVE  Clashes(r) <= Clashes(r)' /\ Clashes(r)' \in {0, 1}
      BY ClashesStay
    <3>2. outbox'[i].req = outbox[i].req
      BY DEF Evolves
    <3> QED
      BY <2>2, <3>1, <3>2 DEF Clashes
  <2> QED
    BY <2>2, <2>3 DEF Cap
<1>2. \A i \in DOMAIN outbox' \ DOMAIN outbox : 0 < Cap(i)' /\ Cap(i)' \in Nat
  BY NumbersAssumption DEF Cap, Clashes, Inv, TypeOK
<1>3. ASSUME NEW i \in DOMAIN outbox'
      PROVE  outbox'[i].attempts <= Cap(i)'
  <2>1. CASE i \in DOMAIN outbox
    <3>1. outbox'[i].attempts = outbox[i].attempts /\ outbox[i].attempts \in Nat
      BY <2>1, CapTypes DEF Evolves
    <3>2. outbox[i].attempts <= Cap(i)
      BY <2>1 DEF AttemptsLeft
    <3>3. Cap(i) <= Cap(i)' /\ Cap(i) \in Nat /\ Cap(i)' \in Nat
      BY <1>1, <2>1
    <3>4. outbox'[i].attempts <= Cap(i) /\ outbox'[i].attempts \in Nat
      BY <3>1, <3>2
    <3> QED
      BY <3>3, <3>4, AtMost
  <2>2. CASE i \notin DOMAIN outbox
    <3>1. outbox'[i].attempts = 0
      BY <1>3, <2>2 DEF Evolves
    <3>2. 0 < Cap(i)' /\ Cap(i)' \in Nat
      BY <1>2, <1>3, <2>2
    <3> QED
      BY <3>1, <3>2
  <2> QED
    BY <2>1, <2>2
<1> QED
  BY <1>1, <1>2, <1>3

LEMMA QuietAttempts ==
  ASSUME Inv, AttemptsLeft, [Next]_vars, Evolves, NoDispatch
  PROVE  AttemptsLeft'
<1>1. \A i \in DOMAIN outbox : Cap(i) <= Cap(i)' /\ Cap(i) \in Nat /\ Cap(i)' \in Nat
  BY EvolvedCaps DEF NoDispatch
<1>2. \A i \in DOMAIN outbox' \ DOMAIN outbox : 0 < Cap(i)'
  BY EvolvedCaps DEF NoDispatch
<1>3. \A i : InFlight(i)' <=> InFlight(i)
  BY DEF InFlight, NoDispatch
<1>4. \A i \in DOMAIN outbox : outbox[i].attempts \in Nat
  BY CapTypes
<1>5. \A i \in DOMAIN outbox' : outbox'[i].attempts <= Cap(i)'
  BY EvolvedCaps DEF NoDispatch
<1>6. \A i \in DOMAIN outbox' :
        outbox'[i].status = "PENDING" /\ ~InFlight(i)' => outbox'[i].attempts < Cap(i)'
  BY <1>1, <1>2, <1>3, <1>4 DEF AttemptsLeft, Evolves
<1>7. ASSUME NEW k \in Keys, lock'[k].by = "dispatch", lock'[k].idem # Retired
      PROVE  outbox'[lock'[k].row].attempts <= MaxAttempts + crashes'
  <2>1. lock'[k] = lock[k] /\ lock[k].row \in DOMAIN outbox
    BY <1>7 DEF NoDispatch, Inv, StillRight
  <2> QED
    BY <1>7, <2>1 DEF AttemptsLeft, Evolves, NoDispatch
<1> QED
  BY <1>5, <1>6, <1>7 DEF AttemptsLeft

LEMMA CrashAttempts ==
  ASSUME Inv, AttemptsLeft, Crash
  PROVE  AttemptsLeft'
<1>1. /\ UNCHANGED <<outbox, requests>>
      /\ crashes' = crashes + 1
      /\ \A k \in Keys : lock'[k].by # "dispatch"
  BY DEF Crash, Free
<1>2. \A i \in DOMAIN outbox : Cap(i)' = Cap(i) + 1 /\ Cap(i) \in Nat
  BY <1>1, CapTypes DEF Cap, Clashes
<1> QED
  BY <1>1, <1>2, CapTypes DEF AttemptsLeft

LEMMA BeginAttempts ==
  ASSUME Inv, AttemptsLeft, NEW i \in DOMAIN outbox, DispatchBegin(i)
  PROVE  AttemptsLeft'
<1> DEFINE k == KeyOf(outbox[i])
<1>1. \A j \in DOMAIN outbox : outbox[j] \in OutboxRow
  BY RowTypes DEF Inv
<1>2. /\ DOMAIN outbox' = DOMAIN outbox
      /\ UNCHANGED <<requests, crashes>>
      /\ \A j \in DOMAIN outbox :
           /\ outbox'[j].req = outbox[j].req
           /\ outbox'[j].status = outbox[j].status
           /\ outbox'[j].attempts = IF j = i THEN outbox[j].attempts + 1
                                             ELSE outbox[j].attempts
  BY <1>1 DEF DispatchBegin, OutboxRow
<1>3. k \in Keys
  BY CapTypes, RequestTypes DEF KeyOf, Inv
<1>4. /\ lock[k] = Free
      /\ lock'[k] = [by |-> "dispatch", row |-> i, idem |-> requests[outbox[i].req].idem]
      /\ \A j \in Keys \ {k} : lock'[j] = lock[j]
  BY <1>3, AcquireWrite DEF DispatchBegin, IsFree, Inv
<1>5. ~InFlight(i)
  BY <1>4 DEF InFlight, Inv, StillRight, KeyOf, Free
<1>6. outbox[i].attempts < Cap(i)
  BY <1>5 DEF AttemptsLeft, DispatchBegin
<1>7. \A j \in DOMAIN outbox : Cap(j)' = Cap(j) /\ Cap(j) \in Nat
  BY <1>2, CapTypes DEF Cap, Clashes
<1>8. \A j : InFlight(j)' <=> InFlight(j) \/ j = i
  BY <1>3, <1>4 DEF InFlight, Free
<1>9. \A j \in DOMAIN outbox : outbox[j].attempts \in Nat
  BY CapTypes
<1>10. \A j \in DOMAIN outbox' : outbox'[j].attempts <= Cap(j)'
  BY <1>2, <1>6, <1>7, <1>9 DEF AttemptsLeft
<1>11. \A j \in DOMAIN outbox' :
         outbox'[j].status = "PENDING" /\ ~InFlight(j)' => outbox'[j].attempts < Cap(j)'
  BY <1>2, <1>7, <1>8 DEF AttemptsLeft
<1>12. ASSUME NEW j \in Keys, lock'[j].by = "dispatch", lock'[j].idem # Retired
       PROVE  outbox'[lock'[j].row].attempts <= MaxAttempts + crashes'
  <2>1. CASE j = k
    <3>1. Cap(i) = MaxAttempts + crashes
      BY <1>4, <1>12, <2>1, NumbersAssumption DEF Cap, Clashes, Inv, TypeOK
    <3> QED
      BY <1>2, <1>4, <1>6, <1>7, <1>9, <2>1, <3>1
  <2>2. CASE j # k
    <3>1. lock[j] = lock'[j] /\ lock[j].row \in DOMAIN outbox /\ lock[j].row # i
      BY <1>4, <1>5, <1>12, <2>2 DEF InFlight, Inv, StillRight
    <3> QED
      BY <1>2, <1>12, <3>1 DEF AttemptsLeft
  <2> QED
    BY <2>1, <2>2
<1> QED
  BY <1>10, <1>11, <1>12 DEF AttemptsLeft

LEMMA EndAttempts ==
  ASSUME Inv, AttemptsLeft, [Next]_vars, NEW k \in Keys, DispatchEnd(k)
  PROVE  AttemptsLeft'
<1>1. /\ lock[k].by = "dispatch"
      /\ UNCHANGED crashes
  BY DEF DispatchEnd, DispatchAcked, DispatchAckClash, DispatchRetryLater,
         DispatchFileCap, DispatchReverseCap
<1>2. PICK i \in DOMAIN outbox : i = lock[k].row /\ outbox[i].status = "PENDING"
  BY <1>1 DEF Inv, StillRight
<1>3. lock'[k] = Free /\ \A j \in Keys \ {k} : lock'[j] = lock[j]
  BY AcquireWrite
  DEF DispatchEnd, DispatchAcked, DispatchAckClash, DispatchRetryLater,
      DispatchFileCap, DispatchReverseCap, Unlock, Inv
<1>4. Evolves
  BY DispatchEndEvolves
<1>5. \A j \in DOMAIN outbox : Cap(j) <= Cap(j)' /\ Cap(j) \in Nat /\ Cap(j)' \in Nat
  BY <1>1, <1>4, EvolvedCaps
<1>6. \A j \in DOMAIN outbox' \ DOMAIN outbox : 0 < Cap(j)'
  BY <1>1, <1>4, EvolvedCaps
<1>7. \A j : j # i => (InFlight(j)' <=> InFlight(j))
  BY <1>2, <1>3 DEF InFlight, Free
<1>8. \A j \in DOMAIN outbox : outbox[j].attempts \in Nat
  BY CapTypes
<1>9. \A j \in DOMAIN outbox' : outbox'[j].attempts <= Cap(j)'
  BY <1>1, <1>4, EvolvedCaps
<1>10. outbox'[i].status = "PENDING" => outbox'[i].attempts < Cap(i)'
  <2>1. CASE DispatchAcked(k) \/ DispatchFileCap(k) \/ DispatchReverseCap(k)
    <3>1. outbox[i] \in OutboxRow /\ outbox[i].req \in Requests /\ TypeOK
      BY RowTypes DEF Inv, OutboxRow
    <3>2. CASE DispatchAcked(k) \/ DispatchReverseCap(k)
      <4>1. PICK s \in {"SENT", "FAILED"} : outbox' = [outbox EXCEPT ![i].status = s]
        BY <1>2, <3>2 DEF DispatchAcked, DispatchReverseCap
      <4> QED
        BY <3>1, <4>1 DEF OutboxRow
    <3>3. CASE DispatchFileCap(k)
      <4>1. outbox' = Append([outbox EXCEPT ![i].status = "FAILED"],
                             NewRow(outbox[i].req, "REVERSE"))
        BY <1>2, <3>3 DEF DispatchFileCap
      <4>2. outbox'[i].status = "FAILED"
        BY <3>1, <4>1 DEF OutboxRow, TypeOK
      <4> QED
        BY <4>2
    <3> QED
      BY <2>1, <3>2, <3>3
  <2>2. CASE DispatchAckClash(k)
    <3>1. /\ UNCHANGED <<outbox, requests>>
          /\ requests[outbox[i].req].idem # lock[k].idem
      BY <1>2, <2>2 DEF DispatchAckClash, RekeyedMeanwhile
    <3>2. requests[outbox[i].req].idem = Retired /\ lock[k].idem # Retired
      BY <1>1, <1>2, <3>1 DEF Inv, StillRight
    <3>3. outbox[i].attempts <= MaxAttempts + crashes
      BY <1>1, <1>2, <3>2 DEF AttemptsLeft
    <3>4. Cap(i)' = MaxAttempts + crashes + 1
      BY <1>1, <3>1, <3>2 DEF Cap, Clashes
    <3> QED
      BY <3>1, <3>3, <3>4, CapTypes
  <2>3. CASE DispatchRetryLater(k)
    <3>1. UNCHANGED outbox /\ ~(outbox[i].attempts >= MaxAttempts)
      BY <1>2, <2>3 DEF DispatchRetryLater, AtCap
    <3>2. MaxAttempts <= Cap(i)
      BY CapTypes DEF Cap
    <3> QED
      BY <1>5, <1>8, <3>1, <3>2, NumbersAssumption
  <2> QED
    BY <2>1, <2>2, <2>3 DEF DispatchEnd
<1>11. \A j \in DOMAIN outbox' :
         outbox'[j].status = "PENDING" /\ ~InFlight(j)' => outbox'[j].attempts < Cap(j)'
  BY <1>4, <1>5, <1>6, <1>7, <1>8, <1>10 DEF AttemptsLeft, Evolves
<1>12. ASSUME NEW j \in Keys, lock'[j].by = "dispatch", lock'[j].idem # Retired
       PROVE  outbox'[lock'[j].row].attempts <= MaxAttempts + crashes'
  <2>1. lock'[j] = lock[j] /\ lock[j].row \in DOMAIN outbox
    BY <1>3, <1>12 DEF Inv, StillRight, Free
  <2> QED
    BY <1>1, <1>4, <1>12, <2>1 DEF AttemptsLeft, Evolves
<1> QED
  BY <1>9, <1>11, <1>12 DEF AttemptsLeft

LEMMA AttemptsStep ==
  ASSUME Inv, AttemptsLeft, [Next]_vars
  PROVE  AttemptsLeft'
<1>1. CASE Crash
  BY <1>1, CrashAttempts
<1>2. CASE \E i \in DOMAIN outbox : DispatchBegin(i)
  BY <1>2, BeginAttempts
<1>3. CASE \E k \in Keys : DispatchEnd(k)
  BY <1>3, EndAttempts
<1>4. CASE /\ ~\E i \in DOMAIN outbox : DispatchBegin(i)
           /\ \/ UNCHANGED <<lock, crashes>>
              \/ \E k \in Keys, h \in LockState :
                   /\ UNCHANGED crashes
                   /\ Acquire(k, h)
                   /\ lock[k].by # "dispatch" /\ h.by # "dispatch"
  <2>1. NoDispatch
    BY <1>4, AcquireWrite DEF NoDispatch, Inv
  <2> QED
    BY <1>4, <2>1, StepEvolves, QuietAttempts
<1>5. CASE \/ Tick
           \/ \E r \in Submitted : \/ ApprovePast(r) \/ Reject(r) \/ Cancel(r) \/ SweepOne(r)
                                   \/ ServeFile(r) \/ ServeReverse(r)
           \/ \E k \in Keys : Refresh(k)
           \/ UNCHANGED vars
  <2>1. UNCHANGED <<lock, crashes>>
    BY <1>5 DEF Tick, ApprovePast, Reject, Cancel, SweepOne, Expire, ServeFile, ServeReverse,
                Refresh, vars, serviceVars
  <2> QED
    BY <1>2, <1>4, <2>1
<1>6. CASE Client
  <2>1. \/ UNCHANGED <<lock, crashes>>
        \/ \E k \in Keys : IsFree(k) /\ Acquire(k, [by |-> "submit"]) /\ UNCHANGED crashes
    BY <1>6 DEF Client, Submit, SubmitHangs
  <2>2. [by |-> "submit"] \in LockState
    BY DEF LockState
  <2> QED
    BY <1>2, <1>4, <2>1, <2>2 DEF IsFree, Free
<1>7. CASE \E r \in Submitted : ApproveRefresh(r)
  <2>1. PICK r \in Submitted : ApproveRefresh(r)
    BY <1>7
  <2>2. PICK k \in Keys : k = requests[r].key
    BY RequestTypes DEF Inv
  <2>3. [by |-> "approve", req |-> r, snapshot |-> hcm[k]] \in LockState
    BY RequestTypes DEF LockState, Inv, TypeOK
  <2> QED
    BY <1>2, <1>4, <2>1, <2>2, <2>3 DEF ApproveRefresh, IsFree, Free
<1>8. CASE \E k \in Keys : HydrateRead(k)
  <2>1. PICK k \in Keys : HydrateRead(k)
    BY <1>8
  <2>2. [by |-> "hydrate", snapshot |-> hcm[k]] \in LockState
    BY DEF LockState, Inv, TypeOK
  <2> QED
    BY <1>2, <1>4, <2>1, <2>2 DEF HydrateRead, IsFree, Free
<1>9. CASE \E k \in Keys : ApproveSnapshot(k)
  <2>1. PICK k \in Keys : ApproveSnapshot(k)
    BY <1>9
  <2>2. [by |-> "validate", req |-> lock[k].req] \in LockState
    BY <2>1, HolderTypes DEF ApproveSnapshot, LockState, Inv
  <2> QED
    BY <1>2, <1>4, <2>1, <2>2 DEF ApproveSnapshot
<1>10. CASE \E k \in Keys : HydrateApply(k) \/ HydrateDegraded(k) \/ ApproveReject(k)
                              \/ ApproveCommit(k)
  BY <1>2, <1>4, <1>10, FreeType
  DEF HydrateApply, HydrateDegraded, ApproveReject, ApproveCommit, Unlock, Free
<1> QED
  BY <1>1, <1>2, <1>3, <1>5, <1>6, <1>7, <1>8, <1>9, <1>10 DEF Next, Handler, Resume

\* outbox-dispatcher.service.ts 148 and 231: a row is tried up to the cap, once
\* more for each restart, and once more if re-keying lost its outcome.
THEOREM TriesAreCapped == Spec => []AttemptsBounded
<1>1. Init => AttemptsLeft
  BY DEF Init, AttemptsLeft, Free
<1>2. Inv /\ AttemptsLeft /\ [Next]_vars => AttemptsLeft'
  BY AttemptsStep
<1>3. AttemptsLeft => AttemptsBounded
  BY DEF AttemptsLeft, AttemptsBounded, Cap
<1> QED
  BY <1>1, <1>2, <1>3, InvAlways, PTL DEF Spec
-----------------------------------------------------------------------------
(* Refinement of RequestLifecycle *)

\* The refinement mapping, by name.
StatusOf == [r \in Requests |-> IF r \in Submitted THEN requests[r].status ELSE "NONE"]
Filed    == {r \in Requests : RowsOf(r, "FILE") # {}}
Deducted == {r \in Requests : idempotencyStore[<<r, "FILE">>] = "ok"}
Returned == {r \in Requests : idempotencyStore[<<r, "REVERSE">>] = "ok"}

\* Rows keep their command and no FILE is added.
NoNewFile ==
  /\ DOMAIN outbox \subseteq DOMAIN outbox'
  /\ \A i \in DOMAIN outbox : /\ outbox'[i].req = outbox[i].req
                              /\ outbox'[i].op = outbox[i].op
  /\ \A i \in DOMAIN outbox' \ DOMAIN outbox : outbox'[i].op # "FILE"

\* The handlers leave HCM alone.
HcmKept == UNCHANGED idempotencyStore

LEMMA HcmKeeps ==
  ASSUME HcmKept
  PROVE  Deducted' = Deducted /\ Returned' = Returned
BY DEF HcmKept, Deducted, Returned

LEMMA FiledKeeps ==
  ASSUME NoNewFile
  PROVE  Filed' = Filed
<1>1. ASSUME NEW r
      PROVE  (RowsOf(r, "FILE") # {})' <=> RowsOf(r, "FILE") # {}
  BY DEF NoNewFile, RowsOf
<1> QED
  BY <1>1 DEF Filed

LEMMA StatusKeeps ==
  ASSUME UNCHANGED requests
  PROVE  StatusOf' = StatusOf
BY DEF StatusOf, Submitted

LEMMA StatusMoves ==
  ASSUME Inv, NEW r \in Submitted, NEW s, SetStatus(r, s)
  PROVE  /\ r \in Requests
         /\ StatusOf[r] = requests[r].status
         /\ StatusOf' = [StatusOf EXCEPT ![r] = s]
<1>1. r \in Requests
  BY RequestTypes DEF Inv
<1>2. /\ Submitted' = Submitted
      /\ requests'[r].status = s
      /\ \A q \in Submitted \ {r} : requests'[q] = requests[q]
  BY MoveWrites, StatusWrite DEF Inv
<1>3. \A q \in Requests : StatusOf'[q] = IF q = r THEN s ELSE StatusOf[q]
  BY <1>1, <1>2 DEF StatusOf
<1> QED
  BY <1>1, <1>3 DEF StatusOf

LEMMA VoidAddsNoFile == ASSUME NEW r, Voids(r) PROVE NoNewFile
BY DEF Voids, NoNewFile

LEMMA ReverseIsNoFile == ASSUME NEW r, Adds(r, "REVERSE") PROVE NoNewFile
BY DEF Adds, NoNewFile

LEMMA CloseAddsNoFile == ASSUME NEW i, NEW s, Closes(i, s) PROVE NoNewFile
BY DEF Closes, NoNewFile

LEMMA GiveUpAddsNoFile == ASSUME NEW i, GivesUp(i) PROVE NoNewFile
BY DEF GivesUp, NoNewFile
-----------------------------------------------------------------------------
(* What a step is in the lifecycle *)

LEMMA Stutters ==
  ASSUME StatusOf' = StatusOf, Filed' = Filed, Deducted' = Deducted, Returned' = Returned
  PROVE  UNCHANGED Lifecycle!vars
BY DEF Lifecycle!vars, StatusOf, Filed, Deducted, Returned

LEMMA StaysPut ==
  ASSUME UNCHANGED requests, NoNewFile, HcmKept
  PROVE  UNCHANGED Lifecycle!vars
BY StatusKeeps, FiledKeeps, HcmKeeps, Stutters

LEMMA Withdrawing ==
  ASSUME Inv, NEW r \in Submitted, requests[r].status \in {"PENDING", "PENDING_SYNC"},
         NEW s \in TerminalStatuses, SetStatus(r, s), NoNewFile, HcmKept
  PROVE  Lifecycle!Next
<1>1. /\ r \in Requests
      /\ StatusOf[r] \in {"PENDING", "PENDING_SYNC"}
      /\ StatusOf' = [StatusOf EXCEPT ![r] = s]
  BY StatusMoves
<1>2. Filed' = Filed /\ Deducted' = Deducted /\ Returned' = Returned
  BY FiledKeeps, HcmKeeps
<1>3. s \in {"REJECTED", "CANCELLED", "EXPIRED"}
  BY DEF TerminalStatuses
<1>4. Lifecycle!Withdraw(r)
  BY <1>1, <1>2, <1>3
  DEF Lifecycle!Withdraw, Lifecycle!Move, StatusOf, Filed, Deducted, Returned
<1> QED
  BY <1>1, <1>4 DEF Lifecycle!Next

LEMMA CancellingApproved ==
  ASSUME Inv, NEW r \in Submitted, requests[r].status = "APPROVED",
         SetStatus(r, "CANCELLED"), NoNewFile, HcmKept
  PROVE  Lifecycle!Next
<1>1. /\ r \in Requests
      /\ StatusOf[r] \in {"APPROVED"}
      /\ StatusOf' = [StatusOf EXCEPT ![r] = "CANCELLED"]
  BY StatusMoves
<1>2. Filed' = Filed /\ Deducted' = Deducted /\ Returned' = Returned
  BY FiledKeeps, HcmKeeps
<1>3. Lifecycle!CancelApproved(r)
  BY <1>1, <1>2
  DEF Lifecycle!CancelApproved, Lifecycle!Move, StatusOf, Filed, Deducted, Returned
<1> QED
  BY <1>1, <1>3 DEF Lifecycle!Next

LEMMA Confirming ==
  ASSUME Inv, NEW r \in Submitted, requests[r].status = "PENDING_SYNC",
         idempotencyStore[<<r, "FILE">>] = "ok", SetStatus(r, "APPROVED"), NoNewFile, HcmKept
  PROVE  Lifecycle!Next
<1>1. /\ r \in Requests
      /\ StatusOf[r] \in {"PENDING_SYNC"}
      /\ StatusOf' = [StatusOf EXCEPT ![r] = "APPROVED"]
  BY StatusMoves
<1>2. Filed' = Filed /\ Deducted' = Deducted /\ Returned' = Returned
  BY FiledKeeps, HcmKeeps
<1>3. r \in Deducted
  BY <1>1 DEF Deducted
<1>4. Lifecycle!Confirm(r)
  BY <1>1, <1>2, <1>3
  DEF Lifecycle!Confirm, Lifecycle!Move, StatusOf, Filed, Deducted, Returned
<1> QED
  BY <1>1, <1>4 DEF Lifecycle!Next

LEMMA Approving ==
  ASSUME Inv, NEW r \in Submitted, requests[r].status = "PENDING",
         SetStatus(r, "PENDING_SYNC"), Adds(r, "FILE"), HcmKept
  PROVE  Lifecycle!Next
<1>1. /\ r \in Requests
      /\ StatusOf[r] \in {"PENDING"}
      /\ StatusOf' = [StatusOf EXCEPT ![r] = "PENDING_SYNC"]
  BY StatusMoves
<1>2. Deducted' = Deducted /\ Returned' = Returned
  BY HcmKeeps
<1>3. Filed' = Filed \cup {r}
  <2>1. ASSUME NEW q
        PROVE  (RowsOf(q, "FILE") # {})' <=> RowsOf(q, "FILE") # {} \/ q = r
    BY DEF Adds, RowsOf
  <2> QED
    BY <1>1, <2>1 DEF Filed
<1>4. Lifecycle!Approve(r)
  BY <1>1, <1>2, <1>3
  DEF Lifecycle!Approve, Lifecycle!Move, StatusOf, Filed, Deducted, Returned
<1> QED
  BY <1>1, <1>4 DEF Lifecycle!Next

LEMMA Submitting ==
  ASSUME Inv, NEW k \in Keys, NEW range \in Ranges, NEW i \in IdemKeys, NEW r \in Requests,
         Submit(r, k, range, i)
  PROVE  Lifecycle!Next
<1>1. StatusOf[r] \in {"NONE"} /\ StatusOf' = [StatusOf EXCEPT ![r] = "PENDING"]
  <2>1. /\ r \notin Submitted
        /\ Submitted' = Submitted \cup {r}
        /\ requests'[r].status = "PENDING"
        /\ \A q \in Submitted : requests'[q].status = requests[q].status
    <3>1. requests'[r] = NewRequest(k, range, i)
      BY SubmitWrites
    <3>2. requests'[r].status = "PENDING"
      BY <3>1 DEF NewRequest
    <3> QED
      BY <3>2, SubmitWrites
  <2>2. \A q \in Requests : StatusOf'[q] = IF q = r THEN "PENDING" ELSE StatusOf[q]
    BY <2>1 DEF StatusOf
  <2> QED
    BY <2>1, <2>2 DEF StatusOf
<1>2. Filed' = Filed /\ Deducted' = Deducted /\ Returned' = Returned
  BY FiledKeeps, HcmKeeps DEF Submit, NoNewFile, HcmKept, hcmVars
<1>3. Lifecycle!Submit(r)
  BY <1>1, <1>2
  DEF Lifecycle!Submit, Lifecycle!Move, StatusOf, Filed, Deducted, Returned
<1> QED
  BY <1>3 DEF Lifecycle!Next
-----------------------------------------------------------------------------
(* The steps of the system *)

LEMMA HcmServes ==
  ASSUME Inv, CountedBeforeSent, NEW r \in Submitted, ServeFile(r) \/ ServeReverse(r)
  PROVE  [Lifecycle!Next]_(Lifecycle!vars)
<1>1. r \in Requests /\ <<r, "FILE">> \in Calls /\ <<r, "REVERSE">> \in Calls
  BY RequestTypes DEF Inv, Calls, Operations
<1>2. StatusOf' = StatusOf /\ Filed' = Filed
  BY StatusKeeps, FiledKeeps DEF ServeFile, ServeReverse, serviceVars, NoNewFile
<1>3. idempotencyStore \in [Calls -> {"unseen", "ok", "refused"}]
  BY DEF Inv, TypeOK
<1>4. CASE UNCHANGED idempotencyStore
  BY <1>2, <1>4, HcmKeeps, Stutters DEF HcmKept
<1>5. CASE ServeFile(r) /\ ~UNCHANGED idempotencyStore
  <2>1. PICK answer \in {"ok", "refused"} :
          /\ idempotencyStore[<<r, "FILE">>] = "unseen"
          /\ idempotencyStore' = [idempotencyStore EXCEPT ![<<r, "FILE">>] = answer]
    BY <1>5 DEF ServeFile
  <2>2. Returned' = Returned
    BY <1>1, <1>3, <2>1 DEF Returned, Calls, Operations
  <2>3. r \in Filed
    <3>1. <<r, "FILE">> \in wire
      BY <1>5 DEF ServeFile
    <3>2. PICK i \in DOMAIN outbox : CallOf(outbox[i]) = <<r, "FILE">>
      BY <1>1, <3>1 DEF CountedBeforeSent
    <3> QED
      BY <1>1, <3>2 DEF Filed, RowsOf, CallOf
  <2>4. CASE answer = "ok"
    <3>1. Deducted' = Deducted \cup {r}
      BY <1>1, <1>3, <2>1, <2>4 DEF Deducted, Calls, Operations
    <3>2. Lifecycle!HcmDeducts(r)
      BY <1>2, <2>2, <2>3, <3>1
      DEF Lifecycle!HcmDeducts, StatusOf, Filed, Deducted, Returned
    <3> QED
      BY <1>1, <3>2 DEF Lifecycle!Next
  <2>5. CASE answer = "refused"
    <3>1. Deducted' = Deducted
      BY <1>1, <1>3, <2>1, <2>5 DEF Deducted, Calls, Operations
    <3> QED
      BY <1>2, <2>2, <3>1, Stutters
  <2> QED
    BY <2>1, <2>4, <2>5
<1>6. CASE ServeReverse(r) /\ ~UNCHANGED idempotencyStore
  <2>1. /\ idempotencyStore[<<r, "REVERSE">>] = "unseen"
        /\ idempotencyStore' = [idempotencyStore EXCEPT ![<<r, "REVERSE">>] = "ok"]
    BY <1>6 DEF ServeReverse
  <2>2. Deducted' = Deducted /\ Returned' = Returned \cup {r}
    BY <1>1, <1>3, <2>1 DEF Deducted, Returned, Calls, Operations
  <2>3. RowsOf(r, "REVERSE") # {}
    <3>1. <<r, "REVERSE">> \in wire
      BY <1>6 DEF ServeReverse
    <3>2. PICK i \in DOMAIN outbox : CallOf(outbox[i]) = <<r, "REVERSE">>
      BY <1>1, <3>1 DEF CountedBeforeSent
    <3> QED
      BY <3>2 DEF RowsOf, CallOf
  <2>4. r \in Filed /\ StatusOf[r] \in {"REJECTED", "CANCELLED"}
    <3>1. /\ HasRow(r, "FILE", {"SENT", "FAILED"})
          /\ requests[r].status \in {"CANCELLED", "REJECTED"}
      BY <2>3 DEF Inv, Agrees
    <3> QED
      BY <1>1, <3>1 DEF Filed, StatusOf, HasRow
  <2>5. Lifecycle!HcmReturns(r)
    BY <1>2, <2>2, <2>4
    DEF Lifecycle!HcmReturns, StatusOf, Filed, Deducted, Returned
  <2> QED
    BY <1>1, <2>5 DEF Lifecycle!Next
<1> QED
  BY <1>4, <1>5, <1>6

LEMMA HandlerFollows ==
  ASSUME Inv, NEW r \in Submitted, ApprovePast(r) \/ Reject(r) \/ Cancel(r) \/ SweepOne(r)
  PROVE  Lifecycle!Next
<1>1. r \in Requests /\ TypeOK
  BY RequestTypes DEF Inv
<1>2. HcmKept
  BY DEF ApprovePast, Reject, Cancel, SweepOne, Expire, HcmKept, hcmVars
<1>3. NoNewFile
  <2>1. UNCHANGED outbox => NoNewFile
    BY DEF NoNewFile
  <2>2. VoidPendingFileRows(r) => NoNewFile
    BY <1>1, VoidWrite, VoidAddsNoFile
  <2>3. Enqueue(r, "REVERSE") => NoNewFile
    <3>1. Enqueue(r, "REVERSE") => Adds(r, "REVERSE")
      BY <1>1, EnqueueWrite DEF Operations
    <3> QED
      BY <3>1, ReverseIsNoFile
  <2> QED
    BY <2>1, <2>2, <2>3 DEF ApprovePast, Reject, Cancel, SweepOne, Expire
<1>4. CASE Cancel(r) /\ requests[r].status = "APPROVED"
  BY <1>2, <1>3, <1>4, CancellingApproved DEF Cancel
<1>5. CASE ~(Cancel(r) /\ requests[r].status = "APPROVED")
  <2>1. requests[r].status \in {"PENDING", "PENDING_SYNC"}
    BY <1>5 DEF ApprovePast, MayApprove, Reject, Cancel, SweepOne, Expire
  <2>2. PICK s \in TerminalStatuses : SetStatus(r, s)
    BY DEF ApprovePast, Reject, Cancel, SweepOne, Expire, TerminalStatuses
  <2> QED
    BY <1>2, <1>3, <2>1, <2>2, Withdrawing
<1> QED
  BY <1>4, <1>5

LEMMA ApproveEndFollows ==
  ASSUME Inv, NEW k \in Keys, ApproveReject(k) \/ ApproveCommit(k)
  PROVE  Lifecycle!Next
<1>1. PICK r \in Submitted : r = lock[k].req /\ requests[r].status = "PENDING"
  BY DEF ApproveReject, ApproveCommit, Inv, StillRight
<1>2. HcmKept
  BY DEF ApproveReject, ApproveCommit, HcmKept, hcmVars
<1>3. CASE ApproveReject(k)
  <2>1. SetStatus(r, "REJECTED") /\ NoNewFile
    BY <1>1, <1>3 DEF ApproveReject, NoNewFile
  <2> QED
    BY <1>1, <1>2, <2>1, Withdrawing DEF TerminalStatuses
<1>4. CASE ApproveCommit(k)
  <2>1. SetStatus(r, "PENDING_SYNC") /\ Enqueue(r, "FILE")
    BY <1>1, <1>4 DEF ApproveCommit
  <2>2. Adds(r, "FILE")
    BY <2>1, RequestTypes, EnqueueWrite DEF Inv, Operations
  <2> QED
    BY <1>1, <1>2, <2>1, <2>2, Approving
<1> QED
  BY <1>3, <1>4

LEMMA DispatchEndFollows ==
  ASSUME Inv, NEW k \in Keys, DispatchEnd(k)
  PROVE  [Lifecycle!Next]_(Lifecycle!vars)
<1>1. lock[k].by = "dispatch" /\ HcmKept
  BY DEF DispatchEnd, DispatchAcked, DispatchAckClash, DispatchRetryLater,
         DispatchFileCap, DispatchReverseCap, HcmKept, hcmVars
<1>2. PICK i \in DOMAIN outbox :
        /\ i = lock[k].row
        /\ outbox[i].op = "FILE" => requests[outbox[i].req].status = "PENDING_SYNC"
  BY <1>1 DEF Inv, StillRight
<1>3. PICK r \in Submitted : r = outbox[i].req
  BY DEF Inv, ReferencesResolve
<1>4. r \in Requests /\ TypeOK
  BY RequestTypes DEF Inv
<1>5. CASE DispatchAcked(k)
  <2>1. outbox' = [outbox EXCEPT ![i].status = "SENT"]
    BY <1>2, <1>5 DEF DispatchAcked
  <2>2. NoNewFile
    BY <1>4, <2>1, CloseWrite, CloseAddsNoFile
  <2>3. CASE outbox[i].op = "FILE"
    <3>1. idempotencyStore[<<r, "FILE">>] = "ok" /\ SetStatus(r, "APPROVED")
      BY <1>2, <1>3, <1>5, <2>3 DEF DispatchAcked, Acked, CallOf
    <3> QED
      BY <1>1, <1>2, <1>3, <2>2, <2>3, <3>1, Confirming
  <2>4. CASE outbox[i].op # "FILE"
    BY <1>1, <1>2, <1>5, <2>2, <2>4, StaysPut DEF DispatchAcked
  <2> QED
    BY <2>3, <2>4
<1>6. CASE DispatchFileCap(k)
  <2>1. /\ outbox[i].op = "FILE"
        /\ SetStatus(r, "REJECTED")
        /\ outbox' = Append([outbox EXCEPT ![i].status = "FAILED"],
                            NewRow(outbox[i].req, "REVERSE"))
    BY <1>2, <1>3, <1>6 DEF DispatchFileCap
  <2>2. NoNewFile
    BY <1>3, <1>4, <2>1, GiveUpWrite, GiveUpAddsNoFile
  <2> QED
    BY <1>1, <1>2, <1>3, <2>1, <2>2, Withdrawing DEF TerminalStatuses
<1>7. CASE DispatchReverseCap(k)
  <2>1. outbox' = [outbox EXCEPT ![i].status = "FAILED"]
    BY <1>2, <1>7 DEF DispatchReverseCap
  <2>2. NoNewFile
    BY <1>4, <2>1, CloseWrite, CloseAddsNoFile
  <2> QED
    BY <1>1, <1>7, <2>2, StaysPut DEF DispatchReverseCap
<1>8. CASE DispatchAckClash(k) \/ DispatchRetryLater(k)
  BY <1>1, <1>8, StaysPut DEF DispatchAckClash, DispatchRetryLater, NoNewFile
<1> QED
  BY <1>5, <1>6, <1>7, <1>8 DEF DispatchEnd

LEMMA StepFollows ==
  ASSUME Inv, CountedBeforeSent, [Next]_vars
  PROVE  [Lifecycle!Next]_(Lifecycle!vars)
<1>1. CASE UNCHANGED <<requests, outbox, idempotencyStore>>
  BY <1>1, StaysPut DEF NoNewFile, HcmKept
<1>2. CASE \E r \in Submitted : ServeFile(r) \/ ServeReverse(r)
  BY <1>2, HcmServes
<1>3. CASE \E r \in Submitted : ApprovePast(r) \/ Reject(r) \/ Cancel(r) \/ SweepOne(r)
  BY <1>3, HandlerFollows
<1>4. CASE \E k \in Keys : ApproveReject(k) \/ ApproveCommit(k)
  BY <1>4, ApproveEndFollows
<1>5. CASE \E k \in Keys : DispatchEnd(k)
  BY <1>5, DispatchEndFollows
<1>6. CASE \E i \in DOMAIN outbox : DispatchBegin(i)
  <2>1. PICK i \in DOMAIN outbox : DispatchBegin(i)
    BY <1>6
  <2>2. \A j \in DOMAIN outbox : outbox[j] \in OutboxRow
    BY RowTypes DEF Inv
  <2>3. NoNewFile /\ HcmKept /\ UNCHANGED requests
    BY <2>1, <2>2 DEF DispatchBegin, NoNewFile, HcmKept, OutboxRow
  <2> QED
    BY <2>3, StaysPut
<1>7. CASE \E k \in Keys, range \in Ranges, i \in IdemKeys, r \in Requests :
             Submit(r, k, range, i)
  BY <1>7, Submitting
<1>8. CASE \/ Tick \/ Crash
           \/ \E k \in Keys, range \in Ranges, i \in IdemKeys : SubmitHangs(k, range, i)
           \/ \E r \in Submitted : ApproveRefresh(r)
           \/ \E k \in Keys : HydrateRead(k) \/ HydrateApply(k) \/ HydrateDegraded(k)
                                \/ ApproveSnapshot(k) \/ Refresh(k)
           \/ UNCHANGED vars
  BY <1>1, <1>8
  DEF Tick, Crash, SubmitHangs, ApproveRefresh, HydrateRead, HydrateApply, HydrateDegraded,
      ApproveSnapshot, Refresh, vars, serviceVars, hcmVars
<1> QED
  BY <1>2, <1>3, <1>4, <1>5, <1>6, <1>7, <1>8 DEF Next, Handler, Resume, Client

\* For any number of requests, keys, tries and restarts, the service keeps the
\* promise of RequestLifecycle: no step of it, and no order of steps, takes a
\* request off the state machine, confirms what HCM has not deducted, or has
\* HCM give days back for an approval that stands.
THEOREM LifecycleFollowed == Spec => FollowsLifecycle
<1>1. Init => Lifecycle!Init
  BY DEF Init, Lifecycle!Init, Submitted, RowsOf, Calls, Operations
<1>2. Inv /\ CountedBeforeSent /\ [Next]_vars => [Lifecycle!Next]_(Lifecycle!vars)
  BY StepFollows
<1> QED
  BY <1>1, <1>2, InvAlways, NothingSentUncounted, PTL
  DEF Spec, FollowsLifecycle, Lifecycle!Spec
=============================================================================
