------------------------ MODULE TimeOffSystemAgreement ------------------------
(***************************************************************************)
(* The core safety theorem of TimeOffSystem: request status, outbox and    *)
(* lock holders agree in every reachable state.  The three invariants are  *)
(* inductive together only.  A holder's request is still as it was because *)
(* nobody else moves it; nobody moves it because they need the lock; and   *)
(* what the holder then writes fits the outbox because status and rows     *)
(* agreed when it took the lock.                                           *)
(***************************************************************************)
EXTENDS TimeOffSystemTypes

\* One request and its rows, as OutboxMatchesStatus and OneRowPerOperation
\* have it.
Agrees(r) ==
  LET s == requests[r].status IN
  /\ s = "PENDING" => RowsOf(r, "FILE") = {}
  /\ s = "PENDING_SYNC" <=> HasRow(r, "FILE", {"PENDING"})
  /\ s = "APPROVED" => HasRow(r, "FILE", {"SENT"})
  /\ HasRow(r, "FILE", {"SENT", "FAILED"}) /\ s # "APPROVED"
       <=> RowsOf(r, "REVERSE") # {}
  /\ RowsOf(r, "REVERSE") # {} => s \in {"CANCELLED", "REJECTED"}
  /\ \A i, j \in DOMAIN outbox :
       outbox[i].req = r /\ outbox[j].req = r /\ outbox[i].op = outbox[j].op => i = j

\* One key's holder, as HolderStillRight has it.
StillRight(k) ==
  /\ lock[k].by \in {"approve", "validate"} =>
       /\ lock[k].req \in Submitted
       /\ requests[lock[k].req].key = k
       /\ requests[lock[k].req].status = "PENDING"
  /\ lock[k].by = "dispatch" =>
       /\ lock[k].row \in DOMAIN outbox
       /\ outbox[lock[k].row].status = "PENDING"
       /\ requests[outbox[lock[k].row].req].key = k
       /\ outbox[lock[k].row].op = "FILE"
            => requests[outbox[lock[k].row].req].status = "PENDING_SYNC"
       /\ requests[outbox[lock[k].row].req].idem # lock[k].idem =>
            /\ outbox[lock[k].row].op = "REVERSE"
            /\ requests[outbox[lock[k].row].req].idem = Retired
  /\ lock[k].by \in {"hydrate", "submit"} => ~balances[k].warm

Inv ==
  /\ TypeOK
  /\ ReferencesResolve
  /\ \A r \in Submitted : Agrees(r)
  /\ \A k \in Keys : StillRight(k)

\* The invariant says what the runs check.
LEMMA InvMeaning ==
  ASSUME Inv
  PROVE  OutboxMatchesStatus /\ OneRowPerOperation /\ HolderStillRight
<1>1. OutboxMatchesStatus
  BY DEF Inv, Agrees, OutboxMatchesStatus
<1>2. OneRowPerOperation
  BY DEF Inv, Agrees, OneRowPerOperation, ReferencesResolve
<1>3. HolderStillRight
  BY DEF Inv, StillRight, HolderStillRight, KeyOf, RekeyedMeanwhile
<1> QED
  BY <1>1, <1>2, <1>3
-----------------------------------------------------------------------------
(* What a step leaves alone *)

\* No key, no other request's status, and no other request's row changes; only
\* decided requests lose their idempotency key.
RequestsFrame(r) ==
  /\ Submitted \subseteq Submitted'
  /\ Submitted' \subseteq Submitted \cup {r}
  /\ \A q \in Submitted : requests'[q].key = requests[q].key
  /\ \A q \in Submitted \ {r} : requests'[q].status = requests[q].status
  /\ \A q \in Submitted :
       \/ requests'[q].idem = requests[q].idem
       \/ ~Active(q) /\ requests'[q].idem = Retired

OutboxFrame(r) ==
  /\ DOMAIN outbox \subseteq DOMAIN outbox'
  /\ \A i \in DOMAIN outbox :
       /\ outbox'[i].req = outbox[i].req
       /\ outbox'[i].op = outbox[i].op
       /\ outbox[i].req # r => outbox'[i].status = outbox[i].status
  /\ \A i \in DOMAIN outbox' : i \notin DOMAIN outbox => outbox'[i].req = r

\* No other key's holder or hydration changes.
KeysFrame(k) ==
  \A j \in Keys \ {k} : lock'[j] = lock[j] /\ balances'[j].warm = balances[j].warm

LEMMA OthersAgree ==
  ASSUME NEW r, RequestsFrame(r), OutboxFrame(r), \A q \in Submitted : Agrees(q)
  PROVE  \A q \in Submitted' \ {r} : Agrees(q)'
<1> SUFFICES ASSUME NEW q \in Submitted' \ {r}
             PROVE  Agrees(q)'
  OBVIOUS
<1>1. q \in Submitted /\ requests'[q].status = requests[q].status /\ Agrees(q)
  BY DEF RequestsFrame
<1>2. \A i \in DOMAIN outbox' :
        outbox'[i].req = q => /\ i \in DOMAIN outbox
                              /\ outbox[i].req = q
                              /\ outbox'[i].op = outbox[i].op
                              /\ outbox'[i].status = outbox[i].status
  BY DEF OutboxFrame
<1>3. \A i \in DOMAIN outbox :
        outbox[i].req = q => /\ i \in DOMAIN outbox'
                             /\ outbox'[i].req = q
                             /\ outbox'[i].op = outbox[i].op
                             /\ outbox'[i].status = outbox[i].status
  BY DEF OutboxFrame
<1>4. /\ RowsOf(q, "FILE")' = RowsOf(q, "FILE")
      /\ RowsOf(q, "REVERSE")' = RowsOf(q, "REVERSE")
  BY <1>2, <1>3 DEF RowsOf
<1>5. /\ HasRow(q, "FILE", {"PENDING"})' <=> HasRow(q, "FILE", {"PENDING"})
      /\ HasRow(q, "FILE", {"SENT"})' <=> HasRow(q, "FILE", {"SENT"})
      /\ HasRow(q, "FILE", {"SENT", "FAILED"})' <=> HasRow(q, "FILE", {"SENT", "FAILED"})
  BY <1>3, <1>4 DEF HasRow, RowsOf
<1> QED
  BY <1>1, <1>2, <1>4, <1>5 DEF Agrees

LEMMA OthersStillRight ==
  ASSUME NEW r, NEW k, RequestsFrame(r), OutboxFrame(r), KeysFrame(k),
         TypeOK, ReferencesResolve, \A j \in Keys : StillRight(j),
         r \in Submitted => requests[r].key = k
  PROVE  \A j \in Keys \ {k} : StillRight(j)'
<1> SUFFICES ASSUME NEW j \in Keys \ {k}
             PROVE  StillRight(j)'
  OBVIOUS
<1>1. StillRight(j) /\ lock'[j] = lock[j] /\ balances'[j].warm = balances[j].warm
  BY DEF KeysFrame
<1>2. ASSUME lock[j].by \in {"approve", "validate"}
      PROVE  /\ lock[j].req \in Submitted'
             /\ requests'[lock[j].req].key = j
             /\ requests'[lock[j].req].status = "PENDING"
  BY <1>1, <1>2 DEF StillRight, RequestsFrame
<1>3. ASSUME lock[j].by = "dispatch"
      PROVE  LET row == outbox'[lock[j].row] IN
             /\ lock[j].row \in DOMAIN outbox'
             /\ row.status = "PENDING"
             /\ requests'[row.req].key = j
             /\ row.op = "FILE" => requests'[row.req].status = "PENDING_SYNC"
             /\ requests'[row.req].idem # lock[j].idem =>
                  row.op = "REVERSE" /\ requests'[row.req].idem = Retired
  <2> DEFINE i == lock[j].row
  <2>1. /\ i \in DOMAIN outbox
        /\ outbox[i].status = "PENDING"
        /\ requests[outbox[i].req].key = j
        /\ outbox[i].op = "FILE" => requests[outbox[i].req].status = "PENDING_SYNC"
        /\ requests[outbox[i].req].idem # lock[j].idem =>
             outbox[i].op = "REVERSE" /\ requests[outbox[i].req].idem = Retired
        /\ outbox[i].req \in Submitted
    BY <1>1, <1>3 DEF StillRight, ReferencesResolve
  <2>2. outbox[i].req # r
    BY <2>1
  <2>3. requests'[outbox[i].req].idem # lock[j].idem =>
          outbox[i].op = "REVERSE" /\ requests'[outbox[i].req].idem = Retired
    <3>1. outbox[i].op \in Operations
      <4>1. outbox[i] \in OutboxRow
        BY <2>1, LenProperties, ElementOfSeq DEF TypeOK
      <4> QED
        BY <4>1 DEF OutboxRow
    <3>2. outbox[i].op = "FILE" => Active(outbox[i].req)
      BY <2>1 DEF Active, ActiveStatuses, Statuses, TerminalStatuses
    <3> QED
      BY <2>1, <3>1, <3>2 DEF RequestsFrame, Operations
  <2> QED
    BY <2>1, <2>2, <2>3 DEF RequestsFrame, OutboxFrame
<1> QED
  BY <1>1, <1>2, <1>3 DEF StillRight
\* So a step about request r of key k has to be looked at for r and k only.
LEMMA StepKeeps ==
  ASSUME Inv, NEW r, NEW k, RequestsFrame(r), OutboxFrame(r), KeysFrame(k),
         r \in Submitted => requests[r].key = k,
         r \in Submitted' => Agrees(r)',
         k \in Keys => StillRight(k)',
         TypeOK', ReferencesResolve'
  PROVE  Inv'
<1>1. \A q \in Submitted' : Agrees(q)'
  BY OthersAgree DEF Inv
<1>2. \A j \in Keys : StillRight(j)'
  BY OthersStillRight DEF Inv
<1> QED
  BY <1>1, <1>2 DEF Inv
-----------------------------------------------------------------------------
(* What the writes do *)

LEMMA StatusWrite ==
  ASSUME TypeOK, NEW r \in Submitted, NEW s, SetStatus(r, s)
  PROVE  /\ RequestsFrame(r)
         /\ Submitted' = Submitted
         /\ requests'[r].status = s
<1>1. requests[r] \in RequestRow /\ requests \in [Submitted -> RequestRow]
  BY DEF TypeOK
<1>2. /\ Submitted' = Submitted
      /\ requests' = [requests EXCEPT ![r].status = s]
  BY DEF SetStatus, Submitted
<1>3. /\ requests'[r].status = s
      /\ requests'[r].key = requests[r].key
      /\ requests'[r].idem = requests[r].idem
  BY <1>1, <1>2 DEF RequestRow
<1>4. \A q \in Submitted \ {r} : requests'[q] = requests[q]
  BY <1>1, <1>2
<1> QED
  BY <1>2, <1>3, <1>4 DEF RequestsFrame

LEMMA NoStatusWrite ==
  ASSUME NEW r, UNCHANGED requests
  PROVE  RequestsFrame(r) /\ Submitted' = Submitted
BY DEF RequestsFrame, Submitted

\* The open FILE rows of r are voided, and nothing else happens to the outbox.
Voids(r) ==
  /\ DOMAIN outbox' = DOMAIN outbox
  /\ \A i \in DOMAIN outbox :
       /\ outbox'[i].req = outbox[i].req
       /\ outbox'[i].op = outbox[i].op
       /\ outbox'[i].status =
            IF outbox[i].req = r /\ outbox[i].op = "FILE" /\ outbox[i].status = "PENDING"
              THEN "VOIDED" ELSE outbox[i].status

LEMMA VoidWrite ==
  ASSUME TypeOK, NEW r, VoidPendingFileRows(r)
  PROVE  Voids(r)
<1>1. \A i \in DOMAIN outbox : outbox[i] \in OutboxRow
  BY LenProperties, ElementOfSeq DEF TypeOK
<1> QED
  BY <1>1 DEF VoidPendingFileRows, Voids, OutboxRow

\* Without rows there is nothing to void.
LEMMA NothingToVoid ==
  ASSUME NEW r, Agrees(r), requests[r].status = "PENDING", UNCHANGED outbox
  PROVE  Voids(r)
BY DEF Voids, Agrees, RowsOf

LEMMA VoidFrame == ASSUME NEW r, Voids(r) PROVE OutboxFrame(r)
BY DEF Voids, OutboxFrame

\* One row is written: its status becomes s.
Closes(i, s) ==
  /\ DOMAIN outbox' = DOMAIN outbox
  /\ \A j \in DOMAIN outbox :
       /\ outbox'[j].req = outbox[j].req
       /\ outbox'[j].op = outbox[j].op
       /\ outbox'[j].status = IF j = i THEN s ELSE outbox[j].status

LEMMA CloseFrame ==
  ASSUME NEW i \in DOMAIN outbox, NEW s, Closes(i, s)
  PROVE  OutboxFrame(outbox[i].req)
BY DEF Closes, OutboxFrame

\* One PENDING row for r is added.
Adds(r, op) ==
  \E n : /\ n \notin DOMAIN outbox
         /\ DOMAIN outbox' = DOMAIN outbox \cup {n}
         /\ \A i \in DOMAIN outbox : outbox'[i] = outbox[i]
         /\ outbox'[n].req = r
         /\ outbox'[n].op = op
         /\ outbox'[n].status = "PENDING"

LEMMA EnqueueWrite ==
  ASSUME TypeOK, NEW r \in Requests, NEW op \in Operations, Enqueue(r, op)
  PROVE  Adds(r, op)
<1>1. outbox \in Seq(OutboxRow) /\ outbox' = Append(outbox, NewRow(r, op))
  BY DEF TypeOK, Enqueue
<1>2. /\ DOMAIN outbox' = DOMAIN outbox \cup {Len(outbox) + 1}
      /\ Len(outbox) + 1 \notin DOMAIN outbox
      /\ \A i \in DOMAIN outbox : outbox'[i] = outbox[i]
      /\ outbox'[Len(outbox) + 1] = NewRow(r, op)
  BY <1>1, AppendedRow
<1> QED
  BY <1>2 DEF Adds, NewRow

LEMMA AddFrame == ASSUME NEW r, NEW op, Adds(r, op) PROVE OutboxFrame(r)
BY DEF Adds, OutboxFrame

\* The writes to a balance leave it as cold or as warm as it was.
LEMMA WarmKept ==
  ASSUME balances \in [Keys -> BalanceRow], NEW k \in Keys, NEW n,
         Reserve(k, n) \/ Release(k, n) \/ Commit(k, n) \/ Restore(k, n)
  PROVE  \A j \in Keys : balances'[j].warm = balances[j].warm
<1>1. \A j \in Keys : j # k => balances'[j] = balances[j]
  BY DEF Reserve, Release, Commit, Restore
<1>2. balances[k] \in BalanceRow
  OBVIOUS
<1>3. balances'[k].warm = balances[k].warm
  BY <1>2 DEF Reserve, Release, Commit, Restore, BalanceRow
<1> QED
  BY <1>1, <1>3

LEMMA SnapshotWarms ==
  ASSUME balances \in [Keys -> BalanceRow], NEW k \in Keys, NEW n, ApplyHcmSnapshot(k, n)
  PROVE  \A j \in Keys \ {k} : balances'[j] = balances[j]
BY DEF ApplyHcmSnapshot

LEMMA AcquireWrite ==
  ASSUME TypeOK, NEW k \in Keys, NEW h, Acquire(k, h)
  PROVE  lock'[k] = h /\ \A j \in Keys \ {k} : lock'[j] = lock[j]
BY DEF Acquire, TypeOK

\* A key nobody holds constrains nothing.
LEMMA FreeStillRight ==
  ASSUME NEW k, lock'[k] = Free
  PROVE  StillRight(k)'
BY DEF StillRight, Free
-----------------------------------------------------------------------------
(* The moves of one request, each with its rows *)

LEMMA NewAgrees ==
  ASSUME NEW r, \A i \in DOMAIN outbox' : outbox'[i].req # r,
         requests'[r].status = "PENDING"
  PROVE  Agrees(r)'
BY DEF Agrees, RowsOf, HasRow

LEMMA WithdrawnAgrees ==
  ASSUME NEW r, Agrees(r), requests[r].status \in {"PENDING", "PENDING_SYNC"},
         requests'[r].status \in TerminalStatuses, Voids(r)
  PROVE  Agrees(r)'
<1>1. \A i \in DOMAIN outbox : outbox[i].req = r => outbox[i].op # "REVERSE"
  BY DEF Agrees, RowsOf
<1>2. \A i \in DOMAIN outbox :
        outbox[i].req = r /\ outbox[i].op = "FILE" => outbox[i].status = "PENDING"
  BY DEF Agrees, RowsOf, HasRow
<1> QED
  BY <1>1, <1>2 DEF Agrees, RowsOf, HasRow, Voids, TerminalStatuses

\* A withdrawal never finds a FILE that was sent and a request still waiting.
LEMMA NotSentYet ==
  ASSUME NEW r, Agrees(r), requests[r].status = "PENDING_SYNC"
  PROVE  ~FileSent(r)
BY DEF Agrees, RowsOf, HasRow, FileSent

LEMMA FiledAgrees ==
  ASSUME NEW r, Agrees(r), requests[r].status = "PENDING",
         requests'[r].status = "PENDING_SYNC", Adds(r, "FILE")
  PROVE  Agrees(r)'
<1>1. \A i \in DOMAIN outbox : outbox[i].req # r \/ outbox[i].op \notin Operations
  BY DEF Agrees, RowsOf, Operations
<1> QED
  BY <1>1 DEF Agrees, RowsOf, HasRow, Adds, Operations

LEMMA ReversedAgrees ==
  ASSUME NEW r, Agrees(r), requests[r].status = "APPROVED",
         requests'[r].status = "CANCELLED", Adds(r, "REVERSE")
  PROVE  Agrees(r)'
<1>1. \A i \in DOMAIN outbox : outbox[i].req = r => outbox[i].op # "REVERSE"
  BY DEF Agrees, RowsOf
<1>2. PICK n : /\ n \notin DOMAIN outbox
               /\ DOMAIN outbox' = DOMAIN outbox \cup {n}
               /\ \A i \in DOMAIN outbox : outbox'[i] = outbox[i]
               /\ outbox'[n].req = r
               /\ outbox'[n].op = "REVERSE"
               /\ outbox'[n].status = "PENDING"
  BY DEF Adds
<1>3. PICK i \in DOMAIN outbox :
        outbox[i].req = r /\ outbox[i].op = "FILE" /\ outbox[i].status = "SENT"
  BY DEF Agrees, HasRow, RowsOf
<1>4. RowsOf(r, "FILE")' = RowsOf(r, "FILE") /\ RowsOf(r, "FILE") = {i}
  BY <1>2, <1>3 DEF Agrees, RowsOf
<1>5. RowsOf(r, "REVERSE")' = {n}
  BY <1>1, <1>2 DEF RowsOf
<1>6. \A j, m \in DOMAIN outbox' :
        outbox'[j].req = r /\ outbox'[m].req = r /\ outbox'[j].op = outbox'[m].op => j = m
  BY <1>1, <1>2 DEF Agrees
<1> QED
  BY <1>2, <1>3, <1>4, <1>5, <1>6 DEF Agrees, HasRow

\* HCM took the FILE.
LEMMA AckedAgrees ==
  ASSUME NEW i \in DOMAIN outbox, NEW r, outbox[i].req = r, Agrees(r),
         outbox[i].op = "FILE", outbox[i].status = "PENDING",
         requests'[r].status = "APPROVED", Closes(i, "SENT")
  PROVE  Agrees(r)'
<1>1. RowsOf(r, "FILE") = {i} /\ RowsOf(r, "FILE")' = {i}
  BY DEF Agrees, RowsOf, Closes
<1>2. requests[r].status = "PENDING_SYNC" /\ RowsOf(r, "REVERSE") = {}
  BY <1>1 DEF Agrees, HasRow
<1>3. RowsOf(r, "REVERSE")' = {}
  BY <1>2 DEF RowsOf, Closes
<1>4. outbox'[i].status = "SENT" /\ outbox'[i].req = r
  BY DEF Closes
<1>5. \A j, m \in DOMAIN outbox' :
        outbox'[j].req = r /\ outbox'[m].req = r /\ outbox'[j].op = outbox'[m].op => j = m
  BY DEF Agrees, Closes
<1> QED
  BY <1>1, <1>3, <1>4, <1>5 DEF Agrees, HasRow

\* A REVERSE closes, sent or given up.
LEMMA ReturnedAgrees ==
  ASSUME NEW i \in DOMAIN outbox, NEW r, outbox[i].req = r, NEW s, Agrees(r),
         outbox[i].op = "REVERSE", UNCHANGED requests, Closes(i, s)
  PROVE  Agrees(r)'
<1>1. /\ RowsOf(r, "FILE")' = RowsOf(r, "FILE")
      /\ RowsOf(r, "REVERSE")' = RowsOf(r, "REVERSE")
      /\ i \notin RowsOf(r, "FILE")
  BY DEF RowsOf, Closes
<1>2. \A j \in RowsOf(r, "FILE") : outbox'[j].status = outbox[j].status
  BY <1>1 DEF Closes, RowsOf
<1>3. \A j, m \in DOMAIN outbox' :
        outbox'[j].req = r /\ outbox'[m].req = r /\ outbox'[j].op = outbox'[m].op => j = m
  BY DEF Agrees, Closes
<1>4. outbox'[i].req = r
  BY DEF Closes
<1> QED
  BY <1>1, <1>2, <1>3, <1>4 DEF Agrees, HasRow

\* A FILE is given up, and its REVERSE is added in the same write.
GivesUp(i) ==
  \E n : /\ n \notin DOMAIN outbox
         /\ DOMAIN outbox' = DOMAIN outbox \cup {n}
         /\ \A j \in DOMAIN outbox :
              /\ outbox'[j].req = outbox[j].req
              /\ outbox'[j].op = outbox[j].op
              /\ outbox'[j].status = IF j = i THEN "FAILED" ELSE outbox[j].status
         /\ outbox'[n].req = outbox[i].req
         /\ outbox'[n].op = "REVERSE"

LEMMA GiveUpFrame ==
  ASSUME NEW i \in DOMAIN outbox, GivesUp(i)
  PROVE  OutboxFrame(outbox[i].req)
BY DEF GivesUp, OutboxFrame

LEMMA GivenUpAgrees ==
  ASSUME NEW i \in DOMAIN outbox, NEW r, outbox[i].req = r, Agrees(r),
         outbox[i].op = "FILE", outbox[i].status = "PENDING",
         requests'[r].status = "REJECTED", GivesUp(i)
  PROVE  Agrees(r)'
<1>1. PICK n : /\ n \notin DOMAIN outbox
               /\ DOMAIN outbox' = DOMAIN outbox \cup {n}
               /\ \A j \in DOMAIN outbox :
                    /\ outbox'[j].req = outbox[j].req
                    /\ outbox'[j].op = outbox[j].op
                    /\ outbox'[j].status = IF j = i THEN "FAILED" ELSE outbox[j].status
               /\ outbox'[n].req = r
               /\ outbox'[n].op = "REVERSE"
  BY DEF GivesUp
<1>2. \A j \in DOMAIN outbox : outbox[j].req = r /\ outbox[j].op = "FILE" => j = i
  BY DEF Agrees
<1>3. requests[r].status = "PENDING_SYNC"
  BY DEF Agrees, HasRow, RowsOf
<1>4. \A j \in DOMAIN outbox : outbox[j].req = r => outbox[j].op # "REVERSE"
  BY <1>3 DEF Agrees, RowsOf
<1>5. RowsOf(r, "FILE")' = {i} /\ RowsOf(r, "REVERSE")' = {n}
  BY <1>1, <1>2, <1>4 DEF RowsOf
<1>6. outbox'[i].status = "FAILED" /\ outbox'[i].req = r
  BY <1>1
<1>7. \A j, m \in DOMAIN outbox' :
        outbox'[j].req = r /\ outbox'[m].req = r /\ outbox'[j].op = outbox'[m].op => j = m
  BY <1>1, <1>4 DEF Agrees
<1> QED
  BY <1>5, <1>6, <1>7 DEF Agrees, HasRow
-----------------------------------------------------------------------------
(* Steps that write no status: the outbox changes in attempts at most. *)

Quiet ==
  /\ UNCHANGED requests
  /\ DOMAIN outbox' = DOMAIN outbox
  /\ \A i \in DOMAIN outbox :
       /\ outbox'[i].req = outbox[i].req
       /\ outbox'[i].op = outbox[i].op
       /\ outbox'[i].status = outbox[i].status

LEMMA QuietKeeps ==
  ASSUME Inv, Quiet, NEW k, KeysFrame(k), k \in Keys => StillRight(k)',
         TypeOK', ReferencesResolve'
  PROVE  Inv'
<1>1. PICK none : none \notin Submitted
  BY NoSetContainsEverything
<1>2. RequestsFrame(none) /\ Submitted' = Submitted
  BY NoStatusWrite DEF Quiet
<1>3. OutboxFrame(none)
  BY DEF Quiet, OutboxFrame
<1> QED
  BY <1>1, <1>2, <1>3, StepKeeps

\* Nor do the steps that leave rows, locks and balances as they are.
LEMMA IdleKeeps ==
  ASSUME Inv, UNCHANGED <<requests, outbox, balances>>,
         lock' = lock \/ \A k \in Keys : lock'[k] = Free,
         TypeOK', ReferencesResolve'
  PROVE  Inv'
<1>1. \A r \in Submitted' : Agrees(r)'
  BY DEF Inv, Agrees, HasRow, RowsOf, Submitted
<1>2. CASE lock' = lock
  BY <1>1, <1>2 DEF Inv, StillRight, Submitted
<1>3. CASE \A k \in Keys : lock'[k] = Free
  BY <1>1, <1>3, FreeStillRight DEF Inv
<1> QED
  BY <1>2, <1>3

LEMMA HydrateKeeps ==
  ASSUME Inv, NEW k \in Keys, HydrateRead(k) \/ HydrateApply(k) \/ HydrateDegraded(k),
         TypeOK', ReferencesResolve'
  PROVE  Inv'
<1>1. Quiet
  BY DEF HydrateRead, HydrateApply, HydrateDegraded, Quiet
<1>2. CASE HydrateRead(k)
  <2>1. /\ lock'[k] = [by |-> "hydrate", snapshot |-> hcm[k]]
        /\ KeysFrame(k)
    BY <1>2, AcquireWrite DEF HydrateRead, KeysFrame, Inv
  <2>2. StillRight(k)'
    BY <1>2, <2>1 DEF HydrateRead, StillRight
  <2> QED
    BY <1>1, <2>1, <2>2, QuietKeeps
<1>3. CASE HydrateApply(k) \/ HydrateDegraded(k)
  <2>1. lock'[k] = Free /\ \A j \in Keys \ {k} : lock'[j] = lock[j]
    BY <1>3, AcquireWrite DEF HydrateApply, HydrateDegraded, Unlock, Inv
  <2>2. \A j \in Keys \ {k} : balances'[j] = balances[j]
    BY <1>3, SnapshotWarms DEF HydrateApply, HydrateDegraded, Inv, TypeOK
  <2> QED
    BY <1>1, <2>1, <2>2, QuietKeeps, FreeStillRight DEF KeysFrame
<1> QED
  BY <1>2, <1>3

LEMMA ApproveBeginKeeps ==
  ASSUME Inv, NEW r \in Submitted, ApproveRefresh(r), TypeOK', ReferencesResolve'
  PROVE  Inv'
<1>1. PICK k \in Keys : k = requests[r].key
  BY RequestTypes DEF Inv
<1>2. lock'[k] = [by |-> "approve", req |-> r, snapshot |-> hcm[k]] /\ KeysFrame(k)
  BY <1>1, AcquireWrite DEF ApproveRefresh, KeysFrame, Inv
<1>3. StillRight(k)'
  BY <1>1, <1>2 DEF ApproveRefresh, MayApprove, StillRight, Submitted
<1>4. Quiet
  BY DEF ApproveRefresh, Quiet
<1> QED
  BY <1>2, <1>3, <1>4, QuietKeeps

LEMMA ApproveSnapshotKeeps ==
  ASSUME Inv, NEW k \in Keys, ApproveSnapshot(k), TypeOK', ReferencesResolve'
  PROVE  Inv'
<1>1. /\ lock'[k] = [by |-> "validate", req |-> lock[k].req]
      /\ \A j \in Keys \ {k} : lock'[j] = lock[j]
  BY AcquireWrite DEF ApproveSnapshot, Inv
<1>2. KeysFrame(k)
  BY <1>1, SnapshotWarms DEF ApproveSnapshot, KeysFrame, Inv, TypeOK
<1>3. StillRight(k)'
  BY <1>1 DEF ApproveSnapshot, Inv, StillRight, Submitted
<1>4. Quiet
  BY DEF ApproveSnapshot, Quiet
<1> QED
  BY <1>2, <1>3, <1>4, QuietKeeps

LEMMA HangKeeps ==
  ASSUME Inv, NEW k \in Keys, NEW range, NEW i, SubmitHangs(k, range, i),
         TypeOK', ReferencesResolve'
  PROVE  Inv'
<1>1. lock'[k] = [by |-> "submit"] /\ KeysFrame(k)
  BY AcquireWrite DEF SubmitHangs, KeysFrame, Inv
<1>2. StillRight(k)'
  BY <1>1 DEF SubmitHangs, StillRight
<1>3. Quiet
  BY DEF SubmitHangs, Quiet
<1> QED
  BY <1>1, <1>2, <1>3, QuietKeeps

LEMMA DispatchBeginKeeps ==
  ASSUME Inv, NEW i \in DOMAIN outbox, DispatchBegin(i), TypeOK', ReferencesResolve'
  PROVE  Inv'
<1>1. PICK r \in Submitted : r = outbox[i].req
  BY DEF Inv, ReferencesResolve
<1>2. PICK k \in Keys : k = requests[r].key
  BY RequestTypes DEF Inv
<1>3. Quiet
  <2>1. outbox[i] \in OutboxRow
    BY LenProperties, ElementOfSeq DEF Inv, TypeOK
  <2> QED
    BY <2>1 DEF Quiet, DispatchBegin, OutboxRow
<1>4. /\ lock'[k] = [by |-> "dispatch", row |-> i, idem |-> requests[r].idem]
      /\ KeysFrame(k)
  BY <1>1, <1>2, AcquireWrite DEF DispatchBegin, KeysFrame, KeyOf, Inv
<1>5. outbox[i].op = "FILE" => requests[r].status = "PENDING_SYNC"
  BY <1>1 DEF Inv, Agrees, HasRow, RowsOf, DispatchBegin
<1>6. StillRight(k)'
  <2>1. /\ i \in DOMAIN outbox'
        /\ outbox'[i].status = "PENDING"
        /\ outbox'[i].req = r
        /\ requests'[r].key = k
        /\ requests'[r].idem = requests[r].idem
        /\ outbox'[i].op = "FILE" => requests'[r].status = "PENDING_SYNC"
    BY <1>1, <1>2, <1>3, <1>5 DEF Quiet, DispatchBegin
  <2> QED
    BY <1>4, <2>1 DEF StillRight
<1> QED
  BY <1>3, <1>4, <1>6, QuietKeeps
-----------------------------------------------------------------------------
(* Steps that write a status *)

LEMMA SubmitKeeps ==
  ASSUME Inv, NEW k \in Keys, NEW range \in Ranges, NEW i \in IdemKeys,
         NEW r \in Requests, Submit(r, k, range, i), TypeOK', ReferencesResolve'
  PROVE  Inv'
<1>1. /\ Submitted' = Submitted \cup {r}
      /\ r \notin Submitted
      /\ requests'[r] = NewRequest(k, range, i)
      /\ \A q \in Submitted : requests'[q] = Rekeyed(q, i)
      /\ UNCHANGED <<outbox, lock>>
      /\ lock[k] = Free
  BY DEF Submit, Submitted, IsFree
<1>2. \A q \in Submitted : /\ requests'[q].key = requests[q].key
                           /\ requests'[q].status = requests[q].status
                           /\ \/ requests'[q].idem = requests[q].idem
                              \/ ~Active(q) /\ requests'[q].idem = Retired
  <2>1. \A q \in Submitted : requests[q] \in RequestRow
    BY DEF Inv, TypeOK
  <2> QED
    BY <1>1, <2>1 DEF Rekeyed, RequestRow, Submit, MaySubmit, WithKey
<1>3. RequestsFrame(r)
  BY <1>1, <1>2 DEF RequestsFrame
<1>4. OutboxFrame(r)
  BY <1>1 DEF OutboxFrame
<1>5. KeysFrame(k)
  <2>1. CountBusinessDays(range.start, range.end) \in Nat
    BY RangesAssumption, DaysNat
  <2> QED
    BY <1>1, <2>1, WarmKept DEF Submit, KeysFrame, Inv, TypeOK
<1>6. Agrees(r)'
  <2>1. \A j \in DOMAIN outbox' : outbox'[j].req # r
    BY <1>1 DEF Inv, ReferencesResolve
  <2> QED
    BY <1>1, <2>1, NewAgrees DEF NewRequest
<1>7. StillRight(k)'
  BY <1>1, FreeStillRight
<1> QED
  BY <1>1, <1>3, <1>4, <1>5, <1>6, <1>7, StepKeeps

\* What every withdrawal does to one request, whichever handler decides it.
Withdraws(r, k, s) ==
  /\ requests[r].status \in {"PENDING", "PENDING_SYNC"}
  /\ s \in TerminalStatuses
  /\ SetStatus(r, s)
  /\ Voids(r)
  /\ lock'[k] = Free

LEMMA WithdrawKeeps ==
  ASSUME Inv, NEW r \in Submitted, NEW k \in Keys, k = requests[r].key, NEW s,
         Withdraws(r, k, s), KeysFrame(k), TypeOK', ReferencesResolve'
  PROVE  Inv'
<1>1. RequestsFrame(r) /\ requests'[r].status = s
  BY StatusWrite DEF Withdraws, Inv
<1>2. OutboxFrame(r)
  BY VoidFrame DEF Withdraws
<1>3. Agrees(r)'
  BY <1>1, WithdrawnAgrees DEF Withdraws, Inv
<1>4. StillRight(k)'
  BY FreeStillRight DEF Withdraws
<1> QED
  BY <1>1, <1>2, <1>3, <1>4, StepKeeps

LEMMA CancelApprovedKeeps ==
  ASSUME Inv, NEW r \in Submitted, NEW k \in Keys, k = requests[r].key,
         requests[r].status = "APPROVED", SetStatus(r, "CANCELLED"),
         Enqueue(r, "REVERSE"), lock'[k] = Free, KeysFrame(k),
         TypeOK', ReferencesResolve'
  PROVE  Inv'
<1>1. RequestsFrame(r) /\ requests'[r].status = "CANCELLED"
  BY StatusWrite DEF Inv
<1>2. Adds(r, "REVERSE")
  BY RequestTypes, EnqueueWrite DEF Inv, Operations
<1>3. Agrees(r)'
  BY <1>1, <1>2, ReversedAgrees DEF Inv
<1> QED
  BY <1>1, <1>2, <1>3, AddFrame, FreeStillRight, StepKeeps

LEMMA HandlerKeeps ==
  ASSUME Inv, NEW r \in Submitted, ApprovePast(r) \/ Reject(r) \/ Cancel(r) \/ SweepOne(r),
         TypeOK', ReferencesResolve'
  PROVE  Inv'
<1>1. PICK k \in Keys : k = requests[r].key
  BY RequestTypes DEF Inv
<1>2. Agrees(r)
  BY DEF Inv
<1>3. UNCHANGED lock /\ lock'[k] = Free
  BY <1>1 DEF ApprovePast, Reject, Cancel, SweepOne, Expire, IsFree
<1>4. \E n : Release(k, n) \/ Restore(k, n)
  BY <1>1 DEF ApprovePast, Reject, Cancel, SweepOne, Expire
<1>5. KeysFrame(k)
  BY <1>3, <1>4, WarmKept DEF KeysFrame, Inv, TypeOK
<1>6. ASSUME NEW s \in TerminalStatuses,
             requests[r].status \in {"PENDING", "PENDING_SYNC"}, SetStatus(r, s),
             \/ VoidPendingFileRows(r)
             \/ UNCHANGED outbox /\ requests[r].status = "PENDING"
      PROVE  Inv'
  <2>1. Voids(r)
    BY <1>2, <1>6, VoidWrite, NothingToVoid DEF Inv
  <2> QED
    BY <1>1, <1>3, <1>5, <1>6, <2>1, WithdrawKeeps DEF Withdraws
<1>7. CASE ApprovePast(r)
  BY <1>6, <1>7 DEF ApprovePast, MayApprove, TerminalStatuses
<1>8. CASE Reject(r)
  BY <1>6, <1>8 DEF Reject, TerminalStatuses
<1>9. CASE Cancel(r)
  <2>1. CASE requests[r].status = "APPROVED"
    BY <1>1, <1>3, <1>5, <1>9, <2>1, CancelApprovedKeeps DEF Cancel
  <2>2. CASE requests[r].status \in {"PENDING", "PENDING_SYNC"}
    BY <1>2, <1>6, <1>9, <2>2, NotSentYet DEF Cancel, TerminalStatuses
  <2> QED
    BY <1>9, <2>1, <2>2 DEF Cancel
<1>10. CASE SweepOne(r)
  BY <1>6, <1>10 DEF SweepOne, Expire, TerminalStatuses
<1> QED
  BY <1>7, <1>8, <1>9, <1>10

LEMMA ApproveEndKeeps ==
  ASSUME Inv, NEW k \in Keys, ApproveReject(k) \/ ApproveCommit(k),
         TypeOK', ReferencesResolve'
  PROVE  Inv'
<1>1. lock[k].by \in {"approve", "validate"}
  BY DEF ApproveReject, ApproveCommit
<1>2. PICK r \in Submitted :
        r = lock[k].req /\ requests[r].key = k /\ requests[r].status = "PENDING"
  BY <1>1 DEF Inv, StillRight
<1>3. lock'[k] = Free /\ \A j \in Keys \ {k} : lock'[j] = lock[j]
  BY AcquireWrite DEF ApproveReject, ApproveCommit, Unlock, Inv
<1>4. \E n : Release(k, n) \/ Commit(k, n)
  BY DEF ApproveReject, ApproveCommit
<1>5. KeysFrame(k)
  BY <1>3, <1>4, WarmKept DEF KeysFrame, Inv, TypeOK
<1>6. CASE ApproveReject(k)
  <2>1. Voids(r)
    BY <1>2, <1>6, NothingToVoid DEF ApproveReject, Inv
  <2> QED
    BY <1>2, <1>3, <1>5, <1>6, <2>1, WithdrawKeeps
    DEF ApproveReject, Withdraws, TerminalStatuses
<1>7. CASE ApproveCommit(k)
  <2>1. RequestsFrame(r) /\ requests'[r].status = "PENDING_SYNC"
    BY <1>2, <1>7, StatusWrite DEF ApproveCommit, Inv
  <2>2. Adds(r, "FILE")
    BY <1>2, <1>7, RequestTypes, EnqueueWrite DEF ApproveCommit, Inv, Operations
  <2>3. Agrees(r)'
    BY <1>2, <2>1, <2>2, FiledAgrees DEF Inv
  <2> QED
    BY <1>2, <1>3, <1>5, <2>1, <2>2, <2>3, AddFrame, FreeStillRight, StepKeeps
<1> QED
  BY <1>6, <1>7

\* Writing one row's status, in the shape the row lemmas use.
LEMMA CloseWrite ==
  ASSUME TypeOK, NEW i \in DOMAIN outbox, NEW s, outbox' = [outbox EXCEPT ![i].status = s]
  PROVE  Closes(i, s)
<1>1. \A j \in DOMAIN outbox : outbox[j] \in OutboxRow
  BY LenProperties, ElementOfSeq DEF TypeOK
<1> QED
  BY <1>1 DEF Closes, OutboxRow

LEMMA GiveUpWrite ==
  ASSUME TypeOK, NEW i \in DOMAIN outbox, outbox[i].req \in Requests,
         outbox' = Append([outbox EXCEPT ![i].status = "FAILED"],
                          NewRow(outbox[i].req, "REVERSE"))
  PROVE  GivesUp(i)
<1> DEFINE given == [outbox EXCEPT ![i].status = "FAILED"]
<1>1. \A j \in DOMAIN outbox : outbox[j] \in OutboxRow
  BY LenProperties, ElementOfSeq DEF TypeOK
<1>2. [outbox[i] EXCEPT !.status = "FAILED"] \in OutboxRow
  BY <1>1 DEF OutboxRow, OutboxStatuses
<1>3. given \in Seq(OutboxRow) /\ DOMAIN given = DOMAIN outbox
  BY <1>2, RewrittenRow DEF TypeOK
<1>4. \A j \in DOMAIN outbox :
        /\ given[j].req = outbox[j].req
        /\ given[j].op = outbox[j].op
        /\ given[j].status = IF j = i THEN "FAILED" ELSE outbox[j].status
  BY <1>1 DEF OutboxRow
<1> HIDE DEF given
<1>5. /\ DOMAIN outbox' = DOMAIN given \cup {Len(given) + 1}
      /\ Len(given) + 1 \notin DOMAIN given
      /\ \A j \in DOMAIN given : outbox'[j] = given[j]
      /\ outbox'[Len(given) + 1] = NewRow(outbox[i].req, "REVERSE")
  <2>1. outbox' = Append(given, NewRow(outbox[i].req, "REVERSE"))
    BY DEF given
  <2> QED
    BY <1>3, <2>1, AppendedRow DEF Operations
<1> QED
  BY <1>3, <1>4, <1>5 DEF GivesUp, NewRow

LEMMA DispatchEndKeeps ==
  ASSUME Inv, NEW k \in Keys, DispatchEnd(k), TypeOK', ReferencesResolve'
  PROVE  Inv'
<1>1. lock[k].by = "dispatch"
  BY DEF DispatchEnd, DispatchAcked, DispatchAckClash, DispatchRetryLater,
         DispatchFileCap, DispatchReverseCap
<1>2. PICK i \in DOMAIN outbox :
        /\ i = lock[k].row
        /\ outbox[i].status = "PENDING"
        /\ requests[outbox[i].req].key = k
  BY <1>1 DEF Inv, StillRight
<1>3. PICK r \in Submitted : r = outbox[i].req
  BY DEF Inv, ReferencesResolve
<1>4. Agrees(r) /\ r \in Requests /\ outbox[i].op \in Operations
  <2>1. outbox[i] \in OutboxRow
    BY LenProperties, ElementOfSeq DEF Inv, TypeOK
  <2> QED
    BY <2>1, RequestTypes DEF Inv, OutboxRow
<1>5. lock'[k] = Free /\ \A j \in Keys \ {k} : lock'[j] = lock[j]
  BY AcquireWrite
  DEF DispatchEnd, DispatchAcked, DispatchAckClash, DispatchRetryLater,
      DispatchFileCap, DispatchReverseCap, Unlock, Inv
<1>6. UNCHANGED balances \/ Restore(k, Days(r))
  BY <1>2, <1>3
  DEF DispatchEnd, DispatchAcked, DispatchAckClash, DispatchRetryLater,
      DispatchFileCap, DispatchReverseCap
<1>7. KeysFrame(k)
  BY <1>5, <1>6, WarmKept DEF KeysFrame, Inv, TypeOK
<1>8. StillRight(k)'
  BY <1>5, FreeStillRight
<1>9. CASE DispatchAcked(k) /\ outbox[i].op = "FILE"
  <2>1. RequestsFrame(r) /\ requests'[r].status = "APPROVED"
    BY <1>2, <1>3, <1>9, StatusWrite DEF DispatchAcked, Inv
  <2>2. Closes(i, "SENT")
    BY <1>2, <1>9, CloseWrite DEF DispatchAcked, Inv
  <2>3. Agrees(r)'
    BY <1>2, <1>3, <1>4, <1>9, <2>1, <2>2, AckedAgrees
  <2> QED
    BY <1>2, <1>3, <1>7, <1>8, <2>1, <2>2, <2>3, CloseFrame, StepKeeps
<1>10. CASE \/ DispatchAcked(k) /\ outbox[i].op = "REVERSE"
            \/ DispatchReverseCap(k)
  <2>1. UNCHANGED requests /\ outbox[i].op = "REVERSE"
    BY <1>2, <1>10 DEF DispatchAcked, DispatchReverseCap
  <2>2. PICK s : Closes(i, s)
    BY <1>2, <1>10, CloseWrite DEF DispatchAcked, DispatchReverseCap, Inv
  <2>3. Agrees(r)'
    BY <1>3, <1>4, <2>1, <2>2, ReturnedAgrees
  <2> QED
    BY <1>2, <1>3, <1>7, <1>8, <2>1, <2>2, <2>3, NoStatusWrite, CloseFrame, StepKeeps
<1>11. CASE DispatchAckClash(k) \/ DispatchRetryLater(k)
  <2>1. Quiet
    BY <1>11 DEF DispatchAckClash, DispatchRetryLater, Quiet
  <2> QED
    BY <1>7, <1>8, <2>1, QuietKeeps
<1>12. CASE DispatchFileCap(k)
  <2>1. RequestsFrame(r) /\ requests'[r].status = "REJECTED"
    BY <1>2, <1>3, <1>12, StatusWrite DEF DispatchFileCap, Inv
  <2>2. GivesUp(i)
    BY <1>2, <1>3, <1>4, <1>12, GiveUpWrite DEF DispatchFileCap, Inv
  <2>3. Agrees(r)'
    BY <1>2, <1>3, <1>4, <1>12, <2>1, <2>2, GivenUpAgrees DEF DispatchFileCap
  <2> QED
    BY <1>2, <1>3, <1>7, <1>8, <2>1, <2>2, <2>3, GiveUpFrame, StepKeeps
<1> QED
  BY <1>4, <1>9, <1>10, <1>11, <1>12 DEF DispatchEnd, Operations
-----------------------------------------------------------------------------
LEMMA InvInit == Init => Inv
<1> SUFFICES ASSUME Init PROVE Inv
  OBVIOUS
<1>1. TypeOK /\ ReferencesResolve
  BY TypeInit, ReferencesInit
<1>2. Submitted = {}
  BY DEF Init, Submitted
<1>3. \A k \in Keys : StillRight(k)
  BY DEF Init, StillRight, Free
<1> QED
  BY <1>1, <1>2, <1>3 DEF Inv

LEMMA InvStep ==
  ASSUME Inv, [Next]_vars
  PROVE  Inv'
<1>1. TypeOK' /\ ReferencesResolve'
  BY TypeStep DEF Inv
<1>2. CASE \/ Tick \/ Crash \/ UNCHANGED vars
           \/ \E r \in Submitted : ServeFile(r) \/ ServeReverse(r)
           \/ \E k \in Keys : Refresh(k)
  <2>1. UNCHANGED <<requests, outbox, balances>>
    BY <1>2 DEF Tick, Crash, ServeFile, ServeReverse, Refresh, vars, serviceVars
  <2>2. lock' = lock \/ \A k \in Keys : lock'[k] = Free
    BY <1>2 DEF Tick, Crash, ServeFile, ServeReverse, Refresh, vars, serviceVars
  <2> QED
    BY <1>1, <2>1, <2>2, IdleKeeps
<1>3. CASE Client
  BY <1>1, <1>3, SubmitKeeps, HangKeeps DEF Client
<1>4. CASE \E r \in Submitted : Handler(r)
  BY <1>1, <1>4, HandlerKeeps, ApproveBeginKeeps DEF Handler
<1>5. CASE \E k \in Keys : HydrateRead(k) \/ Resume(k)
  BY <1>1, <1>5, HydrateKeeps, ApproveSnapshotKeeps, ApproveEndKeeps DEF Resume
<1>6. CASE \/ \E k \in Keys : DispatchEnd(k)
           \/ \E i \in DOMAIN outbox : DispatchBegin(i)
  BY <1>1, <1>6, DispatchEndKeeps, DispatchBeginKeeps
<1> QED
  BY <1>2, <1>3, <1>4, <1>5, <1>6 DEF Next

LEMMA InvAlways == Spec => []Inv
<1>1. Init => Inv
  BY InvInit
<1>2. Inv /\ [Next]_vars => Inv'
  BY InvStep
<1> QED
  BY <1>1, <1>2, PTL DEF Spec

(* Whatever the interleaving of clients, managers, reaper, dispatcher, HCM *)
(* and restarts, and for any number of each.                               *)

\* A request's status says what its outbox rows say: an approval has its FILE
\* row, a cancelled one its REVERSE, and so on through every handler.
THEOREM StatusSaysOutbox == Spec => []OutboxMatchesStatus
<1>1. Inv => OutboxMatchesStatus
  BY InvMeaning
<1> QED
  BY <1>1, InvAlways, PTL

\* Each command of a request is enqueued once, by whichever handler comes first.
THEOREM EnqueuedOnce == Spec => []OneRowPerOperation
<1>1. Inv => OneRowPerOperation
  BY InvMeaning
<1> QED
  BY <1>1, InvAlways, PTL

\* No lock holder goes on with a request, row or balance that changed while it
\* waited for HCM.
THEOREM HoldersStayRight == Spec => []HolderStillRight
<1>1. Inv => HolderStillRight
  BY InvMeaning
<1> QED
  BY <1>1, InvAlways, PTL
=============================================================================
