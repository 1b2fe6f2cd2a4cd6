---------------------------- MODULE TimeOffRequests ----------------------------
(***************************************************************************)
(* TimeOffRequestService and the ReservationReaper: the request lifecycle. *)
(* A call that only waits for the database runs as one step inside the     *)
(* balance-key lock; approve waits for HCM in the middle and is several.   *)
(***************************************************************************)
EXTENDS BalanceService

\* The rows whose idempotency key is i.
WithKey(i) == {q \in Submitted : requests[q].idem = i}

OverlapsActive(k, range) ==
  \E q \in Submitted :
    /\ requests[q].key = k
    /\ Active(q)
    /\ Overlaps(requests[q], range)

\* Mutant of MaySubmit: the key is taken from an active request too.
MaySubmitAnyKey(k, range, i) ==
  /\ i \in IdemKeys
  /\ ~OverlapsActive(k, range)
  /\ CountBusinessDays(range.start, range.end) > 0
  /\ range.end >= today

\* What submit checks before the balance.  A key in use by an active request
\* is a replay or a client error, and neither writes anything.
MaySubmit(k, range, i) ==
  /\ \A q \in WithKey(i) : ~Active(q)
  /\ ~OverlapsActive(k, range)
  /\ CountBusinessDays(range.start, range.end) > 0
  /\ range.end >= today

\* A terminal request hands its idempotency key over to the new one.
Rekeyed(q, i) ==
  IF requests[q].idem = i THEN [requests[q] EXCEPT !.idem = Retired]
                          ELSE requests[q]

NewRequest(k, range, i) ==
  [key |-> k, start |-> range.start, end |-> range.end, status |-> "PENDING",
   idem |-> i, expires |-> today + TtlDays]

Submit(r, k, range, i) ==
  LET days == CountBusinessDays(range.start, range.end) IN
  /\ IsFree(k)
  /\ r \notin Submitted
  /\ MaySubmit(k, range, i)
  /\ balances[k].warm
  /\ FreeDays(k) >= days
  /\ requests' = [q \in Submitted \cup {r} |->
                    IF q = r THEN NewRequest(k, range, i)
                             ELSE Rekeyed(q, i)]
  /\ Reserve(k, days)
  /\ UNCHANGED <<outbox, lock, today, crashes, hcmVars>>

(***************************************************************************)
(* The pre-warm degraded, so the row is still cold when submit, now inside *)
(* the lock, validates availability: getBalance queues behind the lock its *)
(* own caller holds, and nothing but a restart ends that wait.             *)
(***************************************************************************)
SubmitHangs(k, range, i) ==
  /\ IsFree(k)
  /\ MaySubmit(k, range, i)
  /\ ~balances[k].warm
  /\ Acquire(k, [by |-> "submit"])
  /\ UNCHANGED <<balances, requests, outbox, today, crashes, hcmVars>>
-----------------------------------------------------------------------------
\* Mutant of MayApprove: an approved request can be approved again.
MayApproveAgain(r) == requests[r].status \in {"PENDING", "PENDING_SYNC"}

MayApprove(r) == requests[r].status = "PENDING"

ApprovePast(r) ==
  LET k == requests[r].key IN
  /\ IsFree(k)
  /\ MayApprove(r)
  /\ requests[r].start < today
  /\ Release(k, Days(r))
  /\ SetStatus(r, "REJECTED")
  /\ UNCHANGED <<outbox, lock, today, crashes, hcmVars>>

\* approve takes the lock and sends GET /hcm/balance.
ApproveRefresh(r) ==
  LET k == requests[r].key IN
  /\ IsFree(k)
  /\ MayApprove(r)
  /\ requests[r].start >= today
  /\ Acquire(k, [by |-> "approve", req |-> r, snapshot |-> hcm[k]])
  /\ UNCHANGED <<balances, requests, outbox, today, crashes, hcmVars>>

\* The answer arrives and is written in a transaction of its own.
ApproveSnapshot(k) ==
  /\ lock[k].by = "approve"
  /\ ApplyHcmSnapshot(k, lock[k].snapshot)
  /\ Acquire(k, [by |-> "validate", req |-> lock[k].req])
  /\ UNCHANGED <<requests, outbox, today, crashes, hcmVars>>

ApproveReject(k) ==
  /\ lock[k].by = "validate"
  /\ FreeDays(k) < Days(lock[k].req)
  /\ Release(k, Days(lock[k].req))
  /\ SetStatus(lock[k].req, "REJECTED")
  /\ Unlock(k)
  /\ UNCHANGED <<outbox, today, crashes, hcmVars>>

\* Still waiting for the GET means HCM is unavailable: approve proceeds on
\* the local balance, with no check of its own.
ApproveCommit(k) ==
  /\ lock[k].by \in {"approve", "validate"}
  /\ lock[k].by = "validate" => FreeDays(k) >= Days(lock[k].req)
  /\ Commit(k, Days(lock[k].req))
  /\ SetStatus(lock[k].req, "PENDING_SYNC")
  /\ Enqueue(lock[k].req, "FILE")
  /\ Unlock(k)
  /\ UNCHANGED <<today, crashes, hcmVars>>
-----------------------------------------------------------------------------
Reject(r) ==
  LET k == requests[r].key IN
  /\ IsFree(k)
  /\ \/ /\ requests[r].status = "PENDING"
        /\ Release(k, Days(r))
        /\ UNCHANGED outbox
     \/ /\ requests[r].status = "PENDING_SYNC"
        /\ Restore(k, Days(r))
        /\ VoidPendingFileRows(r)
  /\ SetStatus(r, "REJECTED")
  /\ UNCHANGED <<lock, today, crashes, hcmVars>>

FileSent(r) ==
  \E i \in DOMAIN outbox :
    outbox[i].req = r /\ outbox[i].op = "FILE" /\ outbox[i].status = "SENT"

Cancel(r) ==
  LET k == requests[r].key IN
  /\ IsFree(k)
  /\ \/ /\ requests[r].status = "PENDING"
        /\ Release(k, Days(r))
        /\ VoidPendingFileRows(r)
     \/ /\ requests[r].status = "PENDING_SYNC"
        /\ Restore(k, Days(r))
        /\ IF FileSent(r) THEN Enqueue(r, "REVERSE") ELSE VoidPendingFileRows(r)
     \/ /\ requests[r].status = "APPROVED"
        /\ Restore(k, Days(r))
        /\ Enqueue(r, "REVERSE")
  /\ SetStatus(r, "CANCELLED")
  /\ UNCHANGED <<lock, today, crashes, hcmVars>>

\* expire takes no lock: its caller holds it.
Expire(r) ==
  LET k == requests[r].key IN
  /\ \/ /\ requests[r].status = "PENDING"
        /\ Release(k, Days(r))
     \/ /\ requests[r].status = "PENDING_SYNC"
        /\ Restore(k, Days(r))
  /\ VoidPendingFileRows(r)
  /\ SetStatus(r, "EXPIRED")
  /\ UNCHANGED <<lock, today, crashes, hcmVars>>

\* Mutants of SweepOne: without the lock; for PENDING_SYNC only.
SweepUnlocked(r) == requests[r].expires <= today /\ Expire(r)
SweepSyncOnly(r) ==
  /\ IsFree(requests[r].key)
  /\ requests[r].expires <= today
  /\ requests[r].status = "PENDING_SYNC"
  /\ Expire(r)

\* One iteration of the reaper's sweep.
SweepOne(r) ==
  /\ IsFree(requests[r].key)
  /\ requests[r].expires <= today
  /\ Expire(r)
=============================================================================
