--------------------------- MODULE OutboxDispatcher ---------------------------
(***************************************************************************)
(* OutboxDispatcherService.dispatchOne: inside the balance-key lock, count *)
(* the attempt in one transaction, POST to HCM outside any transaction,    *)
(* and record the outcome in a second one.                                 *)
(***************************************************************************)
EXTENDS BalanceService

CallOf(row) == <<row.req, row.op>>
KeyOf(row) == requests[row.req].key

\* Mutant of Acked: any answer counts as success.
Answered(row) ==
  CallOf(row) \notin wire /\ idempotencyStore[CallOf(row)] # "unseen"

\* HCM served this attempt's POST, and took it.
Acked(row) ==
  CallOf(row) \notin wire /\ idempotencyStore[CallOf(row)] = "ok"

\* Mutant of AtCap: one attempt too many.
PastCap(row) == row.attempts > MaxAttempts

AtCap(row) == row.attempts >= MaxAttempts

\* Transaction 1, and the POST leaves for HCM.
DispatchBegin(i) ==
  /\ outbox[i].status = "PENDING"
  /\ IsFree(KeyOf(outbox[i]))
  /\ outbox' = [outbox EXCEPT ![i].attempts = @ + 1]
  /\ Acquire(KeyOf(outbox[i]),
             [by |-> "dispatch", row |-> i, idem |-> requests[outbox[i].req].idem])
  /\ wire' = wire \cup {CallOf(outbox[i])}
  /\ UNCHANGED <<balances, requests, today, crashes,
                 hcm, idempotencyStore, refreshes>>

\* The request got another idempotency key since transaction 1: a submit for
\* another balance key, whose lock is not this one, reused the key.
RekeyedMeanwhile(k) == requests[outbox[lock[k].row].req].idem # lock[k].idem

\* Transaction 2 after { ok: true }.
DispatchAcked(k) ==
  LET i == lock[k].row
      row == outbox[i] IN
  /\ lock[k].by = "dispatch"
  /\ Acked(row)
  /\ ~RekeyedMeanwhile(k)
  /\ outbox' = [outbox EXCEPT ![i].status = "SENT"]
  /\ IF row.op = "FILE" THEN SetStatus(row.req, "APPROVED")
                        ELSE UNCHANGED requests
  /\ Unlock(k)
  /\ UNCHANGED <<balances, today, crashes, hcmVars>>

\* Mutant of DispatchAckClash: the index is not there, the old key is saved.
ClashKeepsRow(k) ==
  /\ lock[k].by = "dispatch"
  /\ Acked(outbox[lock[k].row])
  /\ RekeyedMeanwhile(k)
  /\ requests' = [requests EXCEPT ![outbox[lock[k].row].req].idem = lock[k].idem]
  /\ Unlock(k)
  /\ UNCHANGED <<balances, outbox, today, crashes, hcmVars>>

(***************************************************************************)
(* Transaction 2 after { ok: true } saves the whole request as it was read *)
(* in transaction 1.  With the old idempotency key, which the new request  *)
(* carries now, the UNIQUE index refuses it and the transaction rolls back.*)
(***************************************************************************)
DispatchAckClash(k) ==
  /\ lock[k].by = "dispatch"
  /\ Acked(outbox[lock[k].row])
  /\ RekeyedMeanwhile(k)
  /\ Unlock(k)
  /\ UNCHANGED <<balances, requests, outbox, today, crashes, hcmVars>>

\* Mutant of DispatchRetryLater: the lock is kept.
RetryLaterHolding(k) ==
  /\ lock[k].by = "dispatch"
  /\ ~AtCap(outbox[lock[k].row])
  /\ UNCHANGED vars

(***************************************************************************)
(* Transaction 2 after { ok: false }: HCM refused, or the client used up   *)
(* its tries.  It cannot tell whether HCM served the POST.  Below the cap  *)
(* the row stays PENDING for a later tick.                                 *)
(***************************************************************************)
DispatchRetryLater(k) ==
  /\ lock[k].by = "dispatch"
  /\ ~AtCap(outbox[lock[k].row])
  /\ Unlock(k)
  /\ UNCHANGED <<balances, requests, outbox, today, crashes, hcmVars>>

\* Mutant of DispatchFileCap: the lock is kept.
FileCapHolding(k) ==
  /\ lock[k].by = "dispatch"
  /\ AtCap(outbox[lock[k].row])
  /\ outbox[lock[k].row].op = "FILE"
  /\ UNCHANGED vars

\* The cap on a FILE: compensate, and send a REVERSE in case it landed.
DispatchFileCap(k) ==
  LET i == lock[k].row
      row == outbox[i] IN
  /\ lock[k].by = "dispatch"
  /\ AtCap(row)
  /\ row.op = "FILE"
  /\ Restore(k, Days(row.req))
  /\ SetStatus(row.req, "REJECTED")
  /\ outbox' = Append([outbox EXCEPT ![i].status = "FAILED"],
                      NewRow(row.req, "REVERSE"))
  /\ Unlock(k)
  /\ UNCHANGED <<today, crashes, hcmVars>>

DispatchReverseCap(k) ==
  LET i == lock[k].row IN
  /\ lock[k].by = "dispatch"
  /\ AtCap(outbox[i])
  /\ outbox[i].op = "REVERSE"
  /\ outbox' = [outbox EXCEPT ![i].status = "FAILED"]
  /\ Unlock(k)
  /\ UNCHANGED <<balances, requests, today, crashes, hcmVars>>
=============================================================================
