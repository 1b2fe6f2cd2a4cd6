---------------------------- MODULE BalanceService ----------------------------
(***************************************************************************)
(* BalanceService: the writes to one balance row, each called inside the   *)
(* balance-key lock by the component that decides, and the cold read       *)
(* (lazy hydration), which takes the lock itself.                          *)
(***************************************************************************)
EXTENDS ServiceState

Floor0(n) == IF n < 0 THEN 0 ELSE n

\* reserve holds days back; available is deducted only by commit.
Reserve(k, days) ==
  balances' = [balances EXCEPT ![k].reserved = @ + days]

Release(k, days) ==
  balances' = [balances EXCEPT ![k].reserved = Floor0(@ - days)]

\* Mutant of Commit: the reservation is not cleared.
CommitOnly(k, days) ==
  balances' = [balances EXCEPT ![k].available = @ - days]

Commit(k, days) ==
  balances' = [balances EXCEPT ![k].available = @ - days,
                               ![k].reserved = Floor0(@ - days)]

\* Mutant of Restore: undoes a reservation, which commit has cleared already.
RestoreReserved(k, days) ==
  balances' = [balances EXCEPT ![k].reserved = @ - days]

Restore(k, days) ==
  balances' = [balances EXCEPT ![k].available = @ + days]

ApplyHcmSnapshot(k, value) ==
  balances' = [balances EXCEPT ![k].available = value, ![k].warm = TRUE]
-----------------------------------------------------------------------------
(***************************************************************************)
(* getBalance on a cold key.  GET /balances and the pre-warm of submit     *)
(* reach it; the row is checked again inside the lock, and only one GET    *)
(* is sent.  On a warm key getBalance writes nothing and takes no lock.    *)
(***************************************************************************)
HydrateRead(k) ==
  /\ IsFree(k)
  /\ ~balances[k].warm
  /\ Acquire(k, [by |-> "hydrate", snapshot |-> hcm[k]])
  /\ UNCHANGED <<balances, requests, outbox, today, crashes, hcmVars>>

HydrateApply(k) ==
  /\ lock[k].by = "hydrate"
  /\ ApplyHcmSnapshot(k, lock[k].snapshot)
  /\ Unlock(k)
  /\ UNCHANGED <<requests, outbox, today, crashes, hcmVars>>

\* HcmUnavailableError: the caller gets an ephemeral zero row, none is saved.
HydrateDegraded(k) ==
  /\ lock[k].by = "hydrate"
  /\ Unlock(k)
  /\ UNCHANGED <<balances, requests, outbox, today, crashes, hcmVars>>
=============================================================================
