----------------------------- MODULE ServiceState -----------------------------
(***************************************************************************)
(* The state the components of the time-off service share: the SQLite      *)
(* tables (balances, requests, outbox), the in-process balance-key lock,   *)
(* the clock, and the HCM system at the other end of the network.          *)
(*                                                                         *)
(* A balance key is one (employeeId, locationId) pair.                     *)
(***************************************************************************)
EXTENDS CivilDates, Sequences

CONSTANTS
  Keys,            \* balance keys
  Requests,        \* ids the database can hand out to new requests
  IdemKeys,        \* Idempotency-Key headers clients use
  Retired,         \* stands for "<key>:terminal:<id>", unique by its suffix
  Ranges,          \* date ranges clients ask for, [start, end]
  Horizon,         \* bound: the last civil day of a behaviour
  TtlDays,         \* RESERVATION_TTL_DAYS
  MaxAttempts,     \* HCM_RETRY_MAX_ATTEMPTS
  Entitlements,    \* balances HCM gives an employee at the start or on a refresh
  MaxRefreshes,    \* bound: balance changes that HCM makes on its own
  MaxCrashes       \* bound: restarts of the service

ASSUME RangesAssumption == Ranges \subseteq [start : Nat, end : Nat]
ASSUME NumbersAssumption ==
  /\ Horizon \in Nat
  /\ TtlDays \in Nat
  /\ MaxAttempts \in Nat \ {0}
  /\ MaxRefreshes \in Nat
  /\ MaxCrashes \in Nat
ASSUME EntitlementsAssumption == Entitlements \subseteq Nat
ASSUME RetiredAssumption == Retired \notin IdemKeys

VARIABLES
  balances,        \* the balances table, by key
  requests,        \* the time_off_requests table: a function on the ids in use
  outbox,          \* the outbox table in createdAt order
  lock,            \* by key: what the holder of the balance-key lock is doing
  today,           \* the clock's UTC civil date
  crashes,
  hcm,             \* HCM's own balance, by key
  idempotencyStore,\* HCM's answer to each Idempotency-Key it has seen
  wire,            \* POSTs sent that HCM has not served (they may still land)
  refreshes

serviceVars == <<balances, requests, outbox, lock, today, crashes>>
hcmVars == <<hcm, idempotencyStore, wire, refreshes>>
vars == <<serviceVars, hcmVars>>
-----------------------------------------------------------------------------
Statuses == {"PENDING", "PENDING_SYNC", "APPROVED",
             "REJECTED", "CANCELLED", "EXPIRED"}
TerminalStatuses == {"REJECTED", "CANCELLED", "EXPIRED"}
ActiveStatuses == Statuses \ TerminalStatuses

Operations == {"FILE", "REVERSE"}
OutboxStatuses == {"PENDING", "SENT", "FAILED", "VOIDED"}

\* warm: lastHcmAsOf is set.  An absent row and a cold row read the same.
BalanceRow == [available : Int, reserved : Nat, warm : BOOLEAN]

RequestRow == [key : Keys, start : Nat, end : Nat, status : Statuses,
               idem : IdemKeys \cup {Retired}, expires : Nat]

OutboxRow == [req : Requests, op : Operations, status : OutboxStatuses,
              attempts : Nat]

\* A POST is known by its Idempotency-Key, hcmIdempotencyKey plus operation.
Calls == Requests \X Operations

(***************************************************************************)
(* The holder of a key's lock, at the points where it awaits something     *)
(* outside the process: hydrate and approve wait for GET /hcm/balance      *)
(* (snapshot is what HCM will answer), validate is approve between its two *)
(* transactions, dispatch waits for a POST and keeps the request it read   *)
(* (only idem of it can change meanwhile), submit waits for the very lock  *)
(* it holds.  Everything else a holder does is one transaction, one step.  *)
(***************************************************************************)
Free == [by |-> "nobody"]

LockState ==
  {Free}
    \cup [by : {"hydrate"}, snapshot : Nat]
    \cup [by : {"approve"}, req : Requests, snapshot : Nat]
    \cup [by : {"validate"}, req : Requests]
    \cup [by : {"dispatch"}, row : Nat, idem : IdemKeys \cup {Retired}]
    \cup [by : {"submit"}]

\* Mutant of IsFree: a caller that skips runExclusive.
AlwaysFree(k) == k \in Keys

IsFree(k) == lock[k] = Free
Acquire(k, holder) == lock' = [lock EXCEPT ![k] = holder]
Unlock(k) == Acquire(k, Free)
-----------------------------------------------------------------------------
Submitted == DOMAIN requests
Active(r) == requests[r].status \in ActiveStatuses
Days(r) == CountBusinessDays(requests[r].start, requests[r].end)
FreeDays(k) == balances[k].available - balances[k].reserved
SetStatus(r, s) == requests' = [requests EXCEPT ![r].status = s]

NewRow(r, op) == [req |-> r, op |-> op, status |-> "PENDING", attempts |-> 0]

\* Mutant of VoidPendingFileRows: the update is forgotten.
VoidNothing(r) == UNCHANGED outbox

\* voidPendingFileRows
VoidPendingFileRows(r) ==
  outbox' = [i \in DOMAIN outbox |->
               IF outbox[i].req = r /\ outbox[i].op = "FILE"
                    /\ outbox[i].status = "PENDING"
                 THEN [outbox[i] EXCEPT !.status = "VOIDED"]
                 ELSE outbox[i]]

\* buildOutboxRow and the insert
Enqueue(r, op) == outbox' = Append(outbox, NewRow(r, op))

TypeOK ==
  /\ balances \in [Keys -> BalanceRow]
  /\ requests \in [Submitted -> RequestRow]
  /\ Submitted \subseteq Requests
  /\ outbox \in Seq(OutboxRow)
  /\ lock \in [Keys -> LockState]
  /\ today \in Nat
  /\ crashes \in Nat
  /\ hcm \in [Keys -> Nat]
  /\ idempotencyStore \in [Calls -> {"unseen", "ok", "refused"}]
  /\ wire \subseteq Calls
  /\ refreshes \in Nat
=============================================================================
