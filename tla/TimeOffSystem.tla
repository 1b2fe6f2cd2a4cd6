---------------------------- MODULE TimeOffSystem ----------------------------
(***************************************************************************)
(* The service and HCM together: employees submit and cancel, managers     *)
(* approve and reject, the reaper expires, the dispatcher talks to HCM,    *)
(* days pass, HCM changes balances of its own and the service restarts.    *)
(***************************************************************************)
EXTENDS TimeOffRequests, OutboxDispatcher, Hcm

Init ==
  /\ balances = [k \in Keys |-> [available |-> 0, reserved |-> 0, warm |-> FALSE]]
  /\ requests = <<>>
  /\ outbox = <<>>
  /\ lock = [k \in Keys |-> Free]
  /\ today = 0
  /\ crashes = 0
  /\ hcm \in [Keys -> Entitlements]
  /\ idempotencyStore = [c \in Calls |-> "unseen"]
  /\ wire = {}
  /\ refreshes = 0

Tick ==
  /\ today < Horizon
  /\ today' = today + 1
  /\ UNCHANGED <<balances, requests, outbox, lock, crashes, hcmVars>>

\* The tables survive a restart; locks and calls in progress do not.
Crash ==
  /\ crashes < MaxCrashes
  /\ crashes' = crashes + 1
  /\ lock' = [k \in Keys |-> Free]
  /\ UNCHANGED <<balances, requests, outbox, today, hcmVars>>

Client ==
  \E k \in Keys, range \in Ranges, i \in IdemKeys :
    (\E r \in Requests : Submit(r, k, range, i)) \/ SubmitHangs(k, range, i)

Handler(r) ==
  ApprovePast(r) \/ ApproveRefresh(r) \/ Reject(r) \/ Cancel(r) \/ SweepOne(r)

Resume(k) ==
  HydrateApply(k) \/ HydrateDegraded(k)
    \/ ApproveSnapshot(k) \/ ApproveReject(k) \/ ApproveCommit(k)

DispatchEnd(k) ==
  DispatchAcked(k) \/ DispatchAckClash(k) \/ DispatchRetryLater(k)
    \/ DispatchFileCap(k) \/ DispatchReverseCap(k)

Next ==
  \/ Tick \/ Crash \/ Client
  \/ \E r \in Submitted : Handler(r) \/ ServeFile(r) \/ ServeReverse(r)
  \/ \E k \in Keys : HydrateRead(k) \/ Resume(k) \/ DispatchEnd(k) \/ Refresh(k)
  \/ \E i \in DOMAIN outbox : DispatchBegin(i)

Spec == Init /\ [][Next]_vars

(***************************************************************************)
(* The dispatcher ticks every five seconds, the reaper every five minutes; *)
(* both take the lock in FIFO order, so a free lock is theirs in the end   *)
(* (strong fairness).  Holders finish: every HCM call is answered or       *)
(* fails.  Clients, managers, HCM and the clock owe nothing.               *)
(***************************************************************************)
Fairness ==
  /\ \A k \in Keys : WF_vars(Resume(k)) /\ WF_vars(DispatchEnd(k))
  /\ \A r \in Requests :
       /\ SF_vars(\E i \in DOMAIN outbox : outbox[i].req = r /\ DispatchBegin(i))
       /\ SF_vars(r \in Submitted /\ SweepOne(r))

FairSpec == Spec /\ Fairness
-----------------------------------------------------------------------------
(* Safety *)

RowsOf(r, op) == {i \in DOMAIN outbox : outbox[i].req = r /\ outbox[i].op = op}
HasRow(r, op, statuses) == \E i \in RowsOf(r, op) : outbox[i].status \in statuses

HeldDays(k) ==
  UNION {{r} \X BusinessDays(requests[r].start, requests[r].end) :
           r \in {q \in Submitted : requests[q].key = k
                                      /\ requests[q].status = "PENDING"}}

\* The reserved column is always the business days of the PENDING requests of
\* the key, each request's days once: no reservation is stranded or released
\* twice by any order of approvals, withdrawals, caps, snapshots and restarts.
ReservedMatchesHeld ==
  \A k \in Keys : balances[k].reserved = Cardinality(HeldDays(k))

Dates(r) == requests[r].start .. requests[r].end

\* Nobody is booked twice for a day: two active requests of one key never
\* share a date, although submit checks and inserts in separate statements.
NoDoubleBooking ==
  \A q, r \in Submitted :
    q # r /\ Active(q) /\ Active(r) /\ requests[q].key = requests[r].key
      => Dates(q) \cap Dates(r) = {}

\* The UNIQUE index on idempotencyKey is never hit by the re-keying of a
\* terminal request: at most one request carries a client's key.
OneRequestPerKey ==
  \A q, r \in Submitted :
    requests[q].idem = requests[r].idem /\ requests[q].idem # Retired => q = r

\* What the outbox says of a request and what its status says agree: it awaits
\* HCM exactly while its FILE row is open, is APPROVED only with FILE sent, and
\* a FILE that was sent or given up for a request no longer approved has its
\* compensating REVERSE.
OutboxMatchesStatus ==
  \A r \in Submitted :
    LET s == requests[r].status IN
    /\ s = "PENDING" => RowsOf(r, "FILE") = {}
    /\ s = "PENDING_SYNC" <=> HasRow(r, "FILE", {"PENDING"})
    /\ s = "APPROVED" => HasRow(r, "FILE", {"SENT"})
    /\ HasRow(r, "FILE", {"SENT", "FAILED"}) /\ s # "APPROVED"
         <=> RowsOf(r, "REVERSE") # {}
    /\ RowsOf(r, "REVERSE") # {} => s \in {"CANCELLED", "REJECTED"}

\* HCM is asked for each operation of a request through one row only, so one
\* idempotency key never stands for two commands.
OneRowPerOperation ==
  \A i, j \in DOMAIN outbox :
    outbox[i].req = outbox[j].req /\ outbox[i].op = outbox[j].op => i = j

\* What a lock holder read before it waited for HCM is still so when it goes
\* on: the request under approval is PENDING, the row on its way is open and
\* its request (for a FILE) still awaits HCM, and a key being hydrated is cold.
HolderStillRight ==
  \A k \in Keys :
    /\ lock[k].by \in {"approve", "validate"} =>
         /\ lock[k].req \in Submitted
         /\ requests[lock[k].req].key = k
         /\ requests[lock[k].req].status = "PENDING"
    /\ lock[k].by = "dispatch" =>
         /\ lock[k].row \in DOMAIN outbox
         /\ LET row == outbox[lock[k].row] IN
              /\ row.status = "PENDING"
              /\ KeyOf(row) = k
              /\ row.op = "FILE" => requests[row.req].status = "PENDING_SYNC"
              /\ RekeyedMeanwhile(k) =>
                   row.op = "REVERSE" /\ requests[row.req].idem = Retired
    /\ lock[k].by \in {"hydrate", "submit"} => ~balances[k].warm

\* Nothing reaches HCM that the outbox has not counted first: whatever is on
\* the wire or was served has a row with an attempt, and SENT rows were served.
CountedBeforeSent ==
  /\ \A c \in Calls :
       c \in wire \/ idempotencyStore[c] # "unseen" =>
         \E i \in DOMAIN outbox : CallOf(outbox[i]) = c /\ outbox[i].attempts > 0
  /\ \A i \in DOMAIN outbox :
       outbox[i].status = "SENT" => idempotencyStore[CallOf(outbox[i])] = "ok"

\* A row is tried at most up to the cap, plus once for each restart that hit
\* between counting an attempt and recording its outcome, and once more if the
\* outcome was lost because the request's idempotency key was taken meanwhile.
Clashes(r) == IF requests[r].idem = Retired THEN 1 ELSE 0

AttemptsBounded ==
  \A i \in DOMAIN outbox :
    outbox[i].attempts <= MaxAttempts + crashes + Clashes(outbox[i].req)

\* Ids that one record keeps of another resolve: outbox rows belong to stored
\* requests and lock holders work on stored rows.  (The "not found" branches
\* of approve, reject, cancel and dispatchOne are for ids from outside.)
ReferencesResolve ==
  /\ \A i \in DOMAIN outbox : outbox[i].req \in Submitted
  /\ \A k \in Keys :
       /\ lock[k].by \in {"approve", "validate"} => lock[k].req \in Submitted
       /\ lock[k].by = "dispatch" => lock[k].row \in DOMAIN outbox
-----------------------------------------------------------------------------
(* Action properties *)

\* A terminal request stays as it is but for its idempotency key, and a row
\* that is no longer PENDING is never written again: neither a late outcome
\* nor a concurrent handler revives either.
DecidedIsFinal ==
  [][ /\ \A r \in Submitted :
           ~Active(r) => requests'[r] = [requests[r] EXCEPT !.idem = requests'[r].idem]
      /\ \A i \in DOMAIN outbox :
           outbox[i].status # "PENDING" => outbox'[i] = outbox[i] ]_vars

\* The promise of RequestLifecycle, with what HCM did read off its store.
Lifecycle == INSTANCE RequestLifecycle WITH
  status <- [r \in Requests |->
               IF r \in Submitted THEN requests[r].status ELSE "NONE"],
  approved <- {r \in Requests : RowsOf(r, "FILE") # {}},
  deducted <- {r \in Requests : idempotencyStore[<<r, "FILE">>] = "ok"},
  returned <- {r \in Requests : idempotencyStore[<<r, "REVERSE">>] = "ok"}

FollowsLifecycle == Lifecycle!Spec
-----------------------------------------------------------------------------
(* Liveness *)

\* The outbox never keeps a command for ever: each row of a request, and the
\* REVERSE that giving up its FILE adds, is eventually sent, voided or failed.
Open(r) == \E op \in Operations : HasRow(r, op, {"PENDING"})

OutboxDrains == \A r \in Requests : Open(r) ~> ~Open(r)

\* A request past its TTL does not stay undecided.
Undecided(r) ==
  r \in Submitted /\ requests[r].status \in {"PENDING", "PENDING_SYNC"}

ExpiredIsDecided ==
  \A r \in Requests :
    Undecided(r) /\ requests[r].expires <= today ~> ~Undecided(r)
-----------------------------------------------------------------------------
(* What the repository says and the code does not do *)

\* time-off-request.service.ts:222-224: the pre-warm "prevents re-entrant
\* deadlock", so no submit waits for the lock it holds.
NoSelfWait == \A k \in Keys : lock[k].by # "submit"

\* time-off-request.service.ts:354: approve rejects after the refresh "if
\* available < days".
RejectedOnlyWhenShort ==
  [][\A k \in Keys :
       ApproveReject(k) => balances[k].available < Days(lock[k].req)]_vars

\* docs/TRD.md:78: no negative-from-approved.
NoNegativeFromApproved == \A k \in Keys : balances[k].available >= 0

\* README.md:141: a terminal transition that may have filed enqueues a REVERSE.
LandedIsReversed ==
  \A r \in Submitted :
    idempotencyStore[<<r, "FILE">>] = "ok" /\ requests[r].status \in TerminalStatuses
      => RowsOf(r, "REVERSE") # {}
=============================================================================
