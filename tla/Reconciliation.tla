---------------------------- MODULE Reconciliation ----------------------------
(***************************************************************************)
(* Batches of balances that HCM pushes to the service while everything in  *)
(* TimeOffSystem goes on: ReconciliationService.ingestBatch and            *)
(* BalanceService.reconcileBalance.  A batch is a snapshot; what happened  *)
(* since it was taken has to be replayed on top of it, and a batch may     *)
(* arrive late, twice, next to another one, or fail half-way.              *)
(***************************************************************************)
EXTENDS TimeOffSystem

CONSTANTS
  MaxBatches,      \* bound: batches HCM emits
  Ingesters,       \* requests to POST /timeoff/hcm/batch handled at a time
  Divergences,     \* days by which a batch can report less than HCM has
  Never            \* no date

\* A batch lists all balances.
ASSUME KeysAssumption == IsFiniteSet(Keys)
ASSUME MaxBatchesAssumption == MaxBatches \in Nat
ASSUME DivergencesAssumption == Divergences \subseteq Nat
ASSUME NeverAssumption == Never \notin Nat

VARIABLES
  hcmAckAt,        \* by request: the day HCM acknowledged its last command
  answeredOn,      \* by call: the day (ackedAt) in HCM's stored answer
  corpora,         \* the batches HCM emitted; the index is the sequence
  ingests,         \* by ingester: the batch at hand, the entries to do and, as
                   \* history, the batches logged when it passed the guard
  batchSyncLog,    \* the sequences logged as applied
  needsReview,     \* the keys flagged for a manager
  reconciled       \* history: the <<sequence, key>> pairs reconciled

ingestVars == <<ingests, batchSyncLog, needsReview, reconciled>>
ackVars == <<hcmAckAt, answeredOn>>
allVars == <<vars, ackVars, corpora, ingestVars>>

Idle == [batch |-> 0, todo |-> <<>>, after |-> {}]
Busy(d) == ingests[d] # Idle

Requested(k) == {r \in Submitted : requests[r].key = k}
Taken == {c \in Calls : idempotencyStore[c] = "ok"}

\* Orders in which a batch can list the keys.
Listings ==
  {order \in [1 .. Cardinality(Keys) -> Keys] :
     \A k \in Keys : \E n \in DOMAIN order : order[n] = k}
-----------------------------------------------------------------------------
(* HCM's side *)

\* buildCorpus, under the mock's next sequence.  What HCM had then is history.
Emit(order, less) ==
  /\ Len(corpora) < MaxBatches
  /\ corpora' = Append(corpora,
       [asOf |-> today, taken |-> Taken, hcm |-> hcm, refreshes |-> refreshes,
        entries |-> [n \in DOMAIN order |->
                       [key |-> order[n], balance |-> Floor0(hcm[order[n]] - less)]]])
  /\ UNCHANGED <<vars, ackVars, ingestVars>>

\* The answer HCM stores for a command has the date of its first serving.
Serve(call) ==
  /\ \/ call[2] = "FILE" /\ ServeFile(call[1])
     \/ call[2] = "REVERSE" /\ ServeReverse(call[1])
  /\ answeredOn' = IF idempotencyStore[call] = "unseen"
                     THEN [answeredOn EXCEPT ![call] = today] ELSE answeredOn
  /\ UNCHANGED <<hcmAckAt, corpora, ingestVars>>

\* Mutant of Acknowledge: stamped with the service's clock.
StampedNow(k) ==
  /\ DispatchAcked(k)
  /\ hcmAckAt' = [hcmAckAt EXCEPT ![outbox[lock[k].row].req] = today]
  /\ UNCHANGED <<answeredOn, corpora, ingestVars>>

Acknowledge(k) ==
  LET row == outbox[lock[k].row] IN
  /\ DispatchAcked(k)
  /\ hcmAckAt' = [hcmAckAt EXCEPT ![row.req] = answeredOn[CallOf(row)]]
  /\ UNCHANGED <<answeredOn, corpora, ingestVars>>
-----------------------------------------------------------------------------
(* reconcileBalance *)

\* The sum of the requests' days column.
SumDays(rs) ==
  Cardinality(UNION {{r} \X BusinessDays(requests[r].start, requests[r].end) : r \in rs})

\* hcmAckAt IS NULL OR hcmAckAt > asOf, compared as text: the column holds
\* 'YYYY-MM-DD hh:mm:ss.sss', the parameter is 'YYYY-MM-DDThh:mm:ss.sssZ', and
\* a blank sorts before a T, so two times of one day never compare as later.
AckedAfter(r, asOf) == hcmAckAt[r] = Never \/ hcmAckAt[r] > asOf

\* Deductions that the snapshot is taken to lack.
Unacked(k, asOf) ==
  {r \in Requested(k) :
     requests[r].status \in {"APPROVED", "PENDING_SYNC"} /\ AckedAfter(r, asOf)}

\* Mutant of PendingReversals: whatever the REVERSE is for.
AnyReversals(k) == {r \in Requested(k) : HasRow(r, "REVERSE", {"PENDING"})}

\* Reversals that the snapshot is taken to lack.
PendingReversals(k) ==
  {r \in Requested(k) :
     requests[r].status = "CANCELLED" /\ HasRow(r, "REVERSE", {"PENDING"})}

\* Mutant of Reservations: committed requests hold a reservation still.
Holding(k) ==
  {r \in Requested(k) : requests[r].status \in {"PENDING", "PENDING_SYNC"}}

Reservations(k) == {r \in Requested(k) : requests[r].status = "PENDING"}

Replayed(k, balance, asOf) ==
  balance - SumDays(Unacked(k, asOf)) + SumDays(PendingReversals(k))

ReconcileBalance(k, balance, asOf) ==
  LET available == Replayed(k, balance, asOf) IN
  /\ balances' = [balances EXCEPT
                    ![k] = [available |-> available,
                            reserved |-> SumDays(Reservations(k)), warm |-> TRUE]]
  /\ needsReview' = IF available < 0 THEN needsReview \cup {k} ELSE needsReview
-----------------------------------------------------------------------------
(* ingestBatch *)

\* Mutant of Fresh: only a batch sent twice is stale.
FreshOnce(b) == b \notin batchSyncLog

\* The sequence guard.  A stale batch leaves an event and nothing else.
Fresh(b) == \A s \in batchSyncLog : b > s

IngestBegin(d, b) ==
  /\ ~Busy(d)
  /\ Fresh(b)
  /\ ingests' = [ingests EXCEPT ![d] =
                    [batch |-> b, todo |-> corpora[b].entries, after |-> batchSyncLog]]
  /\ UNCHANGED <<vars, ackVars, corpora, batchSyncLog, needsReview, reconciled>>

\* Mutant of IngestOne: the balance key is not locked.
IngestUnlocked(d) ==
  LET b == ingests[d].batch
      entry == Head(ingests[d].todo) IN
  /\ ingests[d].todo # <<>>
  /\ ReconcileBalance(entry.key, entry.balance, corpora[b].asOf)
  /\ ingests' = [ingests EXCEPT ![d].todo = Tail(@)]
  /\ reconciled' = reconciled \cup {<<b, entry.key>>}
  /\ UNCHANGED <<requests, outbox, lock, today, crashes, hcmVars,
                 ackVars, corpora, batchSyncLog>>

\* The next entry, in one transaction inside its key's lock.
IngestOne(d) ==
  LET b == ingests[d].batch
      entry == Head(ingests[d].todo) IN
  /\ ingests[d].todo # <<>>
  /\ IsFree(entry.key)
  /\ ReconcileBalance(entry.key, entry.balance, corpora[b].asOf)
  /\ ingests' = [ingests EXCEPT ![d].todo = Tail(@)]
  /\ reconciled' = reconciled \cup {<<b, entry.key>>}
  /\ UNCHANGED <<requests, outbox, lock, today, crashes, hcmVars,
                 ackVars, corpora, batchSyncLog>>

\* Mutant of IngestFails: logged as applied whatever happened.
FailsLogged(d) ==
  /\ Busy(d)
  /\ ingests' = [ingests EXCEPT ![d] = Idle]
  /\ batchSyncLog' = batchSyncLog \cup {ingests[d].batch}
  /\ UNCHANGED <<vars, ackVars, corpora, needsReview, reconciled>>

\* A transaction throws: the entries done stay done, and nothing is logged.
IngestFails(d) ==
  /\ Busy(d)
  /\ ingests' = [ingests EXCEPT ![d] = Idle]
  /\ UNCHANGED <<vars, ackVars, corpora, batchSyncLog, needsReview, reconciled>>

IngestEnd(d) ==
  /\ Busy(d)
  /\ ingests[d].todo = <<>>
  /\ ingests' = [ingests EXCEPT ![d] = Idle]
  /\ batchSyncLog' = batchSyncLog \cup {ingests[d].batch}
  /\ UNCHANGED <<vars, ackVars, corpora, needsReview, reconciled>>

\* PATCH /balances/resolve-review
ResolveReview(k) ==
  /\ IsFree(k)
  /\ k \in needsReview
  /\ needsReview' = needsReview \ {k}
  /\ UNCHANGED <<vars, ackVars, corpora, ingests, batchSyncLog, reconciled>>
-----------------------------------------------------------------------------
ReconcilingInit ==
  /\ Init
  /\ hcmAckAt = [r \in Requests |-> Never]
  /\ answeredOn = [c \in Calls |-> Never]
  /\ corpora = <<>>
  /\ ingests = [d \in Ingesters |-> Idle]
  /\ batchSyncLog = {}
  /\ needsReview = {}
  /\ reconciled = {}

\* A restart loses the batches at hand too.
Restart ==
  /\ Crash
  /\ ingests' = [d \in Ingesters |-> Idle]
  /\ UNCHANGED <<ackVars, corpora, batchSyncLog, needsReview, reconciled>>

\* The other end of a dispatch writes no acknowledgement.
Unacknowledged(k) ==
  DispatchAckClash(k) \/ DispatchRetryLater(k)
    \/ DispatchFileCap(k) \/ DispatchReverseCap(k)

EndUnacknowledged(k) ==
  Unacknowledged(k) /\ UNCHANGED <<ackVars, corpora, ingestVars>>

\* What the rest of TimeOffSystem does is as it is there.
Elsewhere ==
  /\ \/ Tick \/ Client
     \/ \E r \in Submitted : Handler(r)
     \/ \E k \in Keys : HydrateRead(k) \/ Resume(k) \/ Unacknowledged(k) \/ Refresh(k)
     \/ \E i \in DOMAIN outbox : DispatchBegin(i)
  /\ UNCHANGED <<ackVars, corpora, ingestVars>>

IngestStep(d) == IngestOne(d) \/ IngestEnd(d)

ReconcilingNext ==
  \/ Elsewhere \/ Restart
  \/ \E order \in Listings, less \in Divergences : Emit(order, less)
  \/ \E call \in wire : Serve(call)
  \/ \E k \in Keys : Acknowledge(k) \/ ResolveReview(k)
  \/ \E d \in Ingesters :
       IngestStep(d) \/ IngestFails(d) \/ \E b \in DOMAIN corpora : IngestBegin(d, b)

ReconcilingSpec == ReconcilingInit /\ [][ReconcilingNext]_allVars
-----------------------------------------------------------------------------
(* Safety *)

\* A logged batch was applied to every balance it lists, whatever failed,
\* restarted or was sent again in between: nothing half-done counts as done.
LoggedIsWhole ==
  \A b \in batchSyncLog, k \in Keys : <<b, k>> \in reconciled

\* An older batch does not undo a newer one that was logged before the older
\* arrived, however often either is sent.  (Two handled at a time, or a newer
\* one that failed, can be: the log is written last.)
NoRewindOnceLogged ==
  [][\A d \in Ingesters :
       IngestOne(d) =>
         \A pair \in reconciled :
           pair[2] = Head(ingests[d].todo).key /\ pair[1] > ingests[d].batch
             => pair[1] \notin ingests[d].after]_allVars

\* The replay can tell what a batch lacks of request r: HCM has taken nothing
\* the service does not know of, nothing since the snapshot but FILEs answered
\* on a later day, and no FILE that the service has given up.
Replayable(r, batch) ==
  /\ \A op \in Operations : HasRow(r, op, {"PENDING"}) => <<r, op>> \notin Taken
  /\ \A call \in Taken \ batch.taken :
       call[1] = r => /\ requests[r].status = "APPROVED"
                      /\ answeredOn[call] > batch.asOf
  /\ requests[r].status = "REJECTED" => <<r, "FILE">> \notin Taken

\* What HCM will have once each command it has not taken yet has landed.
Deductions(k, batch) ==
  {r \in Requested(k) : requests[r].status \in {"APPROVED", "PENDING_SYNC"}
                          /\ <<r, "FILE">> \notin batch.taken}
Credits(k, batch) ==
  {r \in Requested(k) : HasRow(r, "REVERSE", {"PENDING", "SENT"})
                          /\ <<r, "FILE">> \in batch.taken
                          /\ <<r, "REVERSE">> \notin batch.taken}

\* A batch, however old, leaves the balance HCM will come to: no deduction or
\* reversal of an approval, a cancellation, a retry or a restart in between is
\* lost or counted twice, as long as the replay can tell.
ReplayExact ==
  [][\A d \in Ingesters :
       IngestOne(d) =>
         LET entry == Head(ingests[d].todo)
             k == entry.key
             batch == corpora[ingests[d].batch] IN
         (\A r \in Requested(k) : Replayable(r, batch)) =>
           balances'[k].available =
             entry.balance - SumDays(Deductions(k, batch)) + SumDays(Credits(k, batch))
    ]_allVars

\* What is on its way to HCM: deductions not filed yet, and days to be returned.
Filing(k) == {r \in Requested(k) : HasRow(r, "FILE", {"PENDING"})}
Returning(k) ==
  {r \in Requested(k) : HasRow(r, "REVERSE", {"PENDING"}) /\ <<r, "FILE">> \in Taken}

\* After a batch the service has what HCM has now, not at the snapshot, less
\* what is still to be filed and plus what is still to be returned; a batch
\* that reports too few or too many days is off by just these.
ReplayMeetsHcm ==
  [][\A d \in Ingesters :
       IngestOne(d) =>
         LET entry == Head(ingests[d].todo)
             k == entry.key
             batch == corpora[ingests[d].batch] IN
         (\A r \in Requested(k) : Replayable(r, batch)) /\ refreshes = batch.refreshes =>
           balances'[k].available =
             hcm[k] - SumDays(Filing(k)) + SumDays(Returning(k))
               - (batch.hcm[k] - entry.balance)
    ]_allVars
-----------------------------------------------------------------------------
(* Liveness *)

(***************************************************************************)
(* As in TimeOffSystem, and the handler of a batch goes on: it waits in    *)
(* line for each lock.  HCM owes nothing.                                  *)
(***************************************************************************)
ReconcilingFairness ==
  /\ \A k \in Keys : /\ WF_allVars(Resume(k) /\ UNCHANGED <<ackVars, corpora, ingestVars>>)
                     /\ WF_allVars(Acknowledge(k) \/ EndUnacknowledged(k))
  /\ \A d \in Ingesters : SF_allVars(IngestStep(d))

FairReconcilingSpec == ReconcilingSpec /\ ReconcilingFairness

\* A batch at hand is finished or fails: it takes the locks one after another
\* while approvals and dispatches take them too, and waits for ever only for a
\* key whose submit waits for itself.
IngestsEnd ==
  \A d \in Ingesters :
    Busy(d) ~> (~Busy(d) \/ \E k \in Keys : lock[k].by = "submit")
=============================================================================
