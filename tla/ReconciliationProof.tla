-------------------------- MODULE ReconciliationProof --------------------------
(***************************************************************************)
(* What holds with batches, for any number of them, of handlers, keys,     *)
(* failures and restarts.  First the log: LoggedIsWhole alone is not       *)
(* inductive, for that nothing is left to do says something only because   *)
(* each key is reconciled or still on the list.  Then what TimeOffSystem   *)
(* promises: each step is one of its own or writes one balance under its   *)
(* lock.  Last the replay: the stamps of HCM's answers tell the deductions *)
(* a snapshot has from those it lacks, and HCM's balance moves by what HCM *)
(* takes and nothing else, so that an entry leaves what HCM has now.       *)
(***************************************************************************)
EXTENDS Reconciliation, TimeOffSystemOutbox

IsList(s) == \E S : s \in Seq(S)
Lists(s, k) == \E n \in DOMAIN s : s[n].key = k

\* One handler, its batch and what is left of it.
Progress(d) ==
  /\ \E b, t, a : ingests[d] = [batch |-> b, todo |-> t, after |-> a]
  /\ IsList(ingests[d].todo)
  /\ ingests[d].batch \in Nat
  /\ ingests[d].after \subseteq Nat
  /\ Busy(d) => /\ \A k \in Keys : \/ <<ingests[d].batch, k>> \in reconciled
                                   \/ Lists(ingests[d].todo, k)
                /\ \A s \in ingests[d].after : ingests[d].batch > s

LogInv ==
  /\ IsList(corpora)
  /\ \A b \in DOMAIN corpora : /\ IsList(corpora[b].entries)
                               /\ \A k \in Keys : Lists(corpora[b].entries, k)
  /\ ingests = [d \in Ingesters |-> ingests[d]]
  /\ \A d \in Ingesters : Progress(d)
  /\ batchSyncLog \subseteq Nat
  /\ LoggedIsWhole

\* The list without its first entry lists every other key.
LEMMA TailLists ==
  ASSUME NEW S, NEW s \in Seq(S), s # <<>>, NEW k, Lists(s, k), Head(s).key # k
  PROVE  Lists(Tail(s), k)
<1>1. PICK n \in DOMAIN s : s[n].key = k
  BY DEF Lists
<1>2. n # 1 /\ n \in 1 .. Len(s)
  BY <1>1
<1>3. n - 1 \in DOMAIN Tail(s) /\ Tail(s)[n - 1] = s[n]
  BY <1>2
<1> QED
  BY <1>1, <1>3 DEF Lists

LEMMA IdleProgress ==
  ASSUME NEW d, ingests'[d] = Idle
  PROVE  Progress(d)'
<1>1. Idle.todo \in Seq({}) /\ Idle.batch \in Nat /\ Idle.after \subseteq Nat
  BY DEF Idle
<1> QED
  BY <1>1 DEF Progress, Busy, Idle, IsList

\* A handler with a batch at hand, written out.
LEMMA BusyProgress ==
  ASSUME NEW d, NEW b \in Nat, NEW t, NEW a \in SUBSET Nat, IsList(t),
         ingests'[d] = [batch |-> b, todo |-> t, after |-> a],
         \A k \in Keys : <<b, k>> \in reconciled' \/ Lists(t, k),
         \A s \in a : b > s
  PROVE  Progress(d)'
<1>1. ingests'[d].batch = b /\ ingests'[d].todo = t /\ ingests'[d].after = a
  OBVIOUS
<1>2. IsList(ingests'[d].todo)
  BY <1>1
<1>3. \A k \in Keys : Lists(ingests'[d].todo, k) <=> Lists(t, k)
  BY <1>1
<1>4. \E x, y, z : ingests'[d] = [batch |-> x, todo |-> y, after |-> z]
  OBVIOUS
<1> QED
  BY <1>1, <1>2, <1>3, <1>4 DEF Progress, Busy, IsList, Lists

\* Another handler's progress is not lost.
LEMMA OthersProgress ==
  ASSUME NEW d, Progress(d), ingests'[d] = ingests[d], reconciled \subseteq reconciled'
  PROVE  Progress(d)'
BY DEF Progress, Busy

LEMMA Appended ==
  ASSUME NEW T, NEW s \in Seq(T), NEW e \in T
  PROVE  /\ Append(s, e) \in Seq(T)
         /\ \A b \in DOMAIN Append(s, e) :
              Append(s, e)[b] = e \/ (b \in DOMAIN s /\ Append(s, e)[b] = s[b])
<1>1. /\ Append(s, e) \in Seq(T)
      /\ Len(Append(s, e)) = Len(s) + 1
      /\ \A i \in 1 .. Len(s) : Append(s, e)[i] = s[i]
      /\ Append(s, e)[Len(s) + 1] = e
  BY AppendProperties
<1>2. DOMAIN s = 1 .. Len(s) /\ Len(s) \in Nat
  OBVIOUS
<1>3. DOMAIN Append(s, e) = 1 .. Len(s) + 1
  BY <1>1
<1>4. ASSUME NEW b \in DOMAIN Append(s, e)
      PROVE  Append(s, e)[b] = e \/ (b \in DOMAIN s /\ Append(s, e)[b] = s[b])
  <2>1. b = Len(s) + 1 \/ b \in 1 .. Len(s)
    BY <1>2, <1>3, <1>4
  <2> QED
    BY <1>1, <1>2, <2>1
<1> QED
  BY <1>1, <1>4

\* What HCM sends, as Emit has it.
Corpus(order, less) ==
  [asOf |-> today, taken |-> Taken, hcm |-> hcm, refreshes |-> refreshes,
   entries |-> [n \in DOMAIN order |->
                  [key |-> order[n], balance |-> Floor0(hcm[order[n]] - less)]]]

LEMMA EmitWrites ==
  ASSUME IsList(corpora), NEW order, NEW less, Emit(order, less)
  PROVE  /\ IsList(corpora')
         /\ \A b \in DOMAIN corpora' :
              corpora'[b] = Corpus(order, less)
                \/ (b \in DOMAIN corpora /\ corpora'[b] = corpora[b])
<1>1. corpora' = Append(corpora, Corpus(order, less))
  BY DEF Emit, Corpus
<1>2. PICK S : corpora \in Seq(S)
  BY DEF IsList
<1>3. \A b \in 1 .. Len(corpora) : corpora[b] \in S \cup {Corpus(order, less)}
  BY <1>2
<1>4. corpora \in Seq(S \cup {Corpus(order, less)})
  BY <1>2, <1>3
<1> QED
  BY <1>1, <1>4, Appended DEF IsList

LEMMA EmitKeeps ==
  ASSUME LogInv, NEW order \in Listings, NEW less, Emit(order, less)
  PROVE  LogInv'
<1>1. UNCHANGED ingestVars
  BY DEF Emit
<1>2. IsList(Corpus(order, less).entries) /\ \A k \in Keys : Lists(Corpus(order, less).entries, k)
  <2> DEFINE entries == Corpus(order, less).entries
  <2>1. DOMAIN order = 1 .. Cardinality(Keys) /\ Cardinality(Keys) \in Nat
    BY KeysAssumption, FS_CardinalityType DEF Listings
  <2>2. DOMAIN entries = DOMAIN order /\ \A n \in DOMAIN order : entries[n].key = order[n]
    BY DEF Corpus
  <2>3. entries \in Seq({entries[n] : n \in DOMAIN order})
    BY <2>1 DEF Corpus
  <2>4. \A k \in Keys : Lists(entries, k)
    BY <2>2 DEF Listings, Lists
  <2> QED
    BY <2>3, <2>4 DEF IsList
<1>3. /\ IsList(corpora')
      /\ \A b \in DOMAIN corpora' :
           corpora'[b] = Corpus(order, less) \/ (b \in DOMAIN corpora /\ corpora'[b] = corpora[b])
  BY EmitWrites DEF LogInv
<1>4. \A b \in DOMAIN corpora' :
        IsList(corpora'[b].entries) /\ \A k \in Keys : Lists(corpora'[b].entries, k)
  BY <1>2, <1>3 DEF LogInv
<1> QED
  BY <1>1, <1>3, <1>4 DEF LogInv, IsList, Lists, ingestVars, Progress, Busy, LoggedIsWhole

LEMMA IngestBeginKeeps ==
  ASSUME LogInv, NEW d \in Ingesters, NEW b \in DOMAIN corpora, IngestBegin(d, b)
  PROVE  LogInv'
<1>1. /\ ingests'[d] = [batch |-> b, todo |-> corpora[b].entries, after |-> batchSyncLog]
      /\ \A e \in Ingesters \ {d} : ingests'[e] = ingests[e]
      /\ ingests' = [e \in Ingesters |-> ingests'[e]]
      /\ UNCHANGED <<corpora, batchSyncLog, reconciled>>
  BY DEF IngestBegin, LogInv
<1>2. b \in Nat
  BY DEF LogInv, IsList
<1>3. Progress(d)'
  <2>1. \A s \in batchSyncLog : b > s
    BY DEF IngestBegin, Fresh
  <2> QED
    BY <1>1, <1>2, <2>1, BusyProgress DEF LogInv
<1>4. \A e \in Ingesters : Progress(e)'
  BY <1>1, <1>3, OthersProgress DEF LogInv
<1> QED
  BY <1>1, <1>4 DEF LogInv, LoggedIsWhole

LEMMA IngestOneKeeps ==
  ASSUME LogInv, NEW d \in Ingesters, IngestOne(d)
  PROVE  LogInv'
<1> DEFINE list == ingests[d].todo
           b == ingests[d].batch
           a == ingests[d].after
<1>1. /\ ingests[d] = [batch |-> b, todo |-> list, after |-> a]
      /\ IsList(list) /\ b \in Nat /\ a \subseteq Nat
  BY DEF LogInv, Progress
<1>2. /\ list # <<>>
      /\ ingests'[d] = [batch |-> b, todo |-> Tail(list), after |-> a]
      /\ \A e \in Ingesters \ {d} : ingests'[e] = ingests[e]
      /\ ingests' = [e \in Ingesters |-> ingests'[e]]
      /\ reconciled' = reconciled \cup {<<b, Head(list).key>>}
      /\ UNCHANGED <<corpora, batchSyncLog>>
  BY <1>1 DEF IngestOne, LogInv
<1>3. PICK S : list \in Seq(S)
  BY <1>1 DEF IsList
<1>4. Busy(d)
  BY <1>2 DEF Busy, Idle
<1>5. /\ \A k \in Keys : <<b, k>> \in reconciled \/ Lists(list, k)
      /\ \A s \in a : b > s
  BY <1>4 DEF LogInv, Progress
<1> HIDE DEF list, b, a
<1>6. \A k \in Keys : <<b, k>> \in reconciled' \/ Lists(Tail(list), k)
  BY <1>2, <1>3, <1>5, TailLists
<1>7. IsList(Tail(list))
  BY <1>2, <1>3 DEF IsList
<1>8. Progress(d)'
  BY <1>1, <1>2, <1>5, <1>6, <1>7, BusyProgress
<1>9. \A e \in Ingesters : Progress(e)'
  BY <1>2, <1>8, OthersProgress DEF LogInv
<1> QED
  BY <1>2, <1>9 DEF LogInv, LoggedIsWhole

LEMMA IngestEndKeeps ==
  ASSUME LogInv, NEW d \in Ingesters, IngestFails(d) \/ IngestEnd(d)
  PROVE  LogInv'
<1>1. /\ ingests'[d] = Idle
      /\ \A e \in Ingesters \ {d} : ingests'[e] = ingests[e]
      /\ ingests' = [e \in Ingesters |-> ingests'[e]]
      /\ UNCHANGED <<corpora, reconciled>>
  BY DEF IngestFails, IngestEnd, LogInv
<1>2. \A e \in Ingesters : Progress(e)'
  BY <1>1, IdleProgress, OthersProgress DEF LogInv
<1>3. batchSyncLog' \subseteq Nat /\ LoggedIsWhole'
  <2>1. CASE UNCHANGED batchSyncLog
    BY <1>1, <2>1 DEF LogInv, LoggedIsWhole
  <2>2. CASE IngestEnd(d)
    <3>1. /\ batchSyncLog' = batchSyncLog \cup {ingests[d].batch}
          /\ ingests[d].todo = <<>>
          /\ Busy(d)
      BY <2>2 DEF IngestEnd
    <3>2. ingests[d].batch \in Nat /\ \A k \in Keys : <<ingests[d].batch, k>> \in reconciled
      BY <3>1 DEF LogInv, Progress, Lists
    <3> QED
      BY <1>1, <3>1, <3>2 DEF LogInv, LoggedIsWhole
  <2> QED
    BY <2>1, <2>2 DEF IngestFails
<1> QED
  BY <1>1, <1>2, <1>3 DEF LogInv

LEMMA AsideKeeps ==
  ASSUME LogInv, UNCHANGED <<corpora, batchSyncLog, reconciled>>,
         UNCHANGED ingests \/ ingests' = [d \in Ingesters |-> Idle]
  PROVE  LogInv'
<1>1. /\ \A d \in Ingesters : Progress(d)'
      /\ ingests' = [d \in Ingesters |-> ingests'[d]]
  BY IdleProgress, OthersProgress DEF LogInv
<1> QED
  BY <1>1 DEF LogInv, LoggedIsWhole

LEMMA LogStep ==
  ASSUME LogInv, [ReconcilingNext]_allVars
  PROVE  LogInv'
<1>1. CASE \E order \in Listings, less \in Divergences : Emit(order, less)
  BY <1>1, EmitKeeps
<1>2. CASE \E d \in Ingesters :
             IngestStep(d) \/ IngestFails(d) \/ \E b \in DOMAIN corpora : IngestBegin(d, b)
  BY <1>2, IngestBeginKeeps, IngestOneKeeps, IngestEndKeeps DEF IngestStep
<1>3. CASE \/ Elsewhere \/ Restart \/ UNCHANGED allVars
           \/ \E call \in wire : Serve(call)
           \/ \E k \in Keys : Acknowledge(k) \/ ResolveReview(k)
  BY <1>3, AsideKeeps
  DEF Elsewhere, Restart, Serve, Acknowledge, ResolveReview, allVars, ingestVars
<1> QED
  BY <1>1, <1>2, <1>3 DEF ReconcilingNext

LEMMA LogInit == ReconcilingInit => LogInv
<1> SUFFICES ASSUME ReconcilingInit PROVE LogInv
  OBVIOUS
<1>1. /\ corpora \in Seq({}) /\ DOMAIN corpora = {}
      /\ batchSyncLog = {}
      /\ ingests = [d \in Ingesters |-> Idle]
  BY DEF ReconcilingInit
<1>2. Idle.todo \in Seq({}) /\ Idle.batch \in Nat /\ Idle.after \subseteq Nat
  BY DEF Idle
<1>3. \A d \in Ingesters : Progress(d)
  BY <1>1, <1>2 DEF Progress, Busy, Idle, IsList
<1> QED
  BY <1>1, <1>3 DEF LogInv, IsList, LoggedIsWhole

LEMMA LogAlways == ReconcilingSpec => []LogInv
<1> QED
  BY LogInit, LogStep, PTL DEF ReconcilingSpec

\* reconciliation.service.ts 110-133: a logged batch was applied to every
\* balance it lists, whatever failed, restarted or was sent again in between.
THEOREM LoggedWhole == ReconcilingSpec => []LoggedIsWhole
<1>1. LogInv => LoggedIsWhole
  BY DEF LogInv
<1> QED
  BY <1>1, LogAlways, PTL

\* reconciliation.service.ts 87: an entry of a batch is never applied over one
\* of a newer batch that was logged when the older passed the guard.
THEOREM GuardHolds == ReconcilingSpec => NoRewindOnceLogged
<1>1. ASSUME LogInv, NEW d \in Ingesters, IngestOne(d),
             NEW pair \in reconciled, pair[1] > ingests[d].batch
      PROVE  pair[1] \notin ingests[d].after
  <2>1. Busy(d)
    BY <1>1 DEF IngestOne, Busy, Idle
  <2>2. /\ ingests[d].batch \in Nat
        /\ ingests[d].after \subseteq Nat
        /\ \A s \in ingests[d].after : ingests[d].batch > s
    BY <1>1, <2>1 DEF LogInv, Progress
  <2> QED
    BY <1>1, <2>2
<1>2. LogInv /\ [ReconcilingNext]_allVars =>
        [\A d \in Ingesters :
           IngestOne(d) =>
             \A pair \in reconciled :
               pair[2] = Head(ingests[d].todo).key /\ pair[1] > ingests[d].batch
                 => pair[1] \notin ingests[d].after]_allVars
  BY <1>1
<1> QED
  BY <1>2, LogAlways, PTL DEF ReconcilingSpec, NoRewindOnceLogged
-----------------------------------------------------------------------------
(* TimeOffSystem with batches: types *)

Entry == [key : Keys, balance : Int]

EntriesTyped ==
  /\ \A b \in DOMAIN corpora : corpora[b].entries \in Seq(Entry)
  /\ \A d \in Ingesters : ingests[d].todo \in Seq(Entry)

\* What TimeOffSystem keeps on its own.
CoreInv ==
  /\ Inv
  /\ IsFiniteSet(Submitted)
  /\ ReservedSums
  /\ NoDoubleBooking
  /\ OneRequestPerKey
  /\ CountedBeforeSent
  /\ AttemptsLeft

LEMMA EntriesStep ==
  ASSUME LogInv, TypeOK, EntriesTyped, [ReconcilingNext]_allVars
  PROVE  EntriesTyped'
<1>1. <<>> \in Seq(Entry) /\ Idle.todo = <<>>
  BY DEF Idle
<1>2. CASE \E order \in Listings, less \in Divergences : Emit(order, less)
  <2>1. PICK order \in Listings, less \in Divergences : Emit(order, less)
    BY <1>2
  <2>2. Corpus(order, less).entries \in Seq(Entry)
    <3>1. DOMAIN order = 1 .. Cardinality(Keys) /\ Cardinality(Keys) \in Nat
      BY KeysAssumption, FS_CardinalityType DEF Listings
    <3>2. ASSUME NEW n \in DOMAIN order
          PROVE  [key |-> order[n], balance |-> Floor0(hcm[order[n]] - less)] \in Entry
      <4>1. order[n] \in Keys
        BY DEF Listings
      <4>2. hcm[order[n]] \in Nat /\ less \in Nat
        BY <4>1, DivergencesAssumption DEF TypeOK
      <4>3. Floor0(hcm[order[n]] - less) \in Int
        BY <4>2 DEF Floor0
      <4> QED
        BY <4>1, <4>3 DEF Entry
    <3> QED
      BY <3>1, <3>2 DEF Corpus
  <2>3. \A b \in DOMAIN corpora' :
          corpora'[b] = Corpus(order, less) \/ (b \in DOMAIN corpora /\ corpora'[b] = corpora[b])
    <3>1. IsList(corpora)
      BY DEF LogInv
    <3> QED
      BY <2>1, <3>1, EmitWrites
  <2>4. UNCHANGED ingests
    BY <2>1 DEF Emit, ingestVars
  <2> QED
    BY <2>2, <2>3, <2>4 DEF EntriesTyped
<1>3. ASSUME NEW d \in Ingesters, NEW list \in Seq(Entry), ingests'[d].todo = list,
             \A e \in Ingesters \ {d} : ingests'[e] = ingests[e], UNCHANGED corpora
      PROVE  EntriesTyped'
  BY <1>3 DEF EntriesTyped
<1>4. CASE \E d \in Ingesters : IngestOne(d)
  <2>1. PICK d \in Ingesters : IngestOne(d)
    BY <1>4
  <2>2. ingests' = [ingests EXCEPT ![d].todo = Tail(ingests[d].todo)] /\ UNCHANGED corpora
    BY <2>1 DEF IngestOne
  <2>3. PICK b, t, a : ingests[d] = [batch |-> b, todo |-> t, after |-> a]
    BY DEF LogInv, Progress
  <2>4. Tail(t) \in Seq(Entry)
    BY <2>1, <2>3 DEF EntriesTyped, IngestOne
  <2>5. ingests'[d].todo = Tail(t)
    BY <2>2, <2>3 DEF LogInv
  <2> QED
    BY <1>3, <2>2, <2>4, <2>5 DEF LogInv
<1>5. CASE \E d \in Ingesters : \E b \in DOMAIN corpora : IngestBegin(d, b)
  <2>1. PICK d \in Ingesters, b \in DOMAIN corpora : IngestBegin(d, b)
    BY <1>5
  <2>2. ingests'[d].todo = corpora[b].entries /\ corpora[b].entries \in Seq(Entry)
    BY <2>1 DEF IngestBegin, LogInv, EntriesTyped
  <2> QED
    BY <1>3, <2>1, <2>2 DEF IngestBegin, LogInv
<1>6. CASE \E d \in Ingesters : IngestEnd(d) \/ IngestFails(d)
  <2>1. PICK d \in Ingesters : IngestEnd(d) \/ IngestFails(d)
    BY <1>6
  <2>2. ingests'[d].todo = <<>>
    BY <1>1, <2>1 DEF IngestEnd, IngestFails, LogInv
  <2> QED
    BY <1>1, <1>3, <2>1, <2>2 DEF IngestEnd, IngestFails, LogInv
<1>7. CASE \/ Elsewhere \/ Restart \/ UNCHANGED allVars
           \/ \E call \in wire : Serve(call)
           \/ \E k \in Keys : Acknowledge(k) \/ ResolveReview(k)
  BY <1>1, <1>7
  DEF Elsewhere, Restart, Serve, Acknowledge, ResolveReview, allVars, ingestVars, EntriesTyped
<1> QED
  BY <1>2, <1>4, <1>5, <1>6, <1>7 DEF ReconcilingNext, IngestStep
-----------------------------------------------------------------------------
(* Every step but the write of an entry is one of TimeOffSystem *)

LEMMA CoreStep ==
  ASSUME CoreInv, [ReconcilingNext]_allVars
  PROVE  [Next]_vars \/ \E d \in Ingesters : IngestOne(d)
<1>1. CASE Elsewhere
  BY <1>1 DEF Elsewhere, Unacknowledged, Next, DispatchEnd
<1>2. CASE Restart
  BY <1>2 DEF Restart, Next
<1>3. CASE \E call \in wire : Serve(call)
  <2>1. PICK call \in wire : Serve(call)
    BY <1>3
  <2>2. PICK i \in DOMAIN outbox : CallOf(outbox[i]) = call
    BY <2>1 DEF CoreInv, CountedBeforeSent, Inv, TypeOK
  <2>3. call[1] \in Submitted
    BY <2>2 DEF CallOf, CoreInv, Inv, ReferencesResolve
  <2> QED
    BY <2>1, <2>3 DEF Serve, Next
<1>4. CASE \E k \in Keys : Acknowledge(k)
  BY <1>4 DEF Acknowledge, Next, DispatchEnd
<1>5. CASE \/ \E order \in Listings, less \in Divergences : Emit(order, less)
           \/ \E k \in Keys : ResolveReview(k)
           \/ \E d \in Ingesters : IngestEnd(d) \/ IngestFails(d)
           \/ \E d \in Ingesters : \E b \in DOMAIN corpora : IngestBegin(d, b)
           \/ UNCHANGED allVars
  BY <1>5 DEF Emit, ResolveReview, IngestEnd, IngestFails, IngestBegin, allVars
<1> QED
  BY <1>1, <1>2, <1>3, <1>4, <1>5 DEF ReconcilingNext, IngestStep
-----------------------------------------------------------------------------
(* Sums of days *)

\* The days column of requests rs of table f, each day tagged with its request.
SlotsIn(f, rs) == UNION {{r} \X BusinessDays(f[r].start, f[r].end) : r \in rs}
DaysIn(f, rs) == Cardinality(SlotsIn(f, rs))

Dated(f, rs) == IsFiniteSet(rs) /\ \A r \in rs : f[r].start \in Nat /\ f[r].end \in Nat

LEMMA DaysInNat ==
  ASSUME NEW f, NEW rs, Dated(f, rs)
  PROVE  IsFiniteSet(SlotsIn(f, rs)) /\ DaysIn(f, rs) \in Nat
<1> DEFINE S(r) == {r} \X BusinessDays(f[r].start, f[r].end)
           slots == {S(r) : r \in rs}
           g == [r \in rs |-> S(r)]
<1>1. \A r \in rs : IsFiniteSet(S(r))
  BY SlotsCount DEF Dated
<1>2. IsFiniteSet(slots)
  <2>1. IsFiniteSet(rs)
    BY DEF Dated
  <2>2. g \in Surjection(rs, slots)
    BY DEF Surjection
  <2> QED
    BY <2>1, <2>2, FS_Surjection
<1>3. IsFiniteSet(UNION slots)
  BY <1>1, <1>2, FS_UNION
<1>4. SlotsIn(f, rs) = UNION slots
  BY DEF SlotsIn
<1> QED
  BY <1>3, <1>4, FS_CardinalityType DEF DaysIn

LEMMA DaysInUnion ==
  ASSUME NEW f, NEW rs, NEW ts, Dated(f, rs), Dated(f, ts), rs \cap ts = {}
  PROVE  Dated(f, rs \cup ts) /\ DaysIn(f, rs \cup ts) = DaysIn(f, rs) + DaysIn(f, ts)
<1>1. IsFiniteSet(rs \cup ts)
  BY FS_Union DEF Dated
<1>2. SlotsIn(f, rs \cup ts) = SlotsIn(f, rs) \cup SlotsIn(f, ts)
  BY DEF SlotsIn
<1>3. SlotsIn(f, rs) \cap SlotsIn(f, ts) = {}
  BY DEF SlotsIn
<1>4. Cardinality(SlotsIn(f, rs) \cup SlotsIn(f, ts))
        = Cardinality(SlotsIn(f, rs)) + Cardinality(SlotsIn(f, ts))
  BY <1>3, DaysInNat, DisjointSum
<1> QED
  BY <1>1, <1>2, <1>4 DEF Dated, DaysIn

LEMMA DaysInOne ==
  ASSUME NEW f, NEW r, f[r].start \in Nat, f[r].end \in Nat
  PROVE  Dated(f, {r}) /\ DaysIn(f, {r}) = CountBusinessDays(f[r].start, f[r].end)
<1>1. SlotsIn(f, {r}) = {r} \X BusinessDays(f[r].start, f[r].end)
  BY DEF SlotsIn
<1>2. IsFiniteSet({r})
  BY FS_Singleton
<1>3. Dated(f, {r})
  BY <1>2 DEF Dated
<1>4. \A s, e \in Nat : Cardinality({r} \X BusinessDays(s, e)) = CountBusinessDays(s, e)
  BY SlotsCount
<1> QED
  BY <1>1, <1>3, <1>4 DEF DaysIn

LEMMA DaysInNone ==
  ASSUME NEW f
  PROVE  DaysIn(f, {}) = 0
<1>1. SlotsIn(f, {}) = {}
  BY DEF SlotsIn
<1> QED
  BY <1>1, FS_EmptySet DEF DaysIn

LEMMA SumIsDaysIn == ASSUME NEW rs PROVE SumDays(rs) = DaysIn(requests, rs)
BY DEF SumDays, DaysIn, SlotsIn
-----------------------------------------------------------------------------
(* The write of an entry: reconcileBalance replaces one row under its lock *)

\* SUM(days) over stored requests is a number.
LEMMA SumDaysNat ==
  ASSUME TypeOK, IsFiniteSet(Submitted), NEW rs \in SUBSET Submitted
  PROVE  SumDays(rs) \in Nat
<1>1. IsFiniteSet(rs)
  BY FS_Subset
<1>2. \A r \in rs : requests[r].start \in Nat /\ requests[r].end \in Nat
  BY RequestTypes DEF RequestRow
<1> QED
  BY <1>1, <1>2, DaysInNat, SumIsDaysIn DEF Dated

\* What reconcileBalance sums up as reserved is what submit reserved.
LEMMA ReservationsHeld ==
  ASSUME NEW k
  PROVE  SumDays(Reservations(k)) = Cardinality(HeldDays(k))
<1>1. Reservations(k) = {q \in Submitted : requests[q].key = k /\ requests[q].status = "PENDING"}
  BY DEF Reservations, Requested
<1> QED
  BY <1>1 DEF SumDays, HeldDays

LEMMA EntryWrite ==
  ASSUME CoreInv, EntriesTyped, NEW d \in Ingesters, IngestOne(d)
  PROVE  \E k \in Keys, a \in Int :
           /\ lock[k] = Free
           /\ balances' = [balances EXCEPT
                             ![k] = [available |-> a, reserved |-> Cardinality(HeldDays(k)),
                                     warm |-> TRUE]]
<1> DEFINE entry == Head(ingests[d].todo)
           k == entry.key
           asOf == corpora[ingests[d].batch].asOf
<1>1. entry \in Entry
  BY DEF EntriesTyped, IngestOne
<1>2. k \in Keys /\ entry.balance \in Int
  BY <1>1 DEF Entry
<1>3. lock[k] = Free /\ ReconcileBalance(k, entry.balance, asOf)
  BY DEF IngestOne, IsFree
<1>4. SumDays(Unacked(k, asOf)) \in Nat /\ SumDays(PendingReversals(k)) \in Nat
  <2>1. Unacked(k, asOf) \in SUBSET Submitted /\ PendingReversals(k) \in SUBSET Submitted
    BY DEF Unacked, PendingReversals, Requested
  <2> QED
    BY <2>1, SumDaysNat DEF CoreInv, Inv
<1> HIDE DEF entry, k, asOf
<1>5. Replayed(k, entry.balance, asOf) \in Int
  BY <1>2, <1>4 DEF Replayed
<1>6. balances' = [balances EXCEPT
                     ![k] = [available |-> Replayed(k, entry.balance, asOf),
                             reserved |-> Cardinality(HeldDays(k)), warm |-> TRUE]]
  BY <1>3, ReservationsHeld DEF ReconcileBalance
<1> QED
  BY <1>2, <1>3, <1>5, <1>6

LEMMA EntryKeeps ==
  ASSUME CoreInv, EntriesTyped, NEW d \in Ingesters, IngestOne(d)
  PROVE  CoreInv'
<1>1. UNCHANGED <<requests, outbox, lock, today, crashes, hcm, idempotencyStore, wire, refreshes>>
  BY DEF IngestOne, hcmVars
<1>2. PICK k \in Keys, a \in Int :
        /\ lock[k] = Free
        /\ balances' = [balances EXCEPT
                          ![k] = [available |-> a, reserved |-> Cardinality(HeldDays(k)),
                                  warm |-> TRUE]]
  BY EntryWrite
<1>3. \A j \in Keys : balances'[j].reserved = Cardinality(HeldDays(j))
  BY <1>2 DEF CoreInv, ReservedSums, Inv, TypeOK
<1>4. Cardinality(HeldDays(k)) \in Nat
  BY FS_CardinalityType DEF CoreInv, ReservedSums
<1>5. balances' \in [Keys -> BalanceRow]
  BY <1>2, <1>4 DEF BalanceRow, CoreInv, Inv, TypeOK
<1>6. TypeOK'
  BY <1>1, <1>5 DEF CoreInv, Inv, TypeOK, Submitted
<1>7. ReferencesResolve'
  BY <1>1 DEF CoreInv, Inv, ReferencesResolve, Submitted
<1>8. Inv'
  <2>1. Quiet
    BY <1>1 DEF Quiet
  <2>2. KeysFrame(k)
    BY <1>1, <1>2 DEF KeysFrame, CoreInv, Inv, TypeOK
  <2>3. StillRight(k)'
    BY <1>1, <1>2, FreeStillRight
  <2> QED
    BY <1>6, <1>7, <2>1, <2>2, <2>3, QuietKeeps DEF CoreInv
<1>9. ReservedSums'
  <2>1. \A j \in Keys : HeldDays(j)' = HeldDays(j)
    BY <1>1 DEF HeldDays, Submitted
  <2> QED
    BY <1>3, <2>1 DEF CoreInv, ReservedSums
<1>10. IsFiniteSet(Submitted)' /\ NoDoubleBooking' /\ OneRequestPerKey'
  BY <1>1 DEF CoreInv, Submitted, NoDoubleBooking, OneRequestPerKey, Active, Dates
<1>11. CountedBeforeSent' /\ AttemptsLeft'
  BY <1>1 DEF CoreInv, CountedBeforeSent, CallOf, AttemptsLeft, Cap, Clashes, InFlight
<1> QED
  BY <1>8, <1>9, <1>10, <1>11 DEF CoreInv

\* The requests there are stay finitely many.
LEMMA FinitelyMany ==
  ASSUME Inv, IsFiniteSet(Submitted), [Next]_vars
  PROVE  IsFiniteSet(Submitted)'
<1>1. CASE Rests
  BY <1>1 DEF Rests, Submitted
<1>2. CASE \E r \in Submitted, s \in Statuses : Moves(r, s)
  BY <1>2, MoveWrites DEF Moves
<1>3. CASE \E k \in Keys, range \in Ranges, i \in IdemKeys, r \in Requests :
             Submit(r, k, range, i)
  BY <1>3, SubmitWrites, FS_AddElement
<1> QED
  BY <1>1, <1>2, <1>3, StepMoves

LEMMA CoreKeeps ==
  ASSUME CoreInv, EntriesTyped, [ReconcilingNext]_allVars
  PROVE  CoreInv'
<1>1. CASE [Next]_vars
  BY <1>1, InvStep, FinitelyMany, HeldStep, DaysBookedOnce, KeysCarriedOnce,
     CountedStep, AttemptsStep DEF CoreInv
<1> QED
  BY <1>1, CoreStep, EntryKeeps

LEMMA CoreInit == ReconcilingInit => CoreInv /\ EntriesTyped
<1> SUFFICES ASSUME ReconcilingInit PROVE CoreInv /\ EntriesTyped
  OBVIOUS
<1>1. Init
  BY DEF ReconcilingInit
<1>2. Inv /\ ReservedSums
  BY <1>1, InvInit, HeldInit
<1>3. IsFiniteSet(Submitted)
  BY <1>1, FS_EmptySet DEF Init, Submitted
<1>4. NoDoubleBooking /\ OneRequestPerKey /\ CountedBeforeSent /\ AttemptsLeft
  BY <1>1 DEF Init, NoDoubleBooking, OneRequestPerKey, CountedBeforeSent, AttemptsLeft,
              Submitted, Free
<1>5. EntriesTyped
  <2>1. <<>> \in Seq(Entry) /\ Idle.todo = <<>>
    BY DEF Idle
  <2>2. DOMAIN corpora = {} /\ \A d \in Ingesters : ingests[d] = Idle
    BY DEF ReconcilingInit
  <2> QED
    BY <2>1, <2>2 DEF EntriesTyped
<1> QED
  BY <1>2, <1>3, <1>4, <1>5 DEF CoreInv

LEMMA CoreAlways == ReconcilingSpec => [](CoreInv /\ EntriesTyped)
<1>1. CoreInv => TypeOK
  BY DEF CoreInv, Inv
<1>2. LogInv /\ CoreInv /\ EntriesTyped /\ [ReconcilingNext]_allVars => (CoreInv /\ EntriesTyped)'
  BY <1>1, EntriesStep, CoreKeeps
<1> QED
  BY <1>2, CoreInit, LogAlways, PTL DEF ReconcilingSpec

\* balance.service.ts 388-411: whatever batches replace, the reserved column
\* stays the business days of the PENDING requests, each day once.
THEOREM BatchesKeepReserved == ReconcilingSpec => []ReservedMatchesHeld
<1>1. CoreInv => ReservedMatchesHeld
  BY HeldMeaning DEF CoreInv
<1> QED
  BY <1>1, CoreAlways, PTL

\* balance.service.ts 370-376: a batch writes no row that a lock holder relies
\* on, so what approvals, dispatches and hydrations read before they waited for
\* HCM is still so when they go on.
THEOREM BatchesKeepHolders == ReconcilingSpec => []HolderStillRight
<1>1. CoreInv => HolderStillRight
  BY InvMeaning DEF CoreInv
<1> QED
  BY <1>1, CoreAlways, PTL

\* reconciliation.service.ts 58-133: what TimeOffSystem promises of requests,
\* outbox rows and what HCM is told holds with batches in between too.
THEOREM BatchesKeepRequests ==
  ReconcilingSpec => [](/\ OutboxMatchesStatus /\ OneRowPerOperation
                        /\ NoDoubleBooking /\ OneRequestPerKey
                        /\ CountedBeforeSent /\ AttemptsBounded)
<1>1. CoreInv => /\ OutboxMatchesStatus /\ OneRowPerOperation
                 /\ NoDoubleBooking /\ OneRequestPerKey
                 /\ CountedBeforeSent /\ AttemptsBounded
  BY InvMeaning DEF CoreInv, AttemptsLeft, AttemptsBounded, Cap
<1> QED
  BY <1>1, CoreAlways, PTL

\* reconciliation.service.ts 58-133: no batch revives a decided request or
\* writes a row that was sent, voided or given up.
THEOREM BatchesReviveNothing == ReconcilingSpec => DecidedIsFinal
<1>1. ASSUME CoreInv, [ReconcilingNext]_allVars
      PROVE  \/ UNCHANGED vars
             \/ /\ \A r \in Submitted :
                     ~Active(r) => requests'[r] = [requests[r] EXCEPT !.idem = requests'[r].idem]
                /\ \A i \in DOMAIN outbox : outbox[i].status # "PENDING" => outbox'[i] = outbox[i]
  <2>1. CASE [Next]_vars
    BY <1>1, <2>1, TerminalStays, ClosedStays DEF CoreInv
  <2>2. CASE \E d \in Ingesters : IngestOne(d)
    <3>1. ASSUME NEW r \in Submitted
          PROVE  requests[r] = [requests[r] EXCEPT !.idem = requests[r].idem]
      <4>1. requests[r] \in RequestRow
        BY <1>1, RequestTypes DEF CoreInv, Inv
      <4> QED
        BY <4>1 DEF RequestRow
    <3>2. UNCHANGED <<requests, outbox>>
      BY <2>2 DEF IngestOne
    <3> QED
      BY <3>1, <3>2
  <2> QED
    BY <1>1, <2>1, <2>2, CoreStep
<1>2. CoreInv /\ [ReconcilingNext]_allVars =>
        [ /\ \A r \in Submitted :
               ~Active(r) => requests'[r] = [requests[r] EXCEPT !.idem = requests'[r].idem]
          /\ \A i \in DOMAIN outbox :
               outbox[i].status # "PENDING" => outbox'[i] = outbox[i] ]_vars
  BY <1>1
<1> QED
  BY <1>2, CoreAlways, PTL DEF ReconcilingSpec, DecidedIsFinal

\* reconciliation.service.ts 58-133: with batches the service keeps the
\* lifecycle's promise too, and an entry of a batch is no move of a request.
THEOREM BatchesFollowLifecycle == ReconcilingSpec => FollowsLifecycle
<1>1. ReconcilingInit => Lifecycle!Init
  BY DEF ReconcilingInit, Init, Lifecycle!Init, Submitted, RowsOf, Calls, Operations
<1>2. ASSUME CoreInv, [ReconcilingNext]_allVars
      PROVE  [Lifecycle!Next]_(Lifecycle!vars)
  <2>1. CASE [Next]_vars
    BY <1>2, <2>1, StepFollows DEF CoreInv
  <2>2. CASE \E d \in Ingesters : IngestOne(d)
    <3>1. UNCHANGED <<requests, outbox, idempotencyStore>>
      BY <2>2 DEF IngestOne, hcmVars
    <3> QED
      BY <3>1, StaysPut DEF NoNewFile, HcmKept
  <2> QED
    BY <1>2, <2>1, <2>2, CoreStep
<1> QED
  BY <1>1, <1>2, CoreAlways, PTL DEF ReconcilingSpec, FollowsLifecycle, Lifecycle!Spec
-----------------------------------------------------------------------------
(* What the stamps of HCM's answers say *)

AckTypes ==
  /\ hcmAckAt \in [Requests -> Nat \cup {Never}]
  /\ answeredOn \in [Calls -> Nat \cup {Never}]

\* The stamp of a request by its status.  (A cancelled or rejected one has the
\* stamp of its REVERSE, of its FILE or none.)
Stamped(r) ==
  /\ requests[r].status \in {"PENDING", "PENDING_SYNC"} => hcmAckAt[r] = Never
  /\ requests[r].status = "APPROVED" => hcmAckAt[r] = answeredOn[<<r, "FILE">>]

AcksAgree ==
  /\ \A r \in Submitted : Stamped(r)
  /\ \A r \in Requests \ Submitted : hcmAckAt[r] = Never

AnswersDated ==
  \A c \in Calls :
    idempotencyStore[c] # "unseen" => answeredOn[c] \in Nat /\ answeredOn[c] <= today

\* A FILE that was given up took its request with it.
GivenUpRejected ==
  \A i \in DOMAIN outbox :
    outbox[i].op = "FILE" /\ outbox[i].status = "FAILED"
      => requests[outbox[i].req].status = "REJECTED"

SnapshotsTake ==
  \A b \in DOMAIN corpora :
    /\ corpora[b].asOf \in Nat
    /\ \A c \in corpora[b].taken : /\ c \in Calls
                                   /\ idempotencyStore[c] = "ok"
                                   /\ answeredOn[c] <= corpora[b].asOf

BatchesKnown == \A d \in Ingesters : Busy(d) => ingests[d].batch \in DOMAIN corpora

AckInv ==
  /\ AckTypes
  /\ AcksAgree
  /\ AnswersDated
  /\ GivenUpRejected
  /\ SnapshotsTake
  /\ BatchesKnown

\* A FILE that was sent, and so that of an approved request, was taken by HCM.
LEMMA SentIsTaken ==
  ASSUME CoreInv, NEW r \in Submitted, NEW op \in Operations, HasRow(r, op, {"SENT"})
  PROVE  <<r, op>> \in Calls /\ idempotencyStore[<<r, op>>] = "ok"
<1>1. PICK i \in DOMAIN outbox : outbox[i].status = "SENT" /\ CallOf(outbox[i]) = <<r, op>>
  BY DEF HasRow, RowsOf, CallOf
<1>2. r \in Requests
  BY DEF CoreInv, Inv, TypeOK
<1> QED
  BY <1>1, <1>2 DEF CoreInv, CountedBeforeSent, Calls

LEMMA ApprovedIsTaken ==
  ASSUME CoreInv, NEW r \in Submitted, requests[r].status = "APPROVED"
  PROVE  <<r, "FILE">> \in Calls /\ idempotencyStore[<<r, "FILE">>] = "ok"
<1>1. HasRow(r, "FILE", {"SENT"})
  BY DEF CoreInv, Inv, Agrees
<1> QED
  BY <1>1, SentIsTaken DEF Operations

\* HCM answers a key once and for all.
LEMMA AnswersStay ==
  ASSUME CoreInv, AckTypes, [ReconcilingNext]_allVars, NEW c \in Calls,
         idempotencyStore[c] # "unseen"
  PROVE  idempotencyStore'[c] = idempotencyStore[c] /\ answeredOn'[c] = answeredOn[c]
<1>1. idempotencyStore'[c] = idempotencyStore[c]
  <2>1. CASE [Next]_vars
    BY <2>1, HcmStep DEF CoreInv, Inv
  <2>2. CASE \E d \in Ingesters : IngestOne(d)
    BY <2>2 DEF IngestOne, hcmVars
  <2> QED
    BY <2>1, <2>2, CoreStep
<1>2. answeredOn'[c] = answeredOn[c]
  <2>1. CASE \E call \in wire : Serve(call)
    BY <2>1 DEF Serve, AckTypes
  <2>2. CASE ~(\E call \in wire : Serve(call))
    BY <2>2
    DEF ReconcilingNext, Elsewhere, Restart, Emit, Acknowledge, ResolveReview, IngestStep,
        IngestOne, IngestEnd, IngestFails, IngestBegin, ackVars, allVars
  <2> QED
    BY <2>1, <2>2
<1> QED
  BY <1>1, <1>2

LEMMA TimePasses ==
  ASSUME [ReconcilingNext]_allVars, today \in Nat
  PROVE  today' \in Nat /\ today <= today'
<1>1. CASE Tick
  BY <1>1 DEF Tick
<1>2. UNCHANGED today => today' \in Nat /\ today <= today'
  OBVIOUS
<1>3. CASE Client \/ \E r \in Submitted : Handler(r)
  <2>1. Client => UNCHANGED today
    BY DEF Client, Submit, SubmitHangs
  <2>2. ASSUME NEW r \in Submitted, Handler(r)
        PROVE  UNCHANGED today
    BY <2>2 DEF Handler, ApprovePast, ApproveRefresh, Reject, Cancel, SweepOne, Expire
  <2> QED
    BY <1>2, <1>3, <2>1, <2>2
<1>4. CASE \/ \E k \in Keys : HydrateRead(k) \/ Resume(k) \/ Unacknowledged(k) \/ Refresh(k)
           \/ \E i \in DOMAIN outbox : DispatchBegin(i)
  <2>1. UNCHANGED today
    BY <1>4 DEF HydrateRead, Resume, HydrateApply, HydrateDegraded, ApproveSnapshot,
                ApproveReject, ApproveCommit, Unacknowledged, DispatchAckClash,
                DispatchRetryLater, DispatchFileCap, DispatchReverseCap, Refresh,
                DispatchBegin, serviceVars
  <2> QED
    BY <1>2, <2>1
<1>5. CASE \/ Restart
           \/ \E k \in Keys : Acknowledge(k) \/ ResolveReview(k)
           \/ \E call \in wire : Serve(call)
           \/ \E order \in Listings, less \in Divergences : Emit(order, less)
           \/ \E d \in Ingesters : IngestStep(d) \/ IngestFails(d)
           \/ \E d \in Ingesters : \E b \in DOMAIN corpora : IngestBegin(d, b)
           \/ UNCHANGED allVars
  <2>1. UNCHANGED today
    BY <1>5 DEF Restart, Crash, Acknowledge, DispatchAcked, Serve, ServeFile, ServeReverse,
                Emit, ResolveReview, IngestStep, IngestOne, IngestEnd, IngestFails, IngestBegin,
                allVars, vars, serviceVars
  <2> QED
    BY <1>2, <2>1
<1> QED
  BY <1>1, <1>3, <1>4, <1>5 DEF ReconcilingNext, Elsewhere

\* How requests move when no FILE is acknowledged.
LEMMA Turns ==
  ASSUME Inv, Elsewhere \/ Restart
  PROVE  \/ UNCHANGED requests
         \/ \E r \in Submitted, s \in TerminalStatuses : SetStatus(r, s)
         \/ \E r \in Submitted : requests[r].status = "PENDING" /\ SetStatus(r, "PENDING_SYNC")
         \/ \E k \in Keys, range \in Ranges, i \in IdemKeys, r \in Requests :
              Submit(r, k, range, i)
<1>1. CASE \E r \in Submitted : ApprovePast(r) \/ Reject(r) \/ Cancel(r) \/ SweepOne(r)
  BY <1>1 DEF ApprovePast, Reject, Cancel, SweepOne, Expire, TerminalStatuses
<1>2. CASE \E k \in Keys : ApproveReject(k) \/ ApproveCommit(k)
  <2>1. PICK k \in Keys : ApproveReject(k) \/ ApproveCommit(k)
    BY <1>2
  <2>2. lock[k].req \in Submitted /\ requests[lock[k].req].status = "PENDING"
    BY <2>1 DEF ApproveReject, ApproveCommit, Inv, StillRight
  <2> QED
    BY <2>1, <2>2 DEF ApproveReject, ApproveCommit, TerminalStatuses
<1>3. CASE \E k \in Keys : DispatchFileCap(k)
  <2>1. PICK k \in Keys : DispatchFileCap(k)
    BY <1>3
  <2>2. outbox[lock[k].row].req \in Submitted
    BY <2>1 DEF DispatchFileCap, Inv, ReferencesResolve
  <2> QED
    BY <2>1, <2>2 DEF DispatchFileCap, TerminalStatuses
<1>4. CASE \/ \E k \in Keys : HydrateRead(k) \/ HydrateApply(k) \/ HydrateDegraded(k)
                                \/ ApproveSnapshot(k) \/ DispatchAckClash(k)
                                \/ DispatchRetryLater(k) \/ DispatchReverseCap(k) \/ Refresh(k)
           \/ \E i \in DOMAIN outbox : DispatchBegin(i)
           \/ \E r \in Submitted : ApproveRefresh(r)
  BY <1>4
  DEF HydrateRead, HydrateApply, HydrateDegraded, ApproveSnapshot, DispatchAckClash,
      DispatchRetryLater, DispatchReverseCap, Refresh, DispatchBegin, ApproveRefresh, serviceVars
<1>5. CASE Tick \/ Restart \/ Client
  BY <1>5 DEF Tick, Restart, Crash, Client, SubmitHangs
<1> QED
  BY <1>1, <1>2, <1>3, <1>4, <1>5 DEF Elsewhere, Handler, Resume, Unacknowledged

LEMMA TurnsAgree ==
  ASSUME CoreInv, AckInv, Elsewhere \/ Restart
  PROVE  AcksAgree'
<1>1. UNCHANGED <<hcmAckAt, answeredOn>>
  BY DEF Elsewhere, Restart, ackVars
<1>2. Inv /\ AcksAgree
  BY DEF CoreInv, AckInv
<1>3. CASE UNCHANGED requests
  BY <1>1, <1>2, <1>3 DEF AcksAgree, Stamped, Submitted
<1>4. ASSUME NEW r \in Submitted, NEW s, SetStatus(r, s), s # "APPROVED",
             s = "PENDING_SYNC" => requests[r].status = "PENDING", s # "PENDING"
      PROVE  AcksAgree'
  <2>1. /\ Submitted' = Submitted
        /\ requests'[r].status = s
        /\ \A q \in Submitted \ {r} : requests'[q].status = requests[q].status
    BY <1>2, <1>4, StatusWrite DEF RequestsFrame, Inv
  <2> QED
    BY <1>1, <1>2, <1>4, <2>1 DEF AcksAgree, Stamped
<1>5. CASE \E k \in Keys, range \in Ranges, i \in IdemKeys, r \in Requests :
             Submit(r, k, range, i)
  <2>1. PICK k \in Keys, range \in Ranges, i \in IdemKeys, r \in Requests :
          Submit(r, k, range, i)
    BY <1>5
  <2>2. /\ r \notin Submitted
        /\ Submitted' = Submitted \cup {r}
        /\ requests'[r] = NewRequest(k, range, i)
        /\ \A q \in Submitted : requests'[q].status = requests[q].status
    BY <1>2, <2>1, SubmitWrites
  <2>3. requests'[r].status = "PENDING"
    BY <2>2 DEF NewRequest
  <2> QED
    BY <1>1, <1>2, <2>2, <2>3 DEF AcksAgree, Stamped
<1>6. CASE \E r \in Submitted, s \in TerminalStatuses : SetStatus(r, s)
  BY <1>4, <1>6 DEF TerminalStatuses
<1> QED
  BY <1>2, <1>3, <1>4, <1>5, <1>6, Turns

LEMMA AcknowledgedAgree ==
  ASSUME CoreInv, AckInv, NEW k \in Keys, Acknowledge(k)
  PROVE  AcksAgree'
<1> DEFINE row == outbox[lock[k].row]
           r == row.req
<1>1. /\ lock[k].by = "dispatch"
      /\ lock[k].row \in DOMAIN outbox
      /\ row.op = "FILE" => SetStatus(r, "APPROVED")
      /\ row.op # "FILE" => UNCHANGED requests
      /\ hcmAckAt' = [hcmAckAt EXCEPT ![r] = answeredOn[CallOf(row)]]
      /\ UNCHANGED answeredOn
  BY DEF Acknowledge, DispatchAcked, CoreInv, Inv, ReferencesResolve
<1>2. Inv /\ AcksAgree /\ AckTypes
  BY DEF CoreInv, AckInv
<1>3. r \in Submitted /\ r \in Requests /\ row.op \in Operations
  BY <1>1, <1>2, RowTypes DEF Inv, ReferencesResolve, OutboxRow
<1>4. CASE row.op = "FILE"
  <2>1. /\ Submitted' = Submitted
        /\ requests'[r].status = "APPROVED"
        /\ \A q \in Submitted \ {r} : requests'[q].status = requests[q].status
    BY <1>1, <1>2, <1>3, <1>4, StatusWrite DEF RequestsFrame, Inv
  <2>2. hcmAckAt'[r] = answeredOn[<<r, "FILE">>] /\ \A q \in Requests \ {r} : hcmAckAt'[q] = hcmAckAt[q]
    BY <1>1, <1>2, <1>3, <1>4 DEF AckTypes, CallOf
  <2>3. \A q \in Submitted : q \in Requests
    BY <1>2 DEF Inv, TypeOK
  <2>4. UNCHANGED answeredOn /\ r \in Submitted
    BY <1>1, <1>3
  <2> HIDE DEF row, r
  <2> QED
    BY <1>2, <2>1, <2>2, <2>3, <2>4 DEF AcksAgree, Stamped
<1>5. CASE row.op = "REVERSE"
  <2>1. requests[r].status \in {"CANCELLED", "REJECTED"}
    BY <1>1, <1>2, <1>3, <1>5 DEF Inv, Agrees, RowsOf
  <2>2. \A q \in Requests \ {r} : hcmAckAt'[q] = hcmAckAt[q]
    BY <1>1, <1>2, <1>3 DEF AckTypes
  <2> QED
    BY <1>1, <1>2, <1>3, <1>5, <2>1, <2>2 DEF AcksAgree, Stamped, Submitted, Inv, TypeOK
<1> QED
  BY <1>3, <1>4, <1>5 DEF Operations

LEMMA AcksStep ==
  ASSUME CoreInv, AckInv, [ReconcilingNext]_allVars
  PROVE  AcksAgree'
<1>1. CASE Elsewhere \/ Restart
  BY <1>1, TurnsAgree
<1>2. CASE \E k \in Keys : Acknowledge(k)
  BY <1>2, AcknowledgedAgree
<1>3. ASSUME UNCHANGED <<requests, hcmAckAt>>
      PROVE  AcksAgree'
  <2>1. ASSUME NEW r \in Submitted, requests[r].status = "APPROVED"
        PROVE  answeredOn'[<<r, "FILE">>] = answeredOn[<<r, "FILE">>]
    BY <2>1, ApprovedIsTaken, AnswersStay DEF AckInv
  <2> QED
    BY <1>3, <2>1 DEF AckInv, AcksAgree, Stamped, Submitted
<1>4. CASE \/ \E call \in wire : Serve(call)
           \/ \E order \in Listings, less \in Divergences : Emit(order, less)
           \/ \E k \in Keys : ResolveReview(k)
           \/ \E d \in Ingesters : IngestStep(d) \/ IngestFails(d)
           \/ \E d \in Ingesters : \E b \in DOMAIN corpora : IngestBegin(d, b)
           \/ UNCHANGED allVars
  <2>1. UNCHANGED <<requests, hcmAckAt>>
    BY <1>4 DEF Serve, ServeFile, ServeReverse, Emit, ResolveReview, IngestStep, IngestOne,
                IngestEnd, IngestFails, IngestBegin, allVars, ackVars, vars, serviceVars
  <2> QED
    BY <1>3, <2>1
<1> QED
  BY <1>1, <1>2, <1>4 DEF ReconcilingNext

LEMMA AckTypesStep ==
  ASSUME CoreInv, AckTypes, [ReconcilingNext]_allVars
  PROVE  AckTypes'
<1>1. CASE \E call \in wire : Serve(call)
  BY <1>1 DEF Serve, AckTypes, CoreInv, Inv, TypeOK
<1>2. CASE \E k \in Keys : Acknowledge(k)
  <2>1. PICK k \in Keys : Acknowledge(k)
    BY <1>2
  <2>2. CallOf(outbox[lock[k].row]) \in Calls
    BY <2>1, RowTypes DEF Acknowledge, DispatchAcked, CoreInv, Inv, ReferencesResolve
  <2>3. answeredOn[CallOf(outbox[lock[k].row])] \in Nat \cup {Never}
    BY <2>2 DEF AckTypes
  <2> QED
    BY <2>1, <2>3 DEF Acknowledge, AckTypes
<1>3. CASE \/ Elsewhere \/ Restart
           \/ \E order \in Listings, less \in Divergences : Emit(order, less)
           \/ \E k \in Keys : ResolveReview(k)
           \/ \E d \in Ingesters : IngestStep(d) \/ IngestFails(d)
           \/ \E d \in Ingesters : \E b \in DOMAIN corpora : IngestBegin(d, b)
           \/ UNCHANGED allVars
  <2>1. UNCHANGED ackVars
    BY <1>3 DEF Elsewhere, Restart, Emit, ResolveReview, IngestStep, IngestOne, IngestEnd,
                IngestFails, IngestBegin, allVars
  <2> QED
    BY <2>1 DEF ackVars, AckTypes
<1> QED
  BY <1>1, <1>2, <1>3 DEF ReconcilingNext

\* HCM's books change by serving, and its balances of their own on a refresh.
LEMMA OnlyHcmMoves ==
  ASSUME [ReconcilingNext]_allVars, ~\E call \in wire : Serve(call)
  PROVE  /\ UNCHANGED idempotencyStore
         /\ UNCHANGED <<hcm, refreshes>> \/ (refreshes' = refreshes + 1 /\ UNCHANGED corpora)
<1>1. ASSUME Tick \/ Client PROVE UNCHANGED hcmVars
  BY <1>1 DEF Tick, Client, Submit, SubmitHangs
<1>2. ASSUME NEW r \in Submitted, Handler(r)
      PROVE  UNCHANGED hcmVars
  BY <1>2 DEF Handler, ApprovePast, ApproveRefresh, Reject, Cancel, SweepOne, Expire
<1>3. CASE \E k \in Keys : Refresh(k) /\ Elsewhere
  BY <1>3 DEF Refresh, Elsewhere
<1>4. CASE \/ \E k \in Keys : HydrateRead(k) \/ Resume(k) \/ Unacknowledged(k)
           \/ \E i \in DOMAIN outbox : DispatchBegin(i)
  BY <1>4
  DEF HydrateRead, Resume, HydrateApply, HydrateDegraded, ApproveSnapshot, ApproveReject,
      ApproveCommit, Unacknowledged, DispatchAckClash, DispatchRetryLater, DispatchFileCap,
      DispatchReverseCap, DispatchBegin, hcmVars
<1>5. CASE \/ Restart
           \/ \E k \in Keys : Acknowledge(k) \/ ResolveReview(k)
           \/ \E order \in Listings, less \in Divergences : Emit(order, less)
           \/ \E d \in Ingesters : IngestStep(d) \/ IngestFails(d)
           \/ \E d \in Ingesters : \E b \in DOMAIN corpora : IngestBegin(d, b)
           \/ UNCHANGED allVars
  BY <1>5 DEF Restart, Crash, Acknowledge, DispatchAcked, Emit, ResolveReview, IngestStep,
              IngestOne, IngestEnd, IngestFails, IngestBegin, allVars, vars, hcmVars
<1> QED
  BY <1>1, <1>2, <1>3, <1>4, <1>5 DEF ReconcilingNext, Elsewhere, hcmVars

LEMMA DatedStep ==
  ASSUME CoreInv, AckInv, [ReconcilingNext]_allVars
  PROVE  AnswersDated'
<1> SUFFICES ASSUME NEW c \in Calls, idempotencyStore'[c] # "unseen"
             PROVE  answeredOn'[c] \in Nat /\ answeredOn'[c] <= today'
  BY DEF AnswersDated
<1>1. today \in Nat /\ today' \in Nat /\ today <= today'
  BY TimePasses DEF CoreInv, Inv, TypeOK
<1>2. CASE idempotencyStore[c] # "unseen"
  <2>1. answeredOn[c] \in Nat /\ answeredOn[c] <= today
    BY <1>2 DEF AckInv, AnswersDated
  <2>2. answeredOn'[c] = answeredOn[c]
    BY <1>2, AnswersStay DEF AckInv
  <2> QED
    BY <1>1, <2>1, <2>2
<1>3. CASE idempotencyStore[c] = "unseen"
  <2>1. idempotencyStore'[c] # idempotencyStore[c]
    BY <1>3
  <2>2. PICK call \in wire : Serve(call)
    BY <2>1, OnlyHcmMoves
  <2>3. c = call
    <3>1. call \in Requests \X Operations
      BY DEF CoreInv, Inv, TypeOK, Calls
    <3>2. call = <<call[1], call[2]>>
      BY <3>1
    <3>3. ASSUME NEW x \in Calls, NEW s, idempotencyStore' = [idempotencyStore EXCEPT ![x] = s]
          PROVE  c = x
      BY <2>1, <3>3 DEF CoreInv, Inv, TypeOK
    <3>4. CASE call[2] = "FILE"
      <4>1. call = <<call[1], "FILE">> /\ ServeFile(call[1])
        BY <2>2, <3>2, <3>4 DEF Serve
      <4> QED
        BY <2>1, <3>1, <3>3, <4>1 DEF ServeFile, Calls
    <3>5. CASE call[2] = "REVERSE"
      <4>1. call = <<call[1], "REVERSE">> /\ ServeReverse(call[1])
        BY <2>2, <3>2, <3>5 DEF Serve
      <4> QED
        BY <2>1, <3>1, <3>3, <4>1 DEF ServeReverse, Calls
    <3> QED
      BY <3>1, <3>4, <3>5 DEF Operations
  <2>4. answeredOn'[c] = today
    BY <1>3, <2>2, <2>3 DEF Serve, AckInv, AckTypes
  <2> QED
    BY <1>1, <2>4
<1> QED
  BY <1>2, <1>3

\* A FILE row is given up together with its request.
LEMMA Failures ==
  ASSUME Inv, [Next]_vars, NEW i \in DOMAIN outbox',
         outbox'[i].op = "FILE", outbox'[i].status = "FAILED"
  PROVE  \/ /\ i \in DOMAIN outbox
            /\ outbox'[i].req = outbox[i].req
            /\ outbox[i].op = "FILE"
            /\ outbox[i].status = "FAILED"
         \/ /\ outbox'[i].req \in Submitted
            /\ requests'[outbox'[i].req].status = "REJECTED"
<1> DEFINE Before == /\ i \in DOMAIN outbox
                     /\ outbox'[i].req = outbox[i].req
                     /\ outbox[i].op = "FILE"
                     /\ outbox[i].status = "FAILED"
<1>1. TypeOK
  BY DEF Inv
<1>2. UNCHANGED outbox => Before
  OBVIOUS
<1>3. ASSUME NEW r, Voids(r) PROVE Before
  BY <1>3 DEF Voids
<1>4. ASSUME NEW r, NEW op, Adds(r, op) PROVE Before
  BY <1>4 DEF Adds
<1>5. ASSUME NEW j, NEW s, Closes(j, s), s = "FAILED" => outbox[j].op # "FILE"
      PROVE  Before
  BY <1>5 DEF Closes
<1> HIDE DEF Before
<1>6. CASE \E r \in Submitted : ApprovePast(r) \/ Reject(r) \/ Cancel(r) \/ SweepOne(r)
  <2>1. PICK r \in Submitted : ApprovePast(r) \/ Reject(r) \/ Cancel(r) \/ SweepOne(r)
    BY <1>6
  <2>2. VoidPendingFileRows(r) => Before
    BY <1>1, <1>3, VoidWrite
  <2>3. Enqueue(r, "REVERSE") => Before
    <3>1. r \in Requests /\ "REVERSE" \in Operations
      BY <1>1, RequestTypes DEF Operations
    <3> QED
      BY <1>1, <1>4, <3>1, EnqueueWrite
  <2>4. UNCHANGED outbox \/ VoidPendingFileRows(r) \/ Enqueue(r, "REVERSE")
    BY <2>1 DEF ApprovePast, Reject, Cancel, SweepOne, Expire
  <2> QED
    BY <1>2, <2>2, <2>3, <2>4 DEF Before
<1>7. CASE \E k \in Keys : ApproveCommit(k)
  <2>1. PICK k \in Keys : ApproveCommit(k)
    BY <1>7
  <2>2. lock[k].req \in Requests /\ "FILE" \in Operations /\ Enqueue(lock[k].req, "FILE")
    BY <1>1, <2>1, HolderTypes DEF ApproveCommit, Operations
  <2> QED
    BY <1>1, <1>4, <2>2, EnqueueWrite DEF Before
<1>8. CASE \E k \in Keys : DispatchAcked(k) \/ DispatchReverseCap(k)
  <2>1. PICK k \in Keys : DispatchAcked(k) \/ DispatchReverseCap(k)
    BY <1>8
  <2>2. lock[k].row \in DOMAIN outbox
    BY <2>1 DEF DispatchAcked, DispatchReverseCap, Inv, ReferencesResolve
  <2>3. CASE DispatchAcked(k)
    <3>1. Closes(lock[k].row, "SENT")
      BY <1>1, <2>2, <2>3, CloseWrite DEF DispatchAcked
    <3> QED
      BY <1>5, <3>1 DEF Before
  <2>4. CASE DispatchReverseCap(k)
    <3>1. Closes(lock[k].row, "FAILED") /\ outbox[lock[k].row].op # "FILE"
      BY <1>1, <2>2, <2>4, CloseWrite DEF DispatchReverseCap
    <3> QED
      BY <1>5, <3>1 DEF Before
  <2> QED
    BY <2>1, <2>3, <2>4
<1>9. CASE \E k \in Keys : DispatchFileCap(k)
  <2>1. PICK k \in Keys : DispatchFileCap(k)
    BY <1>9
  <2> DEFINE j == lock[k].row
             r == outbox[j].req
  <2>2. j \in DOMAIN outbox /\ r \in Submitted /\ r \in Requests
    BY <1>1, <2>1, RequestTypes DEF DispatchFileCap, Inv, ReferencesResolve
  <2>3. SetStatus(r, "REJECTED")
    BY <2>1 DEF DispatchFileCap
  <2>4. GivesUp(j)
    BY <1>1, <2>1, <2>2, GiveUpWrite DEF DispatchFileCap
  <2>5. requests'[r].status = "REJECTED"
    BY <1>1, <2>2, <2>3, StatusWrite
  <2>6. i # j => Before
    BY <2>4 DEF GivesUp, Before
  <2>7. i = j => outbox'[i].req = r
    BY <2>2, <2>4 DEF GivesUp
  <2> QED
    BY <2>2, <2>5, <2>6, <2>7 DEF Before
<1>10. CASE \E j \in DOMAIN outbox : DispatchBegin(j)
  <2>1. PICK j \in DOMAIN outbox : DispatchBegin(j)
    BY <1>10
  <2>2. outbox' = [outbox EXCEPT ![j].attempts = @ + 1] /\ outbox[j] \in OutboxRow
    BY <1>1, <2>1, RowTypes DEF DispatchBegin
  <2> QED
    BY <2>2 DEF OutboxRow
<1>11. CASE \/ Tick \/ Crash \/ Client
            \/ \E r \in Submitted : ApproveRefresh(r) \/ ServeFile(r) \/ ServeReverse(r)
            \/ \E k \in Keys : HydrateRead(k) \/ HydrateApply(k) \/ HydrateDegraded(k)
                                 \/ ApproveSnapshot(k) \/ ApproveReject(k) \/ Refresh(k)
                                 \/ DispatchAckClash(k) \/ DispatchRetryLater(k)
            \/ UNCHANGED vars
  <2>1. UNCHANGED outbox
    BY <1>11
    DEF Tick, Crash, Client, Submit, SubmitHangs, ApproveRefresh, ServeFile, ServeReverse,
        HydrateRead, HydrateApply, HydrateDegraded, ApproveSnapshot, ApproveReject, Refresh,
        DispatchAckClash, DispatchRetryLater, vars, serviceVars
  <2> QED
    BY <1>2, <2>1 DEF Before
<1> QED
  BY <1>6, <1>7, <1>8, <1>9, <1>10, <1>11 DEF Next, Handler, Resume, Client, DispatchEnd

LEMMA GivenUpStep ==
  ASSUME CoreInv, GivenUpRejected, [ReconcilingNext]_allVars
  PROVE  GivenUpRejected'
<1>1. CASE [Next]_vars
  <2> SUFFICES ASSUME NEW i \in DOMAIN outbox',
                      outbox'[i].op = "FILE", outbox'[i].status = "FAILED"
               PROVE  requests'[outbox'[i].req].status = "REJECTED"
    BY DEF GivenUpRejected
  <2>1. Inv
    BY DEF CoreInv
  <2>2. CASE /\ i \in DOMAIN outbox
             /\ outbox'[i].req = outbox[i].req
             /\ outbox[i].op = "FILE"
             /\ outbox[i].status = "FAILED"
    <3> DEFINE r == outbox[i].req
    <3>1. r \in Submitted /\ requests[r].status = "REJECTED"
      BY <2>1, <2>2 DEF GivenUpRejected, Inv, ReferencesResolve
    <3>2. requests'[r] = [requests[r] EXCEPT !.idem = requests'[r].idem]
      BY <1>1, <2>1, <3>1, TerminalStays DEF Active, ActiveStatuses, TerminalStatuses
    <3>3. requests[r] \in RequestRow
      BY <2>1, <3>1, RequestTypes DEF Inv
    <3> HIDE DEF r
    <3>4. requests'[r].status = requests[r].status
      BY <3>2, <3>3 DEF RequestRow
    <3> USE DEF r
    <3> QED
      BY <2>2, <3>1, <3>4
  <2> QED
    BY <1>1, <2>1, <2>2, Failures
<1>2. CASE \E d \in Ingesters : IngestOne(d)
  BY <1>2 DEF IngestOne, GivenUpRejected
<1> QED
  BY <1>1, <1>2, CoreStep

LEMMA SnapshotsStep ==
  ASSUME LogInv, CoreInv, AckInv, [ReconcilingNext]_allVars
  PROVE  SnapshotsTake'
<1>1. ASSUME NEW c \in Calls, NEW n \in Nat, idempotencyStore[c] = "ok", answeredOn[c] <= n
      PROVE  idempotencyStore'[c] = "ok" /\ answeredOn'[c] <= n
  BY <1>1, AnswersStay DEF AckInv
<1>2. CASE \E order \in Listings, less \in Divergences : Emit(order, less)
  <2>1. PICK order \in Listings, less \in Divergences : Emit(order, less)
    BY <1>2
  <2>2. \A b \in DOMAIN corpora' :
          corpora'[b] = Corpus(order, less) \/ (b \in DOMAIN corpora /\ corpora'[b] = corpora[b])
    <3>1. IsList(corpora)
      BY DEF LogInv
    <3> QED
      BY <2>1, <3>1, EmitWrites
  <2>3. /\ Corpus(order, less).asOf = today
        /\ Corpus(order, less).taken = Taken
    BY DEF Corpus
  <2>4. today \in Nat
    BY DEF CoreInv, Inv, TypeOK
  <2>5. \A c \in Taken : c \in Calls /\ idempotencyStore[c] = "ok" /\ answeredOn[c] <= today
    BY DEF Taken, AckInv, AnswersDated
  <2> SUFFICES ASSUME NEW b \in DOMAIN corpora'
               PROVE  /\ corpora'[b].asOf \in Nat
                      /\ \A c \in corpora'[b].taken : /\ c \in Calls
                                                      /\ idempotencyStore'[c] = "ok"
                                                      /\ answeredOn'[c] <= corpora'[b].asOf
    BY DEF SnapshotsTake
  <2>6. CASE corpora'[b] = Corpus(order, less)
    BY <1>1, <2>3, <2>4, <2>5, <2>6
  <2>7. CASE b \in DOMAIN corpora /\ corpora'[b] = corpora[b]
    BY <1>1, <2>7 DEF AckInv, SnapshotsTake
  <2> QED
    BY <2>2, <2>6, <2>7
<1>3. CASE UNCHANGED corpora
  BY <1>1, <1>3 DEF AckInv, SnapshotsTake
<1>4. CASE ~\E order \in Listings, less \in Divergences : Emit(order, less)
  <2>1. UNCHANGED corpora
    BY <1>4 DEF ReconcilingNext, Elsewhere, Restart, Serve, Acknowledge, ResolveReview,
                IngestStep, IngestOne, IngestEnd, IngestFails, IngestBegin, allVars
  <2> QED
    BY <1>3, <2>1
<1> QED
  BY <1>2, <1>4

LEMMA BatchesStep ==
  ASSUME LogInv, BatchesKnown, [ReconcilingNext]_allVars
  PROVE  BatchesKnown'
<1>1. CASE \E order \in Listings, less \in Divergences : Emit(order, less)
  <2>1. PICK order \in Listings, less \in Divergences : Emit(order, less)
    BY <1>1
  <2>2. corpora' = Append(corpora, Corpus(order, less)) /\ UNCHANGED ingests
    BY <2>1 DEF Emit, Corpus, ingestVars
  <2>3. PICK S : corpora \in Seq(S)
    BY DEF LogInv, IsList
  <2>4. DOMAIN corpora \subseteq DOMAIN corpora'
    BY <2>2, <2>3
  <2> QED
    BY <2>2, <2>4 DEF BatchesKnown, Busy
<1>2. CASE \E d \in Ingesters : \E b \in DOMAIN corpora : IngestBegin(d, b)
  BY <1>2 DEF IngestBegin, BatchesKnown, Busy, LogInv
<1>3. CASE \E d \in Ingesters : IngestOne(d)
  <2>1. PICK d \in Ingesters : IngestOne(d)
    BY <1>3
  <2>2. PICK b, t, a : ingests[d] = [batch |-> b, todo |-> t, after |-> a]
    BY DEF LogInv, Progress
  <2>3. Busy(d) /\ ingests'[d].batch = b /\ \A e \in Ingesters \ {d} : ingests'[e] = ingests[e]
    BY <2>1, <2>2 DEF IngestOne, LogInv, Busy, Idle
  <2>4. UNCHANGED corpora
    BY <2>1 DEF IngestOne
  <2> QED
    BY <2>2, <2>3, <2>4 DEF BatchesKnown, Busy
<1>4. CASE \E d \in Ingesters : IngestEnd(d) \/ IngestFails(d)
  BY <1>4 DEF IngestEnd, IngestFails, BatchesKnown, Busy, LogInv
<1>5. CASE \/ Elsewhere \/ Restart \/ UNCHANGED allVars
           \/ \E call \in wire : Serve(call)
           \/ \E k \in Keys : Acknowledge(k) \/ ResolveReview(k)
  BY <1>5
  DEF Elsewhere, Restart, Serve, Acknowledge, ResolveReview, allVars, ingestVars, BatchesKnown, Busy
<1> QED
  BY <1>1, <1>2, <1>3, <1>4, <1>5 DEF ReconcilingNext, IngestStep

LEMMA AckInit == ReconcilingInit => AckInv
<1> SUFFICES ASSUME ReconcilingInit PROVE AckInv
  OBVIOUS
<1>1. /\ Submitted = {} /\ DOMAIN outbox = {} /\ DOMAIN corpora = {}
      /\ \A c \in Calls : idempotencyStore[c] = "unseen"
  BY DEF ReconcilingInit, Init, Submitted
<1>2. /\ hcmAckAt = [r \in Requests |-> Never]
      /\ answeredOn = [c \in Calls |-> Never]
      /\ \A d \in Ingesters : ~Busy(d)
  BY DEF ReconcilingInit, Busy
<1> QED
  BY <1>1, <1>2 DEF AckInv, AckTypes, AcksAgree, AnswersDated, GivenUpRejected, SnapshotsTake,
                    BatchesKnown

LEMMA AckAlways == ReconcilingSpec => []AckInv
<1>1. LogInv /\ CoreInv /\ AckInv /\ [ReconcilingNext]_allVars => AckInv'
  BY AckTypesStep, AcksStep, DatedStep, GivenUpStep, SnapshotsStep, BatchesStep DEF AckInv
<1> QED
  BY <1>1, AckInit, LogAlways, CoreAlways, PTL DEF ReconcilingSpec
-----------------------------------------------------------------------------
(* The replay *)

\* Everything a snapshot has, HCM has taken.
LEMMA SnapshotTaken ==
  ASSUME AckInv, NEW b \in DOMAIN corpora
  PROVE  corpora[b].taken \subseteq Taken
BY DEF AckInv, SnapshotsTake, Taken

\* The deductions that the replay adds are those the snapshot lacks.
LEMMA DeductionsFound ==
  ASSUME CoreInv, AckInv, NEW b \in DOMAIN corpora, NEW k,
         \A r \in Requested(k) : Replayable(r, corpora[b])
  PROVE  Unacked(k, corpora[b].asOf) = Deductions(k, corpora[b])
<1> SUFFICES ASSUME NEW r \in Requested(k)
             PROVE  r \in Unacked(k, corpora[b].asOf) <=> r \in Deductions(k, corpora[b])
  BY DEF Unacked, Deductions
<1>1. r \in Submitted /\ r \in Requests /\ Agrees(r) /\ Stamped(r) /\ Replayable(r, corpora[b])
  BY DEF Requested, CoreInv, Inv, TypeOK, AckInv, AcksAgree
<1>2. CASE requests[r].status = "PENDING_SYNC"
  <2>1. <<r, "FILE">> \notin Taken
    BY <1>1, <1>2 DEF Agrees, Replayable, Operations
  <2>2. <<r, "FILE">> \notin corpora[b].taken
    BY <2>1, SnapshotTaken
  <2>3. AckedAfter(r, corpora[b].asOf)
    BY <1>1, <1>2 DEF Stamped, AckedAfter
  <2> QED
    BY <1>2, <2>2, <2>3 DEF Unacked, Deductions
<1>3. CASE requests[r].status = "APPROVED"
  <2>1. <<r, "FILE">> \in Calls /\ idempotencyStore[<<r, "FILE">>] = "ok"
    BY <1>1, <1>3, ApprovedIsTaken
  <2>2. hcmAckAt[r] = answeredOn[<<r, "FILE">>] /\ hcmAckAt[r] \in Nat
    BY <1>1, <1>3, <2>1 DEF Stamped, AckInv, AnswersDated
  <2>3. AckedAfter(r, corpora[b].asOf) <=> hcmAckAt[r] > corpora[b].asOf
    BY <2>2, NeverAssumption DEF AckedAfter
  <2>4. corpora[b].asOf \in Nat
    BY DEF AckInv, SnapshotsTake
  <2>5. CASE <<r, "FILE">> \in corpora[b].taken
    <3>1. answeredOn[<<r, "FILE">>] <= corpora[b].asOf
      BY <2>5 DEF AckInv, SnapshotsTake
    <3>2. ~AckedAfter(r, corpora[b].asOf)
      BY <2>2, <2>3, <2>4, <3>1
    <3> QED
      BY <2>5, <3>2 DEF Unacked, Deductions
  <2>6. CASE <<r, "FILE">> \notin corpora[b].taken
    <3>1. <<r, "FILE">> \in Taken \ corpora[b].taken /\ <<r, "FILE">>[1] = r
      BY <2>1, <2>6 DEF Taken
    <3>2. answeredOn[<<r, "FILE">>] > corpora[b].asOf
      BY <1>1, <3>1 DEF Replayable
    <3> QED
      BY <1>3, <2>2, <2>3, <2>6, <3>2 DEF Unacked, Deductions
  <2> QED
    BY <2>5, <2>6
<1>4. CASE requests[r].status \notin {"PENDING_SYNC", "APPROVED"}
  BY <1>4 DEF Unacked, Deductions
<1> QED
  BY <1>2, <1>3, <1>4

\* The reversals that the replay adds are those the snapshot lacks, of FILEs
\* that it has.
LEMMA CreditsFound ==
  ASSUME CoreInv, AckInv, NEW b \in DOMAIN corpora, NEW k,
         \A r \in Requested(k) : Replayable(r, corpora[b])
  PROVE  PendingReversals(k) = Credits(k, corpora[b])
<1> SUFFICES ASSUME NEW r \in Requested(k)
             PROVE  r \in PendingReversals(k) <=> r \in Credits(k, corpora[b])
  BY DEF PendingReversals, Credits
<1>1. r \in Submitted /\ Agrees(r) /\ Replayable(r, corpora[b])
  BY DEF Requested, CoreInv, Inv
<1>2. ASSUME NEW op \in Operations, <<r, op>> \in Taken, requests[r].status # "APPROVED"
      PROVE  <<r, op>> \in corpora[b].taken
  <2>1. <<r, op>>[1] = r
    OBVIOUS
  <2> QED
    BY <1>1, <1>2, <2>1 DEF Replayable
<1>3. ASSUME NEW op \in Operations, HasRow(r, op, {"SENT"})
      PROVE  <<r, op>> \in Taken
  BY <1>1, <1>3, SentIsTaken DEF Taken
<1>4. ASSUME r \in PendingReversals(k)
      PROVE  r \in Credits(k, corpora[b])
  <2>1. requests[r].status = "CANCELLED" /\ HasRow(r, "REVERSE", {"PENDING"})
    BY <1>4 DEF PendingReversals
  <2>2. HasRow(r, "FILE", {"SENT", "FAILED"})
    BY <1>1, <2>1 DEF Agrees, HasRow
  <2>3. ~HasRow(r, "FILE", {"FAILED"})
    BY <2>1 DEF AckInv, GivenUpRejected, HasRow, RowsOf
  <2>4. HasRow(r, "FILE", {"SENT"})
    BY <2>2, <2>3 DEF HasRow
  <2>5. <<r, "FILE">> \in corpora[b].taken
    BY <1>2, <1>3, <2>1, <2>4 DEF Operations
  <2>6. <<r, "REVERSE">> \notin corpora[b].taken
    <3>1. <<r, "REVERSE">> \notin Taken
      BY <1>1, <2>1 DEF Replayable, Operations
    <3> QED
      BY <3>1, SnapshotTaken
  <2>7. HasRow(r, "REVERSE", {"PENDING", "SENT"})
    BY <2>1 DEF HasRow
  <2> QED
    BY <2>5, <2>6, <2>7 DEF Credits
<1>5. ASSUME r \in Credits(k, corpora[b])
      PROVE  r \in PendingReversals(k)
  <2>1. /\ HasRow(r, "REVERSE", {"PENDING", "SENT"})
        /\ <<r, "FILE">> \in corpora[b].taken
        /\ <<r, "REVERSE">> \notin corpora[b].taken
    BY <1>5 DEF Credits
  <2>2. requests[r].status \in {"CANCELLED", "REJECTED"}
    BY <1>1, <2>1 DEF Agrees, HasRow
  <2>3. requests[r].status # "REJECTED"
    BY <1>1, <2>1, SnapshotTaken DEF Replayable
  <2>4. ~HasRow(r, "REVERSE", {"SENT"})
    BY <1>2, <1>3, <2>1, <2>2 DEF Operations
  <2>5. HasRow(r, "REVERSE", {"PENDING"})
    BY <2>1, <2>4 DEF HasRow
  <2> QED
    BY <2>2, <2>3, <2>5 DEF PendingReversals
<1> QED
  BY <1>4, <1>5

\* An entry at hand, and what applying it leaves.
LEMMA EntryBatch ==
  ASSUME EntriesTyped, AckInv, NEW d \in Ingesters, IngestOne(d)
  PROVE  /\ ingests[d].batch \in DOMAIN corpora
         /\ Head(ingests[d].todo).key \in Keys
         /\ Head(ingests[d].todo).balance \in Int
<1>1. ingests[d].batch \in DOMAIN corpora
  BY DEF AckInv, BatchesKnown, IngestOne, Busy, Idle
<1>2. Head(ingests[d].todo) \in Entry
  BY DEF EntriesTyped, IngestOne
<1> QED
  BY <1>1, <1>2 DEF Entry

LEMMA EntryReplays ==
  ASSUME CoreInv, EntriesTyped, AckInv, NEW d \in Ingesters, IngestOne(d),
         NEW k, k = Head(ingests[d].todo).key, NEW b, b = ingests[d].batch,
         \A r \in Requested(k) : Replayable(r, corpora[b])
  PROVE  balances'[k].available =
           Head(ingests[d].todo).balance
             - SumDays(Deductions(k, corpora[b])) + SumDays(Credits(k, corpora[b]))
<1>1. b \in DOMAIN corpora /\ k \in Keys
  BY EntryBatch
<1>2. /\ Unacked(k, corpora[b].asOf) = Deductions(k, corpora[b])
      /\ PendingReversals(k) = Credits(k, corpora[b])
  BY <1>1, DeductionsFound, CreditsFound
<1>3. balances'[k].available = Replayed(k, Head(ingests[d].todo).balance, corpora[b].asOf)
  BY <1>1 DEF IngestOne, ReconcileBalance, CoreInv, Inv, TypeOK
<1> QED
  BY <1>2, <1>3 DEF Replayed

\* balance.service.ts 340-423: for any number of requests, batches, retries and
\* restarts, an entry however old leaves the balance HCM will come to, whenever
\* the replay can tell what its snapshot lacks.
THEOREM ReplayIsExact == ReconcilingSpec => ReplayExact
<1>1. CoreInv /\ EntriesTyped /\ AckInv /\ [ReconcilingNext]_allVars =>
        [\A d \in Ingesters :
           IngestOne(d) =>
             LET entry == Head(ingests[d].todo)
                 k == entry.key
                 batch == corpora[ingests[d].batch] IN
             (\A r \in Requested(k) : Replayable(r, batch)) =>
               balances'[k].available =
                 entry.balance - SumDays(Deductions(k, batch)) + SumDays(Credits(k, batch))
        ]_allVars
  BY EntryReplays
<1> QED
  BY <1>1, CoreAlways, AckAlways, PTL DEF ReconcilingSpec, ReplayExact
-----------------------------------------------------------------------------
(* HCM's ledger *)

\* The requests of key k whose operation op is among the commands cs.
Moved(f, cs, k, op) == {r \in DOMAIN f : f[r].key = k /\ <<r, op>> \in cs}

\* What the commands cs do to the balance of key k.
Net(f, cs, k) == DaysIn(f, Moved(f, cs, k, "REVERSE")) - DaysIn(f, Moved(f, cs, k, "FILE"))

\* HCM's balance is what a snapshot says and the net of what HCM took since.
Ledger ==
  \A b \in DOMAIN corpora :
    /\ corpora[b].hcm \in [Keys -> Nat]
    /\ corpora[b].refreshes \in Nat
    /\ corpora[b].refreshes <= refreshes
    /\ corpora[b].refreshes = refreshes =>
         \A k \in Keys : hcm[k] = corpora[b].hcm[k] + Net(requests, Taken \ corpora[b].taken, k)

\* A table of requests with their dates, and a later one.
Table(f) == \A r \in DOMAIN f : f[r].start \in Nat /\ f[r].end \in Nat
Later(f, g) ==
  \A r \in DOMAIN f : /\ r \in DOMAIN g
                      /\ g[r].key = f[r].key
                      /\ g[r].start = f[r].start
                      /\ g[r].end = f[r].end

LEMMA MovedKept ==
  ASSUME NEW f, NEW g, Later(f, g), NEW cs, \A c \in cs : c[1] \in DOMAIN f, NEW k, NEW op
  PROVE  DaysIn(g, Moved(g, cs, k, op)) = DaysIn(f, Moved(f, cs, k, op))
<1>1. \A r : <<r, op>> \in cs => r \in DOMAIN f
  <2>1. \A r : <<r, op>>[1] = r
    OBVIOUS
  <2> QED
    BY <2>1
<1>2. Moved(g, cs, k, op) = Moved(f, cs, k, op)
  BY <1>1 DEF Moved, Later
<1>3. SlotsIn(g, Moved(f, cs, k, op)) = SlotsIn(f, Moved(f, cs, k, op))
  BY DEF SlotsIn, Moved, Later
<1> QED
  BY <1>2, <1>3 DEF DaysIn

LEMMA NetKept ==
  ASSUME NEW f, NEW g, Later(f, g), NEW cs, \A c \in cs : c[1] \in DOMAIN f, NEW k
  PROVE  Net(g, cs, k) = Net(f, cs, k)
BY MovedKept DEF Net

LEMMA NetNone ==
  ASSUME NEW f, NEW k
  PROVE  Net(f, {}, k) = 0
<1>1. Moved(f, {}, k, "FILE") = {} /\ Moved(f, {}, k, "REVERSE") = {}
  BY DEF Moved
<1> QED
  BY <1>1, DaysInNone DEF Net

\* One more command.
LEMMA MovedMore ==
  ASSUME NEW f, Table(f), IsFiniteSet(DOMAIN f), NEW cs, NEW r \in DOMAIN f, NEW o,
         <<r, o>> \notin cs, NEW k, NEW op
  PROVE  DaysIn(f, Moved(f, cs \cup {<<r, o>>}, k, op)) =
           IF f[r].key = k /\ o = op
             THEN DaysIn(f, Moved(f, cs, k, op)) + CountBusinessDays(f[r].start, f[r].end)
             ELSE DaysIn(f, Moved(f, cs, k, op))
<1>1. CASE f[r].key = k /\ o = op
  <2>1. Moved(f, cs \cup {<<r, o>>}, k, op) = Moved(f, cs, k, op) \cup {r}
    BY <1>1 DEF Moved
  <2>2. Moved(f, cs, k, op) \cap {r} = {}
    BY <1>1 DEF Moved
  <2>3. Dated(f, Moved(f, cs, k, op))
    <3>1. Moved(f, cs, k, op) \subseteq DOMAIN f
      BY DEF Moved
    <3>2. IsFiniteSet(Moved(f, cs, k, op))
      BY <3>1, FS_Subset
    <3> QED
      BY <3>1, <3>2 DEF Dated, Table
  <2>4. f[r].start \in Nat /\ f[r].end \in Nat
    BY DEF Table
  <2>5. Dated(f, {r}) /\ DaysIn(f, {r}) = CountBusinessDays(f[r].start, f[r].end)
    BY <2>4, DaysInOne
  <2> QED
    BY <1>1, <2>1, <2>2, <2>3, <2>5, DaysInUnion
<1>2. CASE ~(f[r].key = k /\ o = op)
  <2>1. Moved(f, cs \cup {<<r, o>>}, k, op) = Moved(f, cs, k, op)
    BY <1>2 DEF Moved
  <2> QED
    BY <1>2, <2>1
<1> QED
  BY <1>1, <1>2

LEMMA MovedNat ==
  ASSUME NEW f, Table(f), IsFiniteSet(DOMAIN f), NEW cs, NEW k, NEW op
  PROVE  DaysIn(f, Moved(f, cs, k, op)) \in Nat
<1>1. Moved(f, cs, k, op) \subseteq DOMAIN f
  BY DEF Moved
<1>2. IsFiniteSet(Moved(f, cs, k, op))
  BY <1>1, FS_Subset
<1> QED
  BY <1>1, <1>2, DaysInNat DEF Dated, Table

\* The effect of one command.
Effect(f, r, op) ==
  IF op = "FILE" THEN 0 - CountBusinessDays(f[r].start, f[r].end)
                 ELSE CountBusinessDays(f[r].start, f[r].end)

LEMMA NetMore ==
  ASSUME NEW f, Table(f), IsFiniteSet(DOMAIN f), NEW cs, NEW r \in DOMAIN f,
         NEW op \in Operations, <<r, op>> \notin cs, NEW k
  PROVE  Net(f, cs \cup {<<r, op>>}, k) =
           IF f[r].key = k THEN Net(f, cs, k) + Effect(f, r, op) ELSE Net(f, cs, k)
<1> DEFINE n == CountBusinessDays(f[r].start, f[r].end)
           x == DaysIn(f, Moved(f, cs, k, "FILE"))
           y == DaysIn(f, Moved(f, cs, k, "REVERSE"))
<1>1. x \in Nat /\ y \in Nat
  BY MovedNat
<1>2. n \in Nat
  BY DaysNat DEF Table
<1>3. DaysIn(f, Moved(f, cs \cup {<<r, op>>}, k, "FILE")) =
        IF f[r].key = k /\ op = "FILE" THEN x + n ELSE x
  BY MovedMore
<1>4. DaysIn(f, Moved(f, cs \cup {<<r, op>>}, k, "REVERSE")) =
        IF f[r].key = k /\ op = "REVERSE" THEN y + n ELSE y
  BY MovedMore
<1>5. Net(f, cs, k) = y - x
  BY DEF Net
<1>6. Effect(f, r, op) = IF op = "FILE" THEN 0 - n ELSE n
  BY DEF Effect
<1>7. op = "FILE" \/ op = "REVERSE"
  BY DEF Operations
<1> HIDE DEF x, y, n
<1> QED
  BY <1>1, <1>2, <1>3, <1>4, <1>5, <1>6, <1>7 DEF Net

\* Requests keep their key and dates.
LEMMA RequestsLater ==
  ASSUME CoreInv, [ReconcilingNext]_allVars
  PROVE  Later(requests, requests')
<1>1. CASE [Next]_vars
  <2>1. CASE Rests
    BY <2>1 DEF Rests, Later
  <2>2. CASE \E r \in Submitted, s \in Statuses : Moves(r, s)
    BY <2>2, MoveWrites DEF Moves, Later, Submitted, CoreInv
  <2>3. CASE \E k \in Keys, range \in Ranges, i \in IdemKeys, r \in Requests :
               Submit(r, k, range, i)
    BY <2>3, SubmitWrites DEF Later, Submitted, CoreInv
  <2> QED
    BY <1>1, <2>1, <2>2, <2>3, StepMoves DEF CoreInv
<1>2. CASE \E d \in Ingesters : IngestOne(d)
  BY <1>2 DEF IngestOne, Later
<1> QED
  BY <1>1, <1>2, CoreStep

\* HCM takes only what the service sent for a request it has.
LEMMA TakenIsKnown ==
  ASSUME CoreInv, NEW c \in Calls, c \in wire \/ idempotencyStore[c] # "unseen"
  PROVE  c[1] \in Submitted
<1>1. PICK i \in DOMAIN outbox : CallOf(outbox[i]) = c
  BY DEF CoreInv, CountedBeforeSent
<1> QED
  BY <1>1 DEF CallOf, CoreInv, Inv, ReferencesResolve

\* What serving a command does to HCM's books.
LEMMA ServeMoves ==
  ASSUME CoreInv, NEW call \in wire, Serve(call)
  PROVE  \/ Taken' = Taken /\ UNCHANGED hcm
         \/ \E r \in Submitted, op \in Operations :
              /\ <<r, op>> \notin Taken
              /\ Taken' = Taken \cup {<<r, op>>}
              /\ hcm' = [hcm EXCEPT ![requests[r].key] = @ + Effect(requests, r, op)]
<1>1. call \in Calls /\ call[1] \in Submitted /\ call[2] \in Operations
      /\ call = <<call[1], call[2]>>
  <2>1. call \in Calls
    BY DEF CoreInv, Inv, TypeOK
  <2> QED
    BY <2>1, TakenIsKnown DEF Calls
<1> DEFINE r == call[1]
           op == call[2]
<1>2. /\ idempotencyStore \in [Calls -> {"unseen", "ok", "refused"}]
      /\ hcm \in [Keys -> Nat]
      /\ requests[r].key \in Keys
      /\ requests[r].start \in Nat /\ requests[r].end \in Nat
  BY <1>1, RequestTypes DEF CoreInv, Inv, TypeOK, RequestRow
<1>3. Days(r) = CountBusinessDays(requests[r].start, requests[r].end) /\ Days(r) \in Nat
  BY <1>2, DaysNat DEF Days
<1>4. \/ UNCHANGED <<hcm, idempotencyStore>>
      \/ /\ idempotencyStore[call] = "unseen"
         /\ idempotencyStore' = [idempotencyStore EXCEPT ![call] = "refused"]
         /\ UNCHANGED hcm
      \/ /\ idempotencyStore[call] = "unseen"
         /\ idempotencyStore' = [idempotencyStore EXCEPT ![call] = "ok"]
         /\ hcm' = [hcm EXCEPT ![requests[r].key] = @ + Effect(requests, r, op)]
  <2>1. CASE op = "FILE"
    <3>1. ServeFile(r) /\ call = <<r, "FILE">>
      BY <1>1, <2>1 DEF Serve
    <3>2. hcm[requests[r].key] - Days(r) = hcm[requests[r].key] + Effect(requests, r, op)
      BY <1>2, <1>3, <2>1 DEF Effect
    <3> HIDE DEF r, op
    <3> QED
      BY <3>1, <3>2 DEF ServeFile
  <2>2. CASE op = "REVERSE"
    <3>1. ServeReverse(r) /\ call = <<r, "REVERSE">>
      BY <1>1, <2>2 DEF Serve
    <3>2. hcm[requests[r].key] + Days(r) = hcm[requests[r].key] + Effect(requests, r, op)
      BY <1>3, <2>2 DEF Effect
    <3> HIDE DEF r, op
    <3> QED
      BY <3>1, <3>2 DEF ServeReverse
  <2> QED
    BY <1>1, <2>1, <2>2 DEF Operations
<1>5. CASE UNCHANGED <<hcm, idempotencyStore>>
  BY <1>5 DEF Taken
<1>6. CASE /\ idempotencyStore[call] = "unseen"
           /\ idempotencyStore' = [idempotencyStore EXCEPT ![call] = "refused"]
           /\ UNCHANGED hcm
  <2>1. \A c \in Calls : idempotencyStore'[c] = "ok" <=> idempotencyStore[c] = "ok"
    BY <1>1, <1>2, <1>6
  <2> QED
    BY <1>6, <2>1 DEF Taken
<1>7. CASE /\ idempotencyStore[call] = "unseen"
           /\ idempotencyStore' = [idempotencyStore EXCEPT ![call] = "ok"]
           /\ hcm' = [hcm EXCEPT ![requests[r].key] = @ + Effect(requests, r, op)]
  <2>1. \A c \in Calls : idempotencyStore'[c] = "ok" <=> idempotencyStore[c] = "ok" \/ c = call
    BY <1>1, <1>2, <1>7
  <2>2. Taken' = Taken \cup {call} /\ call \notin Taken
    BY <1>1, <1>7, <2>1 DEF Taken
  <2>3. call = <<r, op>> /\ r \in Submitted /\ op \in Operations
    BY <1>1
  <2> HIDE DEF r, op
  <2> QED
    BY <1>7, <2>2, <2>3
<1> QED
  BY <1>4, <1>5, <1>6, <1>7

LEMMA HcmMoves ==
  ASSUME CoreInv, [ReconcilingNext]_allVars
  PROVE  \/ Taken' = Taken /\ UNCHANGED <<hcm, refreshes>>
         \/ refreshes' = refreshes + 1 /\ UNCHANGED corpora
         \/ /\ UNCHANGED <<refreshes, requests, corpora>>
            /\ \E r \in Submitted, op \in Operations :
                 /\ <<r, op>> \notin Taken
                 /\ Taken' = Taken \cup {<<r, op>>}
                 /\ hcm' = [hcm EXCEPT ![requests[r].key] = @ + Effect(requests, r, op)]
<1>1. CASE \E call \in wire : Serve(call)
  <2>1. PICK call \in wire : Serve(call)
    BY <1>1
  <2>2. UNCHANGED <<refreshes, requests, corpora>>
    BY <2>1 DEF Serve, ServeFile, ServeReverse, serviceVars
  <2> QED
    BY <2>1, <2>2, ServeMoves
<1>2. CASE ~\E call \in wire : Serve(call)
  BY <1>2, OnlyHcmMoves DEF Taken
<1> QED
  BY <1>1, <1>2
LEMMA LedgerStep ==
  ASSUME LogInv, CoreInv, AckInv, Ledger, [ReconcilingNext]_allVars
  PROVE  Ledger'
<1>1. /\ hcm \in [Keys -> Nat] /\ refreshes \in Nat
      /\ Table(requests)
      /\ IsFiniteSet(DOMAIN requests)
      /\ \A r \in DOMAIN requests : requests[r].key \in Keys
  BY RequestTypes DEF CoreInv, Inv, TypeOK, Table, RequestRow, Submitted
<1>2. \A c \in Taken : c[1] \in DOMAIN requests
  BY TakenIsKnown DEF Taken, Submitted
<1>3. Later(requests, requests')
  BY RequestsLater
<1> DEFINE Books(b) ==
      /\ corpora[b].hcm \in [Keys -> Nat]
      /\ corpora[b].refreshes \in Nat
      /\ corpora[b].refreshes <= refreshes
      /\ corpora[b].refreshes = refreshes =>
           \A k \in Keys : hcm[k] = corpora[b].hcm[k] + Net(requests, Taken \ corpora[b].taken, k)
<1>4. ASSUME NEW b \in DOMAIN corpora, corpora'[b] = corpora[b]
      PROVE  Books(b)'
  <2>1. Books(b) /\ corpora[b].taken \subseteq Taken
    BY SnapshotTaken DEF Ledger
  <2> DEFINE since == Taken \ corpora[b].taken
  <2>2. ASSUME NEW k \in Keys
        PROVE  Net(requests', since, k) = Net(requests, since, k)
    BY <1>2, <1>3, NetKept
  <2>3. CASE Taken' = Taken /\ UNCHANGED <<hcm, refreshes>>
    BY <1>4, <2>1, <2>2, <2>3
  <2>4. CASE refreshes' = refreshes + 1
    <3>1. corpora'[b].refreshes # refreshes' /\ corpora'[b].refreshes <= refreshes'
      BY <1>1, <1>4, <2>1, <2>4
    <3> QED
      BY <1>4, <2>1, <3>1
  <2>5. CASE /\ UNCHANGED <<refreshes, requests, corpora>>
             /\ \E r \in Submitted, op \in Operations :
                  /\ <<r, op>> \notin Taken
                  /\ Taken' = Taken \cup {<<r, op>>}
                  /\ hcm' = [hcm EXCEPT ![requests[r].key] = @ + Effect(requests, r, op)]
    <3>1. PICK r \in Submitted, op \in Operations :
                  /\ <<r, op>> \notin Taken
                  /\ Taken' = Taken \cup {<<r, op>>}
                  /\ hcm' = [hcm EXCEPT ![requests[r].key] = @ + Effect(requests, r, op)]
      BY <2>5
    <3>2. Taken' \ corpora[b].taken = since \cup {<<r, op>>} /\ <<r, op>> \notin since
      BY <2>1, <3>1
    <3>3. ASSUME NEW k \in Keys, corpora[b].refreshes = refreshes
          PROVE  hcm'[k] = corpora[b].hcm[k] + Net(requests, since \cup {<<r, op>>}, k)
      <4>1. hcm[k] = corpora[b].hcm[k] + Net(requests, since, k)
        BY <2>1, <3>3
      <4>2. /\ corpora[b].hcm[k] \in Nat
            /\ Net(requests, since, k) \in Int
            /\ Effect(requests, r, op) \in Int
        <5>1. Net(requests, since, k) \in Int
          BY <1>1, MovedNat DEF Net
        <5>2. CountBusinessDays(requests[r].start, requests[r].end) \in Nat
          BY <1>1, DaysNat DEF Table, Submitted
        <5> QED
          BY <2>1, <5>1, <5>2 DEF Effect
      <4>3. Net(requests, since \cup {<<r, op>>}, k) =
              IF requests[r].key = k THEN Net(requests, since, k) + Effect(requests, r, op)
                                     ELSE Net(requests, since, k)
        <5>1. r \in DOMAIN requests
          BY DEF Submitted
        <5> QED
          BY <1>1, <3>2, <5>1, NetMore
      <4>4. hcm'[k] = IF requests[r].key = k THEN hcm[k] + Effect(requests, r, op) ELSE hcm[k]
        BY <1>1, <3>1
      <4> QED
        BY <4>1, <4>2, <4>3, <4>4
    <3> QED
      BY <2>1, <2>5, <3>2, <3>3
  <2> QED
    BY <2>3, <2>4, <2>5, HcmMoves
<1>5. CASE \E order \in Listings, less \in Divergences : Emit(order, less)
  <2>1. PICK order \in Listings, less \in Divergences : Emit(order, less)
    BY <1>5
  <2>2. \A b \in DOMAIN corpora' :
          corpora'[b] = Corpus(order, less) \/ (b \in DOMAIN corpora /\ corpora'[b] = corpora[b])
    <3>1. IsList(corpora)
      BY DEF LogInv
    <3> QED
      BY <2>1, <3>1, EmitWrites
  <2>3. UNCHANGED <<hcm, refreshes, requests, idempotencyStore>>
    BY <2>1 DEF Emit, vars, serviceVars, hcmVars
  <2>4. ASSUME NEW b, corpora'[b] = Corpus(order, less)
        PROVE  Books(b)'
    <3>1. /\ corpora'[b].hcm = hcm /\ corpora'[b].refreshes = refreshes
          /\ corpora'[b].taken = Taken
      BY <2>4 DEF Corpus
    <3>2. Taken' \ corpora'[b].taken = {}
      BY <2>3, <3>1 DEF Taken
    <3>3. ASSUME NEW k \in Keys
          PROVE  hcm'[k] = corpora'[b].hcm[k] + Net(requests', Taken' \ corpora'[b].taken, k)
      <4>1. Net(requests', Taken' \ corpora'[b].taken, k) = 0
        BY <3>2, NetNone
      <4>2. hcm'[k] = corpora'[b].hcm[k] /\ hcm'[k] \in Nat
        BY <1>1, <2>3, <3>1
      <4> QED
        BY <4>1, <4>2
    <3>4. /\ corpora'[b].hcm \in [Keys -> Nat]
          /\ corpora'[b].refreshes \in Nat
          /\ corpora'[b].refreshes <= refreshes'
      BY <1>1, <2>3, <3>1
    <3> QED
      BY <3>3, <3>4
  <2> QED
    BY <1>4, <2>2, <2>4 DEF Ledger
<1>6. CASE ~\E order \in Listings, less \in Divergences : Emit(order, less)
  <2>1. UNCHANGED corpora
    BY <1>6 DEF ReconcilingNext, Elsewhere, Restart, Serve, Acknowledge, ResolveReview,
                IngestStep, IngestOne, IngestEnd, IngestFails, IngestBegin, allVars
  <2> QED
    BY <1>4, <2>1 DEF Ledger
<1> QED
  BY <1>5, <1>6

LEMMA LedgerAlways == ReconcilingSpec => []Ledger
<1>1. ReconcilingInit => Ledger
  BY DEF ReconcilingInit, Ledger
<1>2. LogInv /\ CoreInv /\ AckInv /\ Ledger /\ [ReconcilingNext]_allVars => Ledger'
  BY LedgerStep
<1> QED
  BY <1>1, <1>2, LogAlways, CoreAlways, AckAlways, PTL DEF ReconcilingSpec

-----------------------------------------------------------------------------
(* The replay and the ledger *)

\* What HCM took since the snapshot is the FILEs of approved requests that the
\* snapshot lacks.
LEMMA TakenSince ==
  ASSUME CoreInv, AckInv, NEW b \in DOMAIN corpora, NEW k,
         \A r \in Requested(k) : Replayable(r, corpora[b])
  PROVE  /\ Moved(requests, Taken \ corpora[b].taken, k, "REVERSE") = {}
         /\ Deductions(k, corpora[b]) =
              Moved(requests, Taken \ corpora[b].taken, k, "FILE") \cup Filing(k)
         /\ Moved(requests, Taken \ corpora[b].taken, k, "FILE") \cap Filing(k) = {}
<1> DEFINE since == Taken \ corpora[b].taken
<1>1. \A r : r \in Requested(k) <=> r \in DOMAIN requests /\ requests[r].key = k
  BY DEF Requested, Submitted
<1>2. ASSUME NEW r \in Requested(k)
      PROVE  r \in Submitted /\ Agrees(r) /\ Replayable(r, corpora[b])
  BY DEF Requested, CoreInv, Inv
<1>3. ASSUME NEW r \in Requested(k), NEW op \in Operations, <<r, op>> \in since
      PROVE  requests[r].status = "APPROVED"
  <2>1. <<r, op>>[1] = r
    OBVIOUS
  <2> QED
    BY <1>2, <1>3, <2>1 DEF Replayable
<1>4. ASSUME NEW r \in Requested(k), <<r, "REVERSE">> \in since
      PROVE  FALSE
  <2>1. requests[r].status = "APPROVED"
    BY <1>3, <1>4 DEF Operations
  <2>2. <<r, "REVERSE">> \in Calls /\ idempotencyStore[<<r, "REVERSE">>] # "unseen"
    BY <1>4 DEF Taken
  <2>3. PICK i \in DOMAIN outbox : CallOf(outbox[i]) = <<r, "REVERSE">>
    BY <2>2 DEF CoreInv, CountedBeforeSent
  <2>4. RowsOf(r, "REVERSE") # {}
    BY <2>3 DEF CallOf, RowsOf
  <2> QED
    BY <1>2, <2>1, <2>4 DEF Agrees
<1>5. ASSUME NEW r \in Requested(k)
      PROVE  r \in Filing(k) <=> requests[r].status = "PENDING_SYNC"
  BY <1>2 DEF Filing, Agrees
<1>6. ASSUME NEW r \in Requested(k)
      PROVE  r \in Deductions(k, corpora[b]) <=> <<r, "FILE">> \in since \/ r \in Filing(k)
  <2>1. CASE requests[r].status = "APPROVED"
    <3>1. <<r, "FILE">> \in Taken
      BY <1>2, <2>1, ApprovedIsTaken DEF Taken
    <3> QED
      BY <1>5, <2>1, <3>1 DEF Deductions
  <2>2. CASE requests[r].status = "PENDING_SYNC"
    <3>1. <<r, "FILE">> \notin Taken
      BY <1>2, <2>2 DEF Agrees, Replayable, Operations
    <3> QED
      BY <1>5, <2>2, <3>1, SnapshotTaken DEF Deductions
  <2>3. CASE requests[r].status \notin {"APPROVED", "PENDING_SYNC"}
    <3>1. <<r, "FILE">> \notin since
      BY <1>3, <2>3 DEF Operations
    <3> QED
      BY <1>5, <2>3, <3>1 DEF Deductions
  <2> QED
    BY <2>1, <2>2, <2>3
<1>7. ASSUME NEW r \in Requested(k), <<r, "FILE">> \in since
      PROVE  r \notin Filing(k)
  BY <1>3, <1>5, <1>7 DEF Operations
<1> HIDE DEF since
<1>8. \A op : \A r : r \in Moved(requests, since, k, op) <=> r \in Requested(k) /\ <<r, op>> \in since
  BY <1>1 DEF Moved
<1>9. Deductions(k, corpora[b]) \subseteq Requested(k) /\ Filing(k) \subseteq Requested(k)
  BY DEF Deductions, Filing
<1>10. Moved(requests, since, k, "REVERSE") = {}
  BY <1>4, <1>8
<1>11. Deductions(k, corpora[b]) = Moved(requests, since, k, "FILE") \cup Filing(k)
  BY <1>6, <1>8, <1>9
<1>12. Moved(requests, since, k, "FILE") \cap Filing(k) = {}
  BY <1>7, <1>8
<1> QED
  BY <1>10, <1>11, <1>12 DEF since

\* The credits of the replay are the days that are on their way back.
LEMMA CreditsReturn ==
  ASSUME CoreInv, AckInv, NEW b \in DOMAIN corpora, NEW k,
         \A r \in Requested(k) : Replayable(r, corpora[b])
  PROVE  Credits(k, corpora[b]) = Returning(k)
<1> SUFFICES ASSUME NEW r \in Requested(k)
             PROVE  r \in Credits(k, corpora[b]) <=> r \in Returning(k)
  BY DEF Credits, Returning
<1>1. r \in Submitted /\ Agrees(r) /\ Replayable(r, corpora[b])
  BY DEF Requested, CoreInv, Inv
<1>2. PendingReversals(k) = Credits(k, corpora[b])
  BY CreditsFound
<1>3. ASSUME r \in Credits(k, corpora[b]) PROVE r \in Returning(k)
  BY <1>2, <1>3, SnapshotTaken DEF Credits, PendingReversals, Returning
<1>4. ASSUME r \in Returning(k) PROVE r \in Credits(k, corpora[b])
  <2>1. HasRow(r, "REVERSE", {"PENDING"}) /\ <<r, "FILE">> \in Taken
    BY <1>4 DEF Returning
  <2>2. requests[r].status = "CANCELLED"
    BY <1>1, <2>1 DEF Agrees, HasRow, Replayable
  <2> QED
    BY <1>2, <2>1, <2>2 DEF PendingReversals
<1> QED
  BY <1>3, <1>4

LEMMA EntryMeetsHcm ==
  ASSUME CoreInv, EntriesTyped, AckInv, Ledger, NEW d \in Ingesters, IngestOne(d),
         NEW k, k = Head(ingests[d].todo).key, NEW b, b = ingests[d].batch,
         \A r \in Requested(k) : Replayable(r, corpora[b]),
         refreshes = corpora[b].refreshes
  PROVE  balances'[k].available =
           hcm[k] - SumDays(Filing(k)) + SumDays(Returning(k))
             - (corpora[b].hcm[k] - Head(ingests[d].todo).balance)
<1> DEFINE filed == Moved(requests, Taken \ corpora[b].taken, k, "FILE")
           balance == Head(ingests[d].todo).balance
<1>1. b \in DOMAIN corpora /\ k \in Keys /\ balance \in Int
  BY EntryBatch
<1>2. balances'[k].available =
        balance - SumDays(Deductions(k, corpora[b])) + SumDays(Returning(k))
  BY <1>1, EntryReplays, CreditsReturn
<1>3. /\ Dated(requests, filed)
      /\ Dated(requests, Filing(k))
      /\ Dated(requests, Returning(k))
  <2>1. \A r \in Submitted : requests[r].start \in Nat /\ requests[r].end \in Nat
    BY RequestTypes DEF CoreInv, Inv, RequestRow
  <2>2. ASSUME NEW rs \in SUBSET Submitted
        PROVE  Dated(requests, rs)
    <3>1. IsFiniteSet(rs)
      BY FS_Subset DEF CoreInv
    <3> QED
      BY <2>1, <3>1 DEF Dated
  <2>3. filed \subseteq Submitted /\ Filing(k) \subseteq Submitted /\ Returning(k) \subseteq Submitted
    BY DEF Moved, Filing, Returning, Requested, Submitted
  <2> HIDE DEF filed
  <2> QED
    BY <2>2, <2>3
<1>4. /\ Moved(requests, Taken \ corpora[b].taken, k, "REVERSE") = {}
      /\ Deductions(k, corpora[b]) = filed \cup Filing(k)
      /\ filed \cap Filing(k) = {}
  BY <1>1, TakenSince
<1>5. DaysIn(requests, filed) \in Nat /\ DaysIn(requests, Filing(k)) \in Nat
      /\ DaysIn(requests, Returning(k)) \in Nat
  BY <1>3, DaysInNat
<1>6. /\ hcm[k] = corpora[b].hcm[k] + (0 - DaysIn(requests, filed))
      /\ corpora[b].hcm[k] \in Nat
  <2>1. Net(requests, Taken \ corpora[b].taken, k) = 0 - DaysIn(requests, filed)
    BY <1>4, DaysInNone DEF Net
  <2> QED
    BY <1>1, <2>1 DEF Ledger
<1> HIDE DEF filed, balance
<1>7. SumDays(Deductions(k, corpora[b])) = DaysIn(requests, filed) + DaysIn(requests, Filing(k))
  BY <1>3, <1>4, DaysInUnion, SumIsDaysIn
<1>8. /\ SumDays(Filing(k)) = DaysIn(requests, Filing(k))
      /\ SumDays(Returning(k)) = DaysIn(requests, Returning(k))
  BY SumIsDaysIn
<1>9. balances'[k].available =
        hcm[k] - SumDays(Filing(k)) + SumDays(Returning(k)) - (corpora[b].hcm[k] - balance)
  BY <1>1, <1>2, <1>5, <1>6, <1>7, <1>8
<1> QED
  BY <1>9 DEF balance

\* balance.service.ts 340-423: for any number of requests, batches, retries and
\* restarts, an entry however old leaves what HCM has now, less what is still
\* to be filed and plus what is still to be returned, whenever the replay can
\* tell what its snapshot lacks and HCM changed no balance of its own.
THEOREM ReplayReachesHcm == ReconcilingSpec => ReplayMeetsHcm
<1>1. CoreInv /\ EntriesTyped /\ AckInv /\ Ledger /\ [ReconcilingNext]_allVars =>
        [\A d \in Ingesters :
           IngestOne(d) =>
             LET entry == Head(ingests[d].todo)
                 k == entry.key
                 batch == corpora[ingests[d].batch] IN
             (\A r \in Requested(k) : Replayable(r, batch)) /\ refreshes = batch.refreshes =>
               balances'[k].available =
                 hcm[k] - SumDays(Filing(k)) + SumDays(Returning(k))
                   - (batch.hcm[k] - entry.balance)
        ]_allVars
  BY EntryMeetsHcm
<1> QED
  BY <1>1, CoreAlways, AckAlways, LedgerAlways, PTL DEF ReconcilingSpec, ReplayMeetsHcm
=============================================================================
