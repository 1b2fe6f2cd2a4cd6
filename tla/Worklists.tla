------------------------------ MODULE Worklists ------------------------------
(***************************************************************************)
(* The loops around dispatchOne and expire: a tick of dispatchPending      *)
(* every five seconds and a sweep every five minutes, whether or not the   *)
(* ones before have ended.  Each reads its list once, without a lock, and  *)
(* works it off one entry after another, waiting for each entry's lock.    *)
(* An item stands for a request and its FILE row.                          *)
(***************************************************************************)
EXTENDS Naturals, SequencesExt

CONSTANTS
  Items,         \* requests
  Keys,          \* balance keys
  Ticks,         \* ticks of dispatchPending at a time
  Sweeps,        \* sweeps at a time
  MaxAttempts,   \* HCM_RETRY_MAX_ATTEMPTS
  MaxFaults,     \* bound: exceptions of a dispatch and restarts of the service
  Nothing        \* no item

ASSUME BoundsAssumption == MaxAttempts \in Nat \ {0} /\ MaxFaults \in Nat
ASSUME NothingAssumption == Nothing \notin Items

VARIABLES
  on,            \* by item: its balance key
  state,         \* by item: "undecided", "syncing" with an open row, "closed"
  rows,          \* the items with a row, in createdAt order
  attempts,
  expired,       \* the items past their TTL
  todo,          \* by worker: what is left of its list
  at,            \* by worker: where it is in the loop
  line,          \* by key: who holds the lock, and who waits for it in order
  hung,          \* by key: the item whose POST is never answered
  faults         \* exceptions and restarts so far

itemVars == <<on, state, rows, attempts, expired>>
workerVars == <<todo, at, line, hung>>
vars == <<itemVars, workerVars, faults>>

Workers == Ticks \cup Sweeps
Open(i) == state[i] # "closed"
Entry(w) == Head(todo[w])
Holds(w) == at[w] = "queued" /\ Head(line[on[Entry(w)]]) = w /\ hung[on[Entry(w)]] = Nothing
Close(i) == state' = [state EXCEPT ![i] = "closed"]

Enlist(w, list) ==
  /\ at[w] = "idle"
  /\ list # <<>>
  /\ todo' = [todo EXCEPT ![w] = list]
  /\ at' = [at EXCEPT ![w] = "next"]

Queue(w) ==
  /\ at' = [at EXCEPT ![w] = "queued"]
  /\ line' = [line EXCEPT ![on[Entry(w)]] = Append(@, w)]
  /\ UNCHANGED <<todo, hung>>

\* The rest of the list, with the lock of the entry given back.
GoOn(w) ==
  /\ todo' = [todo EXCEPT ![w] = Tail(@)]
  /\ at' = [at EXCEPT ![w] = "next"]
  /\ line' = [line EXCEPT ![on[Entry(w)]] = Tail(@)]
  /\ UNCHANGED hung
-----------------------------------------------------------------------------
(* Requests *)

Approve(i) ==
  /\ state[i] = "undecided"
  /\ line[on[i]] = <<>> /\ hung[on[i]] = Nothing
  /\ state' = [state EXCEPT ![i] = "syncing"]
  /\ rows' = Append(rows, i)
  /\ UNCHANGED <<on, attempts, expired, workerVars, faults>>

TtlPasses(i) ==
  /\ i \notin expired
  /\ expired' = expired \cup {i}
  /\ UNCHANGED <<on, state, rows, attempts, workerVars, faults>>
-----------------------------------------------------------------------------
(* dispatchPending *)

\* Row j was enqueued before row i.
Older(j, i) ==
  \E m, n \in DOMAIN rows : m < n /\ rows[m] = j /\ rows[n] = i

OpenRows == {i \in Range(rows) : state[i] = "syncing"}

\* Mutant of TickBegins: the newest row first.
TickNewestFirst(w) ==
  /\ \E list \in SetToSeqs(OpenRows) :
       /\ \A m, n \in DOMAIN list : m < n => Older(list[n], list[m])
       /\ Enlist(w, list)
  /\ UNCHANGED <<itemVars, line, hung, faults>>

TickBegins(w) ==
  /\ \E list \in SetToSeqs(OpenRows) :
       /\ \A m, n \in DOMAIN list : m < n => Older(list[m], list[n])
       /\ Enlist(w, list)
  /\ UNCHANGED <<itemVars, line, hung, faults>>

\* The check before the lock.
TickNext(w) ==
  /\ at[w] = "next"
  /\ todo[w] # <<>>
  /\ IF state[Entry(w)] = "syncing"
       THEN Queue(w)
       ELSE todo' = [todo EXCEPT ![w] = Tail(@)] /\ UNCHANGED <<at, line, hung>>
  /\ UNCHANGED <<itemVars, faults>>

\* Mutant of TickPosts: the status is not read again under the lock.
TickPostsBlindly(w) ==
  /\ Holds(w)
  /\ attempts' = [attempts EXCEPT ![Entry(w)] = @ + 1]
  /\ at' = [at EXCEPT ![w] = "posting"]
  /\ UNCHANGED <<on, state, rows, expired, todo, line, hung, faults>>

\* Transaction 1: the row may have been closed while this tick waited.
TickPosts(w) ==
  /\ Holds(w)
  /\ IF state[Entry(w)] = "syncing"
       THEN /\ attempts' = [attempts EXCEPT ![Entry(w)] = @ + 1]
            /\ at' = [at EXCEPT ![w] = "posting"]
            /\ UNCHANGED <<todo, line, hung>>
       ELSE GoOn(w) /\ UNCHANGED attempts
  /\ UNCHANGED <<on, state, rows, expired, faults>>

\* Transaction 2: HCM took it, or did not; then the cap decides.
TickRecords(w) ==
  /\ at[w] = "posting"
  /\ \/ Close(Entry(w))
     \/ attempts[Entry(w)] < MaxAttempts /\ UNCHANGED state
  /\ GoOn(w)
  /\ UNCHANGED <<on, rows, attempts, expired, faults>>

\* Transaction 2 throws: the tick ends, with the rest of its list undone.
TickThrows(w) ==
  /\ at[w] = "posting"
  /\ faults < MaxFaults
  /\ faults' = faults + 1
  /\ todo' = [todo EXCEPT ![w] = <<>>]
  /\ at' = [at EXCEPT ![w] = "idle"]
  /\ line' = [line EXCEPT ![on[Entry(w)]] = Tail(@)]
  /\ UNCHANGED <<itemVars, hung>>

\* The POST is never answered, and has no timeout: this tick stays inside the
\* lock for good.  The next one takes its name.
TickHangs(w) ==
  /\ at[w] = "posting"
  /\ hung' = [hung EXCEPT ![on[Entry(w)]] = Entry(w)]
  /\ todo' = [todo EXCEPT ![w] = <<>>]
  /\ at' = [at EXCEPT ![w] = "idle"]
  /\ line' = [line EXCEPT ![on[Entry(w)]] = Tail(@)]
  /\ UNCHANGED <<itemVars, faults>>
-----------------------------------------------------------------------------
(* sweep *)

SweepBegins(w) ==
  /\ \E list \in SetToSeqs({i \in expired : Open(i)}) : Enlist(w, list)
  /\ UNCHANGED <<itemVars, line, hung, faults>>

SweepNext(w) ==
  /\ at[w] = "next"
  /\ todo[w] # <<>>
  /\ Queue(w)
  /\ UNCHANGED <<itemVars, faults>>

\* Mutant of SweepExpires: an exception ends the loop at that entry for good.
SweepStops(w) ==
  /\ Holds(w)
  /\ Open(Entry(w))
  /\ Close(Entry(w))
  /\ GoOn(w)
  /\ UNCHANGED <<on, rows, attempts, expired, faults>>

\* expire, which throws for a request decided meanwhile; sweep goes on.
SweepExpires(w) ==
  /\ Holds(w)
  /\ Close(Entry(w))
  /\ GoOn(w)
  /\ UNCHANGED <<on, rows, attempts, expired, faults>>
-----------------------------------------------------------------------------
Ends(w) ==
  /\ at[w] = "next"
  /\ todo[w] = <<>>
  /\ at' = [at EXCEPT ![w] = "idle"]
  /\ UNCHANGED <<itemVars, todo, line, hung, faults>>

\* A worker in line behind a hung one stays there; the next takes its name.
Stuck(w) ==
  /\ at[w] = "queued"
  /\ hung[on[Entry(w)]] # Nothing
  /\ todo' = [todo EXCEPT ![w] = <<>>]
  /\ at' = [at EXCEPT ![w] = "idle"]
  /\ line' = [line EXCEPT ![on[Entry(w)]] = Remove(@, w)]
  /\ UNCHANGED <<itemVars, hung, faults>>

Restart ==
  /\ faults < MaxFaults
  /\ faults' = faults + 1
  /\ todo' = [w \in Workers |-> <<>>]
  /\ at' = [w \in Workers |-> "idle"]
  /\ line' = [k \in Keys |-> <<>>]
  /\ hung' = [k \in Keys |-> Nothing]
  /\ UNCHANGED itemVars

Init ==
  /\ on \in [Items -> Keys]
  /\ state = [i \in Items |-> "undecided"]
  /\ rows = <<>>
  /\ attempts = [i \in Items |-> 0]
  /\ expired = {}
  /\ todo = [w \in Workers |-> <<>>]
  /\ at = [w \in Workers |-> "idle"]
  /\ line = [k \in Keys |-> <<>>]
  /\ hung = [k \in Keys |-> Nothing]
  /\ faults = 0

TickStep(w) ==
  TickNext(w) \/ TickPosts(w) \/ TickRecords(w) \/ TickThrows(w) \/ TickHangs(w)
SweepStep(w) == SweepNext(w) \/ SweepExpires(w)

Next ==
  \/ \E i \in Items : Approve(i) \/ TtlPasses(i)
  \/ \E w \in Ticks : TickBegins(w) \/ TickStep(w)
  \/ \E w \in Sweeps : SweepBegins(w) \/ SweepStep(w)
  \/ \E w \in Workers : Ends(w) \/ Stuck(w)
  \/ Restart

Spec == Init /\ [][Next]_vars

\* The interval and the cron fire for ever, and a worker goes on.
FairSpec ==
  /\ Spec
  /\ \A w \in Ticks : WF_vars(TickBegins(w)) /\ WF_vars(TickStep(w))
  /\ \A w \in Sweeps : WF_vars(SweepBegins(w)) /\ WF_vars(SweepStep(w))
  /\ \A w \in Workers : WF_vars(Ends(w) \/ Stuck(w))
-----------------------------------------------------------------------------
\* A list is old news: whatever sweeps and overlapping ticks closed since it
\* was read, only an open row is POSTed, and by one tick at a time.
OpenWhenSent ==
  /\ \A w \in Ticks : at[w] = "posting" => state[Entry(w)] = "syncing"
  /\ \A v, w \in Ticks : at[v] = "posting" /\ at[w] = "posting" /\ Entry(v) = Entry(w) => v = w

\* A row is closed in the end although ticks overlap, throw and leave their
\* lists half-done, unless a POST of an older row or of its own key hangs.
RowsClose ==
  \A i \in Items :
    state[i] = "syncing" ~>
      \/ state[i] = "closed"
      \/ \E k \in Keys : hung[k] # Nothing /\ (k = on[i] \/ Older(hung[k], i))

\* A request past its TTL is closed in the end, unless a POST hangs.
ExpiredClose ==
  \A i \in Items :
    i \in expired ~> state[i] = "closed" \/ \E k \in Keys : hung[k] # Nothing
=============================================================================
