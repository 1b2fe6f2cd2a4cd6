----------------------------- MODULE BalanceLock -----------------------------
(***************************************************************************)
(* BalanceLockService: a chain of promises per balance key.  The other     *)
(* modules take its lock in one step; here it is taken the way the code    *)
(* does it, one step for what runs between two awaits.                     *)
(***************************************************************************)
EXTENDS Naturals

CONSTANTS
  Calls,       \* calls of runExclusive, each with a myTurn promise of its own
  Keys,        \* balance keys
  Resolved,    \* Promise.resolve(), the tail of an empty chain
  MaxLatches   \* bound: latches that a test installs

ASSUME ResolvedAssumption == Resolved \notin Calls
ASSUME LatchesAssumption == MaxLatches \in Nat

VARIABLES
  pc,          \* where each call is
  on,          \* by call: the key it is made for
  prev,        \* by call: the promise it awaits
  chains,      \* by key: the tail promise; Resolved where there is no entry
  resolved,    \* the myTurn promises resolved
  latches,     \* by key: the gate of the latch installed, if any
  installed,
  ahead        \* history, by call: the calls found on the key on arrival

vars == <<pc, on, prev, chains, resolved, latches, installed, ahead>>

Waiting == {c \in Calls : pc[c] = "waiting"}
Inside == {c \in Calls : pc[c] \in {"latched", "running", "hung"}}
OnKey(k) == {c \in Waiting \cup Inside : on[c] = k}
-----------------------------------------------------------------------------
\* runExclusive up to "await prev".
Arrive(c) ==
  /\ pc[c] = "new"
  /\ pc' = [pc EXCEPT ![c] = "waiting"]
  /\ prev' = [prev EXCEPT ![c] = chains[on[c]]]
  /\ chains' = [chains EXCEPT ![on[c]] = c]
  /\ ahead' = [ahead EXCEPT ![c] = OnKey(on[c])]
  /\ UNCHANGED <<on, resolved, latches, installed>>

\* Mutant of Enter: whoever finds nobody inside goes in.
EnterAny(c) ==
  /\ c \in Waiting
  /\ \A d \in Inside : on[d] # on[c]
  /\ pc' = [pc EXCEPT ![c] = "running"]
  /\ UNCHANGED <<on, prev, chains, resolved, latches, installed, ahead>>

\* prev is resolved.  A latch on the key is taken, and holds the call inside
\* until its gate opens; without one fn runs.
Enter(c) ==
  LET latch == latches[on[c]] IN
  /\ c \in Waiting
  /\ prev[c] \in resolved \cup {Resolved}
  /\ pc' = [pc EXCEPT ![c] = IF latch = "shut" THEN "latched" ELSE "running"]
  /\ latches' = [latches EXCEPT ![on[c]] = "none"]
  /\ UNCHANGED <<on, prev, chains, resolved, installed, ahead>>

\* fn awaits a POST that is never answered: the HTTP client has no timeout.
Hang(c) ==
  /\ pc[c] = "running"
  /\ pc' = [pc EXCEPT ![c] = "hung"]
  /\ UNCHANGED <<on, prev, chains, resolved, latches, installed, ahead>>

\* Mutants of Leave: the entry goes even if another call is the tail now; the
\* entry stays; the promise is not resolved.
LeaveDropping(c) ==
  /\ pc[c] = "running"
  /\ pc' = [pc EXCEPT ![c] = "left"]
  /\ chains' = [chains EXCEPT ![on[c]] = Resolved]
  /\ resolved' = resolved \cup {c}
  /\ UNCHANGED <<on, prev, latches, installed, ahead>>

LeaveKeeping(c) ==
  /\ pc[c] = "running"
  /\ pc' = [pc EXCEPT ![c] = "left"]
  /\ resolved' = resolved \cup {c}
  /\ UNCHANGED <<on, prev, chains, latches, installed, ahead>>

LeaveUnresolved(c) ==
  /\ pc[c] = "running"
  /\ pc' = [pc EXCEPT ![c] = "left"]
  /\ chains' = [chains EXCEPT ![on[c]] = IF @ = c THEN Resolved ELSE @]
  /\ UNCHANGED <<on, prev, resolved, latches, installed, ahead>>

\* The finally block, after fn returned or threw.
Leave(c) ==
  /\ pc[c] = "running"
  /\ pc' = [pc EXCEPT ![c] = "left"]
  /\ chains' = [chains EXCEPT ![on[c]] = IF @ = c THEN Resolved ELSE @]
  /\ resolved' = resolved \cup {c}
  /\ UNCHANGED <<on, prev, latches, installed, ahead>>

\* installLatch; a latch not yet taken is replaced.
InstallLatch(k) ==
  /\ installed < MaxLatches
  /\ installed' = installed + 1
  /\ latches' = [latches EXCEPT ![k] = "shut"]
  /\ UNCHANGED <<pc, on, prev, chains, resolved, ahead>>

\* release() of a latch, before or after a call has taken it.
ReleaseLatch(k) ==
  /\ latches[k] = "shut"
  /\ latches' = [latches EXCEPT ![k] = "open"]
  /\ UNCHANGED <<pc, on, prev, chains, resolved, installed, ahead>>

ReleaseCall(c) ==
  /\ pc[c] = "latched"
  /\ pc' = [pc EXCEPT ![c] = "running"]
  /\ UNCHANGED <<on, prev, chains, resolved, latches, installed, ahead>>
-----------------------------------------------------------------------------
Init ==
  /\ pc = [c \in Calls |-> "new"]
  /\ on \in [Calls -> Keys]
  /\ prev = [c \in Calls |-> Resolved]
  /\ chains = [k \in Keys |-> Resolved]
  /\ resolved = {}
  /\ latches = [k \in Keys |-> "none"]
  /\ installed = 0
  /\ ahead = [c \in Calls |-> {}]

Next ==
  \/ \E c \in Calls :
       Arrive(c) \/ Enter(c) \/ Hang(c) \/ Leave(c) \/ ReleaseCall(c)
  \/ \E k \in Keys : InstallLatch(k) \/ ReleaseLatch(k)

Spec == Init /\ [][Next]_vars

\* The event loop resumes an await whose promise is resolved, and a fn that
\* does not hang ends.
FairSpec ==
  Spec /\ \A c \in Calls : WF_vars(Enter(c)) /\ WF_vars(Leave(c) \/ Hang(c))

TypeOK ==
  /\ pc \in [Calls -> {"new", "waiting", "latched", "running", "hung", "left"}]
  /\ on \in [Calls -> Keys]
  /\ prev \in [Calls -> Calls \cup {Resolved}]
  /\ chains \in [Keys -> Calls \cup {Resolved}]
  /\ resolved \subseteq Calls
  /\ latches \in [Keys -> {"none", "shut", "open"}]
  /\ ahead \in [Calls -> SUBSET Calls]
-----------------------------------------------------------------------------
\* One call at a time is inside a key, a latched or hung one included, however
\* arrivals and departures fall between the read of the tail and its removal.
MutualExclusion == \A c, d \in Inside : on[c] = on[d] => c = d

\* The map has an entry exactly for the keys somebody holds or waits for: no
\* waiter is cut off from the chain, and an idle key costs no memory.
EntryIffUsed == \A k \in Keys : chains[k] = Resolved <=> OnKey(k) = {}

Phase(c) ==
  CASE pc[c] = "new"  -> [at |-> "new"]
    [] c \in Waiting  -> [at |-> "waiting", key |-> on[c]]
    [] c \in Inside   -> [at |-> "inside", key |-> on[c]]
    [] pc[c] = "left" -> [at |-> "gone"]

\* The chain of promises is a lock that serves each key in order of arrival.
Fifo == INSTANCE FifoLock WITH phase <- [c \in Calls |-> Phase(c)]

ImplementsFifo == Fifo!Spec

\* A call is served in the end unless it, or a call it found on its own key,
\* hangs or is held by a test latch: nobody is overtaken for ever, and a hung
\* key holds up no other key.
EveryCallServed ==
  \A c \in Calls :
    pc[c] = "waiting" ~>
      (pc[c] = "left" \/ \E d \in ahead[c] \cup {c} : pc[d] \in {"hung", "latched"})
=============================================================================
