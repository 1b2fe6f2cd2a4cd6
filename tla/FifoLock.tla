------------------------------- MODULE FifoLock -------------------------------
(***************************************************************************)
(* What the balance-key lock promises: each call of runExclusive has its   *)
(* key to itself, in order of arrival, and keys do not wait for each other.*)
(***************************************************************************)
CONSTANTS
  Calls,       \* calls of runExclusive, each made at most once
  Keys         \* balance keys

VARIABLES
  phase,       \* where each call is
  ahead        \* by call: the calls it found on its key when it arrived

vars == <<phase, ahead>>

New == [at |-> "new"]
Gone == [at |-> "gone"]

OnKey(k) == {c \in Calls : phase[c] \in [at : {"waiting", "inside"}, key : {k}]}

Init ==
  /\ phase = [c \in Calls |-> New]
  /\ ahead = [c \in Calls |-> {}]

Arrive(c, k) ==
  /\ phase[c] = New
  /\ phase' = [phase EXCEPT ![c] = [at |-> "waiting", key |-> k]]
  /\ ahead' = [ahead EXCEPT ![c] = OnKey(k)]

Enter(c, k) ==
  /\ phase[c] = [at |-> "waiting", key |-> k]
  /\ \A d \in ahead[c] : phase[d] = Gone
  /\ phase' = [phase EXCEPT ![c] = [at |-> "inside", key |-> k]]
  /\ UNCHANGED ahead

Leave(c, k) ==
  /\ phase[c] = [at |-> "inside", key |-> k]
  /\ phase' = [phase EXCEPT ![c] = Gone]
  /\ UNCHANGED ahead

Next == \E c \in Calls, k \in Keys : Arrive(c, k) \/ Enter(c, k) \/ Leave(c, k)

Spec == Init /\ [][Next]_vars
=============================================================================
