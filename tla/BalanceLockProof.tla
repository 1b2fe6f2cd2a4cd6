--------------------------- MODULE BalanceLockProof ---------------------------
(***************************************************************************)
(* The chain of promises is a first-come first-served lock, for any number *)
(* of calls, keys and latches.                                             *)
(***************************************************************************)
EXTENDS BalanceLock, TLAPS

Left == {c \in Calls : pc[c] = "left"}

\* The tail of a key is a call on it, and every other call on it came before.
TailIsLast ==
  \A k \in Keys :
    /\ chains[k] = Resolved => OnKey(k) = {}
    /\ chains[k] # Resolved =>
         chains[k] \in OnKey(k) /\ OnKey(k) \subseteq {chains[k]} \cup ahead[chains[k]]

\* Whoever is or was inside has nobody left ahead.
NobodyAhead == \A c \in Inside \cup Left : ahead[c] \subseteq Left

\* A waiting call found its predecessor and whoever that one found.
LinkCovers ==
  \A c \in Waiting :
    /\ prev[c] = Resolved => ahead[c] = {}
    /\ prev[c] # Resolved =>
         pc[prev[c]] # "new" /\ ahead[c] \subseteq {prev[c]} \cup ahead[prev[c]]

\* Of two calls on a key one found the other.
Ordered ==
  \A c, d \in Waiting \cup Inside :
    on[c] = on[d] /\ c # d => c \in ahead[d] \/ d \in ahead[c]

Inv ==
  /\ TypeOK
  /\ resolved = Left
  /\ TailIsLast
  /\ NobodyAhead
  /\ LinkCovers
  /\ Ordered
-----------------------------------------------------------------------------
LEMMA InvInit == Init => Inv
BY ResolvedAssumption
   DEF Init, Inv, TypeOK, Left, TailIsLast, NobodyAhead, LinkCovers, Ordered,
       OnKey, Waiting, Inside

LEMMA ArriveKeeps ==
  ASSUME Inv, NEW c \in Calls, Arrive(c)
  PROVE  Inv'
<1> DEFINE k == on[c]
<1>1. k \in Keys /\ c # Resolved /\ pc[c] = "new"
  BY ResolvedAssumption DEF Inv, TypeOK, Arrive
<1>2. TypeOK'
  BY <1>1 DEF Inv, TypeOK, Arrive, OnKey, Waiting, Inside
<1>3. /\ Waiting' = Waiting \cup {c}
      /\ Inside' = Inside
      /\ Left' = Left
      /\ c \notin Waiting \cup Inside \cup Left
  BY DEF Inv, TypeOK, Arrive, Waiting, Inside, Left
<1>4. \A j \in Keys : OnKey(j)' = IF j = k THEN OnKey(k) \cup {c} ELSE OnKey(j)
  BY <1>1, <1>3 DEF Inv, TypeOK, Arrive, OnKey
<1>5. \A d \in Calls : d # c => ahead'[d] = ahead[d] /\ prev'[d] = prev[d]
  BY DEF Inv, TypeOK, Arrive
<1>6. ahead'[c] = OnKey(k) /\ prev'[c] = chains[k] /\ chains'[k] = c
  BY <1>1 DEF Inv, TypeOK, Arrive
<1>7. \A j \in Keys : j # k => chains'[j] = chains[j]
  BY <1>1 DEF Inv, TypeOK, Arrive
<1>8. \A j \in Keys : c \notin OnKey(j)
  BY <1>3 DEF OnKey
<1>9. resolved' = Left'
  BY <1>3 DEF Inv, Arrive
<1>10. TailIsLast'
  <2> SUFFICES ASSUME NEW j \in Keys
               PROVE  /\ chains'[j] = Resolved => OnKey(j)' = {}
                      /\ chains'[j] # Resolved =>
                           /\ chains'[j] \in OnKey(j)'
                           /\ OnKey(j)' \subseteq {chains'[j]} \cup ahead'[chains'[j]]
    BY DEF TailIsLast
  <2>1. CASE j = k
    BY <2>1, <1>1, <1>4, <1>6
  <2>2. CASE j # k
    <3>1. OnKey(j)' = OnKey(j) /\ chains'[j] = chains[j]
      BY <2>2, <1>4, <1>7
    <3>2. CASE chains[j] = Resolved
      BY <3>1, <3>2 DEF Inv, TailIsLast
    <3>3. CASE chains[j] # Resolved
      <4>1. chains[j] \in OnKey(j) /\ OnKey(j) \subseteq {chains[j]} \cup ahead[chains[j]]
        BY <3>3 DEF Inv, TailIsLast
      <4>2. chains[j] # c /\ chains[j] \in Calls
        BY <4>1, <1>8 DEF OnKey, Waiting, Inside
      <4>3. ahead'[chains[j]] = ahead[chains[j]]
        BY <4>2, <1>5
      <4> QED BY <3>1, <3>3, <4>1, <4>3
    <3> QED BY <3>2, <3>3
  <2> QED BY <2>1, <2>2
<1>11. NobodyAhead'
  BY <1>3, <1>5 DEF Inv, NobodyAhead, Inside, Left
<1>12. LinkCovers'
  <2> SUFFICES ASSUME NEW d \in Waiting \cup {c}
               PROVE  /\ prev'[d] = Resolved => ahead'[d] = {}
                      /\ prev'[d] # Resolved =>
                           /\ pc'[prev'[d]] # "new"
                           /\ ahead'[d] \subseteq {prev'[d]} \cup ahead'[prev'[d]]
    BY <1>3 DEF LinkCovers
  <2>1. CASE d = c
    <3>1. CASE chains[k] = Resolved
      BY <2>1, <3>1, <1>1, <1>6 DEF Inv, TailIsLast
    <3>2. CASE chains[k] # Resolved
      <4>1. chains[k] \in OnKey(k) /\ OnKey(k) \subseteq {chains[k]} \cup ahead[chains[k]]
        BY <3>2, <1>1 DEF Inv, TailIsLast
      <4>2. chains[k] \in Calls /\ chains[k] # c /\ pc[chains[k]] # "new"
        BY <4>1, <1>1, <1>8 DEF OnKey, Waiting, Inside
      <4>3. pc'[chains[k]] # "new"
        BY <4>2 DEF Inv, TypeOK, Arrive
      <4> QED BY <2>1, <3>2, <4>1, <4>2, <4>3, <1>5, <1>6
    <3> QED BY <3>1, <3>2
  <2>2. CASE d # c
    <3>1. d \in Waiting /\ d \in Calls /\ prev[d] \in Calls \cup {Resolved}
      BY <2>2 DEF Waiting, Inv, TypeOK
    <3>2. CASE prev[d] = Resolved
      BY <2>2, <3>1, <3>2, <1>5 DEF Inv, LinkCovers
    <3>3. CASE prev[d] # Resolved
      <4>1. pc[prev[d]] # "new" /\ ahead[d] \subseteq {prev[d]} \cup ahead[prev[d]]
        BY <3>1, <3>3 DEF Inv, LinkCovers
      <4>2. prev[d] # c /\ prev[d] \in Calls
        BY <4>1, <1>1, <3>1, <3>3
      <4>3. pc'[prev[d]] = pc[prev[d]]
        BY <4>2 DEF Inv, TypeOK, Arrive
      <4> QED BY <2>2, <3>1, <3>3, <4>1, <4>2, <4>3, <1>5
    <3> QED BY <3>1, <3>2, <3>3
  <2> QED BY <2>1, <2>2
<1>13. Ordered'
  BY <1>3, <1>5, <1>6 DEF Inv, Ordered, OnKey, Waiting, Inside, Arrive
<1> QED BY <1>2, <1>9, <1>10, <1>11, <1>12, <1>13 DEF Inv

LEMMA EnterKeeps ==
  ASSUME Inv, NEW c \in Calls, Enter(c)
  PROVE  Inv'
<1>1. /\ UNCHANGED <<on, prev, chains, resolved, ahead>>
      /\ c \in Waiting
      /\ prev[c] \in resolved \cup {Resolved}
      /\ on[c] \in Keys
  BY DEF Enter, Inv, TypeOK
<1>2. TypeOK'
  BY <1>1 DEF Inv, TypeOK, Enter
<1>3. /\ Waiting' = Waiting \ {c}
      /\ Inside' = Inside \cup {c}
      /\ Left' = Left
  BY <1>1 DEF Inv, TypeOK, Enter, Waiting, Inside, Left
<1>4. \A k \in Keys : OnKey(k)' = OnKey(k)
  BY <1>1, <1>3 DEF OnKey
<1>5. ahead[c] \subseteq Left
  <2>1. CASE prev[c] = Resolved
    BY <1>1, <2>1 DEF Inv, LinkCovers
  <2>2. CASE prev[c] # Resolved
    <3>1. prev[c] \in Left
      BY <1>1, <2>2 DEF Inv
    <3> QED BY <1>1, <2>2, <3>1 DEF Inv, LinkCovers, NobodyAhead
  <2> QED BY <2>1, <2>2
<1>6. NobodyAhead'
  BY <1>1, <1>3, <1>5 DEF Inv, NobodyAhead
<1>7. TailIsLast'
  BY <1>1, <1>4 DEF Inv, TailIsLast
<1>8. \A d \in Calls : pc[d] # "new" => pc'[d] # "new"
  BY DEF Inv, TypeOK, Enter
<1>9. LinkCovers'
  BY <1>1, <1>3, <1>8 DEF Inv, LinkCovers, TypeOK, Waiting
<1>10. Ordered'
  BY <1>1, <1>3 DEF Inv, Ordered
<1> QED BY <1>1, <1>2, <1>3, <1>6, <1>7, <1>9, <1>10 DEF Inv

LEMMA LeaveKeeps ==
  ASSUME Inv, NEW c \in Calls, Leave(c)
  PROVE  Inv'
<1>1. /\ UNCHANGED <<on, prev, ahead>>
      /\ pc[c] = "running"
      /\ on[c] \in Keys
      /\ c # Resolved
  BY ResolvedAssumption DEF Leave, Inv, TypeOK
<1>2. TypeOK'
  BY <1>1 DEF Inv, TypeOK, Leave
<1>3. /\ Waiting' = Waiting
      /\ Inside' = Inside \ {c}
      /\ Left' = Left \cup {c}
      /\ c \in Inside
  BY <1>1 DEF Inv, TypeOK, Leave, Waiting, Inside, Left
<1>4. \A k \in Keys : OnKey(k)' = OnKey(k) \ {c}
  BY <1>1, <1>3 DEF OnKey, Waiting
<1>5. resolved' = Left'
  BY <1>3 DEF Inv, Leave
<1>6. NobodyAhead'
  BY <1>1, <1>3 DEF Inv, NobodyAhead
<1>7. LinkCovers'
  <2>1. \A d \in Calls : pc[d] # "new" => pc'[d] # "new"
    BY DEF Inv, TypeOK, Leave
  <2> QED BY <1>1, <1>3, <2>1 DEF Inv, LinkCovers, TypeOK, Waiting
<1>8. Ordered'
  BY <1>1, <1>3 DEF Inv, Ordered
<1>9. TailIsLast'
  <2> SUFFICES ASSUME NEW k \in Keys
               PROVE  /\ chains'[k] = Resolved => OnKey(k)' = {}
                      /\ chains'[k] # Resolved =>
                           /\ chains'[k] \in OnKey(k)'
                           /\ OnKey(k)' \subseteq {chains'[k]} \cup ahead'[chains'[k]]
    BY DEF TailIsLast
  <2>1. CASE chains[k] = Resolved
    <3>1. chains'[k] = chains[k]
      BY <1>1, <2>1 DEF Leave, Inv, TypeOK
    <3> QED BY <2>1, <3>1, <1>4 DEF Inv, TailIsLast
  <2>2. CASE chains[k] = c
    <3>1. c \in OnKey(k) /\ OnKey(k) \subseteq {c} \cup ahead[c]
      BY <1>1, <2>2 DEF Inv, TailIsLast
    <3>2. k = on[c]
      BY <3>1 DEF OnKey
    <3>3. chains'[k] = Resolved
      BY <2>2, <3>2 DEF Leave, Inv, TypeOK
    <3>4. ahead[c] \cap OnKey(k) = {}
      BY <1>3 DEF Inv, NobodyAhead, Left, OnKey, Waiting, Inside
    <3> QED BY <3>1, <3>3, <3>4, <1>4
  <2>3. CASE chains[k] \notin {c, Resolved}
    <3>1. chains'[k] = chains[k]
      BY <1>1, <2>3 DEF Leave, Inv, TypeOK
    <3>2. chains[k] \in OnKey(k) /\ OnKey(k) \subseteq {chains[k]} \cup ahead[chains[k]]
      BY <2>3 DEF Inv, TailIsLast
    <3> QED BY <2>3, <3>1, <3>2, <1>1, <1>4
  <2> QED BY <2>1, <2>2, <2>3
<1> QED BY <1>2, <1>5, <1>6, <1>7, <1>8, <1>9 DEF Inv

\* Steps that leave the chain alone.
LEMMA RestKeeps ==
  ASSUME Inv,
         \/ \E c \in Calls : Hang(c) \/ ReleaseCall(c)
         \/ \E k \in Keys : InstallLatch(k) \/ ReleaseLatch(k)
         \/ UNCHANGED vars
  PROVE  Inv'
<1>1. /\ UNCHANGED <<on, prev, chains, resolved, ahead>>
      /\ TypeOK'
  BY DEF Hang, ReleaseCall, InstallLatch, ReleaseLatch, vars, Inv, TypeOK
<1>2. /\ Waiting' = Waiting
      /\ Inside' = Inside
      /\ Left' = Left
      /\ \A d \in Calls : pc[d] # "new" => pc'[d] # "new"
  BY DEF Hang, ReleaseCall, InstallLatch, ReleaseLatch, vars, Inv, TypeOK,
         Waiting, Inside, Left
<1>3. \A k \in Keys : OnKey(k)' = OnKey(k)
  BY <1>1, <1>2 DEF OnKey
<1>4. TailIsLast'
  BY <1>1, <1>3 DEF Inv, TailIsLast
<1>5. NobodyAhead' /\ Ordered'
  BY <1>1, <1>2 DEF Inv, NobodyAhead, Ordered
<1>6. LinkCovers'
  BY <1>1, <1>2 DEF Inv, LinkCovers, TypeOK, Waiting
<1> QED BY <1>1, <1>2, <1>4, <1>5, <1>6 DEF Inv

LEMMA InvStep == Inv /\ [Next]_vars => Inv'
BY ArriveKeeps, EnterKeeps, LeaveKeeps, RestKeeps DEF Next

LEMMA InvAlways == Spec => []Inv
BY InvInit, InvStep, PTL DEF Spec
-----------------------------------------------------------------------------
\* balance-lock.service.ts 84-127: two calls are never inside one key.
THEOREM LockExcludes == Spec => []MutualExclusion
<1>1. Inv => MutualExclusion
  BY DEF Inv, MutualExclusion, NobodyAhead, Ordered, Inside, Left
<1> QED BY <1>1, InvAlways, PTL

\* balance-lock.service.ts 118-122: the entry of a key is dropped when, and
\* only when, nobody holds it or waits for it.
THEOREM EntriesAreTidy == Spec => []EntryIffUsed
<1>1. Inv => EntryIffUsed
  BY DEF Inv, EntryIffUsed, TailIsLast
<1> QED BY <1>1, InvAlways, PTL
-----------------------------------------------------------------------------
(* Refinement of FifoLock *)

LEMMA PhaseIs ==
  ASSUME Inv, NEW c \in Calls
  PROVE  /\ pc[c] = "new" => Phase(c) = [at |-> "new"]
         /\ c \in Waiting => Phase(c) = [at |-> "waiting", key |-> on[c]]
         /\ c \in Inside => Phase(c) = [at |-> "inside", key |-> on[c]]
         /\ c \in Left => Phase(c) = [at |-> "gone"]
BY DEF Inv, TypeOK, Phase, Waiting, Inside, Left

\* The calls on a key are the same on both sides.
LEMMA OnKeyAgrees ==
  ASSUME Inv, NEW k \in Keys
  PROVE  OnKey(k) = Fifo!OnKey(k)
<1> SUFFICES ASSUME NEW c \in Calls
             PROVE  c \in OnKey(k) <=> Phase(c) \in [at : {"waiting", "inside"}, key : {k}]
  BY DEF OnKey, Fifo!OnKey, Waiting, Inside
<1>1. c \in Waiting \cup Inside \/ pc[c] = "new" \/ c \in Left
  BY DEF Inv, TypeOK, Waiting, Inside, Left
<1>2. CASE c \in Waiting \cup Inside
  <2>1. Phase(c) = [at |-> "waiting", key |-> on[c]] \/ Phase(c) = [at |-> "inside", key |-> on[c]]
    BY <1>2, PhaseIs
  <2> QED BY <1>2, <2>1 DEF OnKey
<1>3. CASE pc[c] = "new" \/ c \in Left
  <2>1. Phase(c) = [at |-> "new"] \/ Phase(c) = [at |-> "gone"]
    BY <1>3, PhaseIs
  <2>2. c \notin Waiting \cup Inside
    BY <1>3 DEF Waiting, Inside, Left
  <2> QED BY <2>1, <2>2 DEF OnKey
<1> QED BY <1>1, <1>2, <1>3

LEMMA StepRefines ==
  ASSUME Inv, Inv', [Next]_vars
  PROVE  [Fifo!Next]_(Fifo!vars)
<1> DEFINE phase == [c \in Calls |-> Phase(c)]
<1>1. ASSUME NEW c \in Calls, Arrive(c) PROVE Fifo!Arrive(c, on[c])
  <2>1. phase[c] = Fifo!New
    BY <1>1, PhaseIs DEF Arrive, Fifo!New
  <2>2. phase' = [phase EXCEPT ![c] = [at |-> "waiting", key |-> on[c]]]
    <3>1. Phase(c)' = [at |-> "waiting", key |-> on[c]]
      BY <1>1 DEF Arrive, Phase, Waiting, Inside, Inv, TypeOK
    <3>2. \A d \in Calls : d # c => Phase(d)' = Phase(d)
      BY <1>1 DEF Arrive, Phase, Waiting, Inside, Inv, TypeOK
    <3> QED BY <3>1, <3>2
  <2>3. ahead' = [ahead EXCEPT ![c] = Fifo!OnKey(on[c])]
    BY <1>1, OnKeyAgrees DEF Arrive, Inv, TypeOK
  <2> QED BY <2>1, <2>2, <2>3 DEF Fifo!Arrive
<1>2. ASSUME NEW c \in Calls, Enter(c) PROVE Fifo!Enter(c, on[c])
  <2>1. phase[c] = [at |-> "waiting", key |-> on[c]]
    BY <1>2, PhaseIs DEF Enter
  <2>2. phase' = [phase EXCEPT ![c] = [at |-> "inside", key |-> on[c]]]
    <3>1. Phase(c)' = [at |-> "inside", key |-> on[c]]
      BY <1>2 DEF Enter, Phase, Waiting, Inside, Inv, TypeOK
    <3>2. \A d \in Calls : d # c => Phase(d)' = Phase(d)
      BY <1>2 DEF Enter, Phase, Waiting, Inside, Inv, TypeOK
    <3> QED BY <3>1, <3>2
  <2>3. \A d \in ahead[c] : phase[d] = Fifo!Gone
    <3>1. c \in Inside' /\ ahead' = ahead
      BY <1>2 DEF Enter, Inside, Waiting, Inv, TypeOK
    <3>2. ahead[c] \subseteq Left'
      BY <3>1 DEF Inv, NobodyAhead
    <3>3. Left' = Left /\ Left \subseteq Calls
      BY <1>2 DEF Enter, Left, Waiting, Inv, TypeOK
    <3> QED BY <3>2, <3>3, PhaseIs DEF Fifo!Gone
  <2> QED BY <1>2, <2>1, <2>2, <2>3 DEF Enter, Fifo!Enter
<1>3. ASSUME NEW c \in Calls, Leave(c) PROVE Fifo!Leave(c, on[c])
  <2>1. phase[c] = [at |-> "inside", key |-> on[c]]
    BY <1>3, PhaseIs DEF Leave, Inside
  <2>2. phase' = [phase EXCEPT ![c] = Fifo!Gone]
    <3>1. Phase(c)' = Fifo!Gone
      BY <1>3 DEF Leave, Phase, Waiting, Inside, Inv, TypeOK, Fifo!Gone
    <3>2. \A d \in Calls : d # c => Phase(d)' = Phase(d)
      BY <1>3 DEF Leave, Phase, Waiting, Inside, Inv, TypeOK
    <3> QED BY <3>1, <3>2
  <2> QED BY <1>3, <2>1, <2>2 DEF Leave, Fifo!Leave
<1>4. ASSUME \/ \E c \in Calls : Hang(c) \/ ReleaseCall(c)
             \/ \E k \in Keys : InstallLatch(k) \/ ReleaseLatch(k)
             \/ UNCHANGED vars
      PROVE UNCHANGED Fifo!vars
  <2>1. ahead' = ahead /\ on' = on
    BY <1>4 DEF Hang, ReleaseCall, InstallLatch, ReleaseLatch, vars
  <2>2. \A d \in Calls : Phase(d)' = Phase(d)
    BY <1>4 DEF Hang, ReleaseCall, InstallLatch, ReleaseLatch, vars, Phase,
                Waiting, Inside, Inv, TypeOK
  <2> QED BY <2>1, <2>2 DEF Fifo!vars
<1>5. \A c \in Calls : on[c] \in Keys
  BY DEF Inv, TypeOK
<1> QED BY <1>1, <1>2, <1>3, <1>4, <1>5 DEF Next, Fifo!Next

\* The chain of promises implements the abstract lock: calls of a key enter in
\* order of arrival, one after the other has left.
THEOREM ChainIsFifo == Spec => ImplementsFifo
<1>1. Init => Fifo!Init
  BY InvInit, PhaseIs DEF Init, Fifo!Init, Fifo!New
<1> QED BY <1>1, InvAlways, StepRefines, PTL DEF Spec, ImplementsFifo, Fifo!Spec
=============================================================================
