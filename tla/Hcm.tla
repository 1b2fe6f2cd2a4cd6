--------------------------------- MODULE Hcm ---------------------------------
(***************************************************************************)
(* The HCM system as the mock implements it in its "correct" scenario, and *)
(* the network in between: a POST is served at most once per send, late or *)
(* never, whether or not the service still waits for the answer.           *)
(***************************************************************************)
EXTENDS ServiceState

\* fileTimeOff.  The answer, a refusal included, is kept for the key.
ServeFile(r) ==
  LET k == requests[r].key
      call == <<r, "FILE">> IN
  /\ call \in wire
  /\ wire' = wire \ {call}
  /\ IF idempotencyStore[call] # "unseen"
       THEN UNCHANGED <<hcm, idempotencyStore>>
       ELSE IF hcm[k] < Days(r)
         THEN /\ idempotencyStore' = [idempotencyStore EXCEPT ![call] = "refused"]
              /\ UNCHANGED hcm
         ELSE /\ idempotencyStore' = [idempotencyStore EXCEPT ![call] = "ok"]
              /\ hcm' = [hcm EXCEPT ![k] = @ - Days(r)]
  /\ UNCHANGED <<serviceVars, refreshes>>

\* reverseTimeOff.  The days are given back whether or not a FILE landed.
ServeReverse(r) ==
  LET k == requests[r].key
      call == <<r, "REVERSE">> IN
  /\ call \in wire
  /\ wire' = wire \ {call}
  /\ IF idempotencyStore[call] # "unseen"
       THEN UNCHANGED <<hcm, idempotencyStore>>
       ELSE /\ idempotencyStore' = [idempotencyStore EXCEPT ![call] = "ok"]
            /\ hcm' = [hcm EXCEPT ![k] = @ + Days(r)]
  /\ UNCHANGED <<serviceVars, refreshes>>

\* POST /_control/refresh: an anniversary bonus or a year-start reset.
Refresh(k) ==
  /\ refreshes < MaxRefreshes
  /\ refreshes' = refreshes + 1
  /\ \E value \in Entitlements \ {hcm[k]} : hcm' = [hcm EXCEPT ![k] = value]
  /\ UNCHANGED <<serviceVars, idempotencyStore, wire>>
=============================================================================
