------------------------------ MODULE HcmCommand ------------------------------
(***************************************************************************)
(* What OutboxDispatcher and Hcm take a command to HCM to be: each call    *)
(* puts it on the wire, HCM takes or refuses it once whatever the number   *)
(* of calls, and a call succeeds only if HCM took it.                      *)
(***************************************************************************)
EXTENDS Integers

CONSTANTS
  Effects,     \* what the command may do to HCM's balance
  Balances     \* the balances HCM may give the employee on its own

VARIABLES
  calling,     \* a call is under way
  result,      \* the outcome of the last call
  wire,        \* the command is on its way to HCM
  stored,      \* HCM's answer for the command's key
  hcm          \* HCM's balance

vars == <<calling, result, wire, stored, hcm>>

Init ==
  /\ calling = FALSE
  /\ result = "none"
  /\ wire = FALSE
  /\ stored = "unseen"
  /\ hcm \in Balances

Send ==
  /\ ~calling
  /\ calling' = TRUE
  /\ wire' = TRUE
  /\ UNCHANGED <<result, stored, hcm>>

\* With or without a caller that still waits.
Serve ==
  /\ wire
  /\ wire' = FALSE
  /\ \/ stored # "unseen" /\ UNCHANGED <<stored, hcm>>
     \/ stored = "unseen" /\ stored' = "refused" /\ UNCHANGED hcm
     \/ /\ stored = "unseen"
        /\ stored' = "ok"
        /\ \E effect \in Effects : hcm + effect >= 0 /\ hcm' = hcm + effect
  /\ UNCHANGED <<calling, result>>

Succeed ==
  /\ calling
  /\ ~wire
  /\ stored = "ok"
  /\ calling' = FALSE
  /\ result' = "ok"
  /\ UNCHANGED <<wire, stored, hcm>>

\* HCM refused it, or the caller gave up and cannot tell.
Fail ==
  /\ calling
  /\ calling' = FALSE
  /\ result' = "failed"
  /\ UNCHANGED <<wire, stored, hcm>>

Restart ==
  /\ calling' = FALSE
  /\ result' = "none"
  /\ UNCHANGED <<wire, stored, hcm>>

Refresh == hcm' \in Balances /\ UNCHANGED <<calling, result, wire, stored>>

Next == Send \/ Serve \/ Succeed \/ Fail \/ Restart \/ Refresh

Spec == Init /\ [][Next]_vars
=============================================================================
