--------------------------- MODULE RequestLifecycle ---------------------------
(***************************************************************************)
(* What the service promises about one request, whatever the balances, the *)
(* outbox, the lock, restarts and the network do: the state machine of the *)
(* README, and what HCM may be told along it.                              *)
(***************************************************************************)
CONSTANT Requests

VARIABLES
  status,     \* where each request is; "NONE" before it is submitted
  approved,   \* the requests a manager ever approved
  deducted,   \* the requests HCM ever deducted
  returned    \* the requests HCM ever gave the days back for

vars == <<status, approved, deducted, returned>>

Move(r, from, to) ==
  /\ status[r] \in from
  /\ status' = [status EXCEPT ![r] = to]

Init ==
  /\ status = [r \in Requests |-> "NONE"]
  /\ approved = {}
  /\ deducted = {}
  /\ returned = {}

Submit(r) ==
  Move(r, {"NONE"}, "PENDING") /\ UNCHANGED <<approved, deducted, returned>>

Approve(r) ==
  /\ Move(r, {"PENDING"}, "PENDING_SYNC")
  /\ approved' = approved \cup {r}
  /\ UNCHANGED <<deducted, returned>>

\* HCM may deduct late, even after the request was withdrawn.
HcmDeducts(r) ==
  /\ r \in approved
  /\ deducted' = deducted \cup {r}
  /\ UNCHANGED <<status, approved, returned>>

\* No request is APPROVED that HCM has not deducted.
Confirm(r) ==
  /\ r \in deducted
  /\ Move(r, {"PENDING_SYNC"}, "APPROVED")
  /\ UNCHANGED <<approved, deducted, returned>>

Withdraw(r) ==
  /\ \E final \in {"REJECTED", "CANCELLED", "EXPIRED"} :
       Move(r, {"PENDING", "PENDING_SYNC"}, final)
  /\ UNCHANGED <<approved, deducted, returned>>

CancelApproved(r) ==
  Move(r, {"APPROVED"}, "CANCELLED") /\ UNCHANGED <<approved, deducted, returned>>

\* The days come back only for an approval that was cancelled or given up.
HcmReturns(r) ==
  /\ r \in approved
  /\ status[r] \in {"REJECTED", "CANCELLED"}
  /\ returned' = returned \cup {r}
  /\ UNCHANGED <<status, approved, deducted>>

Next ==
  \E r \in Requests :
    \/ Submit(r) \/ Approve(r) \/ Confirm(r) \/ Withdraw(r)
    \/ CancelApproved(r) \/ HcmDeducts(r) \/ HcmReturns(r)

Spec == Init /\ [][Next]_vars
=============================================================================
