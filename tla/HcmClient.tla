------------------------------ MODULE HcmClient ------------------------------
(***************************************************************************)
(* HcmClientService.postWithRetry under one Idempotency-Key, and the mock  *)
(* HCM in its scenarios, over a network that delays a POST for as long as  *)
(* it likes, answers included, and drops connections.  OutboxDispatcher    *)
(* and Hcm see all the tries of a call as one; here they are told apart.   *)
(***************************************************************************)
EXTENDS Integers, FiniteSets

CONSTANTS
  Operation,     \* "FILE" or "REVERSE"
  CommandDays,   \* cmd.days
  MaxTries,      \* HCM_RETRY_MAX_ATTEMPTS
  MaxCalls,      \* bound: calls of postWithRetry, by dispatches of the row
  MaxRestarts,   \* bound: restarts of the service
  Balances,      \* the balances HCM may give the employee on its own
  Scenarios,     \* scenarios of the mock that the run visits
  None           \* no result

ASSUME NumbersAssumption ==
  /\ CommandDays \in Nat \ {0}
  /\ MaxTries \in Nat \ {0}
  /\ MaxCalls \in Nat
  /\ MaxRestarts \in Nat
  /\ Balances \subseteq Nat
ASSUME ScenariosAssumption ==
  Scenarios \subseteq {"correct", "silent-insufficient", "timeout", "ignore-idempotency-key"}
ASSUME NoneAssumption == None \notin [ok : BOOLEAN]

VARIABLES
  call,          \* the call under way: what it awaits, and its try
  calls,         \* how many calls there were
  result,        \* what the last call returned
  posts,         \* the POSTs <<call, try>> that HCM has not served
  answers,       \* HCM's answers on their way back
  scenario,
  stored,        \* idempotencyStore at the command's key
  hcm,           \* HCM's balance
  applied,       \* history: how often HCM carried the command out
  answered,      \* history: HCM looked the key up for the last call
  restarts

clientVars == <<call, calls, result, restarts>>
mockVars == <<scenario, stored, hcm, applied, answered>>
vars == <<clientVars, mockVars, posts, answers>>

Idle == [at |-> "idle", try |-> 0]
Current == <<calls, call.try>>
-----------------------------------------------------------------------------
(* postWithRetry *)

Awaiting(try) == [at |-> "awaiting", try |-> try]

\* The first try.
Call ==
  /\ call = Idle
  /\ calls < MaxCalls
  /\ calls' = calls + 1
  /\ call' = Awaiting(1)
  /\ posts' = posts \cup {<<calls + 1, 1>>}
  /\ answered' = FALSE
  /\ UNCHANGED <<result, restarts, scenario, stored, hcm, applied, answers>>

\* Mutant of Retry: the attempt is not counted.
RetryUncounted ==
  /\ call.at = "backoff"
  /\ call' = Awaiting(call.try)
  /\ posts' = posts \cup {Current}
  /\ UNCHANGED <<calls, result, restarts, mockVars, answers>>

\* The backoff is over: the next try, with the same Idempotency-Key.
Retry ==
  /\ call.at = "backoff"
  /\ call' = Awaiting(call.try + 1)
  /\ posts' = posts \cup {<<calls, call.try + 1>>}
  /\ UNCHANGED <<calls, result, restarts, mockVars, answers>>

Return(ok) ==
  /\ call' = Idle
  /\ result' = [ok |-> ok]
  /\ UNCHANGED <<calls, restarts>>

\* Mutant of TryFailed: one try too many.
TryFailedOnceMore ==
  IF call.try <= MaxTries
    THEN /\ call' = [call EXCEPT !.at = "backoff"]
         /\ UNCHANGED <<calls, result, restarts>>
    ELSE Return(FALSE)

\* A retryable error: back off, or report HCM unreachable.
TryFailed ==
  IF call.try < MaxTries
    THEN /\ call' = [call EXCEPT !.at = "backoff"]
         /\ UNCHANGED <<calls, result, restarts>>
    ELSE Return(FALSE)

\* Mutant of Receive: any 2xx counts as success.
ReceiveAny(answer) ==
  /\ call.at = "awaiting"
  /\ answer.to = Current
  /\ answers' = answers \ {answer}
  /\ IF answer.is = "503" THEN TryFailed ELSE Return(TRUE)
  /\ UNCHANGED <<mockVars, posts>>

\* ok: false in a 2xx is final; a 5xx is not.
Receive(answer) ==
  /\ call.at = "awaiting"
  /\ answer.to = Current
  /\ answers' = answers \ {answer}
  /\ CASE answer.is = "ok" -> Return(TRUE)
       [] answer.is = "refused" -> Return(FALSE)
       [] answer.is = "503" -> TryFailed
  /\ UNCHANGED <<mockVars, posts>>

\* The connection breaks, before HCM served the POST or after.
ConnectionFails ==
  /\ call.at = "awaiting"
  /\ TryFailed
  /\ UNCHANGED <<mockVars, posts, answers>>

Restart ==
  /\ restarts < MaxRestarts
  /\ restarts' = restarts + 1
  /\ call' = Idle
  /\ result' = None
  /\ UNCHANGED <<calls, mockVars, posts, answers>>
-----------------------------------------------------------------------------
(* The mock *)

Dedups == scenario # "ignore-idempotency-key"

\* Mutant of Remember: a refusal is not kept.
RememberOk(answer) == IF Dedups /\ answer = "ok" THEN answer ELSE stored

Remember(answer) == IF Dedups THEN answer ELSE stored

\* A command that the mock carries out, or answers as if it had.
Process(p) ==
  LET silent == Operation = "FILE" /\ scenario = "silent-insufficient"
      short == Operation = "FILE" /\ ~silent /\ hcm < CommandDays
      answer == IF short THEN "refused" ELSE "ok" IN
  /\ stored' = Remember(answer)
  /\ answers' = answers \cup {[to |-> p, is |-> answer]}
  /\ IF silent \/ short
       THEN UNCHANGED <<hcm, applied>>
       ELSE /\ hcm' = IF Operation = "FILE" THEN hcm - CommandDays ELSE hcm + CommandDays
            /\ applied' = applied + 1

\* Mutant of Serve: only repeats within a call are looked up.
ServeRepeats(p) ==
  /\ p \in posts
  /\ posts' = posts \ {p}
  /\ scenario # "timeout"
  /\ answered' = TRUE
  /\ IF Dedups /\ stored # "unseen" /\ p[2] > 1
       THEN /\ answers' = answers \cup {[to |-> p, is |-> stored]}
            /\ UNCHANGED <<stored, hcm, applied>>
       ELSE Process(p)
  /\ UNCHANGED <<clientVars, scenario>>

\* fileTimeOff and reverseTimeOff.
Serve(p) ==
  /\ p \in posts
  /\ posts' = posts \ {p}
  /\ \/ /\ scenario = "timeout"
        /\ answers' = answers \cup {[to |-> p, is |-> "503"]}
        /\ UNCHANGED <<stored, hcm, applied, answered>>
     \/ /\ scenario # "timeout"
        /\ answered' = (answered \/ stored = "unseen" \/ p[1] = calls)
        /\ IF Dedups /\ stored # "unseen"
             THEN /\ answers' = answers \cup {[to |-> p, is |-> stored]}
                  /\ UNCHANGED <<stored, hcm, applied>>
             ELSE Process(p)
  /\ UNCHANGED <<clientVars, scenario>>

\* POST /_control/scenario and /_control/refresh
SetScenario(s) ==
  /\ scenario' = s
  /\ UNCHANGED <<clientVars, stored, hcm, applied, answered, posts, answers>>

Refresh ==
  /\ hcm' \in Balances
  /\ UNCHANGED <<clientVars, scenario, stored, applied, answered, posts, answers>>
-----------------------------------------------------------------------------
Init ==
  /\ call = Idle
  /\ calls = 0
  /\ result = None
  /\ posts = {}
  /\ answers = {}
  /\ scenario \in Scenarios
  /\ stored = "unseen"
  /\ hcm \in Balances
  /\ applied = 0
  /\ answered = TRUE
  /\ restarts = 0

Next ==
  \/ Call \/ Retry \/ ConnectionFails \/ Restart \/ Refresh
  \/ \E answer \in answers : Receive(answer)
  \/ \E p \in posts : Serve(p)
  \/ \E s \in Scenarios \ {scenario} : SetScenario(s)

Spec == Init /\ [][Next]_vars

\* A POST is answered or its connection fails, and a backoff ends.
FairSpec ==
  Spec /\ WF_vars(Retry \/ ConnectionFails \/ \E answer \in answers : Receive(answer))
-----------------------------------------------------------------------------
\* However often one command is tried, called again after a restart, delayed
\* or overtaken by its own repeats, HCM carries it out once.
AppliedOnce == applied <= 1

\* A call says ok only if HCM carried the command out: not for a refusal, a
\* refusal it remembers, a timeout or another call's leftover answer.
OkIsApplied == result = [ok |-> TRUE] => applied = 1

\* No call leaves more POSTs behind than it has tries, so what a restart or a
\* give-up can still let land is bounded.
TriesBounded == \A n \in 1 .. calls : Cardinality({p \in posts : p[1] = n}) <= MaxTries

\* The tries of a call count as one POST that HCM serves once.
Command == INSTANCE HcmCommand WITH
  calling <- call # Idle,
  result <- IF result = None THEN "none"
            ELSE IF result.ok THEN "ok" ELSE "failed",
  wire <- ~answered,
  Effects <- {IF Operation = "FILE" THEN 0 - CommandDays ELSE CommandDays}

ImplementsCommand == Command!Spec

\* A call returns, whatever HCM answers, refuses or leaves out.
CallReturns == call # Idle ~> call = Idle
=============================================================================
