---------------------------- MODULE HcmClientProof ----------------------------
(***************************************************************************)
(* With an HCM that keeps its answers, retries are harmless: for any       *)
(* number of tries, calls, restarts and balances.                          *)
(***************************************************************************)
EXTENDS HcmClient, FiniteSetTheorems, TLAPS

Reliable == Scenarios \subseteq {"correct", "timeout"}

Answers == [to : Nat \X Nat, is : {"ok", "refused", "503"}]

Types ==
  /\ scenario \in Scenarios
  /\ stored \in {"unseen", "ok", "refused"}
  /\ call \in [at : {"idle", "awaiting", "backoff"}, try : Nat]
  /\ calls \in Nat
  /\ posts \subseteq Nat \X Nat
  /\ answers \subseteq Answers
  /\ hcm \in Nat
  /\ answered \in BOOLEAN
  /\ result \in [ok : BOOLEAN] \cup {None}

\* What HCM remembers, did and told agree.
AnswersAgree ==
  /\ applied = IF stored = "ok" THEN 1 ELSE 0
  /\ \A answer \in answers : answer.is # "503" => stored = answer.is
  /\ result = [ok |-> TRUE] => stored = "ok"

\* HCM has looked the key up if it remembers an answer of the last call, and
\* not while it remembers nothing of a call.
LookupsAgree ==
  /\ stored = "unseen" /\ calls > 0 => ~answered
  /\ \A answer \in answers : answer.is # "503" /\ answer.to[1] = calls => answered
  /\ calls = 0 => posts = {} /\ answers = {} /\ call = Idle
  /\ \A answer \in answers : answer.to[1] <= calls
  /\ \A p \in posts : p[1] <= calls

Inv == Types /\ AnswersAgree /\ LookupsAgree

\* What HcmCommand sees of the state.
Result == IF result = None THEN "none" ELSE IF result.ok THEN "ok" ELSE "failed"
Effects == {IF Operation = "FILE" THEN 0 - CommandDays ELSE CommandDays}
-----------------------------------------------------------------------------
LEMMA Results ==
  [ok |-> TRUE] \in [ok : BOOLEAN] /\ [ok |-> FALSE] \in [ok : BOOLEAN] /\ None # [ok |-> TRUE]
<1>1. [ok |-> TRUE] \in [ok : BOOLEAN] /\ [ok |-> FALSE] \in [ok : BOOLEAN]
  OBVIOUS
<1> QED BY <1>1, NoneAssumption

LEMMA InvInit == Init => Inv
BY NumbersAssumption, Results DEF Init, Inv, Types, AnswersAgree, LookupsAgree, Idle

LEMMA CallKeeps == ASSUME Inv, Call PROVE Inv'
<1>1. Types'
  <2>1. call' \in [at : {"idle", "awaiting", "backoff"}, try : Nat]
    BY DEF Call, Awaiting
  <2>2. <<calls + 1, 1>> \in Nat \X Nat /\ calls' \in Nat
    BY DEF Inv, Types, Call
  <2>3. posts' \subseteq Nat \X Nat
    BY <2>2 DEF Inv, Types, Call
  <2>4. answered' \in BOOLEAN /\ UNCHANGED <<result, scenario, stored, hcm, answers>>
    BY DEF Call
  <2> QED BY <2>1, <2>2, <2>3, <2>4 DEF Inv, Types
<1>2. AnswersAgree'
  BY DEF Inv, AnswersAgree, Call
<1>3. LookupsAgree'
  BY DEF Inv, Types, LookupsAgree, Call, Answers
<1> QED BY <1>1, <1>2, <1>3 DEF Inv

LEMMA RetryKeeps == ASSUME Inv, Retry PROVE Inv'
<1>1. Types'
  BY DEF Inv, Types, Retry, Awaiting, mockVars
<1>2. AnswersAgree'
  BY DEF Inv, AnswersAgree, Retry, mockVars
<1>3. LookupsAgree'
  BY DEF Inv, Types, LookupsAgree, Retry, mockVars, Idle
<1> QED BY <1>1, <1>2, <1>3 DEF Inv

LEMMA TryFailedIs ==
  ASSUME Types, TryFailed
  PROVE  /\ call' \in [at : {"idle", "awaiting", "backoff"}, try : Nat]
         /\ calls' = calls
         /\ result' = result \/ result' = [ok |-> FALSE]
         /\ call' # Idle => result' = result /\ call'.at = "backoff" /\ call.try < MaxTries
         /\ call' = Idle => result' = [ok |-> FALSE]
BY DEF Types, TryFailed, Return, Idle

LEMMA ReceiveKeeps ==
  ASSUME Inv, NEW answer \in answers, Receive(answer)
  PROVE  Inv'
<1>1. answers' \subseteq answers /\ UNCHANGED <<mockVars, posts, calls>>
  BY TryFailedIs DEF Receive, Return, Inv, Types, Answers
<1>2. /\ call' \in [at : {"idle", "awaiting", "backoff"}, try : Nat]
      /\ result' \in {[ok |-> TRUE], [ok |-> FALSE], result}
      /\ result' = [ok |-> TRUE] => answer.is = "ok" \/ result' = result
  <2>1. CASE answer.is = "503"
    BY <2>1, TryFailedIs, Results DEF Receive, Inv
  <2>2. CASE answer.is # "503"
    <3>1. answer.is \in {"ok", "refused"}
      BY <2>2 DEF Inv, Types, Answers
    <3>2. call' = Idle /\ result' = [ok |-> answer.is = "ok"]
      BY <3>1 DEF Receive, Return
    <3>3. Idle \in [at : {"idle", "awaiting", "backoff"}, try : Nat]
      BY DEF Idle
    <3>4. answer.is = "ok" \/ result' = [ok |-> FALSE]
      BY <3>1, <3>2
    <3>5. answer.is = "ok" => result' = [ok |-> TRUE]
      BY <3>2
    <3> QED BY <3>2, <3>3, <3>4, <3>5, Results
  <2> QED BY <2>1, <2>2
<1>3. Types'
  <2>1. result' \in [ok : BOOLEAN] \cup {None}
    BY <1>2, Results DEF Inv, Types
  <2> QED BY <1>1, <1>2, <2>1 DEF Inv, Types, mockVars
<1>4. AnswersAgree'
  BY <1>1, <1>2 DEF Inv, AnswersAgree, mockVars
<1>5. LookupsAgree'
  BY <1>1 DEF Inv, LookupsAgree, mockVars, Receive, Idle
<1> QED BY <1>3, <1>4, <1>5 DEF Inv

LEMMA ConnectionKeeps == ASSUME Inv, ConnectionFails PROVE Inv'
<1>1. UNCHANGED <<mockVars, posts, answers, calls>>
  BY TryFailedIs DEF ConnectionFails, Inv
<1>2. /\ call' \in [at : {"idle", "awaiting", "backoff"}, try : Nat]
      /\ result' = result \/ result' = [ok |-> FALSE]
  BY TryFailedIs DEF ConnectionFails, Inv
<1>3. Types'
  <2>1. result' \in [ok : BOOLEAN] \cup {None}
    BY <1>2, Results DEF Inv, Types
  <2> QED BY <1>1, <1>2, <2>1 DEF Inv, Types, mockVars
<1>4. AnswersAgree'
  BY <1>1, <1>2 DEF Inv, AnswersAgree, mockVars
<1>5. LookupsAgree'
  BY <1>1 DEF Inv, LookupsAgree, mockVars, ConnectionFails, Idle
<1> QED BY <1>3, <1>4, <1>5 DEF Inv

\* What HCM answers with, when it keeps its answers.
Serving(p, a) ==
  /\ p \in Nat \X Nat /\ p[1] <= calls
  /\ posts' = posts \ {p}
  /\ UNCHANGED <<clientVars, scenario>>
  /\ answers' = answers \cup {[to |-> p, is |-> a]}
  /\ a = "503" => UNCHANGED <<stored, hcm, applied, answered>>
  /\ a # "503" =>
       /\ stored \in {"unseen", a}
       /\ stored' = a
       /\ answered' = (answered \/ stored = "unseen" \/ p[1] = calls)
  /\ stored # "unseen" \/ a = "refused" => UNCHANGED <<hcm, applied>>
  /\ stored = "unseen" /\ a = "ok" =>
       /\ applied' = applied + 1
       /\ hcm' = hcm + (IF Operation = "FILE" THEN 0 - CommandDays ELSE CommandDays)
       /\ hcm' \in Nat

LEMMA ServeIs ==
  ASSUME Reliable, Inv, NEW p \in posts, Serve(p)
  PROVE  \E a \in {"503", "refused", "ok"} : Serving(p, a)
<1>1. p \in Nat \X Nat /\ p[1] <= calls /\ scenario \in {"correct", "timeout"}
  BY DEF Inv, Types, LookupsAgree, Reliable
<1>2. CASE scenario = "timeout"
  <2>1. Serving(p, "503")
    BY <1>1, <1>2 DEF Serve, Serving
  <2> QED BY <2>1
<1>3. CASE scenario = "correct" /\ stored # "unseen"
  <2>1. Serving(p, stored) /\ stored \in {"refused", "ok"}
    BY <1>1, <1>3 DEF Serve, Serving, Dedups, Inv, Types
  <2> QED BY <2>1
<1>4. CASE scenario = "correct" /\ stored = "unseen"
  <2>1. /\ Process(p)
        /\ posts' = posts \ {p}
        /\ UNCHANGED <<clientVars, scenario>>
        /\ answered' = (answered \/ stored = "unseen" \/ p[1] = calls)
    BY <1>4 DEF Serve
  <2>2. CASE Operation = "FILE" /\ hcm < CommandDays
    <3>1. Serving(p, "refused")
      BY <1>1, <1>4, <2>1, <2>2 DEF Serving, Process, Remember, Dedups
    <3> QED BY <3>1
  <2>3. CASE ~(Operation = "FILE" /\ hcm < CommandDays)
    <3>1. hcm \in Nat /\ CommandDays \in Nat
      BY NumbersAssumption DEF Inv, Types
    <3>2. Serving(p, "ok")
      BY <1>1, <1>4, <2>1, <2>3, <3>1 DEF Serving, Process, Remember, Dedups
    <3> QED BY <3>2
  <2> QED BY <2>2, <2>3
<1> QED BY <1>1, <1>2, <1>3, <1>4

LEMMA ServeKeeps ==
  ASSUME Reliable, Inv, NEW p \in posts, Serve(p)
  PROVE  Inv'
<1>1. PICK a \in {"503", "refused", "ok"} : Serving(p, a)
  BY ServeIs
<1>2. calls' = calls /\ call' = call /\ result' = result /\ scenario' = scenario
  BY <1>1 DEF Serving, clientVars
<1>3. Types'
  <2>1. [to |-> p, is |-> a] \in Answers
    BY <1>1 DEF Serving, Answers
  <2>2. answers' \subseteq Answers /\ posts' \subseteq Nat \X Nat
    BY <1>1, <2>1 DEF Serving, Inv, Types
  <2>3. stored' \in {"unseen", "ok", "refused"} /\ hcm' \in Nat /\ answered' \in BOOLEAN
    BY <1>1 DEF Serving, Inv, Types
  <2> QED BY <1>2, <2>2, <2>3 DEF Inv, Types
<1>4. stored # "unseen" => stored' = stored
  BY <1>1 DEF Serving
<1>5. AnswersAgree'
  <2>1. \A answer \in answers : answer.is # "503" => stored' = answer.is
    BY <1>4 DEF Inv, Types, AnswersAgree, Answers
  <2>2. a # "503" => stored' = a
    BY <1>1 DEF Serving
  <2>3. \A answer \in answers' : answer.is # "503" => stored' = answer.is
    BY <1>1, <2>1, <2>2 DEF Serving
  <2>4. applied' = IF stored' = "ok" THEN 1 ELSE 0
    BY <1>1 DEF Serving, Inv, Types, AnswersAgree
  <2>5. result' = [ok |-> TRUE] => stored' = "ok"
    BY <1>2, <1>4 DEF Inv, AnswersAgree
  <2> QED BY <2>3, <2>4, <2>5 DEF AnswersAgree
<1>6. LookupsAgree'
  <2>1. \A answer \in answers' : answer.to[1] <= calls
    BY <1>1 DEF Serving, Inv, LookupsAgree
  <2>2. a # "503" /\ p[1] = calls => answered'
    BY <1>1 DEF Serving
  <2>3. answered => answered'
    BY <1>1 DEF Serving
  <2>4. \A answer \in answers' : answer.is # "503" /\ answer.to[1] = calls => answered'
    BY <1>1, <2>2, <2>3 DEF Serving, Inv, LookupsAgree
  <2>5. stored' = "unseen" /\ calls > 0 => ~answered'
    BY <1>1 DEF Serving, Inv, LookupsAgree
  <2>6. calls # 0 /\ \A q \in posts' : q[1] <= calls
    BY <1>1 DEF Serving, Inv, LookupsAgree
  <2> QED BY <1>2, <2>1, <2>4, <2>5, <2>6 DEF LookupsAgree
<1> QED BY <1>3, <1>5, <1>6 DEF Inv

LEMMA RestKeeps ==
  ASSUME Inv,
         Restart \/ Refresh \/ (\E s \in Scenarios \ {scenario} : SetScenario(s))
           \/ UNCHANGED vars
  PROVE  Inv'
<1>1. UNCHANGED <<calls, posts, answers, stored, applied, answered>>
  BY DEF Restart, Refresh, SetScenario, vars, clientVars, mockVars
<1>2. /\ call' \in {call, Idle}
      /\ result' \in {result, None}
      /\ scenario' \in Scenarios
      /\ hcm' \in Nat
  BY NumbersAssumption
     DEF Restart, Refresh, SetScenario, vars, clientVars, mockVars, Inv, Types
<1>3. Types'
  BY <1>1, <1>2 DEF Inv, Types, Idle
<1>4. AnswersAgree'
  BY <1>1, <1>2, Results DEF Inv, AnswersAgree
<1>5. LookupsAgree'
  BY <1>1, <1>2 DEF Inv, LookupsAgree
<1> QED BY <1>3, <1>4, <1>5 DEF Inv

LEMMA InvAlways == ASSUME Reliable PROVE Spec => []Inv
<1>1. Inv /\ [Next]_vars => Inv'
  BY CallKeeps, RetryKeeps, ReceiveKeeps, ConnectionKeeps, ServeKeeps, RestKeeps DEF Next
<1> QED BY <1>1, InvInit, PTL DEF Spec
-----------------------------------------------------------------------------
\* hcm-client.service.ts 198-277: repeats, restarts and late deliveries of one
\* command make HCM carry it out at most once.
THEOREM CarriedOutOnce == ASSUME Reliable PROVE Spec => []AppliedOnce
<1>1. Inv => AppliedOnce
  BY DEF Inv, AnswersAgree, AppliedOnce
<1> QED BY <1>1, InvAlways, PTL

\* hcm-client.service.ts 230-252: ok means that HCM carried the command out.
THEOREM OkIsTrue == ASSUME Reliable PROVE Spec => []OkIsApplied
<1>1. Inv => OkIsApplied
  BY DEF Inv, AnswersAgree, OkIsApplied
<1> QED BY <1>1, InvAlways, PTL
-----------------------------------------------------------------------------
(* Refinement of HcmCommand *)

LEMMA Awake == call.at \in {"awaiting", "backoff"} => call # Idle
BY DEF Idle

\* A try that failed ends the call, or changes nothing HcmCommand sees.
LEMMA TryFailedRefines ==
  ASSUME Inv, call.at = "awaiting", TryFailed, UNCHANGED mockVars
  PROVE  [Command!Next]_(Command!vars)
<1>1. call # Idle
  BY Awake
<1>2. CASE call' = Idle
  <2>1. Result' = "failed"
    BY <1>2, TryFailedIs, Results, NoneAssumption DEF Inv, Result
  <2>2. Command!Fail
    BY <1>1, <1>2, <2>1 DEF Command!Fail, Result, mockVars
  <2> QED BY <2>2 DEF Command!Next
<1>3. CASE call' # Idle
  <2>1. result' = result
    BY <1>3, TryFailedIs DEF Inv
  <2> QED BY <1>1, <1>3, <2>1 DEF Command!vars, mockVars
<1> QED BY <1>2, <1>3

LEMMA ReceiveRefines ==
  ASSUME Inv, NEW answer \in answers, Receive(answer)
  PROVE  [Command!Next]_(Command!vars)
<1>1. call.at = "awaiting" /\ call # Idle /\ UNCHANGED mockVars
  BY Awake DEF Receive
<1>2. CASE answer.is = "503"
  BY <1>1, <1>2, TryFailedRefines DEF Receive
<1>3. CASE answer.is = "refused"
  <2>1. call' = Idle /\ result' = [ok |-> FALSE]
    BY <1>3 DEF Receive, Return
  <2>2. Result' = "failed"
    BY <2>1, Results, NoneAssumption DEF Result
  <2>3. Command!Fail
    BY <1>1, <2>1, <2>2 DEF Command!Fail, Result, mockVars
  <2> QED BY <2>3 DEF Command!Next
<1>4. CASE answer.is = "ok"
  <2>1. call' = Idle /\ result' = [ok |-> TRUE]
    BY <1>4 DEF Receive, Return
  <2>2. Result' = "ok"
    BY <2>1, Results DEF Result
  <2>3. stored = "ok" /\ answered
    BY <1>4 DEF Receive, Current, Inv, AnswersAgree, LookupsAgree
  <2>4. Command!Succeed
    BY <1>1, <2>1, <2>2, <2>3 DEF Command!Succeed, Result, mockVars
  <2> QED BY <2>4 DEF Command!Next
<1> QED BY <1>2, <1>3, <1>4 DEF Inv, Types, Answers

LEMMA ServeRefines ==
  ASSUME Reliable, Inv, NEW p \in posts, Serve(p)
  PROVE  [Command!Next]_(Command!vars)
<1>1. PICK a \in {"503", "refused", "ok"} : Serving(p, a)
  BY ServeIs
<1>2. call' = call /\ result' = result
  BY <1>1 DEF Serving, clientVars
<1>3. CASE a = "503" \/ (answered /\ stored # "unseen")
  <2>1. UNCHANGED <<stored, hcm>> /\ answered' = answered
    BY <1>1, <1>3 DEF Serving, Inv, Types
  <2> QED BY <1>2, <2>1 DEF Command!vars
<1>4. CASE a # "503" /\ stored # "unseen" /\ ~answered
  <2>1. UNCHANGED <<stored, hcm>>
    BY <1>1, <1>4 DEF Serving
  <2>2. CASE answered'
    <3>1. Command!Serve
      BY <1>2, <1>4, <2>1, <2>2 DEF Command!Serve
    <3> QED BY <3>1 DEF Command!Next
  <2>3. CASE ~answered'
    BY <1>2, <1>4, <2>1, <2>3 DEF Command!vars
  <2> QED BY <2>2, <2>3
<1>5. CASE a # "503" /\ stored = "unseen"
  <2>1. ~answered /\ answered'
    <3>1. calls > 0
      BY <1>1 DEF Serving, Inv, Types, LookupsAgree
    <3> QED BY <1>1, <1>5, <3>1 DEF Serving, Inv, LookupsAgree
  <2>2. \/ stored' = "refused" /\ UNCHANGED hcm
        \/ stored' = "ok" /\ \E effect \in Effects : hcm + effect >= 0 /\ hcm' = hcm + effect
    BY <1>1, <1>5 DEF Serving, Effects
  <2>3. Command!Serve
    BY <1>2, <1>5, <2>1, <2>2 DEF Command!Serve, Effects
  <2> QED BY <2>3 DEF Command!Next
<1> QED BY <1>3, <1>4, <1>5

LEMMA RestRefines ==
  ASSUME Inv,
         Call \/ Retry \/ Restart \/ Refresh
           \/ (\E s \in Scenarios \ {scenario} : SetScenario(s)) \/ UNCHANGED vars
  PROVE  [Command!Next]_(Command!vars)
<1>1. CASE Call
  <2>1. call' # Idle
    BY <1>1 DEF Call, Awaiting, Idle
  <2>2. Command!Send
    BY <1>1, <2>1 DEF Call, Command!Send
  <2> QED BY <2>2 DEF Command!Next
<1>2. CASE Retry
  <2>1. call # Idle /\ call' # Idle
    BY <1>2, Awake DEF Retry, Awaiting, Idle
  <2> QED BY <1>2, <2>1 DEF Retry, mockVars, Command!vars
<1>3. CASE Restart
  <2>1. Command!Restart
    BY <1>3 DEF Restart, mockVars, Command!Restart
  <2> QED BY <2>1 DEF Command!Next
<1>4. CASE Refresh
  <2>1. Command!Refresh
    BY <1>4 DEF Refresh, clientVars, Command!Refresh
  <2> QED BY <2>1 DEF Command!Next
<1>5. CASE (\E s \in Scenarios \ {scenario} : SetScenario(s)) \/ UNCHANGED vars
  BY <1>5 DEF SetScenario, clientVars, mockVars, vars, Command!vars
<1> QED BY <1>1, <1>2, <1>3, <1>4, <1>5

\* hcm-client.service.ts 198-277: all the tries of a call behave as the one
\* POST that the dispatcher's model takes them for.
THEOREM TriesAreOne == ASSUME Reliable PROVE Spec => ImplementsCommand
<1>1. Init => Command!Init
  BY DEF Init, Command!Init
<1>2. Inv /\ [Next]_vars => [Command!Next]_(Command!vars)
  <2> SUFFICES ASSUME Inv, [Next]_vars PROVE [Command!Next]_(Command!vars)
    OBVIOUS
  <2>1. CASE ConnectionFails
    BY <2>1, TryFailedRefines DEF ConnectionFails
  <2>2. CASE \E answer \in answers : Receive(answer)
    BY <2>2, ReceiveRefines
  <2>3. CASE \E p \in posts : Serve(p)
    BY <2>3, ServeRefines
  <2> QED BY <2>1, <2>2, <2>3, RestRefines DEF Next
<1> QED BY <1>1, <1>2, InvAlways, PTL DEF Spec, ImplementsCommand, Command!Spec
-----------------------------------------------------------------------------
(* What a call leaves on the wire, in every scenario of the mock *)

\* No POST has a number beyond the cap: a call only goes on below it.
TriesCounted ==
  /\ calls \in Nat
  /\ call \in [at : {"idle", "awaiting", "backoff"}, try : 0 .. MaxTries]
  /\ call.at = "backoff" => call.try < MaxTries
  /\ posts \subseteq Nat \X (1 .. MaxTries)
  /\ stored \in {"unseen", "ok", "refused"}
  /\ \A answer \in answers : answer.is \in {"ok", "refused", "503"}

LEMMA TriesCountedInit == Init => TriesCounted
BY NumbersAssumption DEF Init, TriesCounted, Idle

LEMMA TriesCountedStep ==
  ASSUME TriesCounted, [Next]_vars
  PROVE  TriesCounted'
<1>1. CASE Call
  <2>1. <<calls + 1, 1>> \in Nat \X (1 .. MaxTries)
    BY NumbersAssumption DEF TriesCounted
  <2> QED
    BY <1>1, <2>1, NumbersAssumption DEF TriesCounted, Call, Awaiting
<1>2. CASE Retry
  <2>1. call.try + 1 \in 1 .. MaxTries /\ calls \in Nat
    BY <1>2, NumbersAssumption DEF TriesCounted, Retry
  <2>2. <<calls, call.try + 1>> \in Nat \X (1 .. MaxTries)
    BY <2>1
  <2> QED
    BY <1>2, <2>1, <2>2 DEF TriesCounted, Retry, Awaiting, mockVars
<1>3. ASSUME TryFailed, call.at = "awaiting", answers' \subseteq answers,
             UNCHANGED <<posts, stored>>
      PROVE  TriesCounted'
  <2>1. CASE call.try < MaxTries
    BY <1>3, <2>1 DEF TriesCounted, TryFailed
  <2>2. CASE ~(call.try < MaxTries)
    BY <1>3, <2>2, NumbersAssumption DEF TriesCounted, TryFailed, Return, Idle
  <2> QED
    BY <2>1, <2>2
<1>4. CASE ConnectionFails
  BY <1>3, <1>4 DEF ConnectionFails, mockVars
<1>5. CASE \E answer \in answers : Receive(answer)
  <2>1. PICK answer \in answers : Receive(answer)
    BY <1>5
  <2>2. answers' \subseteq answers /\ UNCHANGED <<posts, stored>> /\ call.at = "awaiting"
    BY <2>1 DEF Receive, mockVars
  <2>3. CASE answer.is = "503"
    BY <1>3, <2>1, <2>2, <2>3 DEF Receive
  <2>4. CASE answer.is \in {"ok", "refused"}
    <3>1. call' = Idle /\ calls' = calls
      BY <2>1, <2>4 DEF Receive, Return
    <3> QED
      BY <2>2, <3>1, NumbersAssumption DEF TriesCounted, Idle
  <2> QED
    BY <2>3, <2>4 DEF TriesCounted
<1>6. CASE \E p \in posts : Serve(p)
  <2>1. PICK p \in posts : Serve(p)
    BY <1>6
  <2>2. posts' \subseteq posts /\ UNCHANGED <<calls, call>>
    BY <2>1 DEF Serve, clientVars
  <2>3. /\ stored' \in {"unseen", "ok", "refused"}
        /\ \A answer \in answers' : answer.is \in {"ok", "refused", "503"}
    BY <2>1 DEF TriesCounted, Serve, Process, Remember
  <2> QED
    BY <2>2, <2>3 DEF TriesCounted
<1>7. CASE \/ Restart \/ Refresh \/ UNCHANGED vars
           \/ \E s \in Scenarios \ {scenario} : SetScenario(s)
  BY <1>7, NumbersAssumption
  DEF TriesCounted, Restart, Refresh, SetScenario, Idle, vars, clientVars, mockVars
<1> QED
  BY <1>1, <1>2, <1>4, <1>5, <1>6, <1>7 DEF Next

\* hcm-client.service.ts 198-277: whatever HCM and the network do, a call that
\* gave up or was cut off leaves at most MaxTries POSTs that may still land.
THEOREM TriesAreBounded == Spec => []TriesBounded
<1>1. ASSUME TriesCounted, NEW n \in 1 .. calls
      PROVE  Cardinality({p \in posts : p[1] = n}) <= MaxTries
  <2>1. MaxTries \in Nat
    BY NumbersAssumption
  <2>2. IsFiniteSet({n}) /\ Cardinality({n}) = 1
    BY FS_Singleton
  <2>3. IsFiniteSet(1 .. MaxTries) /\ Cardinality(1 .. MaxTries) = MaxTries
    BY <2>1, FS_Interval
  <2>4. /\ IsFiniteSet({n} \X (1 .. MaxTries))
        /\ Cardinality({n} \X (1 .. MaxTries)) = 1 * MaxTries
    <3> QED
      BY <2>2, <2>3, FS_Product
  <2>5. {p \in posts : p[1] = n} \in SUBSET ({n} \X (1 .. MaxTries))
    BY <1>1 DEF TriesCounted
  <2> QED
    BY <2>1, <2>4, <2>5, FS_Subset
<1>2. TriesCounted => TriesBounded
  BY <1>1 DEF TriesBounded
<1> QED
  BY <1>2, TriesCountedInit, TriesCountedStep, PTL DEF Spec
=============================================================================
