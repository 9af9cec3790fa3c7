--------------------------- MODULE AgentTurnProofs ---------------------------
(***************************************************************************)
(* Proofs about AgentTurn: its type invariant and the inductive invariant  *)
(* behind the bounds on LLM and tool calls and the delivery of the answer. *)
(***************************************************************************)
EXTENDS AgentTurn, FiniteSetTheorems, TLAPS

(* Charging any set of positions of Tenants leaves a table of amounts.     *)
LEMMA SpentAfterType ==
    ASSUME spent \in [TenantSet -> Nat],
           NEW positions \in SUBSET (1..Len(Tenants))
    PROVE  SpentAfter(positions) \in [TenantSet -> Nat]
<1>1. IsFiniteSet(1..Len(Tenants))
  BY FS_Interval, TenantsAssumption
<1>2. ASSUME NEW t \in TenantSet
      PROVE  Cardinality({j \in positions : Tenants[j] = t}) \in Nat
  <2>1. {j \in positions : Tenants[j] = t} \subseteq 1..Len(Tenants)
    OBVIOUS
  <2>2. IsFiniteSet({j \in positions : Tenants[j] = t})
    BY <1>1, <2>1, FS_Subset
  <2>3. QED
    BY <2>2, FS_CardinalityType
<1>3. QED
  BY <1>2 DEF SpentAfter

(* The spending middleware leaves a table of amounts.                      *)
LEMMA ChargeType ==
    ASSUME spent \in [TenantSet -> Nat], NEW paid
    PROVE  Charge(paid) \in [TenantSet -> Nat]
<1>1. Reached \subseteq 1..Len(Tenants)
  BY DEF Reached
<1>2. QED
  BY <1>1, SpentAfterType DEF Charge

(* The middlewares only add to what the client received and to the         *)
(* verdicts, whatever the cost of the response.                            *)
LEMMA SettleType ==
    ASSUME spent \in [TenantSet -> Nat],
           verdicts \subseteq {"blocked", "refused"},
           NEW paid, Settle(paid)
    PROVE  /\ spent' \in [TenantSet -> Nat]
           /\ verdicts' \subseteq {"blocked", "refused"}
<1>1. spent' \in [TenantSet -> Nat]
  BY ChargeType DEF Settle
<1>2. verdicts' \subseteq {"blocked", "refused"}
  BY DEF Settle
<1>3. QED
  BY <1>1, <1>2

(* Sending an event keeps the record of what the client got well typed.    *)
LEMMA SendType ==
    ASSUME sent \in Sent
    PROVE  /\ SendError => sent' \in Sent
           /\ \A paid : SendStatus(paid) => sent' \in Sent
           /\ \A paid : \A body \in Answers :
                SendFinal(body, paid) => sent' \in Sent
<1>1. SendError => sent' \in Sent
  BY DEF SendError, Sent
<1>2. ASSUME NEW paid, SendStatus(paid)
      PROVE  sent' \in Sent
  BY <1>2 DEF SendStatus, Sent
<1>3. ASSUME NEW paid, NEW body \in Answers, SendFinal(body, paid)
      PROVE  sent' \in Sent
  BY <1>3 DEF SendFinal, Sent
<1>4. QED
  BY <1>1, <1>2, <1>3

(* Every message the turn appends is a message.                            *)
LEMMA MessageTypes ==
    /\ Msg("user", "text", 0) \in Message
    /\ Msg("tool", "text", 0) \in Message
    /\ Msg("system", "text", 0) \in Message
    /\ \A n \in 1..MaxBatch : Msg("assistant", "text", n) \in Message
    /\ \A body \in Answers : Answer(body) \in Message
BY LimitsAssumption DEF Msg, Answer, Message, Answers

(* Counting a call keeps the counters natural numbers.                     *)
LEMMA CallsType ==
    ASSUME calls \in [main: Nat, fallback: Nat], NEW n \in Nat
    PROVE  /\ [calls EXCEPT !.main = @ + n] \in [main: Nat, fallback: Nat]
           /\ [calls EXCEPT !.fallback = @ + n] \in [main: Nat, fallback: Nat]
OBVIOUS

(* Charging a response leaves a response.                                  *)
LEMMA ChargedType ==
    ASSUME lastResponse \in [paid: BOOLEAN, charged: Nat], NEW n \in Nat
    PROVE  [lastResponse EXCEPT !.charged = @ + n]
               \in [paid: BOOLEAN, charged: Nat]
OBVIOUS

(* An LLM response is recorded with its cost and counted.                  *)
LEMMA RespondsType ==
    ASSUME calls \in [main: Nat, fallback: Nat],
           NEW paid \in BOOLEAN, NEW event, LLMResponds(paid, event)
    PROVE  /\ lastResponse' \in [paid: BOOLEAN, charged: Nat]
           /\ calls' \in [main: Nat, fallback: Nat]
           /\ UNCHANGED <<iteration, toolCallCount, nextCall, saved>>
<1>1. lastResponse' \in [paid: BOOLEAN, charged: Nat]
  BY DEF LLMResponds
<1>2. calls' \in [main: Nat, fallback: Nat]
  BY DEF LLMResponds
<1>3. QED
  BY <1>1, <1>2 DEF LLMResponds

(* Redacting replaces the body of one message.                             *)
LEMMA RedactType ==
    ASSUME turnMessages \in Seq(Message), Redact
    PROVE  turnMessages' \in Seq(Message)
<1>1. ASSUME NEW s \in Seq(Message), NEW i \in 1..Len(s)
      PROVE  [s EXCEPT ![i].body = "redacted"] \in Seq(Message)
  <2>0. s[i] \in Message
    OBVIOUS
  <2>1. [s[i] EXCEPT !.body = "redacted"] \in Message
    BY <2>0 DEF Message, Answers
  <2>2. QED
    BY <2>1
<1>2. QED
  BY <1>1 DEF Redact

-----------------------------------------------------------------------------
(* A turn starts well typed.                                               *)
LEMMA InitType == Init => TypeOK
<1> SUFFICES ASSUME Init PROVE TypeOK
  OBVIOUS
<1>1. turnMessages \in Seq(Message)
  BY MessageTypes DEF Init
<1>2. saved \in Seq(Message) /\ sent \in Sent
  BY DEF Init, NotSaved, Sent
<1>3. iteration \in 0..(MaxIterations - 1) /\ tokens \in Nat
  BY LimitsAssumption DEF Init
<1>4. nextCall \in Nat \ {0} /\ pendingCalls \in 0..MaxBatch
  BY LimitsAssumption DEF Init
<1>5. QED
  BY <1>1, <1>2, <1>3, <1>4 DEF Init, TypeOK, Stages, NoResponse

(* Every stage of a turn keeps the types.                                  *)
LEMMA TypeStep == TypeOK /\ [Next]_vars => TypeOK'
<1> SUFFICES ASSUME TypeOK, [Next]_vars PROVE TypeOK'
  OBVIOUS
<1> USE LimitsAssumption DEF TypeOK, loopVars, toolVars
<1>1. CASE GuardInput
  BY <1>1, SendType DEF GuardInput, Stages
<1>2. CASE ToolDiscovery
  BY <1>2 DEF ToolDiscovery, Stages
<1>3. CASE TurnFails
  <2>1. sent' \in Sent
    BY <1>3, SendType DEF TurnFails
  <2>2. calls' \in [main: Nat, fallback: Nat]
    BY <1>3, CallsType DEF TurnFails
  <2>3. QED
    BY <1>3, <2>1, <2>2 DEF TurnFails, Ended
<1>4. ASSUME NEW paid \in BOOLEAN, NEW n \in 1..MaxBatch,
             LLMToolCalls(n, paid)
      PROVE  TypeOK'
  <2>1. turnMessages' \in Seq(Message)
    BY <1>4, MessageTypes DEF LLMToolCalls
  <2>2. sent' \in Sent
    BY <1>4, SendType DEF LLMToolCalls
  <2>3. LLMResponds(paid, TRUE) /\ Settle(paid)
    BY <1>4 DEF LLMToolCalls
  <2>4. pc' \in Stages /\ shouldStop' \in BOOLEAN
    BY <1>4 DEF LLMToolCalls, Continue, Stages
  <2>5. /\ hadToolCalls' \in BOOLEAN
        /\ pendingCalls' \in 0..MaxBatch
        /\ tokens' \in Nat
        /\ UNCHANGED <<emptyRounds, finalContent>>
    BY <1>4 DEF LLMToolCalls
  <2>6. QED
    BY <2>1, <2>2, <2>3, <2>4, <2>5, RespondsType, SettleType
<1>5. ASSUME NEW paid \in BOOLEAN, LLMRawJson(paid)
      PROVE  TypeOK'
  <2>1. sent' \in Sent
    BY <1>5, SendType DEF LLMRawJson
  <2>2. LLMResponds(paid, FALSE)
    BY <1>5 DEF LLMRawJson
  <2>3. QED
    BY <1>5, <2>1, <2>2, RespondsType DEF LLMRawJson, Continue, Stages
<1>6. ASSUME NEW paid \in BOOLEAN, NEW body \in {"clean", "leaky"},
             LLMFinal(body, paid)
      PROVE  TypeOK'
  <2>1. body \in Answers
    BY DEF Answers
  <2>2. turnMessages' \in Seq(Message)
    BY <1>6, <2>1, MessageTypes DEF LLMFinal
  <2>3. sent' \in Sent
    BY <1>6, <2>1, SendType DEF LLMFinal
  <2>4. LLMResponds(paid, TRUE) /\ Settle(paid)
    BY <1>6 DEF LLMFinal
  <2>5. pc' \in Stages /\ shouldStop' \in BOOLEAN
    BY <1>6 DEF LLMFinal, Continue, Stages
  <2>6. /\ finalContent' \in Answers
        /\ tokens' \in Nat
        /\ UNCHANGED <<emptyRounds, hadToolCalls, pendingCalls>>
    BY <1>6, <2>1 DEF LLMFinal
  <2>7. QED
    BY <2>2, <2>3, <2>4, <2>5, <2>6, RespondsType, SettleType
<1>7. ASSUME NEW paid \in BOOLEAN, NEW reasoning \in BOOLEAN,
             LLMEmpty(reasoning, paid)
      PROVE  TypeOK'
  <2>1. sent' \in Sent
    BY <1>7, SendType DEF LLMEmpty
  <2>2. LLMResponds(paid, TRUE) /\ Settle(paid)
    BY <1>7 DEF LLMEmpty
  <2>3. pc' \in Stages /\ shouldStop' \in BOOLEAN
    BY <1>7 DEF LLMEmpty, Continue, Stages
  <2>4. /\ emptyRounds' \in Nat
        /\ UNCHANGED <<hadToolCalls, pendingCalls, finalContent, tokens,
                       turnMessages>>
    BY <1>7 DEF LLMEmpty
  <2>5. QED
    BY <2>1, <2>2, <2>3, <2>4, RespondsType, SettleType
<1>8. CASE ExecuteTool
  <2>1. PICK reminder \in {<< >>, <<Msg("system", "text", 0)>>} :
          /\ tokens' = tokens + 1 + Len(reminder)
          /\ turnMessages' =
               turnMessages \o <<Msg("tool", "text", 0)>> \o reminder
    BY <1>8 DEF ExecuteTool
  <2>2. reminder \in Seq(Message) /\ Len(reminder) \in Nat
    <3>1. CASE reminder = << >>
      BY <3>1
    <3>2. CASE reminder = <<Msg("system", "text", 0)>>
      BY <3>2, MessageTypes
    <3>3. QED
      BY <3>1, <3>2
  <2>3. turnMessages' \in Seq(Message) /\ tokens' \in Nat
    BY <2>1, <2>2, MessageTypes
  <2>4. nextCall' \in Nat \ {0} /\ pendingCalls' \in 0..MaxBatch
    BY <1>8 DEF ExecuteTool
  <2>5. QED
    BY <1>8, <2>3, <2>4, SendType
       DEF ExecuteTool, Continue, Stages
<1>9. CASE StopLoop
  BY <1>9 DEF StopLoop, Stages
<1>10. CASE NextIteration
  <2>1. iteration' \in 0..(MaxIterations - 1)
    BY <1>10 DEF NextIteration, LoopEnds
  <2>2. pendingCalls' \in 0..MaxBatch /\ hadToolCalls' \in BOOLEAN
    <3>1. pendingCalls' \in 0..MaxBatch
      BY <1>10 DEF NextIteration
    <3>2. hadToolCalls' = FALSE
      BY <1>10 DEF NextIteration
    <3>3. QED
      BY <3>1, <3>2
  <2>3. /\ pc' \in Stages
        /\ UNCHANGED <<emptyRounds, toolCallCount, nextCall, shouldStop,
                       finalContent, lastResponse, tokens, turnMessages,
                       spent, saved, sent, calls, verdicts>>
    BY <1>10 DEF NextIteration, Stages
  <2>4. QED
    BY <2>1, <2>2, <2>3
<1>11. CASE GuardOutput
  <2>1. finalContent' \in Answers \cup {"none", "error"}
    BY <1>11 DEF GuardOutput, Redact, Answers
  <2>2. turnMessages' \in Seq(Message)
    BY <1>11, RedactType DEF GuardOutput
  <2>3. QED
    BY <1>11, <2>1, <2>2 DEF GuardOutput, Stages
<1>12. CASE SkipFallback
  BY <1>12 DEF SkipFallback, Stages
<1>13. ASSUME NEW body \in {"clean", "leaky", "rawjson", "generic"},
              Fallback(body)
       PROVE  TypeOK'
  <2>1. body \in Answers
    BY DEF Answers
  <2>2. turnMessages' \in Seq(Message)
    BY <1>13, <2>1, MessageTypes DEF Fallback
  <2>3. sent' \in Sent
    BY <1>13, <2>1, SendType DEF Fallback
  <2>4. Settle(lastResponse.paid)
    BY <1>13 DEF Fallback
  <2>5. /\ lastResponse' \in [paid: BOOLEAN, charged: Nat]
        /\ calls' \in [main: Nat, fallback: Nat]
    <3>1. lastResponse' \in [paid: BOOLEAN, charged: Nat]
      <4>1. (IF Charges(lastResponse.paid) THEN 1 ELSE 0) \in Nat
        OBVIOUS
      <4>2. QED
        BY <1>13, <4>1, ChargedType DEF Fallback
    <3>2. calls' \in [main: Nat, fallback: Nat]
      BY <1>13, CallsType DEF Fallback
    <3>3. QED
      BY <3>1, <3>2
  <2>6. QED
    BY <1>13, <2>1, <2>2, <2>3, <2>4, <2>5, SettleType DEF Fallback, Stages
<1>14. CASE SaveHistory
  BY <1>14 DEF SaveHistory, Ended
<1>15. CASE ClientGone
  BY <1>15 DEF ClientGone, Ended
<1>16. ASSUME NEW t \in TenantSet, OtherTurnSpends(t)
       PROVE  TypeOK'
  BY <1>16 DEF OtherTurnSpends
<1>17. CASE UNCHANGED vars
  BY <1>17 DEF vars
<1>18. QED
  BY <1>1, <1>2, <1>3, <1>4, <1>5, <1>6, <1>7, <1>8, <1>9, <1>10, <1>11,
     <1>12, <1>13, <1>14, <1>15, <1>16, <1>17 DEF Next, Turn, LLMStage

(* The state stays well typed: in particular the iteration number stays    *)
(* below MaxIterations and pending_calls within one batch.                 *)
THEOREM TypeCorrect == Spec => []TypeOK
BY InitType, TypeStep, PTL DEF Spec

-----------------------------------------------------------------------------
(* A step keeps the loop in order: nothing final, stopped or pending       *)
(* between its stages, and the tool count within the limit and one batch.  *)
LEMMA LoopStep == TypeOK /\ LoopInv /\ [Next]_vars => LoopInv'
<1> SUFFICES ASSUME TypeOK, LoopInv, [Next]_vars PROVE LoopInv'
  OBVIOUS
<1>0. /\ pc \in Stages \cup Ended
      /\ toolCallCount \in Nat /\ pendingCalls \in 0..MaxBatch
      /\ nextCall \in Nat \ {0} /\ shouldStop \in BOOLEAN
      /\ hadToolCalls \in BOOLEAN
  BY DEF TypeOK
<1> USE <1>0, LimitsAssumption
    DEF LoopInv, LoopStages, ToolCallsBounded, loopVars, toolVars
<1>1. CASE GuardInput
  BY <1>1 DEF GuardInput
<1>2. CASE ToolDiscovery
  BY <1>2 DEF ToolDiscovery
<1>3. CASE TurnFails
  BY <1>3 DEF TurnFails
<1>4. ASSUME NEW paid \in BOOLEAN, NEW n \in 1..MaxBatch, LLMToolCalls(n, paid)
      PROVE  LoopInv'
  BY <1>4 DEF LLMToolCalls, LLMResponds, Continue
<1>5. ASSUME NEW paid \in BOOLEAN, LLMRawJson(paid)
      PROVE  LoopInv'
  BY <1>5 DEF LLMRawJson, LLMResponds, Continue
<1>6. ASSUME NEW paid \in BOOLEAN, NEW body \in {"clean", "leaky"},
             LLMFinal(body, paid)
      PROVE  LoopInv'
  BY <1>6 DEF LLMFinal, LLMResponds, Continue
<1>7. ASSUME NEW paid \in BOOLEAN, NEW reasoning \in BOOLEAN,
             LLMEmpty(reasoning, paid)
      PROVE  LoopInv'
  BY <1>7 DEF LLMEmpty, LLMResponds, Continue
<1>8. CASE ExecuteTool
  <2>0. /\ pc = "tools" /\ toolCallCount' = toolCallCount + 1
        /\ UNCHANGED <<hadToolCalls, finalContent>>
    BY <1>8 DEF ExecuteTool
  <2>a. shouldStop' = (shouldStop \/ TokensExceeded \/ OverToolLimit)
    BY <1>8, Zenon DEF ExecuteTool
  <2>b. ~shouldStop' => ~OverToolLimit
    BY <2>a, Zenon
  <2>c. ~OverToolLimit => toolCallCount + 1 <= MaxToolCalls
    BY DEF OverToolLimit
  <2>1. CASE BatchDone
    <3>1. /\ pendingCalls' = 0 /\ nextCall' = 1
          /\ pc' = IF shouldStop' THEN "guard_output" ELSE "loop_check"
      BY <1>8, <2>1 DEF ExecuteTool, Continue
    <3>2. ~shouldStop' => toolCallCount' <= MaxToolCalls
      BY <2>0, <2>b, <2>c
    <3>3. QED
      BY <2>0, <3>1, <3>2
  <2>2. CASE ~BatchDone
    <3>1. nextCall' = nextCall + 1 /\ UNCHANGED <<pendingCalls, pc>>
      BY <1>8, <2>2 DEF ExecuteTool
    <3>2. nextCall # pendingCalls
      BY <2>2 DEF BatchDone
    <3>3. ~shouldStop' => toolCallCount' <= MaxToolCalls
      BY <2>0, <2>b, <2>c
    <3>4. QED
      BY <2>0, <3>1, <3>2, <3>3
  <2>3. QED
    BY <2>1, <2>2
<1>9. CASE StopLoop
  BY <1>9 DEF StopLoop
<1>10. CASE NextIteration
  BY <1>10 DEF NextIteration
<1>11. CASE GuardOutput
  BY <1>11 DEF GuardOutput
<1>12. CASE SkipFallback
  BY <1>12 DEF SkipFallback
<1>13. ASSUME NEW body \in {"clean", "leaky", "rawjson", "generic"},
              Fallback(body)
       PROVE  LoopInv'
  BY <1>13 DEF Fallback
<1>14. CASE SaveHistory
  BY <1>14 DEF SaveHistory
<1>15. CASE ClientGone
  BY <1>15 DEF ClientGone
<1>16. ASSUME NEW t \in TenantSet, OtherTurnSpends(t)
       PROVE  LoopInv'
  BY <1>16 DEF OtherTurnSpends
<1>17. CASE UNCHANGED vars
  BY <1>17 DEF vars
<1>18. QED
  BY <1>1, <1>2, <1>3, <1>4, <1>5, <1>6, <1>7, <1>8, <1>9, <1>10, <1>11,
     <1>12, <1>13, <1>14, <1>15, <1>16, <1>17 DEF Next, Turn, LLMStage

(* A step keeps the LLM calls paid for by iterations and tool calls.       *)
LEMMA CallsStep ==
    TypeOK /\ LoopInv /\ CallsInv /\ [Next]_vars => CallsInv'
<1> SUFFICES ASSUME TypeOK, LoopInv, CallsInv, [Next]_vars PROVE CallsInv'
  OBVIOUS
<1>0. /\ pc \in Stages \cup Ended
      /\ iteration \in 0..(MaxIterations - 1)
      /\ toolCallCount \in Nat /\ pendingCalls \in 0..MaxBatch
      /\ nextCall \in Nat \ {0} /\ hadToolCalls \in BOOLEAN
      /\ calls \in [main: Nat, fallback: Nat]
  BY DEF TypeOK
<1>a. /\ pc \in LoopStages => finalContent = "none"
      /\ pc \in LoopStages \ {"tools"} => toolCallCount <= MaxToolCalls
      /\ pc \in LoopStages \ {"tools"} => nextCall = 1
      /\ pc = "tools" => nextCall <= pendingCalls /\ hadToolCalls
  BY DEF LoopInv, LoopStages
<1> USE <1>0, <1>a, LimitsAssumption
    DEF CallsInv, LLMCallsBounded, LoopStages, loopVars, toolVars
<1>1. CASE GuardInput
  BY <1>1 DEF GuardInput
<1>2. CASE ToolDiscovery
  BY <1>2 DEF ToolDiscovery
<1>3. CASE TurnFails
  BY <1>3 DEF TurnFails
<1>4. ASSUME NEW paid \in BOOLEAN, NEW n \in 1..MaxBatch, LLMToolCalls(n, paid)
      PROVE  CallsInv'
  BY <1>4 DEF LLMToolCalls, LLMResponds, Continue
<1>5. ASSUME NEW paid \in BOOLEAN, LLMRawJson(paid)
      PROVE  CallsInv'
  BY <1>5 DEF LLMRawJson, LLMResponds, Continue
<1>6. ASSUME NEW paid \in BOOLEAN, NEW body \in {"clean", "leaky"},
             LLMFinal(body, paid)
      PROVE  CallsInv'
  BY <1>6 DEF LLMFinal, LLMResponds, Continue
<1>7. ASSUME NEW paid \in BOOLEAN, NEW reasoning \in BOOLEAN,
             LLMEmpty(reasoning, paid)
      PROVE  CallsInv'
  BY <1>7 DEF LLMEmpty, LLMResponds, Continue
<1>8. CASE ExecuteTool
  BY <1>8 DEF ExecuteTool, BatchDone, Continue
<1>9. CASE StopLoop
  BY <1>9 DEF StopLoop
<1>10. CASE NextIteration
  BY <1>10 DEF NextIteration, LoopEnds
<1>11. CASE GuardOutput
  BY <1>11 DEF GuardOutput, Redact
<1>12. CASE SkipFallback
  BY <1>12 DEF SkipFallback
<1>13. ASSUME NEW body \in {"clean", "leaky", "rawjson", "generic"},
              Fallback(body)
       PROVE  CallsInv'
  BY <1>13 DEF Fallback, FallbackNeeded
<1>14. CASE SaveHistory
  BY <1>14 DEF SaveHistory
<1>15. CASE ClientGone
  BY <1>15 DEF ClientGone
<1>16. ASSUME NEW t \in TenantSet, OtherTurnSpends(t)
       PROVE  CallsInv'
  BY <1>16 DEF OtherTurnSpends
<1>17. CASE UNCHANGED vars
  BY <1>17 DEF vars
<1>18. QED
  BY <1>1, <1>2, <1>3, <1>4, <1>5, <1>6, <1>7, <1>8, <1>9, <1>10, <1>11,
     <1>12, <1>13, <1>14, <1>15, <1>16, <1>17 DEF Next, Turn, LLMStage

(* A step keeps the client informed of every content, and finals single.   *)
LEMMA DeliveryStep ==
    TypeOK /\ LoopInv /\ DeliveryInv /\ [Next]_vars => DeliveryInv'
<1> SUFFICES ASSUME TypeOK, LoopInv, DeliveryInv, [Next]_vars
             PROVE  DeliveryInv'
  OBVIOUS
<1>0. /\ pc \in Stages \cup Ended
      /\ sent.finals \in Nat /\ sent.errors \in Nat
      /\ sent = [finals |-> sent.finals, errors |-> sent.errors,
                 streamed |-> sent.streamed]
  BY DEF TypeOK, Sent
<1>a. pc \in LoopStages => finalContent = "none"
  BY DEF LoopInv
<1>b. SendError =>
        sent' = [finals |-> sent.finals, errors |-> sent.errors + 1,
                 streamed |-> sent.streamed]
  BY <1>0 DEF SendError
<1>c. ASSUME NEW paid, SendStatus(paid)
      PROVE  /\ sent'.finals = sent.finals
             /\ sent'.errors \in Nat
             /\ sent'.errors >= sent.errors
  BY <1>0, <1>c DEF SendStatus
<1>d. ASSUME NEW paid, NEW body, SendFinal(body, paid)
      PROVE  /\ sent'.errors \in Nat
             /\ sent'.finals = sent.finals \/ sent'.finals = sent.finals + 1
             /\ sent'.finals + sent'.errors = sent.finals + sent.errors + 1
  BY <1>0, <1>d DEF SendFinal
<1> USE <1>0, <1>a DEF DeliveryInv, OneFinal, LoopStages, loopVars, toolVars
<1>1. CASE GuardInput
  BY <1>1, <1>b DEF GuardInput
<1>2. CASE ToolDiscovery
  BY <1>2 DEF ToolDiscovery
<1>3. CASE TurnFails
  BY <1>3, <1>b DEF TurnFails
<1>4. ASSUME NEW paid \in BOOLEAN, NEW n \in 1..MaxBatch, LLMToolCalls(n, paid)
      PROVE  DeliveryInv'
  BY <1>4, <1>c DEF LLMToolCalls, LLMResponds, Continue
<1>5. ASSUME NEW paid \in BOOLEAN, LLMRawJson(paid)
      PROVE  DeliveryInv'
  BY <1>5, <1>b DEF LLMRawJson, LLMResponds, Continue
<1>6. ASSUME NEW paid \in BOOLEAN, NEW body \in {"clean", "leaky"},
             LLMFinal(body, paid)
      PROVE  DeliveryInv'
  BY <1>6, <1>d DEF LLMFinal, LLMResponds, Continue
<1>7. ASSUME NEW paid \in BOOLEAN, NEW reasoning \in BOOLEAN,
             LLMEmpty(reasoning, paid)
      PROVE  DeliveryInv'
  BY <1>7, <1>c DEF LLMEmpty, LLMResponds, Continue
<1>8. CASE ExecuteTool
  BY <1>8, <1>b DEF ExecuteTool, Continue
<1>9. CASE StopLoop
  BY <1>9 DEF StopLoop
<1>10. CASE NextIteration
  BY <1>10 DEF NextIteration
<1>11. CASE GuardOutput
  BY <1>11 DEF GuardOutput, Redact
<1>12. CASE SkipFallback
  BY <1>12 DEF SkipFallback, FallbackNeeded
<1>13. ASSUME NEW body \in {"clean", "leaky", "rawjson", "generic"},
              Fallback(body)
       PROVE  DeliveryInv'
  BY <1>13, <1>d DEF Fallback, FallbackNeeded
<1>14. CASE SaveHistory
  BY <1>14 DEF SaveHistory
<1>15. CASE ClientGone
  BY <1>15 DEF ClientGone
<1>16. ASSUME NEW t \in TenantSet, OtherTurnSpends(t)
       PROVE  DeliveryInv'
  BY <1>16 DEF OtherTurnSpends
<1>17. CASE UNCHANGED vars
  BY <1>17 DEF vars
<1>18. QED
  BY <1>1, <1>2, <1>3, <1>4, <1>5, <1>6, <1>7, <1>8, <1>9, <1>10, <1>11,
     <1>12, <1>13, <1>14, <1>15, <1>16, <1>17 DEF Next, Turn, LLMStage

-----------------------------------------------------------------------------
(* Appending messages leaves the earlier ones where they are.              *)
LEMMA AppendedMessages ==
    ASSUME NEW s \in Seq(Message), NEW m \in Message
    PROVE  /\ Append(s, m) \in Seq(Message)
           /\ Len(Append(s, m)) = Len(s) + 1
           /\ Append(s, m)[Len(s) + 1] = m
           /\ \A i \in 1..Len(s) : Append(s, m)[i] = s[i]
OBVIOUS

(* No message of s is a leaking answer.                                    *)
LeakFree(s) == \A i \in 1..Len(s) : s[i].body # "leaky"

(* The results of a tool never add a leaking answer.                       *)
LEMMA ToolMessagesLeakFree ==
    ASSUME NEW s \in Seq(Message), LeakFree(s),
           NEW reminder \in {<< >>, <<Msg("system", "text", 0)>>}
    PROVE  LeakFree(s \o <<Msg("tool", "text", 0)>> \o reminder)
<1>1. LeakFree(Append(s, Msg("tool", "text", 0)))
  BY MessageTypes, AppendedMessages DEF LeakFree, Msg
<1>2. s \o <<Msg("tool", "text", 0)>> = Append(s, Msg("tool", "text", 0))
  BY MessageTypes
<1>3. Append(s, Msg("tool", "text", 0)) \in Seq(Message)
  BY MessageTypes, AppendedMessages
<1>4. CASE reminder = << >>
  <2> DEFINE t == Append(s, Msg("tool", "text", 0))
  <2>1. t \o reminder = t
    BY <1>3, <1>4
  <2>2. QED
    BY <1>1, <1>2, <2>1
<1>5. CASE reminder = <<Msg("system", "text", 0)>>
  <2> DEFINE t == Append(s, Msg("tool", "text", 0))
  <2>1. LeakFree(Append(t, Msg("system", "text", 0)))
    BY <1>1, <1>3, MessageTypes, AppendedMessages DEF LeakFree, Msg
  <2>2. t \o reminder = Append(t, Msg("system", "text", 0))
    BY <1>3, <1>5, MessageTypes
  <2>3. QED
    BY <1>2, <2>1, <2>2
<1>6. QED
  BY <1>4, <1>5

(* What HistoryInv says while the turn is in the loop, where the fallback  *)
(* has not run: nothing leaks and nothing is saved.                        *)
LEMMA HistoryInLoop ==
    ASSUME LoopInv, CallsInv, HistoryInv, pc \in LoopStages
    PROVE  LeakFree(turnMessages) /\ saved = NotSaved
<1>1. finalContent = "none" /\ calls.fallback = 0
  BY DEF LoopInv, CallsInv
<1>2. pc \in Stages
  BY DEF LoopStages, Stages
<1>3. QED
  BY <1>1, <1>2 DEF HistoryInv, LeakFree

(* A step that leaves nothing saved, nothing leaking and no unsettled      *)
(* final answer keeps HistoryInv.                                          *)
LEMMA HistoryKept ==
    ASSUME pc' \notin {"done", "closed"}, saved' = NotSaved,
           LeakFree(turnMessages'), finalContent' \in {"none", "error"}
    PROVE  HistoryInv'
BY DEF HistoryInv, FinalIsSaved, MainAnswerGuarded, LeakFree, NotSaved

(* Every stage keeps what is known of the stored turn.                     *)
LEMMA HistoryStep ==
    TypeOK /\ LoopInv /\ CallsInv /\ DeliveryInv /\ HistoryInv /\ [Next]_vars
        => HistoryInv'
<1> SUFFICES ASSUME TypeOK, LoopInv, CallsInv, DeliveryInv, HistoryInv,
                    [Next]_vars
             PROVE  HistoryInv'
  OBVIOUS
<1>0. /\ turnMessages \in Seq(Message) /\ Len(turnMessages) \in Nat
      /\ calls.fallback \in Nat
      /\ calls = [main |-> calls.main, fallback |-> calls.fallback]
  BY DEF TypeOK
<1>a. pc \in LoopStages =>
        finalContent = "none" /\ LeakFree(turnMessages) /\ saved = NotSaved
  BY HistoryInLoop DEF LoopInv
<1>b. pc \in Stages => saved = NotSaved
  BY DEF HistoryInv
<1>c. NotSaved = << >> /\ Len(NotSaved) = 0
  BY DEF NotSaved
<1>1. CASE GuardInput
  BY <1>1, <1>a, HistoryKept DEF GuardInput, LoopStages
<1>2. CASE ToolDiscovery
  BY <1>2, <1>a, HistoryKept DEF ToolDiscovery, LoopStages
<1>3. CASE TurnFails
  <2>1. UNCHANGED <<saved, turnMessages>> /\ pc' = "failed"
    BY <1>3 DEF TurnFails
  <2>2. saved = NotSaved
    BY <1>3, <1>b DEF TurnFails, Stages
  <2>3. QED
    BY <2>1, <2>2, <1>c
       DEF HistoryInv, FinalIsSaved, MainAnswerGuarded, Stages
<1>4. ASSUME NEW paid \in BOOLEAN, NEW n \in 1..MaxBatch, LLMToolCalls(n, paid)
      PROVE  HistoryInv'
  <2>1. /\ pc = "llm" /\ pc' \in {"tools", "guard_output"}
        /\ UNCHANGED <<saved, finalContent>>
        /\ turnMessages' = Append(turnMessages, Msg("assistant", "text", n))
    BY <1>4 DEF LLMToolCalls, LLMResponds, Continue
  <2>2. LeakFree(turnMessages')
    BY <2>1, <1>0, <1>a, MessageTypes, AppendedMessages
       DEF LeakFree, LoopStages, Msg
  <2>3. QED
    BY <2>1, <2>2, <1>a, HistoryKept DEF LoopStages
<1>5. ASSUME NEW paid \in BOOLEAN, LLMRawJson(paid)
      PROVE  HistoryInv'
  BY <1>5, <1>a, HistoryKept DEF LLMRawJson, LLMResponds, Continue, LoopStages
<1>6. ASSUME NEW paid \in BOOLEAN, NEW body \in {"clean", "leaky"},
             LLMFinal(body, paid)
      PROVE  HistoryInv'
  <2>1. /\ pc = "llm" /\ pc' = "guard_output" /\ UNCHANGED saved
        /\ finalContent' = body
        /\ turnMessages' = Append(turnMessages, Answer(body))
        /\ body \in sent'.streamed
    BY <1>6 DEF LLMFinal, LLMResponds, Continue, SendFinal
  <2>2. Answer(body) \in Message /\ Answer(body).body = body
    BY MessageTypes DEF Answers, Answer, Msg
  <2>3. /\ Len(turnMessages') = Len(turnMessages) + 1
        /\ turnMessages'[Len(turnMessages) + 1] = Answer(body)
        /\ \A i \in 1..Len(turnMessages) : turnMessages'[i] = turnMessages[i]
    BY <2>1, <2>2, <1>0, AppendedMessages
  <2>4. LastMessageIs(turnMessages', body)
    BY <2>3, <1>0 DEF LastMessageIs
  <2>5. \A i \in 1..Len(turnMessages') :
          turnMessages'[i].body = "leaky" =>
              body = "leaky" /\ i = Len(turnMessages')
    BY <2>1, <2>2, <2>3, <1>0, <1>a DEF LeakFree, LoopStages
  <2>6. saved' = NotSaved
    BY <2>1, <1>a DEF LoopStages
  <2>7. QED
    BY <2>1, <2>4, <2>5, <2>6, <1>c
       DEF HistoryInv, FinalIsSaved, MainAnswerGuarded
<1>7. ASSUME NEW paid \in BOOLEAN, NEW reasoning \in BOOLEAN,
             LLMEmpty(reasoning, paid)
      PROVE  HistoryInv'
  BY <1>7, <1>a, HistoryKept DEF LLMEmpty, LLMResponds, Continue, LoopStages
<1>8. CASE ExecuteTool
  <2>1. /\ pc = "tools" /\ UNCHANGED <<saved, finalContent>>
        /\ pc' \in {"tools", "loop_check", "guard_output"}
    BY <1>8 DEF ExecuteTool, Continue
  <2>2. LeakFree(turnMessages')
    BY <2>1, <1>8, <1>0, <1>a, ToolMessagesLeakFree
       DEF ExecuteTool, LoopStages
  <2>3. QED
    BY <2>1, <2>2, <1>a, HistoryKept DEF LoopStages
<1>9. CASE StopLoop
  BY <1>9, <1>a, HistoryKept DEF StopLoop, LoopStages
<1>10. CASE NextIteration
  BY <1>10, <1>a, HistoryKept DEF NextIteration, LoopStages
<1>11. CASE GuardOutput
  <2>1. /\ pc = "guard_output" /\ pc' = "fallback"
        /\ UNCHANGED <<saved, sent, calls>> /\ Redact
    BY <1>11 DEF GuardOutput
  <2>2. saved' = NotSaved
    BY <2>1, <1>b DEF Stages
  <2>3. CASE finalContent = "leaky"
    <3>1. LastMessageIs(turnMessages, "leaky")
      BY <2>1, <2>3 DEF HistoryInv
    <3>2. /\ finalContent' = "redacted"
          /\ turnMessages' =
               [turnMessages EXCEPT ![Len(turnMessages)].body = "redacted"]
      BY <2>1, <2>3 DEF Redact
    <3>3. /\ Len(turnMessages') = Len(turnMessages)
          /\ turnMessages'[Len(turnMessages)] = Answer("redacted")
          /\ \A i \in 1..Len(turnMessages) :
               i # Len(turnMessages) => turnMessages'[i] = turnMessages[i]
      BY <3>1, <3>2, <1>0 DEF LastMessageIs, Answer, Msg
    <3>4. Answer("redacted").body = "redacted"
      BY DEF Answer, Msg
    <3>5. \A i \in 1..Len(turnMessages') :
            turnMessages'[i].body = "leaky" => calls'.fallback = 1
      BY <2>1, <3>3, <3>4 DEF HistoryInv, Stages
    <3>6. LastMessageIs(turnMessages', "redacted")
      BY <3>1, <3>3 DEF LastMessageIs
    <3>7. QED
      BY <2>1, <2>2, <3>2, <3>5, <3>6, <1>c
         DEF HistoryInv, FinalIsSaved, MainAnswerGuarded
  <2>4. CASE finalContent # "leaky"
    <3>1. UNCHANGED <<finalContent, turnMessages>>
      BY <2>1, <2>4 DEF Redact
    <3>2. \A i \in 1..Len(turnMessages') :
            turnMessages'[i].body = "leaky" => calls'.fallback = 1
      BY <2>1, <2>4, <3>1 DEF HistoryInv, Stages
    <3>3. QED
      BY <2>1, <2>2, <3>1, <3>2, <1>c
         DEF HistoryInv, FinalIsSaved, MainAnswerGuarded, Stages
  <2>5. QED
    BY <2>3, <2>4
<1>12. CASE SkipFallback
  <2>1. /\ pc = "fallback" /\ pc' = "save_history"
        /\ UNCHANGED <<finalContent, turnMessages, saved, sent, calls>>
    BY <1>12 DEF SkipFallback
  <2>2. QED
    BY <2>1, <1>b, <1>c
       DEF HistoryInv, FinalIsSaved, MainAnswerGuarded, Stages
<1>13. ASSUME NEW body \in {"clean", "leaky", "rawjson", "generic"},
              Fallback(body)
       PROVE  HistoryInv'
  <2>1. /\ pc = "fallback" /\ pc' = "save_history" /\ finalContent' = body
        /\ turnMessages' = Append(turnMessages, Answer(body))
        /\ body \in sent'.streamed /\ UNCHANGED saved
        /\ finalContent = "none"
    BY <1>13 DEF Fallback, FallbackNeeded, SendFinal
  <2>2. calls'.fallback = 1
    BY <1>13, <2>1, <1>0 DEF Fallback, CallsInv
  <2>3. LastMessageIs(turnMessages', body)
    BY <2>1, <1>0, MessageTypes, AppendedMessages DEF LastMessageIs, Answers
  <2>4. saved' = NotSaved
    BY <2>1, <1>b DEF Stages
  <2>5. QED
    BY <2>1, <2>2, <2>3, <2>4, <1>c
       DEF HistoryInv, FinalIsSaved, MainAnswerGuarded
<1>14. CASE SaveHistory
  <2>1. /\ pc = "save_history" /\ pc' = "done" /\ saved' = turnMessages
        /\ UNCHANGED <<turnMessages, finalContent, sent, calls>>
    BY <1>14 DEF SaveHistory
  <2>2. MainAnswerGuarded'
    BY <2>1 DEF HistoryInv, MainAnswerGuarded, Stages
  <2>3. FinalIsSaved'
    BY <2>1, <1>0
       DEF HistoryInv, DeliveryInv, OneFinal, FinalIsSaved, LastMessageIs,
           Answer, Msg
  <2>4. QED
    BY <2>1, <2>2, <2>3 DEF HistoryInv, Stages
<1>15. CASE ClientGone
  <2>1. /\ pc \in Stages /\ pc' = "closed" /\ UNCHANGED <<turnMessages, calls>>
        /\ saved' = saved \/ (pc = "save_history" /\ saved' = turnMessages)
    BY <1>15 DEF ClientGone
  <2>2. MainAnswerGuarded'
    BY <2>1 DEF HistoryInv, MainAnswerGuarded, Stages
  <2>3. QED
    BY <2>1, <2>2 DEF HistoryInv, FinalIsSaved, Stages
<1>16. ASSUME NEW t \in TenantSet, OtherTurnSpends(t)
       PROVE  HistoryInv'
  BY <1>16
     DEF OtherTurnSpends, HistoryInv, FinalIsSaved, MainAnswerGuarded
<1>17. CASE UNCHANGED vars
  BY <1>17 DEF vars, HistoryInv, FinalIsSaved, MainAnswerGuarded
<1>18. QED
  BY <1>1, <1>2, <1>3, <1>4, <1>5, <1>6, <1>7, <1>8, <1>9, <1>10, <1>11,
     <1>12, <1>13, <1>14, <1>15, <1>16, <1>17 DEF Next, Turn, LLMStage

-----------------------------------------------------------------------------
(* The initial state satisfies the inductive invariant.                    *)
LEMMA InitIInv == Init => IInv
<1> SUFFICES ASSUME Init PROVE IInv
  OBVIOUS
<1>1. TypeOK
  BY InitType
<1>2. LoopInv /\ CallsInv
  BY LimitsAssumption
     DEF Init, LoopInv, CallsInv, LoopStages, ToolCallsBounded,
         LLMCallsBounded
<1>3. DeliveryInv
  BY DEF Init, DeliveryInv, OneFinal
<1>4. HistoryInv
  <2>1. LeakFree(turnMessages)
    BY DEF Init, LeakFree, Msg
  <2>2. pc = "guard_input" /\ saved = << >> /\ finalContent = "none"
    BY DEF Init, NotSaved
  <2>3. QED
    BY <2>1, <2>2
       DEF HistoryInv, LeakFree, FinalIsSaved, MainAnswerGuarded, NotSaved
<1>5. QED
  BY <1>1, <1>2, <1>3, <1>4 DEF IInv

(* The loop bookkeeping, the count of LLM calls, what the client was told  *)
(* and the stored turn agree in every state of every turn.                 *)
THEOREM InductiveInvariant == Spec => []IInv
<1>1. IInv /\ [Next]_vars => IInv'
  BY TypeStep, LoopStep, CallsStep, DeliveryStep, HistoryStep DEF IInv
<1>2. QED
  BY InitIInv, <1>1, PTL DEF Spec

(* However the model answers, a turn runs at most MaxToolCalls tools and   *)
(* what is left of the batch that goes over the limit.                     *)
THEOREM ToolCalls == Spec => []ToolCallsBounded
<1>1. IInv => ToolCallsBounded
  BY DEF IInv, LoopInv
<1>2. QED
  BY InductiveInvariant, <1>1, PTL

(* However the model answers, a turn makes at most MaxIterations +         *)
(* MaxToolCalls LLM calls in the loop and one in the fallback.             *)
THEOREM LLMCalls == Spec => []LLMCallsBounded
<1>1. IInv => LLMCallsBounded
  BY DEF IInv, CallsInv
<1>2. QED
  BY InductiveInvariant, <1>1, PTL

(* A turn that completes never leaves the client without an answer or an   *)
(* error, whatever ended its loop.                                         *)
THEOREM ClientInformed == Spec => []NeverSilent
<1>1. IInv => NeverSilent
  BY DEF IInv, DeliveryInv, NeverSilent
<1>2. QED
  BY InductiveInvariant, <1>1, PTL

(* The client never gets two final answers for one message.                *)
THEOREM SingleFinal == Spec => []OneFinal
<1>1. IInv => OneFinal
  BY DEF IInv, DeliveryInv
<1>2. QED
  BY InductiveInvariant, <1>1, PTL

(* The stored turn ends with the answer the client was given, unless the   *)
(* output guard replaced it.                                               *)
THEOREM SavedFinal == Spec => []FinalIsSaved
<1>1. IInv => FinalIsSaved
  BY DEF IInv, HistoryInv
<1>2. QED
  BY InductiveInvariant, <1>1, PTL

(* An answer of LLMStage that the output guard blocks never reaches the    *)
(* conversation store.                                                     *)
THEOREM GuardedMainAnswer == Spec => []MainAnswerGuarded
<1>1. IInv => MainAnswerGuarded
  BY DEF IInv, HistoryInv
<1>2. QED
  BY InductiveInvariant, <1>1, PTL

(* Once the turn was told to stop, its loop never asks the model again.    *)
THEOREM StopHolds == Spec => NoLoopCallAfterStop
<1>1. IInv /\ [Next]_vars => [shouldStop => calls'.main = calls.main]_vars
  <2> SUFFICES ASSUME IInv, [Next]_vars, shouldStop
               PROVE  calls'.main = calls.main
    BY Zenon
  <2>0. /\ calls = [main |-> calls.main, fallback |-> calls.fallback]
        /\ calls.main \in Nat
    BY DEF IInv, TypeOK
  <2>1. pc \notin LoopStages \ {"tools"}
    BY DEF IInv, LoopInv
  <2>2. pc # "llm"
    BY <2>1 DEF LoopStages
  <2>3. CASE LLMStage
    BY <2>2, <2>3
       DEF LLMStage, LLMToolCalls, LLMRawJson, LLMFinal, LLMEmpty, LLMResponds
  <2>4. CASE TurnFails
    BY <2>0, <2>2, <2>4 DEF TurnFails
  <2>5. ASSUME NEW body, Fallback(body)
        PROVE  calls'.main = calls.main
    BY <2>0, <2>5 DEF Fallback
  <2>6. QED
    BY <2>3, <2>4, <2>5
       DEF Next, Turn, GuardInput, ToolDiscovery, ExecuteTool, StopLoop,
           NextIteration, GuardOutput, SkipFallback, SaveHistory, ClientGone,
           OtherTurnSpends, vars
<1>2. QED
  BY InductiveInvariant, <1>1, PTL DEF Spec, NoLoopCallAfterStop

(* A charge more is a call of the fallback more, and LLMStage starts anew. *)
LEMMA ChargeStep ==
    ASSUME IInv, ChargedAgainOnlyByFallback, [Next]_vars
    PROVE  ChargedAgainOnlyByFallback'
<1>0. /\ lastResponse \in [paid: BOOLEAN, charged: Nat]
      /\ calls \in [main: Nat, fallback: Nat]
      /\ lastResponse.charged <= 1 + calls.fallback
  BY DEF IInv, TypeOK, ChargedAgainOnlyByFallback
<1>1. ASSUME NEW n \in Nat PROVE [calls EXCEPT !.main = @ + n].fallback = calls.fallback
  BY <1>0
<1>2. ASSUME NEW paid, NEW event, LLMResponds(paid, event)
      PROVE  ChargedAgainOnlyByFallback'
  <2>1. lastResponse'.charged \in {0, 1} /\ calls'.fallback = calls.fallback
    BY <1>1, <1>2 DEF LLMResponds
  <2>2. QED
    BY <1>0, <2>1 DEF ChargedAgainOnlyByFallback
<1>3. CASE LLMStage
  BY <1>2, <1>3 DEF LLMStage, LLMToolCalls, LLMRawJson, LLMFinal, LLMEmpty
<1>4. CASE TurnFails
  <2>1. lastResponse' = lastResponse /\ calls'.fallback = calls.fallback
    BY <1>1, <1>4 DEF TurnFails
  <2>2. QED
    BY <1>0, <2>1 DEF ChargedAgainOnlyByFallback
<1>5. ASSUME NEW body, Fallback(body)
      PROVE  ChargedAgainOnlyByFallback'
  <2>1. PICK n \in {0, 1} : lastResponse' = [lastResponse EXCEPT !.charged = @ + n]
    BY <1>5 DEF Fallback
  <2>2. lastResponse'.charged = lastResponse.charged + n
    BY <1>0, <2>1
  <2>3. calls'.fallback = calls.fallback + 1
    BY <1>0, <1>5 DEF Fallback
  <2>4. QED
    BY <1>0, <2>2, <2>3 DEF ChargedAgainOnlyByFallback
<1>6. QED
  BY <1>3, <1>4, <1>5
     DEF Next, Turn, GuardInput, ToolDiscovery, ExecuteTool, StopLoop,
         NextIteration, GuardOutput, SkipFallback, SaveHistory, ClientGone,
         OtherTurnSpends, vars, ChargedAgainOnlyByFallback

(* A response is charged by its event, and by the fallback's once more.    *)
THEOREM ChargedOnce == Spec => []ChargedAgainOnlyByFallback
<1>1. Init => ChargedAgainOnlyByFallback
  BY DEF Init, ChargedAgainOnlyByFallback, NoResponse
<1>2. IInv /\ ChargedAgainOnlyByFallback /\ [Next]_vars => ChargedAgainOnlyByFallback'
  BY ChargeStep
<1>3. QED
  BY InductiveInvariant, <1>1, <1>2, PTL DEF Spec

(* What a turn may cost, whatever the model, the tools, the other turns    *)
(* and the client do.                                                      *)
THEOREM CostsKept == Spec => CallsKept
  BY ToolCalls, LLMCalls, ChargedOnce, StopHolds, PTL DEF CallsKept

(* What the client is told and what is stored, in whatever way it ends.    *)
THEOREM Outcome == Spec => []OneOutcome
  BY ClientInformed, SingleFinal, SavedFinal, GuardedMainAnswer, PTL DEF OneOutcome

-----------------------------------------------------------------------------
(* Tool calls and their results in the stored turn.                        *)

(* A message that is no result, or that comes after another round, adds no *)
(* result to the calls of message i.                                       *)
LEMMA ResultsKept ==
    ASSUME NEW s \in Seq(Message), NEW m \in Message, NEW i \in 1..Len(s),
           m.role # "tool" \/ \E k \in (i + 1)..Len(s) : s[k].calls # 0
    PROVE  ResultsOf(Append(s, m), i) = ResultsOf(s, i)
<1> DEFINE t == Append(s, m)
<1>1. /\ Len(t) = Len(s) + 1 /\ t[Len(s) + 1] = m /\ Len(s) \in Nat
      /\ \A j \in 1..Len(s) : t[j] = s[j]
  BY AppendedMessages
<1> HIDE DEF t
<1>2. ASSUME NEW j \in ResultsOf(t, i) PROVE j \in ResultsOf(s, i)
  <2>1. /\ j \in (i + 1)..Len(t) /\ t[j].role = "tool"
        /\ \A k \in (i + 1)..j : t[k].calls = 0
    BY DEF ResultsOf
  <2>2. j # Len(s) + 1
    <3> SUFFICES ASSUME j = Len(s) + 1 PROVE FALSE
      OBVIOUS
    <3>1. PICK k \in (i + 1)..Len(s) : s[k].calls # 0
      BY <1>1, <2>1
    <3>2. k \in (i + 1)..j /\ k \in 1..Len(s)
      BY <1>1, <3>1
    <3>3. QED
      BY <1>1, <2>1, <3>1, <3>2
  <2>3. j \in (i + 1)..Len(s) /\ \A k \in (i + 1)..j : k \in 1..Len(s)
    BY <1>1, <2>1, <2>2
  <2>4. QED
    BY <1>1, <2>1, <2>3 DEF ResultsOf
<1>3. ASSUME NEW j \in ResultsOf(s, i) PROVE j \in ResultsOf(t, i)
  <2>1. /\ j \in (i + 1)..Len(s) /\ s[j].role = "tool"
        /\ \A k \in (i + 1)..j : s[k].calls = 0
    BY DEF ResultsOf
  <2>2. /\ j \in (i + 1)..Len(t) /\ j \in 1..Len(s)
        /\ \A k \in (i + 1)..j : k \in 1..Len(s)
    BY <1>1, <2>1
  <2>3. QED
    BY <1>1, <2>1, <2>2 DEF ResultsOf
<1>4. ResultsOf(t, i) = ResultsOf(s, i)
  BY <1>2, <1>3
<1>5. QED
  BY <1>4 DEF t

(* The results of a round are finitely many, and one more comes with a     *)
(* tool message right after them.                                          *)
LEMMA ResultsGrow ==
    ASSUME NEW s \in Seq(Message), NEW m \in Message, NEW i \in 1..Len(s),
           m.role = "tool", m.calls = 0,
           \A k \in (i + 1)..Len(s) : s[k].calls = 0
    PROVE  /\ Cardinality(ResultsOf(s, i)) \in Nat
           /\ Cardinality(ResultsOf(Append(s, m), i)) =
                Cardinality(ResultsOf(s, i)) + 1
<1> DEFINE t == Append(s, m)
<1>1. /\ Len(t) = Len(s) + 1 /\ t[Len(s) + 1] = m /\ Len(s) \in Nat
      /\ \A j \in 1..Len(s) : t[j] = s[j]
  BY AppendedMessages
<1> HIDE DEF t
<1>2. \A k \in (i + 1)..Len(t) : t[k].calls = 0
  <2> SUFFICES ASSUME NEW k \in (i + 1)..Len(t) PROVE t[k].calls = 0
    OBVIOUS
  <2>1. k = Len(s) + 1 \/ (k \in (i + 1)..Len(s) /\ k \in 1..Len(s))
    BY <1>1
  <2>2. QED
    BY <1>1, <2>1
<1>3. \A j : j \in ResultsOf(t, i) <=> j \in ResultsOf(s, i) \cup {Len(s) + 1}
  <2>1. \A j : j \in ResultsOf(t, i) <=>
                 j \in (i + 1)..Len(t) /\ t[j].role = "tool"
    <3>1. \A j \in (i + 1)..Len(t) : \A k \in (i + 1)..j : k \in (i + 1)..Len(t)
      BY <1>1
    <3>2. QED
      BY <1>2, <3>1 DEF ResultsOf
  <2>2. \A j : j \in ResultsOf(s, i) <=>
                 j \in (i + 1)..Len(s) /\ s[j].role = "tool"
    <3>1. \A j \in (i + 1)..Len(s) : \A k \in (i + 1)..j : k \in (i + 1)..Len(s)
      BY <1>1
    <3>2. QED
      BY <3>1 DEF ResultsOf
  <2>3. \A j : j \in (i + 1)..Len(t) <=> j \in (i + 1)..Len(s) \/ j = Len(s) + 1
    BY <1>1
  <2>4. \A j \in (i + 1)..Len(s) : t[j] = s[j] /\ j # Len(s) + 1
    BY <1>1
  <2>5. QED
    BY <1>1, <2>1, <2>2, <2>3, <2>4
<1>4. ResultsOf(t, i) = ResultsOf(s, i) \cup {Len(s) + 1}
  BY <1>3
<1>5. IsFiniteSet(ResultsOf(s, i)) /\ Len(s) + 1 \notin ResultsOf(s, i)
  <2>1. IsFiniteSet(1..Len(s))
    BY <1>1, FS_Interval
  <2>2. ResultsOf(s, i) \in SUBSET (1..Len(s))
    BY <1>1 DEF ResultsOf
  <2>3. QED
    BY <1>1, <2>1, <2>2, FS_Subset
<1>6. QED
  BY <1>4, <1>5, FS_AddElement, FS_CardinalityType DEF t

(* A message that calls nothing and is no result leaves all calls answered.*)
LEMMA AnsweredAppend ==
    ASSUME NEW s \in Seq(Message), NEW m \in Message,
           m.role # "tool", m.calls = 0, AllAnswered(s)
    PROVE  AllAnswered(Append(s, m))
<1> DEFINE t == Append(s, m)
<1>1. /\ Len(t) = Len(s) + 1 /\ t[Len(s) + 1] = m /\ Len(s) \in Nat
      /\ \A j \in 1..Len(s) : t[j] = s[j] /\ ResultsOf(t, j) = ResultsOf(s, j)
  BY AppendedMessages, ResultsKept
<1> HIDE DEF t
<1>2. \A j \in 1..Len(t) : j \in 1..Len(s) \/ j = Len(s) + 1
  BY <1>1
<1>3. AllAnswered(t)
  BY <1>1, <1>2 DEF AllAnswered, Answered
<1>4. QED
  BY <1>3 DEF t

(* Such a message leaves a batch where it was.                             *)
LEMMA BatchAppend ==
    ASSUME NEW s \in Seq(Message), NEW m \in Message, NEW n, NEW made,
           m.role # "tool", m.calls = 0, Batch(s, n, made)
    PROVE  Batch(Append(s, m), n, made)
<1> DEFINE t == Append(s, m)
<1>1. /\ Len(t) = Len(s) + 1 /\ t[Len(s) + 1] = m /\ Len(s) \in Nat
      /\ \A j \in 1..Len(s) : t[j] = s[j] /\ ResultsOf(t, j) = ResultsOf(s, j)
  BY AppendedMessages, ResultsKept
<1> HIDE DEF t
<1>2. \A j \in 1..Len(t) : j \in 1..Len(s) \/ j = Len(s) + 1
  BY <1>1
<1>3. PICK i \in 1..Len(s) :
         /\ s[i].calls = n /\ n > 0
         /\ \A k \in (i + 1)..Len(s) : s[k].calls = 0
         /\ Cardinality(ResultsOf(s, i)) = made
         /\ \A x \in 1..Len(s) : x # i => Answered(s, x)
  BY DEF Batch
<1>4. i \in 1..Len(t) /\ \A k \in (i + 1)..Len(t) :
                           (k \in (i + 1)..Len(s) /\ k \in 1..Len(s)) \/ k = Len(s) + 1
  BY <1>1
<1>5. \A k \in (i + 1)..Len(t) : t[k].calls = 0
  BY <1>1, <1>3, <1>4
<1>6. \A x \in 1..Len(t) : x # i => Answered(t, x)
  BY <1>1, <1>2, <1>3 DEF Answered
<1>7. t[i].calls = n /\ Cardinality(ResultsOf(t, i)) = made
  BY <1>1, <1>3
<1>8. Batch(t, n, made)
  BY <1>3, <1>4, <1>5, <1>6, <1>7 DEF Batch
<1>9. QED
  BY <1>8 DEF t

(* An announcement of n calls starts a batch.                              *)
LEMMA BatchStart ==
    ASSUME NEW s \in Seq(Message), NEW m \in Message,
           m.role # "tool", m.calls > 0, AllAnswered(s)
    PROVE  Batch(Append(s, m), m.calls, 0)
<1> DEFINE t == Append(s, m)
<1>1. /\ Len(t) = Len(s) + 1 /\ t[Len(s) + 1] = m /\ Len(s) \in Nat
      /\ \A j \in 1..Len(s) : t[j] = s[j] /\ ResultsOf(t, j) = ResultsOf(s, j)
  BY AppendedMessages, ResultsKept
<1> HIDE DEF t
<1> DEFINE i == Len(s) + 1
<1>2. /\ i \in 1..Len(t) /\ (i + 1)..Len(t) = {}
      /\ \A j \in 1..Len(t) : j # i => j \in 1..Len(s)
  BY <1>1
<1>3. ResultsOf(t, i) = {}
  BY <1>2 DEF ResultsOf
<1>4. \A x \in 1..Len(t) : x # i => Answered(t, x)
  BY <1>1, <1>2 DEF AllAnswered, Answered
<1>5. t[i].calls = m.calls /\ Cardinality(ResultsOf(t, i)) = 0
  BY <1>1, <1>3, FS_EmptySet
<1> HIDE DEF i
<1>6. Batch(t, m.calls, 0)
  BY <1>2, <1>4, <1>5 DEF Batch
<1>7. QED
  BY <1>6 DEF t

(* A tool message is the next result of the batch, and of no other round.  *)
LEMMA BatchResult ==
    ASSUME NEW s \in Seq(Message), NEW m \in Message, NEW n, NEW made,
           m.role = "tool", m.calls = 0, Batch(s, n, made)
    PROVE  Batch(Append(s, m), n, made + 1)
<1> DEFINE t == Append(s, m)
<1>1. /\ Len(t) = Len(s) + 1 /\ t[Len(s) + 1] = m /\ Len(s) \in Nat
      /\ \A j \in 1..Len(s) : t[j] = s[j]
  BY AppendedMessages
<1>2. PICK i \in 1..Len(s) :
         /\ s[i].calls = n /\ n > 0
         /\ \A k \in (i + 1)..Len(s) : s[k].calls = 0
         /\ Cardinality(ResultsOf(s, i)) = made
         /\ \A x \in 1..Len(s) : x # i => Answered(s, x)
  BY DEF Batch
<1>3. Cardinality(ResultsOf(t, i)) = made + 1
  BY <1>2, ResultsGrow
<1>4. ASSUME NEW x \in 1..Len(s), x < i
      PROVE  ResultsOf(t, x) = ResultsOf(s, x)
  <2>1. i \in (x + 1)..Len(s) /\ s[i].calls # 0
    BY <1>1, <1>2, <1>4
  <2>2. QED
    BY <2>1, ResultsKept
<1> HIDE DEF t
<1>5. \A x \in 1..Len(t) : x # i =>
        \/ x \in 1..Len(s) /\ x < i
        \/ x \in (i + 1)..Len(s) /\ x \in 1..Len(s)
        \/ x = Len(s) + 1
  BY <1>1
<1>6. \A k \in (i + 1)..Len(t) : t[k].calls = 0
  <2>1. \A k \in (i + 1)..Len(t) : k \in 1..Len(t) /\ k # i /\ ~(k < i)
    BY <1>1
  <2>2. QED
    BY <1>1, <1>2, <1>5, <2>1
<1>7. ASSUME NEW x \in 1..Len(t), x # i PROVE Answered(t, x)
  <2>1. CASE x \in 1..Len(s) /\ x < i
    BY <1>1, <1>2, <1>4, <2>1 DEF Answered
  <2>2. CASE x \in (i + 1)..Len(s) \/ x = Len(s) + 1
    <3>1. x \in (i + 1)..Len(t)
      BY <1>1, <2>2
    <3>2. t[x].calls = 0
      BY <1>6, <3>1
    <3>3. QED
      BY <3>2 DEF Answered
  <2>3. QED
    BY <1>5, <1>7, <2>1, <2>2
<1>8. i \in 1..Len(t) /\ t[i].calls = n
  BY <1>1, <1>2
<1>9. Batch(t, n, made + 1)
  BY <1>2, <1>3, <1>6, <1>7, <1>8 DEF Batch
<1>10. QED
  BY <1>9 DEF t

(* A batch with a result for each call has left none unanswered.           *)
LEMMA BatchEnd ==
    ASSUME NEW s \in Seq(Message), NEW n, Batch(s, n, n)
    PROVE  AllAnswered(s)
BY DEF Batch, AllAnswered, Answered

(* What ends a loop early is not forgotten.                                *)
LEMMA CutStays ==
    ASSUME TypeOK, [Next]_vars
    PROVE  verdicts \subseteq verdicts' /\ (TokensExceeded => TokensExceeded')
<1>1. tokens \in Nat /\ MaxTurnTokens \in Nat
  BY LimitsAssumption DEF TypeOK
<1>2. verdicts \subseteq verdicts'
  <2>1. CASE LLMStage
    BY <2>1 DEF LLMStage, LLMToolCalls, LLMRawJson, LLMFinal, LLMEmpty, Settle
  <2>2. ASSUME NEW body, Fallback(body) PROVE verdicts \subseteq verdicts'
    BY <2>2 DEF Fallback, Settle
  <2>3. QED
    BY <2>1, <2>2
       DEF Next, Turn, GuardInput, ToolDiscovery, TurnFails, ExecuteTool,
           StopLoop, NextIteration, GuardOutput, SkipFallback, SaveHistory,
           ClientGone, OtherTurnSpends, vars
<1>3. \E n \in Nat : tokens' = tokens + n
  <2>1. CASE LLMStage
    <3>1. tokens' = tokens + 1 \/ tokens' = tokens
      BY <2>1 DEF LLMStage, LLMToolCalls, LLMRawJson, LLMFinal, LLMEmpty
    <3>2. tokens = tokens + 0
      BY <1>1
    <3>3. QED
      BY <3>1, <3>2
  <2>2. CASE ToolDiscovery
    BY <2>2 DEF ToolDiscovery
  <2>3. CASE ExecuteTool
    <3>1. PICK reminder \in {<< >>, <<Msg("system", "text", 0)>>} :
             tokens' = tokens + 1 + Len(reminder)
      BY <2>3 DEF ExecuteTool
    <3>2. Len(reminder) \in Nat
      OBVIOUS
    <3>3. tokens' = tokens + (1 + Len(reminder)) /\ 1 + Len(reminder) \in Nat
      BY <1>1, <3>1, <3>2
    <3>4. QED
      BY <3>3
  <2>4. CASE UNCHANGED tokens
    BY <1>1, <2>4
  <2>5. QED
    BY <2>1, <2>2, <2>3, <2>4
       DEF Next, Turn, GuardInput, TurnFails, StopLoop, NextIteration,
           GuardOutput, SkipFallback, Fallback, SaveHistory, ClientGone,
           OtherTurnSpends, vars
<1>4. QED
  BY <1>1, <1>2, <1>3 DEF TokensExceeded

(* What is stored is the turn of a loop that was left, or nothing.         *)
LEMMA StoredAnswers ==
    ASSUME TypeOK, AnsweredInv, [Next]_vars
    PROVE  UnansweredOnlyIfCut'
<1>1. verdicts \subseteq verdicts' /\ (TokensExceeded => TokensExceeded')
  BY CutStays
<1>2. CASE saved' = saved
  BY <1>1, <1>2 DEF AnsweredInv, UnansweredOnlyIfCut
<1>3. CASE pc = "save_history" /\ saved' = turnMessages
  <2>1. AllAnswered(turnMessages) \/ ("refused" \in verdicts /\ TokensExceeded)
    BY <1>3 DEF AnsweredInv, Stages, LoopStages
  <2>2. QED
    BY <1>1, <1>3, <2>1 DEF AllAnswered, UnansweredOnlyIfCut
<1>4. saved' = saved \/ (pc = "save_history" /\ saved' = turnMessages)
  <2>1. CASE LLMStage
    BY <2>1
       DEF LLMStage, LLMToolCalls, LLMRawJson, LLMFinal, LLMEmpty, LLMResponds
  <2>2. CASE ClientGone
    BY <2>2 DEF ClientGone
  <2>3. QED
    BY <2>1, <2>2
       DEF Next, Turn, GuardInput, ToolDiscovery, TurnFails, ExecuteTool,
           StopLoop, NextIteration, GuardOutput, SkipFallback, Fallback,
           SaveHistory, OtherTurnSpends, vars
<1>5. QED
  BY <1>2, <1>3, <1>4

(* A turn that keeps its messages and does not leave or enter a batch.     *)
LEMMA AnsweredKept ==
    ASSUME TypeOK, AnsweredInv, [Next]_vars, UNCHANGED turnMessages,
           pc # "tools", pc' # "tools", pc' \in LoopStages => pc \in LoopStages
    PROVE  AnsweredInv'
<1>1. verdicts \subseteq verdicts' /\ (TokensExceeded => TokensExceeded')
  BY CutStays
<1>2. pc \in LoopStages => AllAnswered(turnMessages)
  BY DEF AnsweredInv
<1>3. UnansweredOnlyIfCut'
  BY StoredAnswers
<1>4. pc' \in LoopStages \ {"tools"} => AllAnswered(turnMessages')
  BY <1>2
<1>5. pc \in Stages /\ pc \notin LoopStages =>
        AllAnswered(turnMessages) \/ ("refused" \in verdicts /\ TokensExceeded)
  BY DEF AnsweredInv
<1>6. CASE pc \in Stages
  BY <1>1, <1>2, <1>3, <1>4, <1>5, <1>6 DEF AnsweredInv
<1>7. CASE pc \notin Stages
  <2>1. pc' = pc
    BY <1>7
       DEF Next, Turn, GuardInput, ToolDiscovery, TurnFails, LLMStage,
           LLMToolCalls, LLMRawJson, LLMFinal, LLMEmpty, LLMResponds,
           ExecuteTool, StopLoop, NextIteration, GuardOutput, SkipFallback,
           Fallback, SaveHistory, ClientGone, OtherTurnSpends, Stages, vars
  <2>2. QED
    BY <1>3, <1>4, <1>7, <2>1 DEF AnsweredInv
<1>8. QED
  BY <1>6, <1>7

(* Every stage keeps what is known of calls and their results.             *)
LEMMA AnsweredStep ==
    ASSUME TypeOK, LoopInv, HistoryInv, AnsweredInv, [Next]_vars
    PROVE  AnsweredInv'
<1>0. /\ turnMessages \in Seq(Message) /\ pc \in Stages \cup Ended
      /\ shouldStop \in BOOLEAN /\ pendingCalls \in 0..MaxBatch
      /\ nextCall \in Nat \ {0}
  BY DEF TypeOK
<1>1. verdicts \subseteq verdicts' /\ (TokensExceeded => TokensExceeded')
  BY CutStays
<1>2. UnansweredOnlyIfCut'
  BY StoredAnswers
<1>3. ASSUME NEW paid \in BOOLEAN, NEW n \in 1..MaxBatch, LLMToolCalls(n, paid)
      PROVE  AnsweredInv'
  <2> DEFINE m == Msg("assistant", "text", n)
  <2>1. /\ pc = "llm" /\ turnMessages' = Append(turnMessages, m)
        /\ pendingCalls' = n /\ UNCHANGED nextCall
        /\ shouldStop' = (shouldStop \/ (Refused(paid) /\ TokensExceeded))
        /\ pc' = IF shouldStop' THEN "guard_output" ELSE "tools"
        /\ verdicts' = verdicts \cup (IF Refused(paid) THEN {"refused"} ELSE {})
    BY <1>3 DEF LLMToolCalls, LLMResponds, Continue, Settle
  <2>2. ~shouldStop /\ nextCall = 1 /\ AllAnswered(turnMessages)
    BY <2>1 DEF LoopInv, AnsweredInv, LoopStages
  <2>3. m \in Message /\ m.role # "tool" /\ m.calls = n /\ n > 0
    BY MessageTypes DEF Msg
  <2>4. Batch(Append(turnMessages, m), m.calls, 0)
    BY <1>0, <2>2, <2>3, BatchStart
  <2> HIDE DEF m
  <2>5. CASE shouldStop'
    <3>1. "refused" \in verdicts' /\ TokensExceeded'
      BY <1>1, <2>1, <2>2, <2>5
    <3>2. pc' = "guard_output"
      BY <2>1, <2>5
    <3>3. QED
      BY <1>2, <3>1, <3>2 DEF AnsweredInv, LoopStages
  <2>6. CASE ~shouldStop'
    <3>1. pc' = "tools" /\ nextCall' - 1 = 0
      BY <2>1, <2>2, <2>6
    <3>2. Batch(turnMessages', pendingCalls', nextCall' - 1)
      BY <2>1, <2>3, <2>4, <3>1
    <3>3. QED
      BY <1>2, <3>1, <3>2 DEF AnsweredInv, LoopStages
  <2>7. QED
    BY <2>5, <2>6
<1>4. ASSUME NEW body \in {"clean", "leaky"}, NEW paid \in BOOLEAN,
             LLMFinal(body, paid)
      PROVE  AnsweredInv'
  <2>1. /\ pc = "llm" /\ turnMessages' = Append(turnMessages, Answer(body))
        /\ pc' = "guard_output"
    BY <1>4 DEF LLMFinal, LLMResponds, Continue
  <2>2. AllAnswered(turnMessages)
    BY <2>1 DEF AnsweredInv, LoopStages
  <2>3. /\ Answer(body) \in Message /\ Answer(body).role # "tool"
        /\ Answer(body).calls = 0
    BY MessageTypes DEF Answer, Msg, Answers
  <2>4. AllAnswered(turnMessages')
    BY <1>0, <2>1, <2>2, <2>3, AnsweredAppend
  <2>5. QED
    BY <1>2, <2>1, <2>4 DEF AnsweredInv, LoopStages
<1>5. CASE ExecuteTool
  <2> DEFINE r == Msg("tool", "text", 0)
             y == Msg("system", "text", 0)
             t == Append(turnMessages, r)
  <2>1. /\ pc = "tools"
        /\ IF BatchDone
             THEN pc' \in {"guard_output", "loop_check"}
             ELSE pc' = pc /\ nextCall' = nextCall + 1 /\ UNCHANGED pendingCalls
    BY <1>5 DEF ExecuteTool, Continue
  <2>2. PICK reminder \in {<< >>, <<y>>} : turnMessages' = turnMessages \o <<r>> \o reminder
    BY <1>5 DEF ExecuteTool
  <2>3. /\ r \in Message /\ r.role = "tool" /\ r.calls = 0
        /\ y \in Message /\ y.role # "tool" /\ y.calls = 0
    BY MessageTypes DEF Msg
  <2>4. Batch(turnMessages, pendingCalls, nextCall - 1)
    BY <2>1 DEF AnsweredInv
  <2> HIDE DEF r, y
  <2>5. Batch(t, pendingCalls, nextCall - 1 + 1) /\ t \in Seq(Message)
    BY <1>0, <2>3, <2>4, BatchResult, AppendedMessages
  <2>6. turnMessages \o <<r>> = t
    BY <1>0, <2>3
  <2> HIDE DEF t
  <2>7. turnMessages' = t \/ turnMessages' = Append(t, y)
    BY <2>2, <2>3, <2>5, <2>6
  <2>8. Batch(turnMessages', pendingCalls, nextCall)
    <3>1. Batch(t, pendingCalls, nextCall)
      BY <1>0, <2>5
    <3>2. Batch(Append(t, y), pendingCalls, nextCall)
      BY <2>3, <2>5, <3>1, BatchAppend
    <3>3. QED
      BY <2>7, <3>1, <3>2
  <2>9. CASE BatchDone
    <3>1. turnMessages' \in Seq(Message)
      BY <2>3, <2>5, <2>7
    <3>2. nextCall = pendingCalls
      BY <2>9 DEF BatchDone
    <3>3. AllAnswered(turnMessages')
      BY <2>8, <3>1, <3>2, BatchEnd
    <3>4. QED
      BY <1>2, <2>1, <2>9, <3>3 DEF AnsweredInv
  <2>10. CASE ~BatchDone
    <3>1. /\ pc' = "tools" /\ pendingCalls' = pendingCalls
          /\ nextCall' - 1 = nextCall
      BY <1>0, <2>1, <2>10
    <3>2. Batch(turnMessages', pendingCalls', nextCall' - 1)
      BY <2>8, <3>1
    <3>3. QED
      BY <1>2, <3>1, <3>2 DEF AnsweredInv, LoopStages
  <2>11. QED
    BY <2>9, <2>10
<1>6. CASE GuardOutput
  <2>1. pc = "guard_output" /\ pc' = "fallback" /\ Redact
    BY <1>6 DEF GuardOutput
  <2>2. /\ Len(turnMessages') = Len(turnMessages)
        /\ \A i \in 1..Len(turnMessages) :
             /\ turnMessages'[i].role = turnMessages[i].role
             /\ turnMessages'[i].calls = turnMessages[i].calls
    <3>1. CASE finalContent = "leaky"
      <4>1. turnMessages' = [turnMessages EXCEPT
                               ![Len(turnMessages)].body = "redacted"]
        BY <2>1, <3>1 DEF Redact
      <4>2. \A i \in 1..Len(turnMessages) : turnMessages[i] \in Message
        BY <1>0
      <4>3. Len(turnMessages') = Len(turnMessages)
        BY <1>0, <4>1
      <4>4. \A i \in 1..Len(turnMessages) :
              turnMessages'[i] = IF i = Len(turnMessages)
                                 THEN [turnMessages[i] EXCEPT !.body = "redacted"]
                                 ELSE turnMessages[i]
        BY <1>0, <4>1
      <4>5. QED
        BY <4>2, <4>3, <4>4 DEF Message
    <3>2. CASE finalContent # "leaky"
      BY <2>1, <3>2 DEF Redact
    <3>3. QED
      BY <3>1, <3>2
  <2>3. \A i \in 1..Len(turnMessages) :
          ResultsOf(turnMessages', i) = ResultsOf(turnMessages, i)
    <3> SUFFICES ASSUME NEW i \in 1..Len(turnMessages)
                 PROVE  ResultsOf(turnMessages', i) = ResultsOf(turnMessages, i)
      OBVIOUS
    <3>1. \A j \in (i + 1)..Len(turnMessages) :
            j \in 1..Len(turnMessages)
            /\ \A k \in (i + 1)..j : k \in 1..Len(turnMessages)
      BY <1>0
    <3>2. QED
      BY <2>2, <3>1 DEF ResultsOf
  <2>4. AllAnswered(turnMessages) => AllAnswered(turnMessages')
    BY <2>2, <2>3 DEF AllAnswered, Answered
  <2>5. AllAnswered(turnMessages) \/ ("refused" \in verdicts /\ TokensExceeded)
    BY <2>1 DEF AnsweredInv, LoopStages, Stages
  <2>6. QED
    BY <1>1, <1>2, <2>1, <2>4, <2>5 DEF AnsweredInv, LoopStages
<1>7. ASSUME NEW body \in {"clean", "leaky", "rawjson", "generic"}, Fallback(body)
      PROVE  AnsweredInv'
  <2>1. /\ pc = "fallback" /\ pc' = "save_history"
        /\ turnMessages' = Append(turnMessages, Answer(body))
    BY <1>7 DEF Fallback
  <2>2. /\ Answer(body) \in Message /\ Answer(body).role # "tool"
        /\ Answer(body).calls = 0
    BY MessageTypes DEF Answer, Msg, Answers
  <2>3. AllAnswered(turnMessages) => AllAnswered(turnMessages')
    BY <1>0, <2>1, <2>2, AnsweredAppend
  <2>4. AllAnswered(turnMessages) \/ ("refused" \in verdicts /\ TokensExceeded)
    BY <2>1 DEF AnsweredInv, LoopStages, Stages
  <2>5. QED
    BY <1>1, <1>2, <2>1, <2>3, <2>4 DEF AnsweredInv, LoopStages
<1>8. CASE ClientGone
  BY <1>2, <1>8 DEF ClientGone, AnsweredInv, Stages, LoopStages
<1>9. ASSUME NEW t \in TenantSet, OtherTurnSpends(t)
      PROVE  AnsweredInv'
  <2>1. UNCHANGED <<pc, turnMessages, pendingCalls, nextCall, verdicts, tokens>>
    BY <1>9 DEF OtherTurnSpends, toolVars
  <2>2. QED
    BY <1>2, <2>1 DEF AnsweredInv, TokensExceeded
<1>10. CASE UNCHANGED vars
  BY <1>2, <1>10 DEF vars, toolVars, AnsweredInv, TokensExceeded
<1>11. CASE \/ GuardInput \/ ToolDiscovery \/ TurnFails \/ StopLoop
            \/ NextIteration \/ SkipFallback \/ SaveHistory
  <2>1. /\ UNCHANGED turnMessages /\ pc # "tools" /\ pc' # "tools"
        /\ pc' \in LoopStages => pc \in LoopStages
    BY <1>11
       DEF GuardInput, ToolDiscovery, TurnFails, StopLoop, NextIteration,
           SkipFallback, SaveHistory, LoopStages
  <2>2. QED
    BY <2>1, AnsweredKept
<1>12. ASSUME NEW paid \in BOOLEAN, NEW reasoning \in BOOLEAN,
              LLMRawJson(paid) \/ LLMEmpty(reasoning, paid)
       PROVE  AnsweredInv'
  <2>1. /\ UNCHANGED turnMessages /\ pc = "llm"
        /\ pc' \in {"guard_output", "loop_check", "llm"}
    BY <1>12 DEF LLMRawJson, LLMEmpty, LLMResponds, Continue
  <2>2. QED
    BY <2>1, AnsweredKept DEF LoopStages
<1>13. QED
  BY <1>3, <1>4, <1>5, <1>6, <1>7, <1>8, <1>9, <1>10, <1>11, <1>12
     DEF Next, Turn, LLMStage

(* The stored turn has a result for every tool call it announces, unless   *)
(* the loop was cut between the two by a refused spending with the tokens  *)
(* used up.                                                                *)
THEOREM ResultsStored == Spec => []UnansweredOnlyIfCut
<1>1. Init => AnsweredInv
  <2> SUFFICES ASSUME Init PROVE AnsweredInv
    OBVIOUS
  <2>1. pc = "guard_input" /\ saved = << >>
    BY DEF Init, NotSaved
  <2>2. AllAnswered(turnMessages)
    BY DEF Init, AllAnswered, Answered, Msg
  <2>3. UnansweredOnlyIfCut
    BY <2>1 DEF UnansweredOnlyIfCut
  <2>4. QED
    BY <2>1, <2>2, <2>3 DEF AnsweredInv, Stages, LoopStages
<1>2. IInv /\ AnsweredInv /\ [Next]_vars => AnsweredInv'
  BY AnsweredStep DEF IInv
<1>3. AnsweredInv => UnansweredOnlyIfCut
  BY DEF AnsweredInv
<1>4. QED
  BY InductiveInvariant, <1>1, <1>2, <1>3, PTL DEF Spec
=============================================================================
