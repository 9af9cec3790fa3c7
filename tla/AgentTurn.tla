------------------------------ MODULE AgentTurn ------------------------------
(***************************************************************************)
(* One chat turn of the api-service agent: the Pipeline of stages and      *)
(* middlewares that LLMAgent.stream_events runs for a user message         *)
(* (api_service/agent/orchestrator.py, pipeline.py, stages.py,             *)
(* middlewares.py).                                                        *)
(*                                                                         *)
(* The turn is one coroutine; pc is the stage it is about to run.  Around  *)
(* it move the language model and the tools, which answer or fail at will, *)
(* the client, which may disconnect at any suspension point, and the other *)
(* turns of the same tenants, which charge the shared spending table.      *)
(*                                                                         *)
(* Texts are reduced to what the code tells apart: "clean" is an ordinary  *)
(* answer, "leaky" one the output guard blocks, "rawjson" one that looks   *)
(* like tool calls although no parser understood it.  Message sizes are    *)
(* counted in units, one per message; one paid LLM call costs one unit.    *)
(***************************************************************************)
EXTENDS Integers, Sequences, FiniteSets

CONSTANTS
    MaxIterations,      \* agent_max_iterations
    MaxEmptyRounds,     \* agent_max_empty_rounds
    MaxEmptyRetries,    \* LLMStage(max_empty_retries), -1 = no limit
    MaxToolCalls,       \* MAX_TOOL_CALLS_PER_TURN
    MaxBatch,           \* bound: tool calls in one LLM response
    MaxTurnTokens,      \* agent_max_turn_tokens, 0 = no budget
    InitialTokens,      \* possible sizes of system prompt + history + message
    Tenants,            \* tenant_ids of the request, in order
    Budget,             \* spending budget of each tenant, 0 = no limit
    MaxForeignSpend     \* bound: what other turns may have spent

TenantSet == {Tenants[i] : i \in 1..Len(Tenants)}

ASSUME LimitsAssumption ==
    /\ MaxIterations \in Nat \ {0}
    /\ MaxEmptyRounds \in Nat
    /\ MaxEmptyRetries \in Int
    /\ MaxToolCalls \in Nat
    /\ MaxBatch \in Nat \ {0}
    /\ MaxTurnTokens \in Nat
    /\ InitialTokens \subseteq Nat
    /\ MaxForeignSpend \in Nat

ASSUME TenantsAssumption ==
    /\ Tenants \in Seq(TenantSet)
    /\ Budget \in [TenantSet -> Nat]

VARIABLES
    pc,             \* stage about to run, or how the turn ended
    iteration,      \* ctx.turn.iteration
    emptyRounds,    \* ctx.turn.empty_rounds
    toolCallCount,  \* ctx.tool_call_count
    hadToolCalls,   \* ctx.had_tool_calls_this_iteration
    pendingCalls,   \* Len(ctx.turn.pending_calls)
    nextCall,       \* position of the loop over pending_calls
    shouldStop,     \* ctx.should_stop
    finalContent,   \* ctx.turn.final_content
    lastResponse,   \* ctx.last_response: is it paid, how often was it charged
    tokens,         \* estimate_tokens(ctx.turn.messages)
    turnMessages,   \* ctx.turn.turn_messages
    spent,          \* SpendingChecker._spending, shared by all turns
    saved,          \* the turn in the conversation store
    sent,           \* what the client received
    calls,          \* LLM calls made by LLMStage and by FallbackStage
    verdicts        \* {"blocked"}: input guard; {"refused"}: spending limit

loopVars == <<iteration, emptyRounds, hadToolCalls>>
toolVars == <<toolCallCount, pendingCalls, nextCall>>
vars == <<pc, loopVars, toolVars, shouldStop, finalContent, lastResponse,
          tokens, turnMessages, spent, saved, sent, calls, verdicts>>

Answers == {"clean", "leaky", "rawjson", "generic", "redacted"}
Stages == {"guard_input", "tool_discovery", "llm", "tools", "loop_check",
           "guard_output", "fallback", "save_history"}
Ended == {"done", "failed", "closed"}

(* A message of turn_messages: its role, the answer it carries and, for an *)
(* assistant message, how many tool calls it announces.                    *)
Message == [role: {"user", "assistant", "tool", "system"},
            body: Answers \cup {"text"}, calls: 0..MaxBatch]
Msg(role, body, n) == [role |-> role, body |-> body, calls |-> n]
Answer(body) == Msg("assistant", body, 0)

Sent == [finals: Nat, errors: Nat, streamed: SUBSET Answers]
NotSaved == << >>
NoResponse == [paid |-> FALSE, charged |-> 0]

TypeOK ==
    /\ pc \in Stages \cup Ended
    /\ iteration \in 0..(MaxIterations - 1)
    /\ emptyRounds \in Nat
    /\ toolCallCount \in Nat
    /\ hadToolCalls \in BOOLEAN
    /\ pendingCalls \in 0..MaxBatch
    /\ nextCall \in Nat \ {0}
    /\ shouldStop \in BOOLEAN
    /\ finalContent \in Answers \cup {"none", "error"}
    /\ lastResponse \in [paid: BOOLEAN, charged: Nat]
    /\ tokens \in Nat
    /\ turnMessages \in Seq(Message)
    /\ spent \in [TenantSet -> Nat]
    /\ saved \in Seq(Message)
    /\ sent \in Sent
    /\ calls \in [main: Nat, fallback: Nat]
    /\ verdicts \subseteq {"blocked", "refused"}

Init ==
    /\ pc = "guard_input"
    /\ iteration = 0
    /\ emptyRounds = 0
    /\ toolCallCount = 0
    /\ hadToolCalls = FALSE
    /\ pendingCalls = 0
    /\ nextCall = 1
    /\ shouldStop = FALSE
    /\ finalContent = "none"
    /\ lastResponse = NoResponse
    /\ tokens \in InitialTokens
    /\ turnMessages = <<Msg("user", "text", 0)>>
    /\ spent = [t \in TenantSet |-> 0]
    /\ saved = NotSaved
    /\ sent = [finals |-> 0, errors |-> 0, streamed |-> {}]
    /\ calls = [main |-> 0, fallback |-> 0]
    /\ verdicts = {}

-----------------------------------------------------------------------------
(* Middlewares.                                                            *)

(* SpendingChecker.check_limits after a charge: the budget is hit.         *)
Over(t, spending) == Budget[t] > 0 /\ spending[t] >= Budget[t]

(* spent once the tenants at the given positions have been charged.        *)
SpentAfter(positions) ==
    [t \in TenantSet |->
        spent[t] + Cardinality({j \in positions : Tenants[j] = t})]
Refusals == {i \in 1..Len(Tenants) : Over(Tenants[i], SpentAfter(1..i))}
Reached == {j \in 1..Len(Tenants) : \A i \in 1..(j - 1) : i \notin Refusals}

(* SpendingMiddleware on a "final" or "status" event: each tenant in turn  *)
(* is charged the cost of last_response and checked; the first tenant over *)
(* its budget turns the event into an error and ends the loop.             *)
Charges(paid) == paid /\ Tenants # << >>
Refused(paid) == Charges(paid) /\ Refusals # {}
Charge(paid) == IF Charges(paid) THEN SpentAfter(Reached) ELSE spent

(* TokenBudgetMiddleware and the loop's own check.                         *)
TokensExceeded == MaxTurnTokens > 0 /\ tokens >= MaxTurnTokens

(* An event passes the middleware chain and reaches the client.            *)
SendError == sent' = [sent EXCEPT !.errors = @ + 1]
SendStatus(paid) ==
    sent' = IF Refused(paid) THEN [sent EXCEPT !.errors = @ + 1] ELSE sent
SendFinal(body, paid) ==
    sent' = [finals   |-> sent.finals + (IF Refused(paid) THEN 0 ELSE 1),
             errors   |-> sent.errors + (IF Refused(paid) THEN 1 ELSE 0),
             streamed |-> sent.streamed \cup {body}]

Settle(paid) ==
    /\ spent' = Charge(paid)
    /\ verdicts' = verdicts \cup (IF Refused(paid) THEN {"refused"} ELSE {})

-----------------------------------------------------------------------------
(* Phase 1: the stages of the loop.                                        *)

GuardInput ==
    /\ pc = "guard_input"
    /\ \/ /\ pc' = "tool_discovery"
          /\ UNCHANGED <<shouldStop, sent, verdicts>>
       \/ /\ pc' = "guard_output"
          /\ shouldStop' = TRUE
          /\ verdicts' = verdicts \cup {"blocked"}
          /\ SendError
    /\ UNCHANGED <<loopVars, toolVars, finalContent, lastResponse, tokens,
                   turnMessages, spent, saved, calls>>

(* The schema note is appended to messages when the schema can be read.    *)
ToolDiscovery ==
    /\ pc = "tool_discovery"
    /\ pc' = "llm"
    /\ \E note \in {0, 1} : tokens' = tokens + note
    /\ UNCHANGED <<loopVars, toolVars, shouldStop, finalContent, lastResponse,
                   turnMessages, spent, saved, sent, calls, verdicts>>

(* list_tools, complete or aremember_turn raises: stream_events reports it *)
(* and the turn is over; nothing else runs.                                *)
TurnFails ==
    /\ pc \in {"tool_discovery", "llm", "save_history"}
    /\ pc' = "failed"
    /\ SendError
    /\ calls' = [calls EXCEPT !.main = @ + (IF pc = "llm" THEN 1 ELSE 0)]
    /\ UNCHANGED <<loopVars, toolVars, shouldStop, finalContent, lastResponse,
                   tokens, turnMessages, spent, saved, verdicts>>

(* The bookkeeping every LLM response shares.  charged counts how often    *)
(* the spending middleware recorded the cost of this response.             *)
LLMRespondsAgain(paid, event) ==      \* mutant: the old last_response is kept
    /\ pc = "llm"
    /\ calls' = [calls EXCEPT !.main = @ + 1]
    /\ lastResponse' = [paid |-> paid,
                        charged |-> lastResponse.charged +
                            (IF event /\ Charges(paid) THEN 1 ELSE 0)]
    /\ UNCHANGED <<iteration, toolCallCount, nextCall, saved>>
LLMResponds(paid, event) ==
    /\ pc = "llm"
    /\ calls' = [calls EXCEPT !.main = @ + 1]
    /\ lastResponse' = [paid |-> paid,
                        charged |-> IF event /\ Charges(paid) THEN 1 ELSE 0]
    /\ UNCHANGED <<iteration, toolCallCount, nextCall, saved>>

(* Where the loop goes once a stage has left should_stop as stop says.     *)
ContinueUnchecked(stop, next) == pc' = next     \* mutant: stop not looked at
Continue(stop, next) == pc' = IF stop THEN "guard_output" ELSE next

(* LAYER 1 and LAYER 2: the response, or its text, holds n tool calls.     *)
LLMToolCalls(n, paid) ==
    /\ LLMResponds(paid, TRUE)
    /\ hadToolCalls' = TRUE
    /\ pendingCalls' = n
    /\ SendStatus(paid)
    /\ Settle(paid)
    /\ shouldStop' = (shouldStop \/ (Refused(paid) /\ TokensExceeded))
    /\ tokens' = tokens + 1
    /\ turnMessages' = Append(turnMessages, Msg("assistant", "text", n))
    /\ Continue(shouldStop', "tools")
    /\ UNCHANGED <<emptyRounds, finalContent>>

(* LAYER 3: text that looks like tool calls never becomes a final.         *)
LLMRawJson(paid) ==
    /\ LLMResponds(paid, FALSE)
    /\ finalContent' = "error"
    /\ shouldStop' = TRUE
    /\ SendError
    /\ Continue(TRUE, "llm")
    /\ UNCHANGED <<emptyRounds, hadToolCalls, pendingCalls, tokens,
                   turnMessages, spent, verdicts>>

LLMFinal(body, paid) ==
    /\ LLMResponds(paid, TRUE)
    /\ finalContent' = body
    /\ tokens' = tokens + 1
    /\ turnMessages' = Append(turnMessages, Answer(body))
    /\ SendFinal(body, paid)
    /\ Settle(paid)
    /\ shouldStop' = TRUE
    /\ Continue(TRUE, "llm")
    /\ UNCHANGED <<emptyRounds, hadToolCalls, pendingCalls>>

(* A response without content: an empty round, or a bare retry while the   *)
(* iteration number is below the retry limit.                              *)
LLMEmpty(reasoning, paid) ==
    LET retries == /\ ~reasoning
                   /\ MaxEmptyRetries # 0
                   /\ MaxEmptyRetries = -1 \/ iteration < MaxEmptyRetries
    IN
    /\ LLMResponds(paid, TRUE)
    /\ emptyRounds' = IF retries THEN emptyRounds ELSE emptyRounds + 1
    /\ SendStatus(paid)
    /\ Settle(paid)
    /\ shouldStop' = (shouldStop \/ (Refused(paid) /\ TokensExceeded))
    /\ Continue(shouldStop', "loop_check")
    /\ UNCHANGED <<hadToolCalls, pendingCalls, finalContent, tokens,
                   turnMessages>>

LLMStage ==
    \E paid \in BOOLEAN :
        \/ \E n \in 1..MaxBatch : LLMToolCalls(n, paid)
        \/ LLMRawJson(paid)
        \/ \E body \in {"clean", "leaky"} : LLMFinal(body, paid)
        \/ \E reasoning \in BOOLEAN : LLMEmpty(reasoning, paid)

OverToolLimitLate == toolCallCount > MaxToolCalls   \* mutant: off by one
OverToolLimit == toolCallCount + 1 > MaxToolCalls

BatchCut == nextCall = pendingCalls \/ OverToolLimit   \* mutant: break
BatchDone == nextCall = pendingCalls

(* One pass of the loop over pending_calls: run the tool, send its result  *)
(* through the middlewares, count it, append it.  A stop requested here is *)
(* only looked at when the whole batch is done.                            *)
ExecuteTool ==
    /\ pc = "tools"
    /\ toolCallCount' = toolCallCount + 1
    /\ shouldStop' = (shouldStop \/ TokensExceeded \/ OverToolLimit)
    /\ IF OverToolLimit THEN SendError ELSE UNCHANGED sent
    /\ \E reminder \in {<< >>, <<Msg("system", "text", 0)>>} :
         /\ tokens' = tokens + 1 + Len(reminder)
         /\ turnMessages' =
              turnMessages \o <<Msg("tool", "text", 0)>> \o reminder
    /\ IF BatchDone
         THEN /\ pendingCalls' = 0
              /\ nextCall' = 1
              /\ Continue(shouldStop', "loop_check")
         ELSE /\ nextCall' = nextCall + 1
              /\ UNCHANGED <<pendingCalls, pc>>
    /\ UNCHANGED <<loopVars, finalContent, lastResponse, spent, saved, calls,
                   verdicts>>

(* The termination checks at the foot of the loop.                         *)
LoopEndsNoIterations ==     \* mutant: the iteration limit is missing
    finalContent # "none" \/ emptyRounds >= MaxEmptyRounds \/ TokensExceeded
LoopEnds ==
    \/ finalContent # "none"
    \/ emptyRounds >= MaxEmptyRounds
    \/ iteration >= MaxIterations - 1
    \/ TokensExceeded

StopLoop ==
    /\ pc = "loop_check"
    /\ LoopEnds
    /\ pc' = "guard_output"
    /\ UNCHANGED <<loopVars, toolVars, shouldStop, finalContent, lastResponse,
                   tokens, turnMessages, spent, saved, sent, calls, verdicts>>

(* A round of tool calls does not use up an iteration.                     *)
NextIteration ==
    /\ pc = "loop_check"
    /\ ~LoopEnds
    /\ pc' = "llm"
    /\ iteration' = IF hadToolCalls THEN iteration ELSE iteration + 1
    /\ hadToolCalls' = FALSE
    /\ pendingCalls' = 0
    /\ UNCHANGED <<emptyRounds, toolCallCount, nextCall, shouldStop,
                   finalContent, lastResponse, tokens, turnMessages, spent,
                   saved, sent, calls, verdicts>>

-----------------------------------------------------------------------------
(* Phase 2: the finalizers, each run once, in the orchestrator's order.    *)

RedactForgetsTurn ==      \* mutant: turn_messages keeps the leaking text
    /\ finalContent' =
         IF finalContent = "leaky" THEN "redacted" ELSE finalContent
    /\ UNCHANGED turnMessages

(* Only the last assistant message is replaced: the answer just appended.  *)
Redact ==
    IF finalContent = "leaky"
      THEN /\ finalContent' = "redacted"
           /\ turnMessages' =
                [turnMessages EXCEPT ![Len(turnMessages)].body = "redacted"]
      ELSE UNCHANGED <<finalContent, turnMessages>>

GuardOutputWaits ==       \* mutant: waits for a content instead of returning
    /\ pc = "guard_output"
    /\ finalContent # "none"
    /\ pc' = "fallback"
    /\ shouldStop' = TRUE
    /\ Redact
    /\ UNCHANGED <<loopVars, toolVars, lastResponse, tokens, spent, saved,
                   sent, calls, verdicts>>
GuardOutput ==
    /\ pc = "guard_output"
    /\ pc' = "fallback"
    /\ shouldStop' = TRUE
    /\ Redact
    /\ UNCHANGED <<loopVars, toolVars, lastResponse, tokens, spent, saved,
                   sent, calls, verdicts>>

FallbackAlways == finalContent # "redacted"     \* mutant: answer ignored
FallbackUnlessEmpty ==                          \* mutant: empty rounds skip it
    finalContent = "none" /\ emptyRounds = 0
FallbackNeeded == finalContent = "none"

SkipFallback ==
    /\ pc = "fallback"
    /\ ~FallbackNeeded
    /\ pc' = "save_history"
    /\ UNCHANGED <<loopVars, toolVars, shouldStop, finalContent, lastResponse,
                   tokens, turnMessages, spent, saved, sent, calls, verdicts>>

(* One more LLM call without tools; its text goes to the client and to the *)
(* turn as it is, and the final event charges last_response again.         *)
Fallback(body) ==
    LET paid == lastResponse.paid IN
    /\ pc = "fallback"
    /\ FallbackNeeded
    /\ pc' = "save_history"
    /\ calls' = [calls EXCEPT !.fallback = @ + 1]
    /\ finalContent' = body
    /\ turnMessages' = Append(turnMessages, Answer(body))
    /\ SendFinal(body, paid)
    /\ Settle(paid)
    /\ lastResponse' = [lastResponse EXCEPT
                          !.charged = @ + (IF Charges(paid) THEN 1 ELSE 0)]
    /\ UNCHANGED <<loopVars, toolVars, shouldStop, tokens, saved>>

SaveHistory ==
    /\ pc = "save_history"
    /\ pc' = "done"
    /\ saved' = turnMessages
    /\ UNCHANGED <<loopVars, toolVars, shouldStop, finalContent, lastResponse,
                   tokens, turnMessages, spent, sent, calls, verdicts>>

-----------------------------------------------------------------------------
(* The environment of the turn.                                            *)

(* The client disconnects and the generator is closed where it is          *)
(* suspended.  The thread that writes the history cannot be cancelled.     *)
ClientGone ==
    /\ pc \in Stages
    /\ pc' = "closed"
    /\ saved' \in {saved} \cup
                  (IF pc = "save_history" THEN {turnMessages} ELSE {})
    /\ UNCHANGED <<loopVars, toolVars, shouldStop, finalContent, lastResponse,
                   tokens, turnMessages, spent, sent, calls, verdicts>>

(* A turn of another session charges one of the same tenants.              *)
OtherTurnSpends(t) ==
    /\ pc \in Stages
    /\ spent[t] < MaxForeignSpend
    /\ spent' = [spent EXCEPT ![t] = @ + 1]
    /\ UNCHANGED <<pc, loopVars, toolVars, shouldStop, finalContent,
                   lastResponse, tokens, turnMessages, saved, sent, calls,
                   verdicts>>

Turn ==
    \/ GuardInput
    \/ ToolDiscovery
    \/ TurnFails
    \/ LLMStage
    \/ ExecuteTool
    \/ StopLoop
    \/ NextIteration
    \/ GuardOutput
    \/ SkipFallback
    \/ \E body \in {"clean", "leaky", "rawjson", "generic"} : Fallback(body)
    \/ SaveHistory

Next ==
    \/ Turn
    \/ ClientGone
    \/ \E t \in TenantSet : OtherTurnSpends(t)

Spec == Init /\ [][Next]_vars

(* The event loop keeps scheduling the turn, and every await in it has a   *)
(* timeout (the LLM client's, the MCP client's, SQLite's): it keeps moving.*)
FairSpec == Spec /\ WF_vars(Turn)

-----------------------------------------------------------------------------
(* Properties.                                                             *)

(* The tools a turn runs are bounded: the limit is looked at after every   *)
(* result, a batch under way is finished, and no other batch follows       *)
(* (MAX_TOOL_CALLS_PER_TURN; pipeline.py, the tool_result branch).         *)
ToolCallsBounded == toolCallCount <= MaxToolCalls + MaxBatch

(* Tool rounds use no iteration and empty responses no tool call, yet the  *)
(* two limits together bound the calls of LLMStage, and FallbackStage adds *)
(* one at most.                                                            *)
LLMCallsBounded ==
    /\ calls.main <= MaxIterations + MaxToolCalls
    /\ calls.fallback <= 1

(* Whatever stops the loop, a turn that completes has told the client      *)
(* something, and never sent two final answers.                            *)
NeverSilent == pc = "done" => sent.finals + sent.errors >= 1
OneFinal ==
    /\ sent.finals <= 1
    /\ sent.finals = 1 => finalContent \notin {"none", "error"}

(* What the client was given as the final answer is what the stored turn   *)
(* ends with, unless the output guard replaced it.                         *)
FinalIsSaved ==
    pc = "done" /\ sent.finals = 1 =>
        LET answer == saved[Len(saved)] IN
        /\ answer.role = "assistant"
        /\ answer.body = finalContent
        /\ answer.body # "redacted" => answer.body \in sent.streamed

(* A leaking answer of LLMStage is not stored: the output guard stands     *)
(* between the loop and the store.                                         *)
MainAnswerGuarded ==
    \A i \in 1..Len(saved) : saved[i].body = "leaky" => calls.fallback = 1

(* The conversation store holds tool calls without their results only when *)
(* the round was cut between LLMStage and ToolExecutionStage, that is when *)
(* the spending limit was hit with the context already over its budget.    *)
ResultsOf(s, i) ==
    {j \in (i + 1)..Len(s) :
        s[j].role = "tool" /\ \A k \in (i + 1)..j : s[k].calls = 0}
Answered(s, i) == s[i].calls > 0 => s[i].calls = Cardinality(ResultsOf(s, i))
UnansweredOnlyIfCut ==
    (\E i \in 1..Len(saved) : ~Answered(saved, i)) =>
        /\ "refused" \in verdicts
        /\ TokensExceeded

(* A response is charged by the event it leads to and at most once again,  *)
(* by the final event of the fallback, which leaves last_response alone.   *)
ChargedAgainOnlyByFallback == lastResponse.charged <= 1 + calls.fallback

(* After a stop was requested no stage of the loop calls the LLM again:    *)
(* only the fallback may.                                                  *)
NoLoopCallAfterStop == [][shouldStop => calls'.main = calls.main]_vars

(* What a turn costs: its calls are bounded, each is charged once or once   *)
(* more by the fallback, and a stop is a stop.                             *)
CallsKept ==
    /\ [](ToolCallsBounded /\ LLMCallsBounded /\ ChargedAgainOnlyByFallback)
    /\ NoLoopCallAfterStop

(* What a turn gives: the client is told one thing, which is what the next *)
(* turn of the session will find, and what the guard let through.          *)
OneOutcome == NeverSilent /\ OneFinal /\ FinalIsSaved /\ MainAnswerGuarded

(* Every turn ends, however the model and the tools answer: each round     *)
(* consumes an iteration or a tool call, and the finalizers run once.      *)
TurnEnds == <>(pc \in Ended)

-----------------------------------------------------------------------------
(* The inductive invariant behind the bounds and the delivery properties.  *)

LoopStages == {"guard_input", "tool_discovery", "llm", "tools", "loop_check"}

(* In the loop nothing is final yet; between the stages nothing is stopped *)
(* or pending, and no tool round starts once the limit is used up.         *)
LoopInv ==
    /\ pc \in LoopStages => finalContent = "none"
    /\ pc \in LoopStages \ {"tools"} => ~shouldStop /\ pendingCalls = 0
    /\ pc \in LoopStages \ {"tools"} => nextCall = 1
    /\ pc = "tools" => nextCall <= pendingCalls /\ hadToolCalls
    /\ pc \in LoopStages /\ ~shouldStop => toolCallCount <= MaxToolCalls
    /\ pc = "tools" =>
         toolCallCount + (pendingCalls - nextCall) < MaxToolCalls + MaxBatch
    /\ ToolCallsBounded

(* Each call of LLMStage is paid for by an iteration or a tool call; the   *)
(* round under way has not paid yet.                                       *)
CallsInv ==
    /\ pc \in {"guard_input", "tool_discovery"} =>
         calls.main = 0 /\ ~hadToolCalls
    /\ pc = "llm" => calls.main <= iteration + toolCallCount /\ ~hadToolCalls
    /\ pc = "tools" =>
         calls.main <=
             iteration + toolCallCount + (IF nextCall = 1 THEN 1 ELSE 0)
    /\ pc = "loop_check" =>
         calls.main <=
             iteration + toolCallCount + (IF hadToolCalls THEN 0 ELSE 1)
    /\ finalContent = "none" => calls.fallback = 0
    /\ LLMCallsBounded

(* A content is final exactly when the client was told something about it. *)
DeliveryInv ==
    /\ finalContent = "none" => sent.finals = 0
    /\ finalContent # "none" => sent.finals + sent.errors >= 1
    /\ finalContent = "error" => sent.finals = 0
    /\ pc \in {"save_history", "done"} => finalContent # "none"
    /\ OneFinal

(* The last message of the turn is the final answer, and only an answer    *)
(* that came from the fallback can leak past the output guard.             *)
LastMessageIs(s, body) == Len(s) > 0 /\ s[Len(s)] = Answer(body)
HistoryInv ==
    /\ pc \in {"guard_output", "fallback", "save_history"}
       /\ finalContent \notin {"none", "error"} =>
         /\ LastMessageIs(turnMessages, finalContent)
         /\ finalContent # "redacted" => finalContent \in sent.streamed
    /\ pc \in Stages =>
         \A i \in 1..Len(turnMessages) :
             turnMessages[i].body = "leaky" =>
                 \/ calls.fallback = 1
                 \/ pc = "guard_output" /\ finalContent = "leaky"
                                        /\ i = Len(turnMessages)
    /\ pc \in Stages => saved = NotSaved
    /\ FinalIsSaved
    /\ MainAnswerGuarded

IInv == TypeOK /\ LoopInv /\ CallsInv /\ DeliveryInv /\ HistoryInv

(* While a batch runs, the last announced calls have as many results as    *)
(* calls were made, and all the others are answered; a loop that was cut   *)
(* is the only way to leave calls unanswered.                              *)
AllAnswered(s) == \A i \in 1..Len(s) : Answered(s, i)
Batch(s, n, made) ==
    \E i \in 1..Len(s) :
        /\ s[i].calls = n /\ n > 0
        /\ \A k \in (i + 1)..Len(s) : s[k].calls = 0
        /\ Cardinality(ResultsOf(s, i)) = made
        /\ \A x \in 1..Len(s) : x # i => Answered(s, x)
AnsweredInv ==
    /\ pc \in LoopStages \ {"tools"} => AllAnswered(turnMessages)
    /\ pc = "tools" => Batch(turnMessages, pendingCalls, nextCall - 1)
    /\ pc \in Stages \ LoopStages =>
         AllAnswered(turnMessages) \/ ("refused" \in verdicts /\ TokensExceeded)
    /\ UnansweredOnlyIfCut
=============================================================================
