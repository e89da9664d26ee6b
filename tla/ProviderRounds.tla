----------------------------- MODULE ProviderRounds -----------------------------
(***************************************************************************)
(* The request loop of the provider clients (internal/provider): the three   *)
(* streaming APIs, what each makes of a stream that ends early, for length   *)
(* or by a refusal, the tools a round asks for, the messages with which the   *)
(* next request answers them, and steering taken at a checkpoint.  The        *)
(* provider at the other end sends a round piece by piece and may stop at any *)
(* point; a failed request is sent again by the assistant if the failure is   *)
(* transient and no tool has run.                                             *)
(***************************************************************************)
EXTENDS Integers, Sequences, FiniteSets, SequencesExt

CONSTANTS
    MaxRounds,   \* rounds of one prompt
    MaxBlocks,   \* calls of one round
    MaxSteers,   \* steering messages of one prompt
    MaxSends  \* attempts of the request

VARIABLES
    prApi,      \* "none", "anthropic", "chat" or "responses"
    prAt,       \* where the loop stands
    prSent,     \* what the provider sent in this round
    prAcc,      \* what the client gathered from it
    prResult,   \* the parsed round
    prMessages, \* the conversation of the request: [role, items]
    prRun,      \* [round, attempt, steers, tools, failure]
    prRan       \* calls last handed to the executor: [args, reason, lists, cut], with how their round ended
prVars == <<prApi, prAt, prSent, prAcc, prResult, prMessages, prRun, prRan>>

\* Arguments of a call: nothing, a part or all of them.
None == 0
Whole == 2

NothingSent == [text |-> 0, blocks |-> <<>>, reason |-> "", lists |-> TRUE, ended |-> FALSE]
NothingGathered == [text |-> 0, blocks |-> <<>>, reason |-> "", typed |-> FALSE, terminal |-> FALSE]
NoResult == [finish |-> "unknown", text |-> 0, calls |-> <<>>]
Prompt == <<[role |-> "user", items |-> <<[kind |-> "prompt", round |-> 0, n |-> 0]>>]>>

RoundsInit ==
    /\ prApi = "none" /\ prAt = "idle" /\ prSent = NothingSent /\ prAcc = NothingGathered /\ prResult = NoResult
    /\ prMessages = Prompt /\ prRan = <<>>
    /\ prRun = [round |-> 1, attempt |-> 1, steers |-> 0, tools |-> FALSE, failure |-> "none"]

\* The request is dispatched by the API of its model.
Complete(api) ==
    /\ prAt = "idle" /\ prApi' = api /\ prAt' = "requesting"
    /\ UNCHANGED <<prSent, prAcc, prResult, prMessages, prRun, prRan>>

Fail(why) == prAt' = "failed" /\ prRun' = [prRun EXCEPT !.failure = why]

(***************************************************************************)
(* The request                                                              *)
(***************************************************************************)
\* A hook fails, or raises the limit on output that the request must keep.
applyProviderRequestHook ==
    /\ prAt = "requesting" /\ Fail("hook")
    /\ UNCHANGED <<prApi, prSent, prAcc, prResult, prMessages, prRan>>

\* No connection, or a status other than success; the body tells a full context from the rest.
Statuses == {"network", "rateLimited", "serverError", "badRequest", "context"}
requestRefused(why) ==
    /\ prAt = "requesting" /\ Fail(why)
    /\ UNCHANGED <<prApi, prSent, prAcc, prResult, prMessages, prRan>>

requestProviderStream ==
    /\ prAt = "requesting" /\ prAt' = "streaming" /\ prSent' = NothingSent /\ prAcc' = NothingGathered
    /\ UNCHANGED <<prApi, prResult, prMessages, prRun, prRan>>

(***************************************************************************)
(* The stream                                                               *)
(***************************************************************************)
Open == prAt = "streaming" /\ prSent.reason = ""

\* A Responses stream has events of a type response.*, from its first one on, or has none.
typedEvent ==
    /\ Open /\ prApi = "responses" /\ prSent = NothingSent /\ ~prAcc.typed
    /\ prAcc' = [prAcc EXCEPT !.typed = TRUE]
    /\ UNCHANGED <<prApi, prAt, prSent, prResult, prMessages, prRun, prRan>>

addTextDelta ==
    /\ Open /\ prSent.text = 0
    /\ prSent' = [prSent EXCEPT !.text = @ + 1] /\ prAcc' = [prAcc EXCEPT !.text = @ + 1]
    /\ UNCHANGED <<prApi, prAt, prResult, prMessages, prRun, prRan>>

Positions(blocks) == {blocks[i].index : i \in DOMAIN blocks}
Block(index, named, args) == [index |-> index, named |-> named, args |-> args]

\* The calls of a chat round may come in any order; the other APIs send them one after the other.
startBlock(index, named) ==
    /\ Open /\ index \notin Positions(prSent.blocks)
    /\ prApi # "chat" => \A i \in DOMAIN prSent.blocks : prSent.blocks[i].index < index /\ prSent.blocks[i].args = Whole
    /\ prSent' = [prSent EXCEPT !.blocks = Append(@, Block(index, named, None))]
    /\ prAcc' = [prAcc EXCEPT !.blocks = Append(@, Block(index, named, None))]
    /\ UNCHANGED <<prApi, prAt, prResult, prMessages, prRun, prRan>>

\* A piece of arguments is appended; the Responses client takes only the event with all of them.
gathers(args) == IF prApi # "responses" \/ args = Whole THEN args ELSE None

addArguments(i) ==
    /\ Open /\ i \in DOMAIN prSent.blocks /\ prSent.blocks[i].args < Whole
    /\ LET args == prSent.blocks[i].args + 1
       IN /\ prSent' = [prSent EXCEPT !.blocks[i].args = args]
          /\ prAcc' = [prAcc EXCEPT !.blocks[i].args = gathers(args)]
    /\ UNCHANGED <<prApi, prAt, prResult, prMessages, prRun, prRan>>

AllWhole == \A i \in DOMAIN prSent.blocks : prSent.blocks[i].args = Whole

\* Why a provider ends a round; only what ran out of length or was cut off is unfinished.
Reasons ==
    {"length", "refusal"} \cup (IF ~AllWhole THEN {} ELSE IF prSent.blocks = <<>> THEN {"stop"} ELSE {"tools"})
        \cup (IF AllWhole /\ (prApi = "chat" \/ (prApi = "responses" /\ ~prAcc.typed)) THEN {"unnamed"} ELSE {})

\* The event that says why the round ended, or the bare end of the stream.  A response lists its output or
\* not, and is the last event for the client if it is typed.
finishEvent(reason, lists) ==
    /\ Open /\ reason \in Reasons
    /\ prApi # "responses" => lists
    /\ prSent' = [prSent EXCEPT !.reason = reason, !.lists = lists, !.ended = prApi # "anthropic"]
    /\ prAcc' = [prAcc EXCEPT !.reason = reason, !.terminal = (prApi = "chat" \/ prAcc.typed)]
    /\ UNCHANGED <<prApi, prAt, prResult, prMessages, prRun, prRan>>

\* message_stop
stopEvent ==
    /\ prAt = "streaming" /\ prApi = "anthropic" /\ prSent.reason # "" /\ ~prSent.ended
    /\ prSent' = [prSent EXCEPT !.ended = TRUE] /\ prAcc' = [prAcc EXCEPT !.terminal = TRUE]
    /\ UNCHANGED <<prApi, prAt, prResult, prMessages, prRun, prRan>>

\* An error event, or response.failed.
errorEvent ==
    /\ Open /\ Fail("serverError")
    /\ UNCHANGED <<prApi, prSent, prAcc, prResult, prMessages, prRan>>

(***************************************************************************)
(* The parsed round                                                         *)
(***************************************************************************)
anthropicFinishReason(reason, calls) ==
    CASE reason = "stop" -> "stop" [] reason = "length" -> "length" [] reason = "tools" -> "tools"
      [] reason = "refusal" -> "refusal" [] OTHER -> IF calls # <<>> THEN "tools" ELSE "unknown"

openAIChatFinishReason(reason, calls) ==
    IF calls # <<>> /\ reason # "length" THEN "tools"
    ELSE CASE reason = "length" -> "length" [] reason = "stop" -> "stop"
           [] reason = "refusal" -> "filter" [] OTHER -> "unknown"

\* A completed response is "stop" whether it has calls or not; one without a status says nothing.
openAIResponseFinishReason(reason, calls) ==
    CASE reason \in {"stop", "tools"} -> "stop" [] reason = "length" -> "length" [] reason = "refusal" -> "filter"
      [] OTHER -> IF calls # <<>> THEN "tools" ELSE "unknown"

ByIndex(blocks) == SortSeq(blocks, LAMBDA a, b : a.index < b.index)

\* The client's own words for a refusal.
anthropicRefusalText == 2

\* A refusal has no calls, and a text when the provider sent none.
anthropicResult(acc) ==
    LET calls == ByIndex(acc.blocks)
        finish == anthropicFinishReason(acc.reason, calls)
    IN IF finish # "refusal" THEN [finish |-> finish, text |-> acc.text, calls |-> calls]
       ELSE [finish |-> finish, text |-> IF acc.text = 0 THEN anthropicRefusalText ELSE acc.text, calls |-> <<>>]

chatResult(acc) ==
    [finish |-> openAIChatFinishReason(acc.reason, ByIndex(acc.blocks)), text |-> acc.text, calls |-> ByIndex(acc.blocks)]

providerResultFromOutputItems(acc) ==
    [finish |-> IF acc.blocks # <<>> THEN "tools" ELSE "unknown", text |-> acc.text, calls |-> acc.blocks]

\* Mutation: only text that the last event repeats counts.
ignoresDeltas(acc, sent) ==
    [finish |-> openAIResponseFinishReason(acc.reason, sent.blocks), calls |-> sent.blocks, text |-> IF sent.lists THEN sent.text ELSE 0]

\* The output that the last event lists, or else the items gathered before it.
providerResultFromSSEFinalResponse(acc, sent) ==
    LET listed == [finish |-> openAIResponseFinishReason(acc.reason, sent.blocks), calls |-> sent.blocks, text |-> sent.text]
        gathered == providerResultFromOutputItems(acc)
        nothing == [finish |-> openAIResponseFinishReason(acc.reason, <<>>), calls |-> <<>>, text |-> acc.text]
    IN IF sent.lists THEN listed
       ELSE IF acc.blocks = <<>> THEN nothing
       ELSE gathered

\* Without a response the items are the round, if there are any.
providerResultFromSSEAccumulator(acc, sent) ==
    IF acc.reason = "" THEN providerResultFromOutputItems(acc) ELSE providerResultFromSSEFinalResponse(acc, sent)

parsed ==
    CASE prApi = "anthropic" -> anthropicResult(prAcc) [] prApi = "chat" -> chatResult(prAcc)
      [] prApi = "responses" -> providerResultFromSSEAccumulator(prAcc, prSent)

\* Mutation: a stream with content counts as complete.
acceptsContent(acc, result) == acc.terminal \/ result.text > 0 \/ result.calls # <<>>

\* The last event must have come, in a Responses stream only if it had typed events; a chat round must also
\* have something in it.
completeWithContent(acc, result) ==
    /\ acc.terminal \/ (prApi = "responses" /\ ~acc.typed)
    /\ prApi = "chat" => result.text > 0 \/ result.calls # <<>> \/ result.finish # "unknown"

\* The stream ends, at its last event or before, or reading it fails.
parseStream ==
    /\ prAt = "streaming" /\ UNCHANGED <<prApi, prSent, prAcc, prMessages, prRan>>
    /\ \/ completeWithContent(prAcc, parsed) /\ prResult' = parsed /\ prAt' = "round" /\ UNCHANGED prRun
       \/ ~(prAcc.terminal /\ completeWithContent(prAcc, parsed)) /\ Fail("incomplete") /\ UNCHANGED prResult

(***************************************************************************)
(* Tools                                                                    *)
(***************************************************************************)
validateToolCalls(calls) == \A i \in DOMAIN calls : calls[i].named

\* Mutation: a round that ran out of length runs what it has.
ignoresLength(finish, calls) == validateToolCalls(calls)

validateToolDispatch(finish, calls) == ~(finish = "length" /\ calls # <<>>) /\ validateToolCalls(calls)

\* A Responses stream without typed events that broke off.
UntypedCut == prApi = "responses" /\ ~prAcc.typed /\ ~prSent.ended

refuseRound ==
    /\ prAt = "round" /\ ~validateToolDispatch(prResult.finish, prResult.calls) /\ Fail("refused")
    /\ UNCHANGED <<prApi, prSent, prAcc, prResult, prMessages, prRan>>

Ran == [i \in DOMAIN prResult.calls |->
           [args |-> prResult.calls[i].args, reason |-> prSent.reason, lists |-> prSent.lists, cut |-> UntypedCut]]

dispatchTools ==
    /\ prAt = "round" /\ prResult.calls # <<>> /\ validateToolDispatch(prResult.finish, prResult.calls)
    /\ prAt' = "executing" /\ prRun' = [prRun EXCEPT !.tools = TRUE] /\ prRan' = Ran
    /\ UNCHANGED <<prApi, prSent, prAcc, prResult, prMessages>>

CallItem(i) == [kind |-> "call", round |-> prRun.round, n |-> i]
OutputItem(i) == [kind |-> "output", round |-> prRun.round, n |-> i]
TextItem == [kind |-> "text", round |-> prRun.round, n |-> prResult.text]
CallItems == [i \in DOMAIN prResult.calls |-> CallItem(i)]
TextItems == IF prResult.text > 0 THEN <<TextItem>> ELSE <<>>
Message(role, items) == [role |-> role, items |-> items]
Each(role, items) == [i \in DOMAIN items |-> Message(role, <<items[i]>>)]

\* Calls in one message of the assistant, results in one of the user.
appendAnthropicToolConversation(messages, results) ==
    messages \o <<Message("assistant", CallItems), Message("user", [i \in 1..results |-> OutputItem(i)])>>

appendOpenAIChatToolConversation(messages, results) ==
    Append(messages, Message("assistant", TextItems \o CallItems)) \o Each("tool", [i \in 1..results |-> OutputItem(i)])

\* Mutation: only the results there are become outputs.
answersResults(messages, results) ==
    messages \o Each("assistant", CallItems) \o Each("tool", [i \in 1..results |-> OutputItem(i)])

\* Calls, then an output for each, empty where there is no result.
appendResponsesToolRound(messages, results) ==
    messages \o Each("assistant", CallItems) \o Each("tool", [i \in DOMAIN prResult.calls |-> OutputItem(i)])

\* The executor answers every call, answers fewer, or fails.
executeToolCalls(results) ==
    /\ prAt = "executing" /\ UNCHANGED <<prApi, prSent, prAcc, prResult, prRan>>
    /\ \/ /\ prApi = "responses" \/ results = Len(prResult.calls)
          /\ prMessages' = CASE prApi = "anthropic" -> appendAnthropicToolConversation(prMessages, results)
                             [] prApi = "chat" -> appendOpenAIChatToolConversation(prMessages, results)
                             [] prApi = "responses" -> appendResponsesToolRound(prMessages, results)
          /\ prAt' = "checkpoint" /\ UNCHANGED prRun
       \/ prApi # "responses" /\ results # Len(prResult.calls) /\ Fail("mismatch") /\ UNCHANGED prMessages

executorFails ==
    /\ prAt = "executing" /\ Fail("tools")
    /\ UNCHANGED <<prApi, prSent, prAcc, prResult, prMessages, prRan>>

(***************************************************************************)
(* Steering                                                                 *)
(***************************************************************************)
textRound ==
    /\ prAt = "round" /\ prResult.calls = <<>> /\ prAt' = "checkpoint"
    /\ UNCHANGED <<prApi, prSent, prAcc, prResult, prMessages, prRun, prRan>>

SteerItem(n) == [kind |-> "steer", round |-> prRun.round, n |-> n]

\* Mutation: steering is always a message of its own.
appendsOwnMessage(messages, items) == Append(messages, Message("user", items))

\* Steering joins a last message of the user.
appendAnthropicUserMessages(messages, items) ==
    IF Last(messages).role = "user"
    THEN Append(Front(messages), Message("user", Last(messages).items \o items))
    ELSE Append(messages, Message("user", items))

\* Mutation: the next request starts with the round.
startsOver(messages) == IF prResult.calls # <<>> THEN messages ELSE Each("assistant", TextItems)

\* The round's text is repeated before steering; a round of calls has been appended already.
appendRoundText(messages) ==
    IF prResult.calls # <<>> THEN messages
    ELSE IF prApi = "anthropic" THEN Append(messages, Message("assistant", TextItems))
    ELSE messages \o Each("assistant", TextItems)

appendUserMessages(messages, items) ==
    IF items = <<>> THEN messages
    ELSE IF prApi = "anthropic" THEN appendAnthropicUserMessages(messages, items)
    ELSE messages \o Each("user", items)

runRoundCheckpoint(count) ==
    /\ prAt = "checkpoint" /\ prRun.steers + count <= MaxSteers /\ UNCHANGED prApi
    /\ prSent' = NothingSent /\ prAcc' = NothingGathered /\ prResult' = NoResult /\ prRan' = <<>>
    /\ LET items == [i \in 1..count |-> SteerItem(prRun.steers + i)]
       IN \/ /\ count = 0 /\ prResult.calls = <<>> /\ prAt' = "done" /\ UNCHANGED <<prMessages, prRun>>
          \/ /\ count > 0 \/ prResult.calls # <<>>
             /\ prRun.round < MaxRounds /\ prAt' = "requesting"
             /\ prMessages' = appendUserMessages(IF count > 0 THEN appendRoundText(prMessages) ELSE prMessages, items)
             /\ prRun' = [prRun EXCEPT !.round = @ + 1, !.steers = @ + count]

\* The callback fails, or hands back a message that is empty or not the user's.
validateCheckpointMessages ==
    /\ prAt = "checkpoint" /\ Fail("checkpoint")
    /\ UNCHANGED <<prApi, prSent, prAcc, prResult, prMessages, prRan>>

(***************************************************************************)
(* Retries                                                                  *)
(***************************************************************************)
\* Rate limits, server and network errors and broken streams pass; the context stays full.
ShouldRetryModelError(failure) == failure \in {"network", "rateLimited", "serverError", "incomplete"}

\* Mutation: a request is sent again whatever it has done.
retriesAnything == prAt = "failed" /\ prRun.attempt < MaxSends /\ ShouldRetryModelError(prRun.failure)

mayRetry == prAt = "failed" /\ prRun.attempt < MaxSends /\ ShouldRetryModelError(prRun.failure) /\ ~prRun.tools

\* The original request is sent once more.
retryAttempt ==
    /\ mayRetry /\ prAt' = "requesting" /\ prMessages' = Prompt
    /\ prRun' = [prRun EXCEPT !.attempt = @ + 1, !.round = 1, !.failure = "none"]
    /\ UNCHANGED <<prApi, prSent, prAcc, prResult, prRan>>

RoundsNext ==
    \/ \E api \in {"anthropic", "chat", "responses"} : Complete(api)
    \/ applyProviderRequestHook
    \/ \E why \in Statuses : requestRefused(why)
    \/ requestProviderStream \/ typedEvent \/ addTextDelta
    \/ \E index \in 1..MaxBlocks, named \in BOOLEAN : startBlock(index, named)
    \/ \E i \in 1..MaxBlocks : addArguments(i)
    \/ \E reason \in {"length", "refusal", "stop", "tools", "unnamed"}, lists \in BOOLEAN : finishEvent(reason, lists)
    \/ stopEvent \/ errorEvent \/ parseStream \/ refuseRound \/ dispatchTools
    \/ \E results \in 0..MaxBlocks : results \in {Len(prResult.calls), Len(prResult.calls) - 1} /\ executeToolCalls(results)
    \/ executorFails \/ textRound
    \/ \E count \in 0..MaxSteers : runRoundCheckpoint(count)
    \/ validateCheckpointMessages \/ retryAttempt

(***************************************************************************)
(* Properties                                                               *)
(***************************************************************************)
Items == FlattenSeq([i \in DOMAIN prMessages |-> prMessages[i].items])

\* A request answers every call it shows exactly once, in the order of the calls, with nothing between a
\* round's calls and its answers: providers refuse anything else.
CallsAnswered ==
    prAt = "requesting" =>
        \A i \in DOMAIN Items : Items[i].kind = "call" =>
            LET calls == Cardinality({j \in DOMAIN Items : Items[j].kind = "call" /\ Items[j].round = Items[i].round})
            IN /\ i + calls \in DOMAIN Items /\ Items[i + calls] = [Items[i] EXCEPT !.kind = "output"]
               /\ \A j \in DOMAIN Items : Items[j] = [Items[i] EXCEPT !.kind = "output"] => j = i + calls

\* Requests to Anthropic alternate between the roles, and end with the user.
RolesAlternate ==
    prApi = "anthropic" /\ prAt = "requesting" =>
        \A i \in DOMAIN prMessages : prMessages[i].role = IF i % 2 = 1 THEN "user" ELSE "assistant"

\* Rounds only add to a conversation: steering that joins a message leaves what is there.
HistoryOnlyGrows ==
    [][prRun'.attempt = prRun.attempt => IsPrefix(Items, Items')]_prVars

\* A tool runs with all of the arguments that the provider had for it.  The exceptions are a round ended by
\* a content filter, a Responses stream that ends for length and lists no output, and one without typed
\* events that breaks off: the client takes what it gathered for a complete round.
WholeCallsRun ==
    \A i \in DOMAIN prRan :
        \/ prRan[i].args = Whole \/ prRan[i].reason = "refusal"
        \/ prRan[i].reason = "length" /\ ~prRan[i].lists
        \/ prRan[i].cut

\* "provider response ended for length with tool calls; refusing possibly partial invocations".
\* It does not hold: README.md, section 7.
PartialCallsRefused == \A i \in DOMAIN prRan : prRan[i].reason = "length" => prRan[i].args = Whole

\* Neither a tool nor an answer comes of a stream that broke off, unless it is a Responses stream that had
\* no typed event (README.md, section 7).
NothingFromBrokenStream == prAt \in {"round", "executing", "checkpoint"} => prSent.ended \/ UntypedCut

\* "provider stream closed before completion": a stream that broke off is an error.
\* It does not hold: README.md, section 7.
EndedStreamsOnly == prAt \in {"round", "executing", "checkpoint"} => prSent.ended

\* The round that is stored holds the text that was shown while it streamed; only a refusal of which
\* nothing was shown has words of the client's own.
ShownIsStored ==
    prAt = "round" =>
        \/ prResult.text = prSent.text
        \/ prSent.text = 0 /\ prApi = "anthropic" /\ prResult.finish = "refusal"

\* A request whose tools have run is not sent again.
NoRetryAfterTools == [][prRun.tools => prRun'.attempt = prRun.attempt]_prVars
================================================================================
