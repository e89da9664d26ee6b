---------------------------- MODULE PartialProgress ----------------------------
(***************************************************************************)
(* What a prompt that fails leaves in its session (internal/assistant,       *)
(* runtime_persist.go, round_persistence.go, retry.go).  Everything streamed *)
(* is recorded as blocks, started tools as pending.  A completed round that  *)
(* is made durable, because steering arrived, takes its blocks out of the    *)
(* record; a failure writes what is left, a failed result for every pending  *)
(* tool, and the error.  A retry starts the record anew.                     *)
(***************************************************************************)
EXTENDS Integers, Sequences, FiniteSets, SequencesExt

CONSTANTS
    MaxToolCalls, \* tool calls of the prompt
    MaxTexts,     \* stretches of text it streams
    RetryAttempts \* attempts of the provider request

VARIABLES
    ppBlocks,   \* streamed blocks: [role, items]
    ppFallback, \* the blocks of the attempt before, if it had any
    ppPending,  \* started tool calls without a result
    ppNested,   \* results of calls that tools made themselves
    ppRound,    \* the round being streamed: [texts, tools], sequences
    ppRounds,   \* completed rounds that are not durable
    ppStored,   \* what the session holds
    ppAt,       \* "streaming", "persisting", "failed" or "done"
    ppCount,    \* texts streamed, tools started, attempts made
    ppLost      \* "no"; or how a write failed: "first" or "later" round
ppVars == <<ppBlocks, ppFallback, ppPending, ppNested, ppRound, ppRounds, ppStored, ppAt, ppCount, ppLost>>

EmptyRound == [texts |-> <<>>, tools |-> <<>>]
ProgressInit ==
    /\ ppBlocks = <<>> /\ ppFallback = <<>> /\ ppPending = <<>> /\ ppNested = <<>> /\ ppRound = EmptyRound
    /\ ppRounds = <<>> /\ ppStored = <<>> /\ ppAt = "streaming" /\ ppLost = "no"
    /\ ppCount = [texts |-> 0, tools |-> 0, attempts |-> 1, since |-> 0]

Text(n) == <<"text", n>>
Result(n) == <<"result", n>>
NestedResult(n) == <<"nested", n>>

\* Text joins the block before it; results stay apart.
appendBlock(blocks, role, item) ==
    IF blocks # <<>> /\ Last(blocks).role = role /\ role = "text"
    THEN Front(blocks) \o <<[role |-> role, items |-> Append(Last(blocks).items, item)]>>
    ELSE Append(blocks, [role |-> role, items |-> <<item>>])

\* Mutation: a result settles the oldest call, whoever it belongs to.
removesOldest(n) == IF ppPending = <<>> THEN ppPending ELSE Tail(ppPending)

removePendingTool(n) == SelectSeq(ppPending, LAMBDA x : x # n)

recordText ==
    /\ ppAt = "streaming" /\ ppPending = <<>> /\ ppRound.tools = <<>> /\ ppCount.texts < MaxTexts
    /\ LET n == ppCount.texts + 1
       IN /\ ppBlocks' = appendBlock(ppBlocks, "text", Text(n))
          /\ ppRound' = [ppRound EXCEPT !.texts = Append(@, n)] /\ ppCount' = [ppCount EXCEPT !.texts = n]
    /\ UNCHANGED <<ppFallback, ppPending, ppNested, ppRounds, ppStored, ppAt, ppLost>>

trackPendingTool ==
    /\ ppAt = "streaming" /\ ppCount.tools < MaxToolCalls
    /\ LET n == ppCount.tools + 1
       IN /\ ppPending' = Append(ppPending, n) /\ ppCount' = [ppCount EXCEPT !.tools = n]
          /\ ppRound' = [ppRound EXCEPT !.tools = Append(@, n)]
    /\ UNCHANGED <<ppBlocks, ppFallback, ppNested, ppRounds, ppStored, ppAt, ppLost>>

ToolCalls == 1..MaxToolCalls

\* A tool that calls tools itself reports them before its own result.
recordNested(n) ==
    /\ ppAt = "streaming" /\ Contains(ppPending, n) /\ ~Contains(ppNested, n) /\ n % 2 = 0
    /\ ppBlocks' = appendBlock(ppBlocks, "tool", NestedResult(n)) /\ ppNested' = Append(ppNested, n)
    /\ UNCHANGED <<ppFallback, ppPending, ppRound, ppRounds, ppStored, ppAt, ppCount, ppLost>>

recordToolResult(n) ==
    /\ ppAt = "streaming" /\ Contains(ppRound.tools, n) /\ Contains(ppPending, n)
    /\ ppPending' = removePendingTool(n) /\ ppBlocks' = appendBlock(ppBlocks, "tool", Result(n))
    /\ UNCHANGED <<ppFallback, ppNested, ppRound, ppRounds, ppStored, ppAt, ppCount, ppLost>>

(***************************************************************************)
(* Rounds                                                                   *)
(***************************************************************************)
\* The provider finished a round; steering that waits makes all finished rounds durable.
roundCheckpoint ==
    /\ ppAt = "streaming" /\ ppRound # EmptyRound
    /\ \A i \in DOMAIN ppRound.tools : ~Contains(ppPending, ppRound.tools[i])
    /\ ppRounds' = Append(ppRounds, ppRound) /\ ppRound' = EmptyRound
    /\ ppAt' \in {"streaming", "persisting"}
    /\ UNCHANGED <<ppBlocks, ppFallback, ppPending, ppNested, ppStored, ppCount, ppLost>>

\* Children stand before their call; calls of other rounds come last.
mergeNestedToolEvents(tools, nested) ==
    LET children(n) == IF Contains(nested, n) THEN <<NestedResult(n)>> ELSE <<>>
        own == FoldLeft(LAMBDA s, n : s \o children(n) \o <<Result(n)>>, <<>>, tools)
        rest == SelectSeq(nested, LAMBDA n : ~Contains(tools, n))
    IN own \o [i \in DOMAIN rest |-> NestedResult(rest[i])]

Bundle(round) == mergeNestedToolEvents(round.tools, ppNested) \o [i \in DOMAIN round.texts |-> Text(round.texts[i])]

\* Mutation: what was made durable stays in the record.
dropsNothing(blocks, textCommitted, toolCount) == blocks

\* Text goes if the round had any; results go by their number, from the front.
dropCommittedBlocks(blocks, textCommitted, toolCount) ==
    LET step(acc, b) ==
            IF b.role = "text"
            THEN <<IF textCommitted THEN acc[1] ELSE Append(acc[1], b), acc[2]>>
            ELSE <<IF acc[2] > 0 THEN acc[1] ELSE Append(acc[1], b), acc[2] - 1>>
    IN FoldLeft(step, <<<<>>, toolCount>>, blocks)[1]

commitCompletedRound(round) ==
    /\ ppBlocks' = dropCommittedBlocks(ppBlocks, round.texts # <<>>, Len(round.tools) + Len(ppNested))
    /\ ppPending' = SelectSeq(ppPending, LAMBDA n : ~Contains(round.tools, n))
    /\ ppNested' = <<>>

persistPendingRounds ==
    /\ ppAt = "persisting" /\ UNCHANGED <<ppFallback, ppRound>>
    /\ \/ /\ ppRounds = <<>> /\ ppAt' = "streaming" /\ ppCount' = [ppCount EXCEPT !.since = 0]
          /\ UNCHANGED <<ppBlocks, ppPending, ppNested, ppRounds, ppStored, ppLost>>
       \/ /\ ppRounds # <<>> /\ commitCompletedRound(Head(ppRounds)) /\ ppRounds' = Tail(ppRounds)
          /\ ppStored' = ppStored \o Bundle(Head(ppRounds)) /\ ppCount' = [ppCount EXCEPT !.since = 1]
          /\ UNCHANGED <<ppAt, ppLost>>

\* A write fails after some entries of the round; the prompt fails with it.
persistFails ==
    /\ ppAt = "persisting" /\ ppRounds # <<>> /\ ppAt' = "failing"
    /\ \E k \in 0..(Len(Bundle(Head(ppRounds))) - 1) : ppStored' = ppStored \o SubSeq(Bundle(Head(ppRounds)), 1, k)
    /\ ppLost' = IF ppCount.since = 0 THEN "first" ELSE "later"
    /\ UNCHANGED <<ppBlocks, ppFallback, ppPending, ppNested, ppRound, ppRounds, ppCount>>

(***************************************************************************)
(* Failures                                                                 *)
(***************************************************************************)
\* A transient error before any tool ran starts the record anew, keeping its blocks aside.
abandonAttempt ==
    /\ ppAt = "streaming" /\ ppCount.tools = 0 /\ ppCount.attempts < RetryAttempts
    /\ ppFallback' = IF ppBlocks = <<>> THEN ppFallback ELSE ppBlocks
    /\ ppBlocks' = <<>> /\ ppPending' = <<>> /\ ppNested' = <<>> /\ ppRound' = EmptyRound /\ ppRounds' = <<>>
    /\ ppCount' = [ppCount EXCEPT !.attempts = @ + 1] /\ UNCHANGED <<ppStored, ppAt, ppLost>>

respondFails == ppAt = "streaming" /\ ppAt' = "failing"
                /\ UNCHANGED <<ppBlocks, ppFallback, ppPending, ppNested, ppRound, ppRounds, ppStored, ppCount, ppLost>>

persistableBlocks == IF ppBlocks # <<>> THEN ppBlocks ELSE ppFallback
syntheticToolFailures == [i \in DOMAIN ppPending |-> Result(ppPending[i])]
failureMessages == FlattenSeq([i \in DOMAIN persistableBlocks |-> persistableBlocks[i].items])
                   \o syntheticToolFailures \o <<<<"error", 0>>>>

\* The failure is written under a context that a cancel does not end.
appendPartialPromptFailure ==
    /\ ppAt = "failing" /\ ppAt' = "failed" /\ ppStored' = ppStored \o failureMessages
    /\ UNCHANGED <<ppBlocks, ppFallback, ppPending, ppNested, ppRound, ppRounds, ppCount, ppLost>>

ProgressNext ==
    recordText \/ trackPendingTool \/ roundCheckpoint \/ persistPendingRounds \/ persistFails \/ abandonAttempt
    \/ respondFails \/ appendPartialPromptFailure \/ (\E n \in ToolCalls : recordNested(n) \/ recordToolResult(n))

(***************************************************************************)
(* Properties                                                               *)
(***************************************************************************)
Stored(item) == Len(SelectSeq(ppStored, LAMBDA x : x = item))

\* Every tool call of a failed prompt has a result in the session: one, or the one that was
\* being written again when its write failed.  Only a write that fails between the rounds of
\* one checkpoint may lose or repeat one.
ToolsAnswered ==
    ppAt = "failed" /\ ppLost # "later" =>
        \A n \in 1..ppCount.tools : Stored(Result(n)) >= 1 /\ (ppLost = "no" => Stored(Result(n)) = 1)

\* What was streamed is stored at most once: a round that is durable is not written again by
\* the failure of a later one.
NothingStoredTwice ==
    ppAt = "failed" /\ ppLost = "no" =>
        /\ \A n \in 1..ppCount.texts : Stored(Text(n)) <= 1
        /\ \A n \in 1..ppCount.tools : Stored(NestedResult(n)) <= 1
================================================================================
