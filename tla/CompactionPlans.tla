---------------------------- MODULE CompactionPlans ----------------------------
(***************************************************************************)
(* What a compaction summarizes, keeps and records (internal/compaction and    *)
(* internal/assistant/context_compaction.go): a session's branch grows by       *)
(* messages and tool results, and is compacted again and again, by the plan of   *)
(* the core or by the first kept entry an extension selects from it.             *)
(* An entry's id is its position; the tokens of an entry are its weight.          *)
(***************************************************************************)
EXTENDS Integers, FiniteSets, SequencesExt

CONSTANTS Conversation, \* the kinds of message of an instance
          MaxBranch,    \* bound on the entries of the branch
          MaxToolRows,  \* bound on its tool results
          MaxFiles,     \* maxFileOperations
          Windows       \* context windows of the models in use; 0 is unknown

ASSUME PlanAssumption == MaxFiles \in Nat \ {0} /\ Windows \subseteq Nat
                         /\ Conversation \subseteq {"user", "custom", "assistant", "bash", "branch_summary"}

VARIABLE cpBranch   \* the entries from the root to the leaf

cpVars == <<cpBranch>>

ToolRows == [file : {"f1", "f2"}] \cup [outcome : {"passed", "failed"}] \cup [work : {"running", "succeeded"}]

PlanInit == cpBranch = <<>>

--------------------------------------------------------------------------------
(* Model-facing entries. *)

\* A tool result and a thought are kept in the branch and never replayed.
messageForContext(e) == e.kind \in Conversation \cup {"compaction"}

messageForSummary(e) == messageForContext(e) /\ e.kind # "compaction"

isTurnStartEntry(e) == e.kind \in {"user", "custom"}

\* An estimate of four runes a token: an answer is longer than a question.
Weight(e) == IF e.kind = "assistant" THEN 2 ELSE 1

Weights(branch, ids) == FoldLeft(LAMBDA acc, i : acc + Weight(branch[i]), 0, SetToSeq(ids))

Facing(branch) == {i \in DOMAIN branch : messageForSummary(branch[i])}

Largest(set, none) == IF set = {} THEN none ELSE Max(set)

\* Mutation: the summary starts over, without the tail it keeps.
summaryOnly(branch) ==
    LET Add(effective, i) == IF ~messageForContext(branch[i]) THEN effective
                             ELSE IF branch[i].kind = "compaction" THEN <<i>> ELSE Append(effective, i)
    IN FoldLeft(Add, <<>>, [i \in DOMAIN branch |-> i])

\* A compaction replaces what its predecessors left before the first entry it keeps.
effectiveModelFacingEntries(branch) ==
    LET Add(effective, i) ==
            IF ~messageForContext(branch[i]) THEN effective
            ELSE IF branch[i].kind # "compaction" THEN Append(effective, i)
            ELSE LET at == SelectInSeq(effective, LAMBDA id : id = branch[i].first)
                 IN <<i>> \o (IF at = 0 THEN <<>> ELSE SubSeq(effective, at, Len(effective)))
    IN FoldLeft(Add, <<>>, [i \in DOMAIN branch |-> i])

BranchTokens(branch) == Weights(branch, Range(effectiveModelFacingEntries(branch)))

--------------------------------------------------------------------------------
(* The plan. *)

\* A third of the window, or of the current context if that is less; 20000 tokens when unknown.
RecentTailTarget(window, current) ==
    LET contextTail == IF window = 0 THEN 20000 ELSE Max({1, window \div 3})
    IN IF current = 0 THEN contextTail ELSE Min({contextTail, Max({1, (current + 2) \div 3})})

\* The configured maximum applies when it is set.
compactionRecentTailTokens(window, current, configured) ==
    LET target == RecentTailTarget(window, current)
    IN IF configured > 0 THEN Min({target, configured}) ELSE target

\* The newest compaction, whose summary is carried on, and where the history after it starts.
previousCompactionBoundary(branch) ==
    LET previous == Largest({i \in DOMAIN branch : branch[i].kind = "compaction"}, 0)
    IN [previous |-> previous, start |-> IF previous = 0 THEN 1 ELSE branch[previous].first]

validCutPoints(branch, start) == {i \in Facing(branch) : i >= start}

findTurnStartEntryIndex(branch, index, start) ==
    Largest({i \in start..index : isTurnStartEntry(branch[i])}, 0)

\* Mutation: the entry that reaches the target is summarized.
cutsBehind(branch, start, target) ==
    LET points == validCutPoints(branch, start)
        reaching == {i \in points : Weights(branch, {j \in points : j > i}) >= target}
        cut == Largest(reaching, Min(points))
        after == {i \in points : i > start}
    IN IF points = {} THEN start
       ELSE IF cut > start THEN cut
       ELSE IF after # {} THEN Max(after) ELSE Max(points)

\* The newest cut that leaves the target in the tail; past the start when none does.
findCutPoint(branch, start, target) ==
    LET points == validCutPoints(branch, start)
        reaching == {i \in points : Weights(branch, {j \in points : j >= i}) >= target}
        cut == Largest(reaching, Min(points))
        after == {i \in points : i > start}
    IN IF points = {} THEN start
       ELSE IF cut > start THEN cut
       ELSE IF after # {} THEN Min(after) ELSE Max(points)

\* A cut inside a turn splits it, when the turn starts after the boundary.
splitTurnStart(branch, start, cut) ==
    IF isTurnStartEntry(branch[cut]) THEN 0 ELSE findTurnStartEntryIndex(branch, cut, start)

messagesInRange(branch, from, to) == SelectSeq([i \in 1..(to - from) |-> from + i - 1],
                                               LAMBDA i : messageForSummary(branch[i]))

\* Mutation: the part of a split turn before the cut is left out.
dropsTurnPrefix(branch, start, cut) ==
    LET turn == splitTurnStart(branch, start, cut)
        messages == messagesInRange(branch, start, IF turn > 0 THEN turn ELSE cut)
    IN [messages |-> messages, split |-> <<>>, ids |-> messages]

\* The prefix of a split turn is described in the prompt, or is the history when there is no other.
summaryPayload(branch, start, cut) ==
    LET turn == splitTurnStart(branch, start, cut)
        messages == messagesInRange(branch, start, IF turn > 0 THEN turn ELSE cut)
        prefix == IF turn > 0 THEN messagesInRange(branch, turn, cut) ELSE <<>>
    IN [messages |-> IF messages = <<>> THEN prefix ELSE messages,
        split |-> IF messages = <<>> THEN <<>> ELSE prefix,
        ids |-> messages \o prefix]

hasModelFacingSummary(branch, start, cut) == \E i \in start..(cut - 1) : messageForSummary(branch[i])

keptEntryIDs(branch, cut) == {i \in cut..Len(branch) : messageForContext(branch[i])}

\* There is new history after the newest compaction, and old history before the cut.
PlanBranch(branch, target, cut) ==
    /\ Largest({i \in DOMAIN branch : messageForContext(branch[i])}, 0) > previousCompactionBoundary(branch).previous
    /\ target > 0
    /\ cut <= Len(branch)
    /\ hasModelFacingSummary(branch, previousCompactionBoundary(branch).start, cut)

\* The entry an extension selects: model-facing, with old history before it.
PlanBranchFromFirstKept(branch, first) ==
    /\ messageForContext(branch[first])
    /\ hasModelFacingSummary(branch, previousCompactionBoundary(branch).start, first)

--------------------------------------------------------------------------------
(* What survives next to the summary.  Every record is collected again from the    *)
(* root of the branch, and from the records of the compactions in it.                *)

IsTool(e, field) == e.kind = "tool" /\ field \in DOMAIN e.row

\* Files read or modified by tools, each once, up to the limit.
CollectFileOperations(branch, cut) ==
    LET Add(ops, i) ==
            LET prior == IF branch[i].kind = "compaction" THEN branch[i].files
                         ELSE IF IsTool(branch[i], "file") THEN <<branch[i].row.file>> ELSE <<>>
                fresh == SelectSeq(prior, LAMBDA f : f \notin Range(ops))
            IN IF Len(ops) >= MaxFiles THEN ops ELSE SubSeq(ops \o fresh, 1, Min({Len(ops \o fresh), MaxFiles}))
    IN FoldLeft(Add, <<>>, [i \in 1..(cut - 1) |-> i])

\* The records of one validation command, in the order they are read; the last one counts.
CollectValidationRecords(branch, cut) ==
    LET Add(last, i) ==
            IF branch[i].kind = "compaction" /\ branch[i].validation # "none" THEN branch[i].validation
            ELSE IF IsTool(branch[i], "outcome") THEN branch[i].row.outcome ELSE last
    IN FoldLeft(Add, "none", [i \in 1..(cut - 1) |-> i])

\* Mutation: only the last entry before the cut is read.
readsLastRow(branch, cut) ==
    IF cut > 1 /\ branch[cut - 1] = [kind |-> "tool", row |-> [work |-> "running"]] THEN "running" ELSE "none"

\* The state of one task as last read; only a task that may still run is recorded.
CollectActiveWorkRecords(branch, cut) ==
    LET Add(last, i) ==
            IF branch[i].kind = "compaction" /\ branch[i].active # "none" THEN branch[i].active
            ELSE IF IsTool(branch[i], "work") THEN branch[i].row.work ELSE last
    IN IF FoldLeft(Add, "none", [i \in 1..(cut - 1) |-> i]) = "running" THEN "running" ELSE "none"

--------------------------------------------------------------------------------
(* The branch grows. *)

AppendConversation(kind) ==
    /\ Len(cpBranch) < MaxBranch
    /\ cpBranch' = Append(cpBranch, [kind |-> kind])

AppendToolRow(row) ==
    /\ Len(cpBranch) < MaxBranch
    /\ Cardinality({i \in DOMAIN cpBranch : cpBranch[i].kind = "tool"}) < MaxToolRows
    /\ cpBranch' = Append(cpBranch, [kind |-> "tool", row |-> row])

\* The first entry to keep: the plan's, or any entry the plan keeps that an extension selects.
compactionDecisionFromMutation(branch, cut) ==
    {cut} \cup {first \in keptEntryIDs(branch, cut) : PlanBranchFromFirstKept(branch, first)}

\* The summary was written and fits, and its parent is still the leaf: the entry is appended.
\* The fields "previous" and "ids" are what its summary was made from, and "target" its tail.
appendCompaction(branch, first, target, hooked) ==
    LET boundary == previousCompactionBoundary(branch)
    IN Append(branch, [kind |-> "compaction", first |-> first,
                       previous |-> boundary.previous, target |-> target, hooked |-> hooked,
                       ids |-> Range(summaryPayload(branch, boundary.start, first).ids),
                       files |-> CollectFileOperations(branch, first),
                       validation |-> CollectValidationRecords(branch, first),
                       active |-> CollectActiveWorkRecords(branch, first)])

\* A compaction that finds nothing to do, is canceled or fails leaves no entry.
CompactBranch(window, configured) ==
    LET target == compactionRecentTailTokens(window, BranchTokens(cpBranch), configured)
        cut == findCutPoint(cpBranch, previousCompactionBoundary(cpBranch).start, target)
    IN /\ cpBranch # <<>> /\ Len(cpBranch) < MaxBranch
       /\ PlanBranch(cpBranch, target, cut)
       /\ \E first \in compactionDecisionFromMutation(cpBranch, cut) :
              cpBranch' = appendCompaction(cpBranch, first, target, first # cut)

PlanNext ==
    \/ \E kind \in Conversation : AppendConversation(kind)
    \/ \E row \in ToolRows : AppendToolRow(row)
    \/ \E window \in Windows, configured \in {0, 1} : CompactBranch(window, configured)

--------------------------------------------------------------------------------
(* Properties. *)

Compactions == {i \in DOMAIN cpBranch : cpBranch[i].kind = "compaction"}
Newest == Largest(Compactions, 0)

\* The entries an entry's summary stands for, its predecessors' included.
Covered(i) ==
    LET chain[n \in 0..Len(cpBranch)] ==
            IF n = 0 THEN {} ELSE IF cpBranch[n].kind # "compaction" THEN {}
            ELSE cpBranch[n].ids \cup chain[cpBranch[n].previous]
    IN chain[i]

\* The messages the database replays after the newest summary.
Replayed == {i \in Facing(cpBranch) : Newest = 0 \/ i >= cpBranch[Newest].first}

\* After any number of compactions every message of the branch is either replayed or told by
\* the chain of summaries, and never both; a split turn loses none of its messages.
SummaryPlusTail == Replayed \cup Covered(Newest) = Facing(cpBranch) /\ Replayed \cap Covered(Newest) = {}

\* The tokens before a compaction are counted over what the model really gets, unless an
\* extension made an earlier summary the first entry to keep.
CountsWhatIsReplayed ==
    (\A i \in Compactions : cpBranch[i].first \notin Compactions) =>
        Range(effectiveModelFacingEntries(cpBranch)) = Replayed \cup (IF Newest = 0 THEN {} ELSE {Newest})

\* A plan of the core keeps its target, and no more than the message that reaches it, unless
\* there was nothing else to summarize.
TailKept ==
    \A c \in Compactions : ~cpBranch[c].hooked =>
        LET before == SubSeq(cpBranch, 1, c - 1)
            start == previousCompactionBoundary(before).start
            tail == {i \in Facing(before) : i >= cpBranch[c].first}
            older == {i \in Facing(before) : start < i /\ i < cpBranch[c].first}
        IN /\ Weights(before, tail \ {cpBranch[c].first}) < cpBranch[c].target
           /\ Weights(before, tail) >= cpBranch[c].target \/ older = {}

\* A task last seen running in the compacted history is recorded as running.
ActiveWorkRemembered ==
    \A c \in Compactions :
        LET seen == {i \in 1..(cpBranch[c].first - 1) : IsTool(cpBranch[i], "work")}
        IN seen # {} /\ cpBranch[Max(seen)].row.work = "running" => cpBranch[c].active = "running"

\* The recorded outcome of a command is that of its latest run in the compacted history
\* (appendices.go: "retaining the latest outcome for each exact command").
\* It does not hold: README.md, section 7.
LatestOutcomeRecorded ==
    \A c \in Compactions :
        LET runs == {i \in 1..(cpBranch[c].first - 1) : IsTool(cpBranch[i], "outcome")}
        IN runs # {} => cpBranch[c].validation = cpBranch[Max(runs)].row.outcome

--------------------------------------------------------------------------------
(***************************************************************************)
(* Writing the summary of a compaction (internal/assistant/context_summary.go, *)
(* context_compaction.go, internal/compaction/groups.go, checkpoint.go): the      *)
(* budgeted request, the repair of a malformed checkpoint, the reduction of a       *)
(* history whose summary was truncated, and what is validated before it is kept.      *)
(***************************************************************************)

CONSTANTS Histories,    \* histories to summarize: sequences of [role, tokens]
          Window,       \* the model's context window
          PromptTokens, \* the estimate of the system prompt
          Answers,      \* sizes of answers a provider may give
          MaxChunks,    \* MaxChunksPerReductionRound
          MaxDepth,     \* MaxReductionDepth
          Retained,     \* tokens of the retained tail and the ordinary prompt
          MaxLines      \* bound on the lines of a checkpoint

ASSUME ReductionAssumption ==
    /\ Window \in Nat /\ PromptTokens \in Nat /\ Answers \subseteq Nat \ {0}
    /\ MaxChunks \in Nat \ {0} /\ MaxDepth \in Nat \ {0} /\ Retained \in Nat /\ MaxLines \in Nat

VARIABLES
    srBase,   \* the messages to summarize, with the part of the history each tells
    srGroups, \* their semantic groups
    srAsk,    \* the request in flight: its messages and why it was sent
    srRest,   \* chunks of this round still to be summarized
    srDone,   \* groups the round has made
    srDepth,  \* the round; 0 before any reduction
    srEnd,    \* how the summary ended, and its outcome
    srLength, \* the messages of the history
    srText    \* a checkpoint whose structure is validated

srVars == <<srBase, srGroups, srAsk, srRest, srDone, srDepth, srEnd, srLength, srText>>

NoRequest == [messages |-> <<>>, why |-> "none", repair |-> FALSE]

ReductionInit ==
    /\ srBase = <<>> /\ srGroups = <<>> /\ srAsk = NoRequest /\ srRest = <<>>
    /\ srDone = <<>> /\ srDepth = 0 /\ srEnd = [kind |-> "idle", messages |-> <<>>] /\ srLength = 0 /\ srText = <<>>

--------------------------------------------------------------------------------
(* Budgets, in estimated tokens. *)

\* A fifth of the window, at least one token, unless configured: the room of an answer.
OutputReserve(window) == Min({16384, Max({1, (window * 20) \div 100})})

\* Four fifths of the reserve, and at least 64 tokens or no summary at all.
SummaryOutputLimit(reserve) == (reserve * 80) \div 100

OutputLimit == SummaryOutputLimit(OutputReserve(Window))
Envelope == 32

\* The room for history in a summary request: the window without the answer and the fixed part.
AvailableHistoryTokens == Max({0, Window - OutputLimit - (PromptTokens + Envelope)})

EstimateMessageTokens(messages) == FoldLeft(LAMBDA acc, m : acc + m.tokens, 0, messages)

\* Preflight of a summary request; a repair request carries the same contract as its prompt.
SummaryBudgetFits(messages) ==
    /\ PromptTokens + Envelope <= Window - OutputLimit
    /\ EstimateMessageTokens(messages) <= AvailableHistoryTokens

\* The ordinary request that follows: summary and tail within the window less its reserves.
validateCompactionResult(summary) == summary + Retained <= Window - OutputReserve(Window)

--------------------------------------------------------------------------------
(* Groups and chunks. *)

startsSemanticTurn(role) == role \in {"user", "custom", "bash"}

\* A group is a turn with everything that follows its first message; a reduction is its own.
GroupsFromMessages(messages) ==
    FoldLeft(LAMBDA groups, m : IF groups = <<>> \/ startsSemanticTurn(m.role)
                                THEN Append(groups, [kind |-> "turn", messages |-> <<m>>])
                                ELSE [groups EXCEPT ![Len(groups)].messages = Append(@, m)],
             <<>>, messages)

GroupTokens(g) == EstimateMessageTokens(g.messages)

validateSemanticGroup(g, available) ==
    /\ GroupTokens(g) > 0 /\ GroupTokens(g) <= available
    /\ g.kind = "turn" => startsSemanticTurn(g.messages[1].role)

messagesFromSemanticGroups(groups) == FoldLeft(LAMBDA acc, g : acc \o g.messages, <<>>, groups)

\* The largest prefix that fits, again and again.
packChunk(groups, available) ==
    FoldLeft(LAMBDA chunks, g :
                 IF chunks # <<>>
                    /\ EstimateMessageTokens(messagesFromSemanticGroups(Last(chunks))) + GroupTokens(g) <= available
                 THEN [chunks EXCEPT ![Len(chunks)] = Append(@, g)]
                 ELSE Append(chunks, <<g>>),
             <<>>, groups)

\* The chunks, or none when a group is invalid or too large or there would be too many.
Partition(groups, available) ==
    LET chunks == packChunk(groups, available)
    IN IF available > 0 /\ (\A i \in DOMAIN groups : validateSemanticGroup(groups[i], available))
          /\ Len(chunks) <= MaxChunks
       THEN chunks ELSE <<>>

\* Mutation: the second half starts one group late.
skipsMiddle(groups, force) ==
    LET chunks == Partition(groups, AvailableHistoryTokens)
        split == Len(groups) \div 2
    IN IF force /\ Len(chunks) = 1 /\ Len(groups) >= 2
       THEN <<SubSeq(groups, 1, split), SubSeq(groups, split + 2, Len(groups))>> ELSE chunks

\* A single chunk was already too much for one answer: it is halved, once.
partitionReductionGroups(groups, force) ==
    LET chunks == Partition(groups, AvailableHistoryTokens)
        split == Len(groups) \div 2
    IN IF force /\ Len(chunks) = 1 /\ Len(groups) >= 2
       THEN <<SubSeq(groups, 1, split), SubSeq(groups, split + 1, Len(groups))>> ELSE chunks

--------------------------------------------------------------------------------
(* Requests. *)

EndSummary(kind) == srAsk' = NoRequest /\ srEnd' = [kind |-> kind, messages |-> <<>>]

\* completeSummaryAttempt: an input that does not fit is never sent.
Ask(messages, why, repair) ==
    IF SummaryBudgetFits(messages)
    THEN /\ srAsk' = [messages |-> messages, why |-> why, repair |-> repair]
         /\ srEnd' = [kind |-> "running", messages |-> <<>>]
    ELSE EndSummary("overflow")

\* summarizeCompaction: every message tells the part of the history it is.
StartSummary(history) ==
    LET messages == [i \in DOMAIN history |-> [role |-> history[i].role, tokens |-> history[i].tokens, tells |-> <<i>>]]
    IN /\ srEnd.kind = "idle" /\ srText = <<>>
       /\ srBase' = messages /\ srGroups' = GroupsFromMessages(messages) /\ srLength' = Len(history)
       /\ Ask(messages, "history", FALSE)
       /\ UNCHANGED <<srRest, srDone, srDepth, srText>>

Tells(messages) == FoldLeft(LAMBDA acc, m : acc \o m.tells, <<>>, messages)

\* The answer, as a message of a later request.
answer(size) == [role |-> "user", tokens |-> size, tells |-> Tells(srAsk.messages)]

\* completeReducedSummaryLevel: a round of at least two chunks, or no progress.
startRound(groups, depth, force) ==
    LET chunks == partitionReductionGroups(groups, force)
    IN /\ srGroups' = groups /\ srDepth' = depth /\ srDone' = <<>>
       /\ IF depth > MaxDepth \/ Len(chunks) < 2
          THEN EndSummary("no_progress") /\ srRest' = <<>>
          ELSE Ask(messagesFromSemanticGroups(chunks[1]), "chunk", FALSE) /\ srRest' = Tail(chunks)

\* Mutation: a round need not shrink its input.
endsAnyRound(groups) ==
    LET reduced == messagesFromSemanticGroups(groups)
    IN /\ srBase' = reduced
       /\ IF SummaryBudgetFits(reduced)
          THEN Ask(reduced, "final", FALSE) /\ UNCHANGED <<srGroups, srRest, srDone, srDepth>>
          ELSE startRound(groups, srDepth + 1, FALSE)

\* The round is over: it must have shrunk its input, which is asked for as one summary or reduced again.
endRound(groups) ==
    LET reduced == messagesFromSemanticGroups(groups)
    IN /\ srBase' = reduced
       /\ IF EstimateMessageTokens(reduced) >= EstimateMessageTokens(srBase)
          THEN EndSummary("no_progress") /\ UNCHANGED <<srGroups, srRest, srDone, srDepth>>
          ELSE IF SummaryBudgetFits(reduced)
          THEN Ask(reduced, "final", FALSE) /\ UNCHANGED <<srGroups, srRest, srDone, srDepth>>
          ELSE startRound(groups, srDepth + 1, FALSE)

\* A well-formed answer within its limit: the summary of a chunk, or the summary to keep if the
\* next request has room for it.
Accepted(size) ==
    LET done == Append(srDone, [kind |-> "reduction", messages |-> <<answer(size)>>])
    IN /\ srAsk.why # "none" /\ size <= OutputLimit
       /\ CASE srAsk.why # "chunk" ->
                 /\ srAsk' = NoRequest
                 /\ srEnd' = IF validateCompactionResult(size)
                             THEN [kind |-> "stored", messages |-> <<answer(size)>>]
                             ELSE [kind |-> "overflow", messages |-> <<>>]
                 /\ UNCHANGED <<srBase, srGroups, srRest, srDone, srDepth>>
            [] srAsk.why = "chunk" /\ srRest # <<>> ->
                 /\ srDone' = done /\ srRest' = Tail(srRest)
                 /\ Ask(messagesFromSemanticGroups(Head(srRest)), "chunk", FALSE)
                 /\ UNCHANGED <<srBase, srGroups, srDepth>>
            [] OTHER -> endRound(done)
       /\ UNCHANGED <<srLength, srText>>

\* A malformed checkpoint is sent back once, to be repaired.
Malformed(size) ==
    /\ srAsk.why # "none" /\ size <= OutputLimit
    /\ IF srAsk.repair THEN EndSummary("structure") ELSE Ask(<<answer(size)>>, srAsk.why, TRUE)
    /\ UNCHANGED <<srBase, srGroups, srRest, srDone, srDepth, srLength, srText>>

\* A truncated summary of the whole history starts the reduction; any other ends the compaction.
Truncated ==
    /\ srAsk.why # "none"
    /\ IF srAsk.why = "history" THEN startRound(srGroups, 1, TRUE)
       ELSE EndSummary("truncated") /\ UNCHANGED <<srGroups, srRest, srDone, srDepth>>
    /\ UNCHANGED <<srBase, srLength, srText>>

\* Filtered, refused, aborted, failed or empty.
ProviderRefuses ==
    /\ srAsk.why # "none" /\ EndSummary("failed")
    /\ UNCHANGED <<srBase, srGroups, srRest, srDone, srDepth, srLength, srText>>

--------------------------------------------------------------------------------
(* The structure of a checkpoint.  A line is a heading of the contract ("h1",    *)
(* "h2"), another second-level heading, a bullet, prose, or a reserved heading.    *)

Headings == <<"h1", "h2">>
Lines == {"h1", "h2", "other", "bullet", "prose", "reserved"}
IsHeading(line) == line \in {"h1", "h2", "other"}

\* Mutation: the bullets of the last heading are not required.
validatesEndLoosely(check) == ~check.bad /\ check.wanted = Len(Headings)

\* All headings were seen and the last one has a bullet.
validateCheckpointEnd(check) == ~check.bad /\ check.wanted = Len(Headings) /\ check.bullet

\* The next heading, after a heading with a bullet; a repeated one is out of order too.
validateHeading(check, line) ==
    [bad |-> check.bad \/ (check.wanted > 0 /\ ~check.bullet)
                       \/ check.wanted >= Len(Headings) \/ Headings[check.wanted + 1] # line,
     wanted |-> check.wanted + 1, bullet |-> FALSE]

\* Nothing before the first heading, nothing reserved anywhere.
validateNonHeadingLine(check, line) ==
    [check EXCEPT !.bad = @ \/ line = "reserved" \/ check.wanted = 0,
                  !.bullet = @ \/ (check.wanted > 0 /\ line = "bullet")]

ValidateCheckpoint(text) ==
    validateCheckpointEnd(FoldLeft(LAMBDA check, line : IF check.bad THEN check
                                       ELSE IF IsHeading(line) THEN validateHeading(check, line)
                                       ELSE validateNonHeadingLine(check, line),
                                   [bad |-> FALSE, wanted |-> 0, bullet |-> FALSE], text))

\* A provider's text grows line by line.
WriteLine(line) ==
    /\ srEnd.kind = "idle" /\ Len(srText) < MaxLines
    /\ srText' = Append(srText, line)
    /\ UNCHANGED <<srBase, srGroups, srAsk, srRest, srDone, srDepth, srEnd, srLength>>

ReductionNext ==
    \/ \E history \in Histories : StartSummary(history)
    \/ \E size \in Answers : Accepted(size) \/ Malformed(size)
    \/ Truncated \/ ProviderRefuses
    \/ \E line \in Lines : WriteLine(line)

--------------------------------------------------------------------------------
(* Properties. *)

\* A stored summary tells the whole history once, in its order, however many rounds and repairs
\* it went through.
ToldInOrder == srEnd.kind = "stored" => Tells(srEnd.messages) = [i \in 1..srLength |-> i]

\* Only a history that fitted one request is ever reduced, and a round must shrink it: what it
\* leaves fits, so no reduction needs a second round.
ReductionIsOneRound == srDepth <= 1

\* A text passes exactly when its headings are those of the contract, once and in order, nothing
\* comes before them, each has a bullet, and none is reserved.
CheckpointContract ==
    LET at == SelectSeq([i \in DOMAIN srText |-> i], LAMBDA i : IsHeading(srText[i]))
        upTo(k) == IF k = Len(at) THEN Len(srText) ELSE at[k + 1]
    IN ValidateCheckpoint(srText) <=>
           /\ [k \in DOMAIN at |-> srText[at[k]]] = Headings
           /\ at[1] = 1 /\ "reserved" \notin Range(srText)
           /\ \A k \in DOMAIN at : \E i \in at[k]..upTo(k) : srText[i] = "bullet"
================================================================================
