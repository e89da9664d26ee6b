------------------------------ MODULE PromptRuns ------------------------------
(***************************************************************************)
(* Runtime.Prompt (internal/assistant/runtime.go, round_persistence.go,        *)
(* runtime_model.go, context_overflow_compaction.go): a run takes its          *)
(* session, stores the prompt, opens a steering inbox, calls the provider in   *)
(* rounds with a checkpoint after each, retries and recovers from context      *)
(* overflow, stores the answer or the failure, returns unread steering and     *)
(* gives the session back.  Users steer the run meanwhile, a manual compaction *)
(* competes for the session, and the terminal writes entries of its own.       *)
(* An entry stands for the operations that have entries on its branch; prompts *)
(* with an explicit parent, by which a user leaves the branch, are left out.   *)
(***************************************************************************)
EXTENDS Integers, Sequences, FiniteSets

CONSTANTS Runs,          \* calls of Runtime.Prompt
          SlashRuns,     \* those whose prompt is a slash command
          Compactions,   \* calls of Runtime.CompactSessionFrom
          Sessions,
          Steers,        \* calls of Runtime.Steer
          Notices,       \* entries that the terminal appends by itself
          NoRun, NoSlot,
          Capacity,      \* defaultSteeringInboxCapacity
          MaxAttempts,   \* RetryConfig.MaxAttempts
          MaxToolRounds  \* bound: rounds of tool calls a provider asks for

Operations == Runs \cup Compactions

VARIABLES slots, refs, token, slotOf,     \* SessionOperations
          registered, drafts, closed,     \* SteeringInboxes
          pc,         \* where each operation is
          session,    \* the session of each operation and notice
          leaf,       \* the latest entry of each session (LeafEntry)
          lineage,    \* the entry that each operation continues
          stored,     \* the operations that have entries in each session
          run,        \* the local state of each run
          steer,      \* where each steering request is
          notice      \* where each terminal entry is, and the parent that was read for it

INSTANCE SessionOperations
INSTANCE SteeringInboxes

slotVars == <<slots, refs, token, slotOf>>
inboxVars == <<registered, drafts, closed>>
entryVars == <<leaf, lineage, stored, notice>>
vars == <<slotVars, inboxVars, entryVars, pc, session, run, steer>>

ASSUME NoSlotAssumption == NoSlot \notin Operations
ASSUME InboxAssumption == Capacity \in Nat \ {0} /\ NoRun \notin Runs
ASSUME NoticeAssumption == Notices \cap Operations = {}
ASSUME OperationAssumption ==
    /\ IsFiniteSet(Runs) /\ IsFiniteSet(Compactions) /\ Runs \cap Compactions = {}
    /\ SlashRuns \subseteq Runs
ASSUME BoundAssumption == MaxAttempts \in Nat \ {0} /\ MaxToolRounds \in Nat

(***************************************************************************)
(* promptLineage, CompletionRequest, the loop state of one provider attempt,   *)
(* and what the checks need to know of the run's past: all of it is dropped    *)
(* when the run leaves.                                                       *)
(***************************************************************************)
FreshRun ==
    [hand      |-> <<>>,    \* drafts drained by a checkpoint and not stored yet
     pending   |-> <<>>,    \* lineage.pendingRounds
     rounds    |-> 0,       \* rounds completed by all attempts; a number names a round
     talk      |-> <<>>,    \* rounds and steering that this attempt's loop state added
     kept      |-> <<>>,    \* rounds and steering that the session has stored
     attempt   |-> 1,       \* request.ProviderAttempt
     tools     |-> 0,       \* tool rounds of this request: ToolSideEffectsStarted when > 0
     advanced  |-> FALSE,   \* ReplayState.LineageAdvanced
     recovered |-> FALSE,   \* providerOverflowRecoveryState.consumed
     answered  |-> FALSE,   \* the answer is durable
     accepted  |-> <<>>,    \* what the inbox accepted, in order
     lost      |-> <<>>,    \* what restore could not put back
     returned  |-> <<>>]    \* what OnSteeringReturn was given

Round(n) == [kind |-> "round", id |-> n]
Message(d) == [kind |-> "steer", id |-> d]
Items == [kind : {"round"}, id : Nat] \cup [kind : {"steer"}, id : Steers]

States == {"idle", "waiting", "entering", "prompting", "compacting", "registering", "responding",
           "requesting", "calling", "storing", "completed", "answering", "failing",
           "closing", "returning", "ending", "releasing", "leaving", "done"}

SteerStates == {"new", "found", "accepted", "refused"}
NoticeStates == {"new", "read", "saved"}

RunTypeOK(r) ==
    /\ run[r].pending \in Seq(1..run[r].rounds)
    /\ run[r].attempt \in 1..MaxAttempts
    /\ run[r].tools \in 0..MaxToolRounds
    /\ \A q \in {run[r].hand, run[r].accepted, run[r].lost, run[r].returned} :
         q \in Seq(Steers)
    /\ \A q \in {run[r].talk, run[r].kept} : q \in Seq(Items)

\* Types of the operations, the coordinator's slots, the inboxes and the stored entries.
TypeOK ==
    /\ SlotTypeOK
    /\ InboxTypeOK
    /\ pc \in [Operations -> States]
    /\ session \in [Operations \cup Notices -> Sessions]
    /\ leaf \in [Sessions -> SUBSET Operations]
    /\ lineage \in [Operations -> SUBSET Operations]
    /\ stored \in [Sessions -> SUBSET Operations]
    /\ notice \in [Notices -> [state : NoticeStates, parent : SUBSET Operations]]
    /\ \A r \in Runs : RunTypeOK(r) /\ Len(drafts[r]) <= Capacity
    /\ steer \in [Steers -> [state : SteerStates, run : Runs \cup {NoRun},
                             inbox : Runs \cup {NoRun}]]

Init ==
    /\ SlotInit
    /\ InboxInit
    /\ pc = [o \in Operations |-> "idle"]
    /\ session \in [Operations \cup Notices -> Sessions]
    /\ leaf = [s \in Sessions |-> {}]
    /\ lineage = [o \in Operations |-> {}]
    /\ stored = [s \in Sessions |-> {}]
    /\ notice = [n \in Notices |-> [state |-> "new", parent |-> {}]]
    /\ run = [r \in Runs |-> FreshRun]
    /\ steer = [d \in Steers |-> [state |-> "new", run |-> NoRun, inbox |-> NoRun]]

Goes(o, from, to) == pc[o] = from /\ pc' = [pc EXCEPT ![o] = to]

\* A write to the operation's session, whose parent is the operation's lineage.
AppendsEntry(o) ==
    /\ leaf' = [leaf EXCEPT ![session[o]] = lineage[o] \cup {o}]
    /\ stored' = [stored EXCEPT ![session[o]] = @ \cup {o}]
    /\ UNCHANGED <<lineage, notice>>

\* A write that may fail, or be left out, without consequence for the operation.
MayAppendEntry(o) == AppendsEntry(o) \/ UNCHANGED entryVars

(***************************************************************************)
(* The session slot around an operation.                                       *)
(***************************************************************************)

\* acquire up to the unlock.
Acquire(o) ==
    /\ Goes(o, "idle", "waiting")
    /\ reference(o, session[o])
    /\ UNCHANGED <<inboxVars, session, entryVars, run, steer>>

\* The select of acquire takes the send case.
Enter(o) ==
    /\ Goes(o, "waiting", "entering")
    /\ sendToken(o)
    /\ UNCHANGED <<inboxVars, session, entryVars, run, steer>>

\* Mutation: a canceled waiter keeps its reference.
giveUpKeepsReference(o) ==
    /\ Goes(o, "waiting", "done")
    /\ UNCHANGED <<slotVars, inboxVars, session, entryVars, run, steer>>

\* The select of acquire takes the canceled context.
GiveUp(o) ==
    /\ Goes(o, "waiting", "done")
    /\ releaseReference(o, session[o])
    /\ UNCHANGED <<inboxVars, session, entryVars, run, steer>>

\* Mutation: the release function does not receive.
releaseWithoutReceive(o) ==
    /\ Goes(o, "releasing", "leaving")
    /\ UNCHANGED <<slotVars, inboxVars, session, entryVars, run, steer>>

\* The deferred release function: the receive, then releaseReference.
Release(o) ==
    /\ Goes(o, "releasing", "leaving")
    /\ receiveToken(o)
    /\ UNCHANGED <<inboxVars, session, entryVars, run, steer>>

Leave(o) ==
    /\ Goes(o, "leaving", "done")
    /\ releaseReference(o, session[o])
    /\ run' = [r \in Runs |-> IF r = o THEN FreshRun ELSE run[r]]
    /\ lineage' = [lineage EXCEPT ![o] = {}]
    /\ UNCHANGED <<inboxVars, session, leaf, stored, steer, notice>>

\* promptParentID and compactionBranch: the operation continues the latest entry.
ResolveParent(o) ==
    /\ \/ /\ Goes(o, "entering", IF o \in Runs THEN "prompting" ELSE "compacting")
          /\ lineage' = [lineage EXCEPT ![o] = leaf[session[o]]]
       \/ Goes(o, "entering", "releasing") /\ UNCHANGED lineage
    /\ UNCHANGED <<slotVars, inboxVars, session, leaf, stored, run, steer, notice>>

\* compactSessionFrom for a manual compaction: an entry, nothing to do, or an error.
CompactSession(o) ==
    /\ Goes(o, "compacting", "releasing")
    /\ MayAppendEntry(o)
    /\ UNCHANGED <<slotVars, inboxVars, session, run, steer>>

(***************************************************************************)
(* Prompt up to the first request.                                             *)
(***************************************************************************)

\* appendPromptUserEntryWithPersistence.
AppendUserEntry(r) ==
    /\ \/ Goes(r, "prompting", "registering") /\ AppendsEntry(r)
       \/ Goes(r, "prompting", "releasing") /\ UNCHANGED entryVars
    /\ UNCHANGED <<slotVars, inboxVars, session, run, steer>>

\* registerSteeringInbox; a session that still has an inbox fails the run.
Register(r) ==
    /\ \/ Goes(r, "registering", "responding") /\ register(session[r], r)
       \/ /\ registered[session[r]] # NoRun
          /\ Goes(r, "registering", "releasing")
          /\ UNCHANGED inboxVars
    /\ UNCHANGED <<slotVars, session, entryVars, run, steer>>

\* respondToSlashCommand needs no provider.
RespondToSlashCommand(r) ==
    /\ r \in SlashRuns
    /\ \/ Goes(r, "responding", "answering")
       \/ Goes(r, "responding", "failing")
    /\ UNCHANGED <<slotVars, inboxVars, session, entryVars, run, steer>>

\* usableCachedResponse: a cached answer is used only if nobody has steered the run.
UseCachedResponse(r) ==
    /\ r \notin SlashRuns
    /\ \/ /\ ~active(session[r], r)
          /\ Goes(r, "responding", "failing")
          /\ UNCHANGED inboxVars
       \/ /\ active(session[r], r)
          /\ settle(session[r], r)
          /\ Goes(r, "responding", "answering")
       \/ /\ active(session[r], r)
          /\ drafts[r] # <<>>
          /\ Goes(r, "responding", "requesting")
          /\ UNCHANGED inboxVars
    /\ UNCHANGED <<slotVars, session, entryVars, run, steer>>

\* prepareCompletionRequestWithAutoCompaction, for a prompt with no cached answer.
PrepareRequest(r) ==
    /\ r \notin SlashRuns
    /\ \E from \in {"responding", "requesting"} :
         \E to \in {"calling", "failing"} : Goes(r, from, to)
    /\ MayAppendEntry(r)
    /\ UNCHANGED <<slotVars, inboxVars, session, run, steer>>

(***************************************************************************)
(* Provider rounds, and the checkpoint after each (roundCheckpoint).  A        *)
(* checkpoint that fails is not a retryable provider error, so it ends the     *)
(* run; drafts drained but not stored go back to the inbox if they fit.        *)
(***************************************************************************)
RoundDone(r) ==
    LET n == run[r].rounds + 1
    IN  [run[r] EXCEPT !.rounds = n, !.pending = Append(@, n),
                       !.talk = Append(@, Round(n)), !.hand = drafts[r]]

\* A round without tool calls finishes the attempt unless somebody has steered.
TextRound(r) ==
    /\ \/ /\ ~active(session[r], r)
          /\ Goes(r, "calling", "failing")
          /\ run' = [run EXCEPT ![r] = [RoundDone(r) EXCEPT !.hand = <<>>]]
          /\ UNCHANGED inboxVars
       \/ /\ active(session[r], r)
          /\ Goes(r, "calling", IF drafts[r] = <<>> THEN "completed" ELSE "storing")
          /\ drainFinal(session[r], r)
          /\ run' = [run EXCEPT ![r] = RoundDone(r)]
    /\ UNCHANGED <<slotVars, session, entryVars, steer>>

\* What a provider may report for a round that has tool calls: openAIResponseFinishReason
\* answers a stop for every completed response.
ToolRoundFinish == {"tool_calls", "stop"}

\* drainSteering goes by the finish reason.
drainSteering(r, finish) ==
    IF finish = "tool_calls" THEN drain(r) ELSE drainFinal(session[r], r)

\* A round whose tool calls have all settled is followed by another one.
ToolRound(r) ==
    /\ run[r].tools < MaxToolRounds
    /\ \/ /\ ~active(session[r], r)
          /\ Goes(r, "calling", "failing")
          /\ run' = [run EXCEPT ![r] = [RoundDone(r) EXCEPT !.hand = <<>>, !.tools = @ + 1]]
          /\ UNCHANGED inboxVars
       \/ /\ active(session[r], r)
          /\ Goes(r, "calling", IF drafts[r] = <<>> THEN "calling" ELSE "storing")
          /\ \E finish \in ToolRoundFinish : drainSteering(r, finish)
          /\ run' = [run EXCEPT ![r] = [RoundDone(r) EXCEPT !.tools = @ + 1]]
    /\ UNCHANGED <<slotVars, session, entryVars, steer>>

\* restoreSteeringAfterCheckpointFailure.
restoreSteeringAfterCheckpointFailure(r) ==
    \/ /\ restorable(session[r], r, run[r].hand)
       /\ restore(r, run[r].hand)
       /\ run' = [run EXCEPT ![r].hand = <<>>]
    \/ /\ ~restorable(session[r], r, run[r].hand)
       /\ run' = [run EXCEPT ![r].hand = <<>>, ![r].lost = run[r].hand]
       /\ UNCHANGED inboxVars

\* persistPendingRounds, one round at a time; a round that fails may leave some of its
\* messages in the session.
PersistPendingRound(r) ==
    /\ run[r].pending # <<>>
    /\ \/ /\ Goes(r, "storing", "storing")
          /\ run' = [run EXCEPT ![r].pending = Tail(@), ![r].advanced = TRUE,
                                ![r].kept = Append(@, Round(Head(run[r].pending)))]
          /\ AppendsEntry(r)
          /\ UNCHANGED inboxVars
       \/ /\ Goes(r, "storing", "failing")
          /\ restoreSteeringAfterCheckpointFailure(r)
          /\ MayAppendEntry(r)
    /\ UNCHANGED <<slotVars, session, steer>>

\* Mutation: steering is stored and shown before the rounds it answers are durable.
persistDraftFirst(r) ==
    /\ run[r].hand # <<>>
    /\ LET item == Message(Head(run[r].hand))
       IN  /\ Goes(r, "storing", IF Len(run[r].hand) = 1 THEN "calling" ELSE "storing")
           /\ run' = [run EXCEPT ![r].hand = Tail(@), ![r].talk = Append(@, item),
                                 ![r].kept = Append(@, item)]
           /\ AppendsEntry(r)
    /\ UNCHANGED <<slotVars, inboxVars, session, steer>>

\* persistSteeringDrafts, one draft at a time; the provider goes on after the last.
PersistSteeringDraft(r) ==
    /\ run[r].pending = <<>>
    /\ \/ LET item == Message(Head(run[r].hand))
          IN  /\ Goes(r, "storing", IF Len(run[r].hand) = 1 THEN "calling" ELSE "storing")
              /\ run' = [run EXCEPT ![r].hand = Tail(@), ![r].talk = Append(@, item),
                                    ![r].kept = Append(@, item)]
              /\ AppendsEntry(r)
              /\ UNCHANGED inboxVars
       \/ /\ Goes(r, "storing", "failing")
          /\ restoreSteeringAfterCheckpointFailure(r)
          /\ UNCHANGED entryVars
    /\ UNCHANGED <<slotVars, session, steer>>

(***************************************************************************)
(* Attempts that fail.                                                        *)
(***************************************************************************)

\* The provider, the network or a tool batch fails, or the context is canceled.
FailRequest(r) ==
    /\ Goes(r, "calling", "failing")
    /\ UNCHANGED <<slotVars, inboxVars, session, entryVars, run, steer>>

\* retryAttempt: the same request is sent again.
RetryRequest(r) ==
    /\ Goes(r, "calling", "calling")
    /\ run[r].tools = 0
    /\ run[r].attempt < MaxAttempts
    /\ run' = [run EXCEPT ![r].attempt = @ + 1, ![r].talk = <<>>]
    /\ UNCHANGED <<slotVars, inboxVars, session, entryVars, steer>>

\* recoverProviderContextOverflow, for an overflow error or for a completed response
\* whose metadata reports one: compact, then build and send a new request.
RecoverOverflow(r) ==
    /\ ~run[r].recovered /\ run[r].tools = 0 /\ ~run[r].advanced
    /\ \E from \in {"calling", "completed"} :
         \/ /\ \E to \in {"calling", "failing"} : Goes(r, from, to)
            /\ AppendsEntry(r)
            /\ run' = [run EXCEPT ![r].recovered = TRUE, ![r].attempt = 1,
                                  ![r].talk = <<>>]
         \/ /\ Goes(r, from, "failing")
            /\ run' = [run EXCEPT ![r].recovered = TRUE]
            /\ UNCHANGED entryVars
    /\ UNCHANGED <<slotVars, inboxVars, session, steer>>

\* unrecoveredProviderResult: the response, or an error if its metadata reports an
\* overflow that is not recovered.
Complete(r) ==
    /\ \/ Goes(r, "completed", "answering")
       \/ Goes(r, "completed", "failing")
    /\ UNCHANGED <<slotVars, inboxVars, session, entryVars, run, steer>>

(***************************************************************************)
(* The end of a run.                                                          *)
(***************************************************************************)

\* persistAssistantBundleWithPersistence.
PersistAnswer(r) ==
    /\ Goes(r, "answering", "closing")
    /\ \/ AppendsEntry(r) /\ run' = [run EXCEPT ![r].answered = TRUE]
       \/ MayAppendEntry(r) /\ UNCHANGED run
    /\ UNCHANGED <<slotVars, inboxVars, session, steer>>

\* appendPartialPromptFailure.
PersistFailure(r) ==
    /\ Goes(r, "failing", "closing")
    /\ MayAppendEntry(r)
    /\ UNCHANGED <<slotVars, inboxVars, session, run, steer>>

\* registry.close: the registration first.
CloseRegistration(r) ==
    /\ \/ /\ registered[session[r]] = r
          /\ Goes(r, "closing", "returning")
          /\ unregister(session[r])
       \/ /\ registered[session[r]] # r
          /\ Goes(r, "closing", "ending")
          /\ UNCHANGED inboxVars
    /\ UNCHANGED <<slotVars, session, entryVars, run, steer>>

\* inbox.close, and OnSteeringReturn with what it gives back.
ReturnSteering(r) ==
    /\ Goes(r, "returning", "ending")
    /\ close(r)
    /\ run' = [run EXCEPT ![r].returned = drafts[r]]
    /\ UNCHANGED <<slotVars, session, entryVars, steer>>

\* maybeAutoCompactAfterResponse, which a run that failed does not reach.
EndTurn(r) ==
    /\ Goes(r, "ending", "releasing")
    /\ IF run[r].answered THEN MayAppendEntry(r) ELSE UNCHANGED entryVars
    /\ UNCHANGED <<slotVars, inboxVars, session, run, steer>>

(***************************************************************************)
(* Runtime.Steer: the registry's lookup, then inbox.accept.                    *)
(***************************************************************************)

\* The terminal knows a run's identity once OnUserEntry has reported it.
Steerable(r) == pc[r] \notin {"idle", "waiting", "entering", "prompting"}

LookUpInbox(d, r) ==
    LET inbox == registered[session[r]]
    IN  /\ steer[d].state = "new"
        /\ Steerable(r)
        /\ steer' = [steer EXCEPT ![d] =
             [state |-> IF inbox = NoRun THEN "refused" ELSE "found", run |-> r,
              inbox |-> inbox]]
        /\ UNCHANGED <<slotVars, inboxVars, pc, session, entryVars, run>>

AcceptSteer(d) ==
    LET r == steer[d].run
        i == steer[d].inbox
    IN  /\ steer[d].state = "found"
        /\ \/ /\ accepts(i, r)
              /\ accept(i, d)
              /\ run' = [run EXCEPT ![i].accepted = Append(@, d)]
              /\ steer' = [steer EXCEPT ![d].state = "accepted"]
           \/ /\ ~accepts(i, r)
              /\ steer' = [steer EXCEPT ![d].state = "refused"]
              /\ UNCHANGED <<inboxVars, run>>
        /\ UNCHANGED <<slotVars, pc, session, entryVars>>

(***************************************************************************)
(* The terminal's own entries, which do not take the session's slot.           *)
(***************************************************************************)

\* persistAgentCompletion, for an agent that an earlier run started: a nil parent.
SaveAgentCompletion(n) ==
    /\ notice[n].state = "new" /\ stored[session[n]] # {}
    /\ notice' = [notice EXCEPT ![n].state = "saved"]
    /\ leaf' = [leaf EXCEPT ![session[n]] = {}]
    /\ UNCHANGED <<slotVars, inboxVars, pc, session, lineage, stored, run, steer>>

\* renameSession: LeafEntry, then AppendSessionInfo.
ReadLeaf(n) ==
    /\ notice[n].state = "new"
    /\ notice' = [notice EXCEPT ![n] = [state |-> "read", parent |-> leaf[session[n]]]]
    /\ UNCHANGED <<slotVars, inboxVars, pc, session, leaf, lineage, stored, run, steer>>

AppendSessionInfo(n) ==
    /\ notice[n].state = "read"
    /\ notice' = [notice EXCEPT ![n] = [state |-> "saved", parent |-> {}]]
    /\ leaf' = [leaf EXCEPT ![session[n]] = notice[n].parent]
    /\ UNCHANGED <<slotVars, inboxVars, pc, session, lineage, stored, run, steer>>

RunStep(r) ==
    \/ AppendUserEntry(r) \/ Register(r)
    \/ RespondToSlashCommand(r) \/ UseCachedResponse(r) \/ PrepareRequest(r)
    \/ TextRound(r) \/ ToolRound(r) \/ PersistPendingRound(r) \/ PersistSteeringDraft(r)
    \/ FailRequest(r) \/ RetryRequest(r) \/ RecoverOverflow(r) \/ Complete(r)
    \/ PersistAnswer(r) \/ PersistFailure(r)
    \/ CloseRegistration(r) \/ ReturnSteering(r) \/ EndTurn(r)

Done ==
    /\ \A o \in Operations : pc[o] = "done"
    /\ UNCHANGED vars

Next ==
    \/ \E o \in Operations : Acquire(o) \/ Enter(o) \/ GiveUp(o) \/ ResolveParent(o)
                             \/ Release(o) \/ Leave(o)
    \/ \E o \in Compactions : CompactSession(o)
    \/ \E r \in Runs : RunStep(r)
    \/ \E d \in Steers : AcceptSteer(d) \/ \E r \in Runs : LookUpInbox(d, r)
    \/ \E n \in Notices : SaveAgentCompletion(n) \/ ReadLeaf(n) \/ AppendSessionInfo(n)
    \/ Done

Spec == Init /\ [][Next]_vars

(***************************************************************************)
(* Fairness: goroutines that can go on do, providers and stores return, and a  *)
(* channel serves its blocked senders in turn.  Nothing obliges a user to       *)
(* prompt, to steer or to cancel.                                              *)
(***************************************************************************)
Fairness ==
    /\ \A o \in Operations : /\ SF_vars(Enter(o)) /\ WF_vars(ResolveParent(o))
                             /\ WF_vars(Release(o)) /\ WF_vars(Leave(o))
    /\ \A o \in Compactions : WF_vars(CompactSession(o))
    /\ \A r \in Runs : WF_vars(RunStep(r))

FairSpec == Spec /\ Fairness

--------------------------------------------------------------------------------
\* Between acquire and the receive in the release function.
Holding(o) == pc[o] \notin {"idle", "waiting", "leaving", "done"}

\* The steering messages among the first n items.
SteersAmong(items, n) == Cardinality({i \in 1..n : items[i].kind = "steer"})

\* What has been accepted and not stored, oldest first.
Unstored(r) == run[r].hand \o run[r].lost \o drafts[r] \o run[r].returned

\* The conversation of the current attempt up to its last steering message.
Exposed(r) ==
    LET steered == {i \in DOMAIN run[r].talk : run[r].talk[i].kind = "steer"}
        last == CHOOSE i \in steered : \A j \in steered : j <= i
    IN  IF steered = {} THEN <<>> ELSE SubSeq(run[r].talk, 1, last)

\* sessionOperationCoordinator lets one operation into a session, although slots
\* are made and deleted while others wait for them.
OneOperationPerSession ==
    \A o, p \in Operations :
        Holding(o) /\ Holding(p) /\ session[o] = session[p] => o = p

\* A run continues everything that operations have stored in its session, and nobody
\* else stores anything before it ends: no turn drops out of the conversation that
\* the provider is shown.
LineageUnbroken ==
    \A r \in Runs :
        Holding(r) /\ r \in stored[session[r]] => stored[session[r]] \subseteq lineage[r] \cup {r}

\* The coordinator keeps no slot for a session that nobody uses, and no inbox of an
\* earlier run makes registerSteeringInbox fail.
SessionLeftClean ==
    /\ \A s \in Sessions :
         (\A o \in Operations : session[o] = s => pc[o] \in {"idle", "done"})
             => slots[s] = NoSlot /\ registered[s] = NoRun
    /\ \A r \in Runs : pc[r] = "registering" => registered[session[r]] = NoRun

\* Every accepted message is, once and in the order of acceptance, stored, in the
\* hands of a checkpoint, in the inbox, or returned; only a full inbox loses any, and
\* a run that has ended keeps none back.
SteersInOrder ==
    \A r \in Runs :
        LET kept == run[r].kept
            consumed == SteersAmong(kept, Len(kept))
        IN  /\ Len(run[r].accepted) = consumed + Len(Unstored(r))
            /\ \A i \in DOMAIN kept : kept[i].kind = "steer" =>
                   kept[i].id = run[r].accepted[SteersAmong(kept, i)]
            /\ \A i \in DOMAIN Unstored(r) : Unstored(r)[i] = run[r].accepted[consumed + i]
            /\ run[r].lost # <<>> =>
                 Len(run[r].lost) + Len(drafts[r] \o run[r].returned) > Capacity
            /\ pc[r] \in {"ending", "releasing", "leaving"} => drafts[r] = <<>>

\* roundCheckpoint makes rounds durable before it shows later messages to the
\* provider: up to the last steering message, the conversation is the end of what
\* the session keeps of the run.
ExposedIsDurable ==
    \A r \in Runs :
        LET kept == run[r].kept
            shown == Exposed(r)
        IN  pc[r] = "calling" =>
              /\ Len(shown) <= Len(kept)
              /\ SubSeq(kept, Len(kept) - Len(shown) + 1, Len(kept)) = shown

\* An operation that asks for its session gets it, or gives up, and ends.
EveryOperationEnds == \A o \in Operations : pc[o] = "waiting" ~> pc[o] = "done"

\* The inbox stays open until the final checkpoint decides to return the run.
\* It does not hold: README.md, section 7.
ActiveRunIsSteerable ==
    \A r \in Runs : pc[r] \in {"calling", "storing"} => active(session[r], r)

\* A steer joins the run: the attempt that gave the answer was shown every message
\* that the run consumed.
\* It does not hold: README.md, section 7.
AnswerSeesSteers ==
    \A r \in Runs :
        run[r].answered =>
            \A i \in DOMAIN run[r].kept :
                run[r].kept[i].kind = "steer" =>
                    \E j \in DOMAIN run[r].talk : run[r].talk[j] = run[r].kept[i]

\* A session runs one operation at a time, although slots are made and deleted while others
\* wait, and neither a slot nor an inbox is left of a session that nobody uses.
SessionsSound ==
    /\ OneOperationPerSession /\ SessionLeftClean

\* What a provider is shown of a turn is stored before it is shown, through retries and steers.
CheckpointsSound ==
    /\ TypeOK /\ ExposedIsDurable
================================================================================
