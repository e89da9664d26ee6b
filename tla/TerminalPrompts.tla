---------------------------- MODULE TerminalPrompts ----------------------------
(***************************************************************************)
(* The terminal's side of a conversation: drafts, the two prompt queues,     *)
(* steering, compaction and the session views (internal/terminal, prompt_*,  *)
(* async_events.go, compact_commands.go, session_view.go).                   *)
(*                                                                           *)
(* The event loop owns all of its state, here the record "app"; the handlers *)
(* are operators from one such record to the next.  The goroutines it starts *)
(* (runPrompt, runCompactSession) only post events to its queue.  A stream   *)
(* event is posted under the prompt's own context and may be dropped once    *)
(* that is canceled; user entries, returned steering and endings are posted  *)
(* under the terminal's.  A draft is a number, given when it is typed.       *)
(***************************************************************************)
EXTENDS Integers, Sequences, FiniteSets, SequencesExt

CONSTANTS
    MaxTyped,   \* drafts the user types
    MaxHidden,  \* background results that continue the conversation unseen
    MaxRuns,    \* prompts and compactions started
    EventSlots, \* events the screen's queue holds
    MayLeave    \* whether /new is used while a prompt runs or with views saved

VARIABLES app, eventQ, typed, continued, dropped
tpVars == <<app, eventQ, typed, continued, dropped>>

NoSession == "none"
Main == "main"
Child == "child"
NoDraft == 0
Typed == 1..MaxTyped
Hidden == (MaxTyped + 1)..(MaxTyped + MaxHidden)

EmptyView == [queue |-> <<>>, hidden |-> <<>>, steering |-> <<>>, composer |-> NoDraft,
              history |-> <<>>, streaming |-> <<>>, parent |-> NoSession]
NoPrompt == [id |-> 0, session |-> NoSession, entry |-> FALSE, canceled |-> FALSE]
NoCompaction == [id |-> 0, start |-> 0]

TerminalInit ==
    /\ \E session \in {NoSession, Main} :
           app = [session |-> session, view |-> EmptyView, views |-> <<>>, stack |-> <<>>, active |-> NoPrompt,
                  working |-> FALSE, compacting |-> FALSE, compaction |-> NoCompaction, runs |-> <<>>]
    /\ eventQ = <<>> /\ typed = 0 /\ continued = 0 /\ dropped = {}

Busy(a) == a.working \/ a.compacting
inspectingWhilePromptRuns(a) == a.active # NoPrompt /\ a.active.session \notin {NoSession, a.session}

(***************************************************************************)
(* Views                                                                    *)
(***************************************************************************)
Put(views, s, view) == [x \in DOMAIN views \cup {s} |-> IF x = s THEN view ELSE views[x]]

saveSessionView(a) == IF a.session = NoSession THEN a ELSE [a EXCEPT !.views = Put(@, a.session, a.view)]

viewAvailable(a, s) == s \in {NoSession, a.session} \cup DOMAIN a.views

\* The terminal as a handler finds it that runs in session s.
switchedTo(a, s) == IF s \in {NoSession, a.session} THEN a ELSE [a EXCEPT !.session = s, !.view = a.views[s]]

\* An event is applied to the session it belongs to, whichever one is shown: b is what the
\* handler made of switchedTo(a, s).
withSessionView(a, s, b) ==
    IF s \in {NoSession, a.session} THEN b
    ELSE IF s \notin DOMAIN a.views THEN a
    ELSE [b EXCEPT !.session = a.session, !.view = a.view, !.views = Put(Put(@, a.session, a.view), s, b.view)]

(***************************************************************************)
(* Queueing and sending                                                     *)
(***************************************************************************)
queueDraft(a, d) ==
    IF d \in Typed THEN [a EXCEPT !.view.queue = Append(@, d)] ELSE [a EXCEPT !.view.hidden = Append(@, d)]

sendDraft(a, d) ==
    IF Busy(a) THEN queueDraft(a, d)
    ELSE LET id == Len(a.runs) + 1
         IN [a EXCEPT !.view.parent = NoSession, !.view.streaming = <<>>,
                      !.view.history = IF d \in Typed THEN Append(@, <<"user", id>>) ELSE @,
                      !.active = [id |-> id, session |-> a.session, entry |-> FALSE, canceled |-> FALSE],
                      !.working = TRUE,
                      !.runs = Append(@, [kind |-> "prompt", at |-> "start", session |-> a.session, draft |-> d,
                                          parent |-> a.view.parent, inbox |-> <<>>, got |-> {}, blocks |-> 0,
                                          ctx |-> TRUE])]

\* Hidden continuations go first; nothing is taken while something runs.
processQueuedPrompt(a) ==
    IF Busy(a) THEN a
    ELSE IF a.view.hidden # <<>> THEN sendDraft([a EXCEPT !.view.hidden = Tail(@)], Head(a.view.hidden))
    ELSE IF a.view.queue # <<>> THEN sendDraft([a EXCEPT !.view.queue = Tail(@)], Head(a.view.queue))
    ELSE a

restoreDraft(a, d) == [a EXCEPT !.view.composer = d]

\* The inbox of the active run takes steering from its user entry to its end.
canSteer(a) ==
    /\ a.active.id # 0 /\ a.active.session = a.session /\ a.active.session # NoSession /\ a.active.entry

Steer(a, d) ==
    LET shown == IF d \in Typed THEN [a EXCEPT !.view.steering = Append(@, d)] ELSE a
    IN [shown EXCEPT !.runs[a.active.id].inbox = Append(@, d)]

RunOpen(a) == a.runs[a.active.id].at \in {"open", "compacting"}

\* An inactive, closed or stale run refuses and the draft is queued; another error gives it back.
steerDraft(a, d) ==
    IF ~canSteer(a) \/ ~RunOpen(a) THEN {queueDraft(a, d)} ELSE {Steer(a, d), restoreDraft(a, d)}

deliverDraft(a, d, delivery) ==
    IF a.compacting \/ delivery = "follow_up" THEN {queueDraft(a, d)}
    ELSE IF delivery = "steer" THEN steerDraft(a, d)
    ELSE {sendDraft(a, d)}

deliverHiddenContinuation(a, d) ==
    IF a.working /\ canSteer(a) /\ RunOpen(a) THEN {Steer(a, d), sendDraft(a, d)} ELSE {sendDraft(a, d)}

(***************************************************************************)
(* Keys                                                                     *)
(***************************************************************************)
UserMay == ~inspectingWhilePromptRuns(app)
KeepEvents == UNCHANGED eventQ
Draft == app.view.composer
TakenUp == [app EXCEPT !.view.composer = NoDraft]

typeDraft ==
    /\ UserMay /\ Draft = NoDraft /\ typed < MaxTyped
    /\ typed' = typed + 1 /\ app' = restoreDraft(app, typed + 1)
    /\ KeepEvents /\ UNCHANGED <<continued, dropped>>

submit ==
    /\ UserMay /\ Draft # NoDraft
    /\ \E delivery \in IF app.working THEN {"steer", "follow_up"} ELSE {"prompt"} :
           app' \in deliverDraft(TakenUp, Draft, delivery)
    /\ KeepEvents /\ UNCHANGED <<typed, continued, dropped>>

queueFollowUp ==
    /\ UserMay /\ Draft # NoDraft /\ app' = queueDraft(TakenUp, Draft)
    /\ KeepEvents /\ UNCHANGED <<typed, continued, dropped>>

\* Restoring overwrites what is being typed.
Overwritten == dropped \cup (IF Draft = NoDraft THEN {} ELSE {Draft})

dequeueFollowUp(a) ==
    [a EXCEPT !.view.composer = Last(a.view.queue), !.view.queue = Front(@)]

dequeueKey ==
    /\ UserMay /\ app.view.queue # <<>> /\ app' = dequeueFollowUp(app) /\ dropped' = Overwritten
    /\ KeepEvents /\ UNCHANGED <<typed, continued>>

compactSession ==
    /\ UserMay /\ ~Busy(app) /\ app.session # NoSession
    /\ app' = [app EXCEPT !.compacting = TRUE,
                          !.compaction = [id |-> Len(app.runs) + 1, start |-> Len(app.view.queue)],
                          !.runs = Append(@, [kind |-> "compact", at |-> "open", session |-> app.session,
                                              draft |-> NoDraft, parent |-> app.view.parent, inbox |-> <<>>,
                                              got |-> {}, blocks |-> 0, ctx |-> TRUE])]
    /\ KeepEvents /\ UNCHANGED <<typed, continued, dropped>>

cancelActiveCompaction(a) ==
    LET b == IF a.compaction = NoCompaction THEN a ELSE [a EXCEPT !.runs[a.compaction.id].ctx = FALSE]
    IN [b EXCEPT !.compaction = NoCompaction, !.compacting = FALSE]

cancelActivePrompt(a) ==
    IF a.active = NoPrompt THEN [a EXCEPT !.working = FALSE, !.view.streaming = <<>>]
    ELSE [a EXCEPT !.active.canceled = TRUE, !.runs[a.active.id].ctx = FALSE]

\* Escape twice: of the operation shown, or of the prompt of the parent session.
cancelActiveOperation ==
    /\ Busy(app)
    /\ app' = IF inspectingWhilePromptRuns(app)
              THEN withSessionView(app, app.active.session, cancelActivePrompt(switchedTo(app, app.active.session)))
              ELSE IF app.compacting THEN cancelActiveCompaction(app) ELSE cancelActivePrompt(app)
    /\ KeepEvents /\ UNCHANGED <<typed, continued, dropped>>

\* The view of a session shown for the first time is empty.
restoreSessionView(a, s) ==
    [a EXCEPT !.session = s, !.view = IF s \in DOMAIN a.views THEN a.views[s] ELSE EmptyView]

inspectAgentTask ==
    /\ ~app.compacting /\ (app.working => app.active # NoPrompt)
    /\ app.session = Main /\ app.stack = <<>>
    /\ app' = [restoreSessionView(saveSessionView(app), Child) EXCEPT !.stack = <<Main>>]
    /\ KeepEvents /\ UNCHANGED <<typed, continued, dropped>>

\* Escape leaves an inspection, unless it interrupts; the list of agents also leads back.
leaveAgentTaskSession ==
    /\ app.stack # <<>>
    /\ ~Busy(app) \/ inspectingWhilePromptRuns(app)
    /\ app' = [restoreSessionView(saveSessionView(app), Last(app.stack)) EXCEPT !.stack = Front(@)]
    /\ KeepEvents /\ UNCHANGED <<typed, continued, dropped>>

\* The session changes under the view, which is not saved.
newSession ==
    /\ UserMay /\ ~app.compacting /\ app.session = Main
    /\ MayLeave \/ (~app.working /\ app.views = <<>>)
    /\ app' = [app EXCEPT !.session = "new", !.stack = <<>>, !.view.parent = NoSession, !.view.history = <<>>]
    /\ KeepEvents /\ UNCHANGED <<typed, continued, dropped>>

\* A background task of the main session ended: its result continues that conversation.
completionArrives ==
    /\ continued < MaxHidden /\ viewAvailable(app, Main) /\ app.session # NoSession
    /\ LET h == MaxTyped + continued + 1
           keeps(a) == deliverHiddenContinuation(a, h)
       IN \E b \in keeps(switchedTo(app, Main)) : app' = withSessionView(app, Main, b)
    /\ continued' = continued + 1 /\ KeepEvents /\ UNCHANGED <<typed, dropped>>

(***************************************************************************)
(* The goroutines                                                           *)
(***************************************************************************)
Event(kind, r, drafts) == [kind |-> kind, id |-> r, drafts |-> drafts]
Room == Len(eventQ) < EventSlots
Post(e) == Room /\ eventQ' = Append(eventQ, e)
\* A stream event needs the prompt's context.
PostStream(r, e) == Post(e) \/ (~app.runs[r].ctx /\ UNCHANGED eventQ)
RunAt(r, at) == app.runs[r].at = at
RunGoes(r, at) == app' = [app EXCEPT !.runs[r].at = at]
RunOnly == UNCHANGED <<typed, continued, dropped>>
IsPrompt(r) == app.runs[r].kind = "prompt"

\* The user entry is durable; a first prompt creates its session.
promptUserEntry(r) ==
    /\ IsPrompt(r) /\ RunAt(r, "start") /\ Post(Event("user_entry", r, <<>>)) /\ RunOnly
    /\ app' = [app EXCEPT !.runs[r].at = "open",
                          !.runs[r].session = IF @ = NoSession THEN Main ELSE @]

promptDelta(r) ==
    /\ IsPrompt(r) /\ RunAt(r, "open") /\ app.runs[r].blocks = 0
    /\ PostStream(r, Event("delta", r, <<>>)) /\ RunOnly /\ app' = [app EXCEPT !.runs[r].blocks = 1]

promptRetry(r) ==
    /\ IsPrompt(r) /\ RunAt(r, "open") /\ app.runs[r].blocks = 1
    /\ PostStream(r, Event("retry", r, <<>>)) /\ RunOnly /\ app' = [app EXCEPT !.runs[r].blocks = 2]

steeringConsumed(r) ==
    /\ IsPrompt(r) /\ RunAt(r, "open") /\ app.runs[r].inbox # <<>>
    /\ PostStream(r, Event("consumed", r, <<Head(app.runs[r].inbox)>>)) /\ RunOnly
    /\ app' = [app EXCEPT !.runs[r].inbox = Tail(@), !.runs[r].got = @ \cup {Head(app.runs[r].inbox)}]

\* The runtime compacts by itself before a request.
autoCompaction(r) ==
    /\ IsPrompt(r) /\ RunOnly
    /\ \/ RunAt(r, "open") /\ app.runs[r].blocks = 0 /\ PostStream(r, Event("compact_start", r, <<>>))
          /\ RunGoes(r, "compacting")
       \/ RunAt(r, "compacting") /\ RunGoes(r, "open")
          /\ \E kind \in {"compact_done", "compact_error"} : PostStream(r, Event(kind, r, <<>>))

\* The inbox is closed; what it still holds is returned before the prompt ends.
steeringReturn(r) ==
    /\ IsPrompt(r) /\ app.runs[r].at \in {"start", "open"} /\ RunOnly
    /\ IF app.runs[r].inbox = <<>> THEN UNCHANGED eventQ ELSE Post(Event("return", r, app.runs[r].inbox))
    /\ app' = [app EXCEPT !.runs[r].at = "ending", !.runs[r].inbox = <<>>]

\* Mutation: the ending needs the prompt's context too.
endsUnderPromptContext(r) ==
    /\ IsPrompt(r) /\ RunAt(r, "ending") /\ RunGoes(r, "ended") /\ RunOnly
    /\ \E kind \in {"done", "error"} : PostStream(r, Event(kind, r, <<>>))

runPrompt(r) ==
    /\ IsPrompt(r) /\ RunAt(r, "ending") /\ RunGoes(r, "ended") /\ RunOnly
    /\ \E kind \in {"done", "error"} : Post(Event(kind, r, <<>>))

runCompactSession(r) ==
    /\ ~IsPrompt(r) /\ RunAt(r, "open") /\ RunGoes(r, "ended") /\ RunOnly
    /\ \E kind \in (IF app.runs[r].ctx THEN {"compact_done", "compact_error"} ELSE {"compact_error"}) :
           Post(Event(kind, r, <<>>))

(***************************************************************************)
(* Applying events                                                          *)
(***************************************************************************)
applyPromptUserEntry(a, r) ==
    LET old == a.active.session
        new == a.runs[r].session
    IN [a EXCEPT !.active.session = new, !.active.entry = TRUE,
                 !.session = IF @ = old THEN new ELSE @]

finishPrompt(a) == [a EXCEPT !.working = FALSE, !.view.steering = <<>>, !.view.streaming = <<>>, !.active = NoPrompt]

KeepBlocks(a) == [a EXCEPT !.view.history = @ \o a.view.streaming, !.view.streaming = <<>>]

\* Progress streamed so far is kept, whether the prompt succeeds, fails or was canceled.
applyPromptResponse(a, r) ==
    LET ended == finishPrompt(KeepBlocks(a))
    IN processQueuedPrompt(IF a.active.canceled THEN ended
                           ELSE [ended EXCEPT !.view.history = Append(@, <<"assistant", r>>)])

applyPromptError(a, r) ==
    LET ended == finishPrompt(KeepBlocks(a))
    IN processQueuedPrompt(IF a.active.canceled THEN ended
                           ELSE [ended EXCEPT !.view.history = Append(@, <<"error", r>>)])

\* The draft joins the transcript after what was streamed before it.
applySteeringConsumed(a, r, d) ==
    LET b == KeepBlocks([a EXCEPT !.view.steering = SelectSeq(@, LAMBDA x : x # d)])
    IN IF d \in Hidden THEN b ELSE [b EXCEPT !.view.history = Append(@, <<"steer", r>>)]

\* Mutation: only the drafts the user typed are put back.
restoresVisible(a, drafts) ==
    [a EXCEPT !.view.queue = SelectSeq(drafts, LAMBDA d : d \in Typed) \o @]

restoreReturnedSteering(a, drafts) ==
    [a EXCEPT !.view.hidden = SelectSeq(drafts, LAMBDA d : d \in Hidden) \o @,
              !.view.queue = SelectSeq(drafts, LAMBDA d : d \in Typed) \o @]

\* Mutation: a failed compaction leaves the indicator on.
stopsOnDone(a, kind) == [a EXCEPT !.compacting = (kind # "compact_done")]

applyPromptContextEvent(a, kind) == [a EXCEPT !.compacting = (kind = "compact_start")]

handlePromptEvent(a, e) ==
    CASE e.kind = "user_entry" -> applyPromptUserEntry(a, e.id)
      [] e.kind = "delta" -> [a EXCEPT !.view.streaming = Append(@, <<"block", e.id>>)]
      [] e.kind = "retry" -> [a EXCEPT !.view.streaming = <<>>]
      [] e.kind = "consumed" -> applySteeringConsumed(a, e.id, Head(e.drafts))
      [] e.kind = "return" -> restoreReturnedSteering(a, e.drafts)
      [] e.kind = "done" -> applyPromptResponse(a, e.id)
      [] e.kind = "error" -> applyPromptError(a, e.id)
      [] OTHER -> applyPromptContextEvent(a, e.kind)

CompactionKinds == {"compact_start", "compact_done", "compact_error"}

ignorePromptEvent(a, e) == e.kind \notin CompactionKinds /\ a.active.id # e.id

\* Mutation: the event is applied to whatever is on the screen.
appliesToShown(a, e) == IF ignorePromptEvent(a, e) THEN a ELSE handlePromptEvent(a, e)

handlePromptAsyncEvent(a, e) ==
    IF ignorePromptEvent(a, e) THEN a
    ELSE withSessionView(a, a.active.session, handlePromptEvent(switchedTo(a, a.active.session), e))

applyCompactDone(a, e) ==
    IF a.compaction.id # e.id THEN a
    ELSE processQueuedPrompt([a EXCEPT !.view.parent = a.runs[e.id].session, !.compacting = FALSE,
                                       !.compaction = NoCompaction])

\* The newest draft queued during the compaction goes back to the composer, the others stay queued.
applyCompactError(a, e) ==
    IF a.compaction.id # e.id THEN a
    ELSE LET b == [a EXCEPT !.compacting = FALSE, !.compaction = NoCompaction]
         IN IF a.compaction.start >= Len(a.view.queue) THEN b ELSE dequeueFollowUp(b)

\* Only while a compaction of the user's is active are these its events.
handleCompactAsyncEvent(a, e) ==
    IF e.kind = "compact_done" THEN applyCompactDone(a, e) ELSE applyCompactError(a, e)

handleInterrupt ==
    /\ eventQ # <<>> /\ eventQ' = Tail(eventQ)
    /\ LET e == Head(eventQ)
           mine == e.kind \in {"compact_done", "compact_error"} /\ app.compaction # NoCompaction
       IN /\ app' = IF mine THEN handleCompactAsyncEvent(app, e) ELSE handlePromptAsyncEvent(app, e)
          /\ dropped' = IF mine /\ app'.view.composer # Draft THEN Overwritten ELSE dropped
    /\ UNCHANGED <<typed, continued>>

RunIds == DOMAIN app.runs
Goroutines ==
    \E r \in RunIds : promptUserEntry(r) \/ promptDelta(r) \/ promptRetry(r) \/ steeringConsumed(r) \/ autoCompaction(r)
                    \/ steeringReturn(r) \/ runPrompt(r) \/ runCompactSession(r)
Keys == typeDraft \/ submit \/ queueFollowUp \/ dequeueKey \/ compactSession \/ cancelActiveOperation
        \/ inspectAgentTask \/ leaveAgentTaskSession \/ newSession

TerminalNext == (Keys \/ completionArrives \/ Goroutines \/ handleInterrupt) /\ Len(app'.runs) <= MaxRuns

(***************************************************************************)
(* Properties                                                               *)
(***************************************************************************)
LiveViews == <<app.view>> \o SetToSeq({app.views[s] : s \in DOMAIN app.views \ {app.session}})

\* The places a draft is in: what a view holds, an inbox, a returned batch, a run it started or joined.
PlacesOf(d) ==
    LET inView(v) == Len(SelectSeq(v.queue \o v.hidden \o <<v.composer>>, LAMBDA x : x = d))
        inRun(r) == (IF r.draft = d THEN 1 ELSE 0) + (IF d \in r.got THEN 1 ELSE 0)
                    + Len(SelectSeq(r.inbox, LAMBDA x : x = d))
        inEvent(e) == IF e.kind = "return" /\ d \in ToSet(e.drafts) THEN 1 ELSE 0
        sum(seq, F(_)) == FoldLeft(LAMBDA n, x : n + F(x), 0, seq)
    IN sum(LiveViews, inView) + sum(app.runs, inRun) + sum(eventQ, inEvent)

\* Every draft that was typed, and every continuation, is in one place: prompts are neither
\* lost nor sent twice, through steering, cancels, failing compactions and inspected sessions.
\* The one way to lose a draft is to restore another one over it.
DraftsConserved ==
    /\ \A d \in 1..typed : PlacesOf(d) = IF d \in dropped THEN 0 ELSE 1
    /\ \A d \in (MaxTyped + 1)..(MaxTyped + continued) : PlacesOf(d) = 1

\* What a prompt streams and answers is shown in the session it belongs to, even while
\* another session is inspected, and what a session shows is its own.
ShownWhereItBelongs ==
    LET own(s, v) == \A i \in DOMAIN v.history \cup DOMAIN v.streaming :
            /\ i \in DOMAIN v.history => app.runs[v.history[i][2]].session \in {s, NoSession}
            /\ i \in DOMAIN v.streaming => app.active.id = v.streaming[i][2]
    IN /\ own(IF app.session = NoSession THEN Main ELSE app.session, app.view)
       /\ \A s \in DOMAIN app.views \ {app.session} : own(s, app.views[s])

\* An active prompt is one that still runs or has its ending on the way: the terminal never
\* waits for a prompt that has nothing left to say.
ActiveEnds ==
    app.active # NoPrompt =>
        \/ app.runs[app.active.id].at # "ended"
        \/ \E i \in DOMAIN eventQ : eventQ[i].id = app.active.id /\ eventQ[i].kind \in {"done", "error"}

\* The compaction indicator, which holds prompts back, outlives its prompt only when that
\* prompt was canceled and the end of its compaction was not delivered.
IndicatorHasOwner ==
    app.compacting /\ ~app.working /\ app.compaction = NoCompaction => \E r \in RunIds : ~app.runs[r].ctx

\* Canceling or failing a run puts its accepted but unconsumed steering back before the
\* queued follow-ups, README.md:175.
\* It does not hold: README.md, section 7.
SteeringRestored ==
    \A d \in 1..typed : PlacesOf(d) = 0 => d \in dropped

\* Events of a prompt reach the view of their session whichever session is shown, the prompt
\* that is active ends, and a work indicator always belongs to work that goes on.
ViewsSound ==
    /\ ShownWhereItBelongs /\ ActiveEnds /\ IndicatorHasOwner
================================================================================
