------------------------------ MODULE AgentEvents ------------------------------
(***************************************************************************)
(* The event stream of one running agent task: a writer that batches drafts    *)
(* (internal/taskprogress), the fenced append to task_events, and the process-   *)
(* local subscriptions of internal/agenttask that wake Await.                  *)
(***************************************************************************)
EXTENDS Integers, SequencesExt

CONSTANTS MaxDrafts,    \* drafts the runner writes
          FlushBatch,   \* FlushBatch
          EventBuffer   \* eventBuffer, the places of a subscription

ASSUME EventAssumption == MaxDrafts \in Nat /\ FlushBatch \in Nat \ {0} /\ EventBuffer \in Nat \ {0}

VARIABLES
    evRow,      \* "running", "canceling", "ended"
    evLease,    \* the lease is live and ours
    evLog,      \* task_events: the drafts by number, CancelEvent, EndEvent
    evWrites,   \* drafts Write has accepted
    evPending,  \* pending
    evFlight,   \* the batch a flush has taken
    evFlusher,  \* who holds flushMu: "none", "run", "ticker", "close"
    evErr,      \* err is set
    evRun,      \* the worker: "run", "flushing", "closing", "closeFlush", "closed", "publish", "done"
    evTicker,   \* the goroutine of Start: "on", "flushing", "off"
    evCtx,      \* the run context: "live", "done"
    evTimedOut, \* the flush of Close ran out of time
    evCancel,   \* a caller of Cancel: "idle", "publish", "done"
    evOpen,     \* subscriptions are open
    evChan,     \* the channel of the subscriber
    evAwait     \* Await: "idle", "get", "select", "returned"

evTask == <<evRow, evLease, evLog>>
evWriter == <<evWrites, evPending, evFlight, evFlusher, evErr, evTimedOut>>
evThreads == <<evRun, evTicker, evCtx, evCancel>>
evSub == <<evOpen, evChan, evAwait>>
evVars == <<evTask, evWriter, evThreads, evSub>>

CancelEvent == 0
EndEvent == MaxDrafts + 1

EventInit ==
    /\ evRow = "running" /\ evLease = TRUE /\ evLog = <<>>
    /\ evWrites = 0 /\ evPending = <<>> /\ evFlight = <<>> /\ evFlusher = "none" /\ evErr = FALSE
    /\ evTimedOut = FALSE /\ evRun = "run" /\ evTicker = "on" /\ evCtx = "live" /\ evCancel = "idle"
    /\ evOpen = TRUE /\ evChan = <<>> /\ evAwait = "idle"

Subscribed == evOpen /\ evAwait \in {"get", "select"}

\* Mutation: a full subscription misses every event, the last one too.
publishBestEffort(channel, event) == IF Len(channel) < EventBuffer THEN Append(channel, event) ELSE channel

\* A full subscription misses an event, unless it is terminal: then the oldest goes.
publish(channel, event) ==
    IF Len(channel) < EventBuffer THEN Append(channel, event)
    ELSE IF event = EndEvent THEN Append(Tail(channel), event) ELSE channel

publishAll(channel, events) == FoldLeft(publish, channel, events)

Deliver(events) == evChan' = IF Subscribed THEN publishAll(evChan, events) ELSE evChan

--------------------------------------------------------------------------------
(* The writer. *)

\* A draft is queued; stream deltas wait for a full batch, anything else is flushed.
writeDraft(immediate) ==
    /\ evRun = "run" /\ evWrites < MaxDrafts /\ ~evErr
    /\ evWrites' = evWrites + 1 /\ evPending' = Append(evPending, evWrites + 1)
    /\ evRun' = IF immediate \/ Len(evPending) + 1 >= FlushBatch THEN "flushing" ELSE "run"
    /\ UNCHANGED <<evTask, evFlight, evFlusher, evErr, evTimedOut, evTicker, evCtx, evCancel, evSub>>

\* The goroutine of Start flushes at every tick until it is stopped or canceled.
tick ==
    /\ \/ evTicker = "on" /\ evTicker' = "flushing"
       \/ evTicker = "on" /\ (evCtx = "done" \/ evRun = "closing") /\ evTicker' = "off"
    /\ UNCHANGED <<evTask, evWriter, evRun, evCtx, evCancel, evSub>>

Wants(who) ==
    \/ who = "run" /\ evRun = "flushing"
    \/ who = "ticker" /\ evTicker = "flushing"
    \/ who = "close" /\ evRun = "closeFlush"

FlushReturns(who) ==
    /\ evRun' = CASE who = "run" -> "run" [] who = "close" -> "closed" [] OTHER -> evRun
    /\ evTicker' = IF who = "ticker" THEN "on" ELSE evTicker

\* Mutation: a flush takes one batch.
takesOneBatch(who) ==
    LET size == IF Len(evPending) < FlushBatch THEN Len(evPending) ELSE FlushBatch IN
    /\ Wants(who) /\ evFlusher = "none"
    /\ evPending' = SubSeq(evPending, size + 1, Len(evPending))
    /\ IF evErr \/ evPending = <<>>
       THEN FlushReturns(who) /\ UNCHANGED <<evFlight, evFlusher>>
       ELSE evFlight' = SubSeq(evPending, 1, size) /\ evFlusher' = who /\ UNCHANGED <<evRun, evTicker>>
    /\ UNCHANGED <<evTask, evWrites, evErr, evTimedOut, evCtx, evCancel, evSub>>

\* A flush takes what is pending; after an error it drops it.
flushTakes(who) ==
    /\ Wants(who) /\ evFlusher = "none"
    /\ evPending' = <<>>
    /\ IF evErr \/ evPending = <<>>
       THEN FlushReturns(who) /\ UNCHANGED <<evFlight, evFlusher>>
       ELSE evFlight' = evPending /\ evFlusher' = who /\ UNCHANGED <<evRun, evTicker>>
    /\ UNCHANGED <<evTask, evWrites, evErr, evTimedOut, evCtx, evCancel, evSub>>

\* Mutation: drafts that could not be written go behind those that came meanwhile.
requeueBehind(flight, pending) == pending \o flight

requeue(flight, pending) == flight \o pending

\* The context of a flush: that of the run, or for Close one that only a timeout ends.
FlushCanceled(who) == who # "close" /\ evCtx = "done"

\* The append commits as one transaction while the task is active under our lease and is
\* published, or fails, or its context ends and the drafts are put back.
flushCommits(who) ==
    /\ evFlusher = who /\ who # "none"
    /\ \/ /\ ~FlushCanceled(who) /\ evLease /\ evRow # "ended"
          /\ evLog' = evLog \o evFlight /\ Deliver(evFlight)
          /\ UNCHANGED <<evPending, evErr, evTimedOut>>
       \/ /\ ~FlushCanceled(who) /\ ~(evLease /\ evRow # "ended")
          /\ evErr' = TRUE /\ UNCHANGED <<evLog, evPending, evTimedOut, evChan>>
       \/ /\ FlushCanceled(who) \/ who = "close"
          /\ evPending' = requeue(evFlight, evPending)
          /\ evTimedOut' = (evTimedOut \/ who = "close")
          /\ UNCHANGED <<evLog, evErr, evChan>>
    /\ evFlight' = <<>> /\ evFlusher' = "none" /\ FlushReturns(who)
    /\ UNCHANGED <<evRow, evLease, evWrites, evCtx, evCancel, evOpen, evAwait>>

\* The run is over: Close stops the goroutine, waits for it and flushes once more.
closeWriter ==
    /\ \/ evRun = "run" /\ evRun' = "closing"
       \/ evRun = "closing" /\ evTicker = "off" /\ evRun' = "closeFlush"
    /\ UNCHANGED <<evTask, evWriter, evTicker, evCtx, evCancel, evSub>>

--------------------------------------------------------------------------------
(* The task. *)

\* The row is finished by its owner with a terminal event; without the lease it is left
\* to recovery.
finishTask ==
    /\ evRun = "closed"
    /\ IF evLease /\ evRow # "ended"
       THEN evRow' = "ended" /\ evLog' = Append(evLog, EndEvent) /\ evRun' = "publish"
       ELSE evRun' = "done" /\ UNCHANGED <<evRow, evLog>>
    /\ UNCHANGED <<evLease, evWriter, evTicker, evCtx, evCancel, evSub>>

\* publishLatest reads the last event of the task again.
publishLatest ==
    /\ \/ evRun = "publish" /\ evRun' = "done" /\ UNCHANGED evCancel
       \/ evCancel = "publish" /\ evCancel' = "done" /\ UNCHANGED evRun
    /\ Deliver(<<evLog[Len(evLog)]>>)
    /\ UNCHANGED <<evTask, evWriter, evTicker, evCtx, evOpen, evAwait>>

requestCancel ==
    /\ evCancel = "idle" /\ evRow = "running"
    /\ evRow' = "canceling" /\ evLog' = Append(evLog, CancelEvent) /\ evCancel' = "publish" /\ evCtx' = "done"
    /\ UNCHANGED <<evLease, evWriter, evRun, evTicker, evSub>>

\* The lease runs out, and another process recovers the row.
loseLease ==
    /\ evLease /\ evRow # "ended" /\ evLease' = FALSE
    /\ UNCHANGED <<evRow, evLog, evWriter, evThreads, evSub>>

recovered ==
    /\ ~evLease /\ evRow # "ended" /\ evRow' = "ended" /\ evLog' = Append(evLog, EndEvent)
    /\ UNCHANGED <<evLease, evWriter, evThreads, evSub>>

--------------------------------------------------------------------------------
(* Await. *)

subscribe ==
    /\ evAwait = "idle" /\ evAwait' = "get"
    /\ UNCHANGED <<evTask, evWriter, evThreads, evOpen, evChan>>

awaitGet ==
    /\ evAwait = "get" /\ evAwait' = IF evRow = "ended" THEN "returned" ELSE "select"
    /\ UNCHANGED <<evTask, evWriter, evThreads, evOpen, evChan>>

\* An event, or the ticker, makes Await read the row again.
awaitWakes ==
    /\ evAwait = "select" /\ evAwait' = "get"
    /\ IF evChan # <<>> THEN evChan' = Tail(evChan) ELSE UNCHANGED evChan
    /\ UNCHANGED <<evTask, evWriter, evThreads, evOpen>>

\* Shutdown closes every subscription; from then on only the ticker wakes Await.
closeSubscriptions ==
    /\ evOpen /\ evCtx = "done" /\ evOpen' = FALSE
    /\ UNCHANGED <<evTask, evWriter, evThreads, evChan, evAwait>>

EventWork ==
    \/ tick \/ closeWriter \/ finishTask \/ publishLatest \/ awaitGet \/ awaitWakes
    \/ \E who \in {"run", "ticker", "close"} : flushTakes(who) \/ flushCommits(who)

EventNext ==
    \/ EventWork \/ requestCancel \/ loseLease \/ recovered \/ subscribe \/ closeSubscriptions
    \/ \E immediate \in BOOLEAN : writeDraft(immediate)

--------------------------------------------------------------------------------
Unsaved == evFlight \o evPending
Durable == {evLog[i] : i \in DOMAIN evLog} \cap 1..MaxDrafts

\* However flushes are canceled and repeated, no draft is lost, doubled or overtaken on its
\* way into task_events while the writer reports no error.
DraftsInOrder ==
    ~evErr => LET written == evWrites - Len(Unsaved)
              IN /\ Durable = 1..written
                 /\ \A n \in DOMAIN Unsaved : Unsaved[n] = written + n
                 /\ \A i, j \in DOMAIN evLog :
                       i < j /\ {evLog[i], evLog[j]} \subseteq 1..MaxDrafts => evLog[i] < evLog[j]

\* A Close that reports no error has made every draft durable, even when the run was
\* canceled; only its own time limit breaks this, which it does not report.
CloseLosesNothing ==
    evRun \in {"closed", "publish", "done"} /\ ~evErr /\ ~evTimedOut => Durable = 1..evWrites

\* Once its worker has published the end of a task, an open Await that still sleeps has that
\* event in its channel, however many others the channel had no room for.
EndReachesAwait ==
    evRun = "done" /\ evRow = "ended" /\ evLease /\ evOpen /\ evAwait = "select" =>
        \E n \in DOMAIN evChan : evChan[n] = EndEvent

--------------------------------------------------------------------------------
(***************************************************************************)
(* The terminal's watch of an agent task's events (internal/terminal,        *)
(* agent_tasks.go).  The watch subscribes, replays the durable log page by    *)
(* page, then forwards the live events.  Those are published after they are   *)
(* committed, by whoever committed them, so they arrive late or in another    *)
(* order, and a full subscription misses them; a gap is filled from the log.  *)
(***************************************************************************)

CONSTANTS
    MaxLog,      \* events of the task; the last one ends it
    ReplayLimit, \* events a page of the log holds
    LiveBuffer   \* events the subscription holds

VARIABLES
    wLog,    \* the number of committed events
    wUnsent, \* committed events that are not yet published
    wLive,   \* the subscription
    wOpen,
    wAt,     \* "replay", "live", "gap", "filled", "closing", "closed" or "stopped"
    wSeq,    \* the last event the watch has handled
    wEvent,  \* the live event that waits for a gap to be filled
    wShown,  \* what was posted to the event loop
    wHeld    \* the watch is wanted: it was not canceled
ASSUME WatchAssumption == MaxLog \in Nat \ {0} /\ ReplayLimit \in Nat \ {0} /\ LiveBuffer \in Nat \ {0}

wVars == <<wLog, wUnsent, wLive, wOpen, wAt, wSeq, wEvent, wShown, wHeld>>

TaskEnd == MaxLog
Failed == 0
WatchInit ==
    /\ wLog = 0 /\ wUnsent = {} /\ wLive = <<>> /\ wOpen = TRUE
    /\ wAt = "replay" /\ wSeq = 0 /\ wEvent = 0 /\ wShown = <<>> /\ wHeld = TRUE

KeepTask == UNCHANGED <<wLog, wUnsent, wLive, wOpen>>

\* The pages of the log after the last event handled.
replayAgentTaskEvents == [i \in 1..(IF wLog - wSeq < ReplayLimit THEN wLog - wSeq ELSE ReplayLimit) |-> wSeq + i]
WasLastPage == Len(replayAgentTaskEvents) < ReplayLimit

Forward(events) == wShown' = IF wHeld THEN wShown \o events ELSE wShown

\* A page is forwarded; the end of the task, or a failed read, stops the watch.
applyReplayedEvents(then) ==
    \/ /\ Forward(replayAgentTaskEvents) /\ wSeq' = wSeq + Len(replayAgentTaskEvents)
       /\ wAt' = IF wSeq' = TaskEnd THEN "stopped" ELSE IF WasLastPage THEN then ELSE wAt
       /\ UNCHANGED wEvent
    \/ Forward(<<Failed>>) /\ wAt' = "stopped" /\ UNCHANGED <<wSeq, wEvent>>

watchReplays == wAt = "replay" /\ applyReplayedEvents("live") /\ KeepTask /\ UNCHANGED wHeld

\* Mutation: whatever arrives is forwarded.
forwardsWithGaps ==
    IF Head(wLive) <= wSeq THEN UNCHANGED <<wAt, wSeq, wEvent, wShown>>
    ELSE /\ Forward(<<Head(wLive)>>) /\ wSeq' = Head(wLive) /\ UNCHANGED wEvent
         /\ wAt' = IF Head(wLive) = TaskEnd THEN "stopped" ELSE wAt

\* An event that was seen is skipped; one that comes too soon waits for a replay.
forwardAgentTaskEvent ==
    LET e == Head(wLive)
    IN IF e <= wSeq THEN UNCHANGED <<wAt, wSeq, wEvent, wShown>>
       ELSE IF e > wSeq + 1 THEN wAt' = "gap" /\ wEvent' = e /\ UNCHANGED <<wSeq, wShown>>
       ELSE /\ Forward(<<e>>) /\ wSeq' = e /\ UNCHANGED wEvent
            /\ wAt' = IF e = TaskEnd THEN "stopped" ELSE wAt

nextAgentTaskEvent ==
    /\ wAt = "live" /\ wLive # <<>> /\ forwardAgentTaskEvent
    /\ wLive' = Tail(wLive) /\ UNCHANGED <<wLog, wUnsent, wOpen, wHeld>>

\* The log is read to its end and should now reach the event that was waiting.
fillGap ==
    /\ KeepTask /\ UNCHANGED wHeld
    /\ \/ wAt = "gap" /\ applyReplayedEvents("filled")
       \/ /\ wAt = "filled" /\ UNCHANGED <<wSeq, wEvent>>
          /\ IF wSeq >= wEvent THEN wAt' = "live" /\ UNCHANGED wShown
             ELSE wAt' = "stopped" /\ Forward(<<Failed>>)

\* Mutation: a closed subscription just ends the watch.
closesSilently ==
    /\ wAt' = "stopped" /\ UNCHANGED <<wSeq, wEvent, wShown>>

\* The log is read a last time; a watch whose task goes on says that it was closed.
reconcileClosedWatch ==
    IF ~wHeld THEN wAt' = "stopped" /\ UNCHANGED <<wSeq, wEvent, wShown>>
    ELSE wAt' = "closing" /\ UNCHANGED <<wSeq, wEvent, wShown>>

watchClosed ==
    /\ wAt = "live" /\ ((wLive = <<>> /\ ~wOpen) \/ ~wHeld) /\ KeepTask /\ UNCHANGED wHeld
    /\ reconcileClosedWatch

watchCloses == wAt = "closing" /\ applyReplayedEvents("closed") /\ KeepTask /\ UNCHANGED wHeld

postWatchClosed ==
    /\ wAt = "closed" /\ KeepTask /\ UNCHANGED <<wHeld, wSeq, wEvent>> /\ Forward(<<Failed>>) /\ wAt' = "stopped"

stopAgentTaskWatch ==
    /\ wHeld /\ wHeld' = FALSE /\ wOpen' = FALSE /\ UNCHANGED <<wLog, wUnsent, wLive, wAt, wSeq, wEvent, wShown>>

KeepWatch == UNCHANGED <<wAt, wSeq, wEvent, wShown, wHeld>>
eventCommitted == /\ wLog < MaxLog /\ wLog' = wLog + 1 /\ wUnsent' = wUnsent \cup {wLog + 1}
                  /\ UNCHANGED <<wLive, wOpen>> /\ KeepWatch
eventPublished ==
    /\ \E e \in wUnsent :
           /\ wUnsent' = wUnsent \ {e}
           /\ wLive' = IF ~wOpen THEN wLive
                       ELSE IF Len(wLive) < LiveBuffer THEN Append(wLive, e)
                       ELSE IF e = TaskEnd THEN Append(Tail(wLive), e) ELSE wLive
    /\ UNCHANGED <<wLog, wOpen>> /\ KeepWatch
serviceStops == wOpen /\ wOpen' = FALSE /\ UNCHANGED <<wLog, wUnsent, wLive>> /\ KeepWatch

WatchNext == watchReplays \/ nextAgentTaskEvent \/ fillGap \/ watchClosed \/ watchCloses \/ postWatchClosed
             \/ stopAgentTaskWatch \/ eventCommitted \/ eventPublished \/ serviceStops

(***************************************************************************)
(* Properties                                                               *)
(***************************************************************************)
\* What a watch forwards is the task's log from its first event, without a gap, a repetition
\* or a change of order, however events were published, missed and replayed; at its end it may
\* say that it failed.
ForwardsTheLog ==
    \A i \in DOMAIN wShown : wShown[i] = i \/ (i = Len(wShown) /\ wShown[i] = Failed)

\* A watch that stopped forwarded the end of the task or said that it failed or was closed,
\* unless it was no longer wanted: the terminal then reads the durable state again.
StopIsAnnounced ==
    wAt = "stopped" /\ wHeld => wShown # <<>> /\ wShown[Len(wShown)] \in {TaskEnd, Failed}
================================================================================
