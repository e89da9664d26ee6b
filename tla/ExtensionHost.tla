----------------------------- MODULE ExtensionHost -----------------------------
(***************************************************************************)
(* The Lua extension host of internal/extension: loading, the registrations a   *)
(* callback may add or drop at any time, timers, and the two threads that       *)
(* dispatch into the extensions: the terminal's event loop and an assistant      *)
(* run.  A Lua state is entered under its extension's lock.  Due times are not    *)
(* modelled: a timer becomes due at any moment, and due timers run in any order.  *)
(***************************************************************************)
EXTENDS Integers, SequencesExt, FiniteSetsExt

CONSTANTS Extensions,        \* the configured extensions, in no particular order
          MaxRegistrations,  \* handlers, keymaps and timers ever registered
          MaxDispatches      \* dispatches of each thread

VARIABLES
    xPhase,     \* "loading", "ready", "failed", "down"
    xLoading,   \* the extensions whose file is running: at most one
    xLoaded,    \* manager.extensions
    xRegs,      \* handlers and keymaps: [extension, kind, priority, order]
    xTimers,    \* timers: [extension, repeats, due, order]; the order is the id too
    xCanceled,  \* canceledTimers
    xOrder,     \* nextHandlerOrder, nextTimerID
    xLocks,     \* luaExtension.lock: [Extensions -> "free" or a thread]
    xActive,    \* luaExtension.activeEvent: [Extensions -> "nil" or "event"]
    xThread,    \* the dispatch of each thread
    xEvent,     \* the terminal event being handled: [stopped, writers, ran]
    xStopped,   \* the ids timer.stop was called with
    xIntervals, \* the intervals neither stopped nor lost with a failed dispatch
    xCount      \* dispatches of each thread

xHost == <<xPhase, xLoading, xLoaded>>
xTable == <<xRegs, xTimers, xCanceled, xOrder, xStopped, xIntervals>>
xCalls == <<xLocks, xActive, xThread, xEvent, xCount>>
xVars == <<xHost, xTable, xCalls>>

Threads == {"ui", "agent"}
NoEvent == [stopped |-> FALSE, writers |-> {}, ran |-> <<>>]
Resting == [phase |-> "idle", queue |-> <<>>, step |-> "next"]

HostInit ==
    /\ xPhase = "loading" /\ xLoading = {} /\ xLoaded = {}
    /\ xRegs = {} /\ xTimers = {} /\ xCanceled = {} /\ xOrder = 0 /\ xStopped = {} /\ xIntervals = {}
    /\ xLocks = [e \in Extensions |-> "free"] /\ xActive = [e \in Extensions |-> "nil"]
    /\ xThread = [t \in Threads |-> Resting] /\ xEvent = NoEvent /\ xCount = [t \in Threads |-> 0]

--------------------------------------------------------------------------------
(* What a callback, or the file of an extension, may call. *)

Kinds == {"key", "tool_call", "keymap"}

registerHandler(e, kind, priority) ==
    /\ xOrder < MaxRegistrations
    /\ xOrder' = xOrder + 1
    /\ xRegs' = xRegs \cup {[extension |-> e, kind |-> kind, priority |-> priority, order |-> xOrder + 1]}
    /\ UNCHANGED <<xTimers, xCanceled, xStopped, xIntervals>>

\* All of its own keymaps for a key go; other extensions' keymaps stay.
luaKeymapDel(e) ==
    /\ \E r \in xRegs : r.extension = e /\ r.kind = "keymap"
    /\ xRegs' = {r \in xRegs : ~(r.extension = e /\ r.kind = "keymap")}
    /\ UNCHANGED <<xTimers, xCanceled, xOrder, xStopped, xIntervals>>

registerTimer(e, repeats) ==
    /\ xOrder < MaxRegistrations
    /\ xOrder' = xOrder + 1
    /\ xTimers' = xTimers \cup {[extension |-> e, repeats |-> repeats, due |-> FALSE, order |-> xOrder + 1]}
    /\ xIntervals' = IF repeats THEN xIntervals \cup {xOrder + 1} ELSE xIntervals
    /\ UNCHANGED <<xRegs, xCanceled, xStopped>>

\* Any extension may stop any timer it has the id of, a running one too.
cancelTimer(id) ==
    /\ id \notin xStopped
    /\ xCanceled' = xCanceled \cup {id}
    /\ xTimers' = {timer \in xTimers : timer.order # id}
    /\ xStopped' = xStopped \cup {id} /\ xIntervals' = xIntervals \ {id}
    /\ UNCHANGED <<xRegs, xOrder>>

Register(e) ==
    \/ \E kind \in Kinds, priority \in {0, 1} : registerHandler(e, kind, priority)
    \/ luaKeymapDel(e)
    \/ \E repeats \in BOOLEAN : registerTimer(e, repeats)
    \/ \E id \in 1..xOrder : id \notin {r.order : r \in xRegs} /\ cancelTimer(id)

--------------------------------------------------------------------------------
(* Loading, before anything is dispatched. *)

loadLuaFile(e) ==
    /\ xPhase = "loading" /\ xLoading = {} /\ e \notin xLoaded
    /\ xLoading' = {e}
    /\ UNCHANGED <<xPhase, xLoaded, xTable, xCalls>>

runsFile ==
    /\ \E e \in xLoading : Register(e)
    /\ UNCHANGED <<xHost, xCalls>>

loadsDone ==
    /\ xLoading # {} /\ xPhase = "loading"
    /\ xLoaded' = xLoaded \cup xLoading /\ xLoading' = {}
    /\ xPhase' = IF xLoaded' = Extensions THEN "ready" ELSE "loading"
    /\ UNCHANGED <<xTable, xCalls>>

\* The file fails: what it registered goes, its timers count as canceled.
unregisterRuntime ==
    /\ xLoading # {} /\ xPhase = "loading"
    /\ xPhase' = "failed" /\ xLoading' = {}
    /\ xRegs' = {r \in xRegs : r.extension \notin xLoading}
    /\ xTimers' = {timer \in xTimers : timer.extension \notin xLoading}
    /\ xCanceled' = xCanceled \cup {timer.order : timer \in xTimers \ xTimers'}
    /\ xIntervals' = xIntervals \ {timer.order : timer \in xTimers \ xTimers'}
    /\ UNCHANGED <<xLoaded, xOrder, xStopped, xCalls>>

\* One failed load ends the service with every extension loaded before.
Shutdown ==
    /\ \/ xPhase = "failed"
       \/ xPhase = "ready" /\ \A t \in Threads : xThread[t] = Resting
    /\ xPhase' = "down" /\ xLoaded' = {} /\ xLoading' = {}
    /\ xRegs' = {} /\ xTimers' = {} /\ xCanceled' = {} /\ xOrder' = 0 /\ xStopped' = {} /\ xIntervals' = {}
    /\ UNCHANGED xCalls

--------------------------------------------------------------------------------
(* Dispatch. *)

TimePasses ==
    /\ xPhase = "ready"
    /\ \E timer \in xTimers : ~timer.due /\ xTimers' = (xTimers \ {timer}) \cup {[timer EXCEPT !.due = TRUE]}
    /\ UNCHANGED <<xHost, xRegs, xCanceled, xOrder, xStopped, xIntervals, xCalls>>

\* Mutation: handlers run in the order they were registered.
handlersInOrder(kind) ==
    SetToSortSeq({r \in xRegs : r.kind = kind}, LAMBDA a, b : a.order < b.order)

runsBefore(a, b) == a.priority > b.priority \/ (a.priority = b.priority /\ a.order < b.order)

\* A snapshot by priority, then by order of registration.
handlersFor(kind) ==
    LET regs == {r \in xRegs : r.kind = kind}
    IN  CHOOSE q \in [1..Cardinality(regs) -> regs] : \A i, j \in DOMAIN q : i < j => runsBefore(q[i], q[j])

\* Mutation: the list is emptied, the timers that are not due with it.
takesAll(due) == {}

\* What is left of the list when the due timers are taken.
takeDueTimers(due) == {timer \in xTimers : ~timer.due /\ timer.order \notin xCanceled}

\* A terminal event takes the due timers before it looks at keymaps and handlers.
handleTerminalEvent ==
    /\ xPhase = "ready" /\ xThread["ui"] = Resting /\ xCount["ui"] < MaxDispatches
    /\ LET due == {timer \in xTimers : timer.due /\ timer.order \notin xCanceled}
       IN  /\ \E queue \in SetToSeqs(due) :
                  xThread' = [xThread EXCEPT !["ui"] = [phase |-> "timers", queue |-> queue, step |-> "next"]]
           /\ xTimers' = takeDueTimers(due)
           /\ xCanceled' = xCanceled \ {timer.order : timer \in xTimers}
    /\ xEvent' = NoEvent /\ xCount' = [xCount EXCEPT !["ui"] = @ + 1]
    /\ UNCHANGED <<xHost, xRegs, xOrder, xStopped, xIntervals, xLocks, xActive>>

\* A lifecycle event, an event of Emit, or a command or tool of an extension.
DispatchLifecycle(phase) ==
    /\ xPhase = "ready" /\ xThread["agent"] = Resting /\ xCount["agent"] < MaxDispatches
    /\ xThread' = [xThread EXCEPT !["agent"] = [phase |-> phase, queue |-> handlersFor("tool_call"), step |-> "next"]]
    /\ xCount' = [xCount EXCEPT !["agent"] = @ + 1]
    /\ UNCHANGED <<xHost, xTable, xLocks, xActive, xEvent>>

Calling(t) == Head(xThread[t].queue)
Continue(t, stopped) ==
    IF stopped THEN Resting ELSE [xThread[t] EXCEPT !.queue = Tail(@), !.step = "next"]

\* The timers are through, then the keymaps, then the handlers.
nextPhase(t) ==
    /\ xThread[t].phase # "idle" /\ xThread[t].queue = <<>>
    /\ xThread' = [xThread EXCEPT ![t] =
           CASE @.phase = "timers" -> [phase |-> "keymaps", queue |-> handlersFor("keymap"), step |-> "next"]
             [] @.phase = "keymaps" /\ ~xEvent.stopped ->
                    [phase |-> "handlers", queue |-> handlersFor("key"), step |-> "next"]
             [] OTHER -> Resting]
    /\ UNCHANGED <<xHost, xTable, xLocks, xActive, xEvent, xCount>>

\* Mutation: a callback of an assistant run enters the Lua state without its lock.
callsUnlocked(t, e) ==
    \/ t = "agent" /\ UNCHANGED <<xLocks, xActive>>
    \/ /\ t = "ui" /\ xLocks[e] = "free" /\ xLocks' = [xLocks EXCEPT ![e] = t]
       /\ xActive' = [xActive EXCEPT ![e] = "event"]

\* The extension's lock is held for the call, and its event is the caller's or none.
callLuaPrepared(t, e) ==
    /\ xLocks[e] = "free" /\ xLocks' = [xLocks EXCEPT ![e] = t]
    /\ xActive' = [xActive EXCEPT ![e] = IF t = "ui" THEN "event" ELSE "nil"]

startCall(t) ==
    /\ xThread[t].queue # <<>> /\ xThread[t].step = "next"
    /\ callLuaPrepared(t, Calling(t).extension)
    /\ xThread' = [xThread EXCEPT ![t].step = "running"]
    /\ xEvent' = IF xThread[t].phase \in {"keymaps", "handlers"} THEN [xEvent EXCEPT !.ran = Append(@, Calling(t))]
                 ELSE xEvent
    /\ UNCHANGED <<xHost, xTable, xCount>>

Running(t) == xThread[t].queue # <<>> /\ xThread[t].step = "running"

inCallback(t) ==
    /\ Running(t) /\ Register(Calling(t).extension)
    /\ UNCHANGED <<xHost, xCalls>>

Release(t) ==
    /\ xLocks' = [xLocks EXCEPT ![Calling(t).extension] = "free"]
    /\ xActive' = [xActive EXCEPT ![Calling(t).extension] = "nil"]

\* A call of the buffer, window, layout or event API reaches the active event.
bufferCall(t) ==
    /\ Running(t) /\ xActive[Calling(t).extension] = "event"
    /\ xEvent' = [xEvent EXCEPT !.writers = @ \cup {t}]
    /\ UNCHANGED <<xHost, xTable, xLocks, xActive, xThread, xCount>>

\* The callback returns; a repeating timer is looked up before it is scheduled again.
returnCall(t, stop) ==
    /\ Running(t) /\ Release(t)
    /\ xEvent' = IF t = "ui" /\ stop THEN [xEvent EXCEPT !.stopped = TRUE] ELSE xEvent
    /\ xThread' = [xThread EXCEPT ![t] =
           CASE @.phase = "timers" /\ Calling(t).repeats -> [@ EXCEPT !.step = "check"]
             [] @.phase \in {"keymaps", "handlers"} -> Continue(t, xEvent'.stopped)
             [] @.phase = "lifecycle" -> Continue(t, stop)
             [] OTHER -> Continue(t, FALSE)]
    /\ UNCHANGED <<xHost, xTable, xCount>>

Waiting(t) == {xThread[t].queue[i].order : i \in DOMAIN xThread[t].queue}

\* An error, or an API call without an active event: a terminal event and Emit end
\* there, with every timer still waiting; a lifecycle event goes on.
failCall(t) ==
    /\ Running(t) /\ Release(t)
    /\ xThread' = [xThread EXCEPT ![t] = Continue(t, xThread[t].phase # "lifecycle")]
    /\ xIntervals' = IF xThread[t].phase = "timers" THEN xIntervals \ Waiting(t) ELSE xIntervals
    /\ UNCHANGED <<xHost, xRegs, xTimers, xCanceled, xOrder, xStopped, xEvent, xCount>>

\* The context ends between two callbacks.
contextDone(t) ==
    /\ xThread[t].queue # <<>> /\ xThread[t].step = "next"
    /\ xThread' = [xThread EXCEPT ![t] = Resting]
    /\ xIntervals' = IF xThread[t].phase = "timers" THEN xIntervals \ Waiting(t) ELSE xIntervals
    /\ UNCHANGED <<xHost, xRegs, xTimers, xCanceled, xOrder, xStopped, xLocks, xActive, xEvent, xCount>>

timerCanceled ==
    /\ xThread["ui"].step = "check"
    /\ xThread' = [xThread EXCEPT !["ui"] =
           IF Calling("ui").order \in xCanceled THEN Continue("ui", FALSE) ELSE [@ EXCEPT !.step = "reschedule"]]
    /\ UNCHANGED <<xHost, xTable, xLocks, xActive, xEvent, xCount>>

\* Mutation: the timer is scheduled again on the strength of the first look.
reschedulesUnchecked(timer) ==
    xTimers' = xTimers \cup {[timer EXCEPT !.due = FALSE]} /\ UNCHANGED xCanceled

\* The second look, under the lock that schedules.
rescheduleTimer(timer) ==
    IF timer.order \in xCanceled
    THEN xCanceled' = xCanceled \ {timer.order} /\ UNCHANGED xTimers
    ELSE xTimers' = xTimers \cup {[timer EXCEPT !.due = FALSE]} /\ UNCHANGED xCanceled

runTimer ==
    /\ xThread["ui"].step = "reschedule"
    /\ rescheduleTimer(Calling("ui"))
    /\ xThread' = [xThread EXCEPT !["ui"] = Continue("ui", FALSE)]
    /\ UNCHANGED <<xHost, xRegs, xOrder, xStopped, xIntervals, xLocks, xActive, xEvent, xCount>>

HostNext ==
    \/ \E e \in Extensions : loadLuaFile(e)
    \/ runsFile \/ loadsDone \/ unregisterRuntime \/ Shutdown
    \/ TimePasses \/ handleTerminalEvent \/ timerCanceled \/ runTimer
    \/ \E phase \in {"lifecycle", "emit"} : DispatchLifecycle(phase)
    \/ \E t \in Threads :
          \/ nextPhase(t) \/ startCall(t) \/ inCallback(t) \/ bufferCall(t) \/ failCall(t) \/ contextDone(t)
          \/ \E stop \in BOOLEAN : returnCall(t, stop)

--------------------------------------------------------------------------------
(* Properties. *)

\* A repeating timer that nobody stopped is scheduled or about to run, whatever
\* was registered or stopped by the callbacks of the batch it was taken with
\* (takeDueTimers, runTimer); only a dispatch that failed may lose it.
IntervalsKept ==
    \A id \in xIntervals :
        id \in {timer.order : timer \in xTimers} \cup (IF xThread["ui"].phase = "timers" THEN Waiting("ui") ELSE {})

\* A stopped timer is never scheduled again, although timer.stop may come from
\* an assistant run between the two looks of runTimer.
StoppedStaysStopped == \A timer \in xTimers : timer.order \notin xStopped

\* Only callbacks of the terminal event reach its buffers: a callback an
\* assistant run calls in the same extension finds no event (activeEvent).
OnlyItsCallbacksWrite == xEvent.writers \subseteq {"ui"}

\* The keymaps and the handlers of one event run by priority, each kind from a
\* snapshot, and no registration made meanwhile runs out of its turn.
RunsByPriority ==
    \A i, j \in DOMAIN xEvent.ran :
        (i < j /\ xEvent.ran[i].kind = xEvent.ran[j].kind) =>
            \/ xEvent.ran[i].priority > xEvent.ran[j].priority
            \/ /\ xEvent.ran[i].priority = xEvent.ran[j].priority
               /\ xEvent.ran[i].order < xEvent.ran[j].order

--------------------------------------------------------------------------------
(***************************************************************************)
(* One terminal event as extensions see it: callbacks edit a copy of the        *)
(* buffers, the windows and the layout (internal/extension host events), and the  *)
(* terminal applies the differences when the dispatch succeeded.  A second part   *)
(* folds the tables that lifecycle handlers return into one result.            *)
(***************************************************************************)

CONSTANTS BufferEdits,  \* edits of one event
          EventLimit,   \* events
          HandlerLimit  \* lifecycle handlers that return a table

VARIABLES
    extBuffers,  \* State.Buffers: the buffers extensions own
    extComposer, \* composerBuffer
    extWindows,  \* State.Windows
    extLayout,   \* State.Layout: NoLayout, or the windows of a layout
    extEvent,    \* the open host event, or NoHostEvent
    extSeen,     \* the last event applied, as its callbacks left it
    extEvents,   \* events so far
    lfTables,    \* the tables the handlers of a lifecycle event returned
    lfResult     \* LifecycleDispatchResult

extState == <<extBuffers, extComposer, extWindows, extLayout>>
exVars == <<extState, extEvent, extSeen, extEvents, lfTables, lfResult>>

Composer == "composer"
Notes == "notes"
Status == "status"        \* a window of the terminal's own
SidePane == "side"        \* a window of an extension
NoLayout == [none |-> 0]
NoHostEvent == [edits |-> -1]
EmptyBuffer == [text |-> <<>>, cursor |-> 0]
NoMutation == [arguments |-> <<>>, hasArgs |-> FALSE, summary |-> 0, cancel |-> FALSE, stopped |-> FALSE]

With(f, name, value) == [n \in DOMAIN f \cup {name} |-> IF n = name THEN value ELSE f[n]]
Without(f, name) == [n \in DOMAIN f \ {name} |-> f[n]]
Over(f, g) == [n \in DOMAIN f \cup DOMAIN g |-> IF n \in DOMAIN g THEN g[n] ELSE f[n]]

ExtensionInit ==
    /\ extBuffers = <<>> /\ extComposer = EmptyBuffer /\ extWindows = <<>> /\ extLayout = NoLayout
    /\ extEvent = NoHostEvent /\ extSeen = NoHostEvent /\ extEvents = 0
    /\ lfTables = <<>> /\ lfResult = NoMutation

--------------------------------------------------------------------------------
(* What the terminal shows extensions. *)

\* ClampCursor: whatever an extension sets, the cursor ends inside the text.
clamped(buffer) ==
    [buffer EXCEPT !.cursor = IF @ < 0 THEN 0 ELSE IF @ > Len(buffer.text) THEN Len(buffer.text) ELSE @]

extensionBuffers(buffers, composer) == With(buffers, Composer, composer)

\* The terminal's own windows, then the layout's, then the single ones.
cloneRuntimeWindows(windows, layout) ==
    Over(Over([n \in {Status} |-> 0], IF layout = NoLayout THEN <<>> ELSE layout), windows)

newLuaHostEvent ==
    /\ extEvent = NoHostEvent /\ extEvents < EventLimit
    /\ LET windows == cloneRuntimeWindows(extWindows, extLayout)
       IN  extEvent' = [edits |-> 0, buffers |-> extensionBuffers(extBuffers, extComposer),
                        windows |-> windows, layout |-> windows, layoutChanged |-> FALSE,
                        changedBuffers |-> {}, deletedBuffers |-> {}, changedWindows |-> {}, deletedWindows |-> {}]
    /\ extEvents' = extEvents + 1 /\ extSeen' = NoHostEvent
    /\ UNCHANGED <<extState, lfTables, lfResult>>

--------------------------------------------------------------------------------
(* The edits of a callback. *)

bufferOf(event, name) == IF name \in DOMAIN event.buffers THEN event.buffers[name] ELSE EmptyBuffer

setBuffer(event, name, buffer) ==
    [event EXCEPT !.buffers = With(@, name, buffer), !.changedBuffers = @ \cup {name},
                  !.deletedBuffers = @ \ {name}]

\* Mutation: the deletion is forgotten when the buffer was changed before.
deletesUnchanged(event, name) ==
    [event EXCEPT !.buffers = Without(@, name), !.changedBuffers = @ \ {name},
                  !.deletedBuffers = IF name \in event.changedBuffers THEN @ ELSE @ \cup {name}]

deleteBuffer(event, name) ==
    [event EXCEPT !.buffers = Without(@, name), !.changedBuffers = @ \ {name},
                  !.deletedBuffers = @ \cup {name}]

setWindow(event, name, window) ==
    [event EXCEPT !.windows = With(@, name, window), !.layout = With(@, name, window),
                  !.changedWindows = @ \cup {name}, !.deletedWindows = @ \ {name}]

deleteWindow(event, name) ==
    [event EXCEPT !.windows = Without(@, name), !.layout = Without(@, name),
                  !.changedWindows = @ \ {name}, !.deletedWindows = @ \cup {name}]

\* Changed and deleted windows are left as they are: the layout is applied last.
setLayout(event, windows) ==
    [event EXCEPT !.layout = windows, !.windows = windows, !.layoutChanged = TRUE]

clampRuneIndex(index, count) == IF index < 0 THEN 0 ELSE IF index > count THEN count ELSE index
minInt(a, b) == IF a < b THEN a ELSE b
maxInt(a, b) == IF a < b THEN b ELSE a

\* The bounds may be out of range and in either order.
spliceBufferText(text, start, end, replacement) ==
    LET a == clampRuneIndex(start, Len(text))
        b == clampRuneIndex(end, Len(text))
    IN  SubSeq(text, 1, minInt(a, b)) \o replacement \o SubSeq(text, maxInt(a, b) + 1, Len(text))

\* replace, and with an empty replacement or equal bounds delete_range and insert.
luaBufferReplace(buffer, start, end, replacement) ==
    LET text == spliceBufferText(buffer.text, start, end, replacement)
    IN  [text |-> text, cursor |-> clampRuneIndex(minInt(start, end) + Len(replacement), Len(text))]

\* set_text and append put the cursor at the end, set_cursor anywhere.
luaBufferSetText(buffer, text) == [buffer EXCEPT !.text = text, !.cursor = Len(text)]
luaBufferAppend(buffer, text) == luaBufferSetText(buffer, buffer.text \o text)
luaBufferSetCursor(buffer, cursor) == [buffer EXCEPT !.cursor = cursor]

Typing == {<<>>, <<2, 1>>}
Offsets == {-1, 1, 3}

\* An API call, or the same change as a field of the table a callback returns.
Edit(event) ==
    /\ extEvent # NoHostEvent /\ extEvent.edits < BufferEdits
    /\ extEvent' = [event EXCEPT !.edits = @ + 1]
    /\ UNCHANGED <<extState, extSeen, extEvents, lfTables, lfResult>>

editBuffer(name) ==
    /\ extEvent # NoHostEvent
    /\ LET buffer == bufferOf(extEvent, name)
       IN  \/ \E text \in Typing : Edit(setBuffer(extEvent, name, luaBufferSetText(buffer, text)))
           \/ Edit(setBuffer(extEvent, name, luaBufferAppend(buffer, <<1>>)))
           \/ \E cursor \in Offsets : Edit(setBuffer(extEvent, name, luaBufferSetCursor(buffer, cursor)))
           \/ \E start, end \in Offsets, text \in Typing :
                 Edit(setBuffer(extEvent, name, luaBufferReplace(buffer, start, end, text)))
           \/ Edit(deleteBuffer(extEvent, name))

editWindow(name) ==
    /\ extEvent # NoHostEvent
    /\ \/ \E window \in {1, 2} : Edit(setWindow(extEvent, name, window))
       \/ Edit(deleteWindow(extEvent, name))

editLayout ==
    /\ extEvent # NoHostEvent
    /\ \E windows \in {<<>>, [n \in {SidePane} |-> 3], [n \in {Status, SidePane} |-> 4]} :
           Edit(setLayout(extEvent, windows))

--------------------------------------------------------------------------------
(* What the terminal applies. *)

Changed(f, names) == [n \in DOMAIN f \cap names |-> f[n]]

\* Deletions first, then buffers; the composer is the terminal's own buffer.
applyExtensionBuffers(event) ==
    LET changed == Changed(event.buffers, event.changedBuffers)
    IN  /\ extBuffers' = Over([n \in DOMAIN extBuffers \ event.deletedBuffers |-> extBuffers[n]],
                              [n \in DOMAIN changed \ {Composer} |-> clamped(changed[n])])
        /\ extComposer' = IF Composer \in DOMAIN changed THEN clamped(changed[Composer])
                          ELSE IF Composer \in event.deletedBuffers THEN EmptyBuffer
                          ELSE extComposer

\* Mutation: the deletions come last.
deletesLast(event) ==
    LET kept(f) == [n \in DOMAIN f \ event.deletedWindows |-> f[n]]
        changed == Changed(event.windows, event.changedWindows)
    IN  IF event.layoutChanged
        THEN extLayout' = kept(event.layout) /\ extWindows' = kept(event.layout)
        ELSE /\ extWindows' = kept(Over(extWindows, changed))
             /\ extLayout' = IF extLayout = NoLayout THEN NoLayout ELSE kept(Over(extLayout, changed))

\* Deletions, then single windows, then a layout, which replaces both.
applyRuntimeWindows(event) ==
    LET kept(f) == [n \in DOMAIN f \ event.deletedWindows |-> f[n]]
        changed == Changed(event.windows, event.changedWindows)
    IN  IF event.layoutChanged
        THEN extLayout' = event.layout /\ extWindows' = event.layout
        ELSE /\ extWindows' = Over(kept(extWindows), changed)
             /\ extLayout' = IF extLayout = NoLayout THEN NoLayout ELSE Over(kept(extLayout), changed)

applyExtensionEventResult ==
    /\ extEvent # NoHostEvent
    /\ applyExtensionBuffers(extEvent) /\ applyRuntimeWindows(extEvent)
    /\ extSeen' = extEvent /\ extEvent' = NoHostEvent
    /\ UNCHANGED <<extEvents, lfTables, lfResult>>

\* A callback failed: the result is thrown away.
dropResult ==
    /\ extEvent # NoHostEvent /\ extEvent.edits > 0
    /\ extEvent' = NoHostEvent
    /\ UNCHANGED <<extState, extSeen, extEvents, lfTables, lfResult>>

--------------------------------------------------------------------------------
(* The result of a lifecycle event. *)

\* Empty arguments replace what was merged before; others are merged field by field.
mergeToolCallMutation(result, arguments) ==
    IF arguments = <<>> THEN arguments ELSE Over(result.arguments, arguments)

\* Mutation: a later handler takes a cancellation back.
mergesLast(result, table) == [result EXCEPT !.summary = IF table.summary # 0 THEN table.summary ELSE @,
                                            !.cancel = table.cancel]

\* The last summary stands, and a cancellation is never taken back.
mergeCompactionMutation(result, table) ==
    [result EXCEPT !.summary = IF table.summary # 0 THEN table.summary ELSE @, !.cancel = @ \/ table.cancel]

applyLifecycleLuaResult(result, table) ==
    LET merged == mergeCompactionMutation(result, table)
    IN  [merged EXCEPT !.stopped = table.stopped,
                       !.hasArgs = @ \/ table.hasArgs,
                       !.arguments = IF table.hasArgs THEN mergeToolCallMutation(result, table.arguments) ELSE @]

Tables ==
    [arguments : {<<>>, [n \in {"path"} |-> 1], [n \in {"path", "limit"} |-> 2]}, hasArgs : BOOLEAN,
     summary : {0, 1, 2}, cancel : BOOLEAN, stopped : BOOLEAN]

handlerReturns(table) ==
    /\ extEvents = 0 /\ extEvent = NoHostEvent
    /\ Len(lfTables) < HandlerLimit /\ ~lfResult.stopped
    /\ lfTables' = Append(lfTables, table) /\ lfResult' = applyLifecycleLuaResult(lfResult, table)
    /\ UNCHANGED <<extState, extEvent, extSeen, extEvents>>

ExtensionNext ==
    \/ newLuaHostEvent /\ lfTables = <<>>
    \/ \E name \in {Composer, Notes} : editBuffer(name)
    \/ \E name \in {Status, SidePane} : editWindow(name)
    \/ editLayout \/ applyExtensionEventResult \/ dropResult
    \/ \E table \in Tables : handlerReturns(table)

--------------------------------------------------------------------------------
(* Properties. *)

\* The next event shows every buffer as the callbacks of the last one left it,
\* the cursor inside the text; a deleted composer is empty, any other deleted
\* buffer is gone (setBuffer, deleteBuffer and applyExtensionEventResult).
BuffersAsSeen ==
    extSeen # NoHostEvent =>
        LET left == [n \in DOMAIN extSeen.buffers |-> clamped(extSeen.buffers[n])]
        IN  extensionBuffers(extBuffers, extComposer) = Over([n \in {Composer} |-> EmptyBuffer], left)

\* The next event shows every window as the callbacks left it, in whatever
\* order they set single windows, deleted them and set a layout; the terminal's
\* own windows come back (setWindow, setLayout, applyExtensionEventResult).
WindowsAsSeen ==
    extSeen # NoHostEvent =>
        cloneRuntimeWindows(extWindows, extLayout) = Over([n \in {Status} |-> 0], extSeen.windows)

\* A lifecycle result holds the last summary, every field of an argument as the
\* last handler that gave it left it since the arguments were last emptied, and
\* a cancellation by any handler (the merges of applyLifecycleMutationResult).
LifecycleMerged ==
    LET given == {i \in DOMAIN lfTables : lfTables[i].hasArgs}
        emptied == {i \in given : lfTables[i].arguments = <<>>}
        after == {i \in given : \A j \in emptied : j <= i}
        fields == UNION {DOMAIN lfTables[i].arguments : i \in after}
        lastOf(set) == CHOOSE i \in set : \A j \in set : j <= i
        told == {i \in DOMAIN lfTables : lfTables[i].summary # 0}
    IN  /\ lfResult.arguments = [f \in fields |->
               lfTables[lastOf({i \in after : f \in DOMAIN lfTables[i].arguments})].arguments[f]]
        /\ lfResult.summary = IF told = {} THEN 0 ELSE lfTables[lastOf(told)].summary
        /\ lfResult.cancel = \E i \in DOMAIN lfTables : lfTables[i].cancel

\* Callbacks of extensions run on time, by priority and under their host's lock until they
\* are stopped, and what they change of buffers, windows and compactions is what they saw.
ExtensionsSound ==
    /\ IntervalsKept /\ StoppedStaysStopped /\ OnlyItsCallbacksWrite /\ RunsByPriority
    /\ BuffersAsSeen /\ WindowsAsSeen /\ LifecycleMerged
================================================================================
