---------------------------- MODULE TerminalRefresh ----------------------------
(***************************************************************************)
(* How the terminal follows background work (internal/terminal, refresh.go,  *)
(* terminal_refresh_data.go, workflow_submission.go, agent_tasks.go).        *)
(*                                                                           *)
(* One refresh at a time reads the agent tasks and workflow runs of the shown *)
(* session, section by section, in a goroutine that works on a captured       *)
(* request.  Its snapshot comes back as an event and is applied by the event  *)
(* loop if neither the session nor the generation moved on; a section that    *)
(* failed keeps what is shown.  A task that was followed and has ended is     *)
(* told to the conversation once.  All work belongs to the session Home.      *)
(***************************************************************************)
EXTENDS Integers, FiniteSets

CONSTANTS
    BgTasks,     \* agent tasks, numbered as they are created
    BgRuns,      \* workflow runs
    InlineLimit, \* the newest tasks a list returns
    RetryLimit,  \* refreshes that may fail to resolve a submitted run
    MaxRefresh,  \* refreshes started
    MaxVisits    \* times the shown session changes

ASSUME RetryAssumption == RetryLimit \in Nat

VARIABLES
    rf, rfWorkers, bgRow, bgKids,
    told, \* how often a task or run was told since the session is shown
    met,  \* what the terminal followed since then
    late  \* the runs submitted while a refresh was in flight, or about to be given up
rfVars == <<rf, rfWorkers, bgRow, bgKids, told, met, late>>

Home == "home"
BgWork == BgTasks \cup BgRuns
NoRow == "none"
NoRows == [id \in {} |-> NoRow]
Section(valid, rows) == [valid |-> valid, rows |-> rows]
NoSnapshot == [agents |-> Section(FALSE, NoRows), byId |-> Section(FALSE, NoRows), runs |-> Section(FALSE, NoRows),
               runById |-> Section(FALSE, NoRows), kids |-> Section(FALSE, NoRows)]
Terminal(state) == state \in {"ended", "canceled"}

RefreshInit ==
    /\ rf = [session |-> Home, inspecting |-> FALSE, inFlight |-> FALSE, generation |-> 0, inFlightGeneration |-> 0,
             pending |-> FALSE, tracked |-> {}, runs |-> NoRows, submitted |-> [id \in {} |-> 0], delivered |-> {},
             visits |-> 0]
    /\ rfWorkers = {}
    /\ bgRow = [id \in BgWork |-> NoRow] /\ bgKids = [id \in BgRuns |-> FALSE]
    /\ told = [id \in BgWork |-> 0] /\ met = {} /\ late = {}

(***************************************************************************)
(* The refresh and its slot                                                 *)
(***************************************************************************)
captureTerminalRefreshRequest(s, generation) ==
    [generation |-> generation, session |-> s.session, at |-> "agents", tracked |-> s.tracked,
     runIds |-> DOMAIN s.runs \cup DOMAIN s.submitted, snapshot |-> NoSnapshot]

\* A refresh asked for while one is in flight follows it.
requestTerminalRefresh(s, workers) ==
    IF s.inspecting THEN <<s, workers>>
    ELSE IF s.inFlight THEN <<[s EXCEPT !.pending = TRUE], workers>>
    ELSE LET g == s.generation + 1
         IN <<[s EXCEPT !.generation = g, !.inFlight = TRUE, !.inFlightGeneration = g],
              workers \cup {captureTerminalRefreshRequest(s, g)}>>

\* Mutation: the slot is given away while the canceled worker still runs.
releasesSlot(s) == [s EXCEPT !.generation = @ + 1, !.pending = FALSE, !.inFlight = FALSE]

\* The canceled worker keeps the slot until its result arrives.
invalidateTerminalRefresh(s) == [s EXCEPT !.generation = @ + 1, !.pending = FALSE]

resetAgentTaskTracking(s) ==
    [invalidateTerminalRefresh(s) EXCEPT !.tracked = {}, !.runs = NoRows, !.submitted = [id \in {} |-> 0],
                                         !.delivered = {}]

(***************************************************************************)
(* The worker: every read sees the rows of its moment and may fail           *)
(***************************************************************************)
Advance(w, at, snapshot) ==
    /\ rfWorkers' = (rfWorkers \ {w}) \cup {[w EXCEPT !.at = at, !.snapshot = snapshot]}
    /\ UNCHANGED <<rf, bgRow, bgKids, told, met, late>>

Of(w, ids) == [id \in {x \in ids : w.session = Home /\ bgRow[x] \notin {NoRow, "gone"}} |-> bgRow[id]]
NewestOf(ids) == {id \in ids : Cardinality({x \in ids : x > id}) < InlineLimit}
Created(ids) == {id \in ids : bgRow[id] \notin {NoRow, "gone"}}

setAgentListSections(w) ==
    /\ w.at = "agents"
    /\ \E ok \in BOOLEAN :
           Advance(w, "lookups", [w.snapshot EXCEPT !.agents =
                                      IF ok THEN Section(TRUE, Of(w, NewestOf(Created(BgTasks)))) ELSE Section(FALSE, NoRows)])

\* What was read before a lookup failed stays in the section, which is then invalid.
lookUp(w, ids) ==
    {Section(TRUE, [id \in ids |-> bgRow[id]])} \cup {Section(FALSE, [id \in got |-> bgRow[id]]) : got \in SUBSET ids}

loadTrackedAgentTasks(w) ==
    /\ w.at = "lookups"
    /\ \E found \in lookUp(w, w.tracked \ DOMAIN w.snapshot.agents.rows) :
           Advance(w, "runs", [w.snapshot EXCEPT !.byId = found])

ActiveRuns == {id \in Created(BgRuns) : ~Terminal(bgRow[id]) \/ bgKids[id]}

loadWorkflowRefreshSections(w) ==
    /\ w.at = "runs"
    /\ \E ok \in BOOLEAN :
           Advance(w, "run_lookups", [w.snapshot EXCEPT !.runs = IF ok THEN Section(TRUE, Of(w, ActiveRuns))
                                                                 ELSE Section(FALSE, NoRows)])

loadTrackedWorkflows(w) ==
    /\ w.at = "run_lookups"
    /\ \E found \in lookUp(w, w.runIds \ DOMAIN w.snapshot.runs.rows) :
           Advance(w, "details", [w.snapshot EXCEPT !.runById = found])

loadWorkflowDetails(w) ==
    /\ w.at = "details"
    /\ \E ok \in BOOLEAN :
           Advance(w, "posted", [w.snapshot EXCEPT !.kids =
                                     Section(ok, [id \in w.runIds \cup DOMAIN w.snapshot.runs.rows |-> bgKids[id]])])

(***************************************************************************)
(* Applying a snapshot                                                      *)
(***************************************************************************)
\* The completion is marked before it is told; it is told to the session it belongs to.
finishAgentTaskCompletion(s, id) == [s EXCEPT !.delivered = @ \cup {id}, !.tracked = @ \ {id}]

\* Mutation: a run that was already told is told again.
tellsAgain(s, rows) == {id \in DOMAIN rows : rows[id] = "ended"}

\* A run that was canceled says nothing.
deliverWorkflowCompletion(s, rows) == {id \in DOMAIN rows : rows[id] = "ended" /\ id \notin s.delivered}

\* What becomes of a followed task: it is kept, has completed or is gone.
reconcileLoadedAgentTask(snap, id) ==
    LET fate(state) == IF state = "active" THEN "keep" ELSE IF state \in {NoRow, "gone"} THEN "drop" ELSE "complete"
    IN IF id \in DOMAIN snap.agents.rows THEN fate(snap.agents.rows[id])
       ELSE IF ~snap.byId.valid \/ id \notin DOMAIN snap.byId.rows THEN "keep"
       ELSE fate(snap.byId.rows[id])

\* The followed tasks, and the ones that have completed.
applyLoadedAgentTasks(s, snap) ==
    IF ~snap.agents.valid THEN <<s, {}>>
    ELSE LET fates(f) == {id \in s.tracked : reconcileLoadedAgentTask(snap, id) = f}
             active == {id \in DOMAIN snap.agents.rows : snap.agents.rows[id] = "active"}
             completed == fates("complete") \ s.delivered
         IN <<[s EXCEPT !.tracked = fates("keep") \cup active, !.delivered = @ \cup completed], completed>>

\* The row a followed run now has: the listed one, the one looked up, or the last one known.
reconcileLoadedWorkflow(s, snap, id) ==
    IF id \in DOMAIN snap.runs.rows THEN snap.runs.rows[id]
    ELSE IF ~snap.runById.valid \/ id \notin DOMAIN snap.runById.rows THEN s.runs[id]
    ELSE snap.runById.rows[id]

visibleWorkflows(rows, kids) ==
    [id \in {x \in DOMAIN rows : ~Terminal(rows[x]) \/ (x \in DOMAIN kids.rows /\ kids.rows[x])} |-> rows[id]]

applyLoadedWorkflows(s, snap) ==
    IF ~snap.runs.valid THEN <<s, {}>>
    ELSE LET known == {id \in DOMAIN s.runs : reconcileLoadedWorkflow(s, snap, id) # "gone"}
             followed == [id \in known |-> reconcileLoadedWorkflow(s, snap, id)]
             rows == [id \in known \cup DOMAIN snap.runs.rows |->
                         IF id \in known THEN followed[id] ELSE snap.runs.rows[id]]
             ended == deliverWorkflowCompletion(s, followed)
         IN <<[s EXCEPT !.runs = IF snap.kids.valid THEN visibleWorkflows(rows, snap.kids) ELSE rows,
                        !.delivered = @ \cup ended], ended>>

\* Mutation: a lookup that failed counts as a run that does not exist.
forgetsUnresolved(s, snap, id) ==
    IF id \in DOMAIN snap.runById.rows THEN snap.runById.rows[id]
    ELSE IF id \in DOMAIN snap.runs.rows THEN snap.runs.rows[id] ELSE "gone"

\* What is known of a submitted run: read before another lookup failed, unresolved, listed, or gone.
reconcilePendingWorkflowRun(s, snap, id) ==
    IF id \in DOMAIN snap.runById.rows THEN snap.runById.rows[id]
    ELSE IF ~snap.runById.valid THEN "unresolved"
    ELSE IF id \in DOMAIN snap.runs.rows THEN snap.runs.rows[id] ELSE "gone"

retainPendingWorkflowRuns(s, ids) ==
    [id \in {x \in ids : x \notin DOMAIN s.runs /\ s.submitted[x] + 1 < RetryLimit} |-> s.submitted[id] + 1]

reconcilePendingWorkflows(s, snap) ==
    LET row(id) == reconcilePendingWorkflowRun(s, snap, id)
        found == {id \in DOMAIN s.submitted : row(id) \notin {"unresolved", "gone"} /\ s.session = Home}
        joined == {id \in found : ~Terminal(row(id))}
        ended == deliverWorkflowCompletion(s, [id \in found |-> row(id)])
        runs == [id \in DOMAIN s.runs \cup joined |-> IF id \in DOMAIN s.runs THEN s.runs[id] ELSE row(id)]
        t == [s EXCEPT !.runs = runs, !.delivered = @ \cup ended]
    IN <<[t EXCEPT !.submitted = retainPendingWorkflowRuns(t, {id \in DOMAIN s.submitted : row(id) = "unresolved"})],
         ended>>

applyTerminalRefreshSnapshot(s, snap) ==
    LET a == applyLoadedAgentTasks(s, snap)
        b == applyLoadedWorkflows(a[1], snap)
        c == reconcilePendingWorkflows(b[1], snap)
    IN <<c[1], a[2] \cup b[2] \cup c[2]>>

Tell(ids) == told' = [id \in BgWork |-> told[id] + IF id \in ids THEN 1 ELSE 0]
Meets(s) == met' = met \cup s.tracked \cup DOMAIN s.runs \cup DOMAIN s.submitted

\* Mutation: whatever comes back is shown.
appliesAny(s, w) == applyTerminalRefreshSnapshot(s, w.snapshot)

\* A snapshot of another session, or from before an invalidation, only releases the slot.
Snapshot(s, w) ==
    IF w.generation # s.generation \/ w.session # s.session THEN <<s, {}>>
    ELSE applyTerminalRefreshSnapshot(s, w.snapshot)

applyTerminalRefresh(w) ==
    /\ w.at = "posted" /\ UNCHANGED <<bgRow, bgKids>>
    /\ late' = late \cup {id \in DOMAIN rf.submitted : rf.submitted[id] + 1 >= RetryLimit}
    /\ IF ~rf.inFlight \/ w.generation # rf.inFlightGeneration
       THEN rfWorkers' = rfWorkers \ {w} /\ UNCHANGED <<rf, told, met>>
       ELSE LET free == [rf EXCEPT !.inFlight = FALSE, !.inFlightGeneration = 0, !.pending = FALSE]
                applied == Snapshot(free, w)
                next == IF rf.pending THEN requestTerminalRefresh(applied[1], rfWorkers \ {w})
                        ELSE <<applied[1], rfWorkers \ {w}>>
            IN rf' = next[1] /\ rfWorkers' = next[2] /\ Tell(applied[2]) /\ Meets(applied[1])

(***************************************************************************)
(* What the terminal is told to do                                          *)
(***************************************************************************)
KeepRows == UNCHANGED <<bgRow, bgKids>>
Asks(s) == LET r == requestTerminalRefresh(s, rfWorkers) IN rf' = r[1] /\ rfWorkers' = r[2]

workTick == Asks(rf) /\ KeepRows /\ UNCHANGED <<told, met, late>>

\* An accepted execution names its run; the tool's result also asks for a refresh.
trackSubmittedWorkflow(id) ==
    /\ rf.session # "other" /\ bgRow[id] = NoRow /\ bgRow' = [bgRow EXCEPT ![id] = "active"] /\ UNCHANGED bgKids
    /\ LET s == [rf EXCEPT !.submitted = [x \in DOMAIN @ \cup {id} |-> IF x = id THEN 0 ELSE @[x]]]
       IN Asks(s) /\ Meets(s) /\ UNCHANGED told
    /\ late' = IF rf.inFlight THEN late \cup {id} ELSE late

\* A watched task ended: while a session is inspected its result may be told at once.
handleAgentTaskTerminalEvent(id) ==
    /\ id \in rf.tracked /\ bgRow[id] = "ended" /\ KeepRows /\ UNCHANGED <<met, late>>
    /\ IF ~rf.inspecting THEN Asks(rf) /\ UNCHANGED told
       ELSE \E promptRuns \in BOOLEAN :
                /\ rf' = IF promptRuns THEN finishAgentTaskCompletion(rf, id) ELSE rf
                /\ Tell(IF promptRuns THEN {id} \ rf.delivered ELSE {}) /\ UNCHANGED rfWorkers

startInspection ==
    /\ rf.session = Home /\ rf.visits < MaxVisits /\ KeepRows /\ UNCHANGED <<rfWorkers, told, met, late>>
    /\ rf' = [invalidateTerminalRefresh(rf) EXCEPT !.session = "child", !.inspecting = TRUE, !.visits = @ + 1]

endInspection ==
    /\ rf.inspecting /\ KeepRows /\ UNCHANGED <<told, met, late>>
    /\ Asks([invalidateTerminalRefresh(rf) EXCEPT !.session = Home, !.inspecting = FALSE])

\* Another session is opened, or the first one again: what was told is no longer remembered.
resumeSession ==
    /\ rf.visits < MaxVisits /\ KeepRows /\ UNCHANGED rfWorkers
    /\ \E s \in {Home, "other"} \ {rf.session} :
           rf' = [resetAgentTaskTracking(rf) EXCEPT !.session = s, !.inspecting = FALSE, !.visits = @ + 1]
    /\ told' = [id \in BgWork |-> 0] /\ met' = {} /\ late' = {}

(***************************************************************************)
(* The work itself                                                          *)
(***************************************************************************)
KeepTerminal == UNCHANGED <<rf, rfWorkers, told, met, late>>

taskCreated(id) == bgRow[id] = NoRow /\ (\A x \in BgTasks : x < id => bgRow[x] # NoRow)
                   /\ bgRow' = [bgRow EXCEPT ![id] = "active"] /\ UNCHANGED bgKids /\ KeepTerminal
workEnds(id) ==
    /\ bgRow[id] = "active" /\ UNCHANGED bgKids /\ KeepTerminal
    /\ \E end \in IF id \in BgRuns THEN {"ended", "canceled"} ELSE {"ended"} : bgRow' = [bgRow EXCEPT ![id] = end]
childChanges(id) ==
    /\ bgRow[id] = "active" \/ bgKids[id]
    /\ bgKids' = [bgKids EXCEPT ![id] = ~@] /\ UNCHANGED bgRow /\ KeepTerminal
sessionDeleted ==
    /\ rf.session # Home /\ \E id \in BgWork : bgRow[id] = "active"
    /\ bgRow' = [id \in BgWork |-> IF bgRow[id] = NoRow THEN NoRow ELSE "gone"] /\ UNCHANGED bgKids /\ KeepTerminal

RefreshNext ==
    /\ \/ \E w \in rfWorkers : setAgentListSections(w) \/ loadTrackedAgentTasks(w) \/ loadWorkflowRefreshSections(w)
                               \/ loadTrackedWorkflows(w) \/ loadWorkflowDetails(w) \/ applyTerminalRefresh(w)
       \/ workTick \/ startInspection \/ endInspection \/ resumeSession \/ sessionDeleted
       \/ \E id \in BgTasks : taskCreated(id) \/ handleAgentTaskTerminalEvent(id)
       \/ \E id \in BgRuns : trackSubmittedWorkflow(id) \/ childChanges(id)
       \/ \E id \in BgWork : workEnds(id)
    /\ rf'.generation <= MaxRefresh

(***************************************************************************)
(* Properties                                                               *)
(***************************************************************************)
\* A refresh is in flight exactly while its worker runs or its result waits, and no second
\* one runs beside it: switching sessions under a refresh neither wedges refreshing nor
\* lets two of them race.
RefreshSlot ==
    /\ rf.inFlight <=> rfWorkers # {}
    /\ rf.inFlight => {w.generation : w \in rfWorkers} = {rf.inFlightGeneration} /\ Cardinality(rfWorkers) = 1

\* What the terminal follows belongs to the session it shows: a snapshot that was read for
\* another session is never taken for this one.
FollowsItsSession == rf.session = "other" => rf.tracked = {} /\ rf.runs = NoRows

\* While a session is shown, a task or run is told to it at most once.
ToldOnce == \A id \in BgWork : told[id] <= 1

Surfaces(id) ==
    \/ id \in rf.tracked \cup DOMAIN rf.runs \cup DOMAIN rf.submitted
    \/ told[id] > 0 \/ bgRow[id] \in {"canceled", "gone"}

\* A task or a run the terminal once followed is still followed, has been told, was canceled
\* or is gone; a submitted run may be given up after as many refreshes as could not resolve it,
\* or when it was submitted while an older refresh was in flight.
NothingForgotten == \A id \in met \ late : Surfaces(id)

\* "A workflow that finishes before that refresh still surfaces as a completion instead of
\* vanishing from the submission list", workflow_submission.go:19-20.
\* It does not hold: README.md, section 7.
SubmittedSurfaces ==
    \A id \in met \cap BgRuns : bgRow[id] = "ended" /\ rf.generation < RetryLimit /\ ~rf.inFlight => Surfaces(id)

\* The terminal follows its background work to the end: refreshes hand over their slot, apply
\* only to the session they were asked for, and every end is told once and never forgotten.
FollowedWork ==
    /\ RefreshSlot /\ FollowsItsSession /\ ToldOnce
    /\ NothingForgotten
================================================================================
