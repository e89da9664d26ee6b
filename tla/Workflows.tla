------------------------------- MODULE Workflows -------------------------------
(***************************************************************************)
(* Durable workflow runs (internal/workflow, internal/database/               *)
(* workflow_repository.go).  A run is a row of the tasks table whose script     *)
(* launches agent tasks; the rows are linked to the run, and admission_closed_at  *)
(* fences off further children.  The dispatcher keeps a bounded queue of run      *)
(* ids that a poll refills; a host executes one run under a lease and, when its    *)
(* script ends, cancels and awaits the children that are left.                    *)
(*                                                                           *)
(* Resume is not an action: it claims interrupted runs, and no step of the        *)
(* program leaves a run interrupted (see RecoveryEndsRuns).                       *)
(***************************************************************************)
EXTENDS AgentTasks

CONSTANTS Runs,           \* workflow runs, a part of Tasks
          Launches,       \* the agent calls in the script of each run
          Hosts,          \* workers of the dispatcher, a part of Cancelers
          RunQueueSize    \* capacity of the dispatcher's queue

ASSUME WorkflowAssumption ==
    /\ Runs \subseteq Tasks /\ Runs \cap Agents = {} /\ Launches \in [Runs -> SUBSET Agents]
    /\ Hosts \subseteq Cancelers /\ RunQueueSize \in Nat \ {0}

VARIABLES
    wfPhase,    \* "down", "recovering", "up", "closed"
    wfTodo,     \* RecoverInterrupted: what it has still to do with each run
    wfClosed,   \* runs whose admission_closed_at is set
    wfLinks,    \* workflow_agent_tasks: the children of each run
    wfCreated,  \* the runs in the order of created_at
    wfQueue,    \* the dispatcher's queue channel
    wfHost,     \* the dispatcher's workers
    wfSignal,   \* runs Cancel has still to look up in the active map
    wfStuck,    \* runs whose FinishOwned found an active child
    wfGaveUp,   \* runs whose host saw a call about a child fail or time out
    wfPassed    \* runs RecoverInterrupted has been through without active children

wfMemory == <<wfPhase, wfTodo, wfQueue, wfHost, wfSignal>>
wfRows == <<wfClosed, wfLinks, wfCreated>>
wfHistory == <<wfStuck, wfGaveUp, wfPassed>>
wfVars == <<wfMemory, wfRows, wfHistory>>

IdleHost == [pc |-> "idle", run |-> NoTask, child |-> NoTask, launched |-> {}, settled |-> {}, left |-> {},
             passes |-> 0, stop |-> FALSE, err |-> "none"]

\* Pcs of a host whose cancel function is in the active map.
Tracked == {"script", "submitting", "waiting", "closing", "settling"}

WorkflowInit ==
    /\ wfPhase = "down" /\ wfTodo = [r \in Runs |-> "none"]
    /\ wfClosed = {} /\ wfLinks = [r \in Runs |-> {}] /\ wfCreated = <<>>
    /\ wfQueue = <<>> /\ wfHost = [h \in Hosts |-> IdleHost]
    /\ wfSignal = {} /\ wfStuck = {} /\ wfGaveUp = {} /\ wfPassed = {}

OpenStates == {"queued", "running", "canceling"}
ActiveChildren(r) == {c \in wfLinks[r] : StateOf(c) \in OpenStates}

--------------------------------------------------------------------------------
(* Transactions of the workflow repository. *)

\* Mutation: the fence only looks at the state of the run.
fenceByState(r) == StateOf(r) \in {"queued", "running"}

\* createAgentTask: the run must be open and queued or running.
fenceWorkflowAdmission(r) == r \notin wfClosed /\ StateOf(r) \in {"queued", "running"}

\* What CancelOwned makes of a linked child.
cancelWorkflowChild(row) ==
    CASE row.state = "queued" -> [row EXCEPT !.state = "canceled"]
      [] row.state = "running" -> [row EXCEPT !.state = "canceling"]
      [] OTHER -> row

\* The run itself is canceling while a child was just told to stop, and canceled
\* otherwise; a canceled run must not have a lease, or its row stays.
cancelWorkflowRun(r) ==
    LET told == {c \in wfLinks[r] : StateOf(c) = "running"} IN
    IF StateOf(r) \notin {"queued", "running"} THEN tasks[r]
    ELSE IF told # {} THEN [tasks[r] EXCEPT !.state = "canceling"]
    ELSE IF tasks[r].owner = NoOwner THEN [tasks[r] EXCEPT !.state = "canceled"]
    ELSE tasks[r]

CancelOwned(r) ==
    /\ wfClosed' = wfClosed \cup {r}
    /\ tasks' = [t \in Tasks |-> CASE t = r -> cancelWorkflowRun(r)
                                   [] t \in wfLinks[r] -> cancelWorkflowChild(tasks[t])
                                   [] OTHER -> tasks[t]]

\* Mutation: the run is finished whatever its children do.
finishesAnyway(r, target, o) ==
    /\ wfClosed' = wfClosed \cup {r}
    /\ IF Finishable(r, ActiveStates, o) THEN Finish(r, ActiveStates, target, o) ELSE UNCHANGED tasks

\* Admission closes in any case; the outcome waits for the last child.
FinishOwned(r, target, o) ==
    /\ wfClosed' = wfClosed \cup {r}
    /\ IF ActiveChildren(r) = {} /\ Finishable(r, ActiveStates, o)
       THEN Finish(r, ActiveStates, target, o) ELSE UNCHANGED tasks

--------------------------------------------------------------------------------
(* The process and the dispatcher. *)

\* RecoverInterrupted lists the runs whose lease is absent or over.
ListInterrupted ==
    /\ agPhase = "up" /\ wfPhase = "down"
    /\ wfPhase' = "recovering"
    /\ wfTodo' = [r \in Runs |-> IF Expired(r) THEN "cancel" ELSE "none"]
    /\ UNCHANGED <<agVars, tasks, wfRows, wfHistory, wfQueue, wfHost, wfSignal>>

RecoverInterrupted(r) ==
    /\ wfPhase = "recovering"
    /\ \/ /\ wfTodo[r] = "cancel" /\ CancelOwned(r)
          /\ wfTodo' = [wfTodo EXCEPT ![r] = "finish"]
          /\ UNCHANGED wfPassed
       \/ /\ wfTodo[r] = "finish" /\ FinishOwned(r, "interrupted", NoOwner)
          /\ wfTodo' = [wfTodo EXCEPT ![r] = "none"]
          /\ wfPassed' = IF ActiveChildren(r) = {} THEN wfPassed \cup {r} ELSE wfPassed
    /\ UNCHANGED <<agVars, wfPhase, wfLinks, wfCreated, wfQueue, wfHost, wfSignal, wfStuck, wfGaveUp>>

StartDispatcher ==
    /\ wfPhase = "recovering" /\ \A r \in Runs : wfTodo[r] = "none"
    /\ wfPhase' = "up"
    /\ UNCHANGED <<agVars, tasks, wfTodo, wfRows, wfHistory, wfQueue, wfHost, wfSignal>>

\* A run id that does not fit is dropped: the poll finds its row again.
enqueue(queue, r) == IF Len(queue) < RunQueueSize THEN Append(queue, r) ELSE queue

\* Submit persists a verified run and offers it to the queue.
SubmitRun(r) ==
    /\ wfPhase = "up" /\ Create(r)
    /\ wfQueue' = enqueue(wfQueue, r) /\ wfCreated' = Append(wfCreated, r)
    /\ UNCHANGED <<agVars, wfPhase, wfTodo, wfClosed, wfLinks, wfHistory, wfHost, wfSignal>>

\* Mutation: the ticker of poll is never read.
pollsNothing == FALSE /\ UNCHANGED <<agVars, tasks, wfVars>>

\* A poll lists the queued runs in the order of created_at and offers each; those that
\* find the queue full are dropped, so the oldest ones fill the room there is.
enqueueQueued ==
    LET queued == {i \in DOMAIN wfCreated : StateOf(wfCreated[i]) = "queued"}
        age(i) == Cardinality({j \in queued : j <= i})
        room == RunQueueSize - Len(wfQueue)
    IN
    /\ wfPhase = "up"
    /\ \E n \in 1..room : \E page \in [1..n -> Runs] :
         /\ n = IF Cardinality(queued) < room THEN Cardinality(queued) ELSE room
         /\ \A i \in queued : age(i) <= n => page[age(i)] = wfCreated[i]
         /\ wfQueue' = wfQueue \o page
    /\ UNCHANGED <<agVars, tasks, wfPhase, wfTodo, wfRows, wfHistory, wfHost, wfSignal>>

ShutdownDispatcher ==
    /\ wfPhase = "up" /\ wfPhase' = "closed"
    /\ UNCHANGED <<agVars, tasks, wfTodo, wfRows, wfHistory, wfQueue, wfHost, wfSignal>>

\* What both services kept in memory is gone.
LoseRuns ==
    /\ wfPhase' = "down" /\ wfTodo' = [r \in Runs |-> "none"] /\ wfQueue' = <<>>
    /\ wfHost' = [h \in Hosts |-> IdleHost] /\ wfSignal' = {}
    /\ UNCHANGED <<wfRows, wfHistory>>

ProcessCrash == Crash /\ LoseRuns

\* The dispatcher is shut down before the agent service it depends on.
ProcessStops == wfPhase \in {"down", "closed"} /\ (\A h \in Hosts : wfHost[h].pc = "idle") /\ Shutdown /\ UNCHANGED wfVars
ProcessExits == Exit /\ LoseRuns

--------------------------------------------------------------------------------
(* A host executes one run. *)

HostAt(h, pc) == wfPhase \in {"up", "closed"} /\ wfHost[h].pc = pc
Set(h, rec) == wfHost' = [wfHost EXCEPT ![h] = rec]
RunAt(h) == wfHost[h].run
HostDone(h) == wfHost[h].stop \/ wfPhase = "closed"
HostKeeps == UNCHANGED <<wfPhase, wfTodo, wfRows, wfStuck, wfPassed, wfQueue, wfSignal>>
HostOnly == HostKeeps /\ UNCHANGED wfGaveUp
GivesUp(h) == wfGaveUp' = wfGaveUp \cup {RunAt(h)}

\* ExecuteQueued: a run that another worker or a duplicate id already claimed is skipped.
ExecuteQueued(h) ==
    /\ wfPhase = "up" /\ HostAt(h, "idle") /\ wfQueue # <<>>
    /\ wfQueue' = Tail(wfQueue)
    /\ IF StateOf(Head(wfQueue)) = "queued"
       THEN ClaimQueued(Head(wfQueue), agOwner) /\ Set(h, [IdleHost EXCEPT !.pc = "claimed", !.run = Head(wfQueue)])
       ELSE UNCHANGED <<tasks, wfHost>>
    /\ UNCHANGED <<agVars, wfPhase, wfTodo, wfRows, wfHistory, wfSignal>>

\* The cancel function enters the active map and the script starts.
track(h) ==
    /\ HostAt(h, "claimed") /\ Set(h, [wfHost[h] EXCEPT !.pc = "script"])
    /\ HostOnly /\ UNCHANGED <<agVars, tasks>>

\* The script calls agent(): the child and its link are one transaction, then the
\* row is offered to the agent queue.
agent(h, c) ==
    /\ HostAt(h, "script") /\ ~HostDone(h) /\ c \in Launches[RunAt(h)] /\ StateOf(c) = "absent"
    /\ fenceWorkflowAdmission(RunAt(h))
    /\ Submit(c)
    /\ wfLinks' = [wfLinks EXCEPT ![RunAt(h)] = @ \cup {c}]
    /\ Set(h, [wfHost[h] EXCEPT !.pc = "submitting", !.child = c])
    /\ UNCHANGED <<wfPhase, wfTodo, wfClosed, wfCreated, wfHistory, wfQueue, wfSignal>>

\* A rejected submission is an error of the script's call and no launched task: the host
\* never looks at a child again whose rejection failed.
agentReturns(h) ==
    LET c == wfHost[h].child IN
    /\ HostAt(h, "submitting") /\ c \notin agPending
    /\ Set(h, [wfHost[h] EXCEPT !.pc = "script", !.child = NoTask,
                                !.launched = IF c \in agRejected THEN @ ELSE @ \cup {c}])
    /\ IF c \in agRejected \cap stranded THEN GivesUp(h) ELSE UNCHANGED wfGaveUp
    /\ HostKeeps /\ UNCHANGED <<agVars, tasks>>

\* wait(): a terminal child is settled; a failed call, a refused event or a canceled
\* context is an error of the script's call.
wait(h) ==
    /\ HostAt(h, "script")
    /\ \E c \in wfHost[h].launched \ wfHost[h].settled :
         Set(h, [wfHost[h] EXCEPT !.pc = "waiting", !.child = c])
    /\ HostOnly /\ UNCHANGED <<agVars, tasks>>

waitReturns(h) ==
    LET c == wfHost[h].child IN
    /\ HostAt(h, "waiting")
    /\ \/ StateOf(c) \in TerminalStates /\ Set(h, [wfHost[h] EXCEPT !.pc = "script", !.settled = @ \cup {c}])
       \/ Set(h, [wfHost[h] EXCEPT !.pc = "script"])
    /\ HostOnly /\ UNCHANGED <<agVars, tasks>>

\* The evaluation ends: passes is 2 after an error, and 1 after a good end.
scriptEnds(h) ==
    /\ HostAt(h, "script")
    /\ \E err \in IF HostDone(h) THEN {"canceled"} ELSE {"none", "failed"} :
         Set(h, [wfHost[h] EXCEPT !.pc = "closing", !.left = wfHost[h].launched,
                                  !.err = err, !.passes = IF err = "none" THEN 1 ELSE 2])
    /\ HostOnly /\ UNCHANGED <<agVars, tasks>>

\* Mutation: a script that ended well leaves its children alone.
closesOnError(h) == IF wfHost[h].err = "none" THEN {} ELSE wfHost[h].left

closable(h) == wfHost[h].left

\* The child is put aside; an error about it fails the run.
PutsAside(h, c) ==
    Set(h, [wfHost[h] EXCEPT !.pc = "closing", !.left = @ \ {c}]) /\ UNCHANGED wfGaveUp
PutsAsideFailed(h, c) ==
    Set(h, [wfHost[h] EXCEPT !.pc = "closing", !.left = @ \ {c}, !.err = "failed"]) /\ GivesUp(h)

\* cancelActive of the host looks at one launched child after the other.  Its Get or its
\* Cancel may fail, in the store or because cancelTimeout of the pass is over.
cancelLaunched(h) ==
    /\ HostAt(h, "closing")
    /\ \E c \in closable(h) :
         \/ /\ c \in wfHost[h].settled \/ StateOf(c) \in TerminalStates
            /\ PutsAside(h, c) /\ UNCHANGED <<agVars, tasks>>
         \/ /\ c \notin wfHost[h].settled /\ StateOf(c) \notin TerminalStates
            /\ Cancel(h, c) /\ Set(h, [wfHost[h] EXCEPT !.pc = "settling", !.child = c])
            /\ UNCHANGED wfGaveUp
         \/ /\ c \notin wfHost[h].settled
            /\ PutsAsideFailed(h, c) /\ UNCHANGED <<agVars, tasks>>
    /\ HostKeeps

\* The canceled child is awaited; the wait fails or is over with cancelTimeout.
settleLaunched(h) ==
    LET c == wfHost[h].child IN
    /\ HostAt(h, "settling") /\ agCancel[h].pc = "idle"
    /\ \/ StateOf(c) \in TerminalStates /\ PutsAside(h, c)
       \/ PutsAsideFailed(h, c)
    /\ HostKeeps /\ UNCHANGED <<agVars, tasks>>

Repeats(h, passes, err) ==
    Set(h, [wfHost[h] EXCEPT !.passes = passes, !.left = wfHost[h].launched, !.err = err])

\* Mutation: the passes over the children are not counted.
passesForever(h) ==
    /\ HostAt(h, "closing") /\ wfHost[h].left = {}
    /\ IF wfHost[h].passes = 2 THEN Repeats(h, 2, wfHost[h].err)
       ELSE Set(h, [wfHost[h] EXCEPT !.pc = "finishing"])
    /\ HostOnly /\ UNCHANGED <<agVars, tasks>>

\* The end of a pass: the second one after an evaluation that failed, one more when the
\* snapshot of the results failed, or the end of Run, where the heartbeat stops.
closed(h) ==
    /\ HostAt(h, "closing") /\ closable(h) = {}
    /\ \/ wfHost[h].passes = 2 /\ Repeats(h, 0, wfHost[h].err)
       \/ wfHost[h].passes = 1 /\ Repeats(h, 0, "failed")
       \/ wfHost[h].passes < 2 /\ Set(h, [wfHost[h] EXCEPT !.pc = "finishing"])
    /\ HostOnly /\ UNCHANGED <<agVars, tasks>>

workflowOutcome(h) ==
    IF HostDone(h) \/ wfHost[h].err = "canceled" THEN "canceled"
    ELSE IF wfHost[h].err = "failed" THEN "failed"
    ELSE "succeeded"

\* An outcome that cannot be stored leaves the row as it is.
finishRun(h) ==
    LET r == RunAt(h) IN
    /\ HostAt(h, "finishing")
    /\ \/ /\ FinishOwned(r, workflowOutcome(h), agOwner) /\ NoFault
          /\ wfStuck' = IF ActiveChildren(r) # {} THEN wfStuck \cup {r} ELSE wfStuck
       \/ Fault /\ UNCHANGED <<tasks, wfClosed, wfStuck>>
    /\ Set(h, IdleHost)
    /\ UNCHANGED <<agState, wfPhase, wfTodo, wfLinks, wfCreated, wfQueue, wfSignal, wfGaveUp, wfPassed>>

\* The heartbeat: a lost lease or a canceling row cancels the run.
monitorLease(h) ==
    LET r == RunAt(h) IN
    /\ Alive /\ wfHost[h].pc \in Tracked /\ ~HostDone(h)
    /\ IF ownsRunningTask(r, agOwner) THEN RenewLease(r, agOwner) ELSE UNCHANGED tasks
    /\ IF ownsRunningTask(r, agOwner) /\ StateOf(r) # "canceling" THEN UNCHANGED wfHost
       ELSE Set(h, [wfHost[h] EXCEPT !.stop = TRUE,
                                     !.err = IF StateOf(r) = "canceling" THEN "canceled" ELSE "failed"])
    /\ HostOnly /\ UNCHANGED agVars

--------------------------------------------------------------------------------
\* Cancel of the service: the transaction, then the look into the active map.  Neither
\* finds anything to do for a run that has ended.
CancelRun(r) ==
    /\ wfPhase = "up" /\ StateOf(r) \in OpenStates /\ r \notin wfSignal
    /\ CancelOwned(r) /\ wfSignal' = wfSignal \cup {r}
    /\ UNCHANGED <<agVars, wfPhase, wfTodo, wfLinks, wfCreated, wfHistory, wfQueue, wfHost>>

signalRun(r) ==
    /\ Alive /\ r \in wfSignal /\ wfSignal' = wfSignal \ {r}
    /\ wfHost' = [h \in Hosts |-> IF RunAt(h) = r /\ wfHost[h].pc \in Tracked \cup {"finishing"}
                                  THEN [wfHost[h] EXCEPT !.stop = TRUE] ELSE wfHost[h]]
    /\ UNCHANGED <<agVars, tasks, wfPhase, wfTodo, wfRows, wfHistory, wfQueue>>

HostNext(h) ==
    \/ ExecuteQueued(h) \/ track(h) \/ agentReturns(h) \/ waitReturns(h) \/ scriptEnds(h)
    \/ cancelLaunched(h) \/ settleLaunched(h) \/ closed(h) \/ finishRun(h)

WorkflowNext ==
    \/ ListInterrupted \/ StartDispatcher \/ enqueueQueued
    \/ \E r \in Runs : RecoverInterrupted(r) \/ SubmitRun(r) \/ CancelRun(r) \/ signalRun(r)
    \/ \E h \in Hosts : HostNext(h) \/ wait(h) \/ monitorLease(h)
    \/ \E h \in Hosts, c \in Agents : agent(h, c)

--------------------------------------------------------------------------------
\* The children of a run live inside it: a run that has ended, however it ended, has
\* no child that is queued, running or stopping.
NoChildOutlivesRun ==
    \A r \in Runs : StateOf(r) \in TerminalStates => ActiveChildren(r) = {}

\* A run that was canceled or finished gains no child, whether or not its row could be
\* moved: Cancel leaves a leased run without active children running.
ClosedAdmitsNothing ==
    [][\A r \in Runs : r \in wfClosed => wfLinks'[r] = wfLinks[r]]_<<wfClosed, wfLinks>>

\* A run is refused its outcome only when its host saw a call about one of its children
\* (rejection, Get, Cancel or Await) fail or time out: ending a script, well or badly,
\* cancels every child it launched and did not await.
RefusedOnlyAfterFailure == wfStuck \subseteq wfGaveUp

\* A queued run is started although ids are dropped when the dispatcher's queue is full.
QueuedRunStarts ==
    \A r \in Runs : StateOf(r) = "queued" ~> StateOf(r) # "queued" \/ wfPhase # "up"

\* A run that was claimed ends, unless its process does or a child was not settled.
ClaimedRunEnds ==
    \A r \in Runs : StateOf(r) = "running" ~>
        StateOf(r) \in TerminalStates \/ wfPhase = "down" \/ r \in wfStuck

\* What the comment on RecoverInterrupted says: a run that it went through and that has
\* no child left is published as interrupted.
RecoveryEndsRuns == \A r \in wfPassed : StateOf(r) \in TerminalStates

\* A run that ended has no child at work, and an end is refused only after a call about a
\* child failed or timed out.
TreeSettles ==
    /\ NoChildOutlivesRun /\ RefusedOnlyAfterFailure
================================================================================
