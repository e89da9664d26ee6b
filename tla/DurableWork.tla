------------------------------ MODULE DurableWork ------------------------------
(***************************************************************************)
(* Agent tasks and workflow runs together, over one tasks table and in one     *)
(* process that stops, crashes and is started again.                          *)
(***************************************************************************)
EXTENDS Workflows

vars == <<agVars, wfVars, tasks>>

Init == StoreInit /\ AgentInit /\ WorkflowInit

\* The tasks that only scripts submit.
Children == UNION {Launches[r] : r \in Runs}

\* A session submits an agent task, or cancels one.
SubmitAgentTask(t) == t \notin Children /\ Submit(t) /\ UNCHANGED wfVars
CancelAgentTask(c, t) == c \notin Hosts /\ Cancel(c, t) /\ UNCHANGED wfVars

\* The services at work.
Work ==
    \/ AgentNext /\ UNCHANGED wfVars
    \/ WorkflowNext
    \/ \E t \in Agents : SubmitAgentTask(t) \/ \E c \in Cancelers : CancelAgentTask(c, t)

\* The process stops or dies, and leases run out.
Interruptions ==
    \/ ShutdownDispatcher \/ ProcessStops \/ ProcessExits \/ ProcessCrash
    \/ \E t \in Tasks : Expire(t) /\ UNCHANGED <<agVars, wfVars>>

Next == Work \/ Interruptions

\* Goroutines that are not blocked go on, a blocked send on a channel is served in its
\* turn, a requeue timer fires, and the dispatcher's ticker polls.
Fairness ==
    /\ WF_vars(Start /\ UNCHANGED wfVars)
    /\ \A t \in Agents : /\ SF_vars(enqueueRecovered(t) /\ UNCHANGED wfVars)
                         /\ WF_vars(enqueueCreated(t) /\ UNCHANGED wfVars)
                         /\ SF_vars(requeueFires(t) /\ UNCHANGED wfVars)
    /\ \A w \in AgentWorkers : WF_vars(WorkerNext(w) /\ UNCHANGED wfVars)
    /\ \A c \in Cancelers : WF_vars(cancelActive(c) /\ UNCHANGED wfVars)
    /\ WF_vars(ListInterrupted) /\ WF_vars(StartDispatcher) /\ SF_vars(enqueueQueued)
    /\ \A r \in Runs : WF_vars(RecoverInterrupted(r)) /\ WF_vars(signalRun(r))
    /\ \A h \in Hosts : WF_vars(HostNext(h)) /\ SF_vars(scriptEnds(h))

Spec == Init /\ [][Next]_vars

\* A process that stays up and keeps its leases.
LiveSpec == Init /\ [][Work]_vars /\ Fairness

--------------------------------------------------------------------------------
\* A task asked to stop never does model work unless its run has been signalled or the
\* signal is on its way: registration before the re-read closes the race.  A child that
\* the cascade of its run told to stop is signalled when the host closes.
CancelReachesRun ==
    \A w \in AgentWorkers :
        agWork[w].pc \in {"running", "prompting"} /\ StateOf(TaskAt(w)) = "canceling"
        /\ TaskAt(w) \notin Children =>
            CtxDone(w) \/ \E c \in Cancelers : agCancel[c].task = TaskAt(w)

\* Every queued task settles and every queued or claimed run starts or ends, through full
\* queues and requeue timers.
WorkSettles ==
    /\ QueuedSettles
    /\ QueuedRunStarts
    /\ ClaimedRunEnds
================================================================================
