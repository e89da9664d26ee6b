------------------------------ MODULE AgentTasks -------------------------------
(***************************************************************************)
(* The durable agent task service (internal/agenttask) over the tasks table.  *)
(* A submission is a row first and a queue entry second; a worker claims the   *)
(* row, registers the cancel function of its context, reads the row again,      *)
(* runs the prompt attempts, reads the row once more and finishes it in         *)
(* another transaction.  A process is started anew with every lease owner; a     *)
(* crash loses the queue, the timers, the slots and the workers.                *)
(***************************************************************************)
EXTENDS TaskStore, Sequences, FiniteSets

CONSTANTS Agents,              \* the agent tasks, a part of Tasks
          NoTask,              \* no task
          Contracted,          \* those with an output schema
          KeyOf,               \* ConcurrencyKey of an agent task
          AgentWorkers,        \* worker goroutines of a process
          Cancelers,           \* goroutines that call Cancel
          AgentQueueSize,      \* capacity of the queue
          SessionConcurrency,  \* slots of one concurrency key
          MaxOutputAttempts,   \* maxOutputAttempts
          MaxFaults            \* bound on failing database calls

ASSUME AgentAssumption ==
    /\ Contracted \subseteq Agents /\ Agents \subseteq Tasks /\ NoTask \notin Tasks
    /\ AgentQueueSize \in Nat \ {0} /\ SessionConcurrency \in Nat \ {0}
    /\ MaxOutputAttempts \in Nat \ {0} /\ MaxFaults \in Nat

VARIABLES
    agPhase,    \* "down", "new" (NewStopped), "up", "stopping"
    agOwner,    \* leaseOwner of the process
    usedOwners, \* lease owners of this and of earlier processes
    agQueue,    \* the queue channel
    agTimers,   \* tasks a requeue timer will send
    agBacklog,  \* tasks enqueueRecovered has still to send
    agPending,  \* rows created and not yet offered to the queue
    agRejected, \* submissions of this process that returned an error
    agSlots,    \* sessionSlots: slots taken of each concurrency key
    agWork,     \* the workers: [pc, task, stop, err, attempt]
    agCancel,   \* the callers of Cancel: [pc, task]
    attempts,   \* agent_tasks: [reserved, completed]
    stranded,   \* rows whose claim or rejection failed in this process, which holds them nowhere
    faults      \* failing database calls so far

agProcess == <<agPhase, agOwner, usedOwners>>
agChannels == <<agQueue, agTimers, agBacklog, agPending>>
agGoroutines == <<agSlots, agWork, agCancel>>
agOutcomes == <<agRejected, attempts, stranded>>
agState == <<agProcess, agChannels, agGoroutines, agOutcomes>>
agVars == <<agState, faults>>

IdleWorker == [pc |-> "idle", task |-> NoTask, stop |-> FALSE, err |-> "none", attempt |-> 0]
IdleCaller == [pc |-> "idle", task |-> NoTask]
Keys == {KeyOf[t] : t \in Agents}

Holding == {"slotted", "claimed", "registered", "running", "prompting", "ended", "finishing"}
Registered == {"registered", "running", "prompting"}

AgentInit ==
    /\ agPhase = "down" /\ agOwner = NoOwner /\ usedOwners = {}
    /\ agQueue = <<>> /\ agTimers = {} /\ agBacklog = {} /\ agPending = {} /\ agRejected = {}
    /\ agSlots = [k \in Keys |-> 0]
    /\ agWork = [w \in AgentWorkers |-> IdleWorker]
    /\ agCancel = [c \in Cancelers |-> IdleCaller]
    /\ attempts = [t \in Agents |-> [reserved |-> 0, completed |-> 0]]
    /\ stranded = {} /\ faults = 0

Fault == faults < MaxFaults /\ faults' = faults + 1
NoFault == UNCHANGED faults
Alive == agPhase \in {"new", "up", "stopping"}
Stopped == agPhase = "stopping"

\* Agent rows whose lease ran out become interrupted, in one transaction per batch.
recoverInterrupted ==
    tasks' = [t \in Tasks |-> IF t \in Agents /\ Expired(t) THEN Row("interrupted", NoOwner) ELSE tasks[t]]

--------------------------------------------------------------------------------
(* The process. *)

NewStopped(o) ==
    /\ agPhase = "down" /\ o \in Owners \ usedOwners
    /\ agPhase' = "new" /\ agOwner' = o /\ usedOwners' = usedOwners \cup {o}
    /\ recoverInterrupted
    /\ UNCHANGED <<agChannels, agOutcomes, agGoroutines, faults>>

\* The workers start, then every queued row is sent, blocking while the queue is full.
Start ==
    /\ agPhase = "new"
    /\ agPhase' = "up" /\ agBacklog' = {t \in Agents : StateOf(t) = "queued"}
    /\ UNCHANGED <<agOutcomes, agGoroutines, agOwner, usedOwners, agQueue, agTimers, agPending, faults, tasks>>

\* Mutation: the recovered rows are appended to a slice instead of a bounded channel.
overfillsQueue(t) ==
    /\ agPhase = "up" /\ t \in agBacklog
    /\ agBacklog' = agBacklog \ {t} /\ agQueue' = Append(agQueue, t)
    /\ UNCHANGED <<agProcess, agOutcomes, agGoroutines, agTimers, agPending, faults, tasks>>

enqueueRecovered(t) ==
    /\ agPhase = "up" /\ t \in agBacklog /\ Len(agQueue) < AgentQueueSize
    /\ agBacklog' = agBacklog \ {t} /\ agQueue' = Append(agQueue, t)
    /\ UNCHANGED <<agProcess, agOutcomes, agGoroutines, agTimers, agPending, faults, tasks>>

Shutdown ==
    /\ agPhase \in {"new", "up"}
    /\ agPhase' = "stopping" /\ agBacklog' = {}
    /\ UNCHANGED <<agOutcomes, agGoroutines, agOwner, usedOwners, agQueue, agTimers, agPending, faults, tasks>>

\* The process is gone: what it kept in memory is lost.
LoseMemory ==
    /\ agPhase' = "down" /\ agOwner' = NoOwner
    /\ agQueue' = <<>> /\ agTimers' = {} /\ agBacklog' = {} /\ agPending' = {}
    /\ agSlots' = [k \in Keys |-> 0]
    /\ agWork' = [w \in AgentWorkers |-> IdleWorker]
    /\ agCancel' = [c \in Cancelers |-> IdleCaller]
    /\ agRejected' = {} /\ stranded' = {}
    /\ UNCHANGED <<attempts, usedOwners, faults, tasks>>

\* Every worker has returned and the process ends.
Exit == Stopped /\ (\A w \in AgentWorkers : agWork[w].pc = "idle") /\ agPending = {} /\ LoseMemory

Crash == Alive /\ LoseMemory

--------------------------------------------------------------------------------
(* Submission. *)

\* Create or CreateWithChildSession: the row and its child session are durable.
Submit(t) ==
    /\ Alive /\ Create(t)
    /\ agPending' = agPending \cup {t}
    /\ UNCHANGED <<agProcess, agOutcomes, agGoroutines, agQueue, agTimers, agBacklog, faults>>

\* Mutation: the full queue is reported and the row is left queued.
rejectNothing(t) == UNCHANGED tasks

\* The queued row is failed; a row that is no longer queued stays as it is.
rejectQueuedTask(t) ==
    IF Finishable(t, {"queued"}, NoOwner) THEN Finish(t, {"queued"}, "failed", NoOwner) ELSE UNCHANGED tasks

\* The row is offered to the queue; a full queue, a stopped service or a canceled
\* caller rejects it.  A rejection that fails is only logged: the submission returns
\* its error and the row stays as it is.
enqueueCreated(t) ==
    /\ Alive /\ t \in agPending
    /\ agPending' = agPending \ {t}
    /\ \/ /\ ~Stopped /\ Len(agQueue) < AgentQueueSize
          /\ agQueue' = Append(agQueue, t)
          /\ NoFault /\ UNCHANGED <<agRejected, stranded, tasks>>
       \/ /\ agRejected' = agRejected \cup {t} /\ rejectQueuedTask(t)
          /\ NoFault /\ UNCHANGED <<agQueue, stranded>>
       \/ /\ agRejected' = agRejected \cup {t} /\ stranded' = stranded \cup {t}
          /\ Fault /\ UNCHANGED <<agQueue, tasks>>
    /\ UNCHANGED <<agProcess, agGoroutines, agTimers, agBacklog, attempts>>

\* The timer of requeue fires and its send goes through.
requeueFires(t) ==
    /\ agPhase = "up" /\ t \in agTimers /\ Len(agQueue) < AgentQueueSize
    /\ agTimers' = agTimers \ {t} /\ agQueue' = Append(agQueue, t)
    /\ UNCHANGED <<agProcess, agOutcomes, agGoroutines, agBacklog, agPending, faults, tasks>>

--------------------------------------------------------------------------------
(* A worker. *)

At(w, pc) == Alive /\ agWork[w].pc = pc
Become(w, rec) == agWork' = [agWork EXCEPT ![w] = rec]
Goto(w, pc) == Become(w, [agWork[w] EXCEPT !.pc = pc])
TaskAt(w) == agWork[w].task

\* The context of the run is canceled: by Cancel, by a lost lease or by Shutdown.
CtxDone(w) == agWork[w].stop \/ Stopped

workerDequeues(w) ==
    /\ agPhase = "up" /\ At(w, "idle") /\ agQueue # <<>>
    /\ agQueue' = Tail(agQueue)
    /\ Become(w, [IdleWorker EXCEPT !.pc = "taken", !.task = Head(agQueue)])
    /\ UNCHANGED <<agProcess, agOutcomes, agTimers, agBacklog, agPending, agSlots, agCancel, faults, tasks>>

\* A task taken while the service stops is dropped; its row stays queued.
workerDrops(w) ==
    /\ Stopped /\ At(w, "taken")
    /\ Become(w, IdleWorker)
    /\ UNCHANGED <<agProcess, agChannels, agOutcomes, agSlots, agCancel, faults, tasks>>

\* Load the row and take a slot of its key; a failed load or a full key requeues it.
acquireSessionSlot(w) ==
    LET k == KeyOf[TaskAt(w)] IN
    /\ agPhase = "up" /\ At(w, "taken")
    /\ \/ /\ agSlots[k] < SessionConcurrency
          /\ agSlots' = [agSlots EXCEPT ![k] = @ + 1]
          /\ Goto(w, "slotted") /\ NoFault /\ UNCHANGED agTimers
       \/ /\ agSlots[k] >= SessionConcurrency \/ faults < MaxFaults
          /\ IF agSlots[k] >= SessionConcurrency THEN NoFault ELSE Fault
          /\ agTimers' = agTimers \cup {TaskAt(w)}
          /\ Become(w, IdleWorker) /\ UNCHANGED agSlots
    /\ UNCHANGED <<agProcess, agOutcomes, agQueue, agBacklog, agPending, agCancel, tasks>>

\* run returns: the deferred release gives the slot back.
Release(w) ==
    /\ agSlots' = [agSlots EXCEPT ![KeyOf[TaskAt(w)]] = @ - 1]
    /\ Become(w, IdleWorker)

\* Mutation: the early return of a lost claim keeps the slot.
ReturnOnly(w) == Become(w, IdleWorker) /\ UNCHANGED agSlots

\* Mutation: run does not look at what ClaimQueued returned.
runsAnyway(w) == Goto(w, "claimed") /\ UNCHANGED agSlots

loseClaim(w) == Release(w)

\* ClaimQueued; a conflict or an error ends the run at once.  The claimed row is loaded
\* again, and a failed load is finished without a run.
claim(w) ==
    /\ At(w, "slotted")
    /\ \/ /\ ClaimQueued(TaskAt(w), agOwner) /\ Goto(w, "claimed") /\ NoFault /\ UNCHANGED <<agSlots, stranded>>
       \/ /\ ClaimQueued(TaskAt(w), agOwner) /\ Fault
          /\ Become(w, [agWork[w] EXCEPT !.pc = "finishing", !.err = "failed"])
          /\ UNCHANGED <<agSlots, stranded>>
       \/ /\ StateOf(TaskAt(w)) # "queued" /\ loseClaim(w) /\ NoFault /\ UNCHANGED <<stranded, tasks>>
       \/ /\ StateOf(TaskAt(w)) = "queued" /\ loseClaim(w) /\ Fault
          /\ stranded' = stranded \cup {TaskAt(w)} /\ UNCHANGED tasks
    /\ UNCHANGED <<agProcess, agChannels, agRejected, agCancel, attempts>>

\* Mutation: execute trusts the row it was given.
startsUnread(w) == Become(w, [agWork[w] EXCEPT !.pc = "running", !.attempt = attempts[TaskAt(w)].reserved])

\* The state after registration decides whether any work starts.
rereadState(w) ==
    IF StateOf(TaskAt(w)) = "canceling"
    THEN Become(w, [agWork[w] EXCEPT !.pc = "ended", !.err = "canceled"])
    ELSE Become(w, [agWork[w] EXCEPT !.pc = "running", !.attempt = attempts[TaskAt(w)].reserved])

\* execute puts its cancel function into the active map.
registers(w) ==
    /\ At(w, "claimed") /\ Goto(w, "registered")
    /\ UNCHANGED <<agProcess, agChannels, agOutcomes, agSlots, agCancel, faults, tasks>>

execute(w) ==
    /\ At(w, "registered")
    /\ \/ rereadState(w) /\ NoFault
       \/ Become(w, [agWork[w] EXCEPT !.pc = "ended", !.err = "failed"]) /\ Fault
    /\ UNCHANGED <<agProcess, agChannels, agOutcomes, agSlots, agCancel, tasks>>

\* lease_owner of the row as it was loaded; the expiry is not looked at.
OwnsRunning(w) == StateOf(TaskAt(w)) = "running" /\ tasks[TaskAt(w)].owner = agOwner

Reservable(w) == OwnsRunning(w) /\ attempts[TaskAt(w)].reserved < MaxOutputAttempts

\* Mutation: a later attempt reuses the reservation of the first one.
promptsUnreserved(w) ==
    /\ At(w, "running") /\ Goto(w, "prompting")
    /\ attempts' = IF TaskAt(w) \in Contracted /\ agWork[w].attempt = 0
                   THEN [attempts EXCEPT ![TaskAt(w)].reserved = @ + 1] ELSE attempts
    /\ UNCHANGED <<agProcess, agChannels, agRejected, agSlots, agCancel, stranded, faults, tasks>>

Ends(w, err) == Become(w, [agWork[w] EXCEPT !.pc = "ended", !.err = err])

\* One turn of runPrompts starts: a contracted task reserves its attempt first.
reserveOutputAttempt(w) ==
    /\ At(w, "running")
    /\ \/ /\ IF TaskAt(w) \notin Contracted \/ Reservable(w)
             THEN /\ Goto(w, "prompting")
                  /\ attempts' = IF TaskAt(w) \in Contracted
                                 THEN [attempts EXCEPT ![TaskAt(w)].reserved = @ + 1] ELSE attempts
             ELSE Ends(w, "failed") /\ UNCHANGED attempts
          /\ NoFault
       \/ TaskAt(w) \in Contracted /\ Ends(w, "failed") /\ Fault /\ UNCHANGED attempts
    /\ UNCHANGED <<agProcess, agChannels, agRejected, agSlots, agCancel, stranded, tasks>>

\* The prompt answers without a contract, fails, times out, or notices its context.
promptEnds(w) ==
    /\ At(w, "prompting")
    /\ \/ TaskAt(w) \notin Contracted /\ Ends(w, "ok")
       \/ Ends(w, "failed")
       \/ CtxDone(w) /\ Ends(w, "canceled")
    /\ UNCHANGED <<agProcess, agChannels, agOutcomes, agSlots, agCancel, faults, tasks>>

\* The answer of a contracted task is checkpointed, then it is valid, retried with a
\* correction, or out of attempts; a checkpoint that fails or finds the lease gone ends
\* the run.
checkpointOutputAttempt(w) ==
    /\ At(w, "prompting") /\ TaskAt(w) \in Contracted
    /\ \/ /\ IF OwnsRunning(w)
             THEN /\ attempts' = [attempts EXCEPT ![TaskAt(w)].completed = @ + 1]
                  /\ \/ Ends(w, "ok")
                     \/ IF agWork[w].attempt + 1 = MaxOutputAttempts THEN Ends(w, "failed")
                        ELSE Become(w, [agWork[w] EXCEPT !.pc = "running", !.attempt = @ + 1])
             ELSE Ends(w, "failed") /\ UNCHANGED attempts
          /\ NoFault
       \/ Ends(w, "failed") /\ Fault /\ UNCHANGED attempts
    /\ UNCHANGED <<agProcess, agChannels, agRejected, agSlots, agCancel, stranded, tasks>>

\* The heartbeat: a renewed lease lives on, a lost one cancels the run.
renewLease(w) ==
    LET t == TaskAt(w) IN
    /\ Alive /\ agWork[w].pc \in Registered /\ ~CtxDone(w)
    /\ IF ownsRunningTask(t, agOwner) THEN RenewLease(t, agOwner) /\ UNCHANGED agWork
       ELSE Become(w, [agWork[w] EXCEPT !.stop = TRUE]) /\ UNCHANGED tasks
    /\ UNCHANGED <<agProcess, agChannels, agOutcomes, agSlots, agCancel, faults>>

\* finalizeRun: the state read here decides the outcome, the write comes later.
finalizeTarget(w, state) ==
    IF state = "canceling" THEN {"canceled"}
    ELSE IF agWork[w].err = "ok" THEN {"succeeded", "failed"}
    ELSE IF Stopped THEN {"interrupted"}
    ELSE {"failed"}

Finalizes(w, state) ==
    \E target \in finalizeTarget(w, state) :
        Become(w, [agWork[w] EXCEPT !.pc = "finishing", !.err = target])

\* A read that fails is passed over: the run ends by its own outcome.
finalizeRun(w) ==
    /\ At(w, "ended")
    /\ \/ Finalizes(w, StateOf(TaskAt(w))) /\ NoFault
       \/ Finalizes(w, "unread") /\ Fault
    /\ UNCHANGED <<agProcess, agChannels, agOutcomes, agSlots, agCancel, tasks>>

\* A finish that matches no row recovers every expired agent row instead; a failing
\* finish is only logged.
finish(w) ==
    LET t == TaskAt(w) IN
    /\ At(w, "finishing")
    /\ \/ Finish(t, ActiveStates, agWork[w].err, agOwner) /\ NoFault
       \/ ~Finishable(t, ActiveStates, agOwner) /\ recoverInterrupted /\ NoFault
       \/ Fault /\ UNCHANGED tasks
    /\ Release(w)
    /\ UNCHANGED <<agProcess, agChannels, agOutcomes, agCancel>>

--------------------------------------------------------------------------------
(* Cancel. *)

\* cancelQueued, then requestRunningCancel, then the re-read that finds a task the
\* cascade of a workflow already asked to stop.
Cancel(c, t) ==
    /\ Alive /\ agCancel[c].pc = "idle" /\ StateOf(t) \notin {"absent"}
    /\ \/ Transition(t, {"queued"}, "canceled") /\ UNCHANGED agCancel
       \/ /\ Transition(t, {"running"}, "canceling")
          /\ agCancel' = [agCancel EXCEPT ![c] = [pc |-> "signal", task |-> t]]
       \/ /\ StateOf(t) = "canceling" /\ UNCHANGED tasks
          /\ agCancel' = [agCancel EXCEPT ![c] = [pc |-> "signal", task |-> t]]
    /\ UNCHANGED <<agProcess, agChannels, agOutcomes, agSlots, agWork, faults>>

\* The registered cancel function of the task, if there is one, is called.
cancelActive(c) ==
    /\ Alive /\ agCancel[c].pc = "signal"
    /\ agWork' = [w \in AgentWorkers |->
                    IF agWork[w].pc \in Registered /\ TaskAt(w) = agCancel[c].task
                    THEN [agWork[w] EXCEPT !.stop = TRUE] ELSE agWork[w]]
    /\ agCancel' = [agCancel EXCEPT ![c] = IdleCaller]
    /\ UNCHANGED <<agProcess, agChannels, agOutcomes, agSlots, faults, tasks>>

--------------------------------------------------------------------------------
WorkerNext(w) ==
    \/ workerDequeues(w) \/ workerDrops(w) \/ acquireSessionSlot(w) \/ claim(w) \/ registers(w)
    \/ execute(w) \/ reserveOutputAttempt(w) \/ promptEnds(w) \/ checkpointOutputAttempt(w)
    \/ finalizeRun(w) \/ finish(w)

\* Steps of the service that no caller decides.
AgentNext ==
    \/ \E o \in Owners : NewStopped(o)
    \/ Start
    \/ \E t \in Agents : enqueueRecovered(t) \/ enqueueCreated(t) \/ requeueFires(t)
    \/ \E w \in AgentWorkers : WorkerNext(w) \/ renewLease(w)
    \/ \E c \in Cancelers : cancelActive(c)

--------------------------------------------------------------------------------
\* Types of the agent task service: rows, queue, session slots, workers, cancelers.
AgentTypeOK ==
    /\ agPhase \in {"down", "new", "up", "stopping"}
    /\ agOwner \in usedOwners \cup {NoOwner} /\ usedOwners \subseteq Owners
    /\ Len(agQueue) <= AgentQueueSize
    /\ agTimers \cup agBacklog \cup agPending \cup agRejected \cup stranded \subseteq Agents
    /\ \A w \in AgentWorkers : agWork[w].pc \in Holding \cup {"idle", "taken"}
    /\ faults \in 0..MaxFaults

\* Every way out of run gives its slot back: the slots of a key are exactly the
\* workers inside run for that key, and never more than sessionConcurrency.
SlotsAccounted ==
    \A k \in Keys :
        /\ agSlots[k] = Cardinality({w \in AgentWorkers : agWork[w].pc \in Holding /\ KeyOf[TaskAt(w)] = k})
        /\ agSlots[k] <= SessionConcurrency

\* A task that stands twice in the queue (submitted before Start, recovered, requeued)
\* is still run by one worker only.
OneWorkerPerTask ==
    \A v, w \in AgentWorkers :
        v # w /\ agWork[v].pc \in Holding \ {"slotted"} /\ agWork[w].pc \in Holding \ {"slotted"}
        => TaskAt(v) # TaskAt(w)

\* While the service is up a queued row is on its way to a worker: in the queue, in a
\* timer, still being submitted or taken.  The exception is a row whose claim or whose
\* rejection failed in this process: it waits for the next one.
QueuedIsTracked ==
    agPhase = "up" =>
        \A t \in Agents : StateOf(t) = "queued" =>
            \/ t \in agTimers \cup agBacklog \cup agPending \cup stranded
            \/ \E i \in 1..Len(agQueue) : agQueue[i] = t
            \/ \E w \in AgentWorkers : agWork[w].pc \in {"taken", "slotted"} /\ TaskAt(w) = t

\* The attempt budget of a structured task is spent before the model is called and
\* never exceeded, however its runs end.
AttemptsBudgeted ==
    \A t \in Agents :
        /\ attempts[t].reserved <= MaxOutputAttempts
        /\ attempts[t].reserved \in {attempts[t].completed, attempts[t].completed + 1}

\* A queued row does not stay queued while the process lives, unless its claim or its
\* rejection failed.
QueuedSettles ==
    \A t \in Agents : StateOf(t) = "queued" ~> StateOf(t) # "queued" \/ agPhase = "down" \/ t \in stranded

\* Every queued agent task is on its way to a worker unless a call about it failed, its
\* session's slots count the ones that run, one worker runs it, and its output attempts are
\* spent before they are prompted.
AgentsAccounted ==
    /\ AgentTypeOK /\ SlotsAccounted /\ OneWorkerPerTask
    /\ QueuedIsTracked /\ AttemptsBudgeted
================================================================================
