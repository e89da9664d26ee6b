--------------------------- MODULE DurableWorkProofs ---------------------------
(***************************************************************************)
(* Proofs about DurableWork, for any agent tasks, workflow runs, workers,      *)
(* cancelers, processes and bounds: a cancel reaches the run it is meant for,   *)
(* a closed run gains no child, agent tasks are accounted for, and no child     *)
(* outlives its run.                                                          *)
(***************************************************************************)
EXTENDS DurableWork, FiniteSetTheorems, TLAPS

Beyond == Holding \ {"slotted"}

WorkerPcs == Holding \cup {"idle", "taken"}
HostPcs == {"idle", "claimed", "script", "submitting", "waiting", "closing", "settling", "finishing"}

WorkRecord == [pc : WorkerPcs, task : Agents \cup {NoTask}, stop : BOOLEAN,
               err : {"none", "ok"} \cup TerminalStates, attempt : Nat]
CallerRecord == [pc : {"idle", "signal"}, task : Agents \cup {NoTask}]
HostRecord == [pc : HostPcs, run : Runs \cup {NoTask}, child : Agents \cup {NoTask},
               launched : SUBSET Agents, settled : SUBSET Agents, left : SUBSET Agents,
               passes : Int, stop : BOOLEAN, err : {"none", "failed", "canceled"}]

AgentTyped ==
    /\ agPhase \in {"down", "new", "up", "stopping"}
    /\ agOwner \in usedOwners \cup {NoOwner} /\ usedOwners \subseteq Owners
    /\ agQueue \in Seq(Agents) /\ Len(agQueue) <= AgentQueueSize
    /\ agTimers \subseteq Agents /\ agBacklog \subseteq Agents /\ agPending \subseteq Agents
    /\ agRejected \subseteq Agents /\ stranded \subseteq Agents
    /\ agWork \in [AgentWorkers -> WorkRecord]
    /\ agCancel \in [Cancelers -> CallerRecord]
    /\ attempts \in [Agents -> [reserved : Nat, completed : Nat]]
    /\ faults \in 0..MaxFaults

HostTyped ==
    /\ wfPhase \in {"down", "recovering", "up", "closed"}
    /\ wfLinks \in [Runs -> SUBSET Agents] /\ \A r \in Runs : wfLinks[r] \subseteq Launches[r]
    /\ wfQueue \in Seq(Runs)
    /\ wfHost \in [Hosts -> HostRecord]

\* A process that lives has a lease owner, and the dispatcher runs only in such a process.
ProcessSound ==
    /\ Alive => agOwner \in Owners
    /\ wfPhase # "down" => agPhase \in {"up", "stopping"}

\* A queued row has no lease, a run at work has one.
RowsSound ==
    /\ \A t \in Tasks : StateOf(t) = "queued" => tasks[t].owner = NoOwner
    /\ \A r \in Runs : StateOf(r) \in ActiveStates => tasks[r].owner # NoOwner

\* Children are linked to runs that have started, and are durable.
LinksSound ==
    /\ \A r \in Runs : StateOf(r) \in {"absent", "queued"} => wfLinks[r] = {}
    /\ \A r \in Runs : \A c \in wfLinks[r] : StateOf(c) # "absent"
    /\ NoChildOutlivesRun

\* A worker that is past its claim is alone on a row that has left the queue.
WorkersSound ==
    /\ \A w \in AgentWorkers : agWork[w].pc = "idle" => agWork[w] = IdleWorker
    /\ \A w \in AgentWorkers : agWork[w].pc # "idle" => TaskAt(w) \in Agents
    /\ \A w \in AgentWorkers : agWork[w].pc \in Beyond => StateOf(TaskAt(w)) \notin {"absent", "queued"}
    /\ \A w \in AgentWorkers : agWork[w].pc = "finishing" => agWork[w].err \in TerminalStates
    /\ \A c \in Cancelers : agCancel[c].pc = "idle" => agCancel[c] = IdleCaller
    /\ OneWorkerPerTask

\* An attempt that is reserved and not completed is the one that is prompted, or its run
\* is over.
AttemptsSound ==
    /\ AttemptsBudgeted
    /\ \A t \in Agents : StateOf(t) \in {"absent", "queued"} =>
         attempts[t] = [reserved |-> 0, completed |-> 0]
    /\ \A w \in AgentWorkers :
         agWork[w].pc \in {"claimed", "registered", "running"} =>
           attempts[TaskAt(w)].reserved = attempts[TaskAt(w)].completed
    /\ \A w \in AgentWorkers :
         agWork[w].pc = "prompting" /\ TaskAt(w) \in Contracted =>
           attempts[TaskAt(w)].reserved = attempts[TaskAt(w)].completed + 1

HoldersOf(k) == {w \in AgentWorkers : agWork[w].pc \in Holding /\ KeyOf[TaskAt(w)] = k}

\* The slots of a key count the workers that hold one.
SlotsSound ==
    /\ agSlots \in [Keys -> Nat]
    /\ \A k \in Keys : /\ IsFiniteSet(HoldersOf(k)) /\ agSlots[k] = Cardinality(HoldersOf(k))
                       /\ agSlots[k] <= SessionConcurrency

\* The task stands in the queue.
Among(q, t) == \E i \in 1..Len(q) : q[i] = t

\* No worker has the task and none will get it.
Unclaimed(t) ==
    /\ t \notin agTimers \cup agBacklog /\ ~Among(agQueue, t)
    /\ \A w \in AgentWorkers : TaskAt(w) # t

\* A child of a run is nowhere before it is submitted, and only in its submission until
\* that has returned; one that was rejected has ended, unless the rejection failed.
PlacesSound ==
    /\ \A t \in Agents : StateOf(t) = "absent" => Unclaimed(t) /\ t \notin agPending \cup agRejected
    /\ \A c \in agPending \cap Children : Unclaimed(c) /\ c \notin agRejected /\ StateOf(c) \notin ActiveStates
    /\ \A c \in agRejected \cap Children : StateOf(c) \in TerminalStates \/ c \in stranded
    /\ wfPhase = "down" => agPending \cap Children = {}

\* A child that a host need not wait for any more.
Settled(h, c) == StateOf(c) \in TerminalStates \/ RunAt(h) \in wfGaveUp

\* A run has one host, which knows all of the run's children that may be at work, and has
\* seen the end of those it has put aside, unless a call about a child failed.
HostSound(h) ==
    wfHost[h].pc # "idle" =>
        /\ RunAt(h) \in Runs /\ StateOf(RunAt(h)) \notin {"absent", "queued"}
        /\ wfHost[h].pc \in {"submitting", "waiting", "settling"} => wfHost[h].child \in Agents
        /\ \A c \in wfLinks[RunAt(h)] :
             \/ c \in wfHost[h].launched \/ Settled(h, c)
             \/ wfHost[h].pc = "submitting" /\ c = wfHost[h].child
        /\ \A c \in wfHost[h].settled : StateOf(c) \in TerminalStates
        /\ wfHost[h].pc \in {"closing", "settling"} =>
             \A c \in wfHost[h].launched \ wfHost[h].left : Settled(h, c)
        /\ wfHost[h].pc = "finishing" => \A c \in wfHost[h].launched : Settled(h, c)

HostsSound ==
    /\ \A h \in Hosts : HostSound(h)
    /\ \A g, h \in Hosts : g # h /\ wfHost[g].pc # "idle" /\ wfHost[h].pc # "idle" => RunAt(g) # RunAt(h)
    /\ RefusedOnlyAfterFailure

DurTyped == tasks \in [Tasks -> Rows] /\ AgentTyped /\ HostTyped

DurInv ==
    /\ DurTyped /\ ProcessSound /\ RowsSound /\ LinksSound /\ WorkersSound /\ AttemptsSound
    /\ SlotsSound /\ QueuedIsTracked /\ CancelReachesRun /\ PlacesSound /\ HostsSound

--------------------------------------------------------------------------------
(* The table.  Every step of every actor moves a row along its life.           *)

\* What a step may do to the row of a task.  An agent task is created by a submission,
\* claimed by the worker that took its slot, and asked to stop by a caller that goes on to
\* signal it or by the cascade of its run.
Follows(t) ==
    \/ StateOf(t)' = StateOf(t) /\ tasks'[t].owner = tasks[t].owner
    \/ /\ StateOf(t) = "absent" /\ StateOf(t)' = "queued" /\ tasks'[t].owner = NoOwner
       /\ t \in Agents => t \in agPending'
    \/ /\ StateOf(t) = "queued" /\ StateOf(t)' = "running" /\ tasks'[t].owner \in Owners
       /\ t \in Agents => \E w \in AgentWorkers : agWork[w].pc = "slotted" /\ TaskAt(w) = t
    \/ /\ StateOf(t) = "running" /\ StateOf(t)' = "canceling" /\ tasks'[t].owner = tasks[t].owner
       /\ t \in Agents \ Children => \E c \in Cancelers : agCancel'[c].task = t
    \/ StateOf(t) \in OpenStates /\ StateOf(t)' \in TerminalStates

RowsFollow == tasks' \in [Tasks -> Rows] /\ \A t \in Tasks : Follows(t)

\* Put replaces one row.
LEMMA PutFollows ==
    ASSUME tasks \in [Tasks -> Rows], NEW t \in Tasks, NEW row \in Rows, Put(t, row),
           tasks'[t] = row => Follows(t)
    PROVE  RowsFollow
<1>1. tasks' \in [Tasks -> Rows] /\ \A u \in Tasks : tasks'[u] = IF u = t THEN row ELSE tasks[u]
  BY DEF Put
<1>2. \A u \in Tasks : u # t => Follows(u)
  BY <1>1 DEF Follows, StateOf
<1> QED
  BY <1>1, <1>2 DEF RowsFollow

\* A step that leaves the table alone.
LEMMA SameFollows ==
    ASSUME tasks \in [Tasks -> Rows], UNCHANGED tasks PROVE RowsFollow
BY DEF RowsFollow, Follows, StateOf

\* A new row is queued.
LEMMA CreateFollows ==
    ASSUME tasks \in [Tasks -> Rows], NEW t \in Tasks, Create(t), t \in Agents => t \in agPending'
    PROVE  RowsFollow
<1>1. Row("queued", NoOwner) \in Rows
  BY DEF Row, Rows, TaskStates
<1>2. tasks'[t] = Row("queued", NoOwner) => Follows(t)
  BY DEF Follows, StateOf, Create, Row
<1> QED
  BY <1>1, <1>2, PutFollows DEF Create

\* A claim takes a queued row for a process.
LEMMA ClaimFollows ==
    ASSUME tasks \in [Tasks -> Rows], NEW t \in Tasks, NEW o \in Owners, ClaimQueued(t, o),
           t \in Agents => \E w \in AgentWorkers : agWork[w].pc = "slotted" /\ TaskAt(w) = t
    PROVE  RowsFollow
<1>1. Row("running", o) \in Rows
  BY DEF Row, Rows, TaskStates, ActiveStates
<1>2. tasks'[t] = Row("running", o) => Follows(t)
  BY DEF Follows, StateOf, ClaimQueued, Row
<1> QED
  BY <1>1, <1>2, PutFollows DEF ClaimQueued

\* A lease that is renewed or runs out leaves state and owner.
LEMMA LeaseFollows ==
    ASSUME tasks \in [Tasks -> Rows], NEW t \in Tasks, NEW flag \in BOOLEAN,
           Put(t, [tasks[t] EXCEPT !.live = flag])
    PROVE  RowsFollow
<1>1. tasks[t] \in Rows /\ [tasks[t] EXCEPT !.live = flag] \in Rows
  BY DEF Rows
<1>2. tasks'[t] = [tasks[t] EXCEPT !.live = flag] => Follows(t)
  BY <1>1 DEF Follows, StateOf, Rows
<1> QED
  BY <1>1, <1>2, PutFollows

\* A cancel ends a queued task and asks a running one to stop.
LEMMA TransitionFollows ==
    ASSUME tasks \in [Tasks -> Rows], NEW t \in Tasks,
           \/ Transition(t, {"queued"}, "canceled")
           \/ /\ Transition(t, {"running"}, "canceling")
              /\ \E c \in Cancelers : agCancel'[c].task = t
    PROVE  RowsFollow
<1>1. PICK target \in {"canceled", "canceling"} :
        /\ Put(t, [tasks[t] EXCEPT !.state = target])
        /\ target = "canceled" => StateOf(t) = "queued"
        /\ target = "canceling" => StateOf(t) = "running" /\ \E c \in Cancelers : agCancel'[c].task = t
  BY DEF Transition
<1>2. tasks[t] \in Rows /\ [tasks[t] EXCEPT !.state = target] \in Rows
  BY DEF Rows, TaskStates, ActiveStates, TerminalStates
<1>3. tasks'[t] = [tasks[t] EXCEPT !.state = target] => Follows(t)
  BY <1>1, <1>2 DEF Follows, StateOf, Rows, OpenStates, TerminalStates
<1> QED
  BY <1>1, <1>2, <1>3, PutFollows

\* An outcome ends an open row.
LEMMA FinishFollows ==
    ASSUME tasks \in [Tasks -> Rows], NEW t \in Tasks, NEW from \in SUBSET OpenStates,
           NEW target \in TerminalStates, NEW o, Finish(t, from, target, o)
    PROVE  RowsFollow
<1>1. Row(target, NoOwner) \in Rows
  BY DEF Row, Rows, TaskStates
<1>2. tasks'[t] = Row(target, NoOwner) => Follows(t)
  BY DEF Follows, StateOf, Finish, Finishable, Row
<1> QED
  BY <1>1, <1>2, PutFollows DEF Finish

\* Recovery ends agent rows whose lease is over.
LEMMA RecoverFollows ==
    ASSUME tasks \in [Tasks -> Rows], recoverInterrupted PROVE RowsFollow
<1>1. Row("interrupted", NoOwner) \in Rows /\ Row("interrupted", NoOwner).state = "interrupted"
  BY DEF Row, Rows, TaskStates, TerminalStates
<1>2. \A t \in Tasks : tasks'[t] = IF t \in Agents /\ Expired(t) THEN Row("interrupted", NoOwner) ELSE tasks[t]
  BY DEF recoverInterrupted
<1>3. tasks' \in [Tasks -> Rows]
  BY <1>1 DEF recoverInterrupted
<1>4. \A t \in Tasks : Follows(t)
  BY <1>1, <1>2 DEF Follows, StateOf, Expired, ActiveStates, OpenStates, TerminalStates
<1> QED
  BY <1>3, <1>4 DEF RowsFollow

\* The cascade of a run cancels its children and asks those at work to stop.
LEMMA CascadeRows ==
    ASSUME DurTyped, NEW r \in Runs, CancelOwned(r)
    PROVE  /\ tasks' \in [Tasks -> Rows]
           /\ tasks'[r] = cancelWorkflowRun(r)
           /\ \A c \in wfLinks[r] : tasks'[c] = cancelWorkflowChild(tasks[c])
           /\ \A t \in Tasks : t # r /\ t \notin wfLinks[r] => tasks'[t] = tasks[t]
<1>1. /\ tasks \in [Tasks -> Rows] /\ r \in Tasks /\ r \notin wfLinks[r] /\ wfLinks[r] \subseteq Tasks
  BY AgentAssumption, WorkflowAssumption DEF DurTyped, HostTyped
<1>2. \A t \in Tasks : tasks'[t] = CASE t = r -> cancelWorkflowRun(r)
                                     [] t \in wfLinks[r] -> cancelWorkflowChild(tasks[t])
                                     [] OTHER -> tasks[t]
  BY DEF CancelOwned
<1>3. \A row \in Rows : cancelWorkflowChild(row) \in Rows
  BY DEF cancelWorkflowChild, Rows, TaskStates, ActiveStates, TerminalStates
<1>4. tasks[r] \in Rows /\ cancelWorkflowRun(r) \in Rows
  BY <1>1 DEF cancelWorkflowRun, Rows, TaskStates, ActiveStates, TerminalStates
<1>5. \A t \in Tasks : tasks'[t] \in Rows
  BY <1>1, <1>2, <1>3, <1>4
<1>6. tasks' = [t \in Tasks |-> tasks'[t]]
  BY DEF CancelOwned
<1>7. tasks' \in [Tasks -> Rows]
  BY <1>5, <1>6
<1> QED
  BY <1>1, <1>2, <1>7

\* A queued run has no children yet, so the cascade moves no queued run to canceling.
LEMMA CascadeFollows ==
    ASSUME DurInv, NEW r \in Runs, CancelOwned(r) PROVE RowsFollow
<1>1. /\ tasks' \in [Tasks -> Rows] /\ tasks'[r] = cancelWorkflowRun(r)
      /\ \A c \in wfLinks[r] : tasks'[c] = cancelWorkflowChild(tasks[c])
      /\ \A t \in Tasks : t # r /\ t \notin wfLinks[r] => tasks'[t] = tasks[t]
  BY CascadeRows DEF DurInv
<1>2. tasks \in [Tasks -> Rows] /\ wfLinks[r] \subseteq Tasks /\ r \in Tasks
  BY AgentAssumption, WorkflowAssumption DEF DurInv, DurTyped, HostTyped
<1>3. \A c \in wfLinks[r] : Follows(c)
  <2> SUFFICES ASSUME NEW c \in wfLinks[r] PROVE Follows(c)
    OBVIOUS
  <2>2. c \in Children
    BY DEF DurInv, DurTyped, HostTyped, Children
  <2>1. tasks[c] \in Rows /\ tasks'[c] = cancelWorkflowChild(tasks[c])
    BY <1>1, <1>2
  <2> QED
    BY <2>1, <2>2 DEF Follows, StateOf, cancelWorkflowChild, Rows, OpenStates, TerminalStates
<1>4. Follows(r)
  <2>1. StateOf(r) = "queued" => wfLinks[r] = {}
    BY DEF DurInv, LinksSound
  <2>2. tasks[r] \in Rows /\ tasks'[r] = cancelWorkflowRun(r)
    BY <1>1, <1>2
  <2>3. StateOf(r) = "queued" => tasks[r].owner = NoOwner
    BY <1>2 DEF DurInv, RowsSound
  <2>4. CASE StateOf(r) = "queued"
    <3>1. {c \in wfLinks[r] : StateOf(c) = "running"} = {}
      BY <2>1, <2>4
    <3>2. tasks'[r] = [tasks[r] EXCEPT !.state = "canceled"]
      BY <2>2, <2>3, <2>4, <3>1 DEF cancelWorkflowRun
    <3> QED
      BY <2>2, <2>4, <3>2 DEF Follows, StateOf, Rows, OpenStates, TerminalStates
  <2>5. CASE StateOf(r) = "running"
    <3>1. \/ tasks'[r] = [tasks[r] EXCEPT !.state = "canceling"]
          \/ tasks'[r] = [tasks[r] EXCEPT !.state = "canceled"]
          \/ tasks'[r] = tasks[r]
      BY <2>2, <2>5 DEF cancelWorkflowRun
    <3>2. tasks[r] \in Rows
      BY <2>2
    <3>3. CASE tasks'[r] = [tasks[r] EXCEPT !.state = "canceling"]
      BY <2>5, <3>2, <3>3, WorkflowAssumption DEF Follows, StateOf, Rows
    <3>4. CASE tasks'[r] = [tasks[r] EXCEPT !.state = "canceled"]
      BY <2>5, <3>2, <3>4 DEF Follows, StateOf, Rows, OpenStates, TerminalStates
    <3> QED
      BY <3>1, <3>3, <3>4 DEF Follows, StateOf
  <2>6. CASE StateOf(r) \notin {"queued", "running"}
    BY <2>2, <2>6 DEF cancelWorkflowRun, Follows, StateOf
  <2> QED
    BY <2>4, <2>5, <2>6
<1>5. \A t \in Tasks : t # r /\ t \notin wfLinks[r] => Follows(t)
  BY <1>1 DEF Follows, StateOf
<1> QED
  BY <1>1, <1>3, <1>4, <1>5 DEF RowsFollow

\* The transactions of a worker.
LEMMA WorkerRows ==
    ASSUME DurInv, NEW w \in AgentWorkers, WorkerNext(w) \/ renewLease(w) PROVE RowsFollow
<1>1. tasks \in [Tasks -> Rows]
  BY DEF DurInv, DurTyped
<1>2. agWork[w].pc # "idle" => TaskAt(w) \in Tasks
  BY AgentAssumption DEF DurInv, WorkersSound
<1>3. Alive => agOwner \in Owners
  BY DEF DurInv, ProcessSound
<1>4. CASE UNCHANGED tasks
  BY <1>1, <1>4, SameFollows
<1>5. CASE claim(w)
  <2>1. /\ agWork[w].pc = "slotted" /\ agOwner \in Owners /\ TaskAt(w) \in Tasks
        /\ ClaimQueued(TaskAt(w), agOwner) \/ UNCHANGED tasks
    BY <1>2, <1>3, <1>5 DEF claim, At
  <2> QED
    BY <1>1, <2>1, ClaimFollows, SameFollows
<1>6. CASE renewLease(w)
  <2>1. TaskAt(w) \in Tasks
    BY <1>2, <1>6 DEF renewLease, Registered
  <2>2. Put(TaskAt(w), [tasks[TaskAt(w)] EXCEPT !.live = TRUE]) \/ UNCHANGED tasks
    BY <1>6 DEF renewLease, RenewLease
  <2> QED
    BY <1>1, <2>1, <2>2, LeaseFollows, SameFollows
<1>7. CASE finish(w)
  <2>1. TaskAt(w) \in Tasks /\ agWork[w].err \in TerminalStates
    BY <1>2, <1>7 DEF finish, At, DurInv, WorkersSound
  <2>2. \/ Finish(TaskAt(w), ActiveStates, agWork[w].err, agOwner)
        \/ recoverInterrupted \/ UNCHANGED tasks
    BY <1>7 DEF finish
  <2>3. ActiveStates \in SUBSET OpenStates
    BY DEF ActiveStates, OpenStates
  <2> QED
    BY <1>1, <2>1, <2>2, <2>3, FinishFollows, RecoverFollows, SameFollows
<1> QED
  BY <1>4, <1>5, <1>6, <1>7 DEF WorkerNext, workerDequeues, workerDrops, acquireSessionSlot,
     registers, execute, reserveOutputAttempt, promptEnds, checkpointOutputAttempt, finalizeRun

\* The transactions of submissions and cancels.
LEMMA CallerRows ==
    ASSUME DurInv, NEW t \in Agents,
           Submit(t) \/ enqueueCreated(t) \/ \E c \in Cancelers : Cancel(c, t)
    PROVE  RowsFollow
<1>1. tasks \in [Tasks -> Rows] /\ t \in Tasks
  BY AgentAssumption DEF DurInv, DurTyped
<1>2. CASE Submit(t)
  BY <1>1, <1>2, CreateFollows DEF Submit
<1>3. CASE enqueueCreated(t)
  <2>1. Finish(t, {"queued"}, "failed", NoOwner) \/ UNCHANGED tasks
    BY <1>3 DEF enqueueCreated, rejectQueuedTask
  <2>2. {"queued"} \in SUBSET OpenStates /\ "failed" \in TerminalStates
    BY DEF OpenStates, TerminalStates
  <2> QED
    BY <1>1, <2>1, <2>2, FinishFollows, SameFollows
<1>4. ASSUME NEW c \in Cancelers, Cancel(c, t) PROVE RowsFollow
  <2>1. \/ Transition(t, {"queued"}, "canceled")
        \/ Transition(t, {"running"}, "canceling") /\ agCancel'[c].task = t
        \/ UNCHANGED tasks
    BY <1>4 DEF Cancel, DurInv, DurTyped, AgentTyped
  <2> QED
    BY <1>1, <2>1, TransitionFollows, SameFollows
<1> QED
  BY <1>2, <1>3, <1>4

\* The transactions of the agent service.
LEMMA AgentRows ==
    ASSUME DurInv, AgentNext PROVE RowsFollow
<1>1. tasks \in [Tasks -> Rows]
  BY DEF DurInv, DurTyped
<1>2. CASE UNCHANGED tasks
  BY <1>1, <1>2, SameFollows
<1>3. CASE recoverInterrupted
  BY <1>1, <1>3, RecoverFollows
<1> QED
  BY <1>2, <1>3, WorkerRows, CallerRows DEF AgentNext, NewStopped, Start, enqueueRecovered,
     requeueFires, cancelActive

\* An outcome of a run.
LEMMA FinishOwnedFollows ==
    ASSUME DurInv, NEW r \in Runs, NEW target \in TerminalStates, NEW o, FinishOwned(r, target, o)
    PROVE  RowsFollow
<1>1. tasks \in [Tasks -> Rows] /\ r \in Tasks
  BY WorkflowAssumption DEF DurInv, DurTyped
<1>2. Finish(r, ActiveStates, target, o) \/ UNCHANGED tasks
  BY DEF FinishOwned
<1>3. ActiveStates \in SUBSET OpenStates
  BY DEF ActiveStates, OpenStates
<1> QED
  BY <1>1, <1>2, <1>3, FinishFollows, SameFollows

\* The transactions of the dispatcher and its hosts.
LEMMA WorkflowRows ==
    ASSUME DurInv, WorkflowNext PROVE RowsFollow
<1>1. tasks \in [Tasks -> Rows] /\ Runs \subseteq Tasks /\ Agents \subseteq Tasks
  BY AgentAssumption, WorkflowAssumption DEF DurInv, DurTyped
<1>2. CASE UNCHANGED tasks
  BY <1>1, <1>2, SameFollows
<1>3. ASSUME NEW r \in Runs, RecoverInterrupted(r) PROVE RowsFollow
  <2>1. CancelOwned(r) \/ FinishOwned(r, "interrupted", NoOwner)
    BY <1>3 DEF RecoverInterrupted
  <2>2. "interrupted" \in TerminalStates
    BY DEF TerminalStates
  <2> QED
    BY <2>1, <2>2, CascadeFollows, FinishOwnedFollows
<1>4. ASSUME NEW r \in Runs, SubmitRun(r) PROVE RowsFollow
  BY <1>1, <1>4, CreateFollows, WorkflowAssumption DEF SubmitRun
<1>5. ASSUME NEW r \in Runs, CancelRun(r) PROVE RowsFollow
  BY <1>5, CascadeFollows DEF CancelRun
<1>6. ASSUME NEW h \in Hosts, ExecuteQueued(h) PROVE RowsFollow
  <2>1. wfQueue # <<>> /\ wfQueue \in Seq(Runs) /\ wfPhase = "up"
    BY <1>6 DEF ExecuteQueued, DurInv, DurTyped, HostTyped
  <2>2. Head(wfQueue) \in Runs /\ Head(wfQueue) \in Tasks /\ Head(wfQueue) \notin Agents
    BY <1>1, <2>1, WorkflowAssumption
  <2>3. agOwner \in Owners
    BY <2>1 DEF DurInv, ProcessSound, Alive
  <2>4. ClaimQueued(Head(wfQueue), agOwner) \/ UNCHANGED tasks
    BY <1>6 DEF ExecuteQueued
  <2> QED
    BY <1>1, <2>2, <2>3, <2>4, ClaimFollows, SameFollows
<1>7. ASSUME NEW h \in Hosts, cancelLaunched(h) PROVE RowsFollow
  <2>1. wfHost[h].left \subseteq Agents /\ h \in Cancelers
    BY WorkflowAssumption DEF DurInv, DurTyped, HostTyped, HostRecord
  <2>2. PICK c \in wfHost[h].left : UNCHANGED tasks \/ Cancel(h, c)
    BY <1>7 DEF cancelLaunched, closable
  <2> QED
    BY <1>1, <2>1, <2>2, CallerRows, SameFollows
<1>8. ASSUME NEW h \in Hosts, finishRun(h) PROVE RowsFollow
  <2>1. RunAt(h) \in Runs
    BY <1>8 DEF finishRun, HostAt, DurInv, HostsSound, HostSound
  <2>2. workflowOutcome(h) \in TerminalStates
    BY DEF workflowOutcome, TerminalStates
  <2>3. FinishOwned(RunAt(h), workflowOutcome(h), agOwner) \/ UNCHANGED tasks
    BY <1>8 DEF finishRun
  <2> QED
    BY <1>1, <2>1, <2>2, <2>3, FinishOwnedFollows, SameFollows
<1>9. ASSUME NEW h \in Hosts, monitorLease(h) PROVE RowsFollow
  <2>1. RunAt(h) \in Tasks
    BY <1>1, <1>9 DEF monitorLease, Tracked, DurInv, HostsSound, HostSound
  <2>2. Put(RunAt(h), [tasks[RunAt(h)] EXCEPT !.live = TRUE]) \/ UNCHANGED tasks
    BY <1>9 DEF monitorLease, RenewLease
  <2> QED
    BY <1>1, <2>1, <2>2, LeaseFollows, SameFollows
<1>10. ASSUME NEW h \in Hosts, NEW c \in Agents, agent(h, c) PROVE RowsFollow
  BY <1>10, CallerRows DEF agent
<1> QED
  BY <1>2, <1>3, <1>4, <1>5, <1>6, <1>7, <1>8, <1>9, <1>10 DEF WorkflowNext, HostNext,
     ListInterrupted, StartDispatcher, enqueueQueued, signalRun, track, agentReturns, wait,
     waitReturns, scriptEnds, settleLaunched, closed

\* Every row follows its life.
LEMMA RowsStep ==
    ASSUME DurInv, [Next]_vars PROVE RowsFollow
<1>1. tasks \in [Tasks -> Rows]
  BY DEF DurInv, DurTyped
<1>2. CASE UNCHANGED tasks
  BY <1>1, <1>2, SameFollows
<1>3. ASSUME NEW t \in Tasks, Expire(t) PROVE RowsFollow
  BY <1>1, <1>3, LeaseFollows DEF Expire
<1>4. ASSUME NEW t \in Agents, SubmitAgentTask(t) \/ \E c \in Cancelers : CancelAgentTask(c, t)
      PROVE  RowsFollow
  BY <1>4, CallerRows DEF SubmitAgentTask, CancelAgentTask
<1> QED
  BY <1>2, <1>3, <1>4, AgentRows, WorkflowRows DEF Next, Work, Interruptions, vars, ShutdownDispatcher,
     ProcessStops, Shutdown, ProcessExits, Exit, ProcessCrash, Crash, LoseMemory

--------------------------------------------------------------------------------
(* Types.                                                                      *)

\* What a step does to the agent service.
AgentAct ==
    \/ \E o \in Owners : NewStopped(o)
    \/ Start \/ Shutdown \/ LoseMemory
    \/ \E t \in Agents : enqueueRecovered(t) \/ requeueFires(t) \/ Submit(t) \/ enqueueCreated(t)
    \/ \E w \in AgentWorkers : WorkerNext(w) \/ renewLease(w)
    \/ \E c \in Cancelers : cancelActive(c)
    \/ \E c \in Cancelers, t \in Agents : Cancel(c, t)

AgentStep == (UNCHANGED agState /\ (NoFault \/ Fault)) \/ AgentAct

\* Whatever the step, the agent service does one of its own or nothing.
LEMMA AgentSteps ==
    ASSUME DurInv, [Next]_vars PROVE AgentStep
<1>1. CASE AgentNext
  BY <1>1 DEF AgentNext, AgentStep, AgentAct
<1>2. ASSUME NEW h \in Hosts, cancelLaunched(h) PROVE AgentStep
  <2>1. wfHost[h].left \subseteq Agents /\ h \in Cancelers
    BY WorkflowAssumption DEF DurInv, DurTyped, HostTyped, HostRecord
  <2>2. PICK c \in wfHost[h].left : UNCHANGED agVars \/ Cancel(h, c)
    BY <1>2 DEF cancelLaunched, closable
  <2> QED
    BY <2>1, <2>2 DEF AgentStep, AgentAct, agVars, NoFault
<1>3. ASSUME NEW h \in Hosts, NEW c \in Agents, agent(h, c) PROVE AgentStep
  BY <1>3 DEF agent, AgentStep, AgentAct
<1>4. CASE WorkflowNext
  BY <1>2, <1>3, <1>4 DEF WorkflowNext, HostNext, ListInterrupted, StartDispatcher, enqueueQueued,
     RecoverInterrupted, SubmitRun, CancelRun, signalRun, ExecuteQueued, track, agentReturns, wait,
     waitReturns, scriptEnds, settleLaunched, closed, finishRun, monitorLease, AgentStep, agVars, NoFault
<1> QED
  BY <1>1, <1>4 DEF Next, Work, Interruptions, vars, SubmitAgentTask, CancelAgentTask,
     ShutdownDispatcher, ProcessStops, ProcessExits, Exit, ProcessCrash, Crash, AgentStep, AgentAct, agVars, NoFault

\* Idle workers and callers have no task.
LEMMA IdleTyped == IdleWorker \in WorkRecord /\ IdleCaller \in CallerRecord /\ IdleHost \in HostRecord
BY DEF IdleWorker, IdleCaller, IdleHost, WorkRecord, WorkerPcs, CallerRecord, HostRecord, HostPcs

\* Attempts are counted up.
LEMMA AttemptCounted ==
    ASSUME NEW f \in [Agents -> [reserved : Nat, completed : Nat]], NEW t \in Agents
    PROVE  /\ [f EXCEPT ![t].reserved = @ + 1] \in [Agents -> [reserved : Nat, completed : Nat]]
           /\ [f EXCEPT ![t].completed = @ + 1] \in [Agents -> [reserved : Nat, completed : Nat]]
<1>1. f[t] \in [reserved : Nat, completed : Nat] /\ f[t].reserved + 1 \in Nat /\ f[t].completed + 1 \in Nat
  OBVIOUS
<1>2. /\ [f[t] EXCEPT !.reserved = @ + 1] \in [reserved : Nat, completed : Nat]
      /\ [f[t] EXCEPT !.completed = @ + 1] \in [reserved : Nat, completed : Nat]
  BY <1>1
<1> QED
  BY <1>2

\* A sent task is one more in the queue.
LEMMA Sent ==
    ASSUME NEW q \in Seq(Agents), Len(q) < AgentQueueSize, NEW t \in Agents
    PROVE  Append(q, t) \in Seq(Agents) /\ Len(Append(q, t)) <= AgentQueueSize
<1>1. Append(q, t) \in Seq(Agents) /\ Len(Append(q, t)) = Len(q) + 1 /\ Len(q) \in Nat
  OBVIOUS
<1>2. \A n, m \in Nat : n < AgentQueueSize /\ m = n + 1 => m <= AgentQueueSize
  BY AgentAssumption
<1>3. Len(Append(q, t)) \in Nat
  BY <1>1
<1> QED
  BY <1>1, <1>2, <1>3

\* The steps of a worker keep its record typed.
LEMMA WorkerTyped ==
    ASSUME DurInv, NEW w \in AgentWorkers, WorkerNext(w) \/ renewLease(w) PROVE AgentTyped'
<1>1. AgentTyped
  BY DEF DurInv, DurTyped
<1>2. /\ agWork[w] \in WorkRecord
      /\ agWork[w].pc # "idle" => TaskAt(w) \in Agents
      /\ agWork[w].attempt + 1 \in Nat
  BY <1>1 DEF DurInv, WorkersSound, AgentTyped, WorkRecord
<1>3. \A rec \in WorkRecord : Become(w, rec) => agWork' \in [AgentWorkers -> WorkRecord]
  BY <1>1 DEF Become, AgentTyped
<1>4. \A pc \in WorkerPcs : [agWork[w] EXCEPT !.pc = pc] \in WorkRecord
  BY <1>2 DEF WorkRecord
<1>5. \A pc \in WorkerPcs : \A err \in {"none", "ok"} \cup TerminalStates :
        [agWork[w] EXCEPT !.pc = pc, !.err = err] \in WorkRecord
  BY <1>2 DEF WorkRecord
<1>6. \A pc \in WorkerPcs : \A n \in Nat : [agWork[w] EXCEPT !.pc = pc, !.attempt = n] \in WorkRecord
  BY <1>2 DEF WorkRecord
<1>7. /\ UNCHANGED <<agPhase, agOwner, usedOwners, agQueue, agTimers, agBacklog, agPending, agRejected,
                     stranded, agCancel, attempts, faults>>
      /\ agWork' \in [AgentWorkers -> WorkRecord]
      => AgentTyped'
  BY <1>1 DEF AgentTyped
<1>8. {"taken", "slotted", "claimed", "registered", "running", "prompting", "ended", "finishing"} \subseteq WorkerPcs
  BY DEF WorkerPcs, Holding
<1>9. "failed" \in TerminalStates /\ "canceled" \in TerminalStates
  BY DEF TerminalStates
<1>10. Fault => faults' \in 0..MaxFaults
  BY <1>1, AgentAssumption DEF Fault, AgentTyped
<1>11. CASE workerDequeues(w)
  <2>1. Head(agQueue) \in Agents /\ Tail(agQueue) \in Seq(Agents) /\ Len(Tail(agQueue)) <= AgentQueueSize
    BY <1>1, <1>11, AgentAssumption DEF workerDequeues, AgentTyped
  <2>2. [IdleWorker EXCEPT !.pc = "taken", !.task = Head(agQueue)] \in WorkRecord
    BY <1>8, <2>1, IdleTyped DEF WorkRecord
  <2>3. agWork' \in [AgentWorkers -> WorkRecord]
    BY <1>3, <1>11, <2>2 DEF workerDequeues
  <2> QED
    BY <1>1, <1>11, <2>1, <2>3 DEF workerDequeues, AgentTyped, agProcess, agOutcomes
<1>12. CASE workerDrops(w)
  BY <1>3, <1>7, <1>12, IdleTyped DEF workerDrops, agProcess, agChannels, agOutcomes
<1>13. CASE acquireSessionSlot(w)
  <2>1. agWork' \in [AgentWorkers -> WorkRecord]
    BY <1>3, <1>4, <1>8, <1>13, IdleTyped DEF acquireSessionSlot, Goto
  <2>2. agTimers' \subseteq Agents
    BY <1>1, <1>2, <1>13 DEF acquireSessionSlot, AgentTyped, At
  <2> QED
    BY <1>1, <1>10, <1>13, <2>1, <2>2 DEF acquireSessionSlot, AgentTyped, agProcess, agOutcomes, NoFault
<1>14. CASE claim(w)
  <2>1. agWork' \in [AgentWorkers -> WorkRecord]
    BY <1>3, <1>4, <1>5, <1>8, <1>9, <1>14, IdleTyped DEF claim, Goto, loseClaim, Release
  <2>2. stranded' \subseteq Agents /\ faults' \in 0..MaxFaults
    BY <1>1, <1>2, <1>10, <1>14 DEF claim, AgentTyped, At, NoFault
  <2> QED
    BY <1>1, <1>14, <2>1, <2>2 DEF claim, AgentTyped, agProcess, agChannels
<1>15. CASE registers(w)
  BY <1>3, <1>4, <1>7, <1>8, <1>15 DEF registers, Goto, agProcess, agChannels, agOutcomes
<1>16. CASE execute(w)
  <2>1. TaskAt(w) \in Agents /\ attempts[TaskAt(w)].reserved \in Nat
    BY <1>1, <1>2, <1>16 DEF execute, At, AgentTyped
  <2>2. agWork' \in [AgentWorkers -> WorkRecord]
    BY <1>3, <1>5, <1>6, <1>8, <1>9, <1>16, <2>1 DEF execute, rereadState
  <2> QED
    BY <1>1, <1>10, <1>16, <2>2 DEF execute, AgentTyped, agProcess, agChannels, agOutcomes, NoFault
<1>17. CASE reserveOutputAttempt(w)
  <2>1. TaskAt(w) \in Agents
    BY <1>2, <1>17 DEF reserveOutputAttempt, At
  <2>2. agWork' \in [AgentWorkers -> WorkRecord] /\ faults' \in 0..MaxFaults
    BY <1>1, <1>3, <1>4, <1>5, <1>8, <1>9, <1>10, <1>17 DEF reserveOutputAttempt, Goto, Ends, NoFault, AgentTyped
  <2>3. attempts' \in [Agents -> [reserved : Nat, completed : Nat]]
    <3>1. attempts' \in {attempts, [attempts EXCEPT ![TaskAt(w)].reserved = @ + 1]}
      BY <1>17 DEF reserveOutputAttempt
    <3>2. attempts \in [Agents -> [reserved : Nat, completed : Nat]]
      BY <1>1 DEF AgentTyped
    <3>3. [attempts EXCEPT ![TaskAt(w)].reserved = @ + 1] \in [Agents -> [reserved : Nat, completed : Nat]]
      BY <2>1, <3>2, AttemptCounted
    <3> QED
      BY <3>1, <3>2, <3>3
  <2> QED
    BY <1>1, <1>17, <2>2, <2>3 DEF reserveOutputAttempt, AgentTyped, agProcess, agChannels
<1>18. CASE promptEnds(w)
  <2>1. agWork' \in [AgentWorkers -> WorkRecord]
    BY <1>3, <1>5, <1>8, <1>9, <1>18 DEF promptEnds, Ends
  <2> QED
    BY <1>7, <1>18, <2>1 DEF promptEnds, agProcess, agChannels, agOutcomes
<1>19. CASE checkpointOutputAttempt(w)
  <2>1. TaskAt(w) \in Agents
    BY <1>2, <1>19 DEF checkpointOutputAttempt, At
  <2>2. agWork' \in [AgentWorkers -> WorkRecord] /\ faults' \in 0..MaxFaults
    BY <1>1, <1>2, <1>3, <1>5, <1>6, <1>8, <1>9, <1>10, <1>19 DEF checkpointOutputAttempt, Ends, NoFault, AgentTyped
  <2>3. attempts' \in [Agents -> [reserved : Nat, completed : Nat]]
    <3>1. attempts' \in {attempts, [attempts EXCEPT ![TaskAt(w)].completed = @ + 1]}
      BY <1>19 DEF checkpointOutputAttempt
    <3>2. attempts \in [Agents -> [reserved : Nat, completed : Nat]]
      BY <1>1 DEF AgentTyped
    <3>3. [attempts EXCEPT ![TaskAt(w)].completed = @ + 1] \in [Agents -> [reserved : Nat, completed : Nat]]
      BY <2>1, <3>2, AttemptCounted
    <3> QED
      BY <3>1, <3>2, <3>3
  <2> QED
    BY <1>1, <1>19, <2>2, <2>3 DEF checkpointOutputAttempt, AgentTyped, agProcess, agChannels
<1>20. CASE finalizeRun(w)
  <2>1. PICK state : Finalizes(w, state)
    BY <1>20 DEF finalizeRun
  <2>2. finalizeTarget(w, state) \subseteq TerminalStates
    BY DEF finalizeTarget, TerminalStates
  <2>3. agWork' \in [AgentWorkers -> WorkRecord]
    BY <1>3, <1>5, <1>8, <2>1, <2>2 DEF Finalizes
  <2> QED
    BY <1>1, <1>10, <1>20, <2>3 DEF finalizeRun, AgentTyped, NoFault, agProcess, agChannels, agOutcomes
<1>21. CASE finish(w)
  <2>1. agWork' \in [AgentWorkers -> WorkRecord] /\ faults' \in 0..MaxFaults
    BY <1>1, <1>3, <1>10, <1>21, IdleTyped DEF finish, Release, NoFault, AgentTyped
  <2> QED
    BY <1>1, <1>21, <2>1 DEF finish, AgentTyped, agProcess, agChannels, agOutcomes
<1>22. CASE renewLease(w)
  <2>1. [agWork[w] EXCEPT !.stop = TRUE] \in WorkRecord
    BY <1>2 DEF WorkRecord
  <2>2. agWork' \in [AgentWorkers -> WorkRecord]
    BY <1>1, <1>3, <1>22, <2>1 DEF renewLease, AgentTyped
  <2> QED
    BY <1>7, <1>22, <2>2 DEF renewLease, agProcess, agChannels, agOutcomes
<1> QED
  BY <1>11, <1>12, <1>13, <1>14, <1>15, <1>16, <1>17, <1>18, <1>19, <1>20, <1>21, <1>22 DEF WorkerNext

\* Every step keeps the agent service typed.
LEMMA AgentTypedStep ==
    ASSUME DurInv, AgentStep PROVE AgentTyped'
<1>1. AgentTyped
  BY DEF DurInv, DurTyped
<1>2. CASE UNCHANGED agState /\ (NoFault \/ Fault)
  BY <1>1, <1>2, AgentAssumption DEF AgentTyped, NoFault, Fault, agState, agProcess, agChannels, agGoroutines, agOutcomes
<1>3. ASSUME NEW o \in Owners, NewStopped(o) PROVE AgentTyped'
  BY <1>1, <1>3 DEF AgentTyped, NewStopped, agChannels, agGoroutines, agOutcomes
<1>4. CASE Start \/ Shutdown
  BY <1>1, <1>4 DEF AgentTyped, Start, Shutdown, agGoroutines, agOutcomes
<1>5. CASE LoseMemory
  BY <1>1, <1>5, IdleTyped, AgentAssumption DEF AgentTyped, LoseMemory, agOutcomes
<1>6. ASSUME NEW t \in Agents, enqueueRecovered(t) \/ requeueFires(t) PROVE AgentTyped'
  <2>1. agQueue \in Seq(Agents) /\ Len(agQueue) < AgentQueueSize /\ agQueue' = Append(agQueue, t)
    BY <1>1, <1>6 DEF AgentTyped, enqueueRecovered, requeueFires
  <2>2. agQueue' \in Seq(Agents) /\ Len(agQueue') <= AgentQueueSize
    BY <2>1, Sent
  <2> QED
    BY <1>1, <1>6, <2>2 DEF AgentTyped, enqueueRecovered, requeueFires, agProcess, agGoroutines, agOutcomes
<1>7. ASSUME NEW t \in Agents, Submit(t) PROVE AgentTyped'
  BY <1>1, <1>7 DEF AgentTyped, Submit, agProcess, agGoroutines, agOutcomes
<1>8. ASSUME NEW t \in Agents, enqueueCreated(t) PROVE AgentTyped'
  <2>1. \/ Len(agQueue) < AgentQueueSize /\ agQueue' = Append(agQueue, t) /\ UNCHANGED agRejected
        \/ UNCHANGED agQueue /\ agRejected' = agRejected \cup {t}
    BY <1>8 DEF enqueueCreated
  <2>2. agQueue' \in Seq(Agents) /\ Len(agQueue') <= AgentQueueSize
    BY <1>1, <2>1, Sent DEF AgentTyped
  <2>3. stranded' \subseteq Agents /\ faults' \in 0..MaxFaults
    BY <1>1, <1>8, AgentAssumption DEF enqueueCreated, AgentTyped, Fault, NoFault
  <2> QED
    BY <1>1, <1>8, <2>1, <2>2, <2>3 DEF AgentTyped, enqueueCreated, agProcess, agGoroutines
<1>9. ASSUME NEW c \in Cancelers, cancelActive(c) PROVE AgentTyped'
  <2>1. \A w \in AgentWorkers : agWork[w] \in WorkRecord /\ [agWork[w] EXCEPT !.stop = TRUE] \in WorkRecord
    BY <1>1 DEF AgentTyped, WorkRecord
  <2>2. agWork' \in [AgentWorkers -> WorkRecord] /\ agCancel' \in [Cancelers -> CallerRecord]
    BY <1>1, <1>9, <2>1, IdleTyped DEF AgentTyped, cancelActive
  <2> QED
    BY <1>1, <1>9, <2>2 DEF AgentTyped, cancelActive, agProcess, agChannels, agOutcomes
<1>10. ASSUME NEW c \in Cancelers, NEW t \in Agents, Cancel(c, t) PROVE AgentTyped'
  <2>1. [pc |-> "signal", task |-> t] \in CallerRecord
    BY DEF CallerRecord
  <2>2. agCancel' \in [Cancelers -> CallerRecord]
    BY <1>1, <1>10, <2>1 DEF AgentTyped, Cancel
  <2> QED
    BY <1>1, <1>10, <2>2 DEF AgentTyped, Cancel, agProcess, agChannels, agOutcomes
<1> QED
  BY <1>2, <1>3, <1>4, <1>5, <1>6, <1>7, <1>8, <1>9, <1>10, WorkerTyped DEF AgentStep, AgentAct

\* The records that hosts write.
LEMMA HostRecords ==
    ASSUME HostTyped, NEW h \in Hosts
    PROVE  /\ wfHost[h] \in HostRecord
           /\ \A rec \in HostRecord : Set(h, rec) => wfHost' \in [Hosts -> HostRecord]
           /\ \A pc \in HostPcs : [wfHost[h] EXCEPT !.pc = pc] \in HostRecord
           /\ \A pc \in HostPcs : \A c \in Agents : [wfHost[h] EXCEPT !.pc = pc, !.child = c] \in HostRecord
           /\ \A pc \in HostPcs : \A s \in SUBSET Agents :
                /\ [wfHost[h] EXCEPT !.pc = pc, !.settled = s] \in HostRecord
                /\ [wfHost[h] EXCEPT !.pc = pc, !.left = s] \in HostRecord
                /\ [wfHost[h] EXCEPT !.pc = pc, !.left = s, !.err = "failed"] \in HostRecord
                /\ [wfHost[h] EXCEPT !.pc = pc, !.child = NoTask, !.launched = s] \in HostRecord
BY DEF HostTyped, HostRecord, Set

\* The steps of a host keep its record typed.
LEMMA HostSets ==
    ASSUME DurInv, NEW h \in Hosts, HostNext(h) \/ wait(h) \/ monitorLease(h) \/ \E c \in Agents : agent(h, c)
    PROVE  wfHost' \in [Hosts -> HostRecord]
<1>1. HostTyped
  BY DEF DurInv, DurTyped
<1>2. /\ wfHost[h] \in HostRecord
      /\ \A rec \in HostRecord : Set(h, rec) => wfHost' \in [Hosts -> HostRecord]
      /\ \A pc \in HostPcs : [wfHost[h] EXCEPT !.pc = pc] \in HostRecord
      /\ \A pc \in HostPcs : \A c \in Agents : [wfHost[h] EXCEPT !.pc = pc, !.child = c] \in HostRecord
      /\ \A pc \in HostPcs : \A s \in SUBSET Agents :
           /\ [wfHost[h] EXCEPT !.pc = pc, !.settled = s] \in HostRecord
           /\ [wfHost[h] EXCEPT !.pc = pc, !.left = s] \in HostRecord
           /\ [wfHost[h] EXCEPT !.pc = pc, !.left = s, !.err = "failed"] \in HostRecord
           /\ [wfHost[h] EXCEPT !.pc = pc, !.child = NoTask, !.launched = s] \in HostRecord
  BY <1>1, HostRecords
<1>3. {"claimed", "script", "submitting", "waiting", "closing", "settling", "finishing"} \subseteq HostPcs
  BY DEF HostPcs
<1>4. /\ wfHost[h].launched \in SUBSET Agents /\ wfHost[h].settled \in SUBSET Agents
      /\ wfHost[h].left \in SUBSET Agents /\ wfHost[h].child \in Agents \cup {NoTask}
  BY <1>2 DEF HostRecord
<1>5. CASE ExecuteQueued(h)
  <2>1. wfQueue \in Seq(Runs) /\ wfQueue # <<>>
    BY <1>1, <1>5 DEF HostTyped, ExecuteQueued
  <2>2. Head(wfQueue) \in Runs
    BY <2>1
  <2>3. [IdleHost EXCEPT !.pc = "claimed", !.run = Head(wfQueue)] \in HostRecord
    BY <1>3, <2>2, IdleTyped DEF HostRecord
  <2> QED
    BY <1>1, <1>2, <1>5, <2>3 DEF ExecuteQueued, HostTyped
<1>6. CASE track(h)
  BY <1>2, <1>3, <1>6 DEF track
<1>7. CASE agentReturns(h)
  <2>2. PICK s : /\ s = wfHost[h].launched \/ s = wfHost[h].launched \cup {wfHost[h].child}
                 /\ Set(h, [wfHost[h] EXCEPT !.pc = "script", !.child = NoTask, !.launched = s])
    BY <1>2, <1>7 DEF agentReturns, HostRecord
  <2>3. wfHost[h].child \in Agents
    BY <1>7 DEF agentReturns, HostAt, DurInv, HostsSound, HostSound
  <2> QED
    BY <1>2, <1>3, <1>4, <2>2, <2>3
<1>8. CASE wait(h)
  <2>1. PICK c \in Agents : Set(h, [wfHost[h] EXCEPT !.pc = "waiting", !.child = c])
    BY <1>4, <1>8 DEF wait
  <2> QED
    BY <1>2, <1>3, <2>1
<1>9. CASE waitReturns(h)
  <2>1. wfHost[h].child \in Agents
    BY <1>9 DEF waitReturns, HostAt, DurInv, HostsSound, HostSound
  <2>2. wfHost[h].settled \cup {wfHost[h].child} \in SUBSET Agents
    BY <1>4, <2>1
  <2>3. CASE Set(h, [wfHost[h] EXCEPT !.pc = "script"])
    BY <1>2, <1>3, <2>3
  <2>4. CASE Set(h, [wfHost[h] EXCEPT !.pc = "script", !.settled = wfHost[h].settled \cup {wfHost[h].child}])
    BY <1>2, <1>3, <2>2, <2>4
  <2> QED
    BY <1>2, <1>9, <2>3, <2>4 DEF waitReturns, HostRecord
<1>10. CASE scriptEnds(h)
  <2>1. PICK err \in {"none", "failed", "canceled"} : \E n \in {1, 2} :
          Set(h, [wfHost[h] EXCEPT !.pc = "closing", !.left = wfHost[h].launched, !.err = err, !.passes = n])
    BY <1>10 DEF scriptEnds
  <2>2. \A n \in {1, 2} :
          [wfHost[h] EXCEPT !.pc = "closing", !.left = wfHost[h].launched, !.err = err, !.passes = n] \in HostRecord
    <3>1. \A n \in {1, 2} : n \in Int
      OBVIOUS
    <3>2. \A n \in Int : \A s \in SUBSET Agents : \A e \in {"none", "failed", "canceled"} :
            [wfHost[h] EXCEPT !.pc = "closing", !.left = s, !.err = e, !.passes = n] \in HostRecord
      BY <1>2, <1>3 DEF HostRecord
    <3> QED
      BY <1>4, <2>1, <3>1, <3>2
  <2> QED
    BY <1>2, <2>1, <2>2
<1>11. CASE cancelLaunched(h)
  <2>1. PICK c \in wfHost[h].left :
          \/ Set(h, [wfHost[h] EXCEPT !.pc = "closing", !.left = wfHost[h].left \ {c}])
          \/ Set(h, [wfHost[h] EXCEPT !.pc = "closing", !.left = wfHost[h].left \ {c}, !.err = "failed"])
          \/ Set(h, [wfHost[h] EXCEPT !.pc = "settling", !.child = c])
    BY <1>2, <1>11 DEF cancelLaunched, closable, PutsAside, PutsAsideFailed, HostRecord
  <2>2. wfHost[h].left \ {c} \in SUBSET Agents
    BY <1>4
  <2> QED
    BY <1>2, <1>3, <1>4, <2>1, <2>2
<1>12. CASE settleLaunched(h)
  <2>1. \/ Set(h, [wfHost[h] EXCEPT !.pc = "closing", !.left = wfHost[h].left \ {wfHost[h].child}])
        \/ Set(h, [wfHost[h] EXCEPT !.pc = "closing", !.left = wfHost[h].left \ {wfHost[h].child}, !.err = "failed"])
    BY <1>2, <1>12 DEF settleLaunched, PutsAside, PutsAsideFailed, HostRecord
  <2>2. wfHost[h].left \ {wfHost[h].child} \in SUBSET Agents
    BY <1>4
  <2> QED
    BY <1>2, <1>3, <2>1, <2>2
<1>13. CASE closed(h)
  <2>1. \/ \E err \in {wfHost[h].err, "failed"} :
             Set(h, [wfHost[h] EXCEPT !.passes = 0, !.left = wfHost[h].launched, !.err = err])
        \/ Set(h, [wfHost[h] EXCEPT !.pc = "finishing"])
    BY <1>13 DEF closed, Repeats
  <2>2. \A err \in {wfHost[h].err, "failed"} :
          [wfHost[h] EXCEPT !.passes = 0, !.left = wfHost[h].launched, !.err = err] \in HostRecord
    <3>1. 0 \in Int
      OBVIOUS
    <3>2. \A n \in Int : \A s \in SUBSET Agents : \A err \in {wfHost[h].err, "failed"} :
            [wfHost[h] EXCEPT !.passes = n, !.left = s, !.err = err] \in HostRecord
      BY <1>2 DEF HostRecord
    <3> QED
      BY <1>4, <3>1, <3>2
  <2> QED
    BY <1>2, <1>3, <2>1, <2>2
<1>14. CASE finishRun(h)
  BY <1>2, <1>14, IdleTyped DEF finishRun
<1>15. CASE monitorLease(h)
  <2>1. \/ UNCHANGED wfHost
        \/ \E err \in {"canceled", "failed"} : Set(h, [wfHost[h] EXCEPT !.stop = TRUE, !.err = err])
    BY <1>15 DEF monitorLease
  <2>2. \A err \in {"canceled", "failed"} : [wfHost[h] EXCEPT !.stop = TRUE, !.err = err] \in HostRecord
    BY <1>2 DEF HostRecord
  <2> QED
    BY <1>1, <1>2, <2>1, <2>2 DEF HostTyped
<1>16. ASSUME NEW c \in Agents, agent(h, c) PROVE wfHost' \in [Hosts -> HostRecord]
  BY <1>2, <1>3, <1>16 DEF agent
<1> QED
  BY <1>5, <1>6, <1>7, <1>8, <1>9, <1>10, <1>11, <1>12, <1>13, <1>14, <1>15, <1>16 DEF HostNext

\* What a step does to the dispatcher and its hosts.
WorkflowStep ==
    UNCHANGED wfVars \/ LoseRuns \/ ShutdownDispatcher \/ WorkflowNext

\* Whatever the step, the dispatcher does one of its own or nothing.
LEMMA WorkflowSteps ==
    ASSUME [Next]_vars PROVE WorkflowStep
BY DEF Next, Work, Interruptions, vars, SubmitAgentTask, CancelAgentTask, ProcessStops,
   ProcessExits, ProcessCrash, WorkflowStep

\* The dispatcher's queue holds runs.
LEMMA RunQueueTyped ==
    ASSUME DurInv, WorkflowNext PROVE wfQueue' \in Seq(Runs)
<1>1. wfQueue \in Seq(Runs)
  BY DEF DurInv, DurTyped, HostTyped
<1>2. CASE UNCHANGED wfQueue
  BY <1>1, <1>2
<1>3. ASSUME NEW r \in Runs, SubmitRun(r) PROVE wfQueue' \in Seq(Runs)
  <2>1. wfQueue' \in {wfQueue, Append(wfQueue, r)}
    BY <1>3 DEF SubmitRun, enqueue
  <2> QED
    BY <1>1, <2>1
<1>4. CASE enqueueQueued
  <2>1. PICK n \in Int : n >= 1 /\ \E page \in [1..n -> Runs] : wfQueue' = wfQueue \o page
    <3>1. RunQueueSize - Len(wfQueue) \in Int
      BY <1>1, WorkflowAssumption
    <3>2. \E n \in 1..(RunQueueSize - Len(wfQueue)) : \E page \in [1..n -> Runs] : wfQueue' = wfQueue \o page
      BY <1>4 DEF enqueueQueued
    <3> QED
      BY <3>1, <3>2
  <2>2. PICK page \in [1..n -> Runs] : wfQueue' = wfQueue \o page
    BY <2>1
  <2>3. page \in Seq(Runs)
    <3>1. n \in Nat
      BY <2>1
    <3>2. \A k \in Nat : \A p \in [1..k -> Runs] : p \in Seq(Runs)
      BY SMT
    <3> QED
      BY <3>1, <3>2
  <2> QED
    BY <1>1, <2>2, <2>3
<1>5. ASSUME NEW h \in Hosts, ExecuteQueued(h) PROVE wfQueue' \in Seq(Runs)
  BY <1>1, <1>5 DEF ExecuteQueued
<1> QED
  BY <1>2, <1>3, <1>4, <1>5 DEF WorkflowNext, HostNext, ListInterrupted, StartDispatcher,
     RecoverInterrupted, CancelRun, signalRun, track, agentReturns, wait, waitReturns, scriptEnds,
     cancelLaunched, settleLaunched, closed, finishRun, monitorLease, agent, HostOnly, HostKeeps

\* A run is linked to calls of its own script.
LEMMA LinksTyped ==
    ASSUME DurInv, WorkflowNext
    PROVE  wfLinks' \in [Runs -> SUBSET Agents] /\ \A r \in Runs : wfLinks'[r] \subseteq Launches[r]
<1>1. wfLinks \in [Runs -> SUBSET Agents] /\ \A r \in Runs : wfLinks[r] \subseteq Launches[r]
  BY DEF DurInv, DurTyped, HostTyped
<1>2. CASE UNCHANGED wfLinks
  BY <1>1, <1>2
<1>3. ASSUME NEW h \in Hosts, NEW c \in Agents, agent(h, c)
      PROVE  wfLinks' \in [Runs -> SUBSET Agents] /\ \A r \in Runs : wfLinks'[r] \subseteq Launches[r]
  <2>1. c \in Launches[RunAt(h)] /\ wfLinks' = [wfLinks EXCEPT ![RunAt(h)] = @ \cup {c}]
    BY <1>3 DEF agent
  <2>2. wfLinks' \in [Runs -> SUBSET Agents]
    BY <1>1, <2>1
  <2>3. \A r \in Runs : wfLinks'[r] \subseteq Launches[r]
    BY <1>1, <2>1
  <2> QED
    BY <2>2, <2>3
<1> QED
  BY <1>2, <1>3 DEF WorkflowNext, HostNext, ListInterrupted, StartDispatcher, enqueueQueued,
     RecoverInterrupted, SubmitRun, CancelRun, signalRun, ExecuteQueued, track, agentReturns, wait,
     waitReturns, scriptEnds, cancelLaunched, settleLaunched, closed, finishRun, monitorLease,
     HostOnly, HostKeeps, wfRows

\* Every step keeps the dispatcher typed.
LEMMA HostTypedStep ==
    ASSUME DurInv, WorkflowStep PROVE HostTyped'
<1>1. HostTyped
  BY DEF DurInv, DurTyped
<1>2. CASE UNCHANGED wfVars
  BY <1>1, <1>2 DEF HostTyped, wfVars, wfMemory, wfRows
<1>3. CASE LoseRuns
  <2>1. <<>> \in Seq(Runs)
    OBVIOUS
  <2> QED
    BY <1>1, <1>3, <2>1, IdleTyped DEF HostTyped, LoseRuns, wfRows
<1>4. CASE ShutdownDispatcher
  BY <1>1, <1>4 DEF HostTyped, ShutdownDispatcher, wfRows
<1>5. CASE WorkflowNext
  <2>1. wfPhase' \in {"down", "recovering", "up", "closed"}
    BY <1>1, <1>5 DEF HostTyped, WorkflowNext, HostNext, ListInterrupted, StartDispatcher, enqueueQueued,
       RecoverInterrupted, SubmitRun, CancelRun, signalRun, ExecuteQueued, track, agentReturns, wait,
       waitReturns, scriptEnds, cancelLaunched, settleLaunched, closed, finishRun, monitorLease, agent, HostOnly, HostKeeps
  <2>2. wfHost' \in [Hosts -> HostRecord]
    <3>1. CASE UNCHANGED wfHost
      BY <1>1, <3>1 DEF HostTyped
    <3>2. ASSUME NEW r \in Runs, signalRun(r) PROVE wfHost' \in [Hosts -> HostRecord]
      <4>1. \A h \in Hosts : wfHost[h] \in HostRecord /\ [wfHost[h] EXCEPT !.stop = TRUE] \in HostRecord
        BY <1>1 DEF HostTyped, HostRecord
      <4> QED
        BY <3>2, <4>1 DEF signalRun
    <3> QED
      BY <1>5, <3>1, <3>2, HostSets DEF WorkflowNext, ListInterrupted, StartDispatcher, enqueueQueued,
         RecoverInterrupted, SubmitRun, CancelRun
  <2> QED
    BY <1>5, <2>1, <2>2, RunQueueTyped, LinksTyped DEF HostTyped
<1> QED
  BY <1>2, <1>3, <1>4, <1>5 DEF WorkflowStep

--------------------------------------------------------------------------------
(* The process and the rows.                                                   *)

\* The services of a process live and die together.
LEMMA ProcessStep ==
    ASSUME DurInv, [Next]_vars PROVE ProcessSound'
<1>1. ProcessSound /\ AgentTyped
  BY DEF DurInv, DurTyped
<1>2. CASE UNCHANGED <<agProcess, wfPhase>>
  BY <1>1, <1>2 DEF ProcessSound, Alive, agProcess
<1>3. CASE AgentNext /\ UNCHANGED wfVars
  <2>1. CASE UNCHANGED agProcess
    BY <1>2, <1>3, <2>1 DEF wfVars, wfMemory
  <2>2. ASSUME NEW o \in Owners, NewStopped(o) PROVE ProcessSound'
    BY <1>1, <1>3, <2>2 DEF ProcessSound, NewStopped, Alive, wfVars, wfMemory
  <2>3. CASE Start
    BY <1>1, <1>3, <2>3 DEF ProcessSound, Start, Alive, wfVars, wfMemory
  <2> QED
    BY <1>3, <2>1, <2>2, <2>3 DEF AgentNext, enqueueRecovered, enqueueCreated, requeueFires, cancelActive,
       WorkerNext, renewLease, workerDequeues, workerDrops, acquireSessionSlot, claim, registers, execute,
       reserveOutputAttempt, promptEnds, checkpointOutputAttempt, finalizeRun, finish
<1>4. CASE WorkflowNext
  <2>1. UNCHANGED agProcess
    BY <1>4 DEF WorkflowNext, HostNext, ListInterrupted, StartDispatcher, enqueueQueued, agVars, agState,
       RecoverInterrupted, SubmitRun, CancelRun, signalRun, ExecuteQueued, track, agentReturns, wait,
       waitReturns, scriptEnds, cancelLaunched, settleLaunched, closed, finishRun, monitorLease, agent,
       Cancel, Submit
  <2>2. wfPhase' = wfPhase \/ wfPhase # "down" \/ agPhase = "up"
    BY <1>4 DEF WorkflowNext, HostNext, ListInterrupted, StartDispatcher, enqueueQueued, HostOnly, HostKeeps,
       RecoverInterrupted, SubmitRun, CancelRun, signalRun, ExecuteQueued, track, agentReturns, wait,
       waitReturns, scriptEnds, cancelLaunched, settleLaunched, closed, finishRun, monitorLease, agent
  <2> QED
    BY <1>1, <2>1, <2>2 DEF ProcessSound, Alive, agProcess
<1>5. CASE ShutdownDispatcher
  BY <1>1, <1>5 DEF ProcessSound, ShutdownDispatcher, Alive, agVars, agState, agProcess
<1>6. CASE ProcessStops
  BY <1>1, <1>6 DEF ProcessSound, ProcessStops, Shutdown, Alive, wfVars, wfMemory
<1>7. CASE ProcessExits \/ ProcessCrash
  BY <1>7 DEF ProcessSound, ProcessExits, ProcessCrash, Exit, Crash, LoseMemory, LoseRuns, Alive
<1> QED
  BY <1>2, <1>3, <1>4, <1>5, <1>6, <1>7 DEF Next, Work, Interruptions, vars, agVars, agState, wfVars, wfMemory,
     SubmitAgentTask, CancelAgentTask, Submit, Cancel

\* A row that follows its life keeps its lease as long as it works.
LEMMA RowsSoundStep ==
    ASSUME DurInv, RowsFollow PROVE RowsSound'
<1>1. \A t \in Tasks : Follows(t)
  BY DEF RowsFollow
<1>2. RowsSound /\ Runs \subseteq Tasks
  BY WorkflowAssumption DEF DurInv
<1>3. \A t \in Tasks : StateOf(t)' = "queued" => tasks'[t].owner = NoOwner
  BY <1>1, <1>2 DEF Follows, RowsSound, OpenStates, TerminalStates
<1>4. \A r \in Runs : StateOf(r)' \in ActiveStates => tasks'[r].owner # NoOwner
  BY <1>1, <1>2, OwnerAssumption DEF Follows, RowsSound, ActiveStates, OpenStates, TerminalStates
<1> QED
  BY <1>3, <1>4 DEF RowsSound, StateOf

--------------------------------------------------------------------------------
(* Consequences of the life of a row.                                          *)

\* Rows are not created twice, not queued again and not reopened.
LEMMA Onwards ==
    ASSUME tasks \in [Tasks -> Rows], RowsFollow, NEW t \in Tasks
    PROVE  /\ StateOf(t) # "absent" => StateOf(t)' # "absent"
           /\ StateOf(t) \notin {"absent", "queued"} => StateOf(t)' \notin {"absent", "queued"}
           /\ StateOf(t) \in TerminalStates => StateOf(t)' \in TerminalStates
           /\ StateOf(t) \in TaskStates /\ StateOf(t)' \in TaskStates
<1>1. Follows(t) /\ tasks[t] \in Rows /\ tasks'[t] \in Rows
  BY DEF RowsFollow
<1>2. StateOf(t) \in TaskStates /\ StateOf(t)' \in TaskStates
  BY <1>1 DEF StateOf, Rows
<1> QED
  BY <1>1, <1>2 DEF Follows, OpenStates, TerminalStates

\* A step is one of the agent service, or leaves the agent service alone.
LEMMA StepKinds ==
    ASSUME DurInv, [Next]_vars
    PROVE  \/ AgentAct
           \/ /\ UNCHANGED agState
              /\ \/ UNCHANGED tasks
                 \/ \E t \in Tasks : Expire(t)
                 \/ \E r \in Runs : RecoverInterrupted(r) \/ SubmitRun(r) \/ CancelRun(r)
                 \/ \E h \in Hosts : ExecuteQueued(h) \/ finishRun(h) \/ monitorLease(h)
<1>1. AgentAct \/ UNCHANGED agState
  BY AgentSteps DEF AgentStep
<1>2. ASSUME UNCHANGED agState
      PROVE  \/ AgentAct \/ UNCHANGED tasks
             \/ \E t \in Tasks : Expire(t)
             \/ \E r \in Runs : RecoverInterrupted(r) \/ SubmitRun(r) \/ CancelRun(r)
             \/ \E h \in Hosts : ExecuteQueued(h) \/ finishRun(h) \/ monitorLease(h)
  <2>1. ASSUME NEW h \in Hosts, cancelLaunched(h) PROVE AgentAct \/ UNCHANGED tasks
    <3>1. wfHost[h].left \subseteq Agents /\ h \in Cancelers
      BY WorkflowAssumption DEF DurInv, DurTyped, HostTyped, HostRecord
    <3>2. PICK c \in wfHost[h].left : UNCHANGED tasks \/ Cancel(h, c)
      BY <2>1 DEF cancelLaunched, closable
    <3> QED
      BY <3>1, <3>2 DEF AgentAct
  <2>2. CASE WorkflowNext
    BY <2>1, <2>2 DEF WorkflowNext, HostNext, ListInterrupted, StartDispatcher, enqueueQueued, signalRun, track,
       agentReturns, wait, waitReturns, scriptEnds, settleLaunched, closed, agent, AgentAct
  <2>3. CASE AgentNext
    BY <2>3 DEF AgentNext, AgentAct
  <2> QED
    BY <2>2, <2>3 DEF Next, Work, Interruptions, vars, SubmitAgentTask, CancelAgentTask, AgentAct,
       ShutdownDispatcher, ProcessStops, ProcessExits, Exit, ProcessCrash, Crash
<1> QED
  BY <1>1, <1>2

\* Putting a row leaves the others.
LEMMA PutOther ==
    ASSUME tasks \in [Tasks -> Rows], NEW t, NEW row, Put(t, row), NEW u \in Tasks, u # t
    PROVE  tasks'[u] = tasks[u]
BY DEF Put

\* The agent service leaves the rows of the runs.
LEMMA AgentLeavesRuns ==
    ASSUME DurInv, AgentAct, NEW r \in Runs PROVE tasks'[r] = tasks[r]
<1>1. tasks \in [Tasks -> Rows] /\ r \in Tasks /\ r \notin Agents
  BY WorkflowAssumption DEF DurInv, DurTyped
<1>2. \A t \in Agents : \A row : Put(t, row) => tasks'[r] = tasks[r]
  BY <1>1 DEF Put
<1>3. recoverInterrupted => tasks'[r] = tasks[r]
  BY <1>1 DEF recoverInterrupted
<1>4. ASSUME NEW w \in AgentWorkers, WorkerNext(w) \/ renewLease(w) PROVE tasks'[r] = tasks[r]
  <2>1. agWork[w].pc # "idle" => TaskAt(w) \in Agents
    BY DEF DurInv, WorkersSound
  <2>2. CASE UNCHANGED tasks
    BY <2>2
  <2>3. CASE claim(w)
    BY <1>2, <2>1, <2>3 DEF claim, At, ClaimQueued
  <2>4. CASE renewLease(w)
    BY <1>2, <2>1, <2>4 DEF renewLease, RenewLease, Registered
  <2>5. CASE finish(w)
    BY <1>2, <1>3, <2>1, <2>5 DEF finish, At, Finish
  <2> QED
    BY <1>4, <2>2, <2>3, <2>4, <2>5 DEF WorkerNext, workerDequeues, workerDrops, acquireSessionSlot,
       registers, execute, reserveOutputAttempt, promptEnds, checkpointOutputAttempt, finalizeRun
<1>5. ASSUME NEW t \in Agents, Submit(t) \/ enqueueCreated(t) \/ \E c \in Cancelers : Cancel(c, t)
      PROVE  tasks'[r] = tasks[r]
  BY <1>2, <1>5 DEF Submit, Create, enqueueCreated, rejectQueuedTask, Finish, Cancel, Transition
<1> QED
  BY <1>3, <1>4, <1>5 DEF AgentAct, NewStopped, Start, Shutdown, LoseMemory, enqueueRecovered,
     requeueFires, cancelActive

\* A child is linked in the step that submits it, and otherwise the links stay.
LEMMA LinksStep ==
    ASSUME DurInv, [Next]_vars
    PROVE  UNCHANGED wfLinks \/ \E h \in Hosts, c \in Agents : agent(h, c)
<1>1. WorkflowStep
  BY WorkflowSteps
<1> QED
  BY <1>1 DEF WorkflowStep, wfVars, wfRows, LoseRuns, ShutdownDispatcher, WorkflowNext, HostNext, ListInterrupted,
     StartDispatcher, enqueueQueued, RecoverInterrupted, SubmitRun, CancelRun, signalRun, ExecuteQueued, track,
     agentReturns, wait, waitReturns, scriptEnds, cancelLaunched, settleLaunched, closed, finishRun, monitorLease,
     HostOnly, HostKeeps

\* The children that are linked are durable, so those that are not open have ended.
LEMMA ClosedChildren ==
    ASSUME DurInv, NEW r \in Runs, ActiveChildren(r) = {}, NEW c \in wfLinks[r]
    PROVE  StateOf(c) \in TerminalStates
<1>1. c \in Tasks /\ tasks[c] \in Rows
  BY AgentAssumption DEF DurInv, DurTyped, HostTyped
<1>2. StateOf(c) \notin OpenStates /\ StateOf(c) # "absent"
  BY DEF DurInv, LinksSound, ActiveChildren
<1> QED
  BY <1>1, <1>2 DEF StateOf, Rows, TaskStates, ActiveStates, OpenStates, TerminalStates

\* A run that a cascade ends had never started.
LEMMA CascadeEnds ==
    ASSUME DurInv, NEW q \in Runs, CancelOwned(q), NEW r \in Runs,
           StateOf(r) \notin TerminalStates, StateOf(r)' \in TerminalStates
    PROVE  wfLinks[r] = {}
<1>1. /\ tasks'[q] = cancelWorkflowRun(q)
      /\ \A t \in Tasks : t # q /\ t \notin wfLinks[q] => tasks'[t] = tasks[t]
  BY CascadeRows DEF DurInv
<1>2. r \in Tasks /\ r \notin wfLinks[q] /\ tasks[r] \in Rows
  BY WorkflowAssumption DEF DurInv, DurTyped, HostTyped
<1>3. r = q
  BY <1>1, <1>2 DEF StateOf
<1>4. "canceling" \notin TerminalStates
  BY DEF TerminalStates
<1>5. StateOf(r) \in {"queued", "running"} /\ tasks[r].owner = NoOwner
  <2>1. tasks'[r] # tasks[r]
    BY DEF StateOf
  <2>2. tasks'[r] = cancelWorkflowRun(r)
    BY <1>1, <1>3
  <2>3. tasks'[r] # [tasks[r] EXCEPT !.state = "canceling"]
    BY <1>2, <1>4 DEF StateOf, Rows
  <2> QED
    BY <2>1, <2>2, <2>3 DEF cancelWorkflowRun
<1>6. StateOf(r) = "queued"
  BY <1>5 DEF DurInv, RowsSound, ActiveStates
<1> QED
  BY <1>6 DEF DurInv, LinksSound

\* An outcome is written when the children have ended, and to the row of the run only.
LEMMA FinishOwnedEnds ==
    ASSUME DurInv, NEW q \in Runs, NEW target, NEW o, FinishOwned(q, target, o), NEW r \in Runs,
           StateOf(r) \notin TerminalStates, StateOf(r)' \in TerminalStates
    PROVE  \A c \in wfLinks[r] : StateOf(c)' \in TerminalStates
<1>1. tasks \in [Tasks -> Rows] /\ r \in Tasks
  BY WorkflowAssumption DEF DurInv, DurTyped
<1>2. ActiveChildren(q) = {} /\ Put(q, Row(target, NoOwner))
  BY DEF FinishOwned, StateOf, Finish
<1>3. r = q
  BY <1>1, <1>2, PutOther DEF StateOf
<1>4. \A c \in wfLinks[r] : StateOf(c) \in TerminalStates
  BY <1>2, <1>3, ClosedChildren
<1>5. \A c \in wfLinks[r] : c \in Tasks /\ c # q
  BY AgentAssumption, WorkflowAssumption DEF DurInv, DurTyped, HostTyped
<1> QED
  BY <1>1, <1>2, <1>4, <1>5, PutOther DEF StateOf

\* Whatever the step that ends a run, none of the run's children goes on.
LEMMA RunEnds ==
    ASSUME DurInv, [Next]_vars, NEW r \in Runs, StateOf(r) \notin TerminalStates, StateOf(r)' \in TerminalStates
    PROVE  \A c \in wfLinks[r] : StateOf(c)' \in TerminalStates
<1>1. tasks \in [Tasks -> Rows] /\ r \in Tasks /\ r \notin Agents /\ tasks[r] \in Rows
  BY WorkflowAssumption DEF DurInv, DurTyped
<1>2. CASE AgentAct \/ UNCHANGED tasks
  BY <1>2, AgentLeavesRuns DEF StateOf
<1>3. ASSUME NEW t \in Tasks, NEW flag \in BOOLEAN, Put(t, [tasks[t] EXCEPT !.live = flag]) PROVE FALSE
  <2>1. tasks'[r] = tasks[r] \/ tasks'[r] = [tasks[r] EXCEPT !.live = flag]
    BY <1>1, <1>3 DEF Put
  <2> QED
    BY <1>1, <2>1 DEF StateOf, Rows
<1>4. ASSUME NEW q \in Runs, RecoverInterrupted(q) \/ CancelRun(q)
      PROVE  \A c \in wfLinks[r] : StateOf(c)' \in TerminalStates
  <2>1. CancelOwned(q) \/ FinishOwned(q, "interrupted", NoOwner)
    BY <1>4 DEF RecoverInterrupted, CancelRun
  <2> QED
    BY <2>1, CascadeEnds, FinishOwnedEnds
<1>5. ASSUME NEW q \in Tasks, NEW row, Put(q, row), row.state \notin TerminalStates PROVE FALSE
  <2>1. tasks'[r] = tasks[r] \/ tasks'[r] = row
    BY <1>1, <1>5 DEF Put
  <2> QED
    BY <1>5, <2>1 DEF StateOf
<1>6. ASSUME NEW q \in Runs, SubmitRun(q) PROVE FALSE
  <2>1. Row("queued", NoOwner).state \notin TerminalStates /\ q \in Tasks
    BY WorkflowAssumption DEF Row, TerminalStates
  <2> QED
    BY <1>5, <1>6, <2>1 DEF SubmitRun, Create
<1>7. ASSUME NEW h \in Hosts, ExecuteQueued(h) PROVE FALSE
  <2>1. wfQueue \in Seq(Runs) /\ wfQueue # <<>>
    BY <1>7 DEF ExecuteQueued, DurInv, DurTyped, HostTyped
  <2>2. Head(wfQueue) \in Tasks
    BY <2>1, WorkflowAssumption
  <2>3. Row("running", agOwner).state \notin TerminalStates
    BY DEF Row, TerminalStates
  <2>4. UNCHANGED tasks \/ Put(Head(wfQueue), Row("running", agOwner))
    BY <1>7 DEF ExecuteQueued, ClaimQueued
  <2> QED
    BY <1>5, <2>2, <2>3, <2>4 DEF StateOf
<1>8. ASSUME NEW h \in Hosts, finishRun(h) PROVE \A c \in wfLinks[r] : StateOf(c)' \in TerminalStates
  <2>1. RunAt(h) \in Runs
    BY <1>8 DEF finishRun, HostAt, DurInv, HostsSound, HostSound
  <2>2. FinishOwned(RunAt(h), workflowOutcome(h), agOwner) \/ UNCHANGED tasks
    BY <1>8 DEF finishRun
  <2> QED
    BY <1>2, <2>1, <2>2, FinishOwnedEnds
<1>9. ASSUME NEW h \in Hosts, monitorLease(h) PROVE FALSE
  <2>1. RunAt(h) \in Tasks
    BY <1>9, WorkflowAssumption DEF monitorLease, Tracked, DurInv, HostsSound, HostSound
  <2>2. Put(RunAt(h), [tasks[RunAt(h)] EXCEPT !.live = TRUE]) \/ UNCHANGED tasks
    BY <1>9 DEF monitorLease, RenewLease
  <2> QED
    BY <1>3, <2>1, <2>2 DEF StateOf
<1>10. ASSUME NEW t \in Tasks, Expire(t) PROVE FALSE
  BY <1>3, <1>10 DEF Expire
<1> QED
  BY <1>2, <1>4, <1>6, <1>7, <1>8, <1>9, <1>10, StepKinds

\* Children stay linked to runs that have started, and end before the run does.
LEMMA LinksSoundStep ==
    ASSUME DurInv, [Next]_vars PROVE LinksSound'
<1>1. tasks \in [Tasks -> Rows] /\ LinksSound /\ RowsFollow
  BY RowsStep DEF DurInv, DurTyped
<1>2. /\ wfLinks \in [Runs -> SUBSET Agents] /\ Agents \subseteq Tasks /\ Runs \subseteq Tasks
  BY AgentAssumption, WorkflowAssumption DEF DurInv, DurTyped, HostTyped
<1>3. \A t \in Tasks : /\ StateOf(t) # "absent" => StateOf(t)' # "absent"
                       /\ StateOf(t) \notin {"absent", "queued"} => StateOf(t)' \notin {"absent", "queued"}
                       /\ StateOf(t) \in TerminalStates => StateOf(t)' \in TerminalStates
  BY <1>1, Onwards
<1>4. \A r \in Runs : StateOf(r)' \in TerminalStates => \A c \in wfLinks[r] : StateOf(c)' \in TerminalStates
  <2> SUFFICES ASSUME NEW r \in Runs, StateOf(r)' \in TerminalStates, NEW c \in wfLinks[r]
               PROVE  StateOf(c)' \in TerminalStates
    OBVIOUS
  <2>1. CASE StateOf(r) \notin TerminalStates
    BY <2>1, RunEnds
  <2>2. CASE StateOf(r) \in TerminalStates
    <3>1. StateOf(c) \in TerminalStates /\ c \in Tasks
      BY <1>1, <1>2, <2>2, ClosedChildren DEF LinksSound, NoChildOutlivesRun
    <3> QED
      BY <1>3, <3>1
  <2> QED
    BY <2>1, <2>2
<1>5. TerminalStates \cap OpenStates = {} /\ TerminalStates \cap {"absent", "queued"} = {}
  BY DEF TerminalStates, OpenStates
<1>6. CASE UNCHANGED wfLinks
  <2>1. \A r \in Runs : StateOf(r)' \in {"absent", "queued"} => wfLinks'[r] = {}
    BY <1>1, <1>2, <1>3, <1>6 DEF LinksSound
  <2>2. \A r \in Runs : \A c \in wfLinks'[r] : StateOf(c)' # "absent"
    BY <1>1, <1>2, <1>3, <1>6 DEF LinksSound
  <2>3. \A r \in Runs : StateOf(r)' \in TerminalStates => \A c \in wfLinks'[r] : StateOf(c)' \notin OpenStates
    BY <1>4, <1>5, <1>6
  <2> QED
    BY <2>1, <2>2, <2>3 DEF LinksSound, NoChildOutlivesRun, ActiveChildren, StateOf
<1>7. ASSUME NEW h \in Hosts, NEW c \in Agents, agent(h, c) PROVE LinksSound'
  <2>1. /\ RunAt(h) \in Runs /\ StateOf(RunAt(h)) \in {"queued", "running"}
        /\ StateOf(RunAt(h)) \notin {"absent", "queued"}
    BY <1>7 DEF agent, HostAt, fenceWorkflowAdmission, DurInv, HostsSound, HostSound
  <2>2. wfLinks' = [wfLinks EXCEPT ![RunAt(h)] = @ \cup {c}] /\ Put(c, Row("queued", NoOwner))
    BY <1>7 DEF agent, Submit, Create
  <2>3. tasks'[c] = Row("queued", NoOwner) /\ \A t \in Tasks : t # c => tasks'[t] = tasks[t]
    BY <1>1, <1>2, <2>2 DEF Put
  <2>4. StateOf(c)' = "queued" /\ \A r \in Runs : StateOf(r)' = StateOf(r)
    BY <1>2, <2>1, <2>3, WorkflowAssumption DEF StateOf, Row
  <2>5. \A r \in Runs : r # RunAt(h) => wfLinks'[r] = wfLinks[r]
    BY <1>2, <2>2
  <2>6. wfLinks'[RunAt(h)] = wfLinks[RunAt(h)] \cup {c}
    BY <1>2, <2>1, <2>2
  <2>7. \A r \in Runs : StateOf(r)' \in {"absent", "queued"} => wfLinks'[r] = {}
    BY <1>1, <1>2, <1>3, <2>1, <2>4, <2>5 DEF LinksSound
  <2>8. \A r \in Runs : \A d \in wfLinks'[r] : StateOf(d)' # "absent"
    <3> SUFFICES ASSUME NEW r \in Runs, NEW d \in wfLinks'[r] PROVE StateOf(d)' # "absent"
      OBVIOUS
    <3>1. d = c \/ d \in wfLinks[r]
      BY <2>5, <2>6
    <3> QED
      BY <1>1, <1>2, <1>3, <2>4, <3>1 DEF LinksSound
  <2>9. "running" \notin TerminalStates
    BY DEF TerminalStates
  <2>10. \A r \in Runs : StateOf(r)' \in TerminalStates => \A d \in wfLinks'[r] : StateOf(d)' \notin OpenStates
    <3> SUFFICES ASSUME NEW r \in Runs, StateOf(r)' \in TerminalStates PROVE r # RunAt(h)
      BY <1>4, <1>5, <2>5
    <3> QED
      BY <1>5, <2>1, <2>4, <2>9
  <2> QED
    BY <2>7, <2>8, <2>10 DEF LinksSound, NoChildOutlivesRun, ActiveChildren, StateOf
<1> QED
  BY <1>6, <1>7, LinksStep

--------------------------------------------------------------------------------
(* Workers.                                                                    *)

\* A worker may go on with its own row, and get to work on a row that nobody works on.
MayBecome(w, rec) ==
    /\ rec.pc = "idle" => rec = IdleWorker
    /\ rec.pc # "idle" => rec.task \in Agents
    /\ rec.pc \in Beyond => /\ StateOf(rec.task)' \notin {"absent", "queued"}
                            /\ \A v \in AgentWorkers : v # w /\ agWork[v].pc \in Beyond => TaskAt(v) # rec.task
    /\ rec.pc = "finishing" => rec.err \in TerminalStates

\* One worker moves, the others stay.
LEMMA WorkerMoves ==
    ASSUME DurInv, RowsFollow, NEW w \in AgentWorkers, NEW rec, Become(w, rec), MayBecome(w, rec),
           UNCHANGED agCancel
    PROVE  WorkersSound'
<1>1. /\ agWork'[w] = rec /\ \A v \in AgentWorkers : v # w => agWork'[v] = agWork[v]
  BY DEF Become, DurInv, DurTyped, AgentTyped
<1>2. WorkersSound /\ tasks \in [Tasks -> Rows] /\ Agents \subseteq Tasks
  BY AgentAssumption DEF DurInv, DurTyped
<1>3. "idle" \notin Beyond
  BY DEF Beyond, Holding
<1>4. \A v \in AgentWorkers : v # w => TaskAt(v)' = TaskAt(v)
  BY <1>1 DEF TaskAt
<1>5. TaskAt(w)' = rec.task
  BY <1>1 DEF TaskAt
<1>6. \A v \in AgentWorkers : agWork'[v].pc = "idle" => agWork'[v] = IdleWorker
  BY <1>1, <1>2 DEF WorkersSound, MayBecome
<1>7. \A v \in AgentWorkers : agWork'[v].pc # "idle" => TaskAt(v)' \in Agents
  BY <1>1, <1>2, <1>4, <1>5 DEF WorkersSound, MayBecome
<1>8. \A v \in AgentWorkers : agWork'[v].pc \in Beyond => tasks'[agWork'[v].task].state \notin {"absent", "queued"}
  <2> SUFFICES ASSUME NEW v \in AgentWorkers, v # w, agWork[v].pc \in Beyond
               PROVE  tasks'[agWork[v].task].state \notin {"absent", "queued"}
    BY <1>1 DEF MayBecome, StateOf
  <2>1. TaskAt(v) \in Tasks /\ StateOf(TaskAt(v)) \notin {"absent", "queued"}
    BY <1>2, <1>3 DEF WorkersSound
  <2>2. \A t \in Tasks : StateOf(t) \notin {"absent", "queued"} => StateOf(t)' \notin {"absent", "queued"}
    BY <1>2, Onwards
  <2> QED
    BY <2>1, <2>2 DEF StateOf, TaskAt
<1>9. \A v \in AgentWorkers : agWork'[v].pc = "finishing" => agWork'[v].err \in TerminalStates
  BY <1>1, <1>2 DEF WorkersSound, MayBecome
<1>10. OneWorkerPerTask'
  <2> SUFFICES ASSUME NEW u \in AgentWorkers, NEW v \in AgentWorkers, u # v,
                      agWork'[u].pc \in Beyond, agWork'[v].pc \in Beyond
               PROVE  agWork'[u].task # agWork'[v].task
    BY DEF OneWorkerPerTask, TaskAt, Beyond
  <2>1. \A x, y \in AgentWorkers : x # y /\ agWork[x].pc \in Beyond /\ agWork[y].pc \in Beyond
                                   => agWork[x].task # agWork[y].task
    BY <1>2 DEF WorkersSound, OneWorkerPerTask, TaskAt, Beyond
  <2> QED
    BY <1>1, <2>1 DEF MayBecome, TaskAt
<1> QED
  BY <1>2, <1>6, <1>7, <1>8, <1>9, <1>10 DEF WorkersSound, TaskAt, StateOf

\* A worker that goes on keeps its row.
LEMMA GoesOn ==
    ASSUME DurInv, RowsFollow, NEW w \in AgentWorkers, NEW pc \in WorkerPcs \ {"idle"}, agWork[w].pc # "idle",
           pc \in Beyond => agWork[w].pc \in Beyond, NEW rec, rec.pc = pc, rec.task = TaskAt(w),
           pc = "finishing" => rec.err \in TerminalStates
    PROVE  MayBecome(w, rec)
<1>1. WorkersSound /\ tasks \in [Tasks -> Rows] /\ Agents \subseteq Tasks
  BY AgentAssumption DEF DurInv, DurTyped
<1>2. rec.task \in Agents
  BY <1>1 DEF WorkersSound
<1>3. ASSUME pc \in Beyond PROVE StateOf(rec.task)' \notin {"absent", "queued"}
  <2>1. StateOf(rec.task) \notin {"absent", "queued"}
    BY <1>1, <1>3 DEF WorkersSound
  <2> QED
    BY <1>1, <1>2, <2>1, Onwards
<1>4. ASSUME pc \in Beyond, NEW v \in AgentWorkers, v # w, agWork[v].pc \in Beyond PROVE TaskAt(v) # rec.task
  BY <1>1, <1>4 DEF WorkersSound, OneWorkerPerTask, Beyond
<1> QED
  BY <1>2, <1>3, <1>4 DEF MayBecome

\* The records a worker writes.
LEMMA WorkerRecords ==
    ASSUME AgentTyped, NEW w \in AgentWorkers
    PROVE  /\ \A pc : /\ [agWork[w] EXCEPT !.pc = pc].pc = pc
                      /\ [agWork[w] EXCEPT !.pc = pc].task = TaskAt(w)
           /\ \A pc, err : /\ [agWork[w] EXCEPT !.pc = pc, !.err = err].pc = pc
                           /\ [agWork[w] EXCEPT !.pc = pc, !.err = err].task = TaskAt(w)
                           /\ [agWork[w] EXCEPT !.pc = pc, !.err = err].err = err
           /\ \A pc, n : /\ [agWork[w] EXCEPT !.pc = pc, !.attempt = n].pc = pc
                         /\ [agWork[w] EXCEPT !.pc = pc, !.attempt = n].task = TaskAt(w)
           /\ LET rec == [agWork[w] EXCEPT !.stop = TRUE] IN
              /\ rec.pc = agWork[w].pc /\ rec.task = TaskAt(w) /\ rec.err = agWork[w].err /\ rec.stop = TRUE
<1>1. agWork[w] \in WorkRecord
  BY DEF AgentTyped
<1> QED
  BY <1>1 DEF WorkRecord, TaskAt

\* Each step of a worker makes one move of that worker.
LEMMA WorkerMove ==
    ASSUME DurInv, RowsFollow, NEW w \in AgentWorkers, WorkerNext(w) \/ renewLease(w)
    PROVE  UNCHANGED agWork \/ \E rec : Become(w, rec) /\ MayBecome(w, rec)
<1>1. AgentTyped /\ WorkersSound /\ tasks \in [Tasks -> Rows] /\ Agents \subseteq Tasks
  BY AgentAssumption DEF DurInv, DurTyped
<1>2. /\ \A pc : /\ [agWork[w] EXCEPT !.pc = pc].pc = pc
                 /\ [agWork[w] EXCEPT !.pc = pc].task = TaskAt(w)
      /\ \A pc, err : /\ [agWork[w] EXCEPT !.pc = pc, !.err = err].pc = pc
                      /\ [agWork[w] EXCEPT !.pc = pc, !.err = err].task = TaskAt(w)
                      /\ [agWork[w] EXCEPT !.pc = pc, !.err = err].err = err
      /\ \A pc, n : /\ [agWork[w] EXCEPT !.pc = pc, !.attempt = n].pc = pc
                    /\ [agWork[w] EXCEPT !.pc = pc, !.attempt = n].task = TaskAt(w)
      /\ LET rec == [agWork[w] EXCEPT !.stop = TRUE] IN
         /\ rec.pc = agWork[w].pc /\ rec.task = TaskAt(w) /\ rec.err = agWork[w].err /\ rec.stop = TRUE
  BY <1>1, WorkerRecords
<1>3. \A pc \in WorkerPcs \ {"idle"} : \A rec :
        /\ agWork[w].pc # "idle" /\ (pc \in Beyond => agWork[w].pc \in Beyond)
        /\ rec.pc = pc /\ rec.task = TaskAt(w)
        /\ pc = "finishing" => rec.err \in TerminalStates
        => MayBecome(w, rec)
  BY GoesOn
<1>4. /\ {"taken", "slotted", "claimed", "registered", "running", "prompting", "ended", "finishing"} = WorkerPcs \ {"idle"}
      /\ Beyond = {"claimed", "registered", "running", "prompting", "ended", "finishing"}
  BY DEF WorkerPcs, Beyond, Holding
<1>5. MayBecome(w, IdleWorker)
  BY <1>4 DEF MayBecome, IdleWorker
<1>6. agWork[w].pc # "idle" => TaskAt(w) \in Agents
  BY <1>1 DEF WorkersSound
<1>7. \A rec : rec = IdleWorker => MayBecome(w, rec)
  BY <1>4 DEF MayBecome, IdleWorker
<1>8. CASE workerDequeues(w)
  <2>1. Head(agQueue) \in Agents
    BY <1>1, <1>8 DEF workerDequeues, AgentTyped
  <2>2. PICK rec : rec = [IdleWorker EXCEPT !.pc = "taken", !.task = Head(agQueue)] /\ Become(w, rec)
    BY <1>8 DEF workerDequeues
  <2>3. rec.pc = "taken" /\ rec.task \in Agents
    BY <2>1, <2>2 DEF IdleWorker
  <2>4. MayBecome(w, rec)
    BY <1>4, <2>3 DEF MayBecome
  <2> QED
    BY <2>2, <2>4
<1>9. CASE workerDrops(w)
  BY <1>7, <1>9 DEF workerDrops
<1>10. CASE acquireSessionSlot(w)
  <2>1. \E rec : (rec = IdleWorker \/ rec = [agWork[w] EXCEPT !.pc = "slotted"]) /\ Become(w, rec)
    BY <1>10 DEF acquireSessionSlot, Goto
  <2>2. PICK rec : (rec = IdleWorker \/ rec = [agWork[w] EXCEPT !.pc = "slotted"]) /\ Become(w, rec)
    BY <2>1
  <2>3. agWork[w].pc = "taken"
    BY <1>10 DEF acquireSessionSlot, At
  <2>4. rec # IdleWorker => rec.pc = "slotted" /\ rec.task = TaskAt(w)
    BY <1>2, <2>2
  <2>5. MayBecome(w, rec)
    BY <1>3, <1>4, <1>7, <2>3, <2>4
  <2> QED
    BY <2>2, <2>5
<1>11. CASE claim(w)
  <2>1. agWork[w].pc = "slotted" /\ TaskAt(w) \in Agents
    BY <1>6, <1>11 DEF claim, At
  <2>2. \E rec : /\ Become(w, rec)
                 /\ \/ rec = IdleWorker
                    \/ /\ ClaimQueued(TaskAt(w), agOwner)
                       /\ \/ rec = [agWork[w] EXCEPT !.pc = "claimed"]
                          \/ rec = [agWork[w] EXCEPT !.pc = "finishing", !.err = "failed"]
    BY <1>11 DEF claim, Goto, loseClaim, Release
  <2>3. PICK rec : /\ Become(w, rec)
                   /\ \/ rec = IdleWorker
                      \/ /\ ClaimQueued(TaskAt(w), agOwner)
                         /\ \/ rec = [agWork[w] EXCEPT !.pc = "claimed"]
                            \/ rec = [agWork[w] EXCEPT !.pc = "finishing", !.err = "failed"]
    BY <2>2
  <2>4. CASE rec = IdleWorker
    BY <1>7, <2>3, <2>4
  <2>5. CASE rec # IdleWorker
    <3>1. rec.task = TaskAt(w) /\ rec.pc \in {"claimed", "finishing"} /\ (rec.pc = "claimed" \/ rec.err = "failed")
      <4>1. CASE rec = [agWork[w] EXCEPT !.pc = "claimed"]
        BY <1>2, <4>1
      <4>2. CASE rec = [agWork[w] EXCEPT !.pc = "finishing", !.err = "failed"]
        BY <1>2, <4>2
      <4> QED
        BY <2>3, <2>5, <4>1, <4>2
    <3>2. StateOf(TaskAt(w)) = "queued" /\ tasks' = [tasks EXCEPT ![TaskAt(w)] = Row("running", agOwner)]
      BY <2>3, <2>5 DEF ClaimQueued, Put
    <3>3. tasks'[TaskAt(w)] = Row("running", agOwner)
      BY <1>1, <2>1, <3>2
    <3>4. StateOf(rec.task)' \notin {"absent", "queued"}
      BY <3>1, <3>3 DEF StateOf, Row
    <3>5. \A v \in AgentWorkers : agWork[v].pc \in Beyond => TaskAt(v) # rec.task
      BY <1>1, <3>1, <3>2 DEF WorkersSound
    <3>6. "failed" \in TerminalStates
      BY DEF TerminalStates
    <3>7. MayBecome(w, rec)
      BY <1>4, <2>1, <3>1, <3>4, <3>5, <3>6 DEF MayBecome
    <3> QED
      BY <2>3, <3>7
  <2> QED
    BY <2>4, <2>5
<1>12. \A rec : /\ agWork[w].pc \in Beyond /\ rec.pc \in Beyond /\ rec.task = TaskAt(w)
                /\ rec.pc = "finishing" => rec.err \in TerminalStates
                => MayBecome(w, rec)
  <2>1. "idle" \notin Beyond /\ Beyond \subseteq WorkerPcs
    BY <1>4
  <2> QED
    BY <1>3, <2>1
<1>13. CASE registers(w)
  <2>1. PICK rec : rec = [agWork[w] EXCEPT !.pc = "registered"] /\ Become(w, rec)
    BY <1>13 DEF registers, Goto
  <2>2. rec.pc = "registered" /\ rec.task = TaskAt(w)
    BY <1>2, <2>1
  <2>3. agWork[w].pc \in Beyond
    BY <1>4, <1>13 DEF registers, At
  <2>4. MayBecome(w, rec)
    BY <1>4, <1>12, <2>2, <2>3
  <2> QED
    BY <2>1, <2>4
<1>14. CASE execute(w)
  <2>1. PICK rec : /\ \/ \E err : rec = [agWork[w] EXCEPT !.pc = "ended", !.err = err]
                      \/ \E n : rec = [agWork[w] EXCEPT !.pc = "running", !.attempt = n]
                   /\ Become(w, rec)
    BY <1>14 DEF execute, rereadState
  <2>2. rec.pc \in {"ended", "running"} /\ rec.task = TaskAt(w)
    <3>1. CASE \E err : rec = [agWork[w] EXCEPT !.pc = "ended", !.err = err]
      BY <1>2, <3>1
    <3>2. CASE \E n : rec = [agWork[w] EXCEPT !.pc = "running", !.attempt = n]
      BY <1>2, <3>2
    <3> QED
      BY <2>1, <3>1, <3>2
  <2>3. agWork[w].pc \in Beyond
    BY <1>4, <1>14 DEF execute, At
  <2>4. MayBecome(w, rec)
    BY <1>4, <1>12, <2>2, <2>3
  <2> QED
    BY <2>1, <2>4
<1>15. CASE reserveOutputAttempt(w)
  <2>1. PICK rec : /\ \/ rec = [agWork[w] EXCEPT !.pc = "ended", !.err = "failed"]
                      \/ rec = [agWork[w] EXCEPT !.pc = "prompting"]
                   /\ Become(w, rec)
    BY <1>15 DEF reserveOutputAttempt, Goto, Ends
  <2>2. rec.pc \in {"ended", "prompting"} /\ rec.task = TaskAt(w)
    <3>1. CASE rec = [agWork[w] EXCEPT !.pc = "ended", !.err = "failed"]
      BY <1>2, <3>1
    <3>2. CASE rec = [agWork[w] EXCEPT !.pc = "prompting"]
      BY <1>2, <3>2
    <3> QED
      BY <2>1, <3>1, <3>2
  <2>3. agWork[w].pc \in Beyond
    BY <1>4, <1>15 DEF reserveOutputAttempt, At
  <2>4. MayBecome(w, rec)
    BY <1>4, <1>12, <2>2, <2>3
  <2> QED
    BY <2>1, <2>4
<1>16. CASE promptEnds(w)
  <2>1. PICK rec : (\E err : rec = [agWork[w] EXCEPT !.pc = "ended", !.err = err]) /\ Become(w, rec)
    BY <1>16 DEF promptEnds, Ends
  <2>2. rec.pc = "ended" /\ rec.task = TaskAt(w)
    BY <1>2, <2>1
  <2>3. agWork[w].pc \in Beyond
    BY <1>4, <1>16 DEF promptEnds, At
  <2>4. MayBecome(w, rec)
    BY <1>4, <1>12, <2>2, <2>3
  <2> QED
    BY <2>1, <2>4
<1>17. CASE checkpointOutputAttempt(w)
  <2>1. PICK rec : /\ \/ \E err : rec = [agWork[w] EXCEPT !.pc = "ended", !.err = err]
                      \/ \E n : rec = [agWork[w] EXCEPT !.pc = "running", !.attempt = n]
                   /\ Become(w, rec)
    BY <1>17 DEF checkpointOutputAttempt, Ends
  <2>2. rec.pc \in {"ended", "running"} /\ rec.task = TaskAt(w)
    <3>1. CASE \E err : rec = [agWork[w] EXCEPT !.pc = "ended", !.err = err]
      BY <1>2, <3>1
    <3>2. CASE \E n : rec = [agWork[w] EXCEPT !.pc = "running", !.attempt = n]
      BY <1>2, <3>2
    <3> QED
      BY <2>1, <3>1, <3>2
  <2>3. agWork[w].pc \in Beyond
    BY <1>4, <1>17 DEF checkpointOutputAttempt, At
  <2>4. MayBecome(w, rec)
    BY <1>4, <1>12, <2>2, <2>3
  <2> QED
    BY <2>1, <2>4
<1>18. CASE finalizeRun(w)
  <2>1. PICK target \in TerminalStates : Become(w, [agWork[w] EXCEPT !.pc = "finishing", !.err = target])
    <3>1. PICK state : Finalizes(w, state)
      BY <1>18 DEF finalizeRun
    <3>2. finalizeTarget(w, state) \subseteq TerminalStates
      BY DEF finalizeTarget, TerminalStates
    <3> QED
      BY <3>1, <3>2 DEF Finalizes
  <2>2. PICK rec : rec = [agWork[w] EXCEPT !.pc = "finishing", !.err = target] /\ Become(w, rec)
    BY <2>1
  <2>3. rec.pc = "finishing" /\ rec.task = TaskAt(w) /\ rec.err \in TerminalStates
    BY <1>2, <2>2
  <2>4. agWork[w].pc \in Beyond
    BY <1>4, <1>18 DEF finalizeRun, At
  <2>5. MayBecome(w, rec)
    BY <1>4, <1>12, <2>3, <2>4
  <2> QED
    BY <2>2, <2>5
<1>19. CASE finish(w)
  BY <1>7, <1>19 DEF finish, Release
<1>20. CASE renewLease(w)
  <2>1. CASE UNCHANGED agWork
    BY <2>1
  <2>2. CASE Become(w, [agWork[w] EXCEPT !.stop = TRUE])
    <3>1. PICK rec : rec = [agWork[w] EXCEPT !.stop = TRUE] /\ Become(w, rec)
      BY <2>2
    <3>2. rec.pc = agWork[w].pc /\ rec.task = TaskAt(w)
      BY <1>2, <3>1
    <3>3. agWork[w].pc \in Beyond /\ agWork[w].pc # "finishing"
      BY <1>4, <1>20 DEF renewLease, Registered
    <3> QED
      BY <1>12, <3>1, <3>2, <3>3
  <2> QED
    BY <1>20, <2>1, <2>2 DEF renewLease
<1> QED
  BY <1>8, <1>9, <1>10, <1>11, <1>13, <1>14, <1>15, <1>16, <1>17, <1>18, <1>19, <1>20 DEF WorkerNext

\* Workers that keep their places stay sound.
LEMMA WorkersKept ==
    ASSUME DurInv, RowsFollow,
           \A w \in AgentWorkers : /\ agWork'[w].pc = agWork[w].pc /\ agWork'[w].task = agWork[w].task
                                   /\ agWork'[w].err = agWork[w].err
                                   /\ agWork[w].pc = "idle" => agWork'[w] = agWork[w],
           \A c \in Cancelers : agCancel'[c].pc = "idle" => agCancel'[c] = IdleCaller
    PROVE  WorkersSound'
<1>1. WorkersSound /\ tasks \in [Tasks -> Rows] /\ Agents \subseteq Tasks
  BY AgentAssumption DEF DurInv, DurTyped
<1>2. \A t \in Tasks : StateOf(t) \notin {"absent", "queued"} => StateOf(t)' \notin {"absent", "queued"}
  BY <1>1, Onwards
<1>3. "idle" \notin Beyond
  BY DEF Beyond, Holding
<1>4. \A w \in AgentWorkers : agWork'[w].pc \in Beyond => tasks'[agWork'[w].task].state \notin {"absent", "queued"}
  <2> SUFFICES ASSUME NEW w \in AgentWorkers, agWork[w].pc \in Beyond
               PROVE  tasks'[agWork[w].task].state \notin {"absent", "queued"}
    OBVIOUS
  <2>1. TaskAt(w) \in Tasks /\ StateOf(TaskAt(w)) \notin {"absent", "queued"}
    BY <1>1, <1>3 DEF WorkersSound
  <2> QED
    BY <1>2, <2>1 DEF StateOf, TaskAt
<1>5. \A w \in AgentWorkers : agWork'[w].pc = "idle" => agWork'[w] = IdleWorker
  BY <1>1 DEF WorkersSound
<1>6. \A w \in AgentWorkers : agWork'[w].pc # "idle" => agWork'[w].task \in Agents
  BY <1>1 DEF WorkersSound, TaskAt
<1>7. \A w \in AgentWorkers : agWork'[w].pc = "finishing" => agWork'[w].err \in TerminalStates
  BY <1>1 DEF WorkersSound
<1>8. OneWorkerPerTask'
  BY <1>1 DEF WorkersSound, OneWorkerPerTask, TaskAt
<1> QED
  BY <1>4, <1>5, <1>6, <1>7, <1>8 DEF WorkersSound, TaskAt, StateOf

\* The cancel of a context touches no place.
LEMMA StopsOnly ==
    ASSUME AgentTyped, NEW c \in Cancelers, cancelActive(c)
    PROVE  /\ \A w \in AgentWorkers :
                /\ agWork'[w].pc = agWork[w].pc /\ agWork'[w].task = agWork[w].task
                /\ agWork'[w].err = agWork[w].err /\ agWork'[w].attempt = agWork[w].attempt
                /\ agWork[w].pc \notin Registered => agWork'[w] = agWork[w]
                /\ agWork[w].stop => agWork'[w].stop
                /\ agWork[w].pc \in Registered /\ agWork[w].task = agCancel[c].task => agWork'[w].stop
           /\ agCancel'[c] = IdleCaller
           /\ \A d \in Cancelers : d # c => agCancel'[d] = agCancel[d]
<1>1. \A w \in AgentWorkers : agWork[w] \in WorkRecord
  BY DEF AgentTyped
<1>2. \A w \in AgentWorkers :
        agWork'[w] = IF agWork[w].pc \in Registered /\ TaskAt(w) = agCancel[c].task
                     THEN [agWork[w] EXCEPT !.stop = TRUE] ELSE agWork[w]
  BY DEF cancelActive
<1>3. \A rec \in WorkRecord : LET new == [rec EXCEPT !.stop = TRUE] IN
        new.pc = rec.pc /\ new.task = rec.task /\ new.err = rec.err /\ new.attempt = rec.attempt /\ new.stop
  BY DEF WorkRecord
<1>4. agCancel'[c] = IdleCaller /\ \A d \in Cancelers : d # c => agCancel'[d] = agCancel[d]
  BY DEF cancelActive, AgentTyped
<1> QED
  BY <1>1, <1>2, <1>3, <1>4 DEF TaskAt

\* Every step keeps the workers sound.
LEMMA WorkersStep ==
    ASSUME DurInv, [Next]_vars PROVE WorkersSound'
<1>1. AgentTyped /\ WorkersSound /\ RowsFollow
  BY RowsStep DEF DurInv, DurTyped
<1>2. CASE UNCHANGED <<agWork, agCancel>>
  BY <1>1, <1>2, WorkersKept DEF WorkersSound
<1>3. CASE LoseMemory
  <2>1. /\ \A w \in AgentWorkers : agWork'[w] = IdleWorker
        /\ \A c \in Cancelers : agCancel'[c] = IdleCaller
    BY <1>3 DEF LoseMemory
  <2>2. IdleWorker.pc = "idle" /\ "idle" \notin Beyond
    BY DEF IdleWorker, Beyond, Holding
  <2> QED
    BY <2>1, <2>2 DEF WorkersSound, OneWorkerPerTask, Beyond
<1>4. ASSUME NEW w \in AgentWorkers, WorkerNext(w) \/ renewLease(w) PROVE WorkersSound'
  <2>1. UNCHANGED agCancel
    BY <1>4 DEF WorkerNext, renewLease, workerDequeues, workerDrops, acquireSessionSlot, claim, registers, execute,
       reserveOutputAttempt, promptEnds, checkpointOutputAttempt, finalizeRun, finish, agGoroutines
  <2>2. CASE UNCHANGED agWork
    BY <1>2, <2>1, <2>2
  <2>3. ASSUME NEW rec, Become(w, rec), MayBecome(w, rec) PROVE WorkersSound'
    BY <1>1, <2>1, <2>3, WorkerMoves
  <2> QED
    BY <1>1, <1>4, <2>2, <2>3, WorkerMove
<1>5. ASSUME NEW c \in Cancelers, cancelActive(c) PROVE WorkersSound'
  <2>1. /\ \A w \in AgentWorkers :
             /\ agWork'[w].pc = agWork[w].pc /\ agWork'[w].task = agWork[w].task
             /\ agWork'[w].err = agWork[w].err
             /\ agWork[w].pc \notin Registered => agWork'[w] = agWork[w]
        /\ agCancel'[c] = IdleCaller
        /\ \A d \in Cancelers : d # c => agCancel'[d] = agCancel[d]
    BY <1>1, <1>5, StopsOnly
  <2>2. "idle" \notin Registered
    BY DEF Registered
  <2>3. \A d \in Cancelers : agCancel'[d].pc = "idle" => agCancel'[d] = IdleCaller
    BY <1>1, <2>1 DEF WorkersSound
  <2> QED
    BY <1>1, <2>1, <2>2, <2>3, WorkersKept
<1>6. ASSUME NEW c \in Cancelers, NEW t \in Agents, Cancel(c, t) PROVE WorkersSound'
  <2>1. UNCHANGED agWork
    BY <1>6 DEF Cancel
  <2>2. \A d \in Cancelers : agCancel'[d].pc = "idle" => agCancel'[d] = IdleCaller
    BY <1>1, <1>6 DEF WorkersSound, Cancel, AgentTyped
  <2> QED
    BY <1>1, <2>1, <2>2, WorkersKept
<1>7. AgentAct \/ UNCHANGED agState
  BY StepKinds
<1> QED
  BY <1>2, <1>3, <1>4, <1>5, <1>6, <1>7 DEF AgentAct, agVars, agState, agGoroutines, NewStopped, Start, Shutdown,
     enqueueRecovered, requeueFires, Submit, enqueueCreated

--------------------------------------------------------------------------------
(* Attempts.                                                                   *)

Even == {"claimed", "registered", "running"}

\* A worker that does not touch its attempts gets from an even count to an even count,
\* or leaves the part of the run where they matter.
KeepsCount(w) ==
    \/ agWork'[w].pc \notin Even \cup {"prompting"}
    \/ /\ agWork'[w].task = agWork[w].task
       /\ \/ agWork'[w].pc = agWork[w].pc
          \/ /\ agWork'[w].pc \in Even
             /\ agWork[w].pc \in Even \/ (StateOf(TaskAt(w)) = "queued" /\ agWork[w].pc # "idle")
          \/ agWork'[w].pc = "prompting" /\ agWork[w].task \notin Contracted

\* Steps that leave the attempts alone.
LEMMA AttemptsKept ==
    ASSUME DurInv, RowsFollow, UNCHANGED attempts, \A w \in AgentWorkers : KeepsCount(w)
    PROVE  AttemptsSound'
<1>1. AttemptsSound /\ WorkersSound /\ tasks \in [Tasks -> Rows] /\ Agents \subseteq Tasks
  BY AgentAssumption DEF DurInv, DurTyped
<1>2. \A t \in Agents : tasks'[t].state \in {"absent", "queued"} => attempts[t] = [reserved |-> 0, completed |-> 0]
  BY <1>1, Onwards DEF AttemptsSound, StateOf
<1>3. \A w \in AgentWorkers : agWork'[w].pc \in Even =>
        attempts[agWork'[w].task].reserved = attempts[agWork'[w].task].completed
  <2> SUFFICES ASSUME NEW w \in AgentWorkers, agWork'[w].pc \in Even
               PROVE  attempts[agWork'[w].task].reserved = attempts[agWork'[w].task].completed
    OBVIOUS
  <2>1. agWork'[w].task = TaskAt(w)
    BY DEF KeepsCount, TaskAt
  <2>2. agWork'[w].pc # "prompting"
    BY DEF Even
  <2>3. CASE agWork[w].pc \in Even
    BY <1>1, <2>1, <2>3 DEF AttemptsSound, Even
  <2>4. CASE StateOf(TaskAt(w)) = "queued" /\ agWork[w].pc # "idle"
    BY <1>1, <2>1, <2>4 DEF AttemptsSound, WorkersSound
  <2> QED
    BY <2>2, <2>3, <2>4 DEF KeepsCount
<1>4. \A w \in AgentWorkers : agWork'[w].pc = "prompting" /\ agWork'[w].task \in Contracted =>
        attempts[agWork'[w].task].reserved = attempts[agWork'[w].task].completed + 1
  <2> SUFFICES ASSUME NEW w \in AgentWorkers, agWork'[w].pc = "prompting", agWork'[w].task \in Contracted
               PROVE  attempts[agWork'[w].task].reserved = attempts[agWork'[w].task].completed + 1
    OBVIOUS
  <2>1. agWork'[w].task = TaskAt(w) /\ agWork[w].pc = "prompting"
    BY DEF KeepsCount, TaskAt, Even
  <2> QED
    BY <1>1, <2>1 DEF AttemptsSound
<1>5. AttemptsBudgeted'
  BY <1>1 DEF AttemptsSound, AttemptsBudgeted
<1> QED
  BY <1>2, <1>3, <1>4, <1>5 DEF AttemptsSound, TaskAt, StateOf, Even

\* What a worker that leaves the attempts alone does to its place.
LEMMA PlacesOfWorker ==
    ASSUME DurInv, NEW w \in AgentWorkers,
           \/ workerDequeues(w) \/ workerDrops(w) \/ acquireSessionSlot(w) \/ claim(w) \/ registers(w)
           \/ execute(w) \/ promptEnds(w) \/ finalizeRun(w) \/ finish(w) \/ renewLease(w)
    PROVE  UNCHANGED attempts /\ KeepsCount(w)
<1>1. AgentTyped /\ agWork \in [AgentWorkers -> WorkRecord] /\ agWork[w] \in WorkRecord
  BY DEF DurInv, DurTyped, AgentTyped
<1>2. UNCHANGED attempts
  BY DEF workerDequeues, workerDrops, acquireSessionSlot, claim, registers, execute, promptEnds, finalizeRun,
     finish, renewLease, agOutcomes
<1>3. \A rec : Become(w, rec) => agWork'[w] = rec
  BY <1>1 DEF Become
<1>4. IdleWorker.pc \notin Even \cup {"prompting"}
  BY DEF IdleWorker, Even
<1>5. /\ \A pc : /\ [agWork[w] EXCEPT !.pc = pc].pc = pc
                 /\ [agWork[w] EXCEPT !.pc = pc].task = TaskAt(w)
      /\ \A pc, err : /\ [agWork[w] EXCEPT !.pc = pc, !.err = err].pc = pc
                      /\ [agWork[w] EXCEPT !.pc = pc, !.err = err].task = TaskAt(w)
                      /\ [agWork[w] EXCEPT !.pc = pc, !.err = err].err = err
      /\ \A pc, n : /\ [agWork[w] EXCEPT !.pc = pc, !.attempt = n].pc = pc
                    /\ [agWork[w] EXCEPT !.pc = pc, !.attempt = n].task = TaskAt(w)
      /\ LET rec == [agWork[w] EXCEPT !.stop = TRUE] IN
         /\ rec.pc = agWork[w].pc /\ rec.task = TaskAt(w) /\ rec.err = agWork[w].err /\ rec.stop = TRUE
  BY <1>1, WorkerRecords
<1>6. {"taken", "slotted", "ended", "finishing"} \cap (Even \cup {"prompting"}) = {}
  BY DEF Even
<1>7. CASE workerDequeues(w)
  <2>1. agWork'[w] = [IdleWorker EXCEPT !.pc = "taken", !.task = Head(agQueue)]
    BY <1>3, <1>7 DEF workerDequeues
  <2>2. agWork'[w].pc = "taken"
    BY <2>1 DEF IdleWorker
  <2> QED
    BY <1>2, <1>6, <2>2 DEF KeepsCount
<1>8. CASE workerDrops(w)
  BY <1>2, <1>3, <1>4, <1>8 DEF workerDrops, KeepsCount
<1>9. CASE acquireSessionSlot(w)
  <2>1. agWork'[w] = IdleWorker \/ agWork'[w] = [agWork[w] EXCEPT !.pc = "slotted"]
    BY <1>3, <1>9 DEF acquireSessionSlot, Goto
  <2>2. agWork'[w] = IdleWorker \/ agWork'[w].pc = "slotted"
    BY <1>5, <2>1
  <2> QED
    BY <1>2, <1>4, <1>6, <2>2 DEF KeepsCount
<1>10. CASE claim(w)
  <2>1. \/ agWork'[w] = IdleWorker
        \/ agWork'[w] = [agWork[w] EXCEPT !.pc = "claimed"] /\ StateOf(TaskAt(w)) = "queued"
        \/ agWork'[w] = [agWork[w] EXCEPT !.pc = "finishing", !.err = "failed"]
    BY <1>3, <1>10 DEF claim, Goto, loseClaim, Release, ClaimQueued
  <2>2. CASE agWork'[w] = IdleWorker
    BY <1>2, <1>4, <2>2 DEF KeepsCount
  <2>3. CASE agWork'[w] = [agWork[w] EXCEPT !.pc = "claimed"] /\ StateOf(TaskAt(w)) = "queued"
    <3>1. agWork'[w].pc = "claimed" /\ agWork'[w].task = TaskAt(w)
      BY <1>5, <2>3
    <3>2. agWork[w].pc # "idle" /\ "claimed" \in Even
      BY <1>10 DEF claim, At, Even
    <3> QED
      BY <1>2, <2>3, <3>1, <3>2 DEF KeepsCount, TaskAt
  <2>4. CASE agWork'[w] = [agWork[w] EXCEPT !.pc = "finishing", !.err = "failed"]
    <3>1. agWork'[w].pc = "finishing"
      BY <1>5, <2>4
    <3> QED
      BY <1>2, <1>6, <3>1 DEF KeepsCount
  <2> QED
    BY <2>1, <2>2, <2>3, <2>4
<1>11. CASE registers(w)
  <2>1. agWork'[w] = [agWork[w] EXCEPT !.pc = "registered"] /\ agWork[w].pc = "claimed"
    BY <1>3, <1>11 DEF registers, Goto, At
  <2>2. agWork'[w].pc = "registered" /\ agWork'[w].task = TaskAt(w)
    BY <1>5, <2>1
  <2> QED
    BY <1>2, <2>1, <2>2 DEF KeepsCount, TaskAt, Even
<1>12. CASE execute(w)
  <2>1. agWork[w].pc = "registered"
    BY <1>12 DEF execute, At
  <2>2. CASE \E err : agWork'[w] = [agWork[w] EXCEPT !.pc = "ended", !.err = err]
    <3>1. agWork'[w].pc = "ended"
      BY <1>5, <2>2
    <3> QED
      BY <1>2, <1>6, <3>1 DEF KeepsCount
  <2>3. CASE \E n : agWork'[w] = [agWork[w] EXCEPT !.pc = "running", !.attempt = n]
    <3>1. agWork'[w].pc = "running" /\ agWork'[w].task = TaskAt(w)
      BY <1>5, <2>3
    <3> QED
      BY <1>2, <2>1, <3>1 DEF KeepsCount, TaskAt, Even
  <2> QED
    BY <1>3, <1>12, <2>2, <2>3 DEF execute, rereadState
<1>13. CASE promptEnds(w)
  <2>1. \E err : agWork'[w] = [agWork[w] EXCEPT !.pc = "ended", !.err = err]
    BY <1>3, <1>13 DEF promptEnds, Ends
  <2>2. agWork'[w].pc = "ended"
    BY <1>5, <2>1
  <2> QED
    BY <1>2, <1>6, <2>2 DEF KeepsCount
<1>14. CASE finalizeRun(w)
  <2>1. \E err : agWork'[w] = [agWork[w] EXCEPT !.pc = "finishing", !.err = err]
    BY <1>3, <1>14 DEF finalizeRun, Finalizes
  <2>2. agWork'[w].pc = "finishing"
    BY <1>5, <2>1
  <2> QED
    BY <1>2, <1>6, <2>2 DEF KeepsCount
<1>15. CASE finish(w)
  BY <1>2, <1>3, <1>4, <1>15 DEF finish, Release, KeepsCount
<1>16. CASE renewLease(w)
  <2>1. agWork'[w] = agWork[w] \/ agWork'[w] = [agWork[w] EXCEPT !.stop = TRUE]
    BY <1>3, <1>16 DEF renewLease
  <2>2. agWork'[w].pc = agWork[w].pc /\ agWork'[w].task = agWork[w].task
    BY <1>5, <2>1 DEF TaskAt
  <2> QED
    BY <1>2, <2>2 DEF KeepsCount
<1> QED
  BY <1>7, <1>8, <1>9, <1>10, <1>11, <1>12, <1>13, <1>14, <1>15, <1>16

\* A worker that counts its own attempt disturbs no other.
LEMMA AttemptsMoved ==
    ASSUME DurInv, RowsFollow, NEW w \in AgentWorkers, agWork[w].pc \in {"running", "prompting"},
           NEW pc \in {"prompting", "running", "ended"}, agWork'[w].pc = pc, agWork'[w].task = TaskAt(w),
           \A v \in AgentWorkers : v # w => agWork'[v] = agWork[v],
           \A u \in Agents : u # TaskAt(w) => attempts'[u] = attempts[u],
           attempts'[TaskAt(w)].reserved <= MaxOutputAttempts,
           \/ attempts'[TaskAt(w)].reserved = attempts'[TaskAt(w)].completed /\ pc # "prompting"
           \/ attempts'[TaskAt(w)].reserved = attempts'[TaskAt(w)].completed + 1 /\ pc # "running"
    PROVE  AttemptsSound'
<1> DEFINE t == TaskAt(w)
<1>1. AttemptsSound /\ WorkersSound /\ tasks \in [Tasks -> Rows] /\ Agents \subseteq Tasks
  BY AgentAssumption DEF DurInv, DurTyped
<1>2. t \in Agents /\ StateOf(t) \notin {"absent", "queued"}
  BY <1>1 DEF WorkersSound, Beyond, Holding
<1>3. PICK u \in Agents : u = t
  BY <1>2
<1>4. tasks'[u].state \notin {"absent", "queued"}
  BY <1>1, <1>2, <1>3, Onwards DEF StateOf
<1>5. \A x \in Agents : tasks'[x].state \in {"absent", "queued"} => attempts'[x] = [reserved |-> 0, completed |-> 0]
  <2> SUFFICES ASSUME NEW x \in Agents, tasks'[x].state \in {"absent", "queued"}
               PROVE  attempts'[x] = [reserved |-> 0, completed |-> 0]
    OBVIOUS
  <2>1. x # u
    BY <1>4
  <2>2. StateOf(x) \in {"absent", "queued"}
    BY <1>1, Onwards DEF StateOf
  <2> QED
    BY <1>1, <1>3, <2>1, <2>2 DEF AttemptsSound
<1>6. \A v \in AgentWorkers : v # w /\ agWork[v].pc \in {"claimed", "registered", "running", "prompting"}
        => agWork[v].task # u /\ agWork[v].task \in Agents
  <2>1. agWork[w].pc \in Holding \ {"slotted"} /\ {"claimed", "registered", "running", "prompting"} \subseteq Holding \ {"slotted"}
    BY DEF Holding
  <2>2. "idle" \notin {"claimed", "registered", "running", "prompting"}
    OBVIOUS
  <2> QED
    BY <1>1, <1>3, <2>1, <2>2 DEF WorkersSound, OneWorkerPerTask, TaskAt
<1>7. \A v \in AgentWorkers : agWork'[v].pc \in {"claimed", "registered", "running"} =>
        attempts'[agWork'[v].task].reserved = attempts'[agWork'[v].task].completed
  <2> SUFFICES ASSUME NEW v \in AgentWorkers, agWork'[v].pc \in {"claimed", "registered", "running"}
               PROVE  attempts'[agWork'[v].task].reserved = attempts'[agWork'[v].task].completed
    OBVIOUS
  <2>1. CASE v = w
    BY <2>1
  <2>2. CASE v # w
    <3>1. agWork'[v] = agWork[v] /\ attempts'[agWork[v].task] = attempts[agWork[v].task]
      BY <1>3, <1>6, <2>2
    <3> QED
      BY <1>1, <3>1 DEF AttemptsSound, TaskAt
  <2> QED
    BY <2>1, <2>2
<1>8. \A v \in AgentWorkers : agWork'[v].pc = "prompting" /\ agWork'[v].task \in Contracted =>
        attempts'[agWork'[v].task].reserved = attempts'[agWork'[v].task].completed + 1
  <2> SUFFICES ASSUME NEW v \in AgentWorkers, agWork'[v].pc = "prompting", agWork'[v].task \in Contracted
               PROVE  attempts'[agWork'[v].task].reserved = attempts'[agWork'[v].task].completed + 1
    OBVIOUS
  <2>1. CASE v = w
    BY <2>1
  <2>2. CASE v # w
    <3>1. agWork'[v] = agWork[v] /\ attempts'[agWork[v].task] = attempts[agWork[v].task]
      BY <1>3, <1>6, <2>2
    <3> QED
      BY <1>1, <3>1 DEF AttemptsSound, TaskAt
  <2> QED
    BY <2>1, <2>2
<1>9. AttemptsBudgeted'
  <2> SUFFICES ASSUME NEW x \in Agents
               PROVE  /\ attempts'[x].reserved <= MaxOutputAttempts
                      /\ attempts'[x].reserved \in {attempts'[x].completed, attempts'[x].completed + 1}
    BY DEF AttemptsBudgeted
  <2>1. CASE x = u
    BY <1>3, <2>1
  <2>2. CASE x # u
    BY <1>1, <1>3, <2>2 DEF AttemptsSound, AttemptsBudgeted
  <2> QED
    BY <2>1, <2>2
<1> QED
  BY <1>5, <1>7, <1>8, <1>9 DEF AttemptsSound, TaskAt, StateOf

\* The attempt that is reserved was within the budget.
LEMMA ReserveStep ==
    ASSUME DurInv, RowsFollow, NEW w \in AgentWorkers, reserveOutputAttempt(w) PROVE AttemptsSound'
<1>1. AgentTyped /\ AttemptsSound /\ WorkersSound
  BY DEF DurInv, DurTyped
<1>2. agWork[w].pc = "running" /\ TaskAt(w) \in Agents
  BY <1>1 DEF reserveOutputAttempt, At, WorkersSound
<1>3. \A v \in AgentWorkers : v # w => agWork'[v] = agWork[v]
  BY <1>1 DEF reserveOutputAttempt, Goto, Ends, Become, AgentTyped
<1>4. \A v \in AgentWorkers : v # w => KeepsCount(v)
  BY <1>3 DEF KeepsCount
<1>5. \A rec : Become(w, rec) => agWork'[w] = rec
  BY <1>1 DEF Become, AgentTyped
<1>6. /\ [agWork[w] EXCEPT !.pc = "prompting"].pc = "prompting"
      /\ [agWork[w] EXCEPT !.pc = "prompting"].task = TaskAt(w)
      /\ [agWork[w] EXCEPT !.pc = "ended", !.err = "failed"].pc = "ended"
      /\ [agWork[w] EXCEPT !.pc = "ended", !.err = "failed"].task = TaskAt(w)
  BY <1>1, WorkerRecords
<1>7. CASE /\ TaskAt(w) \in Contracted /\ Reservable(w) /\ Goto(w, "prompting")
           /\ attempts' = [attempts EXCEPT ![TaskAt(w)].reserved = @ + 1]
  <2>1. agWork'[w].pc = "prompting" /\ agWork'[w].task = TaskAt(w)
    BY <1>5, <1>6, <1>7 DEF Goto
  <2>2. attempts[TaskAt(w)] \in [reserved : Nat, completed : Nat]
    BY <1>1, <1>2 DEF AgentTyped
  <2>3. /\ attempts'[TaskAt(w)].reserved = attempts[TaskAt(w)].reserved + 1
        /\ attempts'[TaskAt(w)].completed = attempts[TaskAt(w)].completed
        /\ \A u \in Agents : u # TaskAt(w) => attempts'[u] = attempts[u]
    BY <1>1, <1>2, <1>7, <2>2 DEF AgentTyped
  <2>4. attempts[TaskAt(w)].reserved = attempts[TaskAt(w)].completed
    BY <1>1, <1>2 DEF AttemptsSound
  <2>5. attempts[TaskAt(w)].reserved < MaxOutputAttempts
    BY <1>7 DEF Reservable
  <2>6. \A n \in Nat : n < MaxOutputAttempts => n + 1 <= MaxOutputAttempts
    BY AgentAssumption
  <2>7. attempts'[TaskAt(w)].reserved <= MaxOutputAttempts
    BY <2>2, <2>3, <2>5, <2>6
  <2>8. attempts'[TaskAt(w)].reserved = attempts'[TaskAt(w)].completed + 1
    BY <2>3, <2>4
  <2> QED
    BY <1>2, <1>3, <2>1, <2>3, <2>7, <2>8, AttemptsMoved
<1>8. CASE /\ UNCHANGED attempts
           /\ (TaskAt(w) \notin Contracted /\ Goto(w, "prompting")) \/ Ends(w, "failed")
  <2>1. KeepsCount(w)
    <3>1. CASE TaskAt(w) \notin Contracted /\ Goto(w, "prompting")
      <4>1. agWork'[w].pc = "prompting" /\ agWork'[w].task = TaskAt(w)
        BY <1>5, <1>6, <3>1 DEF Goto
      <4> QED
        BY <3>1, <4>1 DEF KeepsCount, TaskAt
    <3>2. CASE Ends(w, "failed")
      <4>1. agWork'[w].pc = "ended"
        BY <1>5, <1>6, <3>2 DEF Ends
      <4> QED
        BY <4>1 DEF KeepsCount, Even
    <3> QED
      BY <1>8, <3>1, <3>2
  <2> QED
    BY <1>4, <1>8, <2>1, AttemptsKept
<1> QED
  BY <1>7, <1>8 DEF reserveOutputAttempt

\* A checkpoint completes the attempt that was reserved.
LEMMA CheckpointStep ==
    ASSUME DurInv, RowsFollow, NEW w \in AgentWorkers, checkpointOutputAttempt(w) PROVE AttemptsSound'
<1>1. AgentTyped /\ AttemptsSound /\ WorkersSound
  BY DEF DurInv, DurTyped
<1>2. agWork[w].pc = "prompting" /\ TaskAt(w) \in Agents /\ TaskAt(w) \in Contracted
  BY <1>1 DEF checkpointOutputAttempt, At, WorkersSound
<1>3. \A v \in AgentWorkers : v # w => agWork'[v] = agWork[v]
  BY <1>1 DEF checkpointOutputAttempt, Ends, Become, AgentTyped
<1>4. \A v \in AgentWorkers : v # w => KeepsCount(v)
  BY <1>3 DEF KeepsCount
<1>5. \A rec : Become(w, rec) => agWork'[w] = rec
  BY <1>1 DEF Become, AgentTyped
<1>6. /\ \A err : /\ [agWork[w] EXCEPT !.pc = "ended", !.err = err].pc = "ended"
                  /\ [agWork[w] EXCEPT !.pc = "ended", !.err = err].task = TaskAt(w)
      /\ \A n : /\ [agWork[w] EXCEPT !.pc = "running", !.attempt = n].pc = "running"
                /\ [agWork[w] EXCEPT !.pc = "running", !.attempt = n].task = TaskAt(w)
  BY <1>1, WorkerRecords
<1>7. CASE /\ attempts' = [attempts EXCEPT ![TaskAt(w)].completed = @ + 1]
           /\ \/ \E err : Ends(w, err)
             \/ \E n : Become(w, [agWork[w] EXCEPT !.pc = "running", !.attempt = n])
  <2>1. attempts' = [attempts EXCEPT ![TaskAt(w)].completed = @ + 1]
    BY <1>7
  <2>2. \/ \E err : agWork'[w] = [agWork[w] EXCEPT !.pc = "ended", !.err = err]
        \/ \E n : agWork'[w] = [agWork[w] EXCEPT !.pc = "running", !.attempt = n]
    BY <1>5, <1>7 DEF Ends
  <2>3. agWork'[w].pc \in {"ended", "running"} /\ agWork'[w].task = TaskAt(w)
    <3>1. CASE \E err : agWork'[w] = [agWork[w] EXCEPT !.pc = "ended", !.err = err]
      BY <1>6, <3>1
    <3>2. CASE \E n : agWork'[w] = [agWork[w] EXCEPT !.pc = "running", !.attempt = n]
      BY <1>6, <3>2
    <3> QED
      BY <2>2, <3>1, <3>2
  <2>4. attempts[TaskAt(w)] \in [reserved : Nat, completed : Nat]
    BY <1>1, <1>2 DEF AgentTyped
  <2>5. /\ attempts'[TaskAt(w)].completed = attempts[TaskAt(w)].completed + 1
        /\ attempts'[TaskAt(w)].reserved = attempts[TaskAt(w)].reserved
        /\ \A u \in Agents : u # TaskAt(w) => attempts'[u] = attempts[u]
    BY <1>1, <1>2, <2>1, <2>4 DEF AgentTyped
  <2>6. attempts[TaskAt(w)].reserved = attempts[TaskAt(w)].completed + 1
    BY <1>1, <1>2 DEF AttemptsSound
  <2>7. attempts'[TaskAt(w)].reserved <= MaxOutputAttempts
    BY <1>1, <1>2, <2>5 DEF AttemptsSound, AttemptsBudgeted
  <2>8. attempts'[TaskAt(w)].reserved = attempts'[TaskAt(w)].completed
    BY <2>5, <2>6
  <2>9. PICK pc \in {"ended", "running"} : agWork'[w].pc = pc
    BY <2>3
  <2> QED
    BY <1>2, <1>3, <2>3, <2>5, <2>7, <2>8, <2>9, AttemptsMoved
<1>8. CASE UNCHANGED attempts /\ Ends(w, "failed")
  <2>1. UNCHANGED attempts /\ \E err : agWork'[w] = [agWork[w] EXCEPT !.pc = "ended", !.err = err]
    BY <1>5, <1>8 DEF Ends
  <2>2. agWork'[w].pc = "ended"
    BY <1>6, <2>1
  <2>3. KeepsCount(w)
    BY <2>2 DEF KeepsCount, Even
  <2> QED
    BY <1>4, <2>1, <2>3, AttemptsKept
<1> QED
  BY <1>7, <1>8 DEF checkpointOutputAttempt

\* Every step keeps the attempts within their budget.
LEMMA AttemptsStep ==
    ASSUME DurInv, [Next]_vars PROVE AttemptsSound'
<1>1. AgentTyped /\ RowsFollow
  BY RowsStep DEF DurInv, DurTyped
<1>2. CASE UNCHANGED <<agWork, attempts>>
  BY <1>1, <1>2, AttemptsKept DEF KeepsCount
<1>3. CASE LoseMemory
  <2>1. UNCHANGED attempts /\ \A w \in AgentWorkers : agWork'[w] = IdleWorker
    BY <1>3 DEF LoseMemory, agOutcomes
  <2> QED
    BY <1>1, <2>1, AttemptsKept DEF KeepsCount, Even, IdleWorker
<1>4. ASSUME NEW w \in AgentWorkers, WorkerNext(w) \/ renewLease(w) PROVE AttemptsSound'
  <2>1. CASE reserveOutputAttempt(w)
    BY <1>1, <2>1, ReserveStep
  <2>2. CASE checkpointOutputAttempt(w)
    BY <1>1, <2>2, CheckpointStep
  <2>3. CASE \/ workerDequeues(w) \/ workerDrops(w) \/ acquireSessionSlot(w) \/ claim(w) \/ registers(w)
             \/ execute(w) \/ promptEnds(w) \/ finalizeRun(w) \/ finish(w) \/ renewLease(w)
    <3>1. UNCHANGED attempts /\ KeepsCount(w)
      BY <2>3, PlacesOfWorker
    <3>2. \A v \in AgentWorkers : v # w => agWork'[v] = agWork[v]
      <4>1. UNCHANGED agWork \/ \E rec : Become(w, rec)
        BY <1>1, <1>4, WorkerMove
      <4> QED
        BY <1>1, <4>1 DEF Become, AgentTyped
    <3>3. \A v \in AgentWorkers : v # w => KeepsCount(v)
      BY <3>2 DEF KeepsCount
    <3> QED
      BY <1>1, <3>1, <3>3, AttemptsKept
  <2> QED
    BY <1>4, <2>1, <2>2, <2>3 DEF WorkerNext
<1>5. ASSUME NEW c \in Cancelers, cancelActive(c) PROVE AttemptsSound'
  <2>1. UNCHANGED attempts
    BY <1>5 DEF cancelActive, agOutcomes
  <2>2. \A w \in AgentWorkers : KeepsCount(w)
    BY <1>1, <1>5, StopsOnly DEF KeepsCount
  <2> QED
    BY <1>1, <2>1, <2>2, AttemptsKept
<1>6. AgentAct \/ UNCHANGED agState
  BY StepKinds
<1> QED
  BY <1>2, <1>3, <1>4, <1>5, <1>6 DEF AgentAct, agVars, agState, agGoroutines, agOutcomes, NewStopped, Start, Shutdown,
     enqueueRecovered, requeueFires, Submit, enqueueCreated, Cancel

--------------------------------------------------------------------------------
(* Slots.                                                                      *)

\* The worker stays in run, or stays out of it.
KeepsSlot(w) ==
    /\ agWork'[w].pc \in Holding <=> agWork[w].pc \in Holding
    /\ agWork[w].pc \in Holding => agWork'[w].task = agWork[w].task

\* Nobody takes or gives back a slot.
LEMMA SlotsKept ==
    ASSUME DurInv, UNCHANGED agSlots, \A w \in AgentWorkers : KeepsSlot(w) PROVE SlotsSound'
<1>1. SlotsSound
  BY DEF DurInv
<1>2. \A k \in Keys : HoldersOf(k)' = HoldersOf(k)
  BY DEF HoldersOf, KeepsSlot, TaskAt
<1>3. agSlots' \in [Keys -> Nat]
  BY <1>1 DEF SlotsSound
<1>4. \A k \in Keys : /\ IsFiniteSet(HoldersOf(k)') /\ agSlots'[k] = Cardinality(HoldersOf(k)')
                      /\ agSlots'[k] <= SessionConcurrency
  BY <1>1, <1>2 DEF SlotsSound
<1> QED
  BY <1>3, <1>4 DEF SlotsSound

\* A slot that is taken is the worker's.
LEMMA SlotTaken ==
    ASSUME DurInv, NEW w \in AgentWorkers, TaskAt(w) \in Agents, agWork[w].pc \notin Holding,
           agWork'[w].pc \in Holding, agWork'[w].task = TaskAt(w),
           \A v \in AgentWorkers : v # w => agWork'[v] = agWork[v],
           agSlots[KeyOf[TaskAt(w)]] < SessionConcurrency,
           agSlots' = [agSlots EXCEPT ![KeyOf[TaskAt(w)]] = @ + 1]
    PROVE  SlotsSound'
<1>1. SlotsSound
  BY DEF DurInv
<1>2. PICK key \in Keys : key = KeyOf[TaskAt(w)]
  BY DEF Keys
<1>3. HoldersOf(key)' = HoldersOf(key) \cup {w} /\ w \notin HoldersOf(key)
  BY <1>2 DEF HoldersOf, TaskAt
<1>4. \A k \in Keys : k # key => HoldersOf(k)' = HoldersOf(k)
  BY <1>2 DEF HoldersOf, TaskAt
<1>5. IsFiniteSet(HoldersOf(key)) /\ Cardinality(HoldersOf(key)) = agSlots[key] /\ agSlots[key] \in Nat
  BY <1>1 DEF SlotsSound
<1>6. IsFiniteSet(HoldersOf(key) \cup {w}) /\ Cardinality(HoldersOf(key) \cup {w}) = Cardinality(HoldersOf(key)) + 1
  BY <1>3, <1>5, FS_AddElement
<1>7. agSlots'[key] = agSlots[key] + 1 /\ \A k \in Keys : k # key => agSlots'[k] = agSlots[k]
  BY <1>1, <1>2 DEF SlotsSound
<1>8. agSlots'[key] \in Nat /\ agSlots'[key] <= SessionConcurrency
  <2>1. \A n \in Nat : n < SessionConcurrency => n + 1 \in Nat /\ n + 1 <= SessionConcurrency
    BY AgentAssumption
  <2> QED
    BY <1>2, <1>5, <1>7, <2>1
<1>9. agSlots' \in [Keys -> Nat]
  <2>1. agSlots' = [agSlots EXCEPT ![key] = agSlots[key] + 1] /\ agSlots[key] + 1 \in Nat
    BY <1>2, <1>5
  <2> QED
    BY <1>1, <2>1 DEF SlotsSound
<1>10. \A k \in Keys : /\ IsFiniteSet(HoldersOf(k)') /\ agSlots'[k] = Cardinality(HoldersOf(k)')
                       /\ agSlots'[k] <= SessionConcurrency
  <2> SUFFICES ASSUME NEW k \in Keys
               PROVE  /\ IsFiniteSet(HoldersOf(k)') /\ agSlots'[k] = Cardinality(HoldersOf(k)')
                      /\ agSlots'[k] <= SessionConcurrency
    OBVIOUS
  <2>1. CASE k = key
    BY <1>3, <1>5, <1>6, <1>7, <1>8, <2>1
  <2>2. CASE k # key
    BY <1>1, <1>4, <1>7, <2>2 DEF SlotsSound
  <2> QED
    BY <2>1, <2>2
<1> QED
  BY <1>9, <1>10 DEF SlotsSound

\* A slot that is given back was the worker's.
LEMMA SlotReleased ==
    ASSUME DurInv, NEW w \in AgentWorkers, agWork[w].pc \in Holding, Release(w)
    PROVE  SlotsSound'
<1>1. SlotsSound /\ AgentTyped /\ WorkersSound
  BY DEF DurInv, DurTyped
<1>2. TaskAt(w) \in Agents
  BY <1>1 DEF WorkersSound, Holding
<1>3. PICK key \in Keys : key = KeyOf[TaskAt(w)]
  BY <1>2 DEF Keys
<1>4. agWork'[w] = IdleWorker /\ \A v \in AgentWorkers : v # w => agWork'[v] = agWork[v]
  BY <1>1 DEF Release, Become, AgentTyped
<1>5. agWork'[w].pc \notin Holding
  BY <1>4 DEF IdleWorker, Holding
<1>6. HoldersOf(key)' = HoldersOf(key) \ {w} /\ w \in HoldersOf(key)
  BY <1>3, <1>4, <1>5 DEF HoldersOf, TaskAt
<1>7. \A k \in Keys : k # key => HoldersOf(k)' = HoldersOf(k)
  BY <1>3, <1>4, <1>5 DEF HoldersOf, TaskAt
<1>8. IsFiniteSet(HoldersOf(key)) /\ Cardinality(HoldersOf(key)) = agSlots[key] /\ agSlots[key] \in Nat
      /\ agSlots[key] <= SessionConcurrency
  BY <1>1 DEF SlotsSound
<1>9. IsFiniteSet(HoldersOf(key) \ {w}) /\ Cardinality(HoldersOf(key) \ {w}) = Cardinality(HoldersOf(key)) - 1
  BY <1>6, <1>8, FS_RemoveElement
<1>10. Cardinality(HoldersOf(key) \ {w}) \in Nat
  BY <1>9, FS_CardinalityType
<1>11. agSlots'[key] = agSlots[key] - 1 /\ \A k \in Keys : k # key => agSlots'[k] = agSlots[k]
  BY <1>1, <1>3 DEF SlotsSound, Release
<1>12. agSlots'[key] = Cardinality(HoldersOf(key) \ {w}) /\ agSlots'[key] <= SessionConcurrency
  <2>1. \A n \in Nat : n <= SessionConcurrency => n - 1 <= SessionConcurrency
    BY AgentAssumption
  <2> QED
    BY <1>8, <1>9, <1>11, <2>1
<1>13. agSlots' \in [Keys -> Nat]
  <2>1. agSlots' = [agSlots EXCEPT ![key] = agSlots[key] - 1] /\ agSlots[key] - 1 \in Nat
    BY <1>3, <1>10, <1>11, <1>12 DEF Release
  <2> QED
    BY <1>1, <2>1 DEF SlotsSound
<1>14. \A k \in Keys : /\ IsFiniteSet(HoldersOf(k)') /\ agSlots'[k] = Cardinality(HoldersOf(k)')
                       /\ agSlots'[k] <= SessionConcurrency
  <2> SUFFICES ASSUME NEW k \in Keys
               PROVE  /\ IsFiniteSet(HoldersOf(k)') /\ agSlots'[k] = Cardinality(HoldersOf(k)')
                      /\ agSlots'[k] <= SessionConcurrency
    OBVIOUS
  <2>1. CASE k = key
    BY <1>6, <1>9, <1>12, <2>1
  <2>2. CASE k # key
    BY <1>1, <1>7, <1>11, <2>2 DEF SlotsSound
  <2> QED
    BY <2>1, <2>2
<1> QED
  BY <1>13, <1>14 DEF SlotsSound

\* The steps in which a worker keeps what it holds.
LEMMA HoldsOn ==
    ASSUME DurInv, NEW w \in AgentWorkers,
           \/ workerDequeues(w) \/ workerDrops(w) \/ registers(w) \/ execute(w) \/ reserveOutputAttempt(w)
           \/ promptEnds(w) \/ checkpointOutputAttempt(w) \/ finalizeRun(w) \/ renewLease(w)
    PROVE  KeepsSlot(w)
<1>1. AgentTyped
  BY DEF DurInv, DurTyped
<1>2. \A rec : Become(w, rec) => agWork'[w] = rec
  BY <1>1 DEF Become, AgentTyped
<1>3. /\ \A pc : /\ [agWork[w] EXCEPT !.pc = pc].pc = pc
                 /\ [agWork[w] EXCEPT !.pc = pc].task = TaskAt(w)
      /\ \A pc, err : /\ [agWork[w] EXCEPT !.pc = pc, !.err = err].pc = pc
                      /\ [agWork[w] EXCEPT !.pc = pc, !.err = err].task = TaskAt(w)
                      /\ [agWork[w] EXCEPT !.pc = pc, !.err = err].err = err
      /\ \A pc, n : /\ [agWork[w] EXCEPT !.pc = pc, !.attempt = n].pc = pc
                    /\ [agWork[w] EXCEPT !.pc = pc, !.attempt = n].task = TaskAt(w)
      /\ LET rec == [agWork[w] EXCEPT !.stop = TRUE] IN
         /\ rec.pc = agWork[w].pc /\ rec.task = TaskAt(w) /\ rec.err = agWork[w].err /\ rec.stop = TRUE
  BY <1>1, WorkerRecords
<1>4. CASE workerDequeues(w) \/ workerDrops(w)
  <2>1. \/ agWork'[w] = [IdleWorker EXCEPT !.pc = "taken", !.task = Head(agQueue)]
        \/ agWork'[w] = IdleWorker
    BY <1>2, <1>4 DEF workerDequeues, workerDrops
  <2>2. agWork'[w].pc \in {"taken", "idle"}
    <3>1. CASE agWork'[w] = [IdleWorker EXCEPT !.pc = "taken", !.task = Head(agQueue)]
      BY <3>1 DEF IdleWorker
    <3>2. CASE agWork'[w] = IdleWorker
      BY <3>2 DEF IdleWorker
    <3> QED
      BY <2>1, <3>1, <3>2
  <2>3. agWork[w].pc \in {"taken", "idle"}
    BY <1>4 DEF workerDequeues, workerDrops, At
  <2> QED
    BY <2>2, <2>3 DEF KeepsSlot, Holding
<1>5. ASSUME agWork[w].pc \in Holding,
             \/ \E pc \in Holding : \/ agWork'[w] = [agWork[w] EXCEPT !.pc = pc]
                                    \/ \E err : agWork'[w] = [agWork[w] EXCEPT !.pc = pc, !.err = err]
                                    \/ \E n : agWork'[w] = [agWork[w] EXCEPT !.pc = pc, !.attempt = n]
             \/ agWork'[w] = [agWork[w] EXCEPT !.stop = TRUE]
             \/ agWork'[w] = agWork[w]
      PROVE  KeepsSlot(w)
  <2>1. agWork[w].pc \in Holding
    BY <1>5
  <2>2. CASE \E pc \in Holding : agWork'[w] = [agWork[w] EXCEPT !.pc = pc]
    <3>1. PICK pc \in Holding : agWork'[w] = [agWork[w] EXCEPT !.pc = pc]
      BY <2>2
    <3>2. agWork'[w].pc = pc /\ agWork'[w].task = TaskAt(w)
      BY <1>3, <3>1
    <3> QED
      BY <2>1, <3>2 DEF KeepsSlot, TaskAt
  <2>3. CASE \E pc \in Holding : \E err : agWork'[w] = [agWork[w] EXCEPT !.pc = pc, !.err = err]
    <3>1. PICK pc \in Holding : \E err : agWork'[w] = [agWork[w] EXCEPT !.pc = pc, !.err = err]
      BY <2>3
    <3>2. agWork'[w].pc = pc /\ agWork'[w].task = TaskAt(w)
      BY <1>3, <3>1
    <3> QED
      BY <2>1, <3>2 DEF KeepsSlot, TaskAt
  <2>4. CASE \E pc \in Holding : \E n : agWork'[w] = [agWork[w] EXCEPT !.pc = pc, !.attempt = n]
    <3>1. PICK pc \in Holding : \E n : agWork'[w] = [agWork[w] EXCEPT !.pc = pc, !.attempt = n]
      BY <2>4
    <3>2. agWork'[w].pc = pc /\ agWork'[w].task = TaskAt(w)
      BY <1>3, <3>1
    <3> QED
      BY <2>1, <3>2 DEF KeepsSlot, TaskAt
  <2>5. CASE agWork'[w] = [agWork[w] EXCEPT !.stop = TRUE]
    BY <1>3, <2>5 DEF KeepsSlot, TaskAt
  <2>6. CASE agWork'[w] = agWork[w]
    BY <2>6 DEF KeepsSlot
  <2> QED
    BY <1>5, <2>2, <2>3, <2>4, <2>5, <2>6
<1>6. {"registered", "running", "prompting", "ended", "finishing", "claimed"} \subseteq Holding
  BY DEF Holding
<1>7. CASE registers(w)
  BY <1>2, <1>5, <1>6, <1>7 DEF registers, Goto, At
<1>8. CASE execute(w)
  BY <1>2, <1>5, <1>6, <1>8 DEF execute, rereadState, At
<1>9. CASE reserveOutputAttempt(w)
  BY <1>2, <1>5, <1>6, <1>9 DEF reserveOutputAttempt, Goto, Ends, At
<1>10. CASE promptEnds(w)
  BY <1>2, <1>5, <1>6, <1>10 DEF promptEnds, Ends, At
<1>11. CASE checkpointOutputAttempt(w)
  BY <1>2, <1>5, <1>6, <1>11 DEF checkpointOutputAttempt, Ends, At
<1>12. CASE finalizeRun(w)
  BY <1>2, <1>5, <1>6, <1>12 DEF finalizeRun, Finalizes, At
<1>13. CASE renewLease(w)
  BY <1>2, <1>5, <1>6, <1>13 DEF renewLease, Registered
<1> QED
  BY <1>4, <1>7, <1>8, <1>9, <1>10, <1>11, <1>12, <1>13

\* Every step keeps the slots accounted for.
LEMMA SlotsStep ==
    ASSUME DurInv, [Next]_vars PROVE SlotsSound'
<1>1. AgentTyped /\ SlotsSound /\ RowsFollow /\ WorkersSound
  BY RowsStep DEF DurInv, DurTyped
<1>2. CASE UNCHANGED <<agWork, agSlots>>
  BY <1>2, SlotsKept DEF KeepsSlot
<1>3. CASE LoseMemory
  <2>1. /\ agSlots' = [k \in Keys |-> 0] /\ \A w \in AgentWorkers : agWork'[w].pc = "idle"
    BY <1>3 DEF LoseMemory, IdleWorker
  <2>2. \A k \in Keys : HoldersOf(k)' = {}
    BY <2>1 DEF HoldersOf, Holding
  <2>3. IsFiniteSet({}) /\ Cardinality({}) = 0
    BY FS_EmptySet
  <2>4. 0 <= SessionConcurrency
    BY AgentAssumption
  <2> QED
    BY <2>1, <2>2, <2>3, <2>4 DEF SlotsSound
<1>4. ASSUME NEW w \in AgentWorkers, WorkerNext(w) \/ renewLease(w) PROVE SlotsSound'
  <2>1. \A v \in AgentWorkers : v # w => agWork'[v] = agWork[v]
    <3>1. UNCHANGED agWork \/ \E rec : Become(w, rec)
      BY <1>1, <1>4, WorkerMove
    <3> QED
      BY <1>1, <3>1 DEF Become, AgentTyped
  <2>2. ASSUME KeepsSlot(w), UNCHANGED agSlots PROVE SlotsSound'
    BY <2>1, <2>2, SlotsKept DEF KeepsSlot
  <2>3. \A rec : Become(w, rec) => agWork'[w] = rec
    BY <1>1 DEF Become, AgentTyped
  <2>4. /\ \A pc : /\ [agWork[w] EXCEPT !.pc = pc].pc = pc
                   /\ [agWork[w] EXCEPT !.pc = pc].task = TaskAt(w)
        /\ \A pc, err : /\ [agWork[w] EXCEPT !.pc = pc, !.err = err].pc = pc
                        /\ [agWork[w] EXCEPT !.pc = pc, !.err = err].task = TaskAt(w)
    BY <1>1, WorkerRecords
  <2>5. CASE \/ workerDequeues(w) \/ workerDrops(w) \/ registers(w) \/ execute(w) \/ reserveOutputAttempt(w)
             \/ promptEnds(w) \/ checkpointOutputAttempt(w) \/ finalizeRun(w) \/ renewLease(w)
    <3>1. UNCHANGED agSlots
      BY <2>5 DEF workerDequeues, workerDrops, registers, execute, reserveOutputAttempt, promptEnds,
         checkpointOutputAttempt, finalizeRun, renewLease
    <3> QED
      BY <2>2, <2>5, <3>1, HoldsOn
  <2>6. CASE acquireSessionSlot(w)
    <3>1. agWork[w].pc = "taken" /\ TaskAt(w) \in Agents
      BY <1>1, <2>6 DEF acquireSessionSlot, At, WorkersSound
    <3>2. CASE UNCHANGED agSlots /\ Become(w, IdleWorker)
      <4>1. agWork'[w].pc = "idle"
        BY <2>3, <3>2 DEF IdleWorker
      <4> QED
        BY <2>2, <3>1, <3>2, <4>1 DEF KeepsSlot, Holding
    <3>3. CASE /\ agSlots[KeyOf[TaskAt(w)]] < SessionConcurrency
               /\ agSlots' = [agSlots EXCEPT ![KeyOf[TaskAt(w)]] = @ + 1]
               /\ Goto(w, "slotted")
      <4>1. agWork'[w].pc = "slotted" /\ agWork'[w].task = TaskAt(w)
        BY <2>3, <2>4, <3>3 DEF Goto
      <4>2. agWork[w].pc \notin Holding /\ agWork'[w].pc \in Holding
        BY <3>1, <4>1 DEF Holding
      <4> QED
        BY <2>1, <3>1, <3>3, <4>1, <4>2, SlotTaken
    <3> QED
      BY <2>6, <3>2, <3>3 DEF acquireSessionSlot
  <2>7. CASE claim(w)
    <3>1. agWork[w].pc = "slotted"
      BY <2>7 DEF claim, At
    <3>2. agWork[w].pc \in Holding
      BY <3>1 DEF Holding
    <3>3. CASE Release(w)
      BY <3>2, <3>3, SlotReleased
    <3>4. CASE ~Release(w)
      <4>1. /\ UNCHANGED agSlots
            /\ \/ agWork'[w] = [agWork[w] EXCEPT !.pc = "claimed"]
               \/ agWork'[w] = [agWork[w] EXCEPT !.pc = "finishing", !.err = "failed"]
        BY <2>3, <2>7, <3>4 DEF claim, Goto, loseClaim
      <4>2. agWork'[w].pc \in {"claimed", "finishing"} /\ agWork'[w].task = TaskAt(w)
        <5>1. CASE agWork'[w] = [agWork[w] EXCEPT !.pc = "claimed"]
          BY <2>4, <5>1
        <5>2. CASE agWork'[w] = [agWork[w] EXCEPT !.pc = "finishing", !.err = "failed"]
          BY <2>4, <5>2
        <5> QED
          BY <4>1, <5>1, <5>2
      <4> QED
        BY <2>2, <3>2, <4>1, <4>2 DEF KeepsSlot, Holding, TaskAt
    <3> QED
      BY <3>3, <3>4
  <2>8. CASE finish(w)
    <3>1. agWork[w].pc \in Holding /\ Release(w)
      BY <2>8 DEF finish, At, Holding
    <3> QED
      BY <3>1, SlotReleased
  <2> QED
    BY <1>4, <2>5, <2>6, <2>7, <2>8 DEF WorkerNext
<1>5. ASSUME NEW c \in Cancelers, cancelActive(c) PROVE SlotsSound'
  <2>1. UNCHANGED agSlots
    BY <1>5 DEF cancelActive
  <2>2. \A w \in AgentWorkers : KeepsSlot(w)
    BY <1>1, <1>5, StopsOnly DEF KeepsSlot
  <2> QED
    BY <2>1, <2>2, SlotsKept
<1>6. AgentAct \/ UNCHANGED agState
  BY StepKinds
<1> QED
  BY <1>2, <1>3, <1>4, <1>5, <1>6 DEF AgentAct, agVars, agState, agGoroutines, NewStopped, Start, Shutdown,
     enqueueRecovered, requeueFires, Submit, enqueueCreated, Cancel

--------------------------------------------------------------------------------
(* The places of a task.                                                       *)

\* What stands in a queue after a send.
LEMMA AmongAppend ==
    ASSUME NEW S, NEW q \in Seq(S), NEW e \in S, NEW t
    PROVE  Among(Append(q, e), t) <=> Among(q, t) \/ t = e
<1>1. /\ Len(q) \in Nat /\ Len(Append(q, e)) = Len(q) + 1 /\ Append(q, e)[Len(q) + 1] = e
      /\ \A i \in 1..Len(q) : Append(q, e)[i] = q[i]
  OBVIOUS
<1>2. \A n \in Nat : 1..(n + 1) = (1..n) \cup {n + 1}
  OBVIOUS
<1>3. 1..Len(Append(q, e)) = (1..Len(q)) \cup {Len(q) + 1}
  BY <1>1, <1>2
<1> QED
  BY <1>1, <1>3 DEF Among

\* What stands in a queue after a receive.
LEMMA AmongTail ==
    ASSUME NEW S, NEW q \in Seq(S), q # <<>>, NEW t
    PROVE  Among(q, t) <=> Among(Tail(q), t) \/ t = Head(q)
<1>1. /\ Len(q) \in Nat /\ Len(q) >= 1 /\ Len(Tail(q)) = Len(q) - 1 /\ Head(q) = q[1]
      /\ \A i \in 1..Len(Tail(q)) : Tail(q)[i] = q[i + 1]
  OBVIOUS
<1>2. ASSUME Among(q, t), t # Head(q) PROVE Among(Tail(q), t)
  <2>1. PICK i \in 1..Len(q) : q[i] = t
    BY <1>2 DEF Among
  <2>2. i # 1
    BY <1>1, <1>2, <2>1
  <2>3. i - 1 \in 1..Len(Tail(q)) /\ (i - 1) + 1 = i
    BY <1>1, <2>1, <2>2
  <2>4. Tail(q)[i - 1] = q[i]
    BY <1>1, <2>3
  <2> QED
    BY <2>1, <2>3, <2>4 DEF Among
<1>3. ASSUME Among(Tail(q), t) PROVE Among(q, t)
  <2>1. PICK i \in 1..Len(Tail(q)) : Tail(q)[i] = t
    BY <1>3 DEF Among
  <2>2. i + 1 \in 1..Len(q) /\ q[i + 1] = t
    BY <1>1, <2>1
  <2> QED
    BY <2>2 DEF Among
<1>4. ASSUME t = Head(q) PROVE Among(q, t)
  <2>1. 1 \in 1..Len(q) /\ q[1] = t
    BY <1>1, <1>4
  <2> QED
    BY <2>1 DEF Among
<1> QED
  BY <1>2, <1>3, <1>4

\* The places where a queued task waits.
Waits(t) ==
    \/ t \in agTimers \cup agBacklog \cup agPending \cup stranded
    \/ Among(agQueue, t)
    \/ \E w \in AgentWorkers : agWork[w].pc \in {"taken", "slotted"} /\ TaskAt(w) = t

\* A task that waits in a channel goes on waiting when something is sent.
LEMMA SendKeepsWaiting ==
    ASSUME AgentTyped, NEW t \in Agents, Waits(t), NEW u \in Agents,
           UNCHANGED <<agWork, stranded>>, agQueue' = Append(agQueue, u),
           t \in agTimers => t \in agTimers' \/ t = u,
           t \in agBacklog => t \in agBacklog' \/ t = u,
           t \in agPending => t \in agPending' \/ t = u
    PROVE  Waits(t)'
<1>1. agQueue \in Seq(Agents)
  BY DEF AgentTyped
<1>2. Among(agQueue, t) \/ t = u => Among(agQueue', t)
  BY <1>1, AmongAppend
<1> QED
  BY <1>2 DEF Waits, TaskAt

\* The steps of a worker do not lose the task that waits.
LEMMA WorkerKeepsWaiting ==
    ASSUME DurInv, RowsFollow, agPhase = "up", NEW t \in Agents, StateOf(t) = "queued", StateOf(t)' = "queued", Waits(t),
           NEW w \in AgentWorkers, WorkerNext(w) \/ renewLease(w)
    PROVE  Waits(t)'
<1>1. AgentTyped /\ WorkersSound
  BY DEF DurInv, DurTyped
<1>2. \A v \in AgentWorkers : v # w => agWork'[v] = agWork[v]
  <2>1. UNCHANGED agWork \/ \E rec : Become(w, rec)
    BY WorkerMove
  <2> QED
    BY <1>1, <2>1 DEF Become, AgentTyped
<1>3. \A rec : Become(w, rec) => agWork'[w] = rec
  BY <1>1 DEF Become, AgentTyped
<1>4. \A pc : /\ [agWork[w] EXCEPT !.pc = pc].pc = pc
              /\ [agWork[w] EXCEPT !.pc = pc].task = TaskAt(w)
  BY <1>1, WorkerRecords
<1>5. ASSUME UNCHANGED <<agTimers, agBacklog, agPending, agQueue, stranded>>,
             agWork[w].pc \in {"taken", "slotted"} /\ TaskAt(w) = t =>
               agWork'[w].pc \in {"taken", "slotted"} /\ agWork'[w].task = t
      PROVE  Waits(t)'
  BY <1>2, <1>5 DEF Waits, TaskAt
<1>6. CASE workerDequeues(w)
  <2>1. agQueue \in Seq(Agents) /\ agQueue # <<>> /\ agQueue' = Tail(agQueue)
    BY <1>1, <1>6 DEF AgentTyped, workerDequeues
  <2>2. agWork'[w] = [IdleWorker EXCEPT !.pc = "taken", !.task = Head(agQueue)]
    BY <1>3, <1>6 DEF workerDequeues
  <2>3. agWork'[w].pc = "taken" /\ agWork'[w].task = Head(agQueue)
    BY <2>2 DEF IdleWorker
  <2>4. Among(agQueue, t) => Among(agQueue', t) \/ agWork'[w].task = t
    BY <2>1, <2>3, AmongTail
  <2>5. agWork[w].pc = "idle" /\ UNCHANGED <<agTimers, agBacklog, agPending, stranded>>
    BY <1>6 DEF workerDequeues, At, agOutcomes
  <2> QED
    BY <1>2, <2>3, <2>4, <2>5 DEF Waits, TaskAt
<1>7. CASE workerDrops(w)
  BY <1>7 DEF workerDrops, Stopped
<1>8. CASE acquireSessionSlot(w)
  <2>1. UNCHANGED <<agBacklog, agPending, agQueue, stranded>>
    BY <1>8 DEF acquireSessionSlot, agOutcomes
  <2>2. CASE Goto(w, "slotted") /\ UNCHANGED agTimers
    <3>1. agWork'[w].pc = "slotted" /\ agWork'[w].task = TaskAt(w)
      BY <1>3, <1>4, <2>2 DEF Goto
    <3> QED
      BY <1>5, <2>1, <2>2, <3>1
  <2>3. CASE agTimers' = agTimers \cup {TaskAt(w)}
    BY <1>2, <2>1, <2>3 DEF Waits, TaskAt
  <2> QED
    BY <1>8, <2>2, <2>3 DEF acquireSessionSlot
<1>9. CASE claim(w)
  <2>1. UNCHANGED <<agTimers, agBacklog, agPending, agQueue>> /\ agWork[w].pc = "slotted"
    BY <1>9 DEF claim, agChannels, At
  <2>2. TaskAt(w) \in Agents
    BY <1>1, <2>1 DEF WorkersSound
  <2>3. CASE ClaimQueued(TaskAt(w), agOwner) /\ UNCHANGED stranded
    <3>1. tasks \in [Tasks -> Rows] /\ TaskAt(w) \in Tasks
      BY <2>2, AgentAssumption DEF DurInv, DurTyped
    <3>2. tasks'[TaskAt(w)].state = "running"
      BY <2>3, <3>1 DEF ClaimQueued, Put, Row
    <3>3. TaskAt(w) # t
      BY <3>2 DEF StateOf
    <3> QED
      BY <1>5, <2>1, <2>3, <3>3
  <2>4. CASE StateOf(TaskAt(w)) # "queued" /\ UNCHANGED stranded
    BY <1>5, <2>1, <2>4
  <2>5. CASE stranded' = stranded \cup {TaskAt(w)}
    BY <1>2, <2>1, <2>5 DEF Waits, TaskAt
  <2> QED
    BY <1>9, <2>3, <2>4, <2>5 DEF claim
<1>10. CASE registers(w) \/ execute(w) \/ reserveOutputAttempt(w) \/ promptEnds(w)
  <2>1. UNCHANGED <<agTimers, agBacklog, agPending, agQueue, stranded>> /\ agWork[w].pc \notin {"taken", "slotted"}
    BY <1>10 DEF registers, execute, reserveOutputAttempt, promptEnds, agChannels, agOutcomes, At
  <2> QED
    BY <1>5, <2>1
<1>11. CASE checkpointOutputAttempt(w) \/ finalizeRun(w) \/ finish(w) \/ renewLease(w)
  <2>1. UNCHANGED <<agTimers, agBacklog, agPending, agQueue, stranded>> /\ agWork[w].pc \notin {"taken", "slotted"}
    BY <1>11 DEF checkpointOutputAttempt, finalizeRun, finish, renewLease, Registered, agChannels, agOutcomes, At
  <2> QED
    BY <1>5, <2>1
<1> QED
  BY <1>6, <1>7, <1>8, <1>9, <1>10, <1>11 DEF WorkerNext

\* Whatever the step, a queued task of a service that is up is on its way to a worker.
LEMMA QueuedStep ==
    ASSUME DurInv, [Next]_vars PROVE QueuedIsTracked'
<1>1. AgentTyped /\ RowsFollow /\ RowsSound /\ tasks \in [Tasks -> Rows] /\ Agents \subseteq Tasks
  BY RowsStep, AgentAssumption DEF DurInv, DurTyped
<1>2. SUFFICES ASSUME agPhase' = "up", NEW t \in Agents, StateOf(t)' = "queued" PROVE Waits(t)'
  BY DEF QueuedIsTracked, Waits, Among
<1>3. CASE StateOf(t) # "queued"
  <2>1. t \in agPending'
    BY <1>1, <1>2, <1>3 DEF RowsFollow, Follows, TerminalStates
  <2> QED
    BY <2>1 DEF Waits
<1>4. CASE StateOf(t) = "queued"
  <2>1. agPhase = "up" => Waits(t)
    BY <1>4 DEF DurInv, QueuedIsTracked, Waits, Among
  <2>2. CASE UNCHANGED agState
    BY <1>2, <2>1, <2>2 DEF Waits, TaskAt, agVars, agState, agProcess, agChannels, agGoroutines, agOutcomes
  <2>3. CASE Start
    BY <1>4, <2>3 DEF Start, Waits
  <2>4. ASSUME NEW u \in Agents, enqueueRecovered(u) \/ requeueFires(u) PROVE Waits(t)'
    BY <1>1, <2>1, <2>4, SendKeepsWaiting DEF enqueueRecovered, requeueFires, agGoroutines, agOutcomes
  <2>5. ASSUME NEW u \in Agents, Submit(u) PROVE Waits(t)'
    BY <1>2, <2>1, <2>5 DEF Submit, Waits, TaskAt, agProcess, agGoroutines, agOutcomes
  <2>6. ASSUME NEW u \in Agents, enqueueCreated(u) PROVE Waits(t)'
    <3>1. agPhase = "up" /\ Waits(t)
      BY <1>2, <2>1, <2>6 DEF enqueueCreated, agProcess
    <3>2. CASE agQueue' = Append(agQueue, u)
      BY <1>1, <2>6, <3>1, <3>2, SendKeepsWaiting DEF enqueueCreated, agGoroutines
    <3>3. CASE rejectQueuedTask(u) /\ UNCHANGED agQueue
      <4>1. t # u
        <5> SUFFICES ASSUME t = u PROVE FALSE
          OBVIOUS
        <5>1. Finishable(t, {"queued"}, NoOwner)
          BY <1>1, <1>4 DEF Finishable, RowsSound
        <5>2. Put(t, Row("failed", NoOwner))
          BY <3>3, <5>1 DEF rejectQueuedTask, Finish
        <5>3. tasks'[t].state = "failed"
          BY <1>1, <5>2 DEF Put, Row
        <5> QED
          BY <1>2, <5>3 DEF StateOf
      <4>2. stranded \subseteq stranded'
        BY <2>6 DEF enqueueCreated
      <4> QED
        BY <2>6, <3>1, <3>3, <4>1, <4>2 DEF enqueueCreated, Waits, TaskAt, agGoroutines
    <3>4. CASE UNCHANGED agQueue /\ stranded' = stranded \cup {u}
      BY <2>6, <3>1, <3>4 DEF enqueueCreated, Waits, TaskAt, agGoroutines
    <3> QED
      BY <2>6, <3>2, <3>3, <3>4 DEF enqueueCreated
  <2>7. ASSUME NEW w \in AgentWorkers, WorkerNext(w) \/ renewLease(w) PROVE Waits(t)'
    <3>1. agPhase = "up"
      BY <1>2, <2>7 DEF WorkerNext, renewLease, workerDequeues, workerDrops, acquireSessionSlot, claim, registers,
         execute, reserveOutputAttempt, promptEnds, checkpointOutputAttempt, finalizeRun, finish, agProcess
    <3> QED
      BY <1>1, <1>2, <1>4, <2>1, <2>7, <3>1, WorkerKeepsWaiting
  <2>8. ASSUME NEW c \in Cancelers, cancelActive(c) PROVE Waits(t)'
    <3>1. \A w \in AgentWorkers : agWork'[w].pc = agWork[w].pc /\ agWork'[w].task = agWork[w].task
      BY <1>1, <2>8, StopsOnly
    <3>2. agPhase = "up" /\ UNCHANGED <<agTimers, agBacklog, agPending, agQueue, stranded>>
      BY <1>2, <2>8 DEF cancelActive, agProcess, agChannels, agOutcomes
    <3> QED
      BY <2>1, <3>1, <3>2 DEF Waits, TaskAt
  <2>9. ASSUME NEW c \in Cancelers, NEW u \in Agents, Cancel(c, u) PROVE Waits(t)'
    BY <1>2, <2>1, <2>9 DEF Cancel, Waits, TaskAt, agProcess, agChannels, agOutcomes
  <2>10. CASE LoseMemory \/ Shutdown \/ \E o \in Owners : NewStopped(o)
    BY <1>2, <2>10 DEF LoseMemory, Shutdown, NewStopped
  <2>11. AgentAct \/ UNCHANGED agState
    BY StepKinds
  <2> QED
    BY <2>2, <2>3, <2>4, <2>5, <2>6, <2>7, <2>8, <2>9, <2>10, <2>11 DEF AgentAct
<1> QED
  BY <1>3, <1>4

--------------------------------------------------------------------------------
(* Cancellation.                                                               *)

Prompts == {"running", "prompting"}

\* A run was at work before the step, or starts in it on a row that nobody asked to stop.
RunsOn(w) ==
    /\ agWork'[w].task = agWork[w].task
    /\ \/ agWork[w].pc \in Prompts /\ (agWork[w].stop => agWork'[w].stop)
       \/ agWork[w].pc = "registered" /\ UNCHANGED tasks /\ StateOf(TaskAt(w)) # "canceling"

\* A worker's own steps.
LEMMA WorkerRunsOn ==
    ASSUME DurInv, RowsFollow, NEW w \in AgentWorkers, WorkerNext(w) \/ renewLease(w), agWork'[w].pc \in Prompts
    PROVE  RunsOn(w)
<1>1. AgentTyped /\ agWork[w] \in WorkRecord
  BY DEF DurInv, DurTyped, AgentTyped
<1>2. \A rec : Become(w, rec) => agWork'[w] = rec
  BY <1>1 DEF Become, AgentTyped
<1>3. /\ \A pc : [agWork[w] EXCEPT !.pc = pc].pc = pc
      /\ \A pc, err : [agWork[w] EXCEPT !.pc = pc, !.err = err].pc = pc
      /\ \A pc, n : [agWork[w] EXCEPT !.pc = pc, !.attempt = n].pc = pc
  BY <1>1, WorkerRecords
<1>4. /\ \A pc, n : /\ [agWork[w] EXCEPT !.pc = pc, !.attempt = n].task = agWork[w].task
                    /\ [agWork[w] EXCEPT !.pc = pc, !.attempt = n].stop = agWork[w].stop
      /\ \A pc : /\ [agWork[w] EXCEPT !.pc = pc].task = agWork[w].task
                 /\ [agWork[w] EXCEPT !.pc = pc].stop = agWork[w].stop
      /\ LET rec == [agWork[w] EXCEPT !.stop = TRUE] IN
         rec.pc = agWork[w].pc /\ rec.task = agWork[w].task /\ rec.stop = TRUE
  BY <1>1 DEF WorkRecord
<1>5. IdleWorker.pc = "idle" /\ [IdleWorker EXCEPT !.pc = "taken", !.task = Head(agQueue)].pc = "taken"
  BY DEF IdleWorker
<1>6. CASE workerDequeues(w) \/ workerDrops(w) \/ acquireSessionSlot(w)
  <2>1. \/ agWork'[w] = [IdleWorker EXCEPT !.pc = "taken", !.task = Head(agQueue)]
        \/ agWork'[w] = IdleWorker
        \/ agWork'[w] = [agWork[w] EXCEPT !.pc = "slotted"]
    BY <1>2, <1>6 DEF workerDequeues, workerDrops, acquireSessionSlot, Goto
  <2>2. agWork'[w].pc \in {"taken", "idle", "slotted"}
    <3>1. CASE agWork'[w] = [agWork[w] EXCEPT !.pc = "slotted"]
      BY <1>3, <3>1
    <3> QED
      BY <1>5, <2>1, <3>1
  <2> QED
    BY <2>2 DEF Prompts
<1>7. CASE claim(w) \/ registers(w) \/ finish(w)
  <2>1. \/ agWork'[w] = IdleWorker
        \/ agWork'[w] = [agWork[w] EXCEPT !.pc = "claimed"]
        \/ agWork'[w] = [agWork[w] EXCEPT !.pc = "registered"]
        \/ agWork'[w] = [agWork[w] EXCEPT !.pc = "finishing", !.err = "failed"]
    BY <1>2, <1>7 DEF claim, registers, finish, Goto, loseClaim, Release
  <2>2. agWork'[w].pc \in {"idle", "claimed", "registered", "finishing"}
    <3>1. CASE agWork'[w] = IdleWorker
      BY <1>5, <3>1
    <3>2. CASE agWork'[w] = [agWork[w] EXCEPT !.pc = "claimed"] \/ agWork'[w] = [agWork[w] EXCEPT !.pc = "registered"]
      BY <1>3, <3>2
    <3>3. CASE agWork'[w] = [agWork[w] EXCEPT !.pc = "finishing", !.err = "failed"]
      BY <1>3, <3>3
    <3> QED
      BY <2>1, <3>1, <3>2, <3>3
  <2> QED
    BY <2>2 DEF Prompts
<1>8. ASSUME NEW pc \in {"ended", "finishing"}, \E err : agWork'[w] = [agWork[w] EXCEPT !.pc = pc, !.err = err]
      PROVE  FALSE
  <2>1. agWork'[w].pc = pc
    BY <1>3, <1>8
  <2> QED
    BY <2>1 DEF Prompts
<1>9. CASE execute(w)
  <2>1. \E n : /\ agWork'[w] = [agWork[w] EXCEPT !.pc = "running", !.attempt = n]
               /\ StateOf(TaskAt(w)) # "canceling"
    BY <1>2, <1>8, <1>9 DEF execute, rereadState
  <2>2. agWork'[w].task = agWork[w].task
    BY <1>4, <2>1
  <2>3. agWork[w].pc = "registered" /\ UNCHANGED tasks
    BY <1>9 DEF execute, At
  <2> QED
    BY <2>1, <2>2, <2>3 DEF RunsOn
<1>10. CASE reserveOutputAttempt(w)
  <2>1. agWork'[w] = [agWork[w] EXCEPT !.pc = "prompting"]
    BY <1>2, <1>8, <1>10 DEF reserveOutputAttempt, Goto, Ends
  <2>2. agWork'[w].task = agWork[w].task /\ agWork'[w].stop = agWork[w].stop
    BY <1>4, <2>1
  <2>3. agWork[w].pc = "running"
    BY <1>10 DEF reserveOutputAttempt, At
  <2> QED
    BY <2>2, <2>3 DEF RunsOn, Prompts
<1>11. CASE promptEnds(w)
  <2>1. \E err : agWork'[w] = [agWork[w] EXCEPT !.pc = "ended", !.err = err]
    BY <1>2, <1>11 DEF promptEnds, Ends
  <2> QED
    BY <1>8, <2>1
<1>12. CASE checkpointOutputAttempt(w)
  <2>1. \E n : agWork'[w] = [agWork[w] EXCEPT !.pc = "running", !.attempt = n]
    BY <1>2, <1>8, <1>12 DEF checkpointOutputAttempt, Ends
  <2>2. agWork'[w].task = agWork[w].task /\ agWork'[w].stop = agWork[w].stop
    BY <1>4, <2>1
  <2>3. agWork[w].pc = "prompting"
    BY <1>12 DEF checkpointOutputAttempt, At
  <2> QED
    BY <2>2, <2>3 DEF RunsOn, Prompts
<1>13. CASE finalizeRun(w)
  <2>1. \E err : agWork'[w] = [agWork[w] EXCEPT !.pc = "finishing", !.err = err]
    BY <1>2, <1>13 DEF finalizeRun, Finalizes
  <2> QED
    BY <1>8, <2>1
<1>14. CASE renewLease(w)
  <2>1. agWork'[w] = agWork[w] \/ agWork'[w] = [agWork[w] EXCEPT !.stop = TRUE]
    BY <1>2, <1>14 DEF renewLease
  <2>2. agWork'[w].pc = agWork[w].pc /\ agWork'[w].task = agWork[w].task /\ (agWork[w].stop => agWork'[w].stop)
    BY <1>4, <2>1
  <2> QED
    BY <2>2 DEF RunsOn
<1> QED
  BY <1>6, <1>7, <1>9, <1>10, <1>11, <1>12, <1>13, <1>14 DEF WorkerNext

\* Any step.
LEMMA RunsOnStep ==
    ASSUME DurInv, [Next]_vars, NEW w \in AgentWorkers, agWork'[w].pc \in Prompts
    PROVE  RunsOn(w)
<1>1. AgentTyped /\ RowsFollow
  BY RowsStep DEF DurInv, DurTyped
<1>2. CASE UNCHANGED agWork
  BY <1>2 DEF RunsOn
<1>3. CASE LoseMemory
  <2>1. agWork'[w].pc = "idle"
    BY <1>3 DEF LoseMemory, IdleWorker
  <2> QED
    BY <2>1 DEF Prompts
<1>4. ASSUME NEW v \in AgentWorkers, WorkerNext(v) \/ renewLease(v) PROVE RunsOn(w)
  <2>1. CASE v = w
    BY <1>1, <1>4, <2>1, WorkerRunsOn
  <2>2. CASE v # w
    <3>1. UNCHANGED agWork \/ \E rec : Become(v, rec)
      BY <1>1, <1>4, WorkerMove
    <3>2. agWork'[w] = agWork[w]
      BY <1>1, <2>2, <3>1 DEF Become, AgentTyped
    <3> QED
      BY <3>2 DEF RunsOn
  <2> QED
    BY <2>1, <2>2
<1>5. ASSUME NEW c \in Cancelers, cancelActive(c) PROVE RunsOn(w)
  <2>1. /\ agWork'[w].pc = agWork[w].pc /\ agWork'[w].task = agWork[w].task
        /\ agWork[w].stop => agWork'[w].stop
    BY <1>1, <1>5, StopsOnly
  <2> QED
    BY <2>1 DEF RunsOn
<1>6. AgentAct \/ UNCHANGED agState
  BY StepKinds
<1> QED
  BY <1>2, <1>3, <1>4, <1>5, <1>6 DEF AgentAct, agVars, agState, agGoroutines, NewStopped, Start, Shutdown,
     enqueueRecovered, requeueFires, Submit, enqueueCreated, Cancel

\* The signal to a run is delivered or still on its way.
LEMMA SignalStays ==
    ASSUME DurInv, [Next]_vars, NEW w \in AgentWorkers, agWork'[w].pc \in Prompts, agWork[w].pc \in Prompts,
           NEW c \in Cancelers, agCancel[c].task = TaskAt(w)
    PROVE  agWork'[w].stop \/ agCancel'[c].task = TaskAt(w)
<1>1. AgentTyped /\ WorkersSound
  BY DEF DurInv, DurTyped
<1>2. TaskAt(w) \in Agents /\ TaskAt(w) # NoTask
  BY <1>1, AgentAssumption DEF WorkersSound, Prompts
<1>3. agCancel[c].pc # "idle"
  BY <1>1, <1>2 DEF WorkersSound, IdleCaller
<1>4. CASE agCancel'[c] = agCancel[c]
  BY <1>4
<1>5. CASE LoseMemory
  <2>1. agWork'[w].pc = "idle"
    BY <1>5 DEF LoseMemory, IdleWorker
  <2> QED
    BY <2>1 DEF Prompts
<1>6. ASSUME NEW d \in Cancelers, cancelActive(d) PROVE agWork'[w].stop \/ agCancel'[c].task = TaskAt(w)
  <2>1. agWork[w].pc \in Registered
    BY DEF Registered, Prompts
  <2> QED
    BY <1>1, <1>6, <2>1, StopsOnly DEF TaskAt
<1>7. ASSUME NEW d \in Cancelers, NEW u \in Agents, Cancel(d, u) PROVE agCancel'[c] = agCancel[c]
  <2>1. agCancel[d].pc = "idle" /\ d # c
    BY <1>3, <1>7 DEF Cancel
  <2> QED
    BY <1>1, <1>7, <2>1 DEF Cancel, AgentTyped
<1>8. ASSUME NEW v \in AgentWorkers, WorkerNext(v) \/ renewLease(v) PROVE agCancel'[c] = agCancel[c]
  BY <1>8 DEF WorkerNext, renewLease, workerDequeues, workerDrops, acquireSessionSlot, claim, registers, execute,
     reserveOutputAttempt, promptEnds, checkpointOutputAttempt, finalizeRun, finish, agGoroutines
<1>9. AgentAct \/ UNCHANGED agState
  BY StepKinds
<1> QED
  BY <1>4, <1>5, <1>6, <1>7, <1>8, <1>9 DEF AgentAct, agVars, agState, agGoroutines, NewStopped, Start, Shutdown,
     enqueueRecovered, requeueFires, Submit, enqueueCreated

\* A service that stops goes on stopping until the process is gone.
LEMMA StopsUntilGone ==
    ASSUME DurInv, [Next]_vars, Stopped, NEW w \in AgentWorkers, agWork'[w].pc \in Prompts
    PROVE  Stopped'
<1>1. CASE UNCHANGED agProcess
  BY <1>1 DEF Stopped, agProcess
<1>2. CASE LoseMemory
  <2>1. agWork'[w].pc = "idle"
    BY <1>2 DEF LoseMemory, IdleWorker
  <2> QED
    BY <2>1 DEF Prompts
<1>3. ASSUME NEW v \in AgentWorkers, WorkerNext(v) \/ renewLease(v) PROVE UNCHANGED agProcess
  BY <1>3 DEF WorkerNext, renewLease, workerDequeues, workerDrops, acquireSessionSlot, claim, registers, execute,
     reserveOutputAttempt, promptEnds, checkpointOutputAttempt, finalizeRun, finish
<1>4. AgentAct \/ UNCHANGED agState
  BY StepKinds
<1> QED
  BY <1>1, <1>2, <1>3, <1>4 DEF AgentAct, agVars, agState, NewStopped, Start, Shutdown, Stopped,
     enqueueRecovered, requeueFires, Submit, enqueueCreated, cancelActive, Cancel

\* Whatever the step, a task that was asked to stop has been signalled or will be.
LEMMA CancelStep ==
    ASSUME DurInv, [Next]_vars PROVE CancelReachesRun'
<1>1. AgentTyped /\ RowsFollow /\ WorkersSound /\ tasks \in [Tasks -> Rows] /\ Agents \subseteq Tasks
  BY RowsStep, AgentAssumption DEF DurInv, DurTyped
<1>2. SUFFICES ASSUME NEW w \in AgentWorkers, agWork'[w].pc \in Prompts,
                      tasks'[agWork'[w].task].state = "canceling", agWork'[w].task \notin Children
               PROVE  agWork'[w].stop \/ Stopped' \/ \E c \in Cancelers : agCancel'[c].task = agWork'[w].task
  BY DEF CancelReachesRun, CtxDone, TaskAt, StateOf, Prompts, Children
<1>3. RunsOn(w)
  BY <1>2, RunsOnStep
<1>4. PICK t : t = TaskAt(w) /\ agWork'[w].task = t
  BY <1>3 DEF RunsOn, TaskAt
<1>5. agWork[w].pc # "idle"
  BY <1>3 DEF RunsOn, Prompts
<1>6. t \in Agents /\ t \in Tasks /\ t \notin Children /\ StateOf(t)' = "canceling"
  BY <1>1, <1>2, <1>4, <1>5 DEF WorkersSound, StateOf
<1>7. CASE agWork[w].pc \in Prompts /\ (agWork[w].stop => agWork'[w].stop)
  <2>1. StateOf(t) \in {"canceling", "running"}
    BY <1>1, <1>6 DEF RowsFollow, Follows, TerminalStates
  <2>2. CASE StateOf(t) = "running"
    BY <1>1, <1>4, <1>6, <2>2 DEF RowsFollow, Follows, TerminalStates
  <2>3. CASE StateOf(t) = "canceling"
    <3>1. CtxDone(w) \/ \E c \in Cancelers : agCancel[c].task = TaskAt(w)
      BY <1>4, <1>6, <1>7, <2>3 DEF DurInv, CancelReachesRun, Prompts
    <3>2. CASE CtxDone(w)
      BY <1>2, <1>7, <3>2, StopsUntilGone DEF CtxDone
    <3>3. ASSUME NEW c \in Cancelers, agCancel[c].task = TaskAt(w)
          PROVE  agWork'[w].stop \/ agCancel'[c].task = t
      BY <1>2, <1>4, <1>7, <3>3, SignalStays
    <3> QED
      BY <1>4, <3>1, <3>2, <3>3
  <2> QED
    BY <2>1, <2>2, <2>3
<1>8. CASE UNCHANGED tasks /\ StateOf(TaskAt(w)) # "canceling"
  BY <1>4, <1>6, <1>8 DEF StateOf
<1> QED
  BY <1>3, <1>7, <1>8 DEF RunsOn

--------------------------------------------------------------------------------
(* Submissions.                                                                *)

\* The steps of a worker do not find a task that is nowhere.
LEMMA WorkerLeavesUnclaimed ==
    ASSUME DurInv, RowsFollow, NEW t \in Agents, Unclaimed(t), NEW w \in AgentWorkers, WorkerNext(w) \/ renewLease(w)
    PROVE  Unclaimed(t)'
<1>1. AgentTyped /\ t # NoTask
  BY AgentAssumption DEF DurInv, DurTyped
<1>2. \A v \in AgentWorkers : v # w => agWork'[v] = agWork[v]
  <2>1. UNCHANGED agWork \/ \E rec : Become(w, rec)
    BY WorkerMove
  <2> QED
    BY <1>1, <2>1 DEF Become, AgentTyped
<1>3. \A rec : Become(w, rec) => agWork'[w] = rec
  BY <1>1 DEF Become, AgentTyped
<1>4. UNCHANGED agBacklog
  BY DEF WorkerNext, renewLease, workerDequeues, workerDrops, acquireSessionSlot, claim, registers, execute,
     reserveOutputAttempt, promptEnds, checkpointOutputAttempt, finalizeRun, finish, agChannels
<1>5. IdleWorker.task = NoTask
  BY DEF IdleWorker
<1>6. CASE workerDequeues(w)
  <2>1. agQueue \in Seq(Agents) /\ agQueue # <<>> /\ agQueue' = Tail(agQueue)
    BY <1>1, <1>6 DEF AgentTyped, workerDequeues
  <2>2. agWork'[w] = [IdleWorker EXCEPT !.pc = "taken", !.task = Head(agQueue)]
    BY <1>3, <1>6 DEF workerDequeues
  <2>3. agWork'[w].task = Head(agQueue)
    BY <2>2 DEF IdleWorker
  <2>4. ~Among(agQueue', t) /\ Head(agQueue) # t
    BY <2>1, AmongTail DEF Unclaimed
  <2>5. UNCHANGED agTimers
    BY <1>6 DEF workerDequeues
  <2> QED
    BY <1>2, <1>4, <2>3, <2>4, <2>5 DEF Unclaimed, TaskAt
<1>7. agWork[w].task # t
  BY DEF Unclaimed, TaskAt
<1>8. CASE ~workerDequeues(w)
  <2>1. UNCHANGED agQueue
    BY <1>8 DEF WorkerNext, renewLease, workerDrops, acquireSessionSlot, claim, registers, execute,
       reserveOutputAttempt, promptEnds, checkpointOutputAttempt, finalizeRun, finish, agChannels
  <2>2. agTimers' = agTimers \/ agTimers' = agTimers \cup {TaskAt(w)}
    BY <1>8 DEF WorkerNext, renewLease, workerDrops, acquireSessionSlot, claim, registers, execute,
       reserveOutputAttempt, promptEnds, checkpointOutputAttempt, finalizeRun, finish, agChannels
  <2>3. agWork'[w].task # t
    <3>1. agWork[w] \in WorkRecord
      BY <1>1 DEF AgentTyped
    <3>2. /\ \A pc : [agWork[w] EXCEPT !.pc = pc].task = agWork[w].task
          /\ \A pc, err : [agWork[w] EXCEPT !.pc = pc, !.err = err].task = agWork[w].task
          /\ \A pc, n : [agWork[w] EXCEPT !.pc = pc, !.attempt = n].task = agWork[w].task
          /\ [agWork[w] EXCEPT !.stop = TRUE].task = agWork[w].task
      BY <3>1 DEF WorkRecord
    <3>3. \/ agWork'[w] = IdleWorker
          \/ \E pc : agWork'[w] = [agWork[w] EXCEPT !.pc = pc]
          \/ \E pc, err : agWork'[w] = [agWork[w] EXCEPT !.pc = pc, !.err = err]
          \/ \E pc, n : agWork'[w] = [agWork[w] EXCEPT !.pc = pc, !.attempt = n]
          \/ agWork'[w] = [agWork[w] EXCEPT !.stop = TRUE]
          \/ agWork'[w] = agWork[w]
      <4>1. CASE workerDrops(w) \/ acquireSessionSlot(w) \/ claim(w) \/ registers(w) \/ finish(w)
        BY <1>3, <4>1 DEF workerDrops, acquireSessionSlot, claim, registers, finish, Goto, loseClaim, Release
      <4>2. CASE execute(w) \/ reserveOutputAttempt(w) \/ promptEnds(w)
        BY <1>3, <4>2 DEF execute, rereadState, reserveOutputAttempt, Goto, promptEnds, Ends
      <4>3. CASE checkpointOutputAttempt(w) \/ finalizeRun(w) \/ renewLease(w)
        BY <1>3, <4>3 DEF checkpointOutputAttempt, Ends, finalizeRun, Finalizes, renewLease
      <4> QED
        BY <1>8, <4>1, <4>2, <4>3 DEF WorkerNext
    <3>4. agWork'[w].task = NoTask \/ agWork'[w].task = agWork[w].task
      <4>1. CASE agWork'[w] = IdleWorker \/ agWork'[w] = agWork[w]
        BY <1>5, <4>1
      <4>2. CASE \E pc : agWork'[w] = [agWork[w] EXCEPT !.pc = pc]
        BY <3>2, <4>2
      <4>3. CASE \E pc, err : agWork'[w] = [agWork[w] EXCEPT !.pc = pc, !.err = err]
        BY <3>2, <4>3
      <4>4. CASE \E pc, n : agWork'[w] = [agWork[w] EXCEPT !.pc = pc, !.attempt = n]
        BY <3>2, <4>4
      <4>5. CASE agWork'[w] = [agWork[w] EXCEPT !.stop = TRUE]
        BY <3>2, <4>5
      <4> QED
        BY <3>3, <4>1, <4>2, <4>3, <4>4, <4>5
    <3> QED
      BY <1>1, <1>7, <3>4
  <2> QED
    BY <1>2, <1>4, <2>1, <2>2, <2>3 DEF Unclaimed, TaskAt
<1> QED
  BY <1>6, <1>8

\* Only the submission of a task, or a start that finds it queued, brings it to the workers.
LEMMA UnclaimedStays ==
    ASSUME DurInv, [Next]_vars, NEW t \in Agents, Unclaimed(t)
    PROVE  Unclaimed(t)' \/ enqueueCreated(t) \/ (Start /\ StateOf(t) = "queued")
<1>1. AgentTyped /\ RowsFollow /\ t # NoTask
  BY RowsStep, AgentAssumption DEF DurInv, DurTyped
<1>2. CASE UNCHANGED <<agWork, agTimers, agBacklog, agQueue>>
  BY <1>2 DEF Unclaimed, TaskAt
<1>3. CASE LoseMemory
  <2>1. \A w \in AgentWorkers : agWork'[w].task = NoTask
    BY <1>3 DEF LoseMemory, IdleWorker
  <2>2. ~Among(<<>>, t)
    BY DEF Among
  <2> QED
    BY <1>1, <1>3, <2>1, <2>2 DEF LoseMemory, Unclaimed, TaskAt
<1>4. CASE Start
  <2>1. t \in agBacklog' => StateOf(t) = "queued"
    BY <1>4 DEF Start
  <2> QED
    BY <1>4, <2>1 DEF Start, Unclaimed, TaskAt, agGoroutines
<1>5. CASE Shutdown
  BY <1>5 DEF Shutdown, Unclaimed, TaskAt, agGoroutines
<1>6. ASSUME NEW u \in Agents, u # t, UNCHANGED agWork, agTimers' \subseteq agTimers, agBacklog' \subseteq agBacklog,
             agQueue' = Append(agQueue, u) \/ UNCHANGED agQueue
      PROVE  Unclaimed(t)'
  <2>1. agQueue \in Seq(Agents)
    BY <1>1 DEF AgentTyped
  <2>2. ~Among(agQueue, t)
    BY DEF Unclaimed
  <2>3. ~Among(Append(agQueue, u), t)
    BY <1>6, <2>1, <2>2, AmongAppend
  <2>4. ~Among(agQueue', t)
    BY <1>6, <2>2, <2>3
  <2> QED
    BY <1>6, <2>4 DEF Unclaimed, TaskAt
<1>7. ASSUME NEW u \in Agents, enqueueRecovered(u) \/ requeueFires(u) \/ enqueueCreated(u)
      PROVE  Unclaimed(t)' \/ enqueueCreated(t)
  <2>1. CASE enqueueCreated(u) /\ u = t
    BY <2>1
  <2>2. CASE enqueueCreated(u) /\ u # t
    BY <1>6, <2>2 DEF enqueueCreated, agGoroutines
  <2>3. CASE enqueueRecovered(u) \/ requeueFires(u)
    <3>1. u # t
      BY <2>3 DEF Unclaimed, enqueueRecovered, requeueFires
    <3> QED
      BY <1>6, <2>3, <3>1 DEF enqueueRecovered, requeueFires, agGoroutines
  <2> QED
    BY <1>7, <2>1, <2>2, <2>3
<1>8. ASSUME NEW w \in AgentWorkers, WorkerNext(w) \/ renewLease(w) PROVE Unclaimed(t)'
  BY <1>1, <1>8, WorkerLeavesUnclaimed
<1>9. ASSUME NEW c \in Cancelers, cancelActive(c) PROVE Unclaimed(t)'
  <2>1. \A w \in AgentWorkers : agWork'[w].task = agWork[w].task
    BY <1>1, <1>9, StopsOnly
  <2>2. UNCHANGED <<agTimers, agBacklog, agQueue>>
    BY <1>9 DEF cancelActive, agChannels
  <2> QED
    BY <2>1, <2>2 DEF Unclaimed, TaskAt
<1>10. AgentAct \/ UNCHANGED agState
  BY StepKinds
<1> QED
  BY <1>2, <1>3, <1>4, <1>5, <1>7, <1>8, <1>9, <1>10 DEF AgentAct, agVars, agState, agGoroutines, agChannels, NewStopped,
     Submit, Cancel

\* What a step makes of the submission of a task: it is pending from Submit on, and what
\* rejects it ends its row or fails.
SubmissionFollows(t) ==
    /\ t \in agPending' => t \in agPending \/ Submit(t)
    /\ t \in agRejected' =>
         \/ t \in agRejected /\ (t \in stranded => t \in stranded')
         \/ enqueueCreated(t) /\ (rejectQueuedTask(t) \/ t \in stranded')

\* Submissions are added to and taken from their sets one at a time.
LEMMA SubmissionsStep ==
    ASSUME DurInv, [Next]_vars, NEW t \in Agents PROVE SubmissionFollows(t)
<1>1. ASSUME NEW w \in AgentWorkers, WorkerNext(w) \/ renewLease(w)
      PROVE  UNCHANGED <<agPending, agRejected>> /\ stranded \subseteq stranded'
  BY <1>1 DEF WorkerNext, renewLease, workerDequeues, workerDrops, acquireSessionSlot, claim, registers, execute,
     reserveOutputAttempt, promptEnds, checkpointOutputAttempt, finalizeRun, finish, agChannels, agOutcomes
<1>2. CASE UNCHANGED agRejected /\ agPending' \subseteq agPending /\ stranded \subseteq stranded'
  BY <1>2 DEF SubmissionFollows
<1>3. ASSUME NEW u \in Agents, Submit(u) PROVE SubmissionFollows(t)
  <2>1. agPending' = agPending \cup {u} /\ UNCHANGED <<agRejected, stranded>>
    BY <1>3 DEF Submit, agOutcomes
  <2> QED
    BY <1>3, <2>1 DEF SubmissionFollows
<1>4. ASSUME NEW u \in Agents, enqueueCreated(u) PROVE SubmissionFollows(t)
  <2>1. /\ agPending' = agPending \ {u} /\ stranded \subseteq stranded'
        /\ \/ UNCHANGED agRejected
           \/ agRejected' = agRejected \cup {u} /\ (rejectQueuedTask(u) \/ u \in stranded')
    BY <1>4 DEF enqueueCreated
  <2> QED
    BY <1>4, <2>1 DEF SubmissionFollows
<1>5. CASE LoseMemory
  BY <1>5 DEF LoseMemory, SubmissionFollows
<1>6. AgentAct \/ UNCHANGED agState
  BY StepKinds
<1> QED
  BY <1>1, <1>2, <1>3, <1>4, <1>5, <1>6 DEF AgentAct, agState, agChannels, agOutcomes, NewStopped, Start, Shutdown,
     enqueueRecovered, requeueFires, cancelActive, Cancel

\* A child is submitted by a host of a dispatcher that runs.
LEMMA ChildrenPending ==
    ASSUME DurInv, [Next]_vars, NEW c \in Children, c \in agPending', c \notin agPending
    PROVE  wfPhase' # "down"
<1>1. ASSUME NEW u \in Agents, SubmitAgentTask(u) PROVE FALSE
  BY <1>1 DEF SubmitAgentTask, Submit
<1>2. ASSUME NEW h \in Hosts, NEW u \in Agents, agent(h, u) PROVE wfPhase' # "down"
  BY <1>2 DEF agent, HostAt
<1>3. CASE AgentNext
  BY <1>3 DEF AgentNext, NewStopped, Start, enqueueRecovered, enqueueCreated, requeueFires, cancelActive,
     WorkerNext, renewLease, workerDequeues, workerDrops, acquireSessionSlot, claim, registers, execute,
     reserveOutputAttempt, promptEnds, checkpointOutputAttempt, finalizeRun, finish, agChannels
<1>4. ASSUME NEW u \in Agents, NEW a \in Cancelers, Cancel(a, u) PROVE FALSE
  BY <1>4 DEF Cancel, agChannels
<1>5. CASE Interruptions
  BY <1>5 DEF Interruptions, ShutdownDispatcher, ProcessStops, ProcessExits, ProcessCrash, Exit, Crash, LoseMemory,
     Shutdown, agVars, agState, agChannels
<1>6. CASE WorkflowNext
  <2>1. ASSUME NEW h \in Hosts, cancelLaunched(h) PROVE FALSE
    <3>1. wfHost[h].left \subseteq Agents
      BY DEF DurInv, DurTyped, HostTyped, HostRecord
    <3>2. (\E u \in Agents : Cancel(h, u)) \/ UNCHANGED agVars
      BY <2>1, <3>1 DEF cancelLaunched, closable
    <3>3. h \in Cancelers
      BY WorkflowAssumption
    <3> QED
      BY <1>4, <3>2, <3>3 DEF agVars, agState, agChannels
  <2> QED
    BY <1>2, <1>6, <2>1 DEF WorkflowNext, HostNext, ListInterrupted, StartDispatcher, enqueueQueued, RecoverInterrupted,
       SubmitRun, CancelRun, signalRun, ExecuteQueued, track, agentReturns, wait, waitReturns, scriptEnds,
       settleLaunched, closed, finishRun, monitorLease, agVars, agState, agChannels
<1>7. CASE UNCHANGED vars
  BY <1>7 DEF vars, agVars, agState, agChannels
<1>8. AgentNext \/ WorkflowNext \/ Interruptions \/ UNCHANGED vars
      \/ (\E u \in Agents : SubmitAgentTask(u)) \/ (\E a \in Cancelers, u \in Agents : CancelAgentTask(a, u))
  BY DEF Next, Work
<1> QED
  BY <1>1, <1>3, <1>4, <1>5, <1>6, <1>7, <1>8 DEF CancelAgentTask

\* The dispatcher is gone when its process is.
LEMMA PhaseLost ==
    ASSUME [Next]_vars, wfPhase # "down", wfPhase' = "down"
    PROVE  agPending' = {}
BY DEF Next, Work, Interruptions, SubmitAgentTask, CancelAgentTask, WorkflowNext, HostNext, ListInterrupted,
   StartDispatcher, enqueueQueued, RecoverInterrupted, SubmitRun, CancelRun, signalRun, ExecuteQueued, track, agent,
   agentReturns, wait, waitReturns, scriptEnds, cancelLaunched, settleLaunched, closed, finishRun, monitorLease,
   HostOnly, HostKeeps, ShutdownDispatcher, ProcessStops, ProcessExits, ProcessCrash, Exit, Crash, LoseMemory, vars, wfVars,
   wfMemory

\* PlacesSound is kept: a child that is absent or being submitted is with no worker.
LEMMA PlacesStep ==
    ASSUME DurInv, [Next]_vars PROVE PlacesSound'
<1>1. RowsFollow /\ tasks \in [Tasks -> Rows] /\ Agents \subseteq Tasks /\ Children \subseteq Agents
  BY RowsStep, AgentAssumption, WorkflowAssumption DEF DurInv, DurTyped, Children
<1>2. \A t \in Agents : StateOf(t) = "absent" => Unclaimed(t) /\ t \notin agPending /\ t \notin agRejected
  BY DEF DurInv, PlacesSound
<1>3. \A c \in agPending \cap Children : Unclaimed(c) /\ c \notin agRejected /\ StateOf(c) \notin ActiveStates
  BY DEF DurInv, PlacesSound
<1>4. \A c \in agRejected \cap Children : StateOf(c) \in TerminalStates \/ c \in stranded
  BY DEF DurInv, PlacesSound
<1>5. wfPhase = "down" => agPending \cap Children = {}
  BY DEF DurInv, PlacesSound
<1>6. \A t \in Agents :
        /\ t \in agPending' => t \in agPending \/ Submit(t)
        /\ t \in agRejected' =>
             \/ t \in agRejected /\ (t \in stranded => t \in stranded')
             \/ enqueueCreated(t) /\ (rejectQueuedTask(t) \/ t \in stranded')
  BY SubmissionsStep DEF SubmissionFollows
<1>7. \A t \in Agents : Unclaimed(t) => Unclaimed(t)' \/ enqueueCreated(t) \/ (Start /\ StateOf(t) = "queued")
  BY UnclaimedStays
<1>8. \A t \in Agents : enqueueCreated(t) => t \in agPending /\ t \notin agPending'
  BY DEF enqueueCreated
<1>9. \A t \in Agents : Submit(t) => StateOf(t) = "absent" /\ StateOf(t)' = "queued"
  <2> SUFFICES ASSUME NEW t \in Agents, Submit(t) PROVE StateOf(t) = "absent" /\ StateOf(t)' = "queued"
    OBVIOUS
  <2>1. tasks' = [tasks EXCEPT ![t] = Row("queued", NoOwner)] /\ StateOf(t) = "absent"
    BY DEF Submit, Create, Put
  <2> QED
    BY <1>1, <2>1 DEF StateOf, Row
<1>10. \A t \in Agents : StateOf(t)' = "absent" => StateOf(t) = "absent"
  BY <1>1, Onwards
<1>11. ASSUME NEW t \in Agents, StateOf(t)' = "absent"
       PROVE  Unclaimed(t)' /\ t \notin agPending' /\ t \notin agRejected'
  <2>1. StateOf(t) = "absent" /\ Unclaimed(t) /\ t \notin agPending /\ t \notin agRejected
    BY <1>2, <1>10, <1>11
  <2>2. ~enqueueCreated(t) /\ ~Submit(t)
    BY <1>8, <1>9, <1>11, <2>1
  <2> QED
    BY <1>6, <1>7, <2>1, <2>2
<1>12. ASSUME NEW c \in Children, c \in agPending'
       PROVE  Unclaimed(c)' /\ c \notin agRejected' /\ StateOf(c)' \notin ActiveStates
  <2>1. c \in Agents /\ ~enqueueCreated(c)
    BY <1>1, <1>8, <1>12
  <2>2. CASE c \in agPending
    <3>1. Unclaimed(c) /\ c \notin agRejected /\ StateOf(c) \notin ActiveStates /\ wfPhase # "down"
      BY <1>3, <1>5, <2>2
    <3>2. ~Start
      BY <3>1 DEF Start, DurInv, ProcessSound
    <3>3. Unclaimed(c)' /\ c \notin agRejected'
      BY <1>6, <1>7, <2>1, <3>1, <3>2
    <3>4. ~\E w \in AgentWorkers : TaskAt(w) = c
      BY <3>1 DEF Unclaimed
    <3>5. Follows(c)
      BY <1>1, <2>1 DEF RowsFollow
    <3>6. \A s \in TerminalStates : s \notin ActiveStates
      BY DEF TerminalStates, ActiveStates
    <3>7. StateOf(c)' \notin ActiveStates
      BY <2>1, <3>1, <3>4, <3>5, <3>6 DEF Follows, ActiveStates
    <3> QED
      BY <3>3, <3>7
  <2>3. CASE c \notin agPending
    <3>1. StateOf(c) = "absent" /\ StateOf(c)' = "queued"
      BY <1>6, <1>9, <1>12, <2>1, <2>3
    <3>2. Unclaimed(c) /\ c \notin agRejected
      BY <1>2, <2>1, <3>1
    <3>3. Unclaimed(c)' /\ c \notin agRejected'
      BY <1>6, <1>7, <2>1, <3>1, <3>2
    <3> QED
      BY <3>1, <3>3 DEF ActiveStates
  <2> QED
    BY <2>2, <2>3
<1>13. ASSUME NEW c \in Children, c \in agRejected' PROVE StateOf(c)' \in TerminalStates \/ c \in stranded'
  <2>1. c \in Agents /\ c \in Tasks
    BY <1>1
  <2>2. CASE c \in agRejected /\ (c \in stranded => c \in stranded')
    BY <1>1, <1>4, <2>1, <2>2, Onwards
  <2>3. CASE enqueueCreated(c) /\ rejectQueuedTask(c)
    <3>1. enqueueCreated(c) /\ rejectQueuedTask(c) /\ c \in agPending
      BY <1>8, <2>1, <2>3
    <3>2. StateOf(c) \notin ActiveStates /\ StateOf(c) # "absent"
      BY <1>2, <1>3, <2>1, <3>1
    <3>3. CASE StateOf(c) = "queued"
      <4>1. tasks[c].owner = NoOwner
        BY <2>1, <3>3 DEF DurInv, RowsSound
      <4>2. tasks' = [tasks EXCEPT ![c] = Row("failed", NoOwner)]
        BY <3>1, <3>3, <4>1 DEF rejectQueuedTask, Finishable, Finish, Put
      <4> QED
        BY <1>1, <2>1, <4>2 DEF StateOf, Row, TerminalStates
    <3>4. CASE StateOf(c) # "queued"
      <4>1. tasks' = tasks
        BY <3>1, <3>4 DEF rejectQueuedTask, Finishable
      <4>2. StateOf(c) \in TaskStates
        BY <1>1, <2>1, Onwards
      <4> QED
        BY <3>2, <3>4, <4>1, <4>2 DEF StateOf, TaskStates
    <3> QED
      BY <3>3, <3>4
  <2> QED
    BY <1>6, <1>13, <2>1, <2>2, <2>3
<1>14. ASSUME wfPhase' = "down" PROVE agPending' \cap Children = {}
  <2>1. CASE wfPhase = "down"
    BY <1>5, <1>14, <2>1, ChildrenPending
  <2>2. CASE wfPhase # "down"
    BY <1>14, <2>2, PhaseLost
  <2> QED
    BY <2>1, <2>2
<1>15. UNCHANGED Children
  BY DEF Children
<1> QED
  BY <1>1, <1>11, <1>12, <1>13, <1>14, <1>15 DEF PlacesSound


--------------------------------------------------------------------------------
(* Hosts. *)

\* HostSound for a host whose record is rec.
HostAs(rec) ==
    rec.pc # "idle" =>
        /\ rec.run \in Runs /\ StateOf(rec.run) \notin {"absent", "queued"}
        /\ rec.pc \in {"submitting", "waiting", "settling"} => rec.child \in Agents
        /\ \A c \in wfLinks[rec.run] :
             \/ c \in rec.launched \/ StateOf(c) \in TerminalStates \/ rec.run \in wfGaveUp
             \/ rec.pc = "submitting" /\ c = rec.child
        /\ \A c \in rec.settled : StateOf(c) \in TerminalStates
        /\ rec.pc \in {"closing", "settling"} =>
             \A c \in rec.launched \ rec.left : StateOf(c) \in TerminalStates \/ rec.run \in wfGaveUp
        /\ rec.pc = "finishing" => \A c \in rec.launched : StateOf(c) \in TerminalStates \/ rec.run \in wfGaveUp

\* A host is sound when its record is.
LEMMA HostIsRecord ==
    ASSUME NEW h \in Hosts PROVE HostSound(h) <=> HostAs(wfHost[h])
BY DEF HostSound, HostAs, RunAt, Settled

\* What a host counts on does not go away.
LEMMA HostFacts ==
    ASSUME DurInv, [Next]_vars
    PROVE  /\ \A r \in Runs : StateOf(r) \notin {"absent", "queued"} => StateOf(r)' \notin {"absent", "queued"}
           /\ \A c \in Agents : StateOf(c) \in TerminalStates => StateOf(c)' \in TerminalStates
           /\ wfGaveUp \subseteq wfGaveUp'
<1>1. RowsFollow /\ tasks \in [Tasks -> Rows] /\ Agents \subseteq Tasks /\ Runs \subseteq Tasks
  BY RowsStep, AgentAssumption, WorkflowAssumption DEF DurInv, DurTyped
<1>2. wfGaveUp \subseteq wfGaveUp'
  BY DEF Next, Work, Interruptions, SubmitAgentTask, CancelAgentTask, WorkflowNext, HostNext, ListInterrupted,
     StartDispatcher, enqueueQueued, RecoverInterrupted, SubmitRun, CancelRun, signalRun, ExecuteQueued, track, agent,
     agentReturns, wait, waitReturns, scriptEnds, cancelLaunched, settleLaunched, closed, finishRun, monitorLease,
     HostOnly, HostKeeps, GivesUp, PutsAside, PutsAsideFailed, ShutdownDispatcher, ProcessStops, ProcessExits,
     ProcessCrash, LoseRuns, vars, wfVars, wfHistory
<1> QED
  BY <1>1, <1>2, Onwards

\* A sound record stays sound while its run gains no child.
LEMMA HostStays ==
    ASSUME DurInv, [Next]_vars, NEW rec \in HostRecord, HostAs(rec),
           rec.run \in Runs => wfLinks'[rec.run] = wfLinks[rec.run]
    PROVE  HostAs(rec)'
<1>1. /\ \A r \in Runs : StateOf(r) \notin {"absent", "queued"} => StateOf(r)' \notin {"absent", "queued"}
      /\ \A c \in Agents : StateOf(c) \in TerminalStates => StateOf(c)' \in TerminalStates
      /\ wfGaveUp \subseteq wfGaveUp'
  BY HostFacts
<1>2. /\ rec.launched \subseteq Agents /\ rec.settled \subseteq Agents
      /\ rec.run \in Runs => wfLinks[rec.run] \subseteq Agents
  BY DEF HostRecord, DurInv, DurTyped, HostTyped
<1> SUFFICES ASSUME rec.pc # "idle"
             PROVE  /\ rec.run \in Runs /\ StateOf(rec.run)' \notin {"absent", "queued"}
                    /\ rec.pc \in {"submitting", "waiting", "settling"} => rec.child \in Agents
                    /\ \A c \in wfLinks'[rec.run] :
                         \/ c \in rec.launched \/ StateOf(c)' \in TerminalStates \/ rec.run \in wfGaveUp'
                         \/ rec.pc = "submitting" /\ c = rec.child
                    /\ \A c \in rec.settled : StateOf(c)' \in TerminalStates
                    /\ rec.pc \in {"closing", "settling"} =>
                         \A c \in rec.launched \ rec.left : StateOf(c)' \in TerminalStates \/ rec.run \in wfGaveUp'
                    /\ rec.pc = "finishing" =>
                         \A c \in rec.launched : StateOf(c)' \in TerminalStates \/ rec.run \in wfGaveUp'
  BY DEF HostAs
<1> QED
  BY <1>1, <1>2 DEF HostAs

\* A host goes on with its run.
Goes(h, rec) == wfHost[h].pc # "idle" /\ rec.run = RunAt(h) /\ HostAs(rec)
OnlyHost(h, rec) == wfHost'[h] = rec /\ \A g \in Hosts : g # h => wfHost'[g] = wfHost[g]

\* Set replaces one record.
LEMMA SetOne ==
    ASSUME HostTyped, NEW h \in Hosts, NEW rec, Set(h, rec) PROVE OnlyHost(h, rec)
BY DEF HostTyped, Set, OnlyHost

\* The script's calls and returns.
LEMMA ScriptGoes ==
    ASSUME DurInv, NEW h \in Hosts, track(h) \/ wait(h) \/ waitReturns(h) \/ scriptEnds(h)
    PROVE  \E rec : OnlyHost(h, rec) /\ Goes(h, rec)
<1>1. wfHost[h] \in HostRecord /\ HostTyped
  BY DEF DurInv, DurTyped, HostTyped
<1>2. HostAs(wfHost[h])
  BY HostIsRecord DEF DurInv, HostsSound
<1>3. CASE track(h)
  <2> DEFINE rec == [wfHost[h] EXCEPT !.pc = "script"]
  <2>1. OnlyHost(h, rec) /\ wfHost[h].pc = "claimed"
    BY <1>1, <1>3, SetOne DEF track, HostAt
  <2>2. HostAs(rec) /\ rec.run = RunAt(h)
    BY <1>1, <1>2, <2>1 DEF HostAs, HostRecord, RunAt
  <2> QED
    BY <2>1, <2>2 DEF Goes
<1>5. CASE wait(h)
  <2>1. PICK c \in wfHost[h].launched \ wfHost[h].settled : Set(h, [wfHost[h] EXCEPT !.pc = "waiting", !.child = c])
    BY <1>5 DEF wait
  <2> DEFINE rec == [wfHost[h] EXCEPT !.pc = "waiting", !.child = c]
  <2>2. c \in Agents /\ wfHost[h].pc = "script"
    BY <1>1, <1>5, <2>1 DEF HostRecord, wait, HostAt
  <2>3. HostAs(rec) /\ rec.run = RunAt(h)
    BY <1>1, <1>2, <2>2 DEF HostAs, HostRecord, RunAt
  <2> QED
    BY <1>1, <2>1, <2>2, <2>3, SetOne DEF Goes
<1>6. CASE waitReturns(h)
  <2> DEFINE c == wfHost[h].child
             seen == [wfHost[h] EXCEPT !.pc = "script", !.settled = @ \cup {c}]
             gone == [wfHost[h] EXCEPT !.pc = "script"]
  <2>1. wfHost[h].pc = "waiting" /\ ((StateOf(c) \in TerminalStates /\ Set(h, seen)) \/ Set(h, gone))
    BY <1>6 DEF waitReturns, HostAt
  <2>2. CASE StateOf(c) \in TerminalStates /\ Set(h, seen)
    <3>1. HostAs(seen) /\ seen.run = RunAt(h)
      BY <1>1, <1>2, <2>1, <2>2 DEF HostAs, HostRecord, RunAt
    <3> QED
      BY <1>1, <2>1, <2>2, <3>1, SetOne DEF Goes
  <2>3. CASE Set(h, gone)
    <3>1. HostAs(gone) /\ gone.run = RunAt(h)
      BY <1>1, <1>2, <2>1 DEF HostAs, HostRecord, RunAt
    <3> QED
      BY <1>1, <2>1, <2>3, <3>1, SetOne DEF Goes
  <2> QED
    BY <2>1, <2>2, <2>3
<1>7. CASE scriptEnds(h)
  <2>1. PICK err : Set(h, [wfHost[h] EXCEPT !.pc = "closing", !.left = wfHost[h].launched,
                                            !.err = err, !.passes = IF err = "none" THEN 1 ELSE 2])
    BY <1>7 DEF scriptEnds
  <2> DEFINE rec == [wfHost[h] EXCEPT !.pc = "closing", !.left = wfHost[h].launched,
                                      !.err = err, !.passes = IF err = "none" THEN 1 ELSE 2]
  <2>2. wfHost[h].pc = "script"
    BY <1>7 DEF scriptEnds, HostAt
  <2>3. /\ rec.pc = "closing" /\ rec.left = wfHost[h].launched /\ rec.launched = wfHost[h].launched
        /\ rec.run = RunAt(h) /\ rec.settled = wfHost[h].settled
    BY <1>1 DEF HostRecord, RunAt
  <2>4. HostAs(rec)
    <3> HIDE DEF rec
    <3> QED
      BY <1>2, <2>2, <2>3 DEF HostAs, RunAt
  <2> QED
    BY <1>1, <2>1, <2>2, <2>3, <2>4, SetOne DEF Goes
<1> QED
  BY <1>3, <1>5, <1>6, <1>7

\* A child whose submission is rejected has ended, or its rejection failed and the host
\* gives the run up.
LEMMA ReturnGoes ==
    ASSUME DurInv, [Next]_vars, NEW h \in Hosts, agentReturns(h)
    PROVE  \E rec : OnlyHost(h, rec) /\ wfHost[h].pc # "idle" /\ rec.run = RunAt(h) /\ HostAs(rec)'
<1>1. /\ wfHost[h] \in HostRecord /\ HostTyped /\ wfHost[h].pc = "submitting"
      /\ wfLinks' = wfLinks /\ tasks' = tasks
  BY DEF DurInv, DurTyped, HostTyped, agentReturns, HostAt, HostKeeps, wfRows
<1>2. HostAs(wfHost[h])
  BY HostIsRecord DEF DurInv, HostsSound
<1>3. PICK old : old = wfHost[h]
  OBVIOUS
<1>4. PICK all : all = IF old.child \in agRejected THEN old.launched ELSE old.launched \cup {old.child}
  OBVIOUS
<1>5. PICK rec : rec = [old EXCEPT !.pc = "script", !.child = NoTask, !.launched = all]
  OBVIOUS
<1>6. /\ rec.pc = "script" /\ rec.launched = all /\ rec.run = old.run /\ rec.settled = old.settled
      /\ old.pc = "submitting"
  BY <1>1, <1>3, <1>5 DEF HostRecord
<1>7. HostAs(old)' /\ HostAs(old)
  <2>1. old \in HostRecord /\ HostAs(old) /\ (old.run \in Runs => wfLinks'[old.run] = wfLinks[old.run])
    BY <1>1, <1>2, <1>3
  <2> QED
    BY <2>1, HostStays
<1>8. OnlyHost(h, rec)
  <2>1. Set(h, rec)
    BY <1>1, <1>3, <1>4, <1>5 DEF agentReturns, HostRecord
  <2> QED
    BY <1>1, <2>1, SetOne
<1>9. \A c \in wfLinks'[old.run] : c \in all \/ StateOf(c)' \in TerminalStates \/ old.run \in wfGaveUp'
  <2> SUFFICES ASSUME NEW c \in wfLinks'[old.run], c = old.child, c \in agRejected
               PROVE  StateOf(c)' \in TerminalStates \/ old.run \in wfGaveUp'
    BY <1>4, <1>6, <1>7 DEF HostAs
  <2>1. old.run \in Runs /\ c \in wfLinks[old.run]
    BY <1>1, <1>6, <1>7 DEF HostAs
  <2>2. c \in Children
    BY <1>1, <2>1 DEF HostTyped, Children
  <2>3. StateOf(c) \in TerminalStates \/ c \in stranded
    BY <2>2 DEF DurInv, PlacesSound
  <2>4. c \in stranded => old.run \in wfGaveUp'
    BY <1>3 DEF agentReturns, GivesUp, RunAt
  <2> QED
    BY <1>1, <2>3, <2>4 DEF StateOf
<1>10. HostAs(rec)'
  BY <1>6, <1>7, <1>9 DEF HostAs
<1> QED
  BY <1>1, <1>3, <1>6, <1>8, <1>10 DEF RunAt

\* A child that a host puts aside has ended, or the host gives the run up.
LEMMA AsideGoes ==
    ASSUME DurInv, [Next]_vars, NEW h \in Hosts, wfHost[h].pc \in {"closing", "settling"}, wfLinks' = wfLinks,
           NEW c, (PutsAside(h, c) /\ StateOf(c)' \in TerminalStates) \/ PutsAsideFailed(h, c)
    PROVE  \E rec : OnlyHost(h, rec) /\ wfHost[h].pc # "idle" /\ rec.run = RunAt(h) /\ HostAs(rec)'
<1>1. wfHost[h] \in HostRecord /\ HostTyped
  BY DEF DurInv, DurTyped, HostTyped
<1>2. HostAs(wfHost[h])
  BY HostIsRecord DEF DurInv, HostsSound
<1>3. PICK old : old = wfHost[h]
  OBVIOUS
<1>4. PICK rec : /\ \/ rec = [old EXCEPT !.pc = "closing", !.left = @ \ {c}]
                    \/ rec = [old EXCEPT !.pc = "closing", !.left = @ \ {c}, !.err = "failed"]
                 /\ Set(h, rec)
                 /\ StateOf(c)' \in TerminalStates \/ old.run \in wfGaveUp'
  BY <1>3 DEF PutsAside, PutsAsideFailed, GivesUp, RunAt
<1>5. /\ rec.pc = "closing" /\ rec.left = old.left \ {c} /\ rec.launched = old.launched
      /\ rec.run = old.run /\ rec.settled = old.settled
  BY <1>1, <1>3, <1>4 DEF HostRecord
<1>6. HostAs(old)' /\ old.pc \in {"closing", "settling"}
  <2>1. old.pc \in {"closing", "settling"} /\ old \in HostRecord /\ HostAs(old)
        /\ (old.run \in Runs => wfLinks'[old.run] = wfLinks[old.run])
    BY <1>1, <1>2, <1>3
  <2> QED
    BY <2>1, HostStays
<1>7. HostAs(rec)'
  BY <1>4, <1>5, <1>6 DEF HostAs
<1>8. OnlyHost(h, rec)
  BY <1>1, <1>4, SetOne
<1> QED
  BY <1>3, <1>5, <1>6, <1>7, <1>8 DEF RunAt

\* The end of a pass over the children; the heartbeat marks a host.
LEMMA ClosingGoes ==
    ASSUME DurInv, NEW h \in Hosts, closed(h) \/ monitorLease(h)
    PROVE  \E rec : OnlyHost(h, rec) /\ Goes(h, rec)
<1>1. wfHost[h] \in HostRecord /\ HostTyped
  BY DEF DurInv, DurTyped, HostTyped
<1>2. HostAs(wfHost[h])
  BY HostIsRecord DEF DurInv, HostsSound
<1>4. CASE closed(h)
  <2>0. PICK err : \/ Repeats(h, 0, err)
                   \/ Set(h, [wfHost[h] EXCEPT !.pc = "finishing"])
    BY <1>4 DEF closed
  <2> DEFINE again == [wfHost[h] EXCEPT !.passes = 0, !.left = wfHost[h].launched, !.err = err]
             over == [wfHost[h] EXCEPT !.pc = "finishing"]
  <2>1. wfHost[h].pc = "closing" /\ wfHost[h].left = {} /\ (Set(h, again) \/ Set(h, over))
    BY <1>4, <2>0 DEF closed, HostAt, closable, Repeats
  <2>2. CASE Set(h, again)
    <3>1. /\ again.pc = "closing" /\ again.left = wfHost[h].launched /\ again.launched = wfHost[h].launched
          /\ again.run = RunAt(h) /\ again.settled = wfHost[h].settled
      BY <1>1, <2>1 DEF HostRecord, RunAt
    <3>2. HostAs(again)
      <4> HIDE DEF again
      <4> QED
        BY <1>2, <2>1, <3>1 DEF HostAs, RunAt
    <3> QED
      BY <1>1, <2>1, <2>2, <3>1, <3>2, SetOne DEF Goes
  <2>3. CASE Set(h, over)
    <3>1. /\ over.pc = "finishing" /\ over.launched = wfHost[h].launched
          /\ over.run = RunAt(h) /\ over.settled = wfHost[h].settled
      BY <1>1, <2>1 DEF HostRecord, RunAt
    <3>2. HostAs(over)
      <4> HIDE DEF over
      <4> QED
        BY <1>2, <2>1, <3>1 DEF HostAs, RunAt
    <3> QED
      BY <1>1, <2>1, <2>3, <3>1, <3>2, SetOne DEF Goes
  <2> QED
    BY <2>1, <2>2, <2>3
<1>5. CASE monitorLease(h)
  <2>1. wfHost[h].pc \in Tracked /\ (wfHost' = wfHost \/ \E err : Set(h, [wfHost[h] EXCEPT !.stop = TRUE, !.err = err]))
    BY <1>5 DEF monitorLease
  <2>2. CASE wfHost' = wfHost
    BY <1>2, <2>1, <2>2 DEF Goes, OnlyHost, RunAt, Tracked
  <2>3. CASE \E err : Set(h, [wfHost[h] EXCEPT !.stop = TRUE, !.err = err])
    <3>1. PICK err : Set(h, [wfHost[h] EXCEPT !.stop = TRUE, !.err = err])
      BY <2>3
    <3> DEFINE rec == [wfHost[h] EXCEPT !.stop = TRUE, !.err = err]
    <3>2. HostAs(rec) /\ rec.run = RunAt(h)
      BY <1>1, <1>2 DEF HostAs, HostRecord, RunAt
    <3> QED
      BY <1>1, <2>1, <3>1, <3>2, SetOne DEF Goes, Tracked
  <2> QED
    BY <2>1, <2>2, <2>3
<1> QED
  BY <1>4, <1>5

\* A launched child that has not ended is canceled and awaited.
LEMMA CancelGoes ==
    ASSUME DurInv, [Next]_vars, NEW h \in Hosts, cancelLaunched(h)
    PROVE  \E rec : /\ OnlyHost(h, rec) /\ wfHost[h].pc # "idle" /\ rec.run = RunAt(h)
                    /\ Goes(h, rec) \/ HostAs(rec)'
<1>1. /\ wfHost[h] \in HostRecord /\ HostTyped /\ wfHost[h].pc = "closing" /\ wfLinks' = wfLinks
      /\ wfHost[h].left \subseteq Agents
  BY DEF DurInv, DurTyped, HostTyped, HostRecord, cancelLaunched, HostAt, HostKeeps, wfRows
<1>2. HostAs(wfHost[h])
  BY HostIsRecord DEF DurInv, HostsSound
<1>3. PICK c \in wfHost[h].left :
        \/ (c \in wfHost[h].settled \/ StateOf(c) \in TerminalStates) /\ PutsAside(h, c) /\ tasks' = tasks
        \/ Set(h, [wfHost[h] EXCEPT !.pc = "settling", !.child = c])
        \/ PutsAsideFailed(h, c)
  BY DEF cancelLaunched, closable
<1>4. CASE (c \in wfHost[h].settled \/ StateOf(c) \in TerminalStates) /\ PutsAside(h, c) /\ tasks' = tasks
  <2>1. StateOf(c)' \in TerminalStates
    BY <1>1, <1>2, <1>4 DEF HostAs, StateOf
  <2> QED
    BY <1>1, <1>4, <2>1, AsideGoes
<1>5. CASE Set(h, [wfHost[h] EXCEPT !.pc = "settling", !.child = c])
  <2> DEFINE rec == [wfHost[h] EXCEPT !.pc = "settling", !.child = c]
  <2>1. HostAs(rec) /\ rec.run = RunAt(h)
    BY <1>1, <1>2 DEF HostAs, HostRecord, RunAt
  <2> QED
    BY <1>1, <1>5, <2>1, SetOne DEF Goes
<1>6. CASE PutsAsideFailed(h, c)
  BY <1>1, <1>6, AsideGoes
<1> QED
  BY <1>3, <1>4, <1>5, <1>6

\* A host that waited for a child puts it aside.
LEMMA SettleGoes ==
    ASSUME DurInv, [Next]_vars, NEW h \in Hosts, settleLaunched(h)
    PROVE  \E rec : OnlyHost(h, rec) /\ wfHost[h].pc # "idle" /\ rec.run = RunAt(h) /\ HostAs(rec)'
<1>1. wfHost[h].pc = "settling" /\ wfLinks' = wfLinks /\ tasks' = tasks
  BY DEF settleLaunched, HostAt, HostKeeps, wfRows
<1>2. PICK c : (StateOf(c) \in TerminalStates /\ PutsAside(h, c)) \/ PutsAsideFailed(h, c)
  BY DEF settleLaunched
<1>3. (PutsAside(h, c) /\ StateOf(c)' \in TerminalStates) \/ PutsAsideFailed(h, c)
  BY <1>1, <1>2 DEF StateOf
<1> QED
  BY <1>1, <1>3, AsideGoes

\* A claimed run has no children yet.
LEMMA ClaimGoes ==
    ASSUME DurInv, [Next]_vars, NEW h \in Hosts, ExecuteQueued(h)
    PROVE  \/ UNCHANGED wfHost
           \/ \E rec : OnlyHost(h, rec) /\ rec.run \in Runs /\ StateOf(rec.run) = "queued" /\ HostAs(rec)'
<1>1. HostTyped /\ wfQueue \in Seq(Runs) /\ wfQueue # <<>> /\ tasks \in [Tasks -> Rows] /\ wfLinks' = wfLinks
  BY DEF DurInv, DurTyped, HostTyped, ExecuteQueued, wfRows
<1>2. PICK r \in Runs : r = Head(wfQueue)
  BY <1>1
<1>3. CASE StateOf(r) # "queued"
  BY <1>2, <1>3 DEF ExecuteQueued
<1>4. CASE StateOf(r) = "queued"
  <2>1. ClaimQueued(r, agOwner) /\ Set(h, [IdleHost EXCEPT !.pc = "claimed", !.run = r])
    BY <1>2, <1>4 DEF ExecuteQueued
  <2>2. PICK rec : rec = [IdleHost EXCEPT !.pc = "claimed", !.run = r]
    OBVIOUS
  <2>3. rec.pc = "claimed" /\ rec.run = r /\ rec.settled = {}
    BY <2>2 DEF IdleHost
  <2>4. wfLinks'[r] = {}
    BY <1>1, <1>4 DEF DurInv, LinksSound
  <2>5. StateOf(r)' = "running"
    <3>1. tasks' = [tasks EXCEPT ![r] = Row("running", agOwner)] /\ r \in Tasks
      BY <2>1, WorkflowAssumption DEF ClaimQueued, Put
    <3> QED
      BY <1>1, <3>1 DEF StateOf, Row
  <2>6. HostAs(rec)'
    BY <2>3, <2>4, <2>5 DEF HostAs
  <2>7. OnlyHost(h, rec)
    BY <1>1, <2>1, <2>2, SetOne
  <2> QED
    BY <1>4, <2>3, <2>6, <2>7
<1> QED
  BY <1>3, <1>4


\* A script that submits a child counts it before the submission has returned.
LEMMA AgentGoes ==
    ASSUME DurInv, [Next]_vars, NEW h \in Hosts, NEW c \in Agents, agent(h, c)
    PROVE  /\ \E rec : OnlyHost(h, rec) /\ wfHost[h].pc # "idle" /\ rec.run = RunAt(h) /\ HostAs(rec)'
           /\ \A r \in Runs : r # RunAt(h) => wfLinks'[r] = wfLinks[r]
<1>1. wfHost[h] \in HostRecord /\ HostTyped /\ wfHost[h].pc = "script" /\ wfLinks \in [Runs -> SUBSET Agents]
  BY DEF DurInv, DurTyped, HostTyped, agent, HostAt
<1>2. PICK old : old = wfHost[h]
  OBVIOUS
<1>3. PICK rec : rec = [old EXCEPT !.pc = "submitting", !.child = c]
  OBVIOUS
<1>4. /\ rec.pc = "submitting" /\ rec.child = c /\ rec.run = old.run /\ rec.settled = old.settled
      /\ rec.launched = old.launched /\ old.pc = "script" /\ old.settled \subseteq Agents
  BY <1>1, <1>2, <1>3 DEF HostRecord
<1>5. HostAs(old)
  BY <1>2, HostIsRecord DEF DurInv, HostsSound
<1>6. /\ old.run \in Runs /\ StateOf(old.run) \notin {"absent", "queued"}
      /\ \A d \in wfLinks[old.run] :
           d \in old.launched \/ StateOf(d) \in TerminalStates \/ old.run \in wfGaveUp
      /\ \A d \in old.settled : StateOf(d) \in TerminalStates
  BY <1>4, <1>5 DEF HostAs
<1>7. wfLinks' = [wfLinks EXCEPT ![old.run] = @ \cup {c}]
  BY <1>2 DEF agent, RunAt
<1>8. /\ StateOf(old.run)' \notin {"absent", "queued"} /\ wfGaveUp \subseteq wfGaveUp'
      /\ \A d \in old.settled : StateOf(d)' \in TerminalStates
      /\ \A d \in wfLinks[old.run] : StateOf(d) \in TerminalStates => StateOf(d)' \in TerminalStates
  BY <1>1, <1>4, <1>6, HostFacts
<1>9. \A d \in wfLinks'[old.run] :
        d \in old.launched \/ StateOf(d)' \in TerminalStates \/ old.run \in wfGaveUp' \/ d = c
  BY <1>1, <1>6, <1>7, <1>8
<1>10. HostAs(rec)'
  BY <1>4, <1>6, <1>8, <1>9 DEF HostAs
<1>11. OnlyHost(h, rec)
  BY <1>1, <1>2, <1>3, SetOne DEF agent
<1>12. \A r \in Runs : r # RunAt(h) => wfLinks'[r] = wfLinks[r]
  BY <1>1, <1>2, <1>7 DEF RunAt
<1> QED
  BY <1>1, <1>2, <1>4, <1>10, <1>11, <1>12 DEF RunAt

\* A host after a step is sound, and goes on with its run or has just claimed one.
HostOutcome(g) ==
    wfHost'[g].pc # "idle" =>
        /\ HostSound(g)'
        /\ \/ wfHost[g].pc # "idle" /\ wfHost'[g].run = wfHost[g].run
           \/ /\ wfHost'[g].run \in Runs /\ StateOf(wfHost'[g].run) = "queued"
              /\ \A k \in Hosts : k # g => wfHost'[k] = wfHost[k]

\* HostAs of the next record is HostSound in the next state.
LEMMA HostSoundNext ==
    ASSUME NEW h \in Hosts, NEW rec, wfHost'[h] = rec, HostAs(rec)' PROVE HostSound(h)'
BY DEF HostSound, HostAs, RunAt, Settled

\* A host that does nothing.
LEMMA HostRests ==
    ASSUME DurInv, [Next]_vars, NEW g \in Hosts, wfHost'[g] = wfHost[g],
           RunAt(g) \in Runs => wfLinks'[RunAt(g)] = wfLinks[RunAt(g)]
    PROVE  HostOutcome(g)
<1>1. PICK rec : rec = wfHost[g]
  OBVIOUS
<1>2. rec \in HostRecord /\ wfHost'[g] = rec
  BY <1>1 DEF DurInv, DurTyped, HostTyped
<1>3. HostAs(rec)
  BY <1>1, HostIsRecord DEF DurInv, HostsSound
<1>4. rec.run \in Runs => wfLinks'[rec.run] = wfLinks[rec.run]
  BY <1>1 DEF RunAt
<1>5. HostAs(rec)'
  BY <1>2, <1>3, <1>4, HostStays
<1>6. HostSound(g)'
  BY <1>2, <1>5, HostSoundNext
<1> QED
  BY <1>6 DEF HostOutcome

\* One host moves, the others rest.
LEMMA OneHostMoves ==
    ASSUME DurInv, [Next]_vars, NEW h \in Hosts, NEW rec, OnlyHost(h, rec), HostAs(rec)',
           \/ wfHost[h].pc # "idle" /\ rec.run = RunAt(h)
           \/ rec.run \in Runs /\ StateOf(rec.run) = "queued",
           \A g \in Hosts : g # h /\ RunAt(g) \in Runs /\ wfHost[g].pc # "idle" => wfLinks'[RunAt(g)] = wfLinks[RunAt(g)],
           NEW g \in Hosts
    PROVE  HostOutcome(g)
<1>1. CASE g = h
  <2>1. HostSound(h)'
    BY HostSoundNext DEF OnlyHost
  <2> QED
    BY <1>1, <2>1 DEF HostOutcome, OnlyHost, RunAt
<1>2. CASE g # h /\ wfHost[g].pc # "idle"
  BY <1>2, HostRests DEF OnlyHost
<1>3. CASE g # h /\ wfHost[g].pc = "idle"
  BY <1>3 DEF OnlyHost, HostOutcome
<1> QED
  BY <1>1, <1>2, <1>3

\* Every host is sound after every step.
LEMMA HostOutcomes ==
    ASSUME DurInv, [Next]_vars, NEW g \in Hosts PROVE HostOutcome(g)
<1>1. HostTyped /\ HostTyped'
  BY HostTypedStep, WorkflowSteps DEF DurInv, DurTyped
<1>2. \A h \in Hosts : wfHost'[h] \in HostRecord /\ wfHost[h] \in HostRecord
  BY <1>1 DEF HostTyped
<1>3. CASE UNCHANGED wfHost /\ UNCHANGED wfLinks
  BY <1>3, HostRests
<1>4. CASE LoseRuns
  BY <1>4 DEF LoseRuns, IdleHost, HostOutcome
<1>5. ASSUME NEW h \in Hosts, NEW rec, OnlyHost(h, rec), Goes(h, rec), UNCHANGED wfLinks PROVE HostOutcome(g)
  <2>1. rec \in HostRecord
    BY <1>2, <1>5 DEF OnlyHost
  <2>2. HostAs(rec)'
    BY <1>5, <2>1, HostStays DEF Goes
  <2> QED
    BY <1>5, <2>2, OneHostMoves DEF Goes
<1>6. ASSUME NEW h \in Hosts, HostNext(h) \/ wait(h) \/ monitorLease(h) PROVE HostOutcome(g)
  <2>1. UNCHANGED wfLinks
    BY <1>6 DEF HostNext, ExecuteQueued, track, agentReturns, wait, waitReturns, scriptEnds, cancelLaunched,
       settleLaunched, closed, finishRun, monitorLease, HostOnly, HostKeeps, wfRows
  <2>2. CASE track(h) \/ wait(h) \/ waitReturns(h) \/ scriptEnds(h)
    BY <1>5, <2>1, <2>2, ScriptGoes
  <2>3. CASE closed(h) \/ monitorLease(h)
    BY <1>5, <2>1, <2>3, ClosingGoes
  <2>4. CASE settleLaunched(h) \/ agentReturns(h)
    BY <2>1, <2>4, SettleGoes, ReturnGoes, OneHostMoves
  <2>7. CASE cancelLaunched(h)
    <3>1. PICK rec : /\ OnlyHost(h, rec) /\ wfHost[h].pc # "idle" /\ rec.run = RunAt(h)
                     /\ Goes(h, rec) \/ HostAs(rec)'
      BY <2>7, CancelGoes
    <3>2. CASE Goes(h, rec)
      BY <1>5, <2>1, <3>1, <3>2
    <3>3. CASE HostAs(rec)'
      BY <2>1, <3>1, <3>3, OneHostMoves
    <3> QED
      BY <3>1, <3>2, <3>3
  <2>5. CASE ExecuteQueued(h)
    BY <1>3, <2>1, <2>5, ClaimGoes, OneHostMoves
  <2>6. CASE finishRun(h)
    <3>1. OnlyHost(h, IdleHost)
      BY <1>1, <2>6, SetOne DEF finishRun
    <3>2. CASE g = h
      BY <3>1, <3>2 DEF OnlyHost, IdleHost, HostOutcome
    <3>3. CASE g # h
      BY <2>1, <3>1, <3>3, HostRests DEF OnlyHost
    <3> QED
      BY <3>2, <3>3
  <2> QED
    BY <1>6, <2>2, <2>3, <2>4, <2>5, <2>6, <2>7 DEF HostNext
<1>7. ASSUME NEW h \in Hosts, NEW c \in Agents, agent(h, c) PROVE HostOutcome(g)
  <2>1. \A k \in Hosts : k # h /\ wfHost[k].pc # "idle" => RunAt(k) # RunAt(h)
    BY <1>7 DEF agent, HostAt, DurInv, HostsSound
  <2>2. \A r \in Runs : r # RunAt(h) => wfLinks'[r] = wfLinks[r]
    BY <1>7, AgentGoes
  <2>3. PICK rec : OnlyHost(h, rec) /\ wfHost[h].pc # "idle" /\ rec.run = RunAt(h) /\ HostAs(rec)'
    BY <1>7, AgentGoes
  <2> QED
    BY <2>1, <2>2, <2>3, OneHostMoves
<1>8. ASSUME NEW r \in Runs, signalRun(r) PROVE HostOutcome(g)
  <2>1. PICK rec : rec = wfHost'[g]
    OBVIOUS
  <2>2. UNCHANGED wfLinks /\ HostAs(wfHost[g])
    BY <1>8, HostIsRecord DEF signalRun, wfRows, DurInv, HostsSound
  <2>3. rec = wfHost[g] \/ rec = [wfHost[g] EXCEPT !.stop = TRUE]
    BY <1>8, <2>1 DEF signalRun
  <2>4. HostAs(rec) /\ rec.run = wfHost[g].run /\ rec.pc = wfHost[g].pc
    BY <1>2, <2>2, <2>3 DEF HostAs, HostRecord
  <2>5. HostAs(rec)'
    BY <1>2, <2>1, <2>2, <2>4, HostStays
  <2>6. HostSound(g)'
    BY <2>1, <2>5, HostSoundNext
  <2> QED
    BY <2>1, <2>4, <2>6 DEF HostOutcome
<1>9. WorkflowStep
  BY WorkflowSteps
<1>10. CASE UNCHANGED wfVars \/ ShutdownDispatcher
  BY <1>3, <1>10 DEF wfVars, wfMemory, wfRows, ShutdownDispatcher
<1>11. CASE ListInterrupted \/ StartDispatcher \/ enqueueQueued
  BY <1>3, <1>11 DEF wfRows, ListInterrupted, StartDispatcher, enqueueQueued
<1>12. ASSUME NEW r \in Runs, RecoverInterrupted(r) \/ SubmitRun(r) \/ CancelRun(r) PROVE HostOutcome(g)
  BY <1>3, <1>12 DEF RecoverInterrupted, SubmitRun, CancelRun
<1> QED
  BY <1>4, <1>6, <1>7, <1>8, <1>9, <1>10, <1>11, <1>12 DEF WorkflowStep, WorkflowNext

\* HostsSound is kept.
LEMMA HostsStep ==
    ASSUME DurInv, [Next]_vars PROVE HostsSound'
<1>1. \A h \in Hosts : HostOutcome(h)
  BY HostOutcomes
<1>2. \A h \in Hosts : HostSound(h)'
  BY <1>1 DEF HostOutcome, HostSound
<1>3. ASSUME NEW g \in Hosts, NEW h \in Hosts, g # h, wfHost'[g].pc # "idle", wfHost'[h].pc # "idle"
      PROVE  wfHost'[g].run # wfHost'[h].run
  <2>1. \A k \in Hosts : wfHost[k].pc # "idle" => StateOf(wfHost[k].run) # "queued"
    BY DEF DurInv, HostsSound, HostSound, RunAt
  <2>2. wfHost[g].pc # "idle" /\ wfHost[h].pc # "idle" => wfHost[g].run # wfHost[h].run
    BY <1>3 DEF DurInv, HostsSound, RunAt
  <2>3. /\ \/ wfHost[g].pc # "idle" /\ wfHost'[g].run = wfHost[g].run
           \/ StateOf(wfHost'[g].run) = "queued" /\ wfHost'[h] = wfHost[h]
        /\ \/ wfHost[h].pc # "idle" /\ wfHost'[h].run = wfHost[h].run
           \/ StateOf(wfHost'[h].run) = "queued" /\ wfHost'[g] = wfHost[g]
    BY <1>1, <1>3 DEF HostOutcome
  <2> QED
    BY <1>3, <2>1, <2>2, <2>3
<1>4. RefusedOnlyAfterFailure'
  <2>1. wfStuck \subseteq wfGaveUp /\ wfGaveUp \subseteq wfGaveUp'
    BY HostFacts DEF DurInv, HostsSound, RefusedOnlyAfterFailure
  <2>2. CASE UNCHANGED wfStuck
    BY <2>1, <2>2 DEF RefusedOnlyAfterFailure
  <2>3. ASSUME NEW h \in Hosts, finishRun(h) PROVE wfStuck' \subseteq wfGaveUp
    <3>1. CASE wfStuck' = wfStuck
      BY <2>1, <3>1
    <3>2. CASE ActiveChildren(RunAt(h)) # {} /\ wfStuck' = wfStuck \cup {RunAt(h)}
      <4>1. wfHost[h].pc = "finishing"
        BY <2>3 DEF finishRun, HostAt
      <4>2. PICK c \in wfLinks[RunAt(h)] : StateOf(c) \in OpenStates
        BY <3>2 DEF ActiveChildren
      <4>3. StateOf(c) \notin TerminalStates
        BY <4>2 DEF OpenStates, TerminalStates
      <4>4. HostSound(h)
        BY DEF DurInv, HostsSound
      <4>5. RunAt(h) \in wfGaveUp
        BY <4>1, <4>2, <4>3, <4>4 DEF HostSound, Settled
      <4> QED
        BY <2>1, <3>2, <4>5
    <3> QED
      BY <2>3, <3>1, <3>2 DEF finishRun
  <2>4. WorkflowStep
    BY WorkflowSteps
  <2>5. UNCHANGED wfStuck \/ \E h \in Hosts : finishRun(h)
    BY <2>4 DEF WorkflowStep, wfVars, wfHistory, LoseRuns, ShutdownDispatcher, WorkflowNext, HostNext,
       ListInterrupted, StartDispatcher, enqueueQueued, RecoverInterrupted, SubmitRun, CancelRun, signalRun,
       ExecuteQueued, track, agent, agentReturns, wait, waitReturns, scriptEnds, cancelLaunched, settleLaunched,
       closed, monitorLease, HostOnly, HostKeeps
  <2> QED
    BY <2>1, <2>2, <2>3, <2>5 DEF RefusedOnlyAfterFailure
<1> QED
  BY <1>2, <1>3, <1>4 DEF HostsSound, RunAt


--------------------------------------------------------------------------------
(* The invariant, and what follows from it. *)

\* No row, worker, slot, link or host stands in the way of the first process.
LEMMA DurInvInit == Init => DurInv
<1> SUFFICES ASSUME Init PROVE DurInv
  OBVIOUS
<1> USE DEF Init, StoreInit, AgentInit, WorkflowInit
<1>1. Row("absent", NoOwner) \in Rows /\ Row("absent", NoOwner).state = "absent"
  BY DEF Row, Rows, TaskStates
<1>2. tasks \in [Tasks -> Rows] /\ \A t \in Tasks : StateOf(t) = "absent"
  BY <1>1 DEF StateOf
<1>3. /\ \A w \in AgentWorkers : agWork[w] = IdleWorker
      /\ \A c \in Cancelers : agCancel[c] = IdleCaller
      /\ \A h \in Hosts : wfHost[h] = IdleHost
      /\ \A r \in Runs : wfLinks[r] = {}
      /\ \A t \in Agents : attempts[t].reserved = 0 /\ attempts[t].completed = 0
  OBVIOUS
<1>4. /\ IdleWorker.pc = "idle" /\ IdleWorker.task = NoTask /\ IdleCaller.pc = "idle" /\ IdleHost.pc = "idle"
  BY DEF IdleWorker, IdleCaller, IdleHost
<1>5. Agents \subseteq Tasks /\ Runs \subseteq Tasks /\ NoTask \notin Agents
      /\ MaxFaults \in Nat /\ MaxOutputAttempts \in Nat /\ AgentQueueSize \in Nat /\ SessionConcurrency \in Nat
  BY AgentAssumption, WorkflowAssumption
<1>6. <<>> \in Seq(Agents) /\ <<>> \in Seq(Runs) /\ Len(<<>>) = 0
  OBVIOUS
<1>7. AgentTyped
  BY <1>5, <1>6, IdleTyped DEF AgentTyped
<1>8. HostTyped
  BY <1>6, IdleTyped DEF HostTyped
<1>9. ProcessSound /\ RowsSound /\ LinksSound
  <2>1. ProcessSound
    BY DEF ProcessSound, Alive
  <2>2. RowsSound
    BY <1>2, <1>5 DEF RowsSound, ActiveStates
  <2>3. LinksSound
    BY <1>2, <1>3, <1>5 DEF LinksSound, NoChildOutlivesRun, TerminalStates
  <2> QED
    BY <2>1, <2>2, <2>3
<1>10. WorkersSound
  BY <1>3, <1>4 DEF WorkersSound, OneWorkerPerTask, Beyond, Holding
<1>11. AttemptsSound
  <2>1. AttemptsBudgeted
    <3>1. 0 <= MaxOutputAttempts
      BY <1>5
    <3> QED
      BY <1>3, <3>1 DEF AttemptsBudgeted
  <2>2. \A t \in Agents : attempts[t] = [reserved |-> 0, completed |-> 0]
    OBVIOUS
  <2> QED
    BY <1>3, <1>4, <2>1, <2>2 DEF AttemptsSound
<1>12. SlotsSound
  <2>1. \A k : HoldersOf(k) = {}
    BY <1>3, <1>4 DEF HoldersOf, Holding
  <2>2. agSlots = [k \in Keys |-> 0]
    OBVIOUS
  <2> QED
    <3>1. 0 <= SessionConcurrency /\ agSlots \in [Keys -> Nat]
      BY <1>5, <2>2
    <3>2. IsFiniteSet({}) /\ Cardinality({}) = 0
      BY FS_EmptySet
    <3>3. \A k \in Keys : agSlots[k] = 0
      BY <2>2
    <3> QED
      BY <2>1, <3>1, <3>2, <3>3 DEF SlotsSound
<1>13. QueuedIsTracked /\ CancelReachesRun
  BY <1>3, <1>4 DEF QueuedIsTracked, CancelReachesRun
<1>14. PlacesSound
  <2>1. ~Among(<<>>, NoTask) /\ \A t : ~Among(<<>>, t)
    BY DEF Among
  <2>2. \A t \in Agents : Unclaimed(t)
    BY <1>3, <1>4, <1>5, <2>1 DEF Unclaimed, TaskAt
  <2> QED
    BY <2>2 DEF PlacesSound
<1>15. HostsSound
  BY <1>3, <1>4 DEF HostsSound, HostSound, RefusedOnlyAfterFailure
<1> QED
  BY <1>2, <1>7, <1>8, <1>9, <1>10, <1>11, <1>12, <1>13, <1>14, <1>15 DEF DurInv, DurTyped

\* Every step of the agent service, the dispatcher, a caller or the process keeps it.
LEMMA DurInvNext == DurInv /\ [Next]_vars => DurInv'
<1> SUFFICES ASSUME DurInv, [Next]_vars PROVE DurInv'
  OBVIOUS
<1>1. RowsFollow /\ AgentStep /\ WorkflowStep
  BY RowsStep, AgentSteps, WorkflowSteps
<1>2. DurTyped'
  BY <1>1, AgentTypedStep, HostTypedStep DEF DurTyped, RowsFollow
<1>3. RowsSound'
  BY <1>1, RowsSoundStep
<1> QED
  BY <1>2, <1>3, ProcessStep, LinksSoundStep, WorkersStep, AttemptsStep, SlotsStep, QueuedStep, CancelStep,
     PlacesStep, HostsStep DEF DurInv

\* The invariant of the durable services.
THEOREM DurableInvariance == Spec => []DurInv
BY DurInvInit, DurInvNext, PTL DEF Spec

\* Cancel of an agent task reaches the worker that runs it, whatever the order of claim,
\* registration, re-read and signal.
THEOREM CancelsReachRuns == Spec => []CancelReachesRun
<1>1. DurInv => CancelReachesRun
  BY DEF DurInv
<1> QED
  BY <1>1, DurableInvariance, PTL

\* An agent task that is queued is on its way unless its claim or its rejection failed in
\* this process, one that runs has one worker and a slot of its key, and its attempts stay
\* within their budget.
THEOREM AgentsStayAccounted == Spec => []AgentsAccounted
<1>1. DurInv => AgentsAccounted
  <2> SUFFICES ASSUME DurInv PROVE AgentsAccounted
    OBVIOUS
  <2>1. AgentTypeOK
    <3>1. AgentTyped
      BY DEF DurInv, DurTyped
    <3>2. \A w \in AgentWorkers : agWork[w].pc \in Holding \cup {"idle", "taken"}
      BY <3>1 DEF AgentTyped, WorkRecord, WorkerPcs
    <3> QED
      BY <3>1, <3>2 DEF AgentTyped, AgentTypeOK
  <2>2. SlotsAccounted
    BY DEF DurInv, SlotsSound, SlotsAccounted, HoldersOf
  <2> QED
    BY <2>1, <2>2 DEF DurInv, AgentsAccounted, WorkersSound, AttemptsSound
<1> QED
  BY <1>1, DurableInvariance, PTL

\* A run that has ended has no child at work, and a run is refused its end only after a
\* call of its host about a child (rejection, Get, Cancel or Await) failed or timed out.
THEOREM TreesSettle == Spec => []TreeSettles
<1>1. DurInv => TreeSettles
  BY DEF DurInv, TreeSettles, LinksSound, HostsSound
<1> QED
  BY <1>1, DurableInvariance, PTL

\* A run whose admission is closed gains no child: its fence and its links are read in the
\* same transaction.
THEOREM ClosedRunsGainNothing == Spec => ClosedAdmitsNothing
<1>1. ASSUME DurInv, [Next]_vars
      PROVE  [\A r \in Runs : r \in wfClosed => wfLinks'[r] = wfLinks[r]]_<<wfClosed, wfLinks>>
  <2>1. CASE UNCHANGED wfLinks
    BY <2>1
  <2>2. ASSUME NEW h \in Hosts, NEW c \in Agents, agent(h, c)
        PROVE  \A r \in Runs : r \in wfClosed => wfLinks'[r] = wfLinks[r]
    BY <1>1, <2>2, AgentGoes DEF agent, fenceWorkflowAdmission
  <2> QED
    BY <1>1, <2>1, <2>2, LinksStep
<1> QED
  BY <1>1, DurableInvariance, PTL DEF Spec, ClosedAdmitsNothing
================================================================================
