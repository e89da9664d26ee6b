------------------------------ MODULE TaskRuntime ------------------------------
(***************************************************************************)
(* Processes that poll one tasks table and run tool tasks                     *)
(* (internal/taskruntime/service.go with the handler of internal/tooltask).   *)
(* A process is a lease owner: it is started once, and what runs after a crash *)
(* or a restart is another owner.  Within a process the dispatcher, the worker *)
(* goroutines, their heartbeats and the user's cancel calls interleave; every  *)
(* repository call is one step.                                               *)
(***************************************************************************)
EXTENDS ToolTasks, FiniteSets

CONSTANTS Workers,     \* Options.Workers
          Unknown,     \* tasks of a kind no handler is registered for
          StoreFails   \* whether a repository call may fail

ASSUME RuntimeAssumption ==
    Workers \in Nat \ {0} /\ Unknown \subseteq Tasks /\ StoreFails \in BOOLEAN

VARIABLES phase,    \* of each process: new, up, stopping, abandoned or gone
          listed,   \* tasks its dispatcher read as queued and has not looked at yet
          spawned,  \* worker goroutines it has not seen claim each task yet
          run,      \* the goroutine that claimed each task
          cancels,  \* durable cancels whose CancelActive call is still to come
          starts,   \* history: how often each task's handler was started
          asked     \* history: processes whose cancel of the running task returned

storeVars == <<tasks, outcome>>
history == <<starts, asked>>
vars == <<tasks, outcome, phase, listed, spawned, run, cancels, starts, asked>>

Verdicts == {"none", "unloaded", "canceled", "null", "ok", "error"}
Targets == TerminalStates \cup {"none"}

Runs == [pc : {"idle", "claimed", "registered", "running", "returned", "decided", "settling"},
         ctx : BOOLEAN, verdict : Verdicts, target : Targets]

Idle == [pc |-> "idle", ctx |-> FALSE, verdict |-> "none", target |-> "none"]

Init ==
    /\ StoreInit /\ OutcomesInit
    /\ phase = [p \in Owners |-> "new"]
    /\ listed = [p \in Owners |-> {}]
    /\ spawned = [p \in Owners |-> [t \in Tasks |-> 0]]
    /\ run = [p \in Owners |-> [t \in Tasks |-> Idle]]
    /\ cancels = [p \in Owners |-> {}]
    /\ starts = [t \in Tasks |-> 0]
    /\ asked = [t \in Tasks |-> {}]

Pc(p, t) == run[p][t].pc
SetRun(p, t, r) == run' = [run EXCEPT ![p][t] = r]

\* Slots of the worker semaphore in use.
Busy(p) == Cardinality({t \in Tasks : Pc(p, t) # "idle"})
           + Cardinality(UNION {{<<t, i>> : i \in 1..spawned[p][t]} : t \in Tasks})

--------------------------------------------------------------------------------
(* Life of a process. *)

\* Start reconciles expired leases before the poller runs; a failure is logged.
Start(p) ==
    /\ phase[p] = "new"
    /\ phase' = [phase EXCEPT ![p] = "up"]
    /\ \/ RecoverTools
       \/ StoreFails /\ UNCHANGED storeVars
    /\ UNCHANGED <<listed, spawned, run, cancels, history>>

\* The recovery ticker.
Recover(p) ==
    /\ phase[p] = "up"
    /\ \E t \in Tasks : Expired(t)
    /\ RecoverTools
    /\ UNCHANGED <<phase, listed, spawned, run, cancels, history>>

\* Shutdown cancels the poller's context and, through it, every run's context; the
\* tasks still on the list are refused, because TryAdmit loads them with it.
Shutdown(p) ==
    /\ phase[p] = "up"
    /\ phase' = [phase EXCEPT ![p] = "stopping"]
    /\ listed' = [listed EXCEPT ![p] = {}]
    /\ run' = [run EXCEPT ![p] = [t \in Tasks |-> [run[p][t] EXCEPT !.ctx = FALSE]]]
    /\ UNCHANGED <<storeVars, spawned, cancels, history>>

\* Every worker goroutine is done.
Stopped(p) ==
    /\ phase[p] = "stopping"
    /\ \A t \in Tasks : Pc(p, t) = "idle" /\ spawned[p][t] = 0
    /\ phase' = [phase EXCEPT ![p] = "gone"]
    /\ cancels' = [cancels EXCEPT ![p] = {}]
    /\ UNCHANGED <<storeVars, listed, spawned, run, history>>

\* The shutdown deadline passed: late settlements are fenced.
Abandon(p) ==
    /\ phase[p] = "stopping"
    /\ phase' = [phase EXCEPT ![p] = "abandoned"]
    /\ UNCHANGED <<storeVars, listed, spawned, run, cancels, history>>

\* The process dies; only the database remains.
Crash(p) ==
    /\ phase[p] \in {"up", "stopping", "abandoned"}
    /\ phase' = [phase EXCEPT ![p] = "gone"]
    /\ listed' = [listed EXCEPT ![p] = {}]
    /\ spawned' = [spawned EXCEPT ![p] = [t \in Tasks |-> 0]]
    /\ run' = [run EXCEPT ![p] = [t \in Tasks |-> Idle]]
    /\ cancels' = [cancels EXCEPT ![p] = {}]
    /\ UNCHANGED <<storeVars, history>>

--------------------------------------------------------------------------------
(* The dispatcher. *)

List(p) ==
    /\ phase[p] = "up"
    /\ listed[p] = {} /\ Busy(p) < Workers
    /\ listed' = [listed EXCEPT ![p] = {t \in Tasks \ Unknown : StateOf(t) = "queued"}]
    /\ UNCHANGED <<storeVars, phase, spawned, run, cancels, history>>

\* rejectUnknownKinds; the task has no tool outcome.
RejectUnknown(p, t) ==
    /\ phase[p] = "up" /\ t \in Unknown
    /\ Finish(t, {"queued"}, "failed", NoOwner)
    /\ UNCHANGED <<outcome, phase, listed, spawned, run, cancels, history>>

\* A slot is free and TryAdmit does not refuse.
DispatchTask(p, t) ==
    /\ phase[p] = "up" /\ t \in listed[p]
    /\ Busy(p) < Workers
    /\ listed' = [listed EXCEPT ![p] = @ \ {t}]
    /\ spawned' = [spawned EXCEPT ![p][t] = @ + 1]
    /\ UNCHANGED <<storeVars, phase, run, cancels, history>>

\* TryAdmit refuses: the slot is given back and the task stays queued.
SkipTask(p, t) ==
    /\ phase[p] = "up" /\ t \in listed[p]
    /\ Busy(p) < Workers
    /\ listed' = [listed EXCEPT ![p] = @ \ {t}]
    /\ UNCHANGED <<storeVars, phase, spawned, run, cancels, history>>

\* No slot: the rest of the list is dropped.
StopDispatch(p) ==
    /\ phase[p] = "up" /\ listed[p] # {}
    /\ Busy(p) >= Workers
    /\ listed' = [listed EXCEPT ![p] = {}]
    /\ UNCHANGED <<storeVars, phase, spawned, run, cancels, history>>

--------------------------------------------------------------------------------
(* The worker goroutine. *)

Claim(p, t) ==
    /\ phase[p] = "up" /\ spawned[p][t] > 0
    /\ ClaimQueued(t, p)
    /\ spawned' = [spawned EXCEPT ![p][t] = @ - 1]
    /\ SetRun(p, t, [Idle EXCEPT !.pc = "claimed"])
    /\ UNCHANGED <<outcome, phase, listed, cancels, history>>

\* Mutation: the failed claim and the deferred call both give the slot back.
giveUpTwice(p, t) ==
    /\ spawned[p][t] > 0
    /\ StateOf(t) # "queued" \/ phase[p] # "up" \/ StoreFails
    /\ spawned' = [spawned EXCEPT ![p][t] = @ - 2]
    /\ UNCHANGED <<storeVars, phase, listed, run, cancels, history>>

\* Another worker was faster, the context is canceled or the store failed.
GiveUpClaim(p, t) ==
    /\ spawned[p][t] > 0
    /\ StateOf(t) # "queued" \/ phase[p] # "up" \/ StoreFails
    /\ spawned' = [spawned EXCEPT ![p][t] = @ - 1]
    /\ UNCHANGED <<storeVars, phase, listed, run, cancels, history>>

\* The claimed task is loaded, its context registered in active and its
\* heartbeat started.
Register(p, t) ==
    /\ phase[p] = "up" /\ Pc(p, t) = "claimed"
    /\ SetRun(p, t, [run[p][t] EXCEPT !.pc = "registered", !.ctx = TRUE])
    /\ UNCHANGED <<storeVars, phase, listed, spawned, cancels, history>>

\* The claimed task cannot be loaded: it fails without its handler.
LoadFails(p, t) ==
    /\ Pc(p, t) = "claimed"
    /\ phase[p] # "up" \/ StoreFails
    /\ SetRun(p, t, [run[p][t] EXCEPT !.pc = "decided", !.verdict = "unloaded", !.target = "failed"])
    /\ UNCHANGED <<storeVars, phase, listed, spawned, cancels, history>>

\* Mutation: the handler starts without a second look at the state.
startUnchecked(p, t) ==
    /\ Pc(p, t) = "registered"
    /\ SetRun(p, t, [run[p][t] EXCEPT !.pc = "running"])
    /\ starts' = [starts EXCEPT ![t] = @ + 1]
    /\ UNCHANGED <<storeVars, phase, listed, spawned, cancels, asked>>

\* The state is read again, now that CancelActive can find the run.
Reread(p, t) ==
    /\ Pc(p, t) = "registered"
    /\ \/ /\ StateOf(t) = "canceling"
          /\ SetRun(p, t, [run[p][t] EXCEPT !.pc = "returned", !.ctx = FALSE, !.verdict = "canceled"])
          /\ UNCHANGED starts
       \/ /\ StoreFails
          /\ SetRun(p, t, [run[p][t] EXCEPT !.pc = "returned", !.ctx = FALSE, !.verdict = "null"])
          /\ UNCHANGED starts
       \/ /\ StateOf(t) # "canceling"
          /\ SetRun(p, t, [run[p][t] EXCEPT !.pc = "running"])
          /\ starts' = [starts EXCEPT ![t] = @ + 1]
    /\ UNCHANGED <<storeVars, phase, listed, spawned, cancels, asked>>

\* Run returns a result, an error with an outcome, or an error without one; its
\* context is canceled and the heartbeat has ended.
HandlerReturns(p, t) ==
    /\ Pc(p, t) = "running"
    /\ \E verdict \in {"ok", "error", "null"} :
         SetRun(p, t, [run[p][t] EXCEPT !.pc = "returned", !.ctx = FALSE, !.verdict = verdict])
    /\ UNCHANGED <<storeVars, phase, listed, spawned, cancels, history>>

\* Mutation: only an outcome that reports an error fails the task.
targetFromOutcome(p, t, canceling) ==
    IF canceling THEN "canceled"
    ELSE IF run[p][t].verdict # "error" THEN "succeeded"
    ELSE IF phase[p] = "up" THEN "failed" ELSE "interrupted"

\* settle: the terminal state the worker asks for.
TargetFor(p, t, canceling) ==
    IF canceling THEN "canceled"
    ELSE IF run[p][t].verdict = "ok" THEN "succeeded"
    ELSE IF phase[p] = "up" THEN "failed" ELSE "interrupted"

\* confirmCanceling, whose failed read counts as not canceling.
Decide(p, t) ==
    /\ Pc(p, t) = "returned"
    /\ \E canceling \in {run[p][t].verdict = "canceled" \/ StateOf(t) = "canceling"}
                        \cup (IF StoreFails THEN {run[p][t].verdict = "canceled"} ELSE {}) :
         SetRun(p, t, [run[p][t] EXCEPT !.pc = "decided", !.target = TargetFor(p, t, canceling)])
    /\ UNCHANGED <<storeVars, phase, listed, spawned, cancels, history>>

\* finishWithHandler checks the fence, then writes.
BeginSettle(p, t) ==
    /\ Pc(p, t) = "decided"
    /\ SetRun(p, t, IF phase[p] = "abandoned" THEN Idle ELSE [run[p][t] EXCEPT !.pc = "settling"])
    /\ UNCHANGED <<storeVars, phase, listed, spawned, cancels, history>>

\* The encoded outcome of a verdict.
OutcomeOf(verdict) == IF verdict = "canceled" THEN "null" ELSE verdict

\* The write; it leaves the row alone when the lease is gone or the store fails.
Settle(p, t) ==
    /\ Pc(p, t) = "settling"
    /\ LET r == run[p][t] IN
         \/ r.verdict = "unloaded" /\ Finish(t, ActiveStates, r.target, p) /\ UNCHANGED outcome
         \/ r.verdict # "unloaded" /\ FinishTool(t, r.target, OutcomeOf(r.verdict), p)
         \/ (StoreFails \/ ~Finishable(t, ActiveStates, p)) /\ UNCHANGED storeVars
    /\ SetRun(p, t, Idle)
    /\ UNCHANGED <<phase, listed, spawned, cancels, history>>

HasContext(p, t) == Pc(p, t) \in {"registered", "running"} /\ run[p][t].ctx

CancelContext(p, t) == SetRun(p, t, [run[p][t] EXCEPT !.ctx = FALSE])

\* The heartbeat renews, or cancels the run when it cannot.
Heartbeat(p, t) ==
    /\ HasContext(p, t)
    /\ \/ RenewLease(t, p) /\ UNCHANGED run
       \/ (StoreFails \/ ~ownsRunningTask(t, p)) /\ CancelContext(p, t) /\ UNCHANGED tasks
    /\ UNCHANGED <<outcome, phase, listed, spawned, cancels, history>>

\* DefaultTimeout.
Timeout(p, t) ==
    /\ HasContext(p, t)
    /\ CancelContext(p, t)
    /\ UNCHANGED <<storeVars, phase, listed, spawned, cancels, history>>

--------------------------------------------------------------------------------
(* The users of a process. *)

\* tooltask.Start persists the task.
Submit(p, t) ==
    /\ phase[p] = "up"
    /\ CreateTool(t)
    /\ UNCHANGED <<phase, listed, spawned, run, cancels, history>>

\* tooltask.Cancel: the durable request, then CancelActive.  When the task cannot be
\* read back after the commit, the caller gets an error and CancelActive is left out.
Cancel(p, t) ==
    /\ phase[p] = "up" /\ t \notin Unknown
    /\ CancelTool(t)
    /\ \/ /\ cancels' = [cancels EXCEPT ![p] = @ \cup {t}]
          /\ asked' = IF StateOf(t) \in ActiveStates THEN [asked EXCEPT ![t] = @ \cup {p}] ELSE asked
       \/ StoreFails /\ UNCHANGED <<cancels, asked>>
    /\ UNCHANGED <<phase, listed, spawned, run, starts>>

\* CancelActive finds only a registered run.
CancelActive(p, t) ==
    /\ t \in cancels[p]
    /\ cancels' = [cancels EXCEPT ![p] = @ \ {t}]
    /\ IF HasContext(p, t) THEN CancelContext(p, t) ELSE UNCHANGED run
    /\ UNCHANGED <<storeVars, phase, listed, spawned, history>>

LeaseExpires(t) ==
    /\ Expire(t)
    /\ UNCHANGED <<outcome, phase, listed, spawned, run, cancels, history>>

Worker(p, t) ==
    \/ Claim(p, t) \/ GiveUpClaim(p, t) \/ Register(p, t) \/ LoadFails(p, t) \/ Reread(p, t)
    \/ HandlerReturns(p, t) \/ Decide(p, t) \/ BeginSettle(p, t) \/ Settle(p, t)

Process(p) ==
    \/ Start(p) \/ Recover(p) \/ Shutdown(p) \/ Stopped(p) \/ Abandon(p) \/ Crash(p)
    \/ List(p) \/ StopDispatch(p)
    \/ \E t \in Tasks :
         \/ RejectUnknown(p, t) \/ DispatchTask(p, t) \/ SkipTask(p, t)
         \/ Worker(p, t) \/ Heartbeat(p, t) \/ Timeout(p, t)
         \/ Submit(p, t) \/ Cancel(p, t) \/ CancelActive(p, t)

AllGone == (\A p \in Owners : phase[p] = "gone") /\ UNCHANGED vars

Next == (\E p \in Owners : Process(p)) \/ (\E t \in Tasks : LeaseExpires(t)) \/ AllGone

Spec == Init /\ [][Next]_vars

(***************************************************************************)
(* A living process keeps polling and its goroutines keep running, handlers    *)
(* return (they have a timeout), and TryAdmit does not refuse a task for ever, *)
(* because the calls that hold its path end.  Nothing obliges a process to      *)
(* stay alive or a user to act.                                               *)
(***************************************************************************)
Fairness ==
    \A p \in Owners :
        /\ WF_vars(Start(p)) /\ WF_vars(Recover(p)) /\ WF_vars(List(p)) /\ WF_vars(StopDispatch(p))
        /\ \A t \in Tasks :
             /\ WF_vars(SkipTask(p, t)) /\ SF_vars(DispatchTask(p, t))
             /\ WF_vars(RejectUnknown(p, t)) /\ WF_vars(Worker(p, t)) /\ WF_vars(LeaseExpires(t))

FairSpec == Spec /\ Fairness

--------------------------------------------------------------------------------

\* Types of the tasks table, the outcomes and what each process knows of a task.
TypeOK ==
    /\ tasks \in [Tasks -> Rows]
    /\ outcome \in [Tasks -> Outcomes]
    /\ phase \in [Owners -> {"new", "up", "stopping", "abandoned", "gone"}]
    /\ listed \in [Owners -> SUBSET Tasks]
    /\ spawned \in [Owners -> [Tasks -> Nat]]
    /\ run \in [Owners -> [Tasks -> Runs]]
    /\ cancels \in [Owners -> SUBSET Tasks]
    /\ starts \in [Tasks -> Nat]
    /\ asked \in [Tasks -> SUBSET Owners]

\* The tool of a task runs at most once, whatever is dispatched twice, crashes,
\* expires or is recovered: a mutation is never applied twice.
AtMostOnce == \A t \in Tasks : starts[t] <= 1

\* A lease belongs to the process whose goroutine works on the task; nobody else
\* is between claim and settlement of it.
OneWorkerPerTask ==
    \A t \in Tasks : \A p, q \in Owners :
        (p # q /\ Pc(p, t) # "idle") => (Pc(q, t) = "idle" /\ tasks[t].owner # q)

\* Success is reported only for a handler that ran and returned a result.
SuccessMeansResult ==
    \A t \in Tasks : StateOf(t) = "succeeded" => starts[t] = 1 /\ outcome[t] = "ok"

\* A cancel that returned in the process that runs the task reaches the handler:
\* while the task is canceling the handler's context is canceled or about to be.
CancelReachesHandler ==
    \A t \in Tasks : \A p \in asked[t] :
        (StateOf(t) = "canceling" /\ Pc(p, t) = "running" /\ run[p][t].ctx) => t \in cancels[p]

Lifecycle == INSTANCE TaskLifecycle WITH state <- [t \in Tasks |-> StateOf(t)]

\* The table keeps the promises of TaskLifecycle.
ImplementsLifecycle == Lifecycle!Spec

\* A task that was accepted ends, if from some time on some process stays up.
EveryTaskEnds ==
    (\E p \in Owners : <>[](phase[p] = "up"))
        => \A t \in Tasks : (StateOf(t) = "queued") ~> (StateOf(t) \in TerminalStates)

\* One process works on a task at a time, and a task that succeeded has the result its handler
\* returned, whatever store calls failed and whichever lease ran out.
RunsSound ==
    /\ TypeOK /\ OneWorkerPerTask /\ SuccessMeansResult
================================================================================
