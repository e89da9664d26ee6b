------------------------------- MODULE ToolBatch -------------------------------
(***************************************************************************)
(* One provider turn's batch of tool calls (internal/assistant/              *)
(* tool_executor.go, tool_detach.go): calls are admitted in source order,    *)
(* then run by goroutines that share Slots semaphore slots.  A foreground     *)
(* call the task service can reconstruct is run as a durable task: the call   *)
(* gives its reservation back, attaches to the task and waits until the task  *)
(* ends, the user detaches it, or the turn is canceled.                       *)
(*                                                                           *)
(* The mutation queue is shared by the calls (holder <<c, "call">>) and the   *)
(* task runtime (holder <<c, "task">>), as di/tool_service.go wires it.       *)
(***************************************************************************)
EXTENDS FileMutationLocks

CONSTANTS Slots,        \* maxConcurrentProviderTools
          MaxCalls,     \* maxProviderToolsPerTurn
          Batches,      \* possible batches: sequences of prepared calls
          NoPath        \* path of a call that mutates nothing

ASSUME BatchAssumption ==
    /\ Slots \in Nat \ {0} /\ MaxCalls \in Nat \ {0}
    /\ NoPath \notin AbsolutePaths
    /\ Batches \subseteq Seq([ready : BOOLEAN, path : AbsolutePaths \cup {NoPath},
                             reserves : BOOLEAN, managed : BOOLEAN, sequential : BOOLEAN])
    /\ \A batch \in Batches : (DOMAIN batch) \X {"call", "task"} \subseteq Holders

VARIABLES input,      \* what prepareProviderToolCalls made of the batch, in source order
          admitted,   \* number of calls admitPreparedToolCalls has gone through
          pc,         \* goroutine of each call
          attachment, \* foregroundAttachment.state of each call
          task,       \* durable tool task of each call
          result,     \* what the model is told about each call
          returned,   \* the batch has returned
          ctxDone     \* the turn's context is canceled

batchVars == <<input, admitted, pc, attachment, task, result, returned, ctxDone>>
vars == <<reservations, ready, path, batchVars>>

Calls == DOMAIN input

OfCall(c) == <<c, "call">>
OfTask(c) == <<c, "task">>

Init ==
    /\ LockInit
    /\ input \in Batches
    /\ admitted = 0
    /\ pc = [c \in Calls |-> "idle"]
    /\ attachment = [c \in Calls |-> "none"]
    /\ task = [c \in Calls |-> "none"]
    /\ result = [c \in Calls |-> "none"]
    /\ returned = FALSE
    /\ ctxDone = FALSE

--------------------------------------------------------------------------------
(* The batch goroutine. *)

\* Calls beyond the limit are no longer ready.
Ready(c) == input[c].ready /\ c <= MaxCalls

\* batchRequiresSequentialExecution
Sequential == \E c \in Calls : Ready(c) /\ input[c].sequential

\* Mutation: the last call is admitted first.
admitReversed ==
    /\ admitted < Len(input)
    /\ LET c == Len(input) - admitted IN
         /\ IF Ready(c) /\ input[c].reserves /\ input[c].path # NoPath
            THEN reserve(OfCall(c), canonicalMutationPath(input[c].path))
            ELSE UNCHANGED lockVars
         /\ pc' = [pc EXCEPT ![c] = IF Ready(c) THEN "spawned" ELSE "completed"]
         /\ result' = [result EXCEPT ![c] = IF Ready(c) THEN "none" ELSE "error"]
    /\ admitted' = admitted + 1
    /\ UNCHANGED <<input, attachment, task, returned, ctxDone>>

\* admitPreparedToolCalls: a call that is not ready completes with its error.
AdmitNext ==
    /\ admitted < Len(input)
    /\ LET c == admitted + 1 IN
         /\ IF Ready(c) /\ input[c].reserves /\ input[c].path # NoPath
            THEN reserve(OfCall(c), canonicalMutationPath(input[c].path))
            ELSE UNCHANGED lockVars
         /\ pc' = [pc EXCEPT ![c] = IF Ready(c) THEN "spawned" ELSE "completed"]
         /\ result' = [result EXCEPT ![c] = IF Ready(c) THEN "none" ELSE "error"]
    /\ admitted' = admitted + 1
    /\ UNCHANGED <<input, attachment, task, returned, ctxDone>>

\* finalizePreparedToolCall, once per completed index; in a sequential batch
\* each call is finalized before the next one starts.
Finalize(c) ==
    /\ admitted = Len(input)
    /\ pc[c] = "completed"
    /\ pc' = [pc EXCEPT ![c] = "finalized"]
    /\ UNCHANGED <<lockVars, input, admitted, attachment, task, result, returned, ctxDone>>

\* Mutation: the deferred release is forgotten.
keepsRemaining(c) == FALSE

\* The deferred releasePreparedToolCalls gives back, one after the other, what is still
\* reserved; releasing a call without a reservation does nothing.
ReleaseRemaining(c) ==
    /\ ~returned
    /\ admitted = Len(input)
    /\ \A d \in Calls : pc[d] = "finalized"
    /\ InQueue(OfCall(c)) /\ \A d \in 1..(c - 1) : ~InQueue(OfCall(d))
    /\ remove(OfCall(c))
    /\ UNCHANGED batchVars

ReturnBatch ==
    /\ ~returned
    /\ admitted = Len(input)
    /\ \A c \in Calls : pc[c] = "finalized" /\ ~InQueue(OfCall(c))
    /\ returned' = TRUE
    /\ UNCHANGED <<lockVars, input, admitted, pc, attachment, task, result, ctxDone>>

--------------------------------------------------------------------------------
(* The goroutine of call c. *)

Executing == {"executing", "attaching", "attached", "waiting", "mutating"}

\* The semaphore, or the source-order loop of a sequential batch.
HasTurn(c) ==
    IF Sequential THEN \A d \in 1..(c - 1) : pc[d] = "finalized"
                  ELSE Cardinality({d \in Calls : pc[d] \in Executing}) < Slots

TakeSlot(c) ==
    /\ admitted = Len(input)
    /\ pc[c] = "spawned"
    /\ HasTurn(c)
    /\ pc' = [pc EXCEPT ![c] = "executing"]
    /\ UNCHANGED <<lockVars, input, admitted, attachment, task, result, returned, ctxDone>>

\* Canceled before a slot was free; the reservation stays until the batch returns.
GiveUpSlot(c) ==
    /\ admitted = Len(input)
    /\ pc[c] = "spawned" /\ ~Sequential
    /\ ctxDone
    /\ pc' = [pc EXCEPT ![c] = "completed"]
    /\ result' = [result EXCEPT ![c] = "error"]
    /\ UNCHANGED <<lockVars, input, admitted, attachment, task, returned, ctxDone>>

\* toolTasks.Start persists a queued task for the call.
StartTask(c) ==
    /\ pc[c] = "executing" /\ input[c].managed
    /\ task' = [task EXCEPT ![c] = "queued"]
    /\ pc' = [pc EXCEPT ![c] = "attaching"]
    /\ UNCHANGED <<lockVars, input, admitted, attachment, result, returned, ctxDone>>

\* The call gives its reservation back and registers its attachment.
Attach(c) ==
    /\ pc[c] = "attaching"
    /\ remove(OfCall(c))
    /\ attachment' = [attachment EXCEPT ![c] = "unresolved"]
    /\ pc' = [pc EXCEPT ![c] = "attached"]
    /\ UNCHANGED <<input, admitted, task, result, returned, ctxDone>>

Ended == {"done", "canceled"}

\* The waiter goroutine: toolTasks.Wait returns the ended task.
WaiterCompletes(c) ==
    /\ pc[c] = "attached" /\ attachment[c] = "unresolved"
    /\ task[c] \in Ended
    /\ attachment' = [attachment EXCEPT ![c] = "completed"]
    /\ result' = [result EXCEPT ![c] = "outcome"]
    /\ UNCHANGED <<lockVars, input, admitted, pc, task, returned, ctxDone>>

\* The waiter goroutine: toolTasks.Wait fails while the task may still run.
WaiterFails(c) ==
    /\ pc[c] = "attached" /\ attachment[c] = "unresolved"
    /\ attachment' = [attachment EXCEPT ![c] = "completed"]
    /\ result' = [result EXCEPT ![c] = "error"]
    /\ UNCHANGED <<lockVars, input, admitted, pc, task, returned, ctxDone>>

\* DetachForegroundTool: only an unresolved attachment can be detached.
Detach(c) ==
    /\ pc[c] = "attached" /\ attachment[c] = "unresolved"
    /\ attachment' = [attachment EXCEPT ![c] = "detached"]
    /\ result' = [result EXCEPT ![c] = "handle"]
    /\ UNCHANGED <<lockVars, input, admitted, pc, task, returned, ctxDone>>

\* Mutation: ctx.Done() overrides a resolution made meanwhile.
cancelResolved(c) ==
    /\ pc[c] = "attached" /\ ctxDone
    /\ attachment[c] # "canceled"
    /\ attachment' = [attachment EXCEPT ![c] = "canceled"]
    /\ result' = [result EXCEPT ![c] = "error"]
    /\ UNCHANGED <<lockVars, input, admitted, pc, task, returned, ctxDone>>

\* ctx.Done() of resolveForegroundAttachment, rechecked under the mutex.
CancelAttachment(c) ==
    /\ pc[c] = "attached" /\ ctxDone
    /\ attachment[c] = "unresolved"
    /\ attachment' = [attachment EXCEPT ![c] = "canceled"]
    /\ result' = [result EXCEPT ![c] = "error"]
    /\ UNCHANGED <<lockVars, input, admitted, pc, task, returned, ctxDone>>

\* A queued task is canceled at once, a running one is asked to stop.
CancelTask(c) ==
    task' = [task EXCEPT ![c] = IF @ = "queued" THEN "canceled"
                                ELSE IF @ = "running" THEN "canceling" ELSE @]

\* The managed call ends; only a canceled attachment cancels its task.
ResolveForeground(c) ==
    /\ pc[c] = "attached" /\ attachment[c] # "unresolved"
    /\ IF attachment[c] = "canceled" THEN CancelTask(c) ELSE UNCHANGED task
    /\ pc' = [pc EXCEPT ![c] = "completed"]
    /\ UNCHANGED <<lockVars, input, admitted, attachment, result, returned, ctxDone>>

\* executePreparedToolCall, directly or after a failed toolTasks.Start: the
\* first ctx.Err() check, then the reservation made at admission or here.
ExecuteForeground(c) ==
    /\ pc[c] = "executing"
    /\ \/ /\ input[c].path = NoPath
          /\ UNCHANGED lockVars
          /\ pc' = [pc EXCEPT ![c] = "mutating"] /\ UNCHANGED result
       \/ /\ input[c].path # NoPath /\ ctxDone
          /\ remove(OfCall(c))
          /\ pc' = [pc EXCEPT ![c] = "completed"]
          /\ result' = [result EXCEPT ![c] = "error"]
       \/ /\ input[c].path # NoPath /\ ~ctxDone
          /\ IF input[c].reserves
             THEN UNCHANGED lockVars
             ELSE reserve(OfCall(c), canonicalMutationPath(input[c].path))
          /\ pc' = [pc EXCEPT ![c] = "waiting"] /\ UNCHANGED result
    /\ UNCHANGED <<input, admitted, attachment, task, returned, ctxDone>>

Proceed(c) ==
    /\ pc[c] = "waiting" /\ OfCall(c) \in ready /\ ~ctxDone
    /\ pc' = [pc EXCEPT ![c] = "mutating"]
    /\ UNCHANGED <<lockVars, input, admitted, attachment, task, result, returned, ctxDone>>

\* Mutation: the wait for the reservation ignores ctx.Done().
abortOnlyWhenReady(c) ==
    /\ pc[c] = "waiting" /\ ctxDone /\ OfCall(c) \in ready
    /\ remove(OfCall(c))
    /\ pc' = [pc EXCEPT ![c] = "completed"]
    /\ result' = [result EXCEPT ![c] = "error"]
    /\ UNCHANGED <<input, admitted, attachment, task, returned, ctxDone>>

Abort(c) ==
    /\ pc[c] = "waiting" /\ ctxDone
    /\ remove(OfCall(c))
    /\ pc' = [pc EXCEPT ![c] = "completed"]
    /\ result' = [result EXCEPT ![c] = "error"]
    /\ UNCHANGED <<input, admitted, attachment, task, returned, ctxDone>>

\* The tool returns, fails or panics.
ToolReturns(c) ==
    /\ pc[c] = "mutating"
    /\ remove(OfCall(c))
    /\ pc' = [pc EXCEPT ![c] = "completed"]
    /\ result' = [result EXCEPT ![c] = "outcome"]
    /\ UNCHANGED <<input, admitted, attachment, task, returned, ctxDone>>

--------------------------------------------------------------------------------
(* The task runtime and the user. *)

\* TryAdmit of the dispatcher: a task whose path is taken stays queued.
TaskAdmitted(c) ==
    /\ task[c] = "queued"
    /\ IF input[c].path = NoPath THEN UNCHANGED lockVars
       ELSE tryReserve(OfTask(c), canonicalMutationPath(input[c].path))
    /\ task' = [task EXCEPT ![c] = "running"]
    /\ UNCHANGED <<input, admitted, pc, attachment, result, returned, ctxDone>>

\* Mutation: a finished task keeps its reservation.
taskKeepsReservation(c) ==
    /\ task[c] \in {"running", "canceling"}
    /\ task' = [task EXCEPT ![c] = IF @ = "canceling" THEN "canceled" ELSE "done"]
    /\ UNCHANGED <<lockVars, input, admitted, pc, attachment, result, returned, ctxDone>>

TaskReturns(c) ==
    /\ task[c] \in {"running", "canceling"}
    /\ remove(OfTask(c))
    /\ task' = [task EXCEPT ![c] = IF @ = "canceling" THEN "canceled" ELSE "done"]
    /\ UNCHANGED <<input, admitted, pc, attachment, result, returned, ctxDone>>

CancelTurn ==
    /\ ~ctxDone /\ ~returned
    /\ ctxDone' = TRUE
    /\ UNCHANGED <<lockVars, input, admitted, pc, attachment, task, result, returned>>

Terminated ==
    /\ returned
    /\ \A c \in Calls : task[c] \in {"none"} \cup Ended
    /\ UNCHANGED vars

Goroutine(c) ==
    \/ TakeSlot(c) \/ GiveUpSlot(c) \/ StartTask(c) \/ Attach(c) \/ ResolveForeground(c)
    \/ ExecuteForeground(c) \/ Proceed(c) \/ Abort(c) \/ ToolReturns(c)
    \/ CancelAttachment(c)

Next ==
    \/ AdmitNext \/ ReturnBatch \/ CancelTurn \/ Terminated
    \/ \E c \in Calls :
         \/ Finalize(c) \/ Goroutine(c) \/ WaiterCompletes(c) \/ WaiterFails(c) \/ Detach(c)
         \/ TaskAdmitted(c) \/ TaskReturns(c) \/ ReleaseRemaining(c)

(***************************************************************************)
(* Goroutines keep running and tools return.  Nothing obliges the user to     *)
(* cancel or detach.                                                         *)
(***************************************************************************)
Fairness ==
    /\ WF_vars(AdmitNext) /\ WF_vars(ReturnBatch)
    /\ \A c \in UNION {DOMAIN batch : batch \in Batches} :
         /\ WF_vars(c \in Calls /\ Finalize(c)) /\ WF_vars(c \in Calls /\ Goroutine(c))
         /\ WF_vars(c \in Calls /\ ReleaseRemaining(c))
         /\ WF_vars(c \in Calls /\ TaskAdmitted(c)) /\ WF_vars(c \in Calls /\ TaskReturns(c))
         /\ WF_vars(c \in Calls /\ WaiterCompletes(c))

Spec == Init /\ [][Next]_vars

FairSpec == Spec /\ Fairness

--------------------------------------------------------------------------------

\* Types of the batch, its calls, attachments and durable tasks.
TypeOK ==
    /\ reservations \in Seq(Holders) /\ ready \subseteq Holders
    /\ input \in Batches
    /\ admitted \in 0..Len(input)
    /\ pc \in [Calls -> {"idle", "spawned", "completed", "finalized"} \cup Executing]
    /\ attachment \in [Calls -> {"none", "unresolved", "completed", "detached", "canceled"}]
    /\ task \in [Calls -> {"none", "queued", "running", "canceling"} \cup Ended]
    /\ result \in [Calls -> {"none", "outcome", "handle", "error"}]
    /\ returned \in BOOLEAN /\ ctxDone \in BOOLEAN

\* The call, or the task that stands for it, is changing files.
Mutating(c) == pc[c] = "mutating" \/ task[c] \in {"running", "canceling"}

\* The call's mutation is over, or will never happen.
Over(c) == pc[c] \in {"completed", "finalized"} /\ task[c] \in {"none"} \cup Ended

Overlap(c, d) ==
    /\ input[c].path # NoPath /\ input[d].path # NoPath
    /\ mutationPathsConflict(canonicalMutationPath(input[c].path),
                             canonicalMutationPath(input[d].path))

\* Calls and durable tasks never change overlapping paths at the same time.
ExclusiveMutation ==
    \A c, d \in Calls : (c # d /\ Overlap(c, d)) => ~(Mutating(c) /\ Mutating(d))

\* Overlapping mutations of one batch happen in the order the model wrote them.
SourceOrder ==
    \A c, d \in Calls : (c < d /\ Ready(c) /\ Overlap(c, d) /\ Mutating(d)) => Over(c)

\* They do when the calls reserve at admission and run in the calling process.
InProcessOrder == (\A c \in Calls : input[c].reserves /\ ~input[c].managed) => SourceOrder

\* A batch that has returned blocks nobody: only tasks still hold reservations.
NoReservationOutlivesBatch ==
    returned => \A i \in DOMAIN reservations : reservations[i][2] = "task"

\* A detach that succeeded is final: nothing resolves the attachment again and
\* the end of the turn does not cancel the task whose handle was handed out.
DetachIsFinal ==
    [][\A c \in Calls : attachment[c] = "detached" =>
          attachment'[c] = "detached" /\ task'[c] \notin {"canceling", "canceled"}]_vars

\* Every call of a batch ends, so the turn goes on.
BatchCompletes == <>returned

\* They do when the calls run in source order, or each of them has a slot, or they
\* reserve only once they have one.
UncrowdedBatchCompletes ==
    (\/ Sequential
     \/ Cardinality({c \in Calls : Ready(c)}) <= Slots
     \/ \A c \in Calls : ~input[c].reserves) => BatchCompletes

\* Canceling the turn always unblocks the batch.
CancelUnblocks == ctxDone ~> returned

\* Calls of a batch on overlapping paths, in the foreground or in a durable task, never mutate
\* together, and nothing stays reserved when the batch has returned.
BatchSound ==
    /\ TypeOK /\ ExclusiveMutation /\ NoReservationOutlivesBatch

\* A batch that does not crowd out its own reservations returns, and any batch does once its
\* turn is canceled.
BatchReturns ==
    /\ UncrowdedBatchCompletes
    /\ CancelUnblocks
================================================================================
