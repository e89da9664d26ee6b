------------------------------- MODULE TaskStore -------------------------------
(***************************************************************************)
(* The tasks table (internal/database/task_repository.go).  Every method of   *)
(* the repository is one IMMEDIATE SQLite transaction, so it is one operator  *)
(* here: a condition that says when the conditional UPDATE matches the row,    *)
(* and the row it leaves.                                                     *)
(*                                                                           *)
(* A lease is an owner and a flag that says whether lease_expires_at is still  *)
(* in the future.  Expire turns the flag off at any moment, one task at a      *)
(* time, so no process depends on the speed of a clock.                       *)
(***************************************************************************)
EXTENDS Integers

CONSTANTS Tasks,    \* ids of the tasks
          Owners,   \* lease owners: one per start of a process
          NoOwner   \* lease_owner IS NULL

ASSUME OwnerAssumption == NoOwner \notin Owners

VARIABLE tasks      \* the rows: [state, owner, live]

ActiveStates == {"running", "canceling"}
TerminalStates == {"succeeded", "failed", "canceled", "interrupted"}
TaskStates == {"absent", "queued"} \cup ActiveStates \cup TerminalStates

Rows == [state : TaskStates, owner : Owners \cup {NoOwner}, live : BOOLEAN]

StateOf(t) == tasks[t].state

Row(state, owner) == [state |-> state, owner |-> owner, live |-> owner # NoOwner]

StoreInit == tasks = [t \in Tasks |-> Row("absent", NoOwner)]

\* The row of t is replaced, the other rows stay.
Put(t, row) == tasks' = [tasks EXCEPT ![t] = row]

--------------------------------------------------------------------------------
(* Conditions of the UPDATE statements. *)

\* lease_owner = o AND lease_expires_at > now
OwnsLive(t, o) == tasks[t].owner = o /\ tasks[t].live

\* RenewLease and ownsRunningTask.
ownsRunningTask(t, o) == StateOf(t) \in ActiveStates /\ OwnsLive(t, o)

\* Finish: an unowned row for LeaseOwner "", a live lease otherwise.
Finishable(t, from, o) ==
    /\ StateOf(t) \in from
    /\ IF o = NoOwner THEN tasks[t].owner = NoOwner ELSE OwnsLive(t, o)

\* Mutation: recovery overlooks the tasks that were asked to stop.
expiredRunning(t) == StateOf(t) = "running" /\ ~tasks[t].live

\* Rows that RecoverExpired selects.
Expired(t) == StateOf(t) \in ActiveStates /\ ~tasks[t].live

--------------------------------------------------------------------------------
(* Transactions. *)

Create(t) == StateOf(t) = "absent" /\ Put(t, Row("queued", NoOwner))

\* Mutation: the claim forgets AND state = 'queued'.
claimAnyState(t, o) == StateOf(t) # "absent" /\ Put(t, Row("running", o))

ClaimQueued(t, o) == StateOf(t) = "queued" /\ Put(t, Row("running", o))

RenewLease(t, o) == ownsRunningTask(t, o) /\ Put(t, [tasks[t] EXCEPT !.live = TRUE])

\* Transition; a terminal target needs an unowned row.
Transition(t, from, target) ==
    /\ StateOf(t) \in from
    /\ target \in TerminalStates => tasks[t].owner = NoOwner
    /\ Put(t, [tasks[t] EXCEPT !.state = target])

Finish(t, from, target, o) == Finishable(t, from, o) /\ Put(t, Row(target, NoOwner))

\* Time passes lease_expires_at.
Expire(t) == tasks[t].live /\ Put(t, [tasks[t] EXCEPT !.live = FALSE])
================================================================================
