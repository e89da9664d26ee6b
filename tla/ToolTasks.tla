------------------------------- MODULE ToolTasks -------------------------------
(***************************************************************************)
(* The durable tool task (internal/database/tool_task_repository.go): the      *)
(* generic row and the canonical outcome, committed in one transaction.       *)
(* outcome is NULL until the task ends, then an outcome that reports success   *)
(* ("ok"), one that reports an error ("error"), or the JSON value null, which   *)
(* a run without a value leaves and which decodes as success.                 *)
(***************************************************************************)
EXTENDS TaskStore

VARIABLE outcome

Outcomes == {"none", "null", "ok", "error"}

OutcomesInit == outcome = [t \in Tasks |-> "none"]

SetOutcome(t, value) == outcome' = [outcome EXCEPT ![t] = value]

\* Create: idempotent by invocation identity, so a present task stays as it is.
CreateTool(t) == Create(t) /\ UNCHANGED outcome

\* Mutation: settlement trusts the state the worker read earlier.
finishAsRead(t, target, value, o) ==
    /\ Finish(t, ActiveStates, target, o)
    /\ SetOutcome(t, value)

\* Finish: a durable cancellation overrides what the worker decided.
FinishTool(t, target, value, o) ==
    LET overridden == StateOf(t) = "canceling" /\ target # "canceled"
    IN  /\ Finish(t, ActiveStates, IF overridden THEN "canceled" ELSE target, o)
        /\ SetOutcome(t, IF overridden THEN "error" ELSE value)

\* Mutation: an expired task goes back to the queue.
requeueExpired ==
    /\ tasks' = [t \in Tasks |-> IF Expired(t) THEN Row("queued", NoOwner) ELSE tasks[t]]
    /\ UNCHANGED outcome

\* RecoverExpired: one transaction ends every task whose lease is gone (they come
\* in batches of 100; one batch is modelled).
RecoverTools ==
    /\ tasks' = [t \in Tasks |-> IF Expired(t) THEN Row("interrupted", NoOwner) ELSE tasks[t]]
    /\ outcome' = [t \in Tasks |-> IF Expired(t) THEN "error" ELSE outcome[t]]

\* Cancel: a queued task ends at once, a running one is asked to stop, and in
\* every other state nothing changes.
CancelTool(t) ==
    \/ Finish(t, {"queued"}, "canceled", NoOwner) /\ SetOutcome(t, "error")
    \/ Transition(t, {"running"}, "canceling") /\ UNCHANGED outcome
    \/ StateOf(t) \in {"canceling"} \cup TerminalStates /\ UNCHANGED <<tasks, outcome>>
================================================================================
