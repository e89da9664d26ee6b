----------------------------- MODULE TaskLifecycle -----------------------------
(***************************************************************************)
(* What the task table promises its readers about one kind of task, whichever *)
(* processes run it: a task is accepted once, runs at most once, ends once, and *)
(* is reported canceled only when somebody asked for it.                       *)
(***************************************************************************)
CONSTANTS Tasks

VARIABLE state

Init == state = [t \in Tasks |-> "absent"]

Move(t, from, target) == state[t] = from /\ state' = [state EXCEPT ![t] = target]

Accept(t) == Move(t, "absent", "queued")

\* Refused before it ran, because nobody can run it or it was canceled.
Refuse(t) == Move(t, "queued", "failed") \/ Move(t, "queued", "canceled")

Begin(t) == Move(t, "queued", "running")

AskToStop(t) == Move(t, "running", "canceling")

\* The worker reports how the run ended; a run asked to stop never succeeds.
End(t) ==
    \/ \E target \in {"succeeded", "failed", "interrupted"} : Move(t, "running", target)
    \/ \E target \in {"failed", "canceled", "interrupted"} : Move(t, "canceling", target)

\* Workers whose leases expired are given up together.
GiveUp ==
    \E lost \in SUBSET {t \in Tasks : state[t] \in {"running", "canceling"}} :
        state' = [t \in Tasks |-> IF t \in lost THEN "interrupted" ELSE state[t]]

Next == GiveUp \/ \E t \in Tasks : Accept(t) \/ Refuse(t) \/ Begin(t) \/ AskToStop(t) \/ End(t)

Spec == Init /\ [][Next]_state
================================================================================
