----------------------------- MODULE MCTaskRuntime -----------------------------
(***************************************************************************)
(* Parts names the instances of a run.  Shared: two processes share a tool   *)
(* task.  Many: one process has two tool tasks and a third task of a kind    *)
(* nobody handles, so that there are more tasks than workers; its leases do  *)
(* not run out and only one task's cancel reaches its handler.  Terminal:    *)
(* the terminal follows background work.                                     *)
(***************************************************************************)
EXTENDS TaskRuntime, TerminalRefresh, TLC

CONSTANTS Parts, p1, p2, t1, t2, t3

VARIABLE part

TwoProcesses == {p1, p2}
OneTask == {t1}
ThreeTasks == {t1, t2, t3}
NoTask == {}
ThirdTask == {t3}

\* What an instance leaves out.
InPart ==
    CASE part = "shared" -> \A t \in Tasks \ {t1} : StateOf(t)' = "absent"
      [] part = "many" -> /\ phase'[p2] = "new" /\ cancels'[p1] \subseteq {t1}
                          /\ \A t \in Tasks : tasks[t].live => tasks'[t] # [tasks[t] EXCEPT !.live = FALSE]

PartsInit == part \in Parts /\ Init /\ RefreshInit

PartsNext ==
    \/ part # "terminal" /\ Next /\ InPart /\ UNCHANGED <<rfVars, part>>
    \/ part = "terminal" /\ RefreshNext /\ UNCHANGED <<vars, part>>

PartsFairSpec == PartsInit /\ [][PartsNext]_<<vars, rfVars, part>> /\ Fairness
================================================================================
