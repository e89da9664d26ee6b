------------------------------ MODULE MCPromptRuns ------------------------------
(***************************************************************************)
(* Parts names the instances of a run.  Runtime: two prompts and a manual    *)
(* compaction on one session, users who steer them, and an entry of the      *)
(* terminal's own.  Terminal: the terminal queues, steers and continues      *)
(* prompts; it sees two drafts or results.                                   *)
(***************************************************************************)
EXTENDS PromptRuns, TerminalPrompts, TLC

CONSTANTS Parts, r1, r2, c1, s1, d1, d2, n1

VARIABLE part

TwoRuns == {r1, r2}
SecondRun == {r2}
OneCompaction == {c1}
OneSession == {s1}
OneNotice == {n1}
None == {}
TwoSteers == {d1, d2}

SteerSymmetry == Permutations(TwoSteers)

PartsInit == part \in Parts /\ Init /\ TerminalInit /\ (part = "runtime" => app.session = Main)

\* Where users steer, a second turn and the terminal's own entry come in different behaviours.
NoticeOrTurn ==
    Steers # {} /\ (\E n \in Notices : notice'[n].state # "new") =>
        Cardinality({o \in Operations : pc'[o] # "idle"}) <= 1

PartsNext ==
    \/ part = "runtime" /\ Next /\ NoticeOrTurn /\ UNCHANGED <<tpVars, part>>
    \/ part = "terminal" /\ TerminalNext /\ typed' + continued' <= 2 /\ UNCHANGED <<vars, part>>

PartsSpec == PartsInit /\ [][PartsNext]_<<vars, tpVars, part>>
PartsFairSpec == PartsSpec /\ Fairness
================================================================================
