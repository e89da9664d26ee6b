------------------------------ MODULE MCForeground -----------------------------
(***************************************************************************)
(* Two instances in one run.  Three calls over one existing directory "a", a *)
(* symbolic link "l" to it and paths below them that do not exist yet; "x"   *)
(* cannot be read.  And a worker process that evaluates a script.            *)
(***************************************************************************)
EXTENDS PreparedCalls, ExecuteWorker, TLC

CONSTANTS c1, c2, c3

MCHolders == {c1, c2, c3}

MCComponents == {"a", "b", "l", "x"}

MCResolve == (<<>> :> <<>>) @@ (<<"a">> :> <<"a">>) @@ (<<"l">> :> <<"a">>)

MCUnreadable == {<<"x">>}

MCRequestPaths == {<<"a">>, <<"l", "b">>, <<"x", "b">>}

VARIABLE part

PartsInit == part \in {"calls", "worker"} /\ Init /\ ExecuteInit

PartsNext ==
    \/ part = "calls" /\ Next /\ UNCHANGED <<ewVars, part>>
    \/ part = "worker" /\ ExecuteNext /\ UNCHANGED <<vars, part>>

PartsSpec ==
    /\ PartsInit /\ [][PartsNext]_<<vars, ewVars, part>>
    /\ (part = "calls" => Fairness) /\ (part = "worker" => ExecuteFairness)
================================================================================
