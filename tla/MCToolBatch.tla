------------------------------ MODULE MCToolBatch ------------------------------
(***************************************************************************)
(* Batches over a directory "d" and two files in it.  A bash call mutates the *)
(* directory, an edit or write a file, a read nothing.  Child calls come from *)
(* an agent's registry, whose executors reserve at admission; top calls are    *)
(* wrapped for background use and reserve only when they execute.  All calls    *)
(* of a batch come from one registry.                                          *)
(***************************************************************************)
EXTENDS ToolBatch, TLC

CONSTANTS None

MCHolders == (1..4) \X {"call", "task"}
MCComponents == {"d", "f", "g"}
MCResolve == (<<>> :> <<>>) @@ (<<"d">> :> <<"d">>)
MCUnreadable == {}

Call(mutated, reserved, durable, inOrder) ==
    [ready |-> TRUE, path |-> mutated, reserves |-> reserved, managed |-> durable,
     sequential |-> inOrder]

Invalid == [Call(None, FALSE, FALSE, FALSE) EXCEPT !.ready = FALSE]

\* Calls of an agent's batch run in the calling process.
ChildCalls ==
    {Call(p, TRUE, FALSE, FALSE) : p \in {<<"d">>, <<"d", "f">>, <<"d", "g">>, None}} \cup {Invalid}

\* One of them changes state that every other call may depend on.
SequentialCalls ==
    {Call(<<"d">>, TRUE, FALSE, FALSE), Call(<<"d", "f">>, TRUE, FALSE, TRUE), Invalid}

\* Calls of an agent's batch run as durable tasks.
DurableCalls == {Call(p, TRUE, TRUE, FALSE) : p \in {<<"d">>, <<"d", "f">>}}

\* Calls of the top-level batch: wrapped, durable when eligible.
TopCalls ==
    {Call(<<"d", "f">>, FALSE, TRUE, FALSE), Call(<<"d">>, FALSE, FALSE, FALSE),
     Call(None, FALSE, TRUE, FALSE)}

Length(n, calls) == [1..n -> calls]

\* Two calls of any kind, three that overlap or wait for two others, and three tasks.
SafetyBatches ==
    LET dir == Call(<<"d">>, TRUE, FALSE, FALSE)
        f == Call(<<"d", "f">>, TRUE, FALSE, FALSE)
        g == Call(<<"d", "g">>, TRUE, FALSE, FALSE)
        free == Call(None, TRUE, FALSE, FALSE)
        task1 == Call(<<"d">>, TRUE, TRUE, FALSE)
        task2 == Call(<<"d", "f">>, TRUE, TRUE, FALSE)
    IN  Length(2, ChildCalls) \cup Length(2, DurableCalls) \cup Length(3, {dir, f})
            \cup {<<f, g, dir>>, <<dir, f, g>>, <<dir, free, dir>>, <<Invalid, f, f>>, <<task2, task1, task2>>}

\* The batch of four calls exceeds MaxCalls and is crowded.
LivenessBatches ==
    Length(2, TopCalls) \cup Length(3, {Call(<<"d">>, FALSE, FALSE, FALSE)})
        \cup Length(3, SequentialCalls)
        \cup Length(4, {Call(<<"d">>, TRUE, FALSE, FALSE)})

AllBatches == SafetyBatches \cup LivenessBatches

DeadlockBatches == Length(3, {Call(<<"d">>, TRUE, TRUE, FALSE)})
================================================================================
