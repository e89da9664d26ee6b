----------------------------- MODULE MCDurableWork -----------------------------
(***************************************************************************)
(* All agent tasks belong to one session, and the script of r1 launches c1.  *)
(* Parts names the instances of a run.  Agents: a session's tasks over two   *)
(* workers and a queue of one, submitted one after the other.  Workflow: a   *)
(* run and its child.  In both only the first process is shut down, and the   *)
(* second works on one task at a time and no user signals it.  All:          *)
(* everything.                                                               *)
(***************************************************************************)
EXTENDS DurableWork, TLC

CONSTANTS Parts, a1, a2, c1, r1

VARIABLE part

MCKeyOf == [t \in Agents |-> "session"]

MCLaunches == [r \in Runs |-> IF r = r1 THEN Agents \ {a1, a2} ELSE {}]

Busy == {w \in AgentWorkers : agWork[w] # IdleWorker}

\* What an instance leaves out.
Limited ==
    /\ Cardinality(usedOwners) = 2 =>
          /\ agPhase' # "stopping" /\ Cardinality(Busy') <= 1
          /\ \A c \in Cancelers \ Hosts : agCancel'[c] = IdleCaller
    /\ CASE part = "agents" ->
              /\ wfPhase' = "down" /\ StateOf(c1)' = "absent" /\ Cardinality(agPending') <= 1
              /\ faults = 1 /\ agPhase' = "stopping" => agPhase = "stopping"
         [] part = "workflow" ->
              /\ StateOf(a1)' = "absent" /\ StateOf(a2)' = "absent" /\ Cardinality(Busy') <= 1
              /\ faults' # faults => agRejected' # agRejected \/ wfHost' # wfHost

MCInit == Init /\ part \in Parts
MCNext == Next /\ UNCHANGED part /\ (part # "all" => Limited)

MCLiveSpec == MCInit /\ [][Work /\ UNCHANGED part]_<<vars, part>> /\ Fairness

Symmetry == Permutations(Owners) \cup Permutations(AgentWorkers) \cup Permutations({a1, a2})
================================================================================
