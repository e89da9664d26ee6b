---------------------------- MODULE WorkflowScripts ----------------------------
(***************************************************************************)
(* The host of one workflow script (internal/workflow/workflow.go): the         *)
(* script's concurrent callbacks launch, await, cancel and list durable          *)
(* children; the end of the script cancels and settles what it left behind.      *)
(* An evaluation that is given the links of an earlier one gets the children      *)
(* of that one back, call by call.                                                *)
(***************************************************************************)
EXTENDS Naturals, Sequences, FiniteSets

CONSTANTS Callbacks,       \* callbacks of the script that run concurrently
          NodeKeys,        \* the node keys they launch under
          MaxCalls,        \* bound: agent() calls of an evaluation under one node key
          MaxEvaluations,  \* bound: evaluations of the run
          NoCallback       \* launchMu is free

ASSUME ScriptAssumption ==
    /\ MaxCalls \in Nat /\ MaxEvaluations \in Nat /\ NoCallback \notin Callbacks

VARIABLES
    wsChild,     \* children in the order of their links: [node, index, state, by]
    wsHost,      \* the runHost: [pc, invocations, persisted, launched, settled, todo, passes, ok, failed]
    wsLaunch,    \* the callback that holds launchMu
    wsCall,      \* the callbacks: [pc, node, index, child]
    wsGiven,     \* ids that agent() has returned in this evaluation
    wsEvents,    \* task_launched events of this evaluation
    wsEvaluations

wsVars == <<wsChild, wsHost, wsLaunch, wsCall, wsGiven, wsEvents, wsEvaluations>>

Outside == [pc |-> "idle", node |-> "", index |-> 0, child |-> 0]

\* terminal; queued and running are told apart by nobody here.
childEnded(c) == wsChild[c].state = "ended"

NewHost == [pc |-> "eval", invocations |-> [k \in NodeKeys |-> 0],
            persisted |-> {}, launched |-> <<>>, settled |-> {}, todo |-> <<>>, passes |-> 0,
            ok |-> TRUE, failed |-> FALSE]

ScriptInit ==
    /\ wsChild = <<>> /\ wsHost = NewHost
    /\ wsLaunch = NoCallback /\ wsCall = [b \in Callbacks |-> Outside]
    /\ wsGiven = <<>> /\ wsEvents = <<>> /\ wsEvaluations = 1

Evaluating == wsHost.pc = "eval"
CallGoes(b, rec) == wsCall' = [wsCall EXCEPT ![b] = rec]
Linked(node, index) == {c \in DOMAIN wsChild : wsChild[c].node = node /\ wsChild[c].index = index}

--------------------------------------------------------------------------------
(* agent() *)

\* Mutation: a call waits for nobody.
agentUnlocked(b, node) ==
    /\ Evaluating /\ wsCall[b].pc = "idle" /\ wsHost.invocations[node] < MaxCalls
    /\ UNCHANGED wsLaunch
    /\ wsHost' = [wsHost EXCEPT !.invocations[node] = @ + 1]
    /\ CallGoes(b, [pc |-> "lookup", node |-> node, index |-> wsHost.invocations[node], child |-> 0])
    /\ UNCHANGED <<wsChild, wsGiven, wsEvents, wsEvaluations>>

\* Under launchMu a call takes the next index of its node key, whatever becomes of it.
agentCall(b, node) ==
    /\ Evaluating /\ wsCall[b].pc = "idle" /\ wsHost.invocations[node] < MaxCalls
    /\ wsLaunch = NoCallback /\ wsLaunch' = b
    /\ wsHost' = [wsHost EXCEPT !.invocations[node] = @ + 1]
    /\ CallGoes(b, [pc |-> "lookup", node |-> node, index |-> wsHost.invocations[node], child |-> 0])
    /\ UNCHANGED <<wsChild, wsGiven, wsEvents, wsEvaluations>>

Unlock(b) == wsLaunch' = IF wsLaunch = b THEN NoCallback ELSE wsLaunch
Gives(b, c) == CallGoes(b, [wsCall[b] EXCEPT !.pc = "holds", !.child = c]) /\ wsGiven' = Append(wsGiven, c)
FailsCall(b) == CallGoes(b, Outside) /\ UNCHANGED wsGiven

\* Mutation: the persisted link of a node key is reused whichever call it was for.
reusesAnyLink(b) ==
    LET keys == {key \in wsHost.persisted : key[1] = wsCall[b].node} IN
    /\ Evaluating /\ wsCall[b].pc = "lookup"
    /\ \/ /\ keys # {} /\ \E c \in DOMAIN wsChild :
               <<wsChild[c].node, wsChild[c].index>> \in keys /\ Gives(b, c)
          /\ Unlock(b) /\ UNCHANGED wsHost
       \/ /\ keys = {} /\ CallGoes(b, [wsCall[b] EXCEPT !.pc = "submit"])
          /\ UNCHANGED <<wsHost, wsLaunch, wsGiven>>
    /\ UNCHANGED <<wsChild, wsEvents, wsEvaluations>>

\* A persisted link of this very invocation is read back and used up; a read error
\* fails the call.
persistedTask(b) ==
    LET key == <<wsCall[b].node, wsCall[b].index>> IN
    /\ Evaluating /\ wsCall[b].pc = "lookup"
    /\ \/ /\ key \in wsHost.persisted
          /\ \/ /\ \E c \in Linked(key[1], key[2]) : Gives(b, c)
                /\ wsHost' = [wsHost EXCEPT !.persisted = @ \ {key}]
             \/ FailsCall(b) /\ UNCHANGED wsHost
          /\ Unlock(b)
       \/ /\ key \notin wsHost.persisted /\ CallGoes(b, [wsCall[b] EXCEPT !.pc = "submit"])
          /\ UNCHANGED <<wsHost, wsLaunch, wsGiven>>
    /\ UNCHANGED <<wsChild, wsEvents, wsEvaluations>>

\* The child and its link are one transaction; an existing link of the invocation gives
\* its child.  A submission refused before the transaction leaves nothing, one refused
\* by the queue leaves an ended child the host does not know of.
SubmitChild(b) ==
    LET linked == Linked(wsCall[b].node, wsCall[b].index)
        created(state) == Append(wsChild, [node |-> wsCall[b].node, index |-> wsCall[b].index, state |-> state,
                                           by |-> wsEvaluations])
    IN
    /\ Evaluating /\ wsCall[b].pc = "submit"
    /\ \/ /\ wsChild' = IF linked = {} THEN created("active") ELSE wsChild
          /\ CallGoes(b, [wsCall[b] EXCEPT !.pc = "launched",
                       !.child = IF linked = {} THEN Len(wsChild) + 1 ELSE CHOOSE c \in linked : TRUE])
          /\ UNCHANGED <<wsLaunch, wsGiven>>
       \/ /\ wsChild' \in {wsChild, created("ended")} /\ linked = {}
          /\ FailsCall(b) /\ Unlock(b)
    /\ UNCHANGED <<wsHost, wsEvents, wsEvaluations>>

\* The child enters the launched list and its event is emitted, or refused.
publishLaunch(b) ==
    /\ Evaluating /\ wsCall[b].pc = "launched"
    /\ wsHost' = [wsHost EXCEPT !.launched = Append(@, wsCall[b].child)]
    /\ \/ wsEvents' = Append(wsEvents, wsCall[b].child) /\ Gives(b, wsCall[b].child)
       \/ UNCHANGED wsEvents /\ FailsCall(b)
    /\ Unlock(b) /\ UNCHANGED <<wsChild, wsEvaluations>>

--------------------------------------------------------------------------------
(* wait(), cancel() and list() *)

Keeps == UNCHANGED <<wsChild, wsLaunch, wsGiven, wsEvents, wsEvaluations>>
Owns(c) == \E n \in DOMAIN wsHost.launched : wsHost.launched[n] = c

\* wait() of an owned child reads it and awaits its end.
waitCall(b) ==
    /\ Evaluating /\ wsCall[b].pc = "holds" /\ Owns(wsCall[b].child)
    /\ CallGoes(b, [wsCall[b] EXCEPT !.pc = "waiting"])
    /\ UNCHANGED wsHost /\ Keeps

\* Mutation: the child counts as settled whatever the wait ended with.
waitSettlesAlways(b) ==
    /\ Evaluating /\ wsCall[b].pc = "waiting" /\ CallGoes(b, Outside)
    /\ wsHost' = [wsHost EXCEPT !.settled = @ \cup {wsCall[b].child}] /\ Keeps

\* The child is settled only after its end was read and its event emitted; a read, an
\* await or an event that fails leaves it to the end of the script.
waitSettles(b) ==
    /\ Evaluating /\ wsCall[b].pc = "waiting" /\ CallGoes(b, Outside)
    /\ \/ childEnded(wsCall[b].child) /\ wsHost' = [wsHost EXCEPT !.settled = @ \cup {wsCall[b].child}]
       \/ UNCHANGED wsHost
    /\ Keeps

\* Cancel of an active child asks its worker to stop; one that is still queued ends at once.
Canceled(c) == IF wsChild[c].state = "active" THEN {"canceling", "ended"} ELSE {wsChild[c].state}

\* cancel() settles the child only when the answer is terminal.
cancelCall(b) ==
    LET c == wsCall[b].child IN
    /\ Evaluating /\ wsCall[b].pc = "holds" /\ Owns(c) /\ CallGoes(b, Outside)
    /\ \E state \in Canceled(c) :
          /\ wsChild' = [wsChild EXCEPT ![c].state = state]
          /\ wsHost' = [wsHost EXCEPT !.settled = IF state = "ended" THEN @ \cup {c} ELSE @]
    /\ UNCHANGED <<wsLaunch, wsGiven, wsEvents, wsEvaluations>>

\* The callback goes on without its child.
leaveChild(b) ==
    /\ Evaluating /\ wsCall[b].pc = "holds" /\ CallGoes(b, Outside)
    /\ UNCHANGED wsHost /\ Keeps

\* A worker ends a child.
ChildEnds(c) ==
    /\ c \in DOMAIN wsChild /\ ~childEnded(c) /\ wsChild' = [wsChild EXCEPT ![c].state = "ended"]
    /\ UNCHANGED <<wsHost, wsLaunch, wsCall, wsGiven, wsEvents, wsEvaluations>>

--------------------------------------------------------------------------------
(* Run: evaluate, cancel what is left, collect the results. *)

HostOnly == UNCHANGED <<wsLaunch, wsCall, wsGiven, wsEvents, wsEvaluations>>

\* The evaluation returns once no callback is in a call; a failed one is closed twice.
evalReturns ==
    /\ Evaluating /\ \A b \in Callbacks : wsCall[b].pc = "idle"
    /\ \E ok \in BOOLEAN :
          wsHost' = [wsHost EXCEPT !.pc = "canceling", !.todo = wsHost.launched,
                                   !.passes = IF ok THEN 1 ELSE 2, !.ok = ok, !.failed = ~ok]
    /\ UNCHANGED wsChild /\ HostOnly

\* Each launched child that is not known to be settled is read and canceled; every
\* error is kept and the others are still canceled.
cancelNext ==
    LET c == Head(wsHost.todo)
        rest == [wsHost EXCEPT !.todo = Tail(@)]
    IN
    /\ wsHost.pc = "canceling" /\ wsHost.todo # <<>>
    /\ \/ /\ c \in wsHost.settled \/ childEnded(c)
          /\ wsHost' = rest /\ UNCHANGED wsChild
       \/ /\ c \notin wsHost.settled /\ ~childEnded(c)
          /\ \/ wsHost' = [wsHost EXCEPT !.pc = "settling"]
                /\ \E state \in Canceled(c) : wsChild' = [wsChild EXCEPT ![c].state = state]
             \/ wsHost' = [rest EXCEPT !.failed = TRUE] /\ UNCHANGED wsChild
    /\ HostOnly

\* The canceled child is awaited until the timeout of the whole pass.
settleNext ==
    /\ wsHost.pc = "settling"
    /\ \/ childEnded(Head(wsHost.todo))
          /\ wsHost' = [wsHost EXCEPT !.pc = "canceling", !.todo = Tail(@)]
       \/ wsHost' = [wsHost EXCEPT !.pc = "canceling", !.todo = Tail(@), !.failed = TRUE]
    /\ UNCHANGED wsChild /\ HostOnly

\* The last pass is followed by the snapshot of the results; a snapshot that fails
\* closes the children once more.
taskResults ==
    /\ wsHost.pc = "canceling" /\ wsHost.todo = <<>>
    /\ \/ /\ wsHost.passes > 1
          /\ wsHost' = [wsHost EXCEPT !.passes = @ - 1, !.todo = wsHost.launched]
       \/ wsHost.passes = 1 /\ wsHost' = [wsHost EXCEPT !.passes = 0, !.pc = "returned"]
       \/ /\ wsHost.passes = 1 /\ wsHost' = [wsHost EXCEPT !.passes = 0, !.failed = TRUE,
                                             !.todo = IF wsHost.ok THEN wsHost.launched ELSE <<>>]
       \/ wsHost.passes = 0 /\ wsHost' = [wsHost EXCEPT !.pc = "returned"]
    /\ UNCHANGED wsChild /\ HostOnly

\* The process dies: what its workers ran is interrupted.
HostDies ==
    /\ wsHost.pc # "dead" /\ wsHost.pc # "returned" /\ wsHost' = [wsHost EXCEPT !.pc = "dead"]
    /\ wsChild' = [c \in DOMAIN wsChild |-> [wsChild[c] EXCEPT !.state = IF @ = "active" THEN "active" ELSE "ended"]]
    /\ wsLaunch' = NoCallback /\ wsCall' = [b \in Callbacks |-> Outside]
    /\ UNCHANGED <<wsGiven, wsEvents, wsEvaluations>>

\* Run with the links an earlier evaluation left: each is a child of this one.
RunAgain ==
    /\ wsHost.pc = "dead" /\ wsEvaluations < MaxEvaluations /\ wsEvaluations' = wsEvaluations + 1
    /\ wsHost' = [NewHost EXCEPT !.persisted = {<<wsChild[c].node, wsChild[c].index>> : c \in DOMAIN wsChild},
                                 !.launched = [c \in DOMAIN wsChild |-> c]]
    /\ wsGiven' = <<>> /\ wsEvents' = <<>>
    /\ UNCHANGED <<wsChild, wsLaunch, wsCall>>

ScriptNext ==
    \/ \E b \in Callbacks :
          \/ \E node \in NodeKeys : agentCall(b, node)
          \/ persistedTask(b) \/ SubmitChild(b) \/ publishLaunch(b)
          \/ waitCall(b) \/ waitSettles(b) \/ cancelCall(b) \/ leaveChild(b)
    \/ \E c \in DOMAIN wsChild : ChildEnds(c)
    \/ evalReturns \/ cancelNext \/ settleNext \/ taskResults \/ HostDies \/ RunAgain

--------------------------------------------------------------------------------
\* Concurrent callbacks never share a child: every agent() call of an evaluation, first
\* or repeated after a crash, is given a child of its own.
OneChildPerCall == \A m, n \in DOMAIN wsGiven : wsGiven[m] = wsGiven[n] => m = n

\* What watchers of the run are told follows the durable order: launches are announced in
\* the order of their links, and an evaluation links the calls of one node key in their order.
LaunchesInOrder ==
    /\ \A m, n \in DOMAIN wsEvents : m < n => wsEvents[m] < wsEvents[n]
    /\ \A c, d \in DOMAIN wsChild :
          c < d /\ wsChild[c].node = wsChild[d].node /\ wsChild[c].by = wsChild[d].by
              => wsChild[c].index < wsChild[d].index

\* A run that returned without an error has ended every child it launched, the ones an
\* earlier evaluation had launched and the script never asked for included.
LaunchedAreSettled ==
    wsHost.pc = "returned" /\ ~wsHost.failed => \A n \in DOMAIN wsHost.launched : childEnded(wsHost.launched[n])

--------------------------------------------------------------------------------
(***************************************************************************)
(* The progress a script announces (internal/workflowprogress): concurrent       *)
(* callbacks emit phases, items, observations and logs through one emitter,        *)
(* which validates the transition, numbers the event and hands it to a sink        *)
(* that may refuse it.                                                             *)
(***************************************************************************)

CONSTANTS Emitting,      \* callbacks that emit concurrently
          MaxEvents,     \* MaxEvents: accepted events of an evaluation
          Unheld         \* the emitter's lock is free

ASSUME ProgressContract == MaxEvents \in Nat /\ Unheld \notin Emitting

VARIABLES
    spEmitter,   \* [phases, items, count]; "" is an identifier never announced
    spLock,      \* who holds the emitter's lock
    spCall,      \* what each callback emits: [pc, event, number]
    spSent       \* events the sink accepted: [event, number]

spVars == <<spEmitter, spLock, spCall, spSent>>

States == {"pending", "running", "succeeded"}
Phases == {"p"}
WorkItems == {"i"}
Final == {"succeeded"}

\* The events a script can build: validID, validText and parseState admit nothing else.
Announcements ==
    [kind : {"phase"}, id : Phases, phase : {""}, state : States]
    \cup [kind : {"item"}, id : WorkItems, phase : Phases \cup {""}, state : States]
    \cup [kind : {"log", "event"}, id : {""}, phase : {""}, state : {""}]

Nothing == [kind |-> "none", id |-> "", phase |-> "", state |-> ""]
Quiet == [pc |-> "idle", event |-> Nothing, number |-> 0]

AnnounceInit ==
    /\ spEmitter = [phases |-> [p \in Phases |-> ""], items |-> [i \in WorkItems |-> ""], count |-> 0]
    /\ spLock = Unheld /\ spCall = [b \in Emitting |-> Quiet] /\ spSent = <<>>

\* A final state and the state it already has are no transition.
validateTransition(old, new) == old \notin Final /\ old # new

\* The emitter's own checks, before the event is numbered.
validates(event) ==
    /\ spEmitter.count < MaxEvents
    /\ event.kind = "phase" => validateTransition(spEmitter.phases[event.id], event.state)
    /\ event.kind = "item" => /\ event.phase # "" => spEmitter.phases[event.phase] # ""
                              /\ validateTransition(spEmitter.items[event.id], event.state)

\* Mutation: the lock is only taken for the delivery.
validatesUnlocked(b, event) ==
    /\ spCall[b].pc = "idle" /\ validates(event)
    /\ spCall' = [spCall EXCEPT ![b] = [pc |-> "sink", event |-> event, number |-> spEmitter.count + 1]]
    /\ UNCHANGED <<spEmitter, spLock, spSent>>

\* Under the lock a valid event is numbered and handed to the sink; an invalid one is an
\* error of the call and changes nothing.
emitEvent(b, event) ==
    /\ spCall[b].pc = "idle" /\ spLock = Unheld /\ validates(event)
    /\ spLock' = b
    /\ spCall' = [spCall EXCEPT ![b] = [pc |-> "sink", event |-> event, number |-> spEmitter.count + 1]]
    /\ UNCHANGED <<spEmitter, spSent>>

Committed(event) ==
    [phases |-> IF event.kind = "phase" THEN [spEmitter.phases EXCEPT ![event.id] = event.state] ELSE spEmitter.phases,
     items |-> IF event.kind = "item" THEN [spEmitter.items EXCEPT ![event.id] = event.state] ELSE spEmitter.items,
     count |-> spEmitter.count + 1]

EmitReturns(b) ==
    /\ spCall' = [spCall EXCEPT ![b] = Quiet]
    /\ spLock' = IF spLock = b THEN Unheld ELSE spLock

\* The sink takes the event: the state is committed and counted.
sinkAccepts(b) ==
    /\ spCall[b].pc = "sink" /\ EmitReturns(b)
    /\ spSent' = Append(spSent, [event |-> spCall[b].event, number |-> spCall[b].number])
    /\ spEmitter' = Committed(spCall[b].event)

\* Mutation: a refused event still counts as announced.
commitsRefused(b) ==
    /\ spCall[b].pc = "sink" /\ EmitReturns(b)
    /\ spEmitter' = Committed(spCall[b].event) /\ UNCHANGED spSent

\* The sink refuses it: the call fails and the number is given out again.
sinkRefuses(b) ==
    /\ spCall[b].pc = "sink" /\ EmitReturns(b)
    /\ UNCHANGED <<spEmitter, spSent>>

AnnounceNext ==
    \E b \in Emitting :
        \/ \E event \in Announcements : emitEvent(b, event)
        \/ sinkAccepts(b) \/ sinkRefuses(b)

--------------------------------------------------------------------------------
\* A watcher that only sees the accepted events can follow them: they are numbered
\* without gaps, nothing leaves its final state, and an item's phase came before it.
WatchersCanFollow ==
    /\ \A n \in DOMAIN spSent : spSent[n].number = n
    /\ \A n \in DOMAIN spSent : LET event == spSent[n].event IN
          /\ \A m \in 1..(n - 1) : spSent[m].event.kind = event.kind /\ event.kind \in {"phase", "item"}
                                    => spSent[m].event.state \notin Final
          /\ event.phase # "" => \E m \in 1..(n - 1) : spSent[m].event.kind = "phase"

\* Whatever the sink refused, the next transition is judged against the state its
\* watchers last saw.
JudgedAsSeen ==
    \A p \in Phases :
        LET seen == {n \in DOMAIN spSent : spSent[n].event.kind = "phase" /\ spSent[n].event.id = p}
        IN spEmitter.phases[p] = IF seen = {} THEN ""
                                 ELSE spSent[CHOOSE n \in seen : \A m \in seen : m <= n].event.state
================================================================================
