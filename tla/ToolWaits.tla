------------------------------- MODULE ToolWaits -------------------------------
(***************************************************************************)
(* The in-process side of one background tool invocation (internal/tooltask):  *)
(* Start behind a reference-counted lock per invocation, Wait behind a channel   *)
(* that Settle and Cancel close, and the completion that is announced once the   *)
(* outcome is durable.                                                        *)
(***************************************************************************)
EXTENDS Naturals, FiniteSets

CONSTANTS Starters,   \* callers of Start with the same invocation
          Waiters,    \* callers of Wait
          NoLock

ASSUME WaitAssumption == NoLock \notin Starters

VARIABLES
    twRow,      \* "absent", "queued", "running", "canceling", "ended"
    twMap,      \* starts[key]: the lock, named after the caller that made it, or NoLock
    twLocks,    \* the locks made: [refs, held]
    twStart,    \* callers of Start: [pc, lock]
    twAdmitted, \* Admit has let a call through that Create stored
    twWait,     \* callers of Wait: "idle", "added", "blocked", "returned"
    twChans,    \* waiters: registered channels of each caller
    twWoken,    \* callers whose channel is closed
    twNotify,   \* threads between their commit and notifyWaiters: "settle", "cancel"
    twSilent,   \* the row was ended by recovery, which notifies nobody
    twOutcome,  \* completions: "none", "kept", "published"
    twWorker    \* "idle", "running", "settling"

twStarts == <<twMap, twLocks, twStart, twAdmitted>>
twWaits == <<twWait, twChans, twWoken>>
twVars == <<twRow, twStarts, twWaits, twNotify, twSilent, twOutcome, twWorker>>

WaitInit ==
    /\ twRow = "absent" /\ twMap = NoLock
    /\ twLocks = [s \in Starters |-> [refs |-> 0, held |-> FALSE]]
    /\ twStart = [s \in Starters |-> [pc |-> "idle", lock |-> NoLock]] /\ twAdmitted = 0
    /\ twWait = [w \in Waiters |-> "idle"] /\ twChans = [w \in Waiters |-> 0] /\ twWoken = {}
    /\ twNotify = {} /\ twSilent = FALSE /\ twOutcome = "none" /\ twWorker = "idle"

--------------------------------------------------------------------------------
(* Start. *)

StartOnly == UNCHANGED <<twWaits, twNotify, twSilent, twOutcome, twWorker>>
StartAt(s, pc) == twStart[s].pc = pc
LockOf(s) == twStart[s].lock

\* The lock of the invocation is found or made, and referenced.
findLock(s) ==
    LET lock == IF twMap = NoLock THEN s ELSE twMap IN
    /\ StartAt(s, "idle")
    /\ twMap' = lock /\ twLocks' = [twLocks EXCEPT ![lock].refs = @ + 1]
    /\ twStart' = [twStart EXCEPT ![s] = [pc |-> "waiting", lock |-> lock]]
    /\ StartOnly /\ UNCHANGED <<twRow, twAdmitted>>

lockStart(s) ==
    /\ StartAt(s, "waiting") /\ ~twLocks[LockOf(s)].held
    /\ twLocks' = [twLocks EXCEPT ![LockOf(s)].held = TRUE]
    /\ twStart' = [twStart EXCEPT ![s].pc = "locked"]
    /\ StartOnly /\ UNCHANGED <<twRow, twMap, twAdmitted>>

\* An invocation that has a row returns it; otherwise Admit decides.
admitStartRequest(s) ==
    /\ StartAt(s, "locked")
    /\ \/ twRow # "absent" /\ twStart' = [twStart EXCEPT ![s].pc = "unlock"]
       \/ twRow = "absent" /\ \E pc \in {"admitted", "unlock"} : twStart' = [twStart EXCEPT ![s].pc = pc]
    /\ StartOnly /\ UNCHANGED <<twRow, twMap, twLocks, twAdmitted>>

\* The task is stored, or storing it fails.
createTask(s) ==
    /\ StartAt(s, "admitted") /\ twStart' = [twStart EXCEPT ![s].pc = "unlock"]
    /\ \/ /\ twRow' = IF twRow = "absent" THEN "queued" ELSE twRow
          /\ twAdmitted' = twAdmitted + 1
       \/ UNCHANGED <<twRow, twAdmitted>>
    /\ StartOnly /\ UNCHANGED <<twMap, twLocks>>

unlockStart(s) ==
    /\ StartAt(s, "unlock") /\ twStart' = [twStart EXCEPT ![s].pc = "unref"]
    /\ twLocks' = [twLocks EXCEPT ![LockOf(s)].held = FALSE]
    /\ StartOnly /\ UNCHANGED <<twRow, twMap, twAdmitted>>

\* Mutation: the lock leaves the map with the first caller that is done.
forgetsLock(s) ==
    /\ StartAt(s, "unref") /\ twStart' = [twStart EXCEPT ![s].pc = "returned"]
    /\ twLocks' = [twLocks EXCEPT ![LockOf(s)].refs = @ - 1]
    /\ twMap' = NoLock
    /\ StartOnly /\ UNCHANGED <<twRow, twAdmitted>>

\* The last reference removes the lock from the map.
unrefStart(s) ==
    /\ StartAt(s, "unref") /\ twStart' = [twStart EXCEPT ![s].pc = "returned"]
    /\ twLocks' = [twLocks EXCEPT ![LockOf(s)].refs = @ - 1]
    /\ twMap' = IF twLocks[LockOf(s)].refs = 1 THEN NoLock ELSE twMap
    /\ StartOnly /\ UNCHANGED <<twRow, twAdmitted>>

--------------------------------------------------------------------------------
(* Wait. *)

WaitOnly == UNCHANGED <<twRow, twStarts, twNotify, twSilent, twOutcome, twWorker>>

addWaiter(w) ==
    /\ twWait[w] = "idle" /\ twRow # "absent"
    /\ twWait' = [twWait EXCEPT ![w] = "added"]
    /\ twChans' = [twChans EXCEPT ![w] = @ + 1] /\ twWoken' = twWoken \ {w}
    /\ WaitOnly

\* The row is read after the registration; a row that has ended returns at once.
readTask(w) ==
    /\ twWait[w] = "added"
    /\ IF twRow = "ended"
       THEN /\ twWait' = [twWait EXCEPT ![w] = "returned"]
            /\ twChans' = [twChans EXCEPT ![w] = 0]
       ELSE twWait' = [twWait EXCEPT ![w] = "blocked"] /\ UNCHANGED twChans
    /\ UNCHANGED twWoken /\ WaitOnly

\* A closed channel: notifyWaiters has already forgotten it.
wakes(w) ==
    /\ twWait[w] = "blocked" /\ w \in twWoken
    /\ twWait' = [twWait EXCEPT ![w] = "idle"] /\ UNCHANGED <<twChans, twWoken>>
    /\ WaitOnly

\* Mutation: the fallback timer starts another round and keeps the channel.
keepsChannel(w) ==
    /\ twWait[w] = "blocked"
    /\ \E pc \in {"idle", "returned"} : twWait' = [twWait EXCEPT ![w] = pc]
    /\ twChans' = [twChans EXCEPT ![w] = IF @ < 2 THEN @ ELSE 2]
    /\ UNCHANGED twWoken /\ WaitOnly

\* The fallback timer starts another round, a canceled context ends the wait; both
\* remove the channel.
removeWaiter(w) ==
    /\ twWait[w] = "blocked"
    /\ \E pc \in {"idle", "returned"} : twWait' = [twWait EXCEPT ![w] = pc]
    /\ twChans' = [twChans EXCEPT ![w] = 0]
    /\ UNCHANGED twWoken /\ WaitOnly

--------------------------------------------------------------------------------
(* The task. *)

TaskOnly == UNCHANGED <<twStarts, twWaits>>

runTask ==
    /\ twRow = "queued" /\ twWorker = "idle" /\ twRow' = "running" /\ twWorker' = "running"
    /\ TaskOnly /\ UNCHANGED <<twNotify, twSilent, twOutcome>>

\* Mutation: the completion goes out before Finish.
publishesEarly ==
    /\ twWorker = "running" /\ twWorker' = "settling" /\ twOutcome' = "published"
    /\ TaskOnly /\ UNCHANGED <<twRow, twNotify, twSilent>>

\* The tool has returned: its completion is kept until the outcome is stored.
rememberCompletion ==
    /\ twWorker = "running" /\ twWorker' = "settling" /\ twOutcome' = "kept"
    /\ TaskOnly /\ UNCHANGED <<twRow, twNotify, twSilent>>

\* Settle stores the outcome of a row that is still active; the row of a task that
\* recovery has ended keeps its state and the completion is dropped.
settleTool ==
    /\ twWorker = "settling" /\ twWorker' = "idle"
    /\ IF twRow \in {"running", "canceling"}
       THEN twRow' = "ended" /\ twNotify' = twNotify \cup {"settle"} /\ UNCHANGED twOutcome
       ELSE twOutcome' = "none" /\ UNCHANGED <<twRow, twNotify>>
    /\ TaskOnly /\ UNCHANGED twSilent

\* Mutation: only Settle notifies.
cancelsQuietly ==
    /\ twRow \in {"queued", "running"}
    /\ twRow' = IF twRow = "queued" THEN "ended" ELSE "canceling"
    /\ TaskOnly /\ UNCHANGED <<twNotify, twSilent, twOutcome, twWorker>>

\* A queued task ends at once, a running one is asked to stop.
cancelTool ==
    /\ twRow \in {"queued", "running"} /\ "cancel" \notin twNotify
    /\ twRow' = IF twRow = "queued" THEN "ended" ELSE "canceling"
    /\ twNotify' = twNotify \cup {"cancel"}
    /\ TaskOnly /\ UNCHANGED <<twSilent, twOutcome, twWorker>>

\* Every registered channel is closed and forgotten; Settle publishes after that.
notifyWaiters(who) ==
    /\ who \in twNotify /\ twNotify' = twNotify \ {who}
    /\ twWoken' = twWoken \cup {w \in Waiters : twChans[w] > 0}
    /\ twChans' = [w \in Waiters |-> 0]
    /\ twOutcome' = IF who = "settle" THEN "published" ELSE twOutcome
    /\ UNCHANGED <<twRow, twStarts, twWait, twSilent, twWorker>>

\* RecoverExpired, here or in another process, ends the row without a notification.
recoverSilently ==
    /\ twRow \in {"running", "canceling"} /\ twRow' = "ended" /\ twSilent' = TRUE
    /\ TaskOnly /\ UNCHANGED <<twNotify, twOutcome, twWorker>>

WaitNext ==
    \/ \E s \in Starters : findLock(s) \/ lockStart(s) \/ admitStartRequest(s) \/ createTask(s)
                           \/ unlockStart(s) \/ unrefStart(s)
    \/ \E w \in Waiters : addWaiter(w) \/ readTask(w) \/ wakes(w) \/ removeWaiter(w)
    \/ runTask \/ rememberCompletion \/ settleTool \/ cancelTool \/ recoverSilently
    \/ \E who \in twNotify : notifyWaiters(who)

--------------------------------------------------------------------------------
\* Concurrent Starts of one invocation admit and store it once, although the lock that
\* serialises them is made and removed on demand.
StartedOnce ==
    /\ twAdmitted <= 1
    /\ Cardinality({s \in Starters : twStart[s].pc \in {"locked", "admitted", "unlock"}}) <= 1

\* A caller that sleeps in Wait while the task has ended has been woken or is about to be.
\* Only a task that recovery ended is left to the fallback timer.
NoLostWakeup ==
    \A w \in Waiters : twRow = "ended" /\ twWait[w] = "blocked" =>
        w \in twWoken \/ twNotify # {} \/ twSilent

\* Wait leaves no channel behind, through however many rounds it went.
WaitersRemoved ==
    \A w \in Waiters : twChans[w] = IF twWait[w] \in {"added", "blocked"} /\ w \notin twWoken THEN 1 ELSE 0

\* A completion that subscribers see is that of a task whose row has ended with it.
PublishedIsSettled == twOutcome = "published" => twRow = "ended" /\ ~twSilent

\* Callers that wait for a tool task start it once, hear of its end whenever it comes, and
\* leave no channel behind; what they hear is what the table says.
WaitersServed ==
    /\ StartedOnce /\ NoLostWakeup /\ WaitersRemoved
    /\ PublishedIsSettled
================================================================================
