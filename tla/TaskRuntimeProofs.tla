--------------------------- MODULE TaskRuntimeProofs ---------------------------
(***************************************************************************)
(* Safety of TaskRuntime for any tasks, processes and number of workers.       *)
(*                                                                           *)
(* The inductive invariant says what each row (TaskSound) and each goroutine   *)
(* (RunSound) may look like.  Its heart is exclusive: a goroutine between      *)
(* claim and settlement is alone on a task that has left the queue, so a       *)
(* handler that has not been started was never started by anybody.             *)
(***************************************************************************)
EXTENDS TaskRuntime, TLAPS

\* The task was taken from the queue or refused.
Left(t) == StateOf(t) \notin {"absent", "queued"}

\* The task is asked to stop or has ended: it will not be running again.
Stopping(t) == StateOf(t) \in {"canceling"} \cup TerminalStates

TaskSound(t) ==
    /\ ~Left(t) => tasks[t].owner = NoOwner /\ starts[t] = 0
    /\ tasks[t].owner # NoOwner => StateOf(t) \in ActiveStates
    /\ starts[t] <= 1
    /\ StateOf(t) = "succeeded" => starts[t] = 1 /\ outcome[t] = "ok"
    /\ asked[t] # {} => Stopping(t)

\* Nobody but p works on t.
Alone(p, t) == \A q \in Owners : q # p => Pc(q, t) = "idle" /\ tasks[t].owner # q

\* r is a goroutine of p that may work on t.
Sound(p, t, r) ==
    /\ r.pc # "idle" => Left(t) /\ Alone(p, t)
    /\ r.pc \in {"claimed", "registered"} => starts[t] = 0
    /\ r.pc = "running" \/ r.verdict = "ok" => starts[t] = 1
    /\ IF r.pc \in {"decided", "settling"} THEN r.target \in TerminalStates ELSE r.target = "none"
    /\ r.target = "succeeded" => r.verdict = "ok"
    /\ r.verdict = "unloaded" => r.target = "failed"
    /\ r.verdict = "canceled" \/ r.target = "canceled" => Stopping(t)
    /\ (p \in asked[t] /\ StateOf(t) = "canceling" /\ r.pc = "running" /\ r.ctx)
          => t \in cancels[p]

RunSound(p, t) == Sound(p, t, run[p][t])

IndInv ==
    /\ TypeOK
    /\ \A t \in Tasks : TaskSound(t)
    /\ \A p \in Owners : \A t \in Tasks : RunSound(p, t)

--------------------------------------------------------------------------------
(* Updates of one row and of one goroutine. *)

\* What Row makes is a row, leased exactly when it is owned.
LEMMA RowTyped ==
    ASSUME NEW s \in TaskStates, NEW o \in Owners \cup {NoOwner}
    PROVE  /\ Row(s, o) \in Rows
           /\ Row(s, o).state = s /\ Row(s, o).owner = o /\ Row(s, o).live = (o # NoOwner)
BY DEF Row, Rows

\* Put changes one row.
LEMMA PutRow ==
    ASSUME tasks \in [Tasks -> Rows], NEW t \in Tasks, NEW row \in Rows, Put(t, row)
    PROVE  /\ tasks' \in [Tasks -> Rows]
           /\ \A u \in Tasks : tasks'[u] = IF u = t THEN row ELSE tasks[u]
BY DEF Put

\* SetRun changes one goroutine.
LEMMA SetRunEffect ==
    ASSUME run \in [Owners -> [Tasks -> Runs]],
           NEW p \in Owners, NEW t \in Tasks, NEW r \in Runs, SetRun(p, t, r)
    PROVE  /\ run' \in [Owners -> [Tasks -> Runs]]
           /\ \A q \in Owners : \A u \in Tasks :
                run'[q][u] = IF q = p /\ u = t THEN r ELSE run[q][u]
BY DEF SetRun

\* A goroutine steps and the table stays as it is.
LEMMA RunStep ==
    ASSUME IndInv, NEW p \in Owners, NEW t \in Tasks, NEW r \in Runs,
           SetRun(p, t, r), Pc(p, t) # "idle", Sound(p, t, r),
           UNCHANGED <<tasks, outcome, phase, listed, spawned, starts, asked>>,
           \/ cancels' = cancels
           \/ cancels' = [cancels EXCEPT ![p] = @ \ {t}] /\ ~(r.pc = "running" /\ r.ctx)
    PROVE  IndInv'
<1>1. /\ run' \in [Owners -> [Tasks -> Runs]]
      /\ \A q \in Owners : \A u \in Tasks :
           run'[q][u] = IF q = p /\ u = t THEN r ELSE run[q][u]
  BY SetRunEffect DEF IndInv, TypeOK
<1>2. TypeOK'
  <2>1. cancels' \in [Owners -> SUBSET Tasks]
    BY DEF IndInv, TypeOK
  <2>. QED
    BY <1>1, <2>1 DEF IndInv, TypeOK
<1>3. ASSUME NEW u \in Tasks PROVE TaskSound(u)'
  BY DEF IndInv, TaskSound, Left, Stopping, StateOf
<1>4. ASSUME NEW q \in Owners, NEW u \in Tasks PROVE RunSound(q, u)'
  <2>1. CASE q = p /\ u = t
    BY <1>1, <2>1 DEF RunSound, Sound, Alone, Left, Stopping, StateOf, Pc, IndInv, TypeOK
  <2>2. CASE ~(q = p /\ u = t)
    <3>1. run'[q][u] = run[q][u]
      BY <1>1, <2>2
    <3>2. RunSound(q, u)
      BY DEF IndInv
    <3>3. run[q][u].pc # "idle" => Alone(q, u)'
      BY <1>1, <2>2, <3>2 DEF RunSound, Sound, Alone, Pc
    <3>5. u \in cancels[q] => u \in cancels'[q]
      BY <2>2 DEF IndInv, TypeOK
    <3>. QED
      BY <3>1, <3>2, <3>3, <3>5 DEF RunSound, Sound, Left, Stopping, StateOf
  <2>. QED
    BY <2>1, <2>2
<1>. QED
  BY <1>2, <1>3, <1>4 DEF IndInv

\* Rows go forward, leases are only given up, and goroutines stay or end.
LEMMA StoreStep ==
    ASSUME IndInv, TypeOK', \A u \in Tasks : TaskSound(u)',
           \A u \in Tasks : /\ Left(u) => Left(u)'
                            /\ Stopping(u) => Stopping(u)'
                            /\ tasks'[u].owner \in {tasks[u].owner, NoOwner},
           \A q \in Owners : \A u \in Tasks : run'[q][u] \in {run[q][u], Idle},
           \A q \in Owners : \A u \in Tasks :
              (/\ q \in asked'[u] /\ StateOf(u)' = "canceling"
               /\ run'[q][u].pc = "running" /\ run'[q][u].ctx) => u \in cancels'[q],
           UNCHANGED starts
    PROVE  IndInv'
<1>1. ASSUME NEW q \in Owners, NEW u \in Tasks PROVE RunSound(q, u)'
  <2>1. CASE run'[q][u] = Idle
    BY <2>1 DEF RunSound, Sound, Idle, TerminalStates
  <2>2. CASE run'[q][u] = run[q][u]
    <3>1. RunSound(q, u)
      BY DEF IndInv
    <3>2. run[q][u].pc # "idle" => Alone(q, u)'
      <4>1. SUFFICES ASSUME run[q][u].pc # "idle", NEW o \in Owners, o # q
                     PROVE  run'[o][u].pc = "idle" /\ tasks'[u].owner # o
        BY DEF Alone, Pc
      <4>2. run[o][u].pc = "idle" /\ tasks[u].owner # o
        BY <3>1, <4>1 DEF RunSound, Sound, Alone, Pc
      <4>. QED
        BY <4>2, OwnerAssumption DEF Idle
    <3>. QED
      BY <2>2, <3>1, <3>2 DEF RunSound, Sound
  <2>. QED
    BY <2>1, <2>2
<1>. QED
  BY <1>1 DEF IndInv

\* The dispatcher's own variables do not matter.
LEMMA DispatcherStep ==
    ASSUME IndInv, TypeOK', UNCHANGED <<tasks, outcome, run, cancels, starts, asked>>
    PROVE  IndInv'
BY DEF IndInv, TaskSound, RunSound, Sound, Alone, Left, Stopping, StateOf, Pc

--------------------------------------------------------------------------------
(* Life of a process. *)

\* Recovery ends rows whose lease has expired, before or after its process is up.
LEMMA RecoverSteps ==
    ASSUME IndInv, RecoverTools, NEW p \in Owners, phase' \in {phase, [phase EXCEPT ![p] = "up"]},
           UNCHANGED <<listed, spawned, run, cancels, starts, asked>>
    PROVE  IndInv'
<1>1. /\ tasks' \in [Tasks -> Rows] /\ outcome' \in [Tasks -> Outcomes]
      /\ \A u \in Tasks : /\ tasks'[u] = IF Expired(u) THEN Row("interrupted", NoOwner) ELSE tasks[u]
                          /\ outcome'[u] = IF Expired(u) THEN "error" ELSE outcome[u]
  BY RowTyped DEF IndInv, TypeOK, RecoverTools, TaskStates, TerminalStates, Outcomes
<1>2. TypeOK'
  BY <1>1 DEF IndInv, TypeOK
<1>3. \A u \in Tasks : Expired(u) => tasks'[u].state = "interrupted" /\ tasks'[u].owner = NoOwner
  BY <1>1, RowTyped DEF TaskStates, TerminalStates
<1>4. ASSUME NEW u \in Tasks PROVE TaskSound(u)'
  BY <1>1, <1>3 DEF IndInv, TaskSound, Left, Stopping, StateOf, Expired, ActiveStates, TerminalStates
<1>5. ASSUME NEW u \in Tasks
      PROVE  /\ Left(u) => Left(u)'
             /\ Stopping(u) => Stopping(u)'
             /\ tasks'[u].owner \in {tasks[u].owner, NoOwner}
             /\ StateOf(u)' = "canceling" => StateOf(u) = "canceling"
  BY <1>1, <1>3 DEF Left, Stopping, StateOf, TerminalStates
<1>6. ASSUME NEW q \in Owners, NEW u \in Tasks,
             q \in asked'[u], StateOf(u)' = "canceling", run'[q][u].pc = "running", run'[q][u].ctx
      PROVE  u \in cancels'[q]
  BY <1>5, <1>6 DEF IndInv, RunSound, Sound
<1>. QED
  BY <1>2, <1>4, <1>5, <1>6, StoreStep

\* Shutdown cancels contexts, which no condition needs to be live.
LEMMA ShutdownStep ==
    ASSUME IndInv, NEW p \in Owners, Shutdown(p)
    PROVE  IndInv'
<1>1. ASSUME NEW u \in Tasks
      PROVE  LET r == [run[p][u] EXCEPT !.ctx = FALSE]
             IN  r \in Runs /\ ~r.ctx /\ r.pc = run[p][u].pc /\ r.verdict = run[p][u].verdict
                 /\ r.target = run[p][u].target
  <2>1. run[p][u] \in Runs
    BY DEF IndInv, TypeOK
  <2>. QED
    BY <2>1 DEF Runs
<1>2. /\ run' \in [Owners -> [Tasks -> Runs]]
      /\ \A q \in Owners : \A u \in Tasks :
           /\ run'[q][u].pc = run[q][u].pc /\ run'[q][u].verdict = run[q][u].verdict
           /\ run'[q][u].target = run[q][u].target /\ (run'[q][u].ctx => run[q][u].ctx)
  <2>. DEFINE off == [u \in Tasks |-> [run[p][u] EXCEPT !.ctx = FALSE]]
  <2>1. run' = [run EXCEPT ![p] = off] /\ run \in [Owners -> [Tasks -> Runs]]
    BY DEF Shutdown, IndInv, TypeOK
  <2>2. off \in [Tasks -> Runs]
    BY <1>1
  <2>3. \A q \in Owners : run'[q] = IF q = p THEN off ELSE run[q]
    BY <2>1
  <2>. QED
    BY <1>1, <2>1, <2>2, <2>3
<1>3. TypeOK'
  <2>1. phase' \in [Owners -> {"new", "up", "stopping", "abandoned", "gone"}]
        /\ listed' \in [Owners -> SUBSET Tasks]
    BY DEF Shutdown, IndInv, TypeOK
  <2>. QED
    BY <1>2, <2>1 DEF Shutdown, IndInv, TypeOK, storeVars, history
<1>. QED
  BY <1>2, <1>3 DEF Shutdown, IndInv, TaskSound, RunSound, Sound, Alone, Left, Stopping, StateOf,
                    Pc, storeVars, history

\* A crash loses every goroutine of its process.
LEMMA CrashStep ==
    ASSUME IndInv, NEW p \in Owners, Crash(p)
    PROVE  IndInv'
<1>1. /\ run' \in [Owners -> [Tasks -> Runs]]
      /\ \A q \in Owners : \A u \in Tasks : run'[q][u] = IF q = p THEN Idle ELSE run[q][u]
  BY DEF Crash, IndInv, TypeOK, Idle, Runs, Verdicts, Targets
<1>2. TypeOK'
  BY <1>1 DEF Crash, IndInv, TypeOK, storeVars, history
<1>3. \A u \in Tasks : TaskSound(u)'
  BY DEF Crash, IndInv, TaskSound, Left, Stopping, StateOf, storeVars, history
<1>4. ASSUME NEW q \in Owners, NEW u \in Tasks,
             q \in asked'[u], StateOf(u)' = "canceling", run'[q][u].pc = "running", run'[q][u].ctx
      PROVE  u \in cancels'[q]
  BY <1>1, <1>4 DEF Crash, IndInv, TypeOK, RunSound, Sound, StateOf, Idle, storeVars, history
<1>. QED
  BY <1>1, <1>2, <1>3, <1>4, StoreStep DEF Crash, Left, Stopping, StateOf, storeVars, history

\* The end of a shutdown.
LEMMA StoppedStep ==
    ASSUME IndInv, NEW p \in Owners, Stopped(p)
    PROVE  IndInv'
<1>1. TypeOK'
  BY DEF Stopped, IndInv, TypeOK, storeVars, history
<1>2. \A u \in Tasks : TaskSound(u)'
  BY DEF Stopped, IndInv, TaskSound, Left, Stopping, StateOf, storeVars, history
<1>3. ASSUME NEW q \in Owners, NEW u \in Tasks,
             q \in asked'[u], StateOf(u)' = "canceling", run'[q][u].pc = "running", run'[q][u].ctx
      PROVE  u \in cancels'[q]
  BY <1>3 DEF Stopped, IndInv, TypeOK, RunSound, Sound, StateOf, Pc, storeVars, history
<1>. QED
  BY <1>1, <1>2, <1>3, StoreStep DEF Stopped, Left, Stopping, StateOf, storeVars, history

\* Steps of a process as a whole.
LEMMA ProcessStep ==
    ASSUME IndInv, NEW p \in Owners,
           \/ Start(p) \/ Recover(p) \/ Shutdown(p) \/ Stopped(p) \/ Abandon(p) \/ Crash(p)
           \/ List(p) \/ StopDispatch(p)
    PROVE  IndInv'
<1>1. CASE Start(p)
  <2>1. CASE RecoverTools
    BY <1>1, <2>1, RecoverSteps DEF Start, history
  <2>2. CASE UNCHANGED storeVars
    <3>1. TypeOK'
      BY <1>1, <2>2 DEF Start, IndInv, TypeOK, storeVars, history
    <3>. QED
      BY <1>1, <2>2, <3>1, DispatcherStep DEF Start, storeVars, history
  <2>. QED
    BY <1>1, <2>1, <2>2 DEF Start
<1>2. CASE Recover(p)
  BY <1>2, RecoverSteps DEF Recover, history
<1>3. CASE Abandon(p) \/ List(p) \/ StopDispatch(p)
  <2>1. TypeOK'
    <3>1. CASE Abandon(p)
      BY <3>1 DEF Abandon, IndInv, TypeOK, storeVars, history
    <3>2. CASE List(p)
      BY <3>2 DEF List, IndInv, TypeOK, storeVars, history
    <3>3. CASE StopDispatch(p)
      BY <3>3 DEF StopDispatch, IndInv, TypeOK, storeVars, history
    <3>. QED
      BY <1>3, <3>1, <3>2, <3>3
  <2>. QED
    BY <1>3, <2>1, DispatcherStep DEF Abandon, List, StopDispatch, storeVars, history
<1>. QED
  BY <1>1, <1>2, <1>3, ShutdownStep, StoppedStep, CrashStep

--------------------------------------------------------------------------------
(* The worker goroutine. *)

\* A claim takes a queued row for one goroutine.
LEMMA ClaimStep ==
    ASSUME IndInv, NEW p \in Owners, NEW t \in Tasks, Claim(p, t)
    PROVE  IndInv'
<1>. DEFINE r == [Idle EXCEPT !.pc = "claimed"]
<1>1. r \in Runs /\ r.pc = "claimed" /\ r.verdict = "none" /\ r.target = "none" /\ ~r.ctx
  BY DEF Idle, Runs, Verdicts, Targets
<1>2. /\ StateOf(t) = "queued" /\ Put(t, Row("running", p)) /\ SetRun(p, t, r)
      /\ spawned' = [spawned EXCEPT ![p][t] = @ - 1] /\ spawned[p][t] > 0
      /\ UNCHANGED <<outcome, phase, listed, cancels, starts, asked>>
  BY DEF Claim, ClaimQueued, history
<1>. HIDE DEF r
<1>3. /\ run' \in [Owners -> [Tasks -> Runs]]
      /\ \A q \in Owners : \A u \in Tasks : run'[q][u] = IF q = p /\ u = t THEN r ELSE run[q][u]
  BY <1>1, <1>2, SetRunEffect DEF IndInv, TypeOK
<1>4. /\ Row("running", p) \in Rows
      /\ Row("running", p).state = "running" /\ Row("running", p).owner = p
  BY RowTyped DEF TaskStates, ActiveStates
<1>5. /\ tasks' \in [Tasks -> Rows]
      /\ \A u \in Tasks : u # t => tasks'[u] = tasks[u]
      /\ tasks'[t].state = "running" /\ tasks'[t].owner = p
  BY <1>2, <1>4, PutRow DEF IndInv, TypeOK
<1>6. starts[t] = 0 /\ asked[t] = {} /\ tasks[t].owner = NoOwner
  BY <1>2 DEF IndInv, TaskSound, Left, Stopping, StateOf, TerminalStates
<1>7. \A q \in Owners : run[q][t].pc = "idle"
  BY <1>2 DEF IndInv, RunSound, Sound, Left, StateOf
<1>8. TypeOK'
  <2>1. spawned' \in [Owners -> [Tasks -> Nat]]
    BY <1>2 DEF IndInv, TypeOK
  <2>. QED
    BY <1>2, <1>3, <1>5, <2>1 DEF IndInv, TypeOK
<1>9. ASSUME NEW u \in Tasks PROVE TaskSound(u)'
  <2>1. CASE u = t
    BY <1>2, <1>5, <1>6, <2>1 DEF TaskSound, Left, Stopping, StateOf, ActiveStates
  <2>2. CASE u # t
    BY <1>2, <1>5, <2>2 DEF IndInv, TaskSound, Left, Stopping, StateOf
  <2>. QED
    BY <2>1, <2>2
<1>10. ASSUME NEW q \in Owners, NEW u \in Tasks PROVE RunSound(q, u)'
  <2>1. CASE u # t
    <3>1. (\A o \in Owners : run'[o][u] = run[o][u]) /\ tasks'[u] = tasks[u] /\ RunSound(q, u)
      BY <1>3, <1>5, <2>1 DEF IndInv
    <3>. QED
      BY <1>2, <3>1 DEF RunSound, Sound, Alone, Left, Stopping, StateOf, Pc
  <2>2. CASE u = t /\ q = p
    <3>1. Left(t)' /\ Alone(p, t)'
      BY <1>3, <1>5, <1>7 DEF Left, Alone, StateOf, Pc
    <3>2. run'[q][u] = r
      BY <1>3, <2>2
    <3>. QED
      BY <1>1, <1>2, <1>6, <2>2, <3>1, <3>2 DEF RunSound, Sound
  <2>3. CASE u = t /\ q # p
    <3>1. run'[q][u] = run[q][u] /\ run[q][u].pc = "idle" /\ RunSound(q, u)
      BY <1>3, <1>7, <2>3 DEF IndInv
    <3>2. ~Stopping(u)
      BY <1>2, <2>3 DEF Stopping, StateOf, TerminalStates
    <3>. QED
      BY <1>2, <3>1, <3>2 DEF RunSound, Sound
  <2>. QED
    BY <2>1, <2>2, <2>3
<1>. QED
  BY <1>8, <1>9, <1>10 DEF IndInv

\* The context of a claimed task becomes reachable for cancels.
LEMMA RegisterStep ==
    ASSUME IndInv, NEW p \in Owners, NEW t \in Tasks, Register(p, t)
    PROVE  IndInv'
<1>. DEFINE r == [run[p][t] EXCEPT !.pc = "registered", !.ctx = TRUE]
<1>1. run[p][t] \in Runs /\ RunSound(p, t) /\ run[p][t].pc = "claimed"
  BY DEF Register, IndInv, TypeOK, Pc
<1>2. /\ r \in Runs /\ r.pc = "registered"
      /\ r.verdict = run[p][t].verdict /\ r.target = run[p][t].target
  BY <1>1 DEF Runs
<1>3. /\ SetRun(p, t, r)
      /\ UNCHANGED <<tasks, outcome, phase, listed, spawned, starts, asked, cancels>>
  BY DEF Register, storeVars, history
<1>. HIDE DEF r
<1>4. Sound(p, t, r)
  BY <1>1, <1>2 DEF RunSound, Sound
<1>. QED
  BY <1>1, <1>2, <1>3, <1>4, RunStep DEF Pc

\* The task cannot be loaded after its claim.
LEMMA LoadFailsStep ==
    ASSUME IndInv, NEW p \in Owners, NEW t \in Tasks, LoadFails(p, t)
    PROVE  IndInv'
<1>. DEFINE r == [run[p][t] EXCEPT !.pc = "decided", !.verdict = "unloaded", !.target = "failed"]
<1>1. run[p][t] \in Runs /\ RunSound(p, t) /\ run[p][t].pc = "claimed"
  BY DEF LoadFails, IndInv, TypeOK, Pc
<1>2. r \in Runs /\ r.pc = "decided" /\ r.verdict = "unloaded" /\ r.target = "failed"
  BY <1>1 DEF Runs, Verdicts, Targets, TerminalStates
<1>3. /\ SetRun(p, t, r)
      /\ UNCHANGED <<tasks, outcome, phase, listed, spawned, starts, asked, cancels>>
  BY DEF LoadFails, storeVars, history
<1>. HIDE DEF r
<1>4. Sound(p, t, r)
  BY <1>1, <1>2 DEF RunSound, Sound, TerminalStates
<1>. QED
  BY <1>1, <1>2, <1>3, <1>4, RunStep DEF Pc

\* Starting the handler is the one step that counts: its goroutine is alone on
\* the task and has not started it before.
LEMMA StartHandler ==
    ASSUME IndInv, NEW p \in Owners, NEW t \in Tasks,
           Pc(p, t) = "registered", StateOf(t) # "canceling",
           SetRun(p, t, [run[p][t] EXCEPT !.pc = "running"]),
           starts' = [starts EXCEPT ![t] = @ + 1],
           UNCHANGED <<tasks, outcome, phase, listed, spawned, asked, cancels>>
    PROVE  IndInv'
<1>. DEFINE r == [run[p][t] EXCEPT !.pc = "running"]
<1>1. run[p][t] \in Runs /\ RunSound(p, t) /\ run[p][t].pc = "registered"
  BY DEF IndInv, TypeOK, Pc
<1>2. /\ r \in Runs /\ r.pc = "running"
      /\ r.verdict = run[p][t].verdict /\ r.target = run[p][t].target
  BY <1>1 DEF Runs
<1>. HIDE DEF r
<1>3. /\ run' \in [Owners -> [Tasks -> Runs]]
      /\ \A q \in Owners : \A u \in Tasks : run'[q][u] = IF q = p /\ u = t THEN r ELSE run[q][u]
  BY <1>2, SetRunEffect DEF IndInv, TypeOK, r
<1>4. /\ starts[t] = 0 /\ starts' \in [Tasks -> Nat] /\ starts'[t] = 1
      /\ \A u \in Tasks : u # t => starts'[u] = starts[u]
  BY <1>1 DEF IndInv, TypeOK, RunSound, Sound
<1>5. Left(t) /\ Alone(p, t)
  BY <1>1 DEF RunSound, Sound
<1>6. TypeOK'
  BY <1>3, <1>4 DEF IndInv, TypeOK
<1>7. ASSUME NEW u \in Tasks PROVE TaskSound(u)'
  <2>1. TaskSound(u)
    BY DEF IndInv
  <2>2. CASE u = t
    BY <1>4, <1>5, <2>1, <2>2 DEF TaskSound, Left, Stopping, StateOf
  <2>3. CASE u # t
    BY <1>4, <2>1, <2>3 DEF TaskSound, Left, Stopping, StateOf
  <2>. QED
    BY <2>2, <2>3
<1>8. ASSUME NEW q \in Owners, NEW u \in Tasks PROVE RunSound(q, u)'
  <2>1. CASE u # t
    <3>1. (\A o \in Owners : run'[o][u] = run[o][u]) /\ starts'[u] = starts[u] /\ RunSound(q, u)
      BY <1>3, <1>4, <2>1 DEF IndInv
    <3>. QED
      BY <3>1 DEF RunSound, Sound, Alone, Left, Stopping, StateOf, Pc
  <2>2. CASE u = t /\ q = p
    <3>1. Left(t)' /\ Alone(p, t)'
      BY <1>3, <1>5 DEF Left, Alone, StateOf, Pc
    <3>2. run'[q][u] = r
      BY <1>3, <2>2
    <3>3. StateOf(t)' # "canceling" /\ (Stopping(t) => Stopping(t)')
      BY DEF StateOf, Stopping
    <3>. QED
      BY <1>1, <1>2, <1>4, <2>2, <3>1, <3>2, <3>3 DEF RunSound, Sound
  <2>3. CASE u = t /\ q # p
    <3>1. run'[q][u] = run[q][u] /\ run[q][u].pc = "idle" /\ RunSound(q, u)
      BY <1>3, <1>5, <2>3 DEF IndInv, Alone, Pc
    <3>2. run[q][u].verdict # "ok"
      BY <1>4, <2>3, <3>1 DEF RunSound, Sound
    <3>3. Stopping(u) => Stopping(u)'
      BY DEF StateOf, Stopping
    <3>. QED
      BY <3>1, <3>2, <3>3 DEF RunSound, Sound
  <2>. QED
    BY <2>1, <2>2, <2>3
<1>. QED
  BY <1>6, <1>7, <1>8 DEF IndInv

\* The goroutine has its verdict.
LEMMA Returned ==
    ASSUME IndInv, NEW p \in Owners, NEW t \in Tasks, Pc(p, t) \in {"registered", "running"},
           NEW v \in {"canceled", "null", "ok", "error"},
           v = "ok" => Pc(p, t) = "running", v = "canceled" => StateOf(t) = "canceling",
           SetRun(p, t, [run[p][t] EXCEPT !.pc = "returned", !.ctx = FALSE, !.verdict = v]),
           UNCHANGED <<tasks, outcome, phase, listed, spawned, starts, asked, cancels>>
    PROVE  IndInv'
<1>. DEFINE r == [run[p][t] EXCEPT !.pc = "returned", !.ctx = FALSE, !.verdict = v]
<1>1. run[p][t] \in Runs /\ RunSound(p, t) /\ run[p][t].pc \in {"registered", "running"}
  BY DEF IndInv, TypeOK, Pc
<1>2. r \in Runs /\ r.pc = "returned" /\ r.verdict = v /\ r.target = run[p][t].target
  BY <1>1 DEF Runs, Verdicts
<1>3. SetRun(p, t, r)
  OBVIOUS
<1>. HIDE DEF r
<1>4. Sound(p, t, r)
  BY <1>1, <1>2 DEF RunSound, Sound, Stopping, Pc
<1>. QED
  BY <1>1, <1>2, <1>3, <1>4, RunStep DEF Pc

\* The row is read again before the handler starts.
LEMMA RereadStep ==
    ASSUME IndInv, NEW p \in Owners, NEW t \in Tasks, Reread(p, t)
    PROVE  IndInv'
<1>1. CASE /\ StateOf(t) = "canceling" /\ UNCHANGED starts
           /\ SetRun(p, t, [run[p][t] EXCEPT !.pc = "returned", !.ctx = FALSE, !.verdict = "canceled"])
  BY <1>1, Returned DEF Reread, storeVars
<1>2. CASE /\ UNCHANGED starts
           /\ SetRun(p, t, [run[p][t] EXCEPT !.pc = "returned", !.ctx = FALSE, !.verdict = "null"])
  BY <1>2, Returned DEF Reread, storeVars
<1>3. CASE /\ StateOf(t) # "canceling" /\ starts' = [starts EXCEPT ![t] = @ + 1]
           /\ SetRun(p, t, [run[p][t] EXCEPT !.pc = "running"])
  BY <1>3, StartHandler DEF Reread, storeVars
<1>. QED
  BY <1>1, <1>2, <1>3 DEF Reread

\* The handler returns with or without a result.
LEMMA HandlerReturnsStep ==
    ASSUME IndInv, NEW p \in Owners, NEW t \in Tasks, HandlerReturns(p, t)
    PROVE  IndInv'
<1>1. PICK v \in {"ok", "error", "null"} :
        SetRun(p, t, [run[p][t] EXCEPT !.pc = "returned", !.ctx = FALSE, !.verdict = v])
  BY DEF HandlerReturns
<1>. QED
  BY <1>1, Returned DEF HandlerReturns, storeVars, history

\* confirmCanceling chooses what will be recorded.
LEMMA DecideStep ==
    ASSUME IndInv, NEW p \in Owners, NEW t \in Tasks, Decide(p, t)
    PROVE  IndInv'
<1>1. PICK canceling \in BOOLEAN :
        /\ canceling => run[p][t].verdict = "canceled" \/ StateOf(t) = "canceling"
        /\ SetRun(p, t, [run[p][t] EXCEPT !.pc = "decided", !.target = TargetFor(p, t, canceling)])
  BY DEF Decide
<1>2. run[p][t] \in Runs /\ RunSound(p, t) /\ run[p][t].pc = "returned"
  BY DEF Decide, IndInv, TypeOK, Pc
<1>. DEFINE target == TargetFor(p, t, canceling)
            r == [run[p][t] EXCEPT !.pc = "decided", !.target = target]
<1>3. /\ target \in TerminalStates
      /\ target = "succeeded" => run[p][t].verdict = "ok"
      /\ target = "canceled" => canceling
  BY DEF TargetFor, TerminalStates
<1>4. r \in Runs /\ r.pc = "decided" /\ r.verdict = run[p][t].verdict /\ r.target = target
  BY <1>2, <1>3 DEF Runs, Targets
<1>5. /\ SetRun(p, t, r)
      /\ UNCHANGED <<tasks, outcome, phase, listed, spawned, starts, asked, cancels>>
  BY <1>1 DEF Decide, storeVars, history
<1>6. canceling => Stopping(t)
  BY <1>1, <1>2 DEF RunSound, Sound, Stopping
<1>7. run[p][t].verdict # "unloaded"
  BY <1>2 DEF RunSound, Sound
<1>. HIDE DEF r, target
<1>8. Sound(p, t, r)
  BY <1>2, <1>3, <1>4, <1>6, <1>7 DEF RunSound, Sound
<1>. QED
  BY <1>2, <1>4, <1>5, <1>8, RunStep DEF Pc

\* The settlement passes its fence.
LEMMA BeginSettleStep ==
    ASSUME IndInv, NEW p \in Owners, NEW t \in Tasks, BeginSettle(p, t)
    PROVE  IndInv'
<1>. DEFINE r == IF phase[p] = "abandoned" THEN Idle ELSE [run[p][t] EXCEPT !.pc = "settling"]
<1>1. run[p][t] \in Runs /\ RunSound(p, t) /\ run[p][t].pc = "decided"
  BY DEF BeginSettle, IndInv, TypeOK, Pc
<1>2. /\ r \in Runs
      /\ \/ r.pc = "idle" /\ r.verdict = "none" /\ r.target = "none"
         \/ r.pc = "settling" /\ r.verdict = run[p][t].verdict /\ r.target = run[p][t].target
  BY <1>1 DEF Runs, Idle, Verdicts, Targets
<1>3. /\ SetRun(p, t, r)
      /\ UNCHANGED <<tasks, outcome, phase, listed, spawned, starts, asked, cancels>>
  BY DEF BeginSettle, storeVars, history
<1>. HIDE DEF r
<1>4. Sound(p, t, r)
  BY <1>1, <1>2 DEF RunSound, Sound
<1>. QED
  BY <1>1, <1>2, <1>3, <1>4, RunStep DEF Pc

\* One row goes forward and at most one goroutine ends.
LEMMA RowStep ==
    ASSUME IndInv, NEW t \in Tasks, NEW row \in Rows, Put(t, row),
           outcome' \in [Tasks -> Outcomes], \A u \in Tasks : u # t => outcome'[u] = outcome[u],
           row.owner \in {tasks[t].owner, NoOwner},
           row.owner # NoOwner => row.state \in ActiveStates,
           row.state \in {"absent", "queued"} => ~Left(t) /\ row.owner = NoOwner,
           Stopping(t) => row.state \in {"canceling"} \cup TerminalStates,
           row.state = "canceling" => StateOf(t) = "canceling",
           row.state = "succeeded" => starts[t] = 1 /\ outcome'[t] = "ok",
           run' \in [Owners -> [Tasks -> Runs]],
           \A q \in Owners : \A u \in Tasks : run'[q][u] \in {run[q][u], Idle},
           UNCHANGED <<phase, listed, spawned, cancels, starts, asked>>
    PROVE  IndInv'
<1>1. /\ tasks' \in [Tasks -> Rows] /\ tasks'[t] = row
      /\ \A u \in Tasks : u # t => tasks'[u] = tasks[u]
  BY PutRow DEF IndInv, TypeOK
<1>2. TypeOK'
  BY <1>1 DEF IndInv, TypeOK
<1>3. ASSUME NEW u \in Tasks PROVE TaskSound(u)'
  <2>1. TaskSound(u)
    BY DEF IndInv
  <2>2. CASE u = t
    BY <1>1, <2>1, <2>2 DEF TaskSound, Left, Stopping, StateOf
  <2>3. CASE u # t
    BY <1>1, <2>1, <2>3 DEF TaskSound, Left, Stopping, StateOf
  <2>. QED
    BY <2>2, <2>3
<1>4. ASSUME NEW u \in Tasks
      PROVE  /\ Left(u) => Left(u)'
             /\ Stopping(u) => Stopping(u)'
             /\ tasks'[u].owner \in {tasks[u].owner, NoOwner}
             /\ StateOf(u)' = "canceling" => StateOf(u) = "canceling"
  <2>1. CASE u = t
    BY <1>1, <2>1 DEF Left, Stopping, StateOf
  <2>2. CASE u # t
    BY <1>1, <2>2 DEF Left, Stopping, StateOf
  <2>. QED
    BY <2>1, <2>2
<1>5. ASSUME NEW q \in Owners, NEW u \in Tasks,
             q \in asked'[u], StateOf(u)' = "canceling", run'[q][u].pc = "running", run'[q][u].ctx
      PROVE  u \in cancels'[q]
  <2>1. run'[q][u] = run[q][u]
    BY <1>5 DEF Idle
  <2>. QED
    BY <1>4, <1>5, <2>1 DEF IndInv, RunSound, Sound
<1>. QED
  BY <1>2, <1>3, <1>4, <1>5, StoreStep

\* A goroutine that ends is idle.
LEMMA IdleRun ==
    ASSUME IndInv, NEW p \in Owners, NEW t \in Tasks, SetRun(p, t, Idle)
    PROVE  /\ run' \in [Owners -> [Tasks -> Runs]]
           /\ \A q \in Owners : \A u \in Tasks : run'[q][u] \in {run[q][u], Idle}
<1>1. Idle \in Runs
  BY DEF Idle, Runs, Verdicts, Targets
<1>. QED
  BY <1>1, SetRunEffect DEF IndInv, TypeOK

\* The outcome is stored, overridden by a durable cancel, or refused.
LEMMA SettleStep ==
    ASSUME IndInv, NEW p \in Owners, NEW t \in Tasks, Settle(p, t)
    PROVE  IndInv'
<1>. DEFINE r == run[p][t]
<1>1. /\ r \in Runs /\ RunSound(p, t) /\ r.pc = "settling" /\ SetRun(p, t, Idle)
      /\ UNCHANGED <<phase, listed, spawned, cancels, starts, asked>>
  BY DEF Settle, IndInv, TypeOK, Pc, history
<1>2. /\ run' \in [Owners -> [Tasks -> Runs]]
      /\ \A q \in Owners : \A u \in Tasks : run'[q][u] \in {run[q][u], Idle}
  BY <1>1, IdleRun
<1>3. CASE UNCHANGED storeVars
  <2>1. Put(t, tasks[t]) /\ tasks[t] \in Rows /\ TaskSound(t)
    BY <1>3 DEF Put, storeVars, IndInv, TypeOK
  <2>. QED
    BY <1>1, <1>2, <1>3, <2>1, RowStep DEF storeVars, IndInv, TypeOK, TaskSound, Left, Stopping, StateOf
<1>4. ASSUME NEW target \in TerminalStates, NEW value \in Outcomes,
             Put(t, Row(target, NoOwner)), SetOutcome(t, value),
             target = "succeeded" => r.verdict = "ok" /\ value = "ok"
      PROVE  IndInv'
  <2>1. /\ Row(target, NoOwner) \in Rows /\ Row(target, NoOwner).state = target
        /\ Row(target, NoOwner).owner = NoOwner
    BY RowTyped DEF TaskStates
  <2>2. /\ outcome' \in [Tasks -> Outcomes] /\ outcome'[t] = value
        /\ \A u \in Tasks : u # t => outcome'[u] = outcome[u]
    BY <1>4 DEF SetOutcome, IndInv, TypeOK
  <2>3. target = "succeeded" => starts[t] = 1
    BY <1>1, <1>4 DEF RunSound, Sound
  <2>4. target \notin {"absent", "queued", "canceling"}
    BY DEF TerminalStates
  <2>. QED
    BY <1>1, <1>2, <1>4, <2>1, <2>2, <2>3, <2>4, RowStep
<1>5. r.target \in TerminalStates /\ r.verdict \in Verdicts
      /\ (r.target = "succeeded" => r.verdict = "ok") /\ (r.verdict = "unloaded" => r.target = "failed")
  BY <1>1 DEF RunSound, Sound, Runs
<1>6. CASE r.verdict = "unloaded" /\ Finish(t, ActiveStates, r.target, p) /\ UNCHANGED outcome
  <2>1. outcome[t] \in Outcomes /\ SetOutcome(t, outcome[t])
    BY <1>6 DEF SetOutcome, IndInv, TypeOK
  <2>. QED
    BY <1>4, <1>5, <1>6, <2>1 DEF Finish
<1>7. CASE r.verdict # "unloaded" /\ FinishTool(t, r.target, OutcomeOf(r.verdict), p)
  <2>1. CASE StateOf(t) = "canceling" /\ r.target # "canceled"
    <3>1. Put(t, Row("canceled", NoOwner)) /\ SetOutcome(t, "error")
      BY <1>7, <2>1 DEF FinishTool, Finish
    <3>. QED
      BY <3>1, <1>4 DEF TerminalStates, Outcomes
  <2>2. CASE ~(StateOf(t) = "canceling" /\ r.target # "canceled")
    <3>1. Put(t, Row(r.target, NoOwner)) /\ SetOutcome(t, OutcomeOf(r.verdict))
      BY <1>7, <2>2 DEF FinishTool, Finish
    <3>2. OutcomeOf(r.verdict) \in Outcomes /\ (r.verdict = "ok" => OutcomeOf(r.verdict) = "ok")
      BY <1>5, <1>7 DEF OutcomeOf, Outcomes, Verdicts
    <3>. QED
      BY <1>4, <1>5, <3>1, <3>2
  <2>. QED
    BY <2>1, <2>2
<1>. QED
  BY <1>3, <1>6, <1>7 DEF Settle

--------------------------------------------------------------------------------
(* Leases, contexts and users. *)

\* A lease is renewed or expires.
LEMMA LeaseStep ==
    ASSUME IndInv, NEW t \in Tasks, NEW flag \in BOOLEAN, Put(t, [tasks[t] EXCEPT !.live = flag]),
           UNCHANGED <<outcome, phase, listed, spawned, run, cancels, starts, asked>>
    PROVE  IndInv'
<1>. DEFINE row == [tasks[t] EXCEPT !.live = flag]
<1>1. tasks[t] \in Rows /\ TaskSound(t)
  BY DEF IndInv, TypeOK
<1>2. row \in Rows /\ row.state = tasks[t].state /\ row.owner = tasks[t].owner /\ Put(t, row)
  BY <1>1 DEF Rows
<1>. HIDE DEF row
<1>3. /\ run' \in [Owners -> [Tasks -> Runs]] /\ outcome' \in [Tasks -> Outcomes]
      /\ \A q \in Owners : \A u \in Tasks : run'[q][u] \in {run[q][u], Idle}
  BY DEF IndInv, TypeOK
<1>. QED
  BY <1>1, <1>2, <1>3, RowStep DEF TaskSound, Left, Stopping, StateOf

\* A context that exists is canceled.
LEMMA ContextStep ==
    ASSUME IndInv, NEW p \in Owners, NEW t \in Tasks, HasContext(p, t), CancelContext(p, t),
           UNCHANGED <<tasks, outcome, phase, listed, spawned, starts, asked>>,
           cancels' \in {cancels, [cancels EXCEPT ![p] = @ \ {t}]}
    PROVE  IndInv'
<1>. DEFINE r == [run[p][t] EXCEPT !.ctx = FALSE]
<1>1. run[p][t] \in Runs /\ RunSound(p, t) /\ run[p][t].pc \in {"registered", "running"}
  BY DEF HasContext, Pc, IndInv, TypeOK
<1>2. /\ r \in Runs /\ ~r.ctx /\ r.pc = run[p][t].pc /\ r.verdict = run[p][t].verdict
      /\ r.target = run[p][t].target /\ SetRun(p, t, r)
  BY <1>1 DEF Runs, CancelContext
<1>. HIDE DEF r
<1>3. Sound(p, t, r)
  BY <1>1, <1>2 DEF RunSound, Sound
<1>. QED
  BY <1>1, <1>2, <1>3, RunStep DEF Pc

\* A renewal that fails, and a timeout, cancel the context of the task.
LEMMA HeartbeatStep ==
    ASSUME IndInv, NEW p \in Owners, NEW t \in Tasks, Heartbeat(p, t) \/ Timeout(p, t)
    PROVE  IndInv'
<1>1. CASE Heartbeat(p, t) /\ RenewLease(t, p) /\ UNCHANGED run
  BY <1>1, LeaseStep DEF Heartbeat, RenewLease, history
<1>2. CASE Heartbeat(p, t) /\ CancelContext(p, t) /\ UNCHANGED tasks
  BY <1>2, ContextStep DEF Heartbeat, history
<1>3. CASE Timeout(p, t)
  BY <1>3, ContextStep DEF Timeout, storeVars, history
<1>. QED
  BY <1>1, <1>2, <1>3 DEF Heartbeat

\* A task enters the queue, or leaves it because nobody handles its kind.
LEMMA QueueStep ==
    ASSUME IndInv, NEW p \in Owners, NEW t \in Tasks, Submit(p, t) \/ RejectUnknown(p, t)
    PROVE  IndInv'
<1>1. /\ UNCHANGED <<outcome, phase, listed, spawned, run, cancels, starts, asked>>
      /\ \/ StateOf(t) = "absent" /\ Put(t, Row("queued", NoOwner))
         \/ StateOf(t) = "queued" /\ Put(t, Row("failed", NoOwner))
  BY DEF Submit, CreateTool, Create, RejectUnknown, Finish, Finishable, history
<1>2. /\ run' \in [Owners -> [Tasks -> Runs]] /\ outcome' \in [Tasks -> Outcomes]
      /\ \A q \in Owners : \A u \in Tasks : run'[q][u] \in {run[q][u], Idle}
  BY <1>1 DEF IndInv, TypeOK
<1>3. ~Stopping(t) /\ ~Left(t)
  BY <1>1 DEF Stopping, Left, TerminalStates
<1>4. ASSUME NEW s \in {"queued", "failed"}, Put(t, Row(s, NoOwner)) PROVE IndInv'
  <2>1. Row(s, NoOwner) \in Rows /\ Row(s, NoOwner).state = s /\ Row(s, NoOwner).owner = NoOwner
    BY RowTyped DEF TaskStates, TerminalStates
  <2>. QED
    BY <1>1, <1>2, <1>3, <1>4, <2>1, RowStep
<1>. QED
  BY <1>1, <1>4

\* A cancel ends a queued task and asks a running one to stop.
LEMMA CancelStep ==
    ASSUME IndInv, NEW p \in Owners, NEW t \in Tasks, Cancel(p, t)
    PROVE  IndInv'
<1>1. /\ CancelTool(t) /\ UNCHANGED <<phase, listed, spawned, run, starts>>
      /\ \/ /\ cancels' = [cancels EXCEPT ![p] = @ \cup {t}]
            /\ asked' = IF StateOf(t) \in ActiveStates THEN [asked EXCEPT ![t] = @ \cup {p}] ELSE asked
         \/ UNCHANGED <<cancels, asked>>
  BY DEF Cancel
<1>2. tasks[t] \in Rows /\ TaskSound(t) /\ tasks \in [Tasks -> Rows] /\ outcome \in [Tasks -> Outcomes]
  BY DEF IndInv, TypeOK
<1>3. /\ tasks' \in [Tasks -> Rows] /\ outcome' \in [Tasks -> Outcomes]
      /\ \A u \in Tasks : u # t => tasks'[u] = tasks[u] /\ outcome'[u] = outcome[u]
      /\ \/ /\ tasks[t].state = "queued" /\ tasks'[t].state = "canceled"
            /\ tasks'[t].owner = NoOwner
         \/ /\ tasks[t].state = "running" /\ tasks'[t].state = "canceling"
            /\ tasks'[t].owner = tasks[t].owner
         \/ /\ tasks[t].state \in {"canceling"} \cup TerminalStates
            /\ UNCHANGED <<tasks, outcome>>
  <2>1. CASE Finish(t, {"queued"}, "canceled", NoOwner) /\ SetOutcome(t, "error")
    <3>1. /\ Row("canceled", NoOwner) \in Rows /\ Row("canceled", NoOwner).state = "canceled"
          /\ Row("canceled", NoOwner).owner = NoOwner
      BY RowTyped DEF TaskStates, TerminalStates
    <3>2. /\ tasks' \in [Tasks -> Rows]
          /\ \A u \in Tasks : tasks'[u] = IF u = t THEN Row("canceled", NoOwner) ELSE tasks[u]
      BY <1>2, <2>1, <3>1, PutRow DEF Finish
    <3>3. tasks[t].state = "queued"
      BY <2>1 DEF Finish, Finishable, StateOf
    <3>4. /\ outcome' \in [Tasks -> Outcomes]
          /\ \A u \in Tasks : u # t => outcome'[u] = outcome[u]
      BY <1>2, <2>1 DEF SetOutcome, Outcomes
    <3>. QED
      BY <3>1, <3>2, <3>3, <3>4
  <2>2. CASE Transition(t, {"running"}, "canceling") /\ UNCHANGED outcome
    <3>. DEFINE row == [tasks[t] EXCEPT !.state = "canceling"]
    <3>1. row \in Rows /\ row.state = "canceling" /\ row.owner = tasks[t].owner
      BY <1>2 DEF Rows, TaskStates, ActiveStates
    <3>2. Put(t, row) /\ tasks[t].state = "running"
      BY <2>2 DEF Transition, StateOf
    <3>. HIDE DEF row
    <3>3. /\ tasks' \in [Tasks -> Rows]
          /\ \A u \in Tasks : tasks'[u] = IF u = t THEN row ELSE tasks[u]
      BY <1>2, <3>1, <3>2, PutRow
    <3>. QED
      BY <1>2, <2>2, <3>1, <3>2, <3>3
  <2>3. CASE StateOf(t) \in {"canceling"} \cup TerminalStates /\ UNCHANGED <<tasks, outcome>>
    BY <1>2, <2>3 DEF StateOf
  <2>. QED
    BY <1>1, <2>1, <2>2, <2>3 DEF CancelTool
<1>4. /\ cancels' \in [Owners -> SUBSET Tasks] /\ (t \in cancels'[p] \/ asked' = asked)
      /\ \A q \in Owners : cancels[q] \subseteq cancels'[q]
  <2>1. CASE cancels' = [cancels EXCEPT ![p] = @ \cup {t}]
    BY <2>1 DEF IndInv, TypeOK
  <2>2. CASE UNCHANGED <<cancels, asked>>
    BY <2>2 DEF IndInv, TypeOK
  <2>. QED
    BY <1>1, <2>1, <2>2
<1>5. /\ asked' \in [Tasks -> SUBSET Owners]
      /\ \A u \in Tasks : u # t => asked'[u] = asked[u]
      /\ asked'[t] \in {asked[t], asked[t] \cup {p}}
      /\ StateOf(t) \notin ActiveStates => asked'[t] = asked[t]
  <2>1. CASE StateOf(t) \in ActiveStates /\ asked' = [asked EXCEPT ![t] = @ \cup {p}]
    BY <2>1 DEF IndInv, TypeOK
  <2>2. CASE UNCHANGED asked
    BY <2>2 DEF IndInv, TypeOK
  <2>. QED
    BY <1>1, <2>1, <2>2
<1>6. TypeOK'
  BY <1>1, <1>3, <1>4, <1>5 DEF IndInv, TypeOK
<1>7. ASSUME NEW u \in Tasks PROVE TaskSound(u)'
  <2>1. TaskSound(u)
    BY DEF IndInv
  <2>2. CASE u # t
    BY <1>1, <1>3, <1>5, <2>1, <2>2 DEF TaskSound, Left, Stopping, StateOf
  <2>3. CASE u = t
    BY <1>1, <1>3, <1>5, <2>1, <2>3
       DEF TaskSound, Left, Stopping, StateOf, ActiveStates, TerminalStates
  <2>. QED
    BY <2>2, <2>3
<1>8. ASSUME NEW u \in Tasks
      PROVE  /\ Left(u) => Left(u)'
             /\ Stopping(u) => Stopping(u)'
             /\ tasks'[u].owner \in {tasks[u].owner, NoOwner}
  <2>1. CASE u # t
    BY <1>3, <2>1 DEF Left, Stopping, StateOf
  <2>2. CASE u = t
    BY <1>3, <2>2 DEF Left, Stopping, StateOf, TerminalStates
  <2>. QED
    BY <2>1, <2>2
<1>9. ASSUME NEW q \in Owners, NEW u \in Tasks,
             q \in asked'[u], StateOf(u)' = "canceling", run'[q][u].pc = "running", run'[q][u].ctx
      PROVE  u \in cancels'[q]
  <2>1. CASE q = p /\ u = t /\ asked' # asked
    BY <1>4, <2>1
  <2>2. CASE ~(q = p /\ u = t /\ asked' # asked)
    <3>1. q \in asked[u] /\ run[q][u].pc = "running" /\ run[q][u].ctx /\ RunSound(q, u) /\ TaskSound(u)
      BY <1>1, <1>5, <1>9, <2>2 DEF IndInv
    <3>2. Stopping(u)
      BY <3>1 DEF TaskSound
    <3>3. StateOf(u) = "canceling"
      BY <1>3, <1>9, <3>2 DEF Stopping, StateOf, TerminalStates
    <3>. QED
      BY <1>4, <3>1, <3>3 DEF RunSound, Sound
  <2>. QED
    BY <2>1, <2>2
<1>. QED
  BY <1>1, <1>6, <1>7, <1>8, <1>9, StoreStep

\* A cancel reaches a context that is registered by now.
LEMMA CancelActiveStep ==
    ASSUME IndInv, NEW p \in Owners, NEW t \in Tasks, CancelActive(p, t)
    PROVE  IndInv'
<1>1. /\ UNCHANGED <<tasks, outcome, phase, listed, spawned, starts, asked>>
      /\ cancels' = [cancels EXCEPT ![p] = @ \ {t}]
  BY DEF CancelActive, storeVars, history
<1>2. CASE HasContext(p, t)
  BY <1>1, <1>2, ContextStep DEF CancelActive
<1>3. CASE ~HasContext(p, t)
  <2>1. UNCHANGED run
    BY <1>3 DEF CancelActive
  <2>2. TypeOK'
    BY <1>1, <2>1 DEF IndInv, TypeOK
  <2>3. \A u \in Tasks : TaskSound(u)'
    BY <1>1 DEF IndInv, TaskSound, Left, Stopping, StateOf
  <2>4. ASSUME NEW q \in Owners, NEW u \in Tasks,
               q \in asked'[u], StateOf(u)' = "canceling", run'[q][u].pc = "running", run'[q][u].ctx
        PROVE  u \in cancels'[q]
    <3>1. u \in cancels[q] /\ HasContext(q, u)
      BY <1>1, <2>1, <2>4 DEF IndInv, RunSound, Sound, StateOf, HasContext, Pc
    <3>. QED
      BY <1>1, <1>3, <3>1 DEF IndInv, TypeOK
  <2>. QED
    BY <1>1, <2>1, <2>2, <2>3, <2>4, StoreStep DEF Left, Stopping, StateOf
<1>. QED
  BY <1>2, <1>3

\* Dispatch, and claims that are not made.
LEMMA GoroutineStep ==
    ASSUME IndInv, NEW p \in Owners, NEW t \in Tasks,
           DispatchTask(p, t) \/ SkipTask(p, t) \/ GiveUpClaim(p, t)
    PROVE  IndInv'
<1>1. TypeOK'
  <2>1. CASE DispatchTask(p, t)
    BY <2>1 DEF DispatchTask, IndInv, TypeOK, storeVars, history
  <2>2. CASE SkipTask(p, t)
    BY <2>2 DEF SkipTask, IndInv, TypeOK, storeVars, history
  <2>3. CASE GiveUpClaim(p, t)
    BY <2>3 DEF GiveUpClaim, IndInv, TypeOK, storeVars, history
  <2>. QED
    BY <2>1, <2>2, <2>3
<1>. QED
  BY <1>1, DispatcherStep DEF DispatchTask, SkipTask, GiveUpClaim, storeVars, history

--------------------------------------------------------------------------------
(* The invariant is inductive. *)

\* No rows and no processes satisfy the invariant.
LEMMA IndInvInit == Init => IndInv
<1>. SUFFICES ASSUME Init PROVE IndInv
  OBVIOUS
<1>1. /\ Row("absent", NoOwner) \in Rows /\ Row("absent", NoOwner).state = "absent"
      /\ Row("absent", NoOwner).owner = NoOwner
  BY RowTyped DEF TaskStates
<1>2. Idle \in Runs /\ Idle.pc = "idle" /\ Idle.verdict = "none" /\ Idle.target = "none"
  BY DEF Idle, Runs, Verdicts, Targets
<1>3. TypeOK
  BY <1>1, <1>2 DEF Init, StoreInit, OutcomesInit, TypeOK, Outcomes
<1>4. ASSUME NEW t \in Tasks PROVE TaskSound(t)
  <2>1. tasks[t] = Row("absent", NoOwner) /\ starts[t] = 0 /\ asked[t] = {}
    BY DEF Init, StoreInit
  <2>. QED
    BY <1>1, <2>1 DEF TaskSound, Left, StateOf
<1>5. \A p \in Owners : \A t \in Tasks : RunSound(p, t)
  BY <1>2 DEF Init, RunSound, Sound
<1>. QED
  BY <1>3, <1>4, <1>5 DEF IndInv

\* Every step of every process keeps the invariant.
LEMMA IndInvNext == IndInv /\ [Next]_vars => IndInv'
<1>. SUFFICES ASSUME IndInv, [Next]_vars PROVE IndInv'
  OBVIOUS
<1>1. ASSUME NEW p \in Owners, Process(p) PROVE IndInv'
  <2>1. CASE \/ Start(p) \/ Recover(p) \/ Shutdown(p) \/ Stopped(p) \/ Abandon(p) \/ Crash(p)
             \/ List(p) \/ StopDispatch(p)
    BY <2>1, ProcessStep
  <2>2. ASSUME NEW t \in Tasks, Worker(p, t) PROVE IndInv'
    BY <2>2, ClaimStep, GoroutineStep, RegisterStep, LoadFailsStep, RereadStep,
       HandlerReturnsStep, DecideStep, BeginSettleStep, SettleStep DEF Worker
  <2>3. ASSUME NEW t \in Tasks, RejectUnknown(p, t) \/ DispatchTask(p, t) \/ SkipTask(p, t)
                                \/ Heartbeat(p, t) \/ Timeout(p, t)
                                \/ Submit(p, t) \/ Cancel(p, t) \/ CancelActive(p, t)
        PROVE  IndInv'
    BY <2>3, QueueStep, GoroutineStep, HeartbeatStep, CancelStep, CancelActiveStep
  <2>. QED
    BY <1>1, <2>1, <2>2, <2>3 DEF Process
<1>2. ASSUME NEW t \in Tasks, LeaseExpires(t) PROVE IndInv'
  BY <1>2, LeaseStep DEF LeaseExpires, Expire, history
<1>3. CASE UNCHANGED vars
  BY <1>3 DEF vars, IndInv, TypeOK, TaskSound, RunSound, Sound, Alone, Left, Stopping, StateOf, Pc
<1>. QED
  BY <1>1, <1>2, <1>3 DEF Next, AllGone

\* Every reachable state satisfies the inductive invariant.
THEOREM Invariance == Spec => []IndInv
BY IndInvInit, IndInvNext, PTL DEF Spec

\* However processes interleave, crash and restart, the variables keep their types.
THEOREM TypeCorrect == Spec => []TypeOK
<1>1. IndInv => TypeOK
  BY DEF IndInv
<1>. QED
  BY <1>1, Invariance, PTL

\* No task's handler is started twice, by whichever processes: not after a double
\* dispatch, a crash, an expired lease or its recovery.
THEOREM RunsAtMostOnce == Spec => []AtMostOnce
<1>1. IndInv => AtMostOnce
  BY DEF IndInv, TaskSound, AtMostOnce
<1>. QED
  BY <1>1, Invariance, PTL

\* At most one process is between claim and settlement of a task, and no other
\* process holds its lease.
THEOREM ExclusiveWorker == Spec => []OneWorkerPerTask
<1>1. IndInv => OneWorkerPerTask
  BY DEF IndInv, RunSound, Sound, Alone, Pc, OneWorkerPerTask
<1>. QED
  BY <1>1, Invariance, PTL

\* A task recorded as succeeded was run once and carries the handler's result.
THEOREM SuccessHasResult == Spec => []SuccessMeansResult
<1>1. IndInv => SuccessMeansResult
  BY DEF IndInv, TaskSound, SuccessMeansResult
<1>. QED
  BY <1>1, Invariance, PTL

\* Whether the cancel comes before or after the run is registered, a cancel made in
\* the process that runs the task reaches the handler's context.
THEOREM CancelReaches == Spec => []CancelReachesHandler
<1>1. IndInv => CancelReachesHandler
  <2>. SUFFICES ASSUME IndInv, NEW t \in Tasks, NEW p \in asked[t],
                       StateOf(t) = "canceling", Pc(p, t) = "running", run[p][t].ctx
                PROVE  t \in cancels[p]
    BY DEF CancelReachesHandler
  <2>1. p \in Owners
    BY DEF IndInv, TypeOK
  <2>. QED
    BY <2>1 DEF IndInv, RunSound, Sound, Pc
<1>. QED
  BY <1>1, Invariance, PTL

--------------------------------------------------------------------------------
(* The runtime implements TaskLifecycle. *)

Seen == [t \in Tasks |-> StateOf(t)]

\* Replacing a row moves its task.
LEMMA PutMoves ==
    ASSUME IndInv, NEW t \in Tasks, NEW row \in Rows, Put(t, row)
    PROVE  Lifecycle!Move(t, StateOf(t), row.state)
<1>1. \A u \in Tasks : tasks'[u] = IF u = t THEN row ELSE tasks[u]
  BY PutRow DEF IndInv, TypeOK
<1>. QED
  BY <1>1 DEF Lifecycle!Move, StateOf

\* A row that is written moves its task in the abstract lifecycle.
LEMMA RowMoves ==
    ASSUME IndInv, NEW t \in Tasks, NEW s \in TaskStates, NEW o \in Owners \cup {NoOwner},
           Put(t, Row(s, o))
    PROVE  Lifecycle!Move(t, StateOf(t), s)
<1>1. Row(s, o) \in Rows /\ Row(s, o).state = s
  BY RowTyped
<1>2. Lifecycle!Move(t, StateOf(t), Row(s, o).state)
  BY <1>1, PutMoves
<1>. QED
  BY <1>1, <1>2

\* Recovery is GiveUp of the abstract lifecycle.
LEMMA RecoverMaps ==
    ASSUME IndInv, RecoverTools
    PROVE  Lifecycle!GiveUp
<1>1. \A u \in Tasks : tasks'[u] = IF Expired(u) THEN Row("interrupted", NoOwner) ELSE tasks[u]
  BY DEF RecoverTools
<1>2. Row("interrupted", NoOwner).state = "interrupted"
  BY RowTyped DEF TaskStates, TerminalStates
<1>. DEFINE lost == {u \in Tasks : Expired(u)}
<1>3. lost \in SUBSET {u \in Tasks : Seen[u] \in {"running", "canceling"}}
  BY DEF Seen, Expired, ActiveStates
<1>4. Seen' = [u \in Tasks |-> IF u \in lost THEN "interrupted" ELSE Seen[u]]
  BY <1>1, <1>2 DEF Seen, StateOf
<1>. HIDE DEF lost
<1>. QED
  BY <1>3, <1>4 DEF Lifecycle!GiveUp, Seen

\* Leases are not seen by a reader of the table.
LEMMA LeaseMaps ==
    ASSUME IndInv, NEW t \in Tasks, NEW flag \in BOOLEAN, Put(t, [tasks[t] EXCEPT !.live = flag])
    PROVE  Seen' = Seen
<1>. DEFINE row == [tasks[t] EXCEPT !.live = flag]
<1>1. tasks[t] \in Rows
  BY DEF IndInv, TypeOK
<1>2. row \in Rows /\ row.state = tasks[t].state /\ Put(t, row)
  BY <1>1 DEF Rows
<1>. HIDE DEF row
<1>3. \A u \in Tasks : tasks'[u] = IF u = t THEN row ELSE tasks[u]
  BY <1>2, PutRow DEF IndInv, TypeOK
<1>. QED
  BY <1>2, <1>3 DEF Seen, StateOf

\* A settlement ends the abstract task or is refused.
LEMMA SettleMaps ==
    ASSUME IndInv, NEW p \in Owners, NEW t \in Tasks, Settle(p, t)
    PROVE  Lifecycle!End(t) \/ Seen' = Seen
<1>. DEFINE r == run[p][t]
<1>1. /\ r.target \in TerminalStates /\ (r.verdict = "unloaded" => r.target = "failed")
      /\ (r.target = "canceled" => Stopping(t))
  BY DEF Settle, IndInv, RunSound, Sound, Pc
<1>2. CASE UNCHANGED storeVars
  BY <1>2 DEF storeVars, Seen, StateOf
<1>3. ASSUME NEW s \in TerminalStates, StateOf(t) \in ActiveStates, Put(t, Row(s, NoOwner)),
             StateOf(t) = "running" => s # "canceled", StateOf(t) = "canceling" => s # "succeeded"
      PROVE  Lifecycle!End(t)
  <2>1. Lifecycle!Move(t, StateOf(t), s)
    BY <1>3, RowMoves DEF TaskStates
  <2>. QED
    BY <1>3, <2>1 DEF Lifecycle!End, ActiveStates, TerminalStates
<1>4. CASE r.verdict = "unloaded" /\ Finish(t, ActiveStates, r.target, p)
  <2>1. StateOf(t) \in ActiveStates /\ Put(t, Row("failed", NoOwner))
    BY <1>1, <1>4 DEF Finish, Finishable
  <2>. QED
    BY <1>3, <2>1 DEF TerminalStates
<1>5. CASE FinishTool(t, r.target, OutcomeOf(r.verdict), p)
  <2>. DEFINE s == IF StateOf(t) = "canceling" /\ r.target # "canceled" THEN "canceled" ELSE r.target
  <2>1. StateOf(t) \in ActiveStates /\ Put(t, Row(s, NoOwner))
    BY <1>5 DEF FinishTool, Finish, Finishable
  <2>2. /\ s \in TerminalStates /\ (StateOf(t) = "running" => s # "canceled")
        /\ (StateOf(t) = "canceling" => s # "succeeded")
    BY <1>1 DEF TerminalStates, Stopping
  <2>. HIDE DEF s
  <2>. QED
    BY <1>3, <2>1, <2>2
<1>. QED
  BY <1>2, <1>4, <1>5 DEF Settle

\* A cancel refuses a queued task, asks a running one, or finds it ended.
LEMMA CancelMaps ==
    ASSUME IndInv, NEW p \in Owners, NEW t \in Tasks, Cancel(p, t)
    PROVE  Lifecycle!Refuse(t) \/ Lifecycle!AskToStop(t) \/ Seen' = Seen
<1>1. CASE Finish(t, {"queued"}, "canceled", NoOwner)
  <2>1. StateOf(t) = "queued" /\ Put(t, Row("canceled", NoOwner))
    BY <1>1 DEF Finish, Finishable
  <2>2. Lifecycle!Move(t, "queued", "canceled")
    BY <2>1, RowMoves DEF TaskStates, TerminalStates
  <2>. QED
    BY <2>2 DEF Lifecycle!Refuse
<1>2. CASE Transition(t, {"running"}, "canceling")
  <2>. DEFINE row == [tasks[t] EXCEPT !.state = "canceling"]
  <2>1. tasks[t] \in Rows
    BY DEF IndInv, TypeOK
  <2>2. row \in Rows /\ row.state = "canceling" /\ Put(t, row) /\ StateOf(t) = "running"
    BY <1>2, <2>1 DEF Transition, Rows, TaskStates, ActiveStates
  <2>. HIDE DEF row
  <2>3. Lifecycle!Move(t, StateOf(t), row.state)
    BY <2>2, PutMoves
  <2>. QED
    BY <2>2, <2>3 DEF Lifecycle!AskToStop
<1>3. CASE UNCHANGED <<tasks, outcome>>
  BY <1>3 DEF Seen, StateOf
<1>. QED
  BY <1>1, <1>2, <1>3 DEF Cancel, CancelTool

\* Submission, rejection and claim are steps of the abstract queue.
LEMMA QueueMaps ==
    ASSUME IndInv, NEW p \in Owners, NEW t \in Tasks,
           Submit(p, t) \/ RejectUnknown(p, t) \/ Claim(p, t)
    PROVE  Lifecycle!Accept(t) \/ Lifecycle!Refuse(t) \/ Lifecycle!Begin(t)
<1>1. CASE Submit(p, t)
  <2>1. StateOf(t) = "absent" /\ Put(t, Row("queued", NoOwner))
    BY <1>1 DEF Submit, CreateTool, Create
  <2>2. Lifecycle!Move(t, "absent", "queued")
    BY <2>1, RowMoves DEF TaskStates
  <2>. QED
    BY <2>2 DEF Lifecycle!Accept
<1>2. CASE RejectUnknown(p, t)
  <2>1. StateOf(t) = "queued" /\ Put(t, Row("failed", NoOwner))
    BY <1>2 DEF RejectUnknown, Finish, Finishable
  <2>2. Lifecycle!Move(t, "queued", "failed")
    BY <2>1, RowMoves DEF TaskStates, TerminalStates
  <2>. QED
    BY <2>2 DEF Lifecycle!Refuse
<1>3. CASE Claim(p, t)
  <2>1. StateOf(t) = "queued" /\ Put(t, Row("running", p))
    BY <1>3 DEF Claim, ClaimQueued
  <2>2. Lifecycle!Move(t, "queued", "running")
    BY <2>1, RowMoves DEF TaskStates, ActiveStates
  <2>. QED
    BY <2>2 DEF Lifecycle!Begin
<1>. QED
  BY <1>1, <1>2, <1>3

\* Every step is an abstract one or a stutter.
LEMMA NextMaps ==
    ASSUME IndInv, [Next]_vars
    PROVE  Lifecycle!Next \/ Seen' = Seen
<1>1. ASSUME NEW p \in Owners, Process(p) PROVE Lifecycle!Next \/ Seen' = Seen
  <2>1. ASSUME UNCHANGED tasks PROVE Seen' = Seen
    BY <2>1 DEF Seen, StateOf
  <2>2. CASE Start(p) \/ Recover(p)
    BY <2>1, <2>2, RecoverMaps DEF Start, Recover, storeVars, Lifecycle!Next
  <2>3. CASE Shutdown(p) \/ Stopped(p) \/ Abandon(p) \/ Crash(p) \/ List(p) \/ StopDispatch(p)
    BY <2>1, <2>3 DEF Shutdown, Stopped, Abandon, Crash, List, StopDispatch, storeVars
  <2>4. ASSUME NEW t \in Tasks,
               \/ DispatchTask(p, t) \/ SkipTask(p, t) \/ GiveUpClaim(p, t) \/ Register(p, t)
               \/ LoadFails(p, t) \/ Reread(p, t) \/ HandlerReturns(p, t) \/ Decide(p, t)
               \/ BeginSettle(p, t) \/ Timeout(p, t) \/ CancelActive(p, t)
        PROVE  Seen' = Seen
    <3>1. UNCHANGED tasks
      BY <2>4 DEF DispatchTask, SkipTask, GiveUpClaim, Register, LoadFails, Reread, HandlerReturns,
                  Decide, BeginSettle, Timeout, CancelActive, storeVars
    <3>. QED
      BY <2>1, <3>1
  <2>5. ASSUME NEW t \in Tasks, Heartbeat(p, t) PROVE Seen' = Seen
    BY <2>1, <2>5, LeaseMaps DEF Heartbeat, RenewLease
  <2>6. ASSUME NEW t \in Tasks,
               Submit(p, t) \/ RejectUnknown(p, t) \/ Claim(p, t) \/ Settle(p, t) \/ Cancel(p, t)
        PROVE  Lifecycle!Next \/ Seen' = Seen
    BY <2>6, QueueMaps, SettleMaps, CancelMaps DEF Lifecycle!Next
  <2>. QED
    BY <1>1, <2>2, <2>3, <2>4, <2>5, <2>6 DEF Process, Worker
<1>2. ASSUME NEW t \in Tasks, LeaseExpires(t) PROVE Seen' = Seen
  BY <1>2, LeaseMaps DEF LeaseExpires, Expire
<1>3. CASE UNCHANGED vars
  BY <1>3 DEF vars, Seen, StateOf
<1>. QED
  BY <1>1, <1>2, <1>3 DEF Next, AllGone

\* Seen from the states of its rows, the table written by any number of racing,
\* crashing and recovering processes keeps the promises of TaskLifecycle.
THEOREM Implements == Spec => ImplementsLifecycle
<1>1. Init => Lifecycle!Init
  <2>. SUFFICES ASSUME Init PROVE Lifecycle!Init
    OBVIOUS
  <2>1. Row("absent", NoOwner).state = "absent"
    BY RowTyped DEF TaskStates
  <2>. QED
    BY <2>1 DEF Init, StoreInit, Lifecycle!Init, StateOf
<1>2. IndInv /\ [Next]_vars => [Lifecycle!Next]_Seen
  BY NextMaps
<1>. QED
  BY <1>1, <1>2, Invariance, PTL DEF Spec, ImplementsLifecycle, Lifecycle!Spec, Seen

\* One process works on a task at a time and a success carries the handler's result,
\* whatever store calls fail and whichever leases run out.
THEOREM RunsAreSound == Spec => []RunsSound
<1>1. TypeOK /\ OneWorkerPerTask /\ SuccessMeansResult => RunsSound
  BY DEF RunsSound
<1>. QED
  BY <1>1, TypeCorrect, ExclusiveWorker, SuccessHasResult, PTL
================================================================================
