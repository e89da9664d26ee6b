--------------------------- MODULE ToolBatchProofs -----------------------------
(***************************************************************************)
(* Proofs about a turn's batch of tool calls: overlapping mutations exclude    *)
(* each other, a returned batch blocks nobody, calls that reserve at admission *)
(* mutate in source order, and a detach is final.                             *)
(***************************************************************************)
EXTENDS ToolBatch, FileMutationLocksProofs

Wanted(c) == canonicalMutationPath(input[c].path)

TaskRuns(c) == task[c] \in {"running", "canceling"}

\* Where a call, its attachment and its task can be together.
CallOK(c) ==
    /\ pc[c] = "idle" <=> c > admitted
    /\ pc[c] \notin {"idle", "completed", "finalized"} => Ready(c)
    /\ pc[c] \in {"idle", "spawned", "executing", "waiting", "mutating"} => task[c] = "none"
    /\ (pc[c] \in {"attaching", "attached"} \/ task[c] # "none") => input[c].managed
    /\ attachment[c] # "none" => pc[c] \in {"attached", "completed", "finalized"}
    /\ task[c] \in {"canceling", "canceled"} => attachment[c] = "canceled"

\* The call cannot be where it is without its reservation.
NeedsReservation(c) ==
    \/ pc[c] = "waiting"
    \/ /\ input[c].path # NoPath
       /\ \/ pc[c] = "mutating"
          \/ input[c].reserves /\ pc[c] \in {"spawned", "executing"}

\* What the queue knows of a call and of its task.
ReservationOK(c) ==
    /\ InQueue(OfTask(c)) <=> TaskRuns(c) /\ input[c].path # NoPath
    /\ InQueue(OfTask(c)) => path[OfTask(c)] = Wanted(c) /\ OfTask(c) \in ready
    /\ InQueue(OfCall(c)) =>
         /\ input[c].path # NoPath /\ path[OfCall(c)] = Wanted(c)
         /\ pc[c] # "idle"
         /\ input[c].reserves \/ pc[c] \in {"waiting", "mutating"}
    /\ NeedsReservation(c) => InQueue(OfCall(c))
    /\ (pc[c] = "mutating" /\ input[c].path # NoPath) => OfCall(c) \in ready

\* Only calls of the batch and their tasks are in the queue.
QueueOwned ==
    \A i \in DOMAIN reservations :
        \E c \in Calls : reservations[i] \in {OfCall(c), OfTask(c)}

\* A returned batch is over and has given everything back.
ReturnedOK ==
    returned => /\ admitted = Len(input)
                /\ \A c \in Calls : pc[c] = "finalized" /\ ~InQueue(OfCall(c))

InProcess == \A c \in Calls : input[c].reserves /\ ~input[c].managed

\* Calls that reserve at admission queue up in source order.
QueueInSourceOrder ==
    InProcess => \A i, j \in DOMAIN reservations :
                     i < j => reservations[i][1] < reservations[j][1]

IInv ==
    /\ TypeOK
    /\ QueueInv
    /\ \A c \in Calls : CallOK(c)
    /\ \A c \in Calls : ReservationOK(c)
    /\ QueueOwned
    /\ ReturnedOK
    /\ QueueInSourceOrder

--------------------------------------------------------------------------------
\* Calls and tasks of a batch are distinct holders.
LEMMA HolderOf ==
  ASSUME TypeOK, NEW c \in Calls
  PROVE  OfCall(c) \in Holders /\ OfTask(c) \in Holders /\ OfCall(c) # OfTask(c)
BY BatchAssumption DEF TypeOK, Calls, OfCall, OfTask

\* The calls of a batch are numbered and typed.
LEMMA InputType ==
  ASSUME TypeOK
  PROVE  /\ Len(input) \in Nat /\ Calls = 1..Len(input) /\ admitted \in 0..Len(input)
         /\ \A c \in Calls : input[c].path # NoPath =>
                /\ input[c].path \in AbsolutePaths
                /\ Wanted(c) \in AbsolutePaths
<1> DEFINE PreparedCall == [ready : BOOLEAN, path : AbsolutePaths \cup {NoPath},
                            reserves : BOOLEAN, managed : BOOLEAN, sequential : BOOLEAN]
<1>1. input \in Seq(PreparedCall)
  BY BatchAssumption DEF TypeOK
<1>2. \A c \in Calls : input[c] \in PreparedCall
  BY <1>1, ElementOfSeq, LenProperties DEF Calls
<1>3. \A c \in Calls : input[c].path # NoPath => input[c].path \in AbsolutePaths
  BY <1>2
<1>4. Len(input) \in Nat /\ Calls = 1..Len(input)
  <2> HIDE DEF PreparedCall
  <2> QED
    BY <1>1, LenProperties DEF Calls
<1>5. admitted \in 0..Len(input)
  BY DEF TypeOK
<1> QED
  BY <1>3, <1>4, <1>5, CanonicalType DEF Wanted

\* The step changes at most the place of h in the queue.
OnlyMoves(h) ==
    \A d \in Holders : d # h => /\ InQueue(d)' <=> InQueue(d)
                                /\ path'[d] = path[d]
                                /\ d \in ready => d \in ready'

\* A step that leaves the queue alone moves nobody.
LEMMA StillStep ==
  ASSUME QueueInv, UNCHANGED lockVars
  PROVE  /\ QueueInv'
         /\ \A d : (InQueue(d)' <=> InQueue(d)) /\ path'[d] = path[d]
                   /\ (d \in ready <=> d \in ready')
         /\ OrderKept
BY DEF QueueInv, lockVars, InQueue, ReadyIffUnblocked, BlockedAt, OrderKept

\* A release moves only the holder that leaves.
LEMMA ReleaseStep ==
  ASSUME QueueInv, NEW h \in Holders, remove(h)
  PROVE  /\ QueueInv' /\ OnlyMoves(h) /\ OrderKept
         /\ ~InQueue(h)' /\ path' = path
BY RemoveStep DEF OnlyMoves

\* A reservation moves only the holder that joins.
LEMMA JoinStep ==
  ASSUME QueueInv, NEW h \in Holders, ~InQueue(h), NEW wanted \in AbsolutePaths,
         reserve(h, wanted)
  PROVE  /\ QueueInv' /\ OnlyMoves(h)
         /\ InQueue(h)' /\ path'[h] = wanted
         /\ ~Blocked(reservations, path, wanted) => h \in ready'
<1>1. QueueInv' /\ \A d \in Holders : InQueue(d)' <=> InQueue(d) \/ d = h
  BY ReserveStep
<1>2. ready \subseteq ready' \cup {h}
  BY ReserveStep
<1>3. path'[h] = wanted /\ \A d \in Holders : d # h => path'[d] = path[d]
  BY DEF reserve, QueueInv
<1>4. ~Blocked(reservations, path, wanted) => h \in ready'
  BY DEF reserve
<1> QED
  BY <1>1, <1>2, <1>3, <1>4 DEF OnlyMoves

\* What a step of another call leaves as it was.
LEMMA OthersKept ==
  ASSUME TypeOK, NEW c \in Calls, NEW d \in Calls, c # d,
         OnlyMoves(OfCall(c)) \/ OnlyMoves(OfTask(c)),
         input' = input, pc'[d] = pc[d], task'[d] = task[d], ReservationOK(d)
  PROVE  ReservationOK(d)'
<1>1. /\ OfCall(d) \in Holders /\ OfTask(d) \in Holders
      /\ OfCall(d) \notin {OfCall(c), OfTask(c)} /\ OfTask(d) \notin {OfCall(c), OfTask(c)}
  BY HolderOf DEF OfCall, OfTask
<1>2. /\ InQueue(OfCall(d))' <=> InQueue(OfCall(d))
      /\ InQueue(OfTask(d))' <=> InQueue(OfTask(d))
      /\ path'[OfCall(d)] = path[OfCall(d)] /\ path'[OfTask(d)] = path[OfTask(d)]
      /\ OfCall(d) \in ready => OfCall(d) \in ready'
      /\ OfTask(d) \in ready => OfTask(d) \in ready'
  BY <1>1 DEF OnlyMoves, InQueue, OfCall, OfTask
<1> QED
  BY <1>2 DEF ReservationOK, NeedsReservation, TaskRuns, Wanted, OfCall, OfTask

\* A step that leaves the queue alone, or takes one holder out of it, keeps the
\* invariant when it keeps it for its own call.
LEMMA LeaveStep ==
  ASSUME IInv, TypeOK', NEW c \in Calls, NEW h \in {OfCall(c), OfTask(c)},
         UNCHANGED lockVars \/ remove(h),
         input' = input, admitted' = admitted, returned' = returned,
         returned => pc' = pc,
         \A d \in Calls : d # c => /\ pc'[d] = pc[d] /\ task'[d] = task[d]
                                   /\ attachment'[d] = attachment[d],
         CallOK(c)', ReservationOK(c)'
  PROVE  IInv'
<1> USE DEF IInv
<1>1. h \in Holders
  BY HolderOf
<1>2. /\ QueueInv' /\ OnlyMoves(h) /\ OrderKept
      /\ \A d \in Holders : InQueue(d)' => InQueue(d)
  <2>1. CASE UNCHANGED lockVars
    BY <2>1, StillStep DEF OnlyMoves
  <2>2. CASE remove(h)
    BY <2>2, <1>1, ReleaseStep DEF OnlyMoves
  <2> QED
    BY <2>1, <2>2
<1>3. Calls' = Calls
  BY DEF Calls
<1>4. \A d \in Calls : CallOK(d)'
  <2> SUFFICES ASSUME NEW d \in Calls, d # c
               PROVE  CallOK(d)'
    OBVIOUS
  <2> QED
    BY DEF CallOK, Ready
<1>5. \A d \in Calls : ReservationOK(d)'
  <2> SUFFICES ASSUME NEW d \in Calls, d # c
               PROVE  ReservationOK(d)'
    OBVIOUS
  <2>1. OnlyMoves(OfCall(c)) \/ OnlyMoves(OfTask(c))
    BY <1>2
  <2> QED
    BY <2>1, OthersKept
<1>6. \A i \in DOMAIN reservations' : \E j \in DOMAIN reservations :
          reservations[j] = reservations'[i]
  <2> TAKE i \in DOMAIN reservations'
  <2>1. reservations'[i] \in Holders
    BY <1>2, ElementOfSeq, LenProperties DEF QueueInv
  <2>2. \A d \in Holders : (\E k \in DOMAIN reservations' : reservations'[k] = d)
                              => \E j \in DOMAIN reservations : reservations[j] = d
    BY <1>2 DEF InQueue
  <2> QED
    BY <2>1, <2>2
<1>7. QueueOwned'
  BY <1>3, <1>6 DEF QueueOwned, OfCall, OfTask
<1>8. ReturnedOK'
  <2>1. \A d \in Calls : InQueue(OfCall(d))' => InQueue(OfCall(d))
    BY <1>2, HolderOf DEF InQueue, OfCall
  <2> QED
    BY <1>3, <2>1 DEF ReturnedOK
<1>9. QueueInSourceOrder'
  <2>1. InProcess' => InProcess
    BY <1>3 DEF InProcess
  <2> QED
    BY <1>2, <2>1 DEF QueueInSourceOrder, OrderKept
<1> QED
  BY <1>2, <1>3, <1>4, <1>5, <1>7, <1>8, <1>9

\* What a call's own holders see of a step that leaves the queue alone.
LEMMA OwnKept ==
  ASSUME TypeOK, QueueInv, NEW c \in Calls, UNCHANGED lockVars
  PROVE  /\ InQueue(OfCall(c))' <=> InQueue(OfCall(c))
         /\ InQueue(OfTask(c))' <=> InQueue(OfTask(c))
         /\ path' = path /\ ready' = ready
BY DEF lockVars, InQueue, OfCall, OfTask

\* What they see of the call's release.
LEMMA OwnCallReleased ==
  ASSUME TypeOK, QueueInv, NEW c \in Calls, remove(OfCall(c))
  PROVE  /\ ~InQueue(OfCall(c))'
         /\ InQueue(OfTask(c))' <=> InQueue(OfTask(c))
         /\ path' = path /\ (OfTask(c) \in ready => OfTask(c) \in ready')
<1>1. OfCall(c) \in Holders /\ OfTask(c) \in Holders /\ OfCall(c) # OfTask(c)
  BY HolderOf
<1>2. OnlyMoves(OfCall(c)) /\ ~InQueue(OfCall(c))' /\ path' = path
  BY <1>1, ReleaseStep DEF InQueue, OfCall
<1> QED
  BY <1>1, <1>2 DEF OnlyMoves, InQueue, OfTask

\* What they see of the task's release.
LEMMA OwnTaskReleased ==
  ASSUME TypeOK, QueueInv, NEW c \in Calls, remove(OfTask(c))
  PROVE  /\ ~InQueue(OfTask(c))'
         /\ InQueue(OfCall(c))' <=> InQueue(OfCall(c))
         /\ path' = path /\ (OfCall(c) \in ready => OfCall(c) \in ready')
<1>1. OfCall(c) \in Holders /\ OfTask(c) \in Holders /\ OfCall(c) # OfTask(c)
  BY HolderOf
<1>2. OnlyMoves(OfTask(c)) /\ ~InQueue(OfTask(c))' /\ path' = path
  BY <1>1, ReleaseStep DEF InQueue, OfTask
<1> QED
  BY <1>1, <1>2 DEF OnlyMoves, InQueue, OfCall
--------------------------------------------------------------------------------
\* What a step of a call may not touch.
OwnStep(c) ==
    /\ input' = input /\ admitted' = admitted /\ returned' = returned
    /\ returned => pc' = pc
    /\ \A d \in Calls : d # c => /\ pc'[d] = pc[d] /\ task'[d] = task[d]
                                 /\ attachment'[d] = attachment[d]

\* The steps of a call that leave the queue alone keep the invariant.
LEMMA StillCallKeeps ==
  ASSUME IInv, NEW c \in Calls,
         \/ Finalize(c) \/ TakeSlot(c) \/ GiveUpSlot(c) \/ StartTask(c)
         \/ WaiterCompletes(c) \/ WaiterFails(c) \/ Detach(c) \/ CancelAttachment(c)
         \/ ResolveForeground(c) \/ Proceed(c)
         \/ /\ ExecuteForeground(c) /\ UNCHANGED lockVars
            /\ input[c].path = NoPath \/ (~ctxDone /\ input[c].reserves)
  PROVE  IInv'
<1>1. CallOK(c) /\ ReservationOK(c) /\ TypeOK /\ QueueInv /\ ReturnedOK
  BY DEF IInv
<1>2. UNCHANGED lockVars
  BY DEF Finalize, TakeSlot, GiveUpSlot, StartTask, WaiterCompletes, WaiterFails, Detach,
         CancelAttachment, ResolveForeground, Proceed
<1>3. /\ InQueue(OfCall(c))' <=> InQueue(OfCall(c))
      /\ InQueue(OfTask(c))' <=> InQueue(OfTask(c))
      /\ path' = path /\ ready' = ready /\ reservations' = reservations
  BY <1>1, <1>2, OwnKept DEF lockVars
<1>4. ASSUME ExecuteForeground(c), input[c].path = NoPath \/ (~ctxDone /\ input[c].reserves)
      PROVE  /\ pc[c] = "executing"
             /\ \/ input[c].path = NoPath /\ pc' = [pc EXCEPT ![c] = "mutating"]
                \/ /\ input[c].path # NoPath /\ input[c].reserves
                   /\ pc' = [pc EXCEPT ![c] = "waiting"]
             /\ result' = result
             /\ UNCHANGED <<input, admitted, attachment, task, returned, ctxDone>>
  <2>1. CASE input[c].path = NoPath
    BY <1>4, <2>1 DEF ExecuteForeground
  <2>2. CASE input[c].path # NoPath /\ ~ctxDone /\ input[c].reserves
    BY <1>4, <2>2 DEF ExecuteForeground
  <2> QED
    BY <1>4, <2>1, <2>2
<1>5. TypeOK' /\ CallOK(c)' /\ ReservationOK(c)' /\ OwnStep(c)
  <2> USE <1>1, <1>3
      DEF TypeOK, Calls, Executing, Ended, CallOK, ReservationOK, NeedsReservation, TaskRuns,
          Wanted, Ready, OfCall, OfTask, OwnStep, ReturnedOK
  <2>1. CASE Finalize(c)
    BY <2>1 DEF Finalize
  <2>2. CASE TakeSlot(c)
    BY <2>2 DEF TakeSlot
  <2>3. CASE GiveUpSlot(c)
    BY <2>3 DEF GiveUpSlot
  <2>4. CASE StartTask(c)
    BY <2>4 DEF StartTask
  <2>5. CASE WaiterCompletes(c)
    BY <2>5 DEF WaiterCompletes
  <2>6. CASE WaiterFails(c)
    BY <2>6 DEF WaiterFails
  <2>7. CASE Detach(c)
    BY <2>7 DEF Detach
  <2>8. CASE CancelAttachment(c)
    BY <2>8 DEF CancelAttachment
  <2>9. CASE ResolveForeground(c)
    BY <2>9 DEF ResolveForeground, CancelTask
  <2>10. CASE Proceed(c)
    BY <2>10 DEF Proceed
  <2>11. CASE /\ ExecuteForeground(c) /\ UNCHANGED lockVars
              /\ input[c].path = NoPath \/ (~ctxDone /\ input[c].reserves)
    <3>1. /\ pc[c] = "executing" /\ task[c] = "none" /\ result' = result
          /\ UNCHANGED <<input, admitted, attachment, task, returned, ctxDone>>
      BY <2>11, <1>4
    <3>2. CASE input[c].path = NoPath /\ pc' = [pc EXCEPT ![c] = "mutating"]
      BY <3>1, <3>2
    <3>3. CASE /\ input[c].path # NoPath /\ input[c].reserves
               /\ pc' = [pc EXCEPT ![c] = "waiting"]
      BY <3>1, <3>3
    <3> QED
      BY <2>11, <1>4, <3>2, <3>3
  <2> QED
    BY <2>1, <2>2, <2>3, <2>4, <2>5, <2>6, <2>7, <2>8, <2>9, <2>10, <2>11
<1> QED
  BY <1>1, <1>2, <1>5, LeaveStep DEF OwnStep

\* The steps of a call that give its reservation back keep the invariant.
LEMMA ReleaseCallKeeps ==
  ASSUME IInv, NEW c \in Calls, remove(OfCall(c)),
         \/ Attach(c) \/ Abort(c) \/ ToolReturns(c) \/ ReleaseRemaining(c)
         \/ ExecuteForeground(c) /\ input[c].path # NoPath /\ ctxDone
  PROVE  IInv'
<1>1. CallOK(c) /\ ReservationOK(c) /\ TypeOK /\ QueueInv /\ ReturnedOK
  BY DEF IInv
<1>2. /\ ~InQueue(OfCall(c))'
      /\ InQueue(OfTask(c))' <=> InQueue(OfTask(c))
      /\ path' = path /\ (OfTask(c) \in ready => OfTask(c) \in ready')
  BY <1>1, OwnCallReleased
<1>3. reservations' \in Seq(Holders) /\ ready' \subseteq Holders
  BY <1>1, HolderOf, ReleaseStep DEF QueueInv
<1>4. TypeOK' /\ CallOK(c)' /\ ReservationOK(c)' /\ OwnStep(c)
  <2> USE <1>1, <1>2, <1>3
      DEF TypeOK, Calls, Executing, Ended, CallOK, ReservationOK, NeedsReservation, TaskRuns,
          Wanted, Ready, OfCall, OfTask, OwnStep, ReturnedOK, batchVars
  <2>1. CASE Attach(c)
    BY <2>1 DEF Attach
  <2>2. CASE Abort(c)
    BY <2>2 DEF Abort
  <2>3. CASE ToolReturns(c)
    BY <2>3 DEF ToolReturns
  <2>4. CASE ReleaseRemaining(c)
    BY <2>4 DEF ReleaseRemaining
  <2>5. CASE ExecuteForeground(c) /\ input[c].path # NoPath /\ ctxDone
    BY <2>5 DEF ExecuteForeground
  <2> QED
    BY <2>1, <2>2, <2>3, <2>4, <2>5
<1> QED
  BY <1>1, <1>4, LeaveStep DEF OwnStep

\* The end of a durable task keeps the invariant.
LEMMA TaskReturnsKeeps ==
  ASSUME IInv, NEW c \in Calls, TaskReturns(c)
  PROVE  IInv'
<1> USE DEF TaskReturns
<1>1. CallOK(c) /\ ReservationOK(c) /\ TypeOK /\ QueueInv /\ ReturnedOK
  BY DEF IInv
<1>2. /\ ~InQueue(OfTask(c))'
      /\ InQueue(OfCall(c))' <=> InQueue(OfCall(c))
      /\ path' = path /\ (OfCall(c) \in ready => OfCall(c) \in ready')
  BY <1>1, OwnTaskReleased
<1>3. reservations' \in Seq(Holders) /\ ready' \subseteq Holders
  BY <1>1, HolderOf, ReleaseStep DEF QueueInv
<1>4. TypeOK' /\ CallOK(c)' /\ ReservationOK(c)' /\ OwnStep(c)
  BY <1>1, <1>2, <1>3
     DEF TypeOK, Calls, Executing, Ended, CallOK, ReservationOK, NeedsReservation, TaskRuns,
         Wanted, Ready, OfCall, OfTask, OwnStep, ReturnedOK
<1> QED
  BY <1>1, <1>4, LeaveStep DEF OwnStep

\* A reservation made after admission keeps the invariant when it does so for its call.
LEMMA LateJoinKeeps ==
  ASSUME IInv, TypeOK', NEW c \in Calls, NEW h \in {OfCall(c), OfTask(c)},
         ~InQueue(h), input[c].path # NoPath, reserve(h, Wanted(c)),
         OwnStep(c), ~InProcess, returned => h = OfTask(c),
         CallOK(c)', ReservationOK(c)'
  PROVE  IInv'
<1> USE DEF IInv
<1>1. h \in Holders /\ Wanted(c) \in AbsolutePaths
  BY HolderOf, InputType
<1>2. QueueInv' /\ OnlyMoves(h)
  BY <1>1, JoinStep
<1>3. Calls' = Calls
  BY DEF Calls, OwnStep
<1>4. \A d \in Calls : CallOK(d)'
  <2> SUFFICES ASSUME NEW d \in Calls, d # c
               PROVE  CallOK(d)'
    OBVIOUS
  <2> QED
    BY DEF CallOK, Ready, OwnStep
<1>5. \A d \in Calls : ReservationOK(d)'
  <2> SUFFICES ASSUME NEW d \in Calls, d # c
               PROVE  ReservationOK(d)'
    OBVIOUS
  <2>1. OnlyMoves(OfCall(c)) \/ OnlyMoves(OfTask(c))
    BY <1>2
  <2> QED
    BY <2>1, OthersKept DEF OwnStep
<1>6. QueueOwned'
  <2>1. \A i \in DOMAIN reservations' :
            reservations'[i] = h \/ \E j \in DOMAIN reservations : reservations[j] = reservations'[i]
    BY <1>1, AppendProperties, LenProperties DEF reserve, QueueInv
  <2> QED
    BY <1>3, <2>1 DEF QueueOwned, OfCall, OfTask
<1>7. ReturnedOK'
  <2>1. ASSUME returned, NEW d \in Calls
        PROVE  InQueue(OfCall(d))' => InQueue(OfCall(d))
    <3>1. h = OfTask(c) /\ OfCall(d) \in Holders
      BY <2>1, HolderOf
    <3>2. OfCall(d) # h
      BY <3>1 DEF OfCall, OfTask
    <3> QED
      BY <1>2, <3>1, <3>2 DEF OnlyMoves, InQueue, OfCall
  <2> QED
    BY <1>3, <2>1 DEF ReturnedOK, OwnStep
<1>8. QueueInSourceOrder'
  BY <1>3 DEF QueueInSourceOrder, InProcess, OwnStep
<1> QED
  BY <1>2, <1>3, <1>4, <1>5, <1>6, <1>7, <1>8

\* The reservation of a call that had none keeps the invariant.
LEMMA ReserveCallKeeps ==
  ASSUME IInv, NEW c \in Calls, ExecuteForeground(c), input[c].path # NoPath, ~ctxDone,
         ~input[c].reserves
  PROVE  IInv'
<1>1. CallOK(c) /\ ReservationOK(c) /\ TypeOK /\ QueueInv /\ ReturnedOK
  BY DEF IInv
<1>2. /\ pc[c] = "executing" /\ reserve(OfCall(c), Wanted(c))
      /\ pc' = [pc EXCEPT ![c] = "waiting"] /\ result' = result
      /\ UNCHANGED <<input, admitted, attachment, task, returned, ctxDone>>
  BY DEF ExecuteForeground, Wanted
<1>3. ~InQueue(OfCall(c))
  BY <1>1, <1>2 DEF ReservationOK
<1>4. /\ InQueue(OfCall(c))'
      /\ InQueue(OfTask(c))' <=> InQueue(OfTask(c))
      /\ path'[OfCall(c)] = Wanted(c) /\ path'[OfTask(c)] = path[OfTask(c)]
      /\ OfTask(c) \in ready => OfTask(c) \in ready'
      /\ reservations' \in Seq(Holders) /\ ready' \subseteq Holders
  <2>1. OfCall(c) \in Holders /\ OfTask(c) \in Holders /\ OfCall(c) # OfTask(c)
    BY <1>1, HolderOf
  <2>2. Wanted(c) \in AbsolutePaths
    BY <1>1, InputType
  <2>3. /\ QueueInv' /\ OnlyMoves(OfCall(c)) /\ InQueue(OfCall(c))'
        /\ path'[OfCall(c)] = Wanted(c)
    BY <1>1, <1>2, <1>3, <2>1, <2>2, JoinStep DEF InQueue, OfCall
  <2> QED
    BY <2>1, <2>3 DEF OnlyMoves, QueueInv, InQueue, OfTask
<1>5. TypeOK' /\ CallOK(c)' /\ ReservationOK(c)' /\ OwnStep(c) /\ returned' = FALSE
  BY <1>1, <1>2, <1>4
     DEF TypeOK, Calls, Executing, Ended, CallOK, ReservationOK, NeedsReservation, TaskRuns,
         Wanted, Ready, OfCall, OfTask, OwnStep, ReturnedOK
<1>6. ~InProcess /\ ~returned
  BY <1>1, <1>2 DEF InProcess, ReturnedOK
<1> QED
  BY <1>2, <1>3, <1>5, <1>6, LateJoinKeeps

\* The dispatch of a durable task keeps the invariant.
LEMMA TaskAdmittedKeeps ==
  ASSUME IInv, NEW c \in Calls, TaskAdmitted(c)
  PROVE  IInv'
<1>1. CallOK(c) /\ ReservationOK(c) /\ TypeOK /\ QueueInv /\ ReturnedOK
  BY DEF IInv
<1>2. /\ task[c] = "queued" /\ task' = [task EXCEPT ![c] = "running"]
      /\ UNCHANGED <<input, admitted, pc, attachment, result, returned, ctxDone>>
  BY DEF TaskAdmitted
<1>3. OwnStep(c) /\ CallOK(c)'
  BY <1>1, <1>2 DEF OwnStep, CallOK, Ready, TypeOK
<1>4. CASE input[c].path = NoPath
  <2>1. UNCHANGED lockVars
    BY <1>4 DEF TaskAdmitted
  <2>2. /\ InQueue(OfCall(c))' <=> InQueue(OfCall(c))
        /\ InQueue(OfTask(c))' <=> InQueue(OfTask(c))
        /\ path' = path /\ ready' = ready /\ reservations' = reservations
    BY <1>1, <2>1, OwnKept DEF lockVars
  <2>3. TypeOK' /\ ReservationOK(c)'
    BY <1>1, <1>2, <1>4, <2>2
       DEF TypeOK, Calls, Executing, Ended, CallOK, ReservationOK, NeedsReservation, TaskRuns,
           Wanted, OfCall, OfTask
  <2> QED
    BY <1>3, <2>1, <2>3, LeaveStep DEF OwnStep
<1>5. CASE input[c].path # NoPath
  <2>1. ~Blocked(reservations, path, Wanted(c)) /\ reserve(OfTask(c), Wanted(c))
    BY <1>5 DEF TaskAdmitted, tryReserve, Wanted
  <2>2. ~InQueue(OfTask(c))
    BY <1>1, <1>2 DEF ReservationOK, TaskRuns
  <2>3. /\ InQueue(OfTask(c))' /\ OfTask(c) \in ready'
        /\ InQueue(OfCall(c))' <=> InQueue(OfCall(c))
        /\ path'[OfTask(c)] = Wanted(c) /\ path'[OfCall(c)] = path[OfCall(c)]
        /\ OfCall(c) \in ready => OfCall(c) \in ready'
        /\ reservations' \in Seq(Holders) /\ ready' \subseteq Holders
    <3>1. OfCall(c) \in Holders /\ OfTask(c) \in Holders /\ OfCall(c) # OfTask(c)
      BY <1>1, HolderOf
    <3>2. Wanted(c) \in AbsolutePaths
      BY <1>1, <1>5, InputType
    <3>3. /\ QueueInv' /\ OnlyMoves(OfTask(c)) /\ InQueue(OfTask(c))'
          /\ path'[OfTask(c)] = Wanted(c) /\ OfTask(c) \in ready'
      BY <1>1, <2>1, <2>2, <3>1, <3>2, JoinStep DEF InQueue, OfTask
    <3> QED
      BY <3>1, <3>3 DEF OnlyMoves, QueueInv, InQueue, OfCall
  <2>4. TypeOK' /\ ReservationOK(c)'
    BY <1>1, <1>2, <1>5, <2>3
       DEF TypeOK, Calls, Executing, Ended, CallOK, ReservationOK, NeedsReservation, TaskRuns,
           Wanted, OfCall, OfTask
  <2>5. ~InProcess
    BY <1>1, <1>2 DEF InProcess, CallOK
  <2> QED
    BY <1>3, <1>5, <2>1, <2>2, <2>4, <2>5, LateJoinKeeps
<1> QED
  BY <1>4, <1>5

\* The admission of the next call keeps the invariant.
LEMMA AdmitNextKeeps ==
  ASSUME IInv, AdmitNext
  PROVE  IInv'
<1> USE DEF IInv
<1>0. PICK c \in Calls : c = admitted + 1
  BY InputType DEF AdmitNext
<1>1. /\ Calls = 1..Len(input) /\ Len(input) \in Nat /\ admitted \in Nat
      /\ pc[c] = "idle" /\ task[c] = "none" /\ attachment[c] = "none" /\ ~returned
  <2>1. Calls = 1..Len(input) /\ Len(input) \in Nat /\ admitted \in Nat
    BY InputType
  <2>2. CallOK(c) /\ attachment[c] \in {"none", "unresolved", "completed", "detached", "canceled"}
    BY DEF TypeOK
  <2>3. c > admitted
    BY <1>0, <2>1
  <2>4. ~returned
    BY DEF AdmitNext, ReturnedOK
  <2> QED
    BY <2>1, <2>2, <2>3, <2>4 DEF CallOK
<1>2. /\ admitted' = c
      /\ pc' = [pc EXCEPT ![c] = IF Ready(c) THEN "spawned" ELSE "completed"]
      /\ UNCHANGED <<input, attachment, task, returned, ctxDone>>
      /\ result' = [result EXCEPT ![c] = IF Ready(c) THEN "none" ELSE "error"]
  BY <1>0 DEF AdmitNext
<1>3. /\ OfCall(c) \in Holders /\ OfTask(c) \in Holders /\ OfCall(c) # OfTask(c)
      /\ ~InQueue(OfCall(c)) /\ ~InQueue(OfTask(c))
  <2>1. ReservationOK(c)
    BY <1>1
  <2> QED
    BY <1>1, <2>1, HolderOf DEF ReservationOK, TaskRuns
<1>4. \/ /\ Ready(c) /\ input[c].reserves /\ input[c].path # NoPath
         /\ reserve(OfCall(c), Wanted(c))
      \/ ~(Ready(c) /\ input[c].reserves /\ input[c].path # NoPath) /\ UNCHANGED lockVars
  BY <1>0 DEF AdmitNext, Wanted
<1>5. /\ QueueInv' /\ OnlyMoves(OfCall(c))
      /\ InQueue(OfCall(c))' <=> Ready(c) /\ input[c].reserves /\ input[c].path # NoPath
      /\ InQueue(OfCall(c))' => path'[OfCall(c)] = Wanted(c)
      /\ ~InQueue(OfTask(c))'
  <2>1. CASE reserve(OfCall(c), Wanted(c)) /\ Ready(c) /\ input[c].reserves /\ input[c].path # NoPath
    <3>1. Wanted(c) \in AbsolutePaths
      BY <1>1, <2>1, InputType
    <3>2. /\ QueueInv' /\ OnlyMoves(OfCall(c)) /\ InQueue(OfCall(c))'
          /\ path'[OfCall(c)] = Wanted(c)
      BY <1>3, <2>1, <3>1, JoinStep DEF InQueue, OfCall
    <3> QED
      BY <1>3, <2>1, <3>2 DEF OnlyMoves, InQueue, OfTask
  <2>2. CASE UNCHANGED lockVars /\ ~(Ready(c) /\ input[c].reserves /\ input[c].path # NoPath)
    <3>1. QueueInv' /\ OnlyMoves(OfCall(c))
      BY <2>2, StillStep DEF OnlyMoves
    <3>2. ~InQueue(OfCall(c))' /\ ~InQueue(OfTask(c))'
      BY <1>1, <1>3, <2>2, OwnKept
    <3> QED
      BY <2>2, <3>1, <3>2
  <2> QED
    BY <1>4, <2>1, <2>2
<1>6. Calls' = Calls
  BY <1>2 DEF Calls
<1>7. TypeOK'
  <2>1. reservations' \in Seq(Holders) /\ ready' \subseteq Holders
    BY <1>5 DEF QueueInv
  <2>2. admitted' \in 0..Len(input)
    BY <1>1, <1>2
  <2> QED
    BY <1>1, <1>2, <1>6, <2>1, <2>2 DEF TypeOK, Executing, Ended
<1>8. \A d \in Calls : CallOK(d)'
  <2> TAKE d \in Calls
  <2>1. CallOK(d) /\ d \in Nat
    BY <1>1
  <2>2. CASE d = c
    <3>1. ~(c > admitted')
      BY <1>1, <1>2
    <3>2. pc'[c] = IF Ready(c) THEN "spawned" ELSE "completed"
      BY <1>1, <1>2 DEF TypeOK
    <3>3. Ready(c)' <=> Ready(c)
      BY <1>2 DEF Ready
    <3> QED
      BY <1>1, <1>2, <2>2, <3>1, <3>2, <3>3 DEF CallOK
  <2>3. CASE d # c
    <3>1. d > admitted' <=> d > admitted
      BY <1>0, <1>1, <1>2, <2>1, <2>3
    <3>2. pc'[d] = pc[d] /\ (Ready(d)' <=> Ready(d))
      BY <1>2, <2>3 DEF Ready, TypeOK
    <3> QED
      BY <1>2, <2>1, <3>1, <3>2 DEF CallOK
  <2> QED
    BY <2>2, <2>3
<1>9. \A d \in Calls : ReservationOK(d)'
  <2> TAKE d \in Calls
  <2>1. CASE d = c
    <3>1. pc'[c] = IF Ready(c) THEN "spawned" ELSE "completed"
      BY <1>1, <1>2 DEF TypeOK
    <3> QED
      BY <1>1, <1>2, <1>5, <2>1, <3>1
         DEF ReservationOK, NeedsReservation, TaskRuns, Wanted, OfCall, OfTask
  <2>2. CASE d # c
    <3>1. pc'[d] = pc[d] /\ task'[d] = task[d] /\ input' = input
      BY <1>2, <2>2 DEF TypeOK
    <3> QED
      BY <1>1, <1>5, <2>2, <3>1, OthersKept
  <2> QED
    BY <2>1, <2>2
<1>10. \A i \in DOMAIN reservations' :
           \/ reservations'[i] = reservations[i] /\ i \in DOMAIN reservations
           \/ reservations'[i] = OfCall(c) /\ \A j \in DOMAIN reservations' : j <= i
  <2>1. CASE UNCHANGED lockVars
    BY <2>1 DEF lockVars
  <2>2. CASE reserve(OfCall(c), Wanted(c))
    <3>1. /\ Len(reservations) \in Nat /\ DOMAIN reservations = 1..Len(reservations)
          /\ DOMAIN reservations' = 1..(Len(reservations) + 1)
          /\ \A i \in 1..Len(reservations) : reservations'[i] = reservations[i]
          /\ reservations'[Len(reservations) + 1] = OfCall(c)
      BY <1>3, <2>2, AppendProperties, LenProperties DEF reserve, QueueInv
    <3> QED
      BY <3>1
  <2> QED
    BY <1>4, <2>1, <2>2
<1>11. QueueOwned'
  BY <1>1, <1>6, <1>10 DEF QueueOwned, OfCall, OfTask
<1>12. ReturnedOK'
  BY <1>1, <1>2 DEF ReturnedOK
<1>13. QueueInSourceOrder'
  <2> SUFFICES ASSUME InProcess',
                      NEW i \in DOMAIN reservations', NEW j \in DOMAIN reservations', i < j
               PROVE  reservations'[i][1] < reservations'[j][1]
    BY DEF QueueInSourceOrder
  <2>1. InProcess
    BY <1>2, <1>6 DEF InProcess
  <2>2. DOMAIN reservations' \subseteq Nat
    BY <1>5, LenProperties DEF QueueInv
  <2>3. reservations'[i] = reservations[i] /\ i \in DOMAIN reservations
    BY <1>10, <2>2
  <2>4. CASE reservations'[j] = reservations[j] /\ j \in DOMAIN reservations
    BY <2>1, <2>3, <2>4 DEF QueueInSourceOrder
  <2>5. CASE reservations'[j] = OfCall(c)
    <3>1. PICK d \in Calls : reservations[i] \in {OfCall(d), OfTask(d)}
      BY <2>3 DEF QueueOwned
    <3>2. pc[d] # "idle"
      <4>1. InQueue(OfCall(d)) \/ InQueue(OfTask(d))
        BY <2>3, <3>1 DEF InQueue
      <4>2. CallOK(d) /\ ReservationOK(d)
        OBVIOUS
      <4> QED
        BY <4>1, <4>2 DEF CallOK, ReservationOK, TaskRuns
    <3>3. d < c
      <4>1. CallOK(d) /\ d \in Nat
        BY <1>1
      <4> QED
        BY <1>0, <1>1, <3>2, <4>1 DEF CallOK
    <3> QED
      BY <2>3, <2>5, <3>1, <3>3 DEF OfCall, OfTask
  <2> QED
    BY <1>10, <2>4, <2>5
<1> QED
  BY <1>5, <1>6, <1>7, <1>8, <1>9, <1>11, <1>12, <1>13

\* Steps of the batch and its user that touch neither the queue nor a call.
LEMMA BatchStepKeeps ==
  ASSUME IInv, UNCHANGED <<lockVars, input, admitted, pc, attachment, task, result>>,
         TypeOK', ReturnedOK'
  PROVE  IInv'
<1> USE DEF IInv
<1>1. /\ QueueInv' /\ Calls' = Calls
      /\ path' = path /\ ready' = ready /\ reservations' = reservations
  BY StillStep DEF Calls, lockVars
<1>2. \A d \in Calls : CallOK(d)'
  BY DEF CallOK, Ready
<1>3. \A d \in Calls : ReservationOK(d)'
  BY <1>1 DEF ReservationOK, NeedsReservation, TaskRuns, Wanted, InQueue, OfCall, OfTask
<1>4. QueueOwned' /\ QueueInSourceOrder'
  BY <1>1 DEF QueueOwned, QueueInSourceOrder, InProcess, OfCall, OfTask
<1> QED
  BY <1>1, <1>2, <1>3, <1>4

\* A batch that has not been admitted satisfies the invariant.
LEMMA IndInvInit == Init => IInv
<1> SUFFICES ASSUME Init
             PROVE  IInv
  OBVIOUS
<1>1. Len(input) \in Nat /\ Calls = 1..Len(input)
  <2>1. input \in Seq([ready : BOOLEAN, path : AbsolutePaths \cup {NoPath},
                       reserves : BOOLEAN, managed : BOOLEAN, sequential : BOOLEAN])
    BY BatchAssumption DEF Init
  <2> QED
    BY <2>1, LenProperties DEF Calls
<1>2. reservations = <<>> /\ ready = {} /\ path = [h \in Holders |-> <<>>]
  BY DEF Init, LockInit
<1>3. \A h : ~InQueue(h)
  BY <1>2 DEF InQueue
<1>4. TypeOK
  <2>1. 0 \in 0..Len(input)
    BY <1>1
  <2>2. reservations \in Seq(Holders) /\ ready \subseteq Holders
    BY <1>2
  <2>3. input \in Batches /\ admitted \in 0..Len(input)
    BY <2>1 DEF Init
  <2>4. /\ pc \in [Calls -> {"idle", "spawned", "completed", "finalized"} \cup Executing]
        /\ attachment \in [Calls -> {"none", "unresolved", "completed", "detached", "canceled"}]
        /\ task \in [Calls -> {"none", "queued", "running", "canceling"} \cup Ended]
        /\ result \in [Calls -> {"none", "outcome", "handle", "error"}]
        /\ returned \in BOOLEAN /\ ctxDone \in BOOLEAN
    BY DEF Init
  <2> QED
    BY <2>2, <2>3, <2>4 DEF TypeOK
<1>5. QueueInv
  BY <1>2 DEF QueueInv, ReadyIffUnblocked, AbsolutePaths
<1>6. \A c \in Calls : CallOK(c)
  <2> TAKE c \in Calls
  <2>1. c > admitted /\ pc[c] = "idle" /\ attachment[c] = "none" /\ task[c] = "none"
    BY <1>1 DEF Init
  <2> QED
    BY <2>1 DEF CallOK
<1>7. \A c \in Calls : ReservationOK(c)
  <2> TAKE c \in Calls
  <2>1. pc[c] = "idle" /\ task[c] = "none"
    BY DEF Init
  <2> QED
    BY <1>3, <2>1 DEF ReservationOK, NeedsReservation, TaskRuns
<1>8. QueueOwned /\ ReturnedOK /\ QueueInSourceOrder
  BY <1>2 DEF QueueOwned, ReturnedOK, QueueInSourceOrder, Init
<1> QED
  BY <1>4, <1>5, <1>6, <1>7, <1>8 DEF IInv

\* Every step of a call, its task, the batch and its user keeps the invariant.
LEMMA IndInvNext == IInv /\ [Next]_vars => IInv'
<1> SUFFICES ASSUME IInv, [Next]_vars
             PROVE  IInv'
  OBVIOUS
<1>1. TypeOK /\ ReturnedOK
  BY DEF IInv
<1>2. CASE AdmitNext
  BY <1>2, AdmitNextKeeps
<1>3. CASE ReturnBatch
  <2>1. TypeOK' /\ ReturnedOK'
    BY <1>1, <1>3
       DEF ReturnBatch, TypeOK, ReturnedOK, Calls, Executing, Ended, lockVars, InQueue, OfCall
  <2> QED
    BY <1>3, <2>1, BatchStepKeeps DEF ReturnBatch
<1>4. CASE CancelTurn
  <2>1. TypeOK' /\ ReturnedOK'
    BY <1>1, <1>4
       DEF CancelTurn, TypeOK, ReturnedOK, Calls, Executing, Ended, lockVars, InQueue, OfCall
  <2> QED
    BY <1>4, <2>1, BatchStepKeeps DEF CancelTurn
<1>5. CASE UNCHANGED vars
  <2>1. TypeOK' /\ ReturnedOK'
    BY <1>1, <1>5
       DEF vars, batchVars, TypeOK, ReturnedOK, Calls, Executing, Ended, InQueue, OfCall
  <2> QED
    <3>1. UNCHANGED <<lockVars, input, admitted, pc, attachment, task, result>>
      BY <1>5 DEF vars, batchVars, lockVars
    <3> QED
      BY <2>1, <3>1, BatchStepKeeps
<1>6. ASSUME NEW c \in Calls,
             \/ Finalize(c) \/ Goroutine(c) \/ WaiterCompletes(c) \/ WaiterFails(c) \/ Detach(c)
             \/ TaskAdmitted(c) \/ TaskReturns(c) \/ ReleaseRemaining(c)
      PROVE  IInv'
  <2>1. CASE TaskAdmitted(c)
    BY <2>1, TaskAdmittedKeeps
  <2>2. CASE TaskReturns(c)
    BY <2>2, TaskReturnsKeeps
  <2>3. CASE Attach(c) \/ Abort(c) \/ ToolReturns(c) \/ ReleaseRemaining(c)
    <3>1. remove(OfCall(c))
      BY <2>3 DEF Attach, Abort, ToolReturns, ReleaseRemaining
    <3> QED
      BY <2>3, <3>1, ReleaseCallKeeps
  <2>4. CASE ExecuteForeground(c)
    <3>1. CASE input[c].path # NoPath /\ ctxDone
      <4>1. remove(OfCall(c))
        BY <2>4, <3>1 DEF ExecuteForeground
      <4> QED
        BY <2>4, <3>1, <4>1, ReleaseCallKeeps
    <3>2. CASE input[c].path = NoPath
      <4>1. UNCHANGED lockVars
        BY <2>4, <3>2 DEF ExecuteForeground
      <4> QED
        BY <2>4, <3>2, <4>1, StillCallKeeps
    <3>3. CASE input[c].path # NoPath /\ ~ctxDone /\ input[c].reserves
      <4>1. UNCHANGED lockVars
        BY <2>4, <3>3 DEF ExecuteForeground
      <4> QED
        BY <2>4, <3>3, <4>1, StillCallKeeps
    <3>4. CASE input[c].path # NoPath /\ ~ctxDone /\ ~input[c].reserves
      BY <2>4, <3>4, ReserveCallKeeps
    <3> QED
      BY <3>1, <3>2, <3>3, <3>4
  <2>5. CASE \/ Finalize(c) \/ TakeSlot(c) \/ GiveUpSlot(c) \/ StartTask(c)
             \/ WaiterCompletes(c) \/ WaiterFails(c) \/ Detach(c) \/ CancelAttachment(c)
             \/ ResolveForeground(c) \/ Proceed(c)
    BY <2>5, StillCallKeeps
  <2> QED
    BY <1>6, <2>1, <2>2, <2>3, <2>4, <2>5 DEF Goroutine
<1> QED
  BY <1>2, <1>3, <1>4, <1>5, <1>6 DEF Next, Terminated

\* The invariant of a batch.
LEMMA IndInv == Spec => []IInv
BY IndInvInit, IndInvNext, PTL DEF Spec
--------------------------------------------------------------------------------

\* Who mutates a path stands in the queue, ready.
LEMMA MutatorHolds ==
  ASSUME IInv, NEW c \in Calls, Mutating(c), input[c].path # NoPath
  PROVE  \E h \in {OfCall(c), OfTask(c)} : \E i \in DOMAIN reservations :
             reservations[i] = h /\ h \in ready /\ path[h] = Wanted(c)
BY DEF IInv, Mutating, ReservationOK, NeedsReservation, TaskRuns, InQueue

\* Two ready reservations of the queue never conflict.
LEMMA ReadyApart ==
  ASSUME QueueInv, NEW i \in DOMAIN reservations, NEW j \in DOMAIN reservations, i # j,
         reservations[i] \in ready, reservations[j] \in ready
  PROVE  ~mutationPathsConflict(path[reservations[i]], path[reservations[j]])
<1>1. DOMAIN reservations \subseteq Nat \ {0}
  BY LenProperties DEF QueueInv
<1>2. ~BlockedAt(reservations, path, i) /\ ~BlockedAt(reservations, path, j)
  BY DEF QueueInv, ReadyIffUnblocked
<1>3. CASE i < j
  <2>1. i \in 1..(j - 1)
    BY <1>1, <1>3
  <2> QED
    BY <1>2, <2>1 DEF BlockedAt
<1>4. CASE j < i
  <2>1. j \in 1..(i - 1)
    BY <1>1, <1>4
  <2> QED
    BY <1>2, <2>1, ConflictSymmetric DEF BlockedAt
<1> QED
  BY <1>1, <1>3, <1>4

\* Calls and durable tasks never change overlapping paths at the same time
\* (acquirePreparedMutation, tool_executor.go; TryAdmit, mutation_queue.go).
LEMMA InvExclusive == IInv => ExclusiveMutation
<1> SUFFICES ASSUME IInv, NEW c \in Calls, NEW d \in Calls, c # d, Overlap(c, d),
                    Mutating(c), Mutating(d)
             PROVE  FALSE
  BY DEF ExclusiveMutation
<1>1. input[c].path # NoPath /\ input[d].path # NoPath /\ QueueInv
  BY DEF Overlap, IInv
<1>2. PICK h \in {OfCall(c), OfTask(c)} : \E i \in DOMAIN reservations :
          reservations[i] = h /\ h \in ready /\ path[h] = Wanted(c)
  BY <1>1, MutatorHolds
<1>3. PICK k \in {OfCall(d), OfTask(d)} : \E i \in DOMAIN reservations :
          reservations[i] = k /\ k \in ready /\ path[k] = Wanted(d)
  BY <1>1, MutatorHolds
<1>4. h # k
  BY DEF OfCall, OfTask
<1>5. ~mutationPathsConflict(Wanted(c), Wanted(d))
  BY <1>1, <1>2, <1>3, <1>4, ReadyApart
<1> QED
  BY <1>5 DEF Overlap, Wanted

\* A returned batch has left the queue to the tasks it started.
LEMMA InvReturned == IInv => NoReservationOutlivesBatch
BY DEF IInv, NoReservationOutlivesBatch, ReturnedOK, QueueOwned, InQueue, OfCall, OfTask

\* A call that mutates has no earlier overlapping call left to run.
LEMMA InvSourceOrder == IInv => InProcessOrder
<1> SUFFICES ASSUME IInv, InProcess, NEW c \in Calls, NEW d \in Calls, c < d, Ready(c),
                    Overlap(c, d), Mutating(d), ~Over(c)
             PROVE  FALSE
  BY DEF InProcessOrder, InProcess, SourceOrder
<1>1. /\ CallOK(c) /\ CallOK(d) /\ ReservationOK(c) /\ ReservationOK(d) /\ QueueInv
      /\ c \in Nat /\ d \in Nat /\ admitted \in Nat
  BY InputType DEF IInv
<1>2. task[c] = "none" /\ task[d] = "none" /\ input[c].reserves
      /\ pc[c] \notin {"attaching", "attached"}
  BY <1>1 DEF InProcess, CallOK
<1>3. /\ pc[d] = "mutating" /\ input[d].path # NoPath /\ input[c].path # NoPath
      /\ mutationPathsConflict(Wanted(c), Wanted(d))
  BY <1>2 DEF Mutating, Overlap, Wanted
<1>4. pc[c] \in {"spawned", "executing", "waiting", "mutating"}
  <2>1. pc[c] # "idle"
    BY <1>1, <1>3 DEF CallOK
  <2>2. pc[c] \in {"idle", "spawned", "completed", "finalized"} \cup Executing
    BY DEF IInv, TypeOK
  <2> QED
    BY <1>2, <2>1, <2>2 DEF Over, Executing
<1>5. /\ InQueue(OfCall(c)) /\ path[OfCall(c)] = Wanted(c)
      /\ InQueue(OfCall(d)) /\ path[OfCall(d)] = Wanted(d) /\ OfCall(d) \in ready
  BY <1>1, <1>2, <1>3, <1>4 DEF ReservationOK, NeedsReservation
<1>6. PICK i, j \in DOMAIN reservations : reservations[i] = OfCall(c) /\ reservations[j] = OfCall(d)
  BY <1>5 DEF InQueue
<1>7. DOMAIN reservations \subseteq Nat \ {0}
  BY <1>1, LenProperties DEF QueueInv
<1>8. i < j
  <2>1. ~(j < i)
    BY <1>1, <1>6 DEF IInv, QueueInSourceOrder, OfCall
  <2>2. i # j
    BY <1>1, <1>6 DEF OfCall
  <2> QED
    BY <1>7, <2>1, <2>2
<1>9. BlockedAt(reservations, path, j)
  <2>1. i \in 1..(j - 1)
    BY <1>7, <1>8
  <2> QED
    BY <1>3, <1>5, <1>6, <2>1 DEF BlockedAt
<1> QED
  BY <1>1, <1>5, <1>6, <1>9 DEF QueueInv, ReadyIffUnblocked

\* Calls of a batch on overlapping paths, in the foreground or in a durable task, never
\* mutate together, and a batch that has returned holds nothing
\* (executePreparedToolCalls and its deferred releasePreparedToolCalls, tool_executor.go).
THEOREM BatchExclusive == Spec => []BatchSound
<1>1. IInv => BatchSound
  BY InvExclusive, InvReturned DEF BatchSound, IInv
<1> QED
  BY <1>1, IndInv, PTL

\* Calls that reserve at admission and run in the calling process mutate overlapping paths
\* in source order, whatever the scheduler does (admitPreparedToolCalls, tool_executor.go).
THEOREM SourceOrderKept == Spec => []InProcessOrder
BY InvSourceOrder, IndInv, PTL

\* A detach that succeeded stays: its attachment is not resolved again and the turn's end
\* does not cancel its task (resolveForegroundAttachment, tool_detach.go).
THEOREM DetachFinal == Spec => DetachIsFinal
<1>1. IInv /\ [Next]_vars =>
        [\A c \in Calls : attachment[c] = "detached" =>
            attachment'[c] = "detached" /\ task'[c] \notin {"canceling", "canceled"}]_vars
  <2> SUFFICES ASSUME IInv, Next, NEW c \in Calls, attachment[c] = "detached"
               PROVE  attachment'[c] = "detached" /\ task'[c] \notin {"canceling", "canceled"}
    OBVIOUS
  <2>1. /\ CallOK(c) /\ TypeOK /\ pc[c] \in {"attached", "completed", "finalized"}
        /\ task[c] \notin {"canceling", "canceled"}
    BY DEF IInv, CallOK
  <2>2. CASE AdmitNext \/ ReturnBatch \/ CancelTurn \/ Terminated
    BY <2>1, <2>2 DEF AdmitNext, ReturnBatch, CancelTurn, Terminated, vars, batchVars
  <2>3. ASSUME NEW d \in Calls,
               \/ Finalize(d) \/ Goroutine(d) \/ WaiterCompletes(d) \/ WaiterFails(d)
               \/ Detach(d) \/ TaskAdmitted(d) \/ TaskReturns(d) \/ ReleaseRemaining(d)
        PROVE  attachment'[c] = "detached" /\ task'[c] \notin {"canceling", "canceled"}
    <3> USE <2>1, <2>3 DEF TypeOK
    <3>1. CASE \/ Finalize(d) \/ TakeSlot(d) \/ GiveUpSlot(d) \/ Proceed(d) \/ Abort(d)
               \/ ToolReturns(d) \/ ReleaseRemaining(d)
      BY <3>1 DEF Finalize, TakeSlot, GiveUpSlot, Proceed, Abort, ToolReturns,
                  ReleaseRemaining, batchVars
    <3>2. CASE ExecuteForeground(d)
      BY <3>2 DEF ExecuteForeground
    <3>3. CASE StartTask(d)
      BY <3>3 DEF StartTask
    <3>4. CASE Attach(d)
      BY <3>4 DEF Attach
    <3>5. CASE WaiterCompletes(d) \/ WaiterFails(d) \/ Detach(d) \/ CancelAttachment(d)
      BY <3>5 DEF WaiterCompletes, WaiterFails, Detach, CancelAttachment
    <3>6. CASE ResolveForeground(d)
      BY <3>6 DEF ResolveForeground, CancelTask
    <3>7. CASE TaskAdmitted(d) \/ TaskReturns(d)
      BY <3>7 DEF TaskAdmitted, TaskReturns
    <3> QED
      BY <3>1, <3>2, <3>3, <3>4, <3>5, <3>6, <3>7 DEF Goroutine
  <2> QED
    BY <2>2, <2>3 DEF Next
<1> QED
  BY <1>1, IndInv, PTL DEF Spec, DetachIsFinal
================================================================================
