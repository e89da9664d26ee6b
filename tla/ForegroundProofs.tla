---------------------------- MODULE ForegroundProofs ---------------------------
(***************************************************************************)
(* The two instances of MCForeground: mutual exclusion of file mutations, for  *)
(* any number of calls and any paths; a worker process and its parent, for any *)
(* items, width, slots and limit.                                            *)
(***************************************************************************)
EXTENDS PreparedCalls, ExecuteWorker, FileMutationLocksProofs, FiniteSetTheorems

(***************************************************************************)
(* MutualExclusion is not inductive: it says nothing of calls that wait, nor *)
(* why a mutating call was let through.  The inductive invariant adds the    *)
(* queue's own invariant, who is in the queue, and that a mutating call was  *)
(* made ready.                                                               *)
(***************************************************************************)
IndInv ==
    /\ TypeOK
    /\ NoLeakedReservation
    /\ ReadyIffUnblocked
    /\ \A c \in Holders : pc[c] = "mutating" => c \in ready

\* An empty queue satisfies the invariant.
LEMMA IndInvInit == Init => IndInv
BY EmptySeq DEF Init, LockInit, IndInv, TypeOK, NoLeakedReservation, ReadyIffUnblocked,
       InQueue, AbsolutePaths, Holding, Finished

\* A step that joins the queue: c had no reservation and has one afterwards.
LEMMA IndInvReserve ==
  ASSUME IndInv, NEW c \in Holders, NEW p \in RequestPaths, pc[c] = "prepared",
         reserve(c, canonicalMutationPath(p)), pc' = [pc EXCEPT ![c] = "reserved"],
         UNCHANGED canceled
  PROVE  IndInv'
<1> USE DEF Holding, Finished
<1>1. canonicalMutationPath(p) \in AbsolutePaths
  BY RequestAssumption, CanonicalType
<1>2. QueueInv /\ ~InQueue(c)
  BY DEF IndInv, TypeOK, NoLeakedReservation, QueueInv
<1>3. /\ QueueInv'
      /\ \A d \in Holders : InQueue(d)' <=> InQueue(d) \/ d = c
      /\ ready \subseteq ready' \cup {c}
  <2> HIDE DEF QueueInv, IndInv
  <2> QED
    BY <1>1, <1>2, ReserveStep
<1>4. TypeOK'
  BY <1>3 DEF QueueInv, IndInv, TypeOK
<1>5. NoLeakedReservation'
  BY <1>3, <1>4 DEF QueueInv, IndInv, TypeOK, NoLeakedReservation
<1> QED
  BY <1>3, <1>4, <1>5 DEF QueueInv, IndInv, TypeOK

\* A step that leaves the queue for good.
LEMMA IndInvRemove ==
  ASSUME IndInv, NEW c \in Holders, NEW final \in Finished, pc[c] \in Holding,
         remove(c), pc' = [pc EXCEPT ![c] = final], UNCHANGED canceled
  PROVE  IndInv'
<1> USE DEF Holding, Finished
<1>1. QueueInv
  BY DEF IndInv, TypeOK, NoLeakedReservation, QueueInv
<1>2. /\ QueueInv'
      /\ \A d \in Holders : InQueue(d)' <=> InQueue(d) /\ d # c
      /\ ready \subseteq ready' \cup {c}
  <2> HIDE DEF QueueInv, IndInv
  <2> QED
    BY <1>1, RemoveStep
<1>3. TypeOK'
  BY <1>2 DEF QueueInv, IndInv, TypeOK
<1>4. NoLeakedReservation'
  BY <1>2, <1>3 DEF QueueInv, IndInv, TypeOK, NoLeakedReservation
<1> QED
  BY <1>2, <1>3, <1>4 DEF QueueInv, IndInv, TypeOK

\* A step that leaves the queue alone and keeps who holds a reservation.
LEMMA IndInvLocal ==
  ASSUME IndInv, UNCHANGED lockVars,
         pc' \in [Holders -> {"prepared"} \cup Holding \cup Finished],
         canceled' \in SUBSET Holders,
         \A d \in Holders : pc'[d] \in Holding <=> pc[d] \in Holding,
         \A d \in Holders : pc'[d] = "mutating" => d \in ready
  PROVE  IndInv'
<1>1. UNCHANGED <<reservations, ready, path>>
  BY DEF lockVars
<1>2. TypeOK'
  BY <1>1 DEF IndInv, TypeOK
<1>3. NoLeakedReservation'
  BY <1>1 DEF IndInv, NoLeakedReservation, InQueue
<1>4. ReadyIffUnblocked'
  BY <1>1 DEF IndInv, ReadyIffUnblocked, BlockedAt
<1>5. \A c \in Holders : pc'[c] = "mutating" => c \in ready'
  BY <1>1
<1> QED
  BY <1>2, <1>3, <1>4, <1>5 DEF IndInv

\* Every step of a caller keeps the invariant.
LEMMA IndInvNext == IndInv /\ [Next]_vars => IndInv'
<1> SUFFICES ASSUME IndInv, [Next]_vars PROVE IndInv'
  OBVIOUS
<1> HIDE DEF IndInv
<1>0. /\ pc \in [Holders -> {"prepared"} \cup Holding \cup Finished]
      /\ canceled \in SUBSET Holders
      /\ \A d \in Holders : pc[d] = "mutating" => d \in ready
  BY DEF IndInv, TypeOK
<1>1. ASSUME NEW c \in Holders, Admit(c) PROVE IndInv'
  BY <1>1, IndInvReserve DEF Admit
<1>2. ASSUME NEW c \in Holders, TryAdmit(c) PROVE IndInv'
  <2>1. PICK p \in RequestPaths :
          \/ tryReserve(c, canonicalMutationPath(p)) /\ pc' = [pc EXCEPT ![c] = "reserved"]
          \/ refuse(canonicalMutationPath(p)) /\ UNCHANGED pc
    BY <1>2 DEF TryAdmit
  <2>2. CASE tryReserve(c, canonicalMutationPath(p)) /\ pc' = [pc EXCEPT ![c] = "reserved"]
    BY <1>2, <2>2, IndInvReserve DEF TryAdmit, tryReserve
  <2>3. CASE refuse(canonicalMutationPath(p)) /\ UNCHANGED pc
    BY <1>0, <1>2, <2>3, IndInvLocal DEF TryAdmit, refuse
  <2> QED
    BY <2>1, <2>2, <2>3
<1>3. ASSUME NEW c \in Holders, Release(c) PROVE IndInv'
  BY <1>3, IndInvRemove DEF Release, Holding, Finished
<1>4. ASSUME NEW c \in Holders, Execute(c) PROVE IndInv'
  <2>1. CASE c \in canceled
    BY <1>4, <2>1, IndInvRemove DEF Execute, Holding, Finished
  <2>2. CASE c \notin canceled
    BY <1>0, <1>4, <2>2, IndInvLocal DEF Execute, Holding, Finished
  <2> QED
    BY <2>1, <2>2
<1>5. ASSUME NEW c \in Holders, Proceed(c) PROVE IndInv'
  BY <1>0, <1>5, IndInvLocal DEF Proceed, Holding, Finished
<1>6. ASSUME NEW c \in Holders, Abort(c) PROVE IndInv'
  BY <1>6, IndInvRemove DEF Abort, Holding, Finished
<1>7. ASSUME NEW c \in Holders, Return(c) PROVE IndInv'
  BY <1>7, IndInvRemove DEF Return, Holding, Finished
<1>8. ASSUME NEW c \in Holders, CancelContext(c) PROVE IndInv'
  BY <1>0, <1>8, IndInvLocal DEF CancelContext
<1>9. ASSUME NEW c \in Holders, Prepare(c) PROVE IndInv'
  BY <1>0, <1>9, IndInvLocal DEF Prepare, Holding, Finished
<1>10. CASE UNCHANGED vars
  BY <1>0, <1>10, IndInvLocal DEF vars, lockVars
<1> QED
  BY <1>1, <1>2, <1>3, <1>4, <1>5, <1>6, <1>7, <1>8, <1>9, <1>10 DEF Next

\* Two mutating calls are both ready; the later of the two in the queue would
\* be blocked by the earlier one if their paths overlapped.
LEMMA IndInvExcludes == IndInv => MutualExclusion
<1> SUFFICES ASSUME IndInv, NEW c \in Holders, NEW d \in Holders, c # d,
                    pc[c] = "mutating", pc[d] = "mutating",
                    mutationPathsConflict(path[c], path[d])
             PROVE  FALSE
  BY DEF MutualExclusion
<1>1. /\ DOMAIN reservations = 1..Len(reservations)
      /\ Len(reservations) \in Nat
  BY LenProperties DEF IndInv, TypeOK
<1>2. PICK i, j \in DOMAIN reservations : reservations[i] = c /\ reservations[j] = d
  BY DEF IndInv, NoLeakedReservation, InQueue, Holding
<1>3. ~BlockedAt(reservations, path, i) /\ ~BlockedAt(reservations, path, j)
  BY <1>2 DEF IndInv, ReadyIffUnblocked
<1>4. mutationPathsConflict(path[d], path[c])
  BY ConflictSymmetric
<1>5. CASE i < j
  <2>1. i \in 1..(j - 1)
    BY <1>1, <1>2, <1>5
  <2> QED
    BY <2>1, <1>2, <1>3 DEF BlockedAt
<1>6. CASE j < i
  <2>1. j \in 1..(i - 1)
    BY <1>1, <1>2, <1>6
  <2> QED
    BY <2>1, <1>2, <1>3, <1>4 DEF BlockedAt
<1> QED
  BY <1>1, <1>2, <1>5, <1>6

\* Type correctness of the mutation queue and its callers, for any calls and paths.
THEOREM TypeCorrect == Spec => []TypeOK
<1>1. IndInv => TypeOK
  BY DEF IndInv
<1> QED
  BY <1>1, IndInvInit, IndInvNext, PTL DEF Spec

\* No two calls mutate overlapping paths at once (fileMutationReservation.execute).
THEOREM Exclusion == Spec => []MutualExclusion
BY IndInvInit, IndInvNext, IndInvExcludes, PTL DEF Spec

\* remove and reserveMode lose no wakeup and give none early.
THEOREM NoLostWakeup == Spec => []ReadyIffUnblocked
<1>1. IndInv => ReadyIffUnblocked
  BY DEF IndInv
<1> QED
  BY <1>1, IndInvInit, IndInvNext, PTL DEF Spec

\* Released, aborted and finished calls leave no reservation behind.
THEOREM NoLeak == Spec => []NoLeakedReservation
<1>1. IndInv => NoLeakedReservation
  BY DEF IndInv
<1> QED
  BY <1>1, IndInvInit, IndInvNext, PTL DEF Spec

\* Whatever order calls are prepared, canceled and released in, the mutation queue wakes
\* exactly the waiters nothing blocks any more and keeps no reservation of a finished call.
THEOREM QueueIsSound == Spec => []QueueSound
<1>1. TypeOK /\ ReadyIffUnblocked /\ NoLeakedReservation => QueueSound
  BY DEF QueueSound
<1> QED
  BY <1>1, TypeCorrect, NoLostWakeup, NoLeak, PTL

--------------------------------------------------------------------------------
(***************************************************************************)
(* The worker process.                                                     *)
(*                                                                           *)
(* Two facts make the pipes safe.  A request keeps its number from exchange    *)
(* until its answer is read, and no two that wait share one (WaitersNumbered,  *)
(* CallsAndEventsApart), so an answer reaches the item that asked.  And the     *)
(* worker's count of events differs from the parent's only while one event or  *)
(* its answer is on its way (EventsAgree), as long as none was refused, so the  *)
(* parent has no broken sequence to end an evaluation for.                     *)
(***************************************************************************)
\* The worker and its parent, whatever is scheduled.
ExecuteSpec == ExecuteInit /\ [][ExecuteNext]_ewVars

ItemStates == {"not_started"} \cup InProgress \cup EvalEnded
FrameTypes == {"none", "progress", "rpc", "result", "accepted", "refused", "rpc_result"}
Frames == [type : FrameTypes, id : Nat, seq : Nat]
ReaderStates == {"reading", "slot", "progress", "awaiting", "stopping", "closing", "done"}
ItemRecords == [state : ItemStates, asked : [progress : Nat, rpc : Nat], id : Nat]
CallRecords == [pc : {"handler", "writing", "done"}, id : Nat]

EwTypeOK ==
    /\ ewItem \in [Items -> ItemRecords]
    /\ ewCount \in Nat /\ ewNextID \in Nat /\ ewPrevious \in Nat /\ ewRejected \in Nat
    /\ ewChild \in {"eval", "result", "gone"} /\ ewParent \in {"alive", "dead"}
    /\ ewOut \in Seq(Frames) /\ ewIn \in Seq(Frames)
    /\ ewReader \in [pc : ReaderStates, frame : Frames]
    /\ ewCall \in Seq(CallRecords)

Waits(i) == ewItem[i].state \in {"progress", "rpc"}

\* Two requests that wait have different numbers, and no later one was given out.
WaitersNumbered ==
    /\ \A i \in Items : Waits(i) => ewItem[i].id \in 1..ewNextID
    /\ \A i, j \in Items : Waits(i) /\ Waits(j) /\ ewItem[i].id = ewItem[j].id => i = j

\* No frame has a number that was not given out, and results have none.
FramesNumbered ==
    /\ \A n \in DOMAIN ewOut : ewOut[n].id <= ewNextID /\ (ewOut[n].type = "result" => ewOut[n].id = 0)
    /\ \A n \in DOMAIN ewIn : ewIn[n].id <= ewNextID
    /\ \A n \in DOMAIN ewCall : ewCall[n].id <= ewNextID
    /\ ewReader.frame.id <= ewNextID

\* x is the number of a tool or an agent call somewhere on its way.
CallNumber(x) ==
    \/ \E n \in DOMAIN ewOut : ewOut[n].type = "rpc" /\ ewOut[n].id = x
    \/ ewReader.pc = "slot" /\ ewReader.frame.id = x
    \/ \E n \in DOMAIN ewCall : ewCall[n].id = x
    \/ \E n \in DOMAIN ewIn : ewIn[n].type = "rpc_result" /\ ewIn[n].id = x

\* The answer of a call never meets an item that waits for the answer of an event.
CallsAndEventsApart == \A i \in Items : ewItem[i].state = "progress" => ~CallNumber(ewItem[i].id)

\* What the reader holds fits what it is about to do.
ReaderSound ==
    /\ ewReader.pc = "slot" => ewReader.frame.type = "rpc"
    /\ ewReader.pc = "progress" => ewReader.frame.type = "progress" /\ ewReader.frame.seq = ewPrevious + 1
    /\ ewReader.pc = "awaiting" => ewReader.frame.type = "result"
    /\ ewParent = "alive" /\ ewReader.pc \in {"closing", "done"} => Active = {}
    /\ ewReader.pc = "done" => ewChild = "gone"

\* What is written on either pipe.
PipesSound ==
    /\ \A n \in DOMAIN ewOut : ewOut[n].type \in {"progress", "rpc", "result"}
    /\ \A n \in DOMAIN ewIn : ewIn[n].type \in {"accepted", "refused", "rpc_result"}
    /\ \A n \in DOMAIN ewIn : ewIn[n].type = "refused" => ewRejected > 0

OneEmits == \A i, j \in Items : ewItem[i].state = "progress" /\ ewItem[j].state = "progress" => i = j
Emitter(x) == \E i \in Items : ewItem[i].state = "progress" /\ ewItem[i].id = x
Events == {n \in DOMAIN ewOut : ewOut[n].type = "progress"}
EventAnswers == {n \in DOMAIN ewIn : ewIn[n].type \in {"accepted", "refused"}}

\* One event at most is on its way from its emitter to the parent's count and back to the
\* worker's, and the counts differ only meanwhile.
EventsAgree ==
    /\ \A n \in Events :
          /\ ewOut[n].seq = ewPrevious + 1 /\ ewCount = ewPrevious
          /\ ewReader.pc # "progress" /\ EventAnswers = {} /\ Events = {n}
          /\ Emitter(ewOut[n].id)
    /\ ewReader.pc = "progress" =>
          ewCount = ewPrevious /\ EventAnswers = {} /\ Emitter(ewReader.frame.id)
    /\ \A n \in EventAnswers :
          ewPrevious = ewCount + 1 /\ EventAnswers = {n} /\ Emitter(ewIn[n].id)
    /\ Events = {} /\ ewReader.pc # "progress" /\ EventAnswers = {} => ewCount = ewPrevious

\* That is so as long as no event was refused and the evaluation is not being ended.
Undisturbed == ewRejected = 0 /\ ewParent = "alive" /\ ewReader.pc \notin {"stopping", "done"}
CountsAgree == Undisturbed => EventsAgree

EwInv ==
    /\ EwTypeOK /\ WaitersNumbered /\ FramesNumbered /\ CallsAndEventsApart
    /\ ReaderSound /\ PipesSound /\ OneEmits /\ CountsAgree
    /\ CallbackSlots /\ RequestsInFlight /\ SequenceBreaksOnlyAfterRefusal

\* The invariant holds before anything has happened.
LEMMA EwInvInit == ExecuteInit => EwInv
<1> SUFFICES ASSUME ExecuteInit PROVE EwInv
  OBVIOUS
<1>1. EwTypeOK
  BY DEF ExecuteInit, EwTypeOK, ItemRecords, ItemStates, Frames, FrameTypes, ReaderStates, NoFrame
<1>2. Active = {} /\ DOMAIN ewCall = {} /\ DOMAIN ewOut = {} /\ DOMAIN ewIn = {}
  BY DEF ExecuteInit, Active
<1>3. \A i \in Items : ewItem[i].state = "not_started"
  BY DEF ExecuteInit
<1>4. CallbackSlots
  BY <1>2, FS_EmptySet, ExecuteAssumption DEF ExecuteInit, CallbackSlots
<1>5. WaitersNumbered /\ FramesNumbered /\ CallsAndEventsApart /\ OneEmits /\ RequestsInFlight
  BY <1>2, <1>3 DEF ExecuteInit, WaitersNumbered, FramesNumbered, CallsAndEventsApart, OneEmits,
     RequestsInFlight, Waits, NoFrame
<1>6. ReaderSound /\ PipesSound /\ CountsAgree /\ SequenceBreaksOnlyAfterRefusal
  BY <1>2 DEF ExecuteInit, ReaderSound, PipesSound, CountsAgree, SequenceBreaksOnlyAfterRefusal,
     EventsAgree, Events, EventAnswers, NoFrame
<1> QED
  BY <1>1, <1>4, <1>5, <1>6 DEF EwInv

(***************************************************************************)
(* Types.                                                                   *)
(***************************************************************************)

\* What a queue holds once an element has been put behind it.
LEMMA Appended ==
  ASSUME NEW S, NEW q \in Seq(S), NEW e \in S
  PROVE  /\ Append(q, e) \in Seq(S)
         /\ DOMAIN q = 1..Len(q) /\ DOMAIN Append(q, e) = 1..(Len(q) + 1)
         /\ Len(q) \in Nat
         /\ \A n \in 1..Len(q) : Append(q, e)[n] = q[n]
         /\ Append(q, e)[Len(q) + 1] = e
OBVIOUS

\* What a queue holds once its head has been taken.
LEMMA Taken ==
  ASSUME NEW S, NEW q \in Seq(S), q # <<>>
  PROVE  /\ Tail(q) \in Seq(S) /\ Head(q) \in S
         /\ Len(q) \in Nat \ {0} /\ DOMAIN q = 1..Len(q) /\ DOMAIN Tail(q) = 1..(Len(q) - 1)
         /\ Head(q) = q[1]
         /\ \A n \in 1..(Len(q) - 1) : Tail(q)[n] = q[n + 1]
OBVIOUS

\* An item that changes its state keeps the shape of its record.
LEMMA ItemTyped ==
  ASSUME EwTypeOK, NEW i \in Items, NEW r \in ItemRecords, SetItem(i, r)
  PROVE  ewItem' \in [Items -> ItemRecords]
BY DEF EwTypeOK, SetItem

\* An item that is published keeps the shape of its record.
LEMMA PublishTyped ==
  ASSUME EwTypeOK, NEW i \in Items, NEW o \in EvalEnded, publishItem(i, o)
  PROVE  ewItem' \in [Items -> ItemRecords]
<1>1. [ewItem[i] EXCEPT !.state = o, !.id = 0] \in ItemRecords
  BY DEF EwTypeOK, ItemRecords, ItemStates
<1> QED
  BY <1>1, ItemTyped DEF publishItem

\* Every step keeps the types of the variables.
LEMMA EwTypeStep ==
  ASSUME EwTypeOK, [ExecuteNext]_ewVars
  PROVE  EwTypeOK'
<1> USE DEF ewVars, ewGuest, ewPipes, ewHost
<1>1. ASSUME NEW i \in Items, admit(i) PROVE EwTypeOK'
  <2>1. [ewItem[i] EXCEPT !.state = "running"] \in ItemRecords
    BY DEF EwTypeOK, ItemRecords, ItemStates, InProgress
  <2> QED
    BY <1>1, <2>1, ItemTyped DEF admit, GuestOnly, EwTypeOK
<1>2. ASSUME NEW i \in Items, executeItem(i) PROVE EwTypeOK'
  <2>1. ewItem' \in [Items -> ItemRecords]
    BY <1>2, PublishTyped DEF executeItem, EvalEnded
  <2> QED
    BY <1>2, <2>1 DEF executeItem, GuestOnly, EwTypeOK
<1>3. ASSUME NEW i \in Items, NEW kind \in {"progress", "rpc"}, exchange(i, kind) PROVE EwTypeOK'
  <2>1. CASE ewDead \/ ewParent = "dead"
    BY <1>3, <2>1, PublishTyped DEF exchange, EvalEnded, EwTypeOK
  <2>2. CASE ~(ewDead \/ ewParent = "dead")
    <3>1. [state |-> kind, asked |-> [ewItem[i].asked EXCEPT ![kind] = @ + 1], id |-> ewNextID + 1] \in ItemRecords
      <4>1. ewItem[i] \in ItemRecords /\ ewNextID + 1 \in Nat
        BY DEF EwTypeOK
      <4>2. [ewItem[i].asked EXCEPT ![kind] = @ + 1] \in [progress : Nat, rpc : Nat]
        BY <4>1 DEF ItemRecords
      <4> QED
        BY <4>1, <4>2 DEF ItemRecords, ItemStates, InProgress
    <3>2. ewItem' \in [Items -> ItemRecords]
      BY <1>3, <2>2, <3>1, ItemTyped DEF exchange
    <3>3. Frame(kind, ewNextID + 1, IF kind = "progress" THEN ewCount + 1 ELSE 0) \in Frames
      BY DEF EwTypeOK, Frame, Frames, FrameTypes
    <3>4. ewOut' \in Seq(Frames) /\ ewNextID' \in Nat
      <4>1. ewOut' = Append(ewOut, Frame(kind, ewNextID + 1, IF kind = "progress" THEN ewCount + 1 ELSE 0))
        BY <1>3, <2>2 DEF exchange
      <4>2. ewOut \in Seq(Frames)
        BY DEF EwTypeOK
      <4>3. ewOut' \in Seq(Frames)
        BY <4>1, <4>2, <3>3, Appended
      <4> QED
        BY <1>3, <2>2, <4>3 DEF exchange, EwTypeOK
    <3> QED
      BY <1>3, <3>2, <3>4 DEF exchange, EwTypeOK
  <2> QED
    BY <2>1, <2>2
<1>4. ASSUME readResponses PROVE EwTypeOK'
  <2>1. ewIn' \in Seq(Frames)
    <3>1. ewIn \in Seq(Frames) /\ ewIn # <<>> /\ ewIn' = Tail(ewIn)
      BY <1>4 DEF readResponses, EwTypeOK
    <3> QED
      BY <3>1
  <2>2. ewItem' \in [Items -> ItemRecords] /\ ewCount' \in Nat /\ ewNextID' \in Nat
    <3>1. CASE UNCHANGED ewGuest
      BY <3>1 DEF EwTypeOK
    <3>2. ASSUME NEW i \in Items,
                 IF Head(ewIn).type = "refused" THEN publishItem(i, "failed")
                 ELSE SetItem(i, [ewItem[i] EXCEPT !.state = "running", !.id = 0]) /\ UNCHANGED ewStopped,
                 ewCount' = IF ewItem[i].state = "progress" /\ Head(ewIn).type # "refused"
                            THEN ewCount + 1 ELSE ewCount,
                 UNCHANGED <<ewNextID, ewDead>>
          PROVE  ewItem' \in [Items -> ItemRecords] /\ ewCount' \in Nat /\ ewNextID' \in Nat
      <4>1. [ewItem[i] EXCEPT !.state = "running", !.id = 0] \in ItemRecords
        BY DEF EwTypeOK, ItemRecords, ItemStates, InProgress
      <4> QED
        BY <3>2, <4>1, PublishTyped, ItemTyped DEF EwTypeOK, EvalEnded
    <3> QED
      BY <1>4, <3>1, <3>2 DEF readResponses
  <2> QED
    BY <1>4, <2>1, <2>2 DEF readResponses, EwTypeOK
<1>5. ASSUME failPending PROVE EwTypeOK'
  <2>1. \A i \in Items : [ewItem[i] EXCEPT !.state = "failed", !.id = 0] \in ItemRecords
    BY DEF EwTypeOK, ItemRecords, ItemStates, EvalEnded
  <2>2. ewItem' \in [Items -> ItemRecords]
    BY <1>5, <2>1 DEF failPending, EwTypeOK
  <2> QED
    BY <1>5, <2>2 DEF failPending, EwTypeOK
<1>6. ASSUME Serve PROVE EwTypeOK'
  <2>1. Frame("result", 0, 0) \in Frames
    BY DEF Frame, Frames, FrameTypes
  <2>2. ewOut' \in Seq(Frames)
    <3>1. ewOut \in Seq(Frames) /\ (ewOut' = ewOut \/ ewOut' = Append(ewOut, Frame("result", 0, 0)))
      BY <1>6 DEF Serve, EwTypeOK
    <3> QED
      BY <2>1, <3>1, Appended
  <2> QED
    BY <1>6, <2>2 DEF Serve, EwTypeOK
<1>14. ASSUME ServeReturns \/ finishResult \/ killOnCancel \/ cancelEval PROVE EwTypeOK'
  BY <1>14 DEF ServeReturns, finishResult, killOnCancel, cancelEval, kill, Alone, ReaderGoes,
     EwTypeOK, ReaderStates
<1>7. ASSUME readMessages PROVE EwTypeOK'
  <2>1. CASE ewOut # <<>> /\ ewOut' = Tail(ewOut)
    <3>1. Head(ewOut) \in Frames /\ Tail(ewOut) \in Seq(Frames)
      BY <2>1 DEF EwTypeOK
    <3> QED
      BY <1>7, <2>1, <3>1 DEF readMessages, Alone, EwTypeOK, ReaderStates
  <2>2. CASE ewOut = <<>>
    BY <1>7, <2>2 DEF readMessages, Alone, EwTypeOK, ReaderStates, NoFrame, Frames, FrameTypes
  <2> QED
    BY <1>7, <2>1, <2>2 DEF readMessages
<1>8. ASSUME handleProgress PROVE EwTypeOK'
  <2>1. \A a \in {"accepted", "refused"} : Frame(a, ewReader.frame.id, 0) \in Frames
    BY DEF EwTypeOK, Frame, Frames, FrameTypes
  <2>2. ewReader.frame.seq \in Nat
    BY DEF EwTypeOK, Frames
  <2>3. ewIn' \in Seq(Frames) /\ ewRejected' \in Nat /\ ewPrevious' \in Nat
    <3>1. /\ ewIn \in Seq(Frames)
          /\ \/ ewIn' = ewIn
             \/ \E a \in {"accepted", "refused"} : ewIn' = Append(ewIn, Frame(a, ewReader.frame.id, 0))
      BY <1>8 DEF handleProgress, EwTypeOK
    <3>2. ewIn' \in Seq(Frames)
      BY <2>1, <3>1, Appended
    <3> QED
      BY <1>8, <2>2, <3>2 DEF handleProgress, EwTypeOK
  <2>4. ewReader' \in [pc : ReaderStates, frame : Frames]
    BY <1>8 DEF handleProgress, ReaderGoes, EwTypeOK, ReaderStates
  <2> QED
    BY <1>8, <2>3, <2>4 DEF handleProgress, Alone, EwTypeOK
<1>9. ASSUME startRPCCallback PROVE EwTypeOK'
  <2>1. [pc |-> "handler", id |-> ewReader.frame.id] \in CallRecords
    BY DEF EwTypeOK, Frames, CallRecords
  <2>2. ewCall' \in Seq(CallRecords)
    <3>1. /\ ewCall \in Seq(CallRecords)
          /\ ewCall' = ewCall \/ ewCall' = Append(ewCall, [pc |-> "handler", id |-> ewReader.frame.id])
      BY <1>9 DEF startRPCCallback, EwTypeOK
    <3> QED
      BY <2>1, <3>1, Appended
  <2>3. ewReader' \in [pc : ReaderStates, frame : Frames]
    BY <1>9 DEF startRPCCallback, ReaderGoes, EwTypeOK, ReaderStates
  <2> QED
    BY <1>9, <2>2, <2>3 DEF startRPCCallback, Alone, EwTypeOK
<1>10. ASSUME waitForCallbacks \/ stopRPCCallbacks PROVE EwTypeOK'
  BY <1>10 DEF waitForCallbacks, stopRPCCallbacks, kill, ReaderGoes, Alone, EwTypeOK, ReaderStates
<1>11. ASSUME NEW n \in DOMAIN ewCall, rpcResponse(n) \/ writeResponse(n) PROVE EwTypeOK'
  <2>0. ewCall \in Seq(CallRecords) /\ ewCall[n] \in CallRecords
    BY <1>11 DEF EwTypeOK
  <2>1. Frame("rpc_result", ewCall[n].id, 0) \in Frames
    BY <2>0 DEF Frame, Frames, FrameTypes, CallRecords
  <2>2. ewIn' \in Seq(Frames)
    <3>1. /\ ewIn \in Seq(Frames)
          /\ ewIn' = ewIn \/ ewIn' = Append(ewIn, Frame("rpc_result", ewCall[n].id, 0))
      BY <1>11 DEF rpcResponse, writeResponse, EwTypeOK, Alone
    <3> QED
      BY <2>1, <3>1, Appended
  <2>3. \E stage \in {"writing", "done"} : ewCall' = [ewCall EXCEPT ![n].pc = stage]
    BY <1>11 DEF rpcResponse, writeResponse
  <2>4. \A stage \in {"writing", "done"} : [ewCall[n] EXCEPT !.pc = stage] \in CallRecords
    BY <2>0 DEF CallRecords
  <2>5. ewCall' \in Seq(CallRecords)
    BY <2>0, <2>3, <2>4
  <2> QED
    BY <1>11, <2>2, <2>5 DEF rpcResponse, writeResponse, Alone, EwTypeOK
<1>12. ASSUME ParentDies PROVE EwTypeOK'
  <2>0. ewCall \in Seq(CallRecords) /\ \A n \in DOMAIN ewCall : ewCall[n] \in CallRecords
    BY DEF EwTypeOK
  <2>1. \A n \in DOMAIN ewCall : [ewCall[n] EXCEPT !.pc = "done"] \in CallRecords
    <3> TAKE n \in DOMAIN ewCall
    <3>1. ewCall[n] \in CallRecords
      BY <2>0
    <3> QED
      BY <3>1 DEF CallRecords
  <2>2. ewCall' \in Seq(CallRecords)
    BY <1>12, <2>0, <2>1 DEF ParentDies
  <2> QED
    BY <1>12, <2>2 DEF ParentDies, Alone, EwTypeOK
<1>13. CASE UNCHANGED ewVars
  BY <1>13 DEF EwTypeOK
<1> QED
  BY <1>1, <1>2, <1>3, <1>4, <1>5, <1>6, <1>7, <1>8, <1>9, <1>10, <1>11, <1>12, <1>13, <1>14
     DEF ExecuteNext, GuestNext, HostNext

(***************************************************************************)
(* Who waits.                                                               *)
(***************************************************************************)

\* A request that is written: the only step after which one more item waits.
Asks(i, kind) ==
    /\ Guest /\ ewParent = "alive" /\ ~ewDead /\ ewItem[i].state = "running"
    /\ kind = "progress" => \A j \in Items : ewItem[j].state # "progress"
    /\ ewNextID' = ewNextID + 1
    /\ ewItem'[i].state = kind /\ ewItem'[i].id = ewNextID + 1
    /\ \A j \in Items : j # i => ewItem'[j] = ewItem[j]
    /\ ewOut' = Append(ewOut, Frame(kind, ewNextID + 1, IF kind = "progress" THEN ewCount + 1 ELSE 0))
    /\ UNCHANGED <<ewChild, ewIn, ewHost, ewCount>>

\* In every other step the items that wait afterwards waited before, as they are.
Settles ==
    /\ ewNextID' = ewNextID
    /\ \A j \in Items : ewItem'[j] = ewItem[j] \/ ~Waits(j)'

\* A request that is made is written or fails.
LEMMA ExchangeAsks ==
  ASSUME EwTypeOK, NEW i \in Items, NEW kind \in {"progress", "rpc"}, exchange(i, kind)
  PROVE  Asks(i, kind) \/ (Settles /\ UNCHANGED <<ewChild, ewPipes, ewHost, ewCount>>)
<1>0. ewItem \in [Items -> ItemRecords] /\ ewItem[i] \in ItemRecords
  BY DEF EwTypeOK
<1>1. CASE ewDead \/ ewParent = "dead"
  <2>1. publishItem(i, "failed") /\ UNCHANGED <<ewNextID, ewOut, ewChild, ewIn, ewHost, ewCount>>
    BY <1>1 DEF exchange
  <2>2. ewItem' = [ewItem EXCEPT ![i] = [ewItem[i] EXCEPT !.state = "failed", !.id = 0]]
    BY <2>1 DEF publishItem, SetItem
  <2>3. \A j \in Items : j # i => ewItem'[j] = ewItem[j]
    BY <1>0, <2>2
  <2>4. ewItem'[i].state = "failed"
    BY <1>0, <2>2 DEF ItemRecords
  <2> QED
    BY <2>1, <2>3, <2>4 DEF Settles, Waits, ewPipes
<1>2. CASE ~(ewDead \/ ewParent = "dead")
  <2>1. ewItem' = [ewItem EXCEPT ![i] = [state |-> kind, asked |-> [ewItem[i].asked EXCEPT ![kind] = @ + 1],
                                         id |-> ewNextID + 1]]
    BY <1>2 DEF exchange, SetItem
  <2>2. ewItem'[i].state = kind /\ ewItem'[i].id = ewNextID + 1 /\ \A j \in Items : j # i => ewItem'[j] = ewItem[j]
    BY <1>0, <2>1
  <2> QED
    BY <1>2, <2>2 DEF exchange, Asks, emits, EwTypeOK
<1> QED
  BY <1>1, <1>2

\* An item that is published or answered waits no longer, and the others are left alone.
LEMMA PublishSettles ==
  ASSUME EwTypeOK, NEW i \in Items, NEW r,
         ewItem' = [ewItem EXCEPT ![i] = r], r.state \notin {"progress", "rpc"}, ewNextID' = ewNextID
  PROVE  Settles
BY DEF EwTypeOK, Settles, Waits

\* The end of the pipe is the end of every wait.
LEMMA FailPendingSettles ==
  ASSUME EwTypeOK, failPending
  PROVE  Settles /\ \A i \in Items : ~Waits(i)'
<1>0. ewNextID' = ewNextID
  BY DEF failPending
<1> SUFFICES ASSUME NEW j \in Items PROVE ~Waits(j)'
  BY <1>0 DEF Settles
<1>1. ewItem[j] \in ItemRecords
  BY DEF EwTypeOK
<1>2. ewItem'[j] = IF ewItem[j].state \in {"progress", "rpc"}
                   THEN [ewItem[j] EXCEPT !.state = "failed", !.id = 0] ELSE ewItem[j]
  BY DEF failPending
<1>3. ewItem'[j].state \notin {"progress", "rpc"}
  BY <1>1, <1>2 DEF ItemRecords
<1> QED
  BY <1>3 DEF Waits

\* The answer that is read: it meets nobody, or an item that waits for it.
Answered(i) ==
    /\ Waits(i) /\ ewItem[i].id = Head(ewIn).id
    /\ ~Waits(i)' /\ \A j \in Items : j # i => ewItem'[j] = ewItem[j]
    /\ ewCount' = IF ewItem[i].state = "progress" /\ Head(ewIn).type # "refused" THEN ewCount + 1 ELSE ewCount

\* Reading an answer settles at most the item whose number it has.
LEMMA ReadAnswers ==
  ASSUME EwTypeOK, readResponses
  PROVE  /\ Settles
         /\ Guest /\ ewIn # <<>> /\ ewIn' = Tail(ewIn) /\ UNCHANGED <<ewChild, ewOut, ewHost>>
         /\ \/ (\A i \in Items : Waits(i) => ewItem[i].id # Head(ewIn).id) /\ UNCHANGED <<ewItem, ewCount>>
            \/ \E i \in Items : Answered(i)
<1>1. /\ Guest /\ ewIn # <<>> /\ ewIn' = Tail(ewIn) /\ UNCHANGED <<ewChild, ewOut, ewHost>>
  BY DEF readResponses
<1>2. CASE /\ {i \in Items : ewItem[i].id = Head(ewIn).id /\ ewItem[i].state \in {"progress", "rpc"}} = {}
           /\ UNCHANGED ewGuest
  BY <1>1, <1>2 DEF Waits, Settles, ewGuest
<1>3. ASSUME NEW i \in Items, ewItem[i].id = Head(ewIn).id, ewItem[i].state \in {"progress", "rpc"},
             IF Head(ewIn).type = "refused" THEN publishItem(i, "failed")
             ELSE SetItem(i, [ewItem[i] EXCEPT !.state = "running", !.id = 0]) /\ UNCHANGED ewStopped,
             ewCount' = IF ewItem[i].state = "progress" /\ Head(ewIn).type # "refused" THEN ewCount + 1 ELSE ewCount,
             UNCHANGED <<ewNextID, ewDead>>
      PROVE  Settles /\ Answered(i)
  <2>1. ewItem \in [Items -> ItemRecords] /\ ewItem[i] \in ItemRecords
    BY DEF EwTypeOK
  <2>2. \E o \in {"failed", "running"} : ewItem' = [ewItem EXCEPT ![i] = [ewItem[i] EXCEPT !.state = o, !.id = 0]]
    BY <1>3 DEF publishItem, SetItem
  <2>3. ewItem'[i].state \in {"failed", "running"} /\ \A j \in Items : j # i => ewItem'[j] = ewItem[j]
    BY <2>1, <2>2 DEF ItemRecords
  <2> QED
    BY <1>3, <2>3 DEF Settles, Answered, Waits
<1> QED
  <2>1. \/ UNCHANGED ewGuest /\ {i \in Items : ewItem[i].id = Head(ewIn).id /\ ewItem[i].state \in {"progress", "rpc"}} = {}
        \/ \E i \in Items :
             /\ ewItem[i].id = Head(ewIn).id /\ ewItem[i].state \in {"progress", "rpc"}
             /\ IF Head(ewIn).type = "refused" THEN publishItem(i, "failed")
                ELSE SetItem(i, [ewItem[i] EXCEPT !.state = "running", !.id = 0]) /\ UNCHANGED ewStopped
             /\ ewCount' = IF ewItem[i].state = "progress" /\ Head(ewIn).type # "refused" THEN ewCount + 1 ELSE ewCount
             /\ UNCHANGED <<ewNextID, ewDead>>
    BY DEF readResponses
  <2> QED
    BY <1>1, <1>2, <1>3, <2>1

\* Every step settles waits or makes one request.
LEMMA ItemsMove ==
  ASSUME EwTypeOK, [ExecuteNext]_ewVars
  PROVE  Settles \/ \E i \in Items, kind \in {"progress", "rpc"} : exchange(i, kind) /\ Asks(i, kind)
<1>1. ASSUME NEW i \in Items, admit(i) PROVE Settles
  <2>1. ewItem' = [ewItem EXCEPT ![i] = [ewItem[i] EXCEPT !.state = "running"]] /\ ewNextID' = ewNextID
    BY <1>1 DEF admit, SetItem
  <2>2. ewItem[i] \in ItemRecords
    BY DEF EwTypeOK
  <2>3. [ewItem[i] EXCEPT !.state = "running"].state = "running"
    BY <2>2 DEF ItemRecords
  <2> QED
    BY <2>1, <2>3, PublishSettles
<1>2. ASSUME NEW i \in Items, executeItem(i) PROVE Settles
  <2>1. /\ \E o \in EvalEnded : ewItem' = [ewItem EXCEPT ![i] = [ewItem[i] EXCEPT !.state = o, !.id = 0]]
        /\ ewNextID' = ewNextID
    BY <1>2 DEF executeItem, publishItem, SetItem, EvalEnded
  <2>2. ewItem[i] \in ItemRecords
    BY DEF EwTypeOK
  <2>3. \A o \in EvalEnded : [ewItem[i] EXCEPT !.state = o, !.id = 0].state = o
    BY <2>2 DEF ItemRecords
  <2> QED
    BY <2>1, <2>3, PublishSettles DEF EvalEnded
<1>3. ASSUME NEW i \in Items, NEW kind \in {"progress", "rpc"}, exchange(i, kind)
      PROVE  Settles \/ (exchange(i, kind) /\ Asks(i, kind))
  BY <1>3, ExchangeAsks
<1>4. ASSUME readResponses PROVE Settles
  BY <1>4, ReadAnswers
<1>5. ASSUME failPending PROVE Settles
  BY <1>5, FailPendingSettles
<1>6. ASSUME Serve \/ ServeReturns \/ HostNext \/ cancelEval \/ ParentDies \/ UNCHANGED ewVars PROVE Settles
  <2>1. UNCHANGED ewGuest
    BY <1>6 DEF Serve, ServeReturns, HostNext, cancelEval, ParentDies, ewVars, readMessages, handleProgress,
       startRPCCallback, waitForCallbacks, finishResult, stopRPCCallbacks, killOnCancel, rpcResponse,
       writeResponse, Alone
  <2> QED
    BY <2>1 DEF ewGuest, Settles
<1> QED
  BY <1>1, <1>2, <1>3, <1>4, <1>5, <1>6 DEF ExecuteNext, GuestNext

\* Requests keep numbers of their own, and one item at most emits.
LEMMA WaitersStep ==
  ASSUME EwTypeOK, WaitersNumbered, OneEmits, [ExecuteNext]_ewVars
  PROVE  WaitersNumbered' /\ OneEmits'
<1>0. ewNextID \in Nat
  BY DEF EwTypeOK
<1>1. CASE Settles
  <2>1. \A j \in Items : Waits(j)' => Waits(j) /\ ewItem'[j] = ewItem[j]
    BY <1>1 DEF Settles, Waits
  <2>2. WaitersNumbered'
    BY <1>1, <2>1 DEF WaitersNumbered, Settles
  <2>3. OneEmits'
    BY <2>1 DEF OneEmits, Waits
  <2> QED
    BY <2>2, <2>3
<1>2. ASSUME NEW i \in Items, NEW kind \in {"progress", "rpc"}, Asks(i, kind)
      PROVE  WaitersNumbered' /\ OneEmits'
  <2>1. \A j \in Items : j # i => ewItem'[j] = ewItem[j] /\ (Waits(j)' <=> Waits(j))
    BY <1>2 DEF Asks, Waits
  <2>2. ewItem'[i].id = ewNextID + 1 /\ ewNextID' = ewNextID + 1
    BY <1>2 DEF Asks
  <2>3. ASSUME NEW j \in Items, Waits(j)' PROVE (ewItem[j].id)' \in 1..ewNextID'
    BY <1>0, <2>1, <2>2, <2>3 DEF WaitersNumbered
  <2>4. ASSUME NEW j \in Items, NEW k \in Items, Waits(j)', Waits(k)', ewItem'[j].id = ewItem'[k].id
        PROVE  j = k
    BY <1>0, <2>1, <2>2, <2>4 DEF WaitersNumbered
  <2>5. OneEmits'
    BY <1>2, <2>1 DEF OneEmits, Asks
  <2> QED
    BY <2>3, <2>4, <2>5 DEF WaitersNumbered
<1> QED
  BY <1>1, <1>2, ItemsMove

(***************************************************************************)
(* What the pipes, the reader and the callbacks hold.                       *)
(***************************************************************************)

\* The steps that leave the pipes, the reader and the callbacks alone.
Elsewhere ==
    \/ \E i \in Items : admit(i) \/ executeItem(i)
    \/ failPending \/ ServeReturns \/ killOnCancel \/ cancelEval
    \/ Settles /\ UNCHANGED <<ewChild, ewPipes, ewHost, ewCount>>
    \/ UNCHANGED ewVars

\* The steps elsewhere leave all of it alone, and a worker that is gone stays so.
LEMMA ElsewhereQuiet ==
  ASSUME Elsewhere
  PROVE  /\ UNCHANGED <<ewOut, ewIn, ewReader, ewCall, ewPrevious, ewRejected, ewParent, ewNextID, ewCount>>
         /\ ewChild = "gone" => ewChild' = "gone"
BY DEF Elsewhere, admit, executeItem, failPending, ServeReturns, killOnCancel, cancelEval, GuestOnly, Alone,
       ewGuest, ewPipes, ewHost, ewVars, kill, Guest, Settles

\* Every step is elsewhere, or one of those below.
LEMMA WorkerCases ==
  ASSUME EwTypeOK, [ExecuteNext]_ewVars
  PROVE  \/ Elsewhere
         \/ \E i \in Items, kind \in {"progress", "rpc"} : Asks(i, kind)
         \/ readResponses \/ Serve
         \/ readMessages \/ handleProgress \/ startRPCCallback \/ waitForCallbacks \/ finishResult
         \/ stopRPCCallbacks \/ ParentDies
         \/ \E n \in DOMAIN ewCall : rpcResponse(n) \/ writeResponse(n)
<1>1. \A i \in Items, kind \in {"progress", "rpc"} :
        exchange(i, kind) => Asks(i, kind) \/ (Settles /\ UNCHANGED <<ewChild, ewPipes, ewHost, ewCount>>)
  BY ExchangeAsks
<1> QED
  BY <1>1 DEF ExecuteNext, GuestNext, HostNext, Elsewhere

\* What the queues hold.
LEMMA Held ==
  ASSUME EwTypeOK
  PROVE  /\ \A n \in DOMAIN ewOut : ewOut[n] \in Frames /\ ewOut[n].id \in Nat
         /\ \A n \in DOMAIN ewIn : ewIn[n] \in Frames /\ ewIn[n].id \in Nat
         /\ \A n \in DOMAIN ewCall : ewCall[n] \in CallRecords /\ ewCall[n].id \in Nat
         /\ ewReader.frame \in Frames /\ ewReader.frame.id \in Nat
<1>1. ewOut \in Seq(Frames) /\ ewIn \in Seq(Frames) /\ ewCall \in Seq(CallRecords) /\ ewReader.frame \in Frames
  BY DEF EwTypeOK
<1>2. \A f \in Frames : f.id \in Nat
  BY DEF Frames
<1>3. \A c \in CallRecords : c.id \in Nat
  BY DEF CallRecords
<1> QED
  BY <1>1, <1>2, <1>3

\* A callback that goes on keeps its number and the others are left alone.
LEMMA CallGoesOn ==
  ASSUME EwTypeOK, NEW n \in DOMAIN ewCall, NEW stage, ewCall' = [ewCall EXCEPT ![n].pc = stage]
  PROVE  /\ DOMAIN ewCall' = DOMAIN ewCall /\ Len(ewCall') = Len(ewCall)
         /\ \A m \in DOMAIN ewCall : ewCall'[m].id = ewCall[m].id /\ (m # n => ewCall'[m] = ewCall[m])
         /\ ewCall'[n].pc = stage
<1>1. ewCall \in Seq(CallRecords) /\ ewCall[n] \in CallRecords
  BY Held DEF EwTypeOK
<1>2. [ewCall[n] EXCEPT !.pc = stage].pc = stage /\ [ewCall[n] EXCEPT !.pc = stage].id = ewCall[n].id
  BY <1>1 DEF CallRecords
<1> DEFINE c == [ewCall[n] EXCEPT !.pc = stage]
<1>3. ewCall' = [ewCall EXCEPT ![n] = c]
  OBVIOUS
<1> HIDE DEF c
<1>4. DOMAIN ewCall' = DOMAIN ewCall /\ ewCall'[n] = c /\ \A m \in DOMAIN ewCall : m # n => ewCall'[m] = ewCall[m]
  BY <1>1, <1>3
<1>5. Len(ewCall') = Len(ewCall)
  BY <1>1, <1>3
<1> QED
  BY <1>2, <1>4, <1>5 DEF c

\* When the parent dies its callbacks end where they are.
LEMMA CallsEnd ==
  ASSUME EwTypeOK, ParentDies
  PROVE  /\ DOMAIN ewCall' = DOMAIN ewCall /\ Len(ewCall') = Len(ewCall)
         /\ \A m \in DOMAIN ewCall : ewCall'[m].id = ewCall[m].id /\ ewCall'[m].pc = "done"
<1>1. ewCall \in Seq(CallRecords) /\ ewCall' = [m \in DOMAIN ewCall |-> [ewCall[m] EXCEPT !.pc = "done"]]
  BY DEF EwTypeOK, ParentDies
<1>2. ASSUME NEW m \in DOMAIN ewCall
      PROVE  [ewCall[m] EXCEPT !.pc = "done"].pc = "done" /\ [ewCall[m] EXCEPT !.pc = "done"].id = ewCall[m].id
  <2>1. ewCall[m] \in CallRecords
    BY Held
  <2> QED
    BY <2>1 DEF CallRecords
<1>3. Len(ewCall') = Len(ewCall)
  BY <1>1
<1>4. DOMAIN ewCall' = DOMAIN ewCall /\ \A m \in DOMAIN ewCall : ewCall'[m] = [ewCall[m] EXCEPT !.pc = "done"]
  BY <1>1
<1> QED
  BY <1>2, <1>3, <1>4

\* Numbers on the pipes were given out, and answers that refuse are counted.
LEMMA FramesStep ==
  ASSUME EwTypeOK, FramesNumbered, PipesSound, ReaderSound, [ExecuteNext]_ewVars
  PROVE  FramesNumbered' /\ PipesSound'
<1>0. /\ ewOut \in Seq(Frames) /\ ewIn \in Seq(Frames) /\ ewCall \in Seq(CallRecords)
      /\ ewNextID \in Nat /\ ewRejected \in Nat
      /\ ewReader.frame \in Frames
  BY DEF EwTypeOK
<1>1. CASE Elsewhere
  <2>1. UNCHANGED <<ewOut, ewIn, ewReader, ewCall, ewRejected, ewNextID>>
    BY <1>1, ElsewhereQuiet
  <2> QED
    BY <2>1 DEF FramesNumbered, PipesSound
<1>2. ASSUME NEW i \in Items, NEW kind \in {"progress", "rpc"}, Asks(i, kind)
      PROVE  FramesNumbered' /\ PipesSound'
  <2> DEFINE f == Frame(kind, ewNextID + 1, IF kind = "progress" THEN ewCount + 1 ELSE 0)
  <2>1. f \in Frames /\ f.id = ewNextID + 1 /\ f.type = kind
    BY DEF EwTypeOK, Frame, Frames, FrameTypes
  <2>2. ewOut' = Append(ewOut, f)
    BY <1>2 DEF Asks
  <2> HIDE DEF f
  <2>3. \A n \in DOMAIN ewOut' : (n \in DOMAIN ewOut /\ ewOut'[n] = ewOut[n]) \/ ewOut'[n] = f
    BY <1>0, <2>1, <2>2, Appended
  <2>4. ewNextID' = ewNextID + 1 /\ UNCHANGED <<ewIn, ewReader, ewCall, ewRejected>>
    BY <1>2 DEF Asks, ewHost
  <2>5. \A n \in DOMAIN ewOut' : ewOut'[n].id <= ewNextID' /\ (ewOut'[n].type = "result" => ewOut'[n].id = 0)
    <3> TAKE n \in DOMAIN ewOut'
    <3>1. CASE n \in DOMAIN ewOut /\ ewOut'[n] = ewOut[n]
      <4>1. ewOut[n].id \in Nat
        BY <3>1, Held
      <4> QED
        BY <1>0, <2>4, <3>1, <4>1 DEF FramesNumbered
    <3>2. CASE ewOut'[n] = f
      BY <1>0, <2>1, <2>4, <3>2
    <3> QED
      BY <2>3, <3>1, <3>2
  <2>6. /\ \A n \in DOMAIN ewIn : ewIn[n].id \in Nat
        /\ \A n \in DOMAIN ewCall : ewCall[n].id \in Nat
        /\ ewReader.frame.id \in Nat
    BY Held
  <2>7. FramesNumbered'
    BY <1>0, <2>4, <2>5, <2>6 DEF FramesNumbered
  <2>8. PipesSound'
    BY <2>1, <2>3, <2>4 DEF PipesSound
  <2> QED
    BY <2>7, <2>8
<1>3. CASE readResponses
  <2>1. ewIn # <<>> /\ ewIn' = Tail(ewIn) /\ UNCHANGED <<ewOut, ewReader, ewCall, ewRejected, ewNextID>>
    BY <1>3, ReadAnswers DEF ewHost, Settles
  <2>2. \A n \in DOMAIN ewIn' : \E m \in DOMAIN ewIn : ewIn'[n] = ewIn[m]
    BY <1>0, <2>1, Taken
  <2> QED
    BY <2>1, <2>2 DEF FramesNumbered, PipesSound
<1>4. CASE Serve
  <2>1. /\ ewOut' = ewOut \/ ewOut' = Append(ewOut, Frame("result", 0, 0))
        /\ UNCHANGED <<ewIn, ewReader, ewCall, ewRejected, ewNextID>>
    BY <1>4 DEF Serve, ewHost, ewGuest
  <2>2. Frame("result", 0, 0) \in Frames /\ Frame("result", 0, 0).id = 0 /\ Frame("result", 0, 0).type = "result"
    BY DEF Frame, Frames, FrameTypes
  <2>3. \A n \in DOMAIN ewOut' : (n \in DOMAIN ewOut /\ ewOut'[n] = ewOut[n]) \/ ewOut'[n] = Frame("result", 0, 0)
    BY <1>0, <2>1, <2>2, Appended
  <2>4. PipesSound'
    BY <2>1, <2>2, <2>3 DEF PipesSound
  <2>5. FramesNumbered'
    BY <1>0, <2>1, <2>2, <2>3 DEF FramesNumbered
  <2> QED
    BY <2>4, <2>5
<1>5. CASE readMessages
  <2>1. UNCHANGED <<ewIn, ewCall, ewRejected, ewNextID>>
    BY <1>5 DEF readMessages, Alone, ewGuest
  <2>2. CASE ewOut # <<>> /\ ewOut' = Tail(ewOut) /\ ewReader'.frame = Head(ewOut)
    <3>1. /\ \A n \in DOMAIN ewOut' : \E m \in DOMAIN ewOut : ewOut'[n] = ewOut[m]
          /\ \E m \in DOMAIN ewOut : Head(ewOut) = ewOut[m]
      BY <1>0, <2>2, Taken
    <3> QED
      BY <2>1, <2>2, <3>1 DEF FramesNumbered, PipesSound
  <2>3. CASE ewOut' = ewOut /\ ewReader'.frame = NoFrame
    BY <1>0, <2>1, <2>3 DEF FramesNumbered, PipesSound, NoFrame
  <2> QED
    BY <1>5, <2>2, <2>3 DEF readMessages
<1>6. CASE handleProgress
  <2>1. ewReader'.frame = ewReader.frame /\ UNCHANGED <<ewOut, ewCall, ewNextID>>
    BY <1>6 DEF handleProgress, ReaderGoes, Alone, ewGuest, EwTypeOK
  <2>2. CASE UNCHANGED <<ewIn, ewPrevious, ewRejected>>
    BY <2>1, <2>2 DEF FramesNumbered, PipesSound
  <2>3. ASSUME NEW a \in {"accepted", "refused"}, ewIn' = Append(ewIn, Frame(a, ewReader.frame.id, 0)),
               ewRejected' = IF a = "refused" THEN ewRejected + 1 ELSE ewRejected
        PROVE  FramesNumbered' /\ PipesSound'
    <3> DEFINE f == Frame(a, ewReader.frame.id, 0)
    <3>1. f \in Frames /\ f.id = ewReader.frame.id /\ f.type = a
      BY <1>0 DEF Frame, Frames, FrameTypes
    <3>2. ewIn' = Append(ewIn, f)
      BY <2>3
    <3> HIDE DEF f
    <3>3. \A n \in DOMAIN ewIn' : (n \in DOMAIN ewIn /\ ewIn'[n] = ewIn[n]) \/ ewIn'[n] = f
      BY <1>0, <3>1, <3>2, Appended
    <3>4. FramesNumbered'
      BY <2>1, <3>1, <3>3 DEF FramesNumbered
    <3>5. PipesSound'
      BY <1>0, <2>1, <2>3, <3>1, <3>3 DEF PipesSound
    <3> QED
      BY <3>4, <3>5
  <2> QED
    BY <1>6, <2>2, <2>3 DEF handleProgress
<1>7. CASE startRPCCallback
  <2>1. ewReader'.frame = ewReader.frame /\ UNCHANGED <<ewOut, ewIn, ewRejected, ewNextID>>
    BY <1>7 DEF startRPCCallback, ReaderGoes, Alone, ewGuest, ewPipes, EwTypeOK
  <2>2. ewCall' = ewCall \/ ewCall' = Append(ewCall, [pc |-> "handler", id |-> ewReader.frame.id])
    BY <1>7 DEF startRPCCallback
  <2>3. [pc |-> "handler", id |-> ewReader.frame.id] \in CallRecords
    BY <1>0 DEF CallRecords, Frames
  <2> DEFINE made == [pc |-> "handler", id |-> ewReader.frame.id]
  <2>5. made.id = ewReader.frame.id /\ made \in CallRecords /\ (ewCall' = ewCall \/ ewCall' = Append(ewCall, made))
    BY <2>2, <2>3
  <2> HIDE DEF made
  <2>4. \A n \in DOMAIN ewCall' : (n \in DOMAIN ewCall /\ ewCall'[n] = ewCall[n]) \/ ewCall'[n].id = ewReader.frame.id
    <3>1. CASE ewCall' = ewCall
      BY <3>1
    <3>2. CASE ewCall' = Append(ewCall, made)
      <4>1. \A n \in DOMAIN ewCall' : (n \in DOMAIN ewCall /\ ewCall'[n] = ewCall[n]) \/ ewCall'[n] = made
        BY <1>0, <2>5, <3>2, Appended
      <4> QED
        BY <2>5, <4>1
    <3> QED
      BY <2>5, <3>1, <3>2
  <2> QED
    BY <2>1, <2>4 DEF FramesNumbered, PipesSound
<1>8. CASE waitForCallbacks \/ finishResult \/ stopRPCCallbacks
  <2>1. ewReader'.frame = ewReader.frame /\ UNCHANGED <<ewOut, ewIn, ewCall, ewRejected, ewNextID>>
    BY <1>8 DEF waitForCallbacks, finishResult, stopRPCCallbacks, ReaderGoes, Alone, ewGuest, ewPipes, EwTypeOK
  <2> QED
    BY <2>1 DEF FramesNumbered, PipesSound
<1>9. ASSUME NEW n \in DOMAIN ewCall, rpcResponse(n) \/ writeResponse(n) PROVE FramesNumbered' /\ PipesSound'
  <2>1. UNCHANGED <<ewOut, ewReader, ewRejected, ewNextID>>
    BY <1>9 DEF rpcResponse, writeResponse, Alone, ewGuest, ewPipes
  <2>2. \E stage \in {"writing", "done"} : ewCall' = [ewCall EXCEPT ![n].pc = stage]
    BY <1>9 DEF rpcResponse, writeResponse
  <2>3. DOMAIN ewCall' = DOMAIN ewCall /\ \A m \in DOMAIN ewCall : ewCall'[m].id = ewCall[m].id
    BY <2>2, CallGoesOn
  <2>4. ewIn' = ewIn \/ ewIn' = Append(ewIn, Frame("rpc_result", ewCall[n].id, 0))
    BY <1>9 DEF rpcResponse, writeResponse, ewPipes
  <2> DEFINE f == Frame("rpc_result", ewCall[n].id, 0)
  <2>5. f \in Frames /\ f.id = ewCall[n].id /\ f.type = "rpc_result"
    BY Held DEF Frame, Frames, FrameTypes
  <2>6. ewIn' = ewIn \/ ewIn' = Append(ewIn, f)
    BY <2>4
  <2> HIDE DEF f
  <2>7. \A m \in DOMAIN ewIn' : (m \in DOMAIN ewIn /\ ewIn'[m] = ewIn[m]) \/ ewIn'[m] = f
    <3>1. ewIn \in Seq(Frames)
      BY <1>0
    <3> QED
      BY <3>1, <2>5, <2>6, Appended
  <2>8. FramesNumbered'
    BY <2>1, <2>3, <2>5, <2>7 DEF FramesNumbered
  <2>9. PipesSound'
    BY <2>1, <2>5, <2>7 DEF PipesSound
  <2> QED
    BY <2>8, <2>9
<1>10. CASE ParentDies
  <2>1. UNCHANGED <<ewOut, ewIn, ewReader, ewRejected, ewNextID>>
    BY <1>10 DEF ParentDies, Alone, ewGuest, ewPipes
  <2>2. DOMAIN ewCall' = DOMAIN ewCall /\ \A m \in DOMAIN ewCall : ewCall'[m].id = ewCall[m].id
    BY <1>10, CallsEnd
  <2> QED
    BY <2>1, <2>2 DEF FramesNumbered, PipesSound
<1> QED
  BY <1>1, <1>2, <1>3, <1>4, <1>5, <1>6, <1>7, <1>8, <1>9, <1>10, WorkerCases

\* A callback that is awaited was started.
LEMMA ActiveFinite ==
  ASSUME EwTypeOK
  PROVE  /\ IsFiniteSet(Active) /\ Cardinality(Active) \in Nat
         /\ Len(ewCall) \in Nat /\ DOMAIN ewCall = 1..Len(ewCall)
<1>1. Len(ewCall) \in Nat /\ DOMAIN ewCall = 1..Len(ewCall)
  BY DEF EwTypeOK
<1>2. IsFiniteSet(DOMAIN ewCall)
  BY <1>1, FS_Interval
<1>3. Active \subseteq DOMAIN ewCall
  BY DEF Active
<1>4. IsFiniteSet(Active)
  BY <1>2, <1>3, FS_Subset
<1> QED
  BY <1>1, <1>4, FS_CardinalityType

\* The callbacks that go on in each step: all but one, one more, or fewer.
LEMMA CallsMove ==
  ASSUME EwTypeOK, [ExecuteNext]_ewVars
  PROVE  \/ ewCall' = ewCall
         \/ /\ Active' \subseteq Active
            /\ Len(ewCall') = Len(ewCall) /\ DOMAIN ewCall' = DOMAIN ewCall
            /\ \A n \in DOMAIN ewCall : ewCall'[n].id = ewCall[n].id
         \/ /\ ReaderAt("slot") /\ ReaderGoes("reading")
            /\ Len(ewCall) < RpcLimit /\ Cardinality(Active) < RpcSlots
            /\ ewCall' = Append(ewCall, [pc |-> "handler", id |-> ewReader.frame.id])
            /\ Active' = Active \cup {Len(ewCall) + 1} /\ Len(ewCall') = Len(ewCall) + 1
<1>1. CASE Elsewhere
  BY <1>1, ElsewhereQuiet
<1>2. CASE \/ readResponses \/ Serve \/ readMessages \/ handleProgress
           \/ waitForCallbacks \/ finishResult \/ stopRPCCallbacks
           \/ \E i \in Items, kind \in {"progress", "rpc"} : Asks(i, kind)
  BY <1>2 DEF readResponses, Serve, readMessages, handleProgress, waitForCallbacks, finishResult,
     stopRPCCallbacks, Asks, ewHost
<1>3. CASE startRPCCallback
  <2>1. \/ ewCall' = ewCall
        \/ /\ ReaderAt("slot") /\ ReaderGoes("reading")
           /\ Len(ewCall) < RpcLimit /\ Cardinality(Active) < RpcSlots
           /\ ewCall' = Append(ewCall, [pc |-> "handler", id |-> ewReader.frame.id])
    BY <1>3 DEF startRPCCallback
  <2>2. ASSUME ewCall' = Append(ewCall, [pc |-> "handler", id |-> ewReader.frame.id])
        PROVE  Active' = Active \cup {Len(ewCall) + 1} /\ Len(ewCall') = Len(ewCall) + 1
    <3> DEFINE c == [pc |-> "handler", id |-> ewReader.frame.id]
    <3>1. c \in CallRecords /\ c.pc = "handler"
      BY Held DEF CallRecords
    <3>2. ewCall \in Seq(CallRecords) /\ ewCall' = Append(ewCall, c)
      BY <2>2 DEF EwTypeOK
    <3> HIDE DEF c
    <3>3. /\ DOMAIN ewCall = 1..Len(ewCall) /\ DOMAIN ewCall' = 1..(Len(ewCall) + 1) /\ Len(ewCall) \in Nat
          /\ \A n \in 1..Len(ewCall) : ewCall'[n] = ewCall[n]
          /\ ewCall'[Len(ewCall) + 1] = c
      BY <3>1, <3>2, Appended
    <3>4. Len(ewCall') = Len(ewCall) + 1
      BY <3>1, <3>2
    <3>5. \A n : n \in Active' <=> n \in Active \/ n = Len(ewCall) + 1
      BY <3>1, <3>3 DEF Active
    <3> QED
      BY <3>4, <3>5
  <2> QED
    BY <2>1, <2>2
<1>4. ASSUME NEW n \in DOMAIN ewCall, rpcResponse(n) \/ writeResponse(n)
      PROVE  /\ Active' \subseteq Active
             /\ Len(ewCall') = Len(ewCall) /\ DOMAIN ewCall' = DOMAIN ewCall
             /\ \A m \in DOMAIN ewCall : ewCall'[m].id = ewCall[m].id
  <2>1. ewCall[n].pc # "done" /\ \E stage \in {"writing", "done"} : ewCall' = [ewCall EXCEPT ![n].pc = stage]
    BY <1>4 DEF rpcResponse, writeResponse
  <2>2. /\ DOMAIN ewCall' = DOMAIN ewCall /\ Len(ewCall') = Len(ewCall)
        /\ \A m \in DOMAIN ewCall : ewCall'[m].id = ewCall[m].id /\ (m # n => ewCall'[m] = ewCall[m])
    BY <2>1, CallGoesOn
  <2>3. Active' \subseteq Active
    BY <2>1, <2>2 DEF Active
  <2> QED
    BY <2>2, <2>3
<1>5. ASSUME ParentDies
      PROVE  /\ Active' \subseteq Active
             /\ Len(ewCall') = Len(ewCall) /\ DOMAIN ewCall' = DOMAIN ewCall
             /\ \A m \in DOMAIN ewCall : ewCall'[m].id = ewCall[m].id
  BY <1>5, CallsEnd DEF Active
<1> QED
  BY <1>1, <1>2, <1>3, <1>4, <1>5, WorkerCases

\* Callbacks stay within their slots and their number.
LEMMA SlotsStep ==
  ASSUME EwTypeOK, CallbackSlots, [ExecuteNext]_ewVars
  PROVE  CallbackSlots'
<1>0. RpcSlots \in Nat /\ RpcLimit \in Nat
  BY ExecuteAssumption
<1>1. CASE ewCall' = ewCall
  BY <1>1 DEF CallbackSlots, Active
<1>2. CASE Active' \subseteq Active /\ Len(ewCall') = Len(ewCall)
  <2>1. Cardinality(Active') <= Cardinality(Active) /\ Cardinality(Active') \in Nat
    BY <1>2, ActiveFinite, FS_Subset, FS_CardinalityType
  <2> QED
    BY <1>0, <1>2, <2>1, ActiveFinite DEF CallbackSlots
<1>3. CASE /\ Len(ewCall) < RpcLimit /\ Cardinality(Active) < RpcSlots
           /\ Active' = Active \cup {Len(ewCall) + 1} /\ Len(ewCall') = Len(ewCall) + 1
  <2>0. IsFiniteSet(Active) /\ Cardinality(Active) \in Nat
    BY ActiveFinite
  <2>2. /\ IsFiniteSet(Active')
        /\ Cardinality(Active') = IF Len(ewCall) + 1 \in Active THEN Cardinality(Active) ELSE Cardinality(Active) + 1
    BY <1>3, <2>0, FS_AddElement, Zenon
  <2>1. Cardinality(Active') <= Cardinality(Active) + 1
    BY <2>0, <2>2
  <2>3. Cardinality(Active') \in Nat
    BY <2>2, FS_CardinalityType
  <2> QED
    BY <1>0, <1>3, <2>0, <2>1, <2>3, ActiveFinite DEF CallbackSlots
<1> QED
  BY <1>1, <1>2, <1>3, CallsMove

\* What the reader holds fits what it does next, and it ends after its callbacks.
LEMMA ReaderStep ==
  ASSUME EwTypeOK, ReaderSound, PipesSound, [ExecuteNext]_ewVars
  PROVE  ReaderSound'
<1>0. ewReader \in [pc : ReaderStates, frame : Frames]
  BY DEF EwTypeOK
<1>1. CASE Elsewhere
  BY <1>1, ElsewhereQuiet DEF ReaderSound, Active
<1>2. CASE readResponses \/ Serve \/ \E i \in Items, kind \in {"progress", "rpc"} : Asks(i, kind)
  <2>1. UNCHANGED ewHost /\ ewChild # "gone"
    BY <1>2 DEF readResponses, Serve, Asks, Guest
  <2> QED
    BY <2>1 DEF ReaderSound, Active, ewHost
<1>3. CASE readMessages
  <2>1. /\ ewReader.pc = "reading" /\ UNCHANGED <<ewCall, ewChild, ewPrevious, ewParent>>
    BY <1>3 DEF readMessages, ReaderAt, Alone
  <2>2. CASE /\ ewOut # <<>>
             /\ ewReader' = [frame |-> Head(ewOut),
                             pc |-> CASE Head(ewOut).type = "result" -> "awaiting"
                                      [] Head(ewOut).type = "rpc" -> "slot"
                                      [] OTHER -> IF Head(ewOut).seq = ewPrevious + 1
                                                  THEN "progress" ELSE "stopping"]
    <3>1. Head(ewOut).type \in {"progress", "rpc", "result"}
      <4>1. ewOut \in Seq(Frames)
        BY DEF EwTypeOK
      <4>2. 1 \in DOMAIN ewOut /\ Head(ewOut) = ewOut[1]
        BY <2>2, <4>1
      <4> QED
        BY <4>2 DEF PipesSound
    <3> QED
      BY <2>1, <2>2, <3>1 DEF ReaderSound
  <2>3. CASE ewReader' = [pc |-> "stopping", frame |-> NoFrame]
    BY <2>1, <2>3 DEF ReaderSound
  <2> QED
    BY <1>3, <2>2, <2>3 DEF readMessages
<1>4. CASE handleProgress
  <2>1. ewReader' = [ewReader EXCEPT !.pc = "stopping"] \/ ewReader' = [ewReader EXCEPT !.pc = "reading"]
    BY <1>4 DEF handleProgress, ReaderGoes
  <2>2. ewReader'.pc \in {"stopping", "reading"}
    BY <1>0, <2>1
  <2> QED
    BY <2>2 DEF ReaderSound
<1>5. CASE startRPCCallback
  <2>1. ewReader' = [ewReader EXCEPT !.pc = "stopping"] \/ ewReader' = [ewReader EXCEPT !.pc = "reading"]
    BY <1>5 DEF startRPCCallback, ReaderGoes
  <2>2. ewReader'.pc \in {"stopping", "reading"}
    BY <1>0, <2>1
  <2> QED
    BY <2>2 DEF ReaderSound
<1>6. CASE waitForCallbacks
  <2>1. /\ UNCHANGED ewCall
        /\ \/ ewReader' = [ewReader EXCEPT !.pc = "stopping"]
           \/ ewReader' = [ewReader EXCEPT !.pc = "closing"] /\ Active = {}
    BY <1>6 DEF waitForCallbacks, ReaderGoes
  <2>2. ewReader'.pc = "stopping" \/ (ewReader'.pc = "closing" /\ Active' = {})
    BY <1>0, <2>1 DEF Active
  <2> QED
    BY <2>2 DEF ReaderSound
<1>7. CASE finishResult
  <2>1. /\ UNCHANGED <<ewCall, ewChild, ewParent>> /\ ewReader.pc = "closing" /\ ewParent = "alive"
        /\ ewChild = "gone" /\ ewReader' = [ewReader EXCEPT !.pc = "done"]
    BY <1>7 DEF finishResult, ReaderGoes, ReaderAt
  <2>2. ewReader'.pc = "done"
    BY <1>0, <2>1
  <2> QED
    BY <2>1, <2>2 DEF ReaderSound, Active
<1>8. CASE stopRPCCallbacks
  <2>1. /\ UNCHANGED ewCall /\ ewReader.pc = "stopping" /\ ewChild' = "gone"
        /\ (ewReader' = [ewReader EXCEPT !.pc = "done"] /\ Active = {}) \/ ewReader' = ewReader
    BY <1>8 DEF stopRPCCallbacks, ReaderGoes, ReaderAt, kill
  <2>2. ewReader'.pc = "stopping" \/ (ewReader'.pc = "done" /\ Active' = {})
    BY <1>0, <2>1 DEF Active
  <2> QED
    BY <2>1, <2>2 DEF ReaderSound
<1>9. ASSUME NEW n \in DOMAIN ewCall, rpcResponse(n) \/ writeResponse(n) PROVE ReaderSound'
  <2>1. /\ UNCHANGED <<ewReader, ewChild, ewPrevious, ewParent>> /\ n \in Active
    BY <1>9 DEF rpcResponse, writeResponse, ewPipes, Active
  <2> QED
    BY <1>9, <2>1 DEF ReaderSound, rpcResponse, writeResponse
<1>10. CASE ParentDies
  BY <1>10 DEF ParentDies, ReaderSound
<1> QED
  BY <1>1, <1>2, <1>3, <1>4, <1>5, <1>6, <1>7, <1>8, <1>9, <1>10, WorkerCases

(***************************************************************************)
(* Calls and events.                                                        *)
(***************************************************************************)

\* No step but a request gives a call a new number.
LEMMA CallNumbersStep ==
  ASSUME EwTypeOK, PipesSound, ReaderSound, [ExecuteNext]_ewVars, NEW x, CallNumber(x)'
  PROVE  CallNumber(x) \/ \E i \in Items : Asks(i, "rpc") /\ x = ewNextID + 1
<1>0. /\ ewOut \in Seq(Frames) /\ ewIn \in Seq(Frames) /\ ewCall \in Seq(CallRecords)
      /\ ewReader \in [pc : ReaderStates, frame : Frames]
  BY DEF EwTypeOK
<1>1. CASE Elsewhere
  BY <1>1, ElsewhereQuiet DEF CallNumber
<1>2. ASSUME NEW i \in Items, NEW kind \in {"progress", "rpc"}, Asks(i, kind)
      PROVE  CallNumber(x) \/ (kind = "rpc" /\ x = ewNextID + 1)
  <2> DEFINE f == Frame(kind, ewNextID + 1, IF kind = "progress" THEN ewCount + 1 ELSE 0)
  <2>1. f \in Frames /\ f.id = ewNextID + 1 /\ f.type = kind
    BY DEF EwTypeOK, Frame, Frames, FrameTypes
  <2>2. ewOut' = Append(ewOut, f) /\ UNCHANGED <<ewIn, ewReader, ewCall>>
    BY <1>2 DEF Asks, ewHost
  <2> HIDE DEF f
  <2>3. \A n \in DOMAIN ewOut' : (n \in DOMAIN ewOut /\ ewOut'[n] = ewOut[n]) \/ ewOut'[n] = f
    BY <1>0, <2>1, <2>2, Appended
  <2> QED
    BY <2>1, <2>2, <2>3 DEF CallNumber
<1>3. CASE readResponses
  <2>1. ewIn # <<>> /\ ewIn' = Tail(ewIn) /\ UNCHANGED <<ewOut, ewReader, ewCall>>
    BY <1>3, ReadAnswers DEF ewHost
  <2>2. \A n \in DOMAIN ewIn' : \E m \in DOMAIN ewIn : ewIn'[n] = ewIn[m]
    BY <1>0, <2>1, Taken
  <2> QED
    BY <2>1, <2>2 DEF CallNumber
<1>4. CASE Serve
  <2>1. /\ ewOut' = ewOut \/ ewOut' = Append(ewOut, Frame("result", 0, 0))
        /\ UNCHANGED <<ewIn, ewReader, ewCall>>
    BY <1>4 DEF Serve, ewHost
  <2>2. Frame("result", 0, 0) \in Frames /\ Frame("result", 0, 0).type = "result"
    BY DEF Frame, Frames, FrameTypes
  <2>3. \A n \in DOMAIN ewOut' : (n \in DOMAIN ewOut /\ ewOut'[n] = ewOut[n]) \/ ewOut'[n] = Frame("result", 0, 0)
    <3>1. ewOut \in Seq(Frames)
      BY <1>0
    <3> QED
      BY <2>1, <2>2, <3>1, Appended
  <2> QED
    BY <2>1, <2>2, <2>3 DEF CallNumber
<1>5. CASE readMessages
  <2>1. UNCHANGED <<ewIn, ewCall>>
    BY <1>5 DEF readMessages
  <2>2. CASE /\ ewOut # <<>> /\ ewOut' = Tail(ewOut) /\ ewReader'.frame = Head(ewOut)
             /\ ewReader'.pc = "slot" => Head(ewOut).type = "rpc"
    <3>1. /\ \A n \in DOMAIN ewOut' : \E m \in DOMAIN ewOut : ewOut'[n] = ewOut[m]
          /\ \E m \in DOMAIN ewOut : Head(ewOut) = ewOut[m]
      BY <1>0, <2>2, Taken
    <3> QED
      BY <2>1, <2>2, <3>1 DEF CallNumber
  <2>3. CASE ewOut' = ewOut /\ ewReader'.pc = "stopping"
    BY <2>1, <2>3 DEF CallNumber
  <2>4. \/ /\ ewOut # <<>> /\ ewOut' = Tail(ewOut) /\ ewReader'.frame = Head(ewOut)
           /\ ewReader'.pc = "slot" => Head(ewOut).type = "rpc"
        \/ ewOut' = ewOut /\ ewReader'.pc = "stopping"
    <3>1. CASE ewOut = <<>> /\ UNCHANGED ewOut /\ ewReader' = [pc |-> "stopping", frame |-> NoFrame]
      BY <3>1
    <3>2. CASE /\ ewOut # <<>> /\ ewOut' = Tail(ewOut)
               /\ ewReader' = [frame |-> Head(ewOut),
                          pc |-> CASE Head(ewOut).type = "result" -> "awaiting"
                                   [] Head(ewOut).type = "rpc" -> "slot"
                                   [] OTHER -> IF Head(ewOut).seq = ewPrevious + 1
                                               THEN "progress" ELSE "stopping"]
      <4>1. ewReader'.frame = Head(ewOut)
        BY <3>2
      <4>2. ewReader'.pc = CASE Head(ewOut).type = "result" -> "awaiting"
                                   [] Head(ewOut).type = "rpc" -> "slot"
                                   [] OTHER -> IF Head(ewOut).seq = ewPrevious + 1
                                               THEN "progress" ELSE "stopping"
        BY <3>2
      <4>3. CASE Head(ewOut).type = "result"
        BY <3>2, <4>1, <4>2, <4>3
      <4>4. CASE Head(ewOut).type = "rpc"
        BY <3>2, <4>1, <4>2, <4>4
      <4>5. CASE Head(ewOut).type # "rpc" /\ Head(ewOut).type # "result"
        BY <3>2, <4>1, <4>2, <4>5
      <4> QED
        BY <4>3, <4>4, <4>5
    <3> QED
      BY <1>5, <3>1, <3>2 DEF readMessages
  <2> QED
    BY <2>2, <2>3, <2>4
<1>6. CASE handleProgress
  <2>1. ewReader'.pc # "slot" /\ UNCHANGED <<ewOut, ewCall>>
    <3>1. ewReader' = [ewReader EXCEPT !.pc = "stopping"] \/ ewReader' = [ewReader EXCEPT !.pc = "reading"]
      BY <1>6 DEF handleProgress, ReaderGoes
    <3> QED
      BY <1>0, <1>6, <3>1 DEF handleProgress
  <2>2. CASE ewIn' = ewIn
    BY <2>1, <2>2 DEF CallNumber
  <2>3. ASSUME NEW a \in {"accepted", "refused"}, ewIn' = Append(ewIn, Frame(a, ewReader.frame.id, 0))
        PROVE  CallNumber(x)
    <3> DEFINE f == Frame(a, ewReader.frame.id, 0)
    <3>1. f \in Frames /\ f.type = a
      BY <1>0 DEF Frame, Frames, FrameTypes
    <3>2. ewIn' = Append(ewIn, f)
      BY <2>3
    <3> HIDE DEF f
    <3>3. \A n \in DOMAIN ewIn' : (n \in DOMAIN ewIn /\ ewIn'[n] = ewIn[n]) \/ ewIn'[n] = f
      BY <1>0, <3>1, <3>2, Appended
    <3> QED
      BY <2>1, <3>1, <3>3 DEF CallNumber
  <2> QED
    BY <1>6, <2>2, <2>3 DEF handleProgress
<1>7. CASE startRPCCallback
  <2>1. /\ ewReader.pc = "slot" /\ UNCHANGED <<ewOut, ewIn>>
        /\ ewReader' = [ewReader EXCEPT !.pc = "stopping"] \/ ewReader' = [ewReader EXCEPT !.pc = "reading"]
    BY <1>7 DEF startRPCCallback, ReaderGoes, ReaderAt, ewPipes
  <2>2. ewReader'.pc # "slot"
    BY <1>0, <2>1
  <2>3. ewCall' = ewCall \/ ewCall' = Append(ewCall, [pc |-> "handler", id |-> ewReader.frame.id])
    BY <1>7 DEF startRPCCallback
  <2>4. [pc |-> "handler", id |-> ewReader.frame.id] \in CallRecords
    BY <1>0 DEF CallRecords, Frames
  <2>5. \A n \in DOMAIN ewCall' : (n \in DOMAIN ewCall /\ ewCall'[n] = ewCall[n]) \/ ewCall'[n].id = ewReader.frame.id
    <3> DEFINE c == [pc |-> "handler", id |-> ewReader.frame.id]
    <3>1. ewCall \in Seq(CallRecords) /\ c \in CallRecords /\ c.id = ewReader.frame.id
      BY <1>0, <2>4
    <3>2. ewCall' = ewCall \/ ewCall' = Append(ewCall, c)
      BY <2>3
    <3> HIDE DEF c
    <3>3. \A n \in DOMAIN ewCall' : (n \in DOMAIN ewCall /\ ewCall'[n] = ewCall[n]) \/ ewCall'[n] = c
      BY <3>1, <3>2, Appended
    <3> QED
      BY <3>1, <3>3
  <2> QED
    BY <2>1, <2>2, <2>5 DEF CallNumber
<1>8. CASE waitForCallbacks \/ finishResult \/ stopRPCCallbacks
  <2>1. /\ UNCHANGED <<ewOut, ewIn, ewCall>>
        /\ \/ \E stage \in {"stopping", "closing", "done"} : ewReader' = [ewReader EXCEPT !.pc = stage]
           \/ ewReader' = ewReader
    BY <1>8 DEF waitForCallbacks, finishResult, stopRPCCallbacks, ReaderGoes, ewPipes
  <2>2. ewReader'.pc # "slot" \/ ewReader' = ewReader
    BY <1>0, <2>1
  <2> QED
    BY <2>1, <2>2 DEF CallNumber
<1>9. ASSUME NEW n \in DOMAIN ewCall, rpcResponse(n) \/ writeResponse(n) PROVE CallNumber(x)
  <2>1. UNCHANGED <<ewOut, ewReader>>
    BY <1>9 DEF rpcResponse, writeResponse, ewPipes
  <2>2. \E stage \in {"writing", "done"} : ewCall' = [ewCall EXCEPT ![n].pc = stage]
    BY <1>9 DEF rpcResponse, writeResponse
  <2>3. DOMAIN ewCall' = DOMAIN ewCall /\ \A m \in DOMAIN ewCall : ewCall'[m].id = ewCall[m].id
    BY <2>2, CallGoesOn
  <2> DEFINE f == Frame("rpc_result", ewCall[n].id, 0)
  <2>5. f \in Frames /\ f.id = ewCall[n].id
    BY Held DEF Frame, Frames, FrameTypes
  <2>6. ewIn' = ewIn \/ ewIn' = Append(ewIn, f)
    BY <1>9 DEF rpcResponse, writeResponse, ewPipes
  <2> HIDE DEF f
  <2>7. \A m \in DOMAIN ewIn' : (m \in DOMAIN ewIn /\ ewIn'[m] = ewIn[m]) \/ ewIn'[m] = f
    <3>1. ewIn \in Seq(Frames)
      BY <1>0
    <3> QED
      BY <3>1, <2>5, <2>6, Appended
  <2> QED
    BY <2>1, <2>3, <2>5, <2>7 DEF CallNumber
<1>10. CASE ParentDies
  <2>1. UNCHANGED <<ewOut, ewIn, ewReader>>
    BY <1>10 DEF ParentDies, ewPipes
  <2>2. DOMAIN ewCall' = DOMAIN ewCall /\ \A m \in DOMAIN ewCall : ewCall'[m].id = ewCall[m].id
    BY <1>10, CallsEnd
  <2> QED
    BY <2>1, <2>2 DEF CallNumber
<1> QED
  BY <1>1, <1>2, <1>3, <1>4, <1>5, <1>6, <1>7, <1>8, <1>9, <1>10, WorkerCases

\* The numbers of calls and those of events stay apart.
LEMMA ApartStep ==
  ASSUME EwTypeOK, WaitersNumbered, FramesNumbered, CallsAndEventsApart, PipesSound, ReaderSound,
         [ExecuteNext]_ewVars
  PROVE  CallsAndEventsApart'
<1>0. ewNextID \in Nat
  BY DEF EwTypeOK
<1> SUFFICES ASSUME NEW j \in Items, NEW x, ewItem'[j].state = "progress", x = ewItem'[j].id, CallNumber(x)'
             PROVE  FALSE
  BY DEF CallsAndEventsApart, CallNumber
<1>1. CASE Settles
  <2>1. ewItem'[j] = ewItem[j]
    BY <1>1 DEF Settles, Waits
  <2>2. ewItem[j].id <= ewNextID /\ ewItem[j].id \in Nat
    BY <1>0, <2>1 DEF WaitersNumbered, Waits
  <2>3. CallNumber(x) \/ x = ewNextID + 1
    BY CallNumbersStep
  <2> QED
    BY <1>0, <2>1, <2>2, <2>3 DEF CallsAndEventsApart
<1>2. ASSUME NEW i \in Items, NEW kind \in {"progress", "rpc"}, Asks(i, kind) PROVE FALSE
  <2>1. CASE j # i
    <3>1. ewItem'[j] = ewItem[j]
      BY <1>2, <2>1 DEF Asks
    <3>2. ewItem[j].id <= ewNextID /\ ewItem[j].id \in Nat
      BY <1>0, <3>1 DEF WaitersNumbered, Waits
    <3>3. CallNumber(x) \/ x = ewNextID + 1
      BY CallNumbersStep
    <3> QED
      BY <1>0, <3>1, <3>2, <3>3 DEF CallsAndEventsApart
  <2>2. CASE j = i
    <3>1. ewItem'[i].id = ewNextID + 1 /\ ewItem'[i].state = "progress"
      BY <1>2, <2>2 DEF Asks
    <3>2. ~CallNumber(ewNextID + 1)
      BY <1>0, Held DEF FramesNumbered, CallNumber
    <3>3. PICK k \in Items : Asks(k, "rpc")
      <4>1. CallNumber(x) \/ \E k \in Items : Asks(k, "rpc")
        BY CallNumbersStep
      <4> QED
        BY <2>2, <3>1, <3>2, <4>1
    <3>4. ewItem'[k].state = "rpc" /\ ewItem[k].state = "running"
      BY <3>3 DEF Asks
    <3> QED
      BY <1>2, <2>2, <3>1, <3>4 DEF Asks
  <2> QED
    BY <2>1, <2>2
<1> QED
  BY <1>1, <1>2, ItemsMove

(***************************************************************************)
(* The two counts of events.                                                *)
(***************************************************************************)

\* An item that emits goes on emitting until an answer is read or the parent is dead.
LEMMA EmittersStay ==
  ASSUME EwTypeOK, [ExecuteNext]_ewVars, ewParent = "alive", ~readResponses
  PROVE  \A j \in Items : ewItem[j].state = "progress" => ewItem'[j] = ewItem[j]
<1>0. ewItem \in [Items -> ItemRecords]
  BY DEF EwTypeOK
<1>1. ASSUME NEW i \in Items, NEW r, ewItem' = [ewItem EXCEPT ![i] = r], ewItem[i].state # "progress"
      PROVE  \A j \in Items : ewItem[j].state = "progress" => ewItem'[j] = ewItem[j]
  BY <1>0, <1>1
<1>2. ASSUME NEW i \in Items, admit(i) \/ executeItem(i)
      PROVE  ewItem[i].state # "progress" /\ \E r : ewItem' = [ewItem EXCEPT ![i] = r]
  BY <1>2 DEF admit, executeItem, SetItem, publishItem
<1>3. ASSUME NEW i \in Items, NEW kind \in {"progress", "rpc"}, exchange(i, kind)
      PROVE  ewItem[i].state # "progress" /\ \E r : ewItem' = [ewItem EXCEPT ![i] = r]
  BY <1>3 DEF exchange, SetItem, publishItem
<1>4. ASSUME Serve \/ ServeReturns \/ HostNext \/ cancelEval \/ ParentDies \/ UNCHANGED ewVars
      PROVE  UNCHANGED ewItem
  BY <1>4 DEF Serve, ServeReturns, HostNext, cancelEval, ParentDies, ewVars, readMessages, handleProgress,
     startRPCCallback, waitForCallbacks, finishResult, stopRPCCallbacks, killOnCancel, rpcResponse,
     writeResponse, Alone, ewGuest
<1>5. ~failPending
  BY DEF failPending
<1> QED
  BY <1>1, <1>2, <1>3, <1>4, <1>5 DEF ExecuteNext, GuestNext

\* An evaluation that is disturbed stays so.
LEMMA UndisturbedBefore ==
  ASSUME EwTypeOK, [ExecuteNext]_ewVars, Undisturbed'
  PROVE  Undisturbed
<1>0. ewReader \in [pc : ReaderStates, frame : Frames] /\ ewRejected \in Nat
  BY DEF EwTypeOK
<1>1. CASE Elsewhere
  BY <1>1, ElsewhereQuiet DEF Undisturbed
<1>2. CASE readResponses \/ Serve \/ \E i \in Items, kind \in {"progress", "rpc"} : Asks(i, kind)
  <2>1. UNCHANGED ewHost
    <3>1. readResponses => UNCHANGED ewHost
      BY ReadAnswers
    <3>2. Serve => UNCHANGED ewHost
      BY DEF Serve
    <3>3. \A i \in Items, kind \in {"progress", "rpc"} : Asks(i, kind) => UNCHANGED ewHost
      BY DEF Asks
    <3> QED
      BY <1>2, <3>1, <3>2, <3>3
  <2> QED
    BY <2>1 DEF ewHost, Undisturbed
<1>3. CASE readMessages \/ startRPCCallback \/ waitForCallbacks \/ finishResult
  BY <1>3 DEF readMessages, startRPCCallback, waitForCallbacks, finishResult, ReaderAt, Undisturbed
<1>4. CASE handleProgress
  BY <1>0, <1>4 DEF handleProgress, ReaderAt, Undisturbed
<1>5. CASE stopRPCCallbacks
  <2>1. ewReader' = [ewReader EXCEPT !.pc = "done"] \/ ewReader' = ewReader
    BY <1>5 DEF stopRPCCallbacks, ReaderGoes
  <2>2. ewReader.pc = "stopping"
    BY <1>5 DEF stopRPCCallbacks, ReaderAt
  <2>3. ewReader'.pc \in {"stopping", "done"}
    BY <1>0, <2>1, <2>2
  <2> QED
    BY <2>3 DEF Undisturbed
<1>6. CASE ParentDies
  BY <1>6 DEF ParentDies, Undisturbed
<1>7. ASSUME NEW n \in DOMAIN ewCall, rpcResponse(n) \/ writeResponse(n) PROVE Undisturbed
  BY <1>7 DEF rpcResponse, writeResponse, Undisturbed
<1> QED
  BY <1>1, <1>2, <1>3, <1>4, <1>5, <1>6, <1>7, WorkerCases

\* The events and their answers are the same ones, further ahead in their queue by d and e.
SameEvents(d, e) ==
    /\ \A n \in Events' : n + d \in Events /\ ewOut'[n] = ewOut[n + d]
    /\ \A n \in Events : n - d \in Events'
    /\ \A n \in EventAnswers' : n + e \in EventAnswers /\ ewIn'[n] = ewIn[n + e]
    /\ \A n \in EventAnswers : n - e \in EventAnswers'

\* Events are numbered by their place.
LEMMA Places ==
  ASSUME EwTypeOK
  PROVE  Events \subseteq Nat \ {0} /\ EventAnswers \subseteq Nat \ {0}
<1>1. ewOut \in Seq(Frames) /\ ewIn \in Seq(Frames)
  BY DEF EwTypeOK
<1>2. DOMAIN ewOut \subseteq Nat \ {0} /\ DOMAIN ewIn \subseteq Nat \ {0}
  BY <1>1
<1> QED
  BY <1>2 DEF Events, EventAnswers

\* The counts agree as long as events, answers and emitters stay as they are.
LEMMA CountsKept ==
  ASSUME EwTypeOK, EwTypeOK', EventsAgree, NEW d \in {0, 1}, NEW e \in {0, 1}, SameEvents(d, e),
         UNCHANGED <<ewCount, ewPrevious>>,
         \A j \in Items : ewItem[j].state = "progress" => ewItem'[j] = ewItem[j],
         ewReader'.pc = "progress" <=> ewReader.pc = "progress",
         ewReader'.pc = "progress" => ewReader'.frame = ewReader.frame
  PROVE  EventsAgree'
<1>1. \A x : Emitter(x) => Emitter(x)'
  BY DEF Emitter
<1>2. Events \subseteq Nat \ {0} /\ EventAnswers \subseteq Nat \ {0}
  BY Places
<1>3. Events' \subseteq Nat \ {0} /\ EventAnswers' \subseteq Nat \ {0}
  <2>1. ewOut' \in Seq(Frames) /\ ewIn' \in Seq(Frames)
    BY DEF EwTypeOK
  <2>2. DOMAIN ewOut' \subseteq Nat \ {0} /\ DOMAIN ewIn' \subseteq Nat \ {0}
    BY <2>1
  <2> QED
    BY <2>2 DEF Events, EventAnswers
<1>4. (Events' = {} <=> Events = {}) /\ (EventAnswers' = {} <=> EventAnswers = {})
  BY DEF SameEvents
<1>5. ASSUME NEW n \in Events'
      PROVE  /\ ewOut'[n].seq = ewPrevious' + 1 /\ ewCount' = ewPrevious'
             /\ ewReader'.pc # "progress" /\ EventAnswers' = {} /\ Events' = {n}
             /\ Emitter(ewOut[n].id)'
  <2>1. n + d \in Events /\ ewOut'[n] = ewOut[n + d]
    BY <1>5 DEF SameEvents
  <2>2. /\ ewOut[n + d].seq = ewPrevious + 1 /\ ewCount = ewPrevious
        /\ ewReader.pc # "progress" /\ EventAnswers = {} /\ Events = {n + d}
        /\ Emitter(ewOut[n + d].id)
    BY <2>1 DEF EventsAgree
  <2>3. \A m \in Events' : m = n
    <3> TAKE m \in Events'
    <3>1. m + d = n + d
      BY <2>2 DEF SameEvents
    <3>2. m \in Nat /\ n \in Nat /\ d \in Nat
      BY <1>3
    <3> QED
      BY <3>1, <3>2
  <2>4. \A x : x = ewOut[n + d].id => Emitter(x)'
    BY <1>1, <2>2
  <2>5. Emitter(ewOut[n].id)'
    BY <2>1, <2>4 DEF Emitter
  <2> QED
    BY <1>4, <2>1, <2>2, <2>3, <2>5
<1>6. ASSUME NEW n \in EventAnswers'
      PROVE  ewPrevious' = ewCount' + 1 /\ EventAnswers' = {n} /\ Emitter(ewIn[n].id)'
  <2>1. n + e \in EventAnswers /\ ewIn'[n] = ewIn[n + e]
    BY <1>6 DEF SameEvents
  <2>2. ewPrevious = ewCount + 1 /\ EventAnswers = {n + e} /\ Emitter(ewIn[n + e].id)
    BY <2>1 DEF EventsAgree
  <2>3. \A m \in EventAnswers' : m = n
    <3> TAKE m \in EventAnswers'
    <3>1. m + e = n + e
      BY <2>2 DEF SameEvents
    <3>2. m \in Nat /\ n \in Nat /\ e \in Nat
      BY <1>3
    <3> QED
      BY <3>1, <3>2
  <2>4. \A x : x = ewIn[n + e].id => Emitter(x)'
    BY <1>1, <2>2
  <2>5. Emitter(ewIn[n].id)'
    BY <2>1, <2>4 DEF Emitter
  <2> QED
    BY <2>2, <2>3, <2>5
<1>7. ASSUME ewReader'.pc = "progress"
      PROVE  ewCount' = ewPrevious' /\ EventAnswers' = {} /\ Emitter(ewReader.frame.id)'
  <2>1. ewCount = ewPrevious /\ EventAnswers = {} /\ Emitter(ewReader.frame.id) /\ ewReader'.frame = ewReader.frame
    BY <1>7 DEF EventsAgree
  <2>2. \A x : x = ewReader.frame.id => Emitter(x)'
    BY <1>1, <2>1
  <2>3. Emitter(ewReader.frame.id)'
    BY <2>1, <2>2 DEF Emitter
  <2> QED
    BY <1>4, <2>1, <2>3
<1>8. Events' = {} /\ ewReader'.pc # "progress" /\ EventAnswers' = {} => ewCount' = ewPrevious'
  BY <1>4 DEF EventsAgree
<1> QED
  BY <1>5, <1>6, <1>7, <1>8 DEF EventsAgree

\* An event that is put on the worker's stdout, or anything else, at its end.
LEMMA EventPut ==
  ASSUME EwTypeOK, NEW f \in Frames, ewOut' = Append(ewOut, f)
  PROVE  /\ f.type # "progress" => Events' = Events /\ \A n \in Events : ewOut'[n] = ewOut[n]
         /\ f.type = "progress" /\ Events = {} => Events' = {Len(ewOut) + 1} /\ ewOut'[Len(ewOut) + 1] = f
<1>1. ewOut \in Seq(Frames)
  BY DEF EwTypeOK
<1>2. /\ DOMAIN ewOut = 1..Len(ewOut) /\ DOMAIN ewOut' = 1..(Len(ewOut) + 1) /\ Len(ewOut) \in Nat
      /\ \A n \in 1..Len(ewOut) : ewOut'[n] = ewOut[n]
      /\ ewOut'[Len(ewOut) + 1] = f
  BY <1>1, Appended
<1>3. \A n : n \in Events' <=> n \in Events \/ (n = Len(ewOut) + 1 /\ f.type = "progress")
  BY <1>2 DEF Events
<1>4. \A n \in Events : ewOut'[n] = ewOut[n]
  BY <1>2 DEF Events
<1> QED
  BY <1>2, <1>3, <1>4

\* An answer that is put on the worker's stdin, or anything else, at its end.
LEMMA AnswerPut ==
  ASSUME EwTypeOK, NEW f \in Frames, ewIn' = Append(ewIn, f)
  PROVE  /\ f.type \notin {"accepted", "refused"} => EventAnswers' = EventAnswers /\ \A n \in EventAnswers : ewIn'[n] = ewIn[n]
         /\ f.type \in {"accepted", "refused"} /\ EventAnswers = {} =>
               EventAnswers' = {Len(ewIn) + 1} /\ ewIn'[Len(ewIn) + 1] = f
<1>1. ewIn \in Seq(Frames)
  BY DEF EwTypeOK
<1>2. /\ DOMAIN ewIn = 1..Len(ewIn) /\ DOMAIN ewIn' = 1..(Len(ewIn) + 1) /\ Len(ewIn) \in Nat
      /\ \A n \in 1..Len(ewIn) : ewIn'[n] = ewIn[n]
      /\ ewIn'[Len(ewIn) + 1] = f
  BY <1>1, Appended
<1>3. \A n : n \in EventAnswers' <=> n \in EventAnswers \/ (n = Len(ewIn) + 1 /\ f.type \in {"accepted", "refused"})
  BY <1>2 DEF EventAnswers
<1>4. \A n \in EventAnswers : ewIn'[n] = ewIn[n]
  BY <1>2 DEF EventAnswers
<1> QED
  BY <1>2, <1>3, <1>4

\* A frame that is taken from the worker's stdout.
LEMMA EventTaken ==
  ASSUME EwTypeOK, ewOut # <<>>, ewOut' = Tail(ewOut)
  PROVE  /\ Head(ewOut).type = "progress" <=> 1 \in Events
         /\ Head(ewOut) = ewOut[1]
         /\ \A n \in Events' : n + 1 \in Events /\ ewOut'[n] = ewOut[n + 1]
         /\ \A n \in Events : n # 1 => n - 1 \in Events'
<1>1. ewOut \in Seq(Frames)
  BY DEF EwTypeOK
<1>2. /\ Len(ewOut) \in Nat \ {0} /\ DOMAIN ewOut = 1..Len(ewOut) /\ DOMAIN ewOut' = 1..(Len(ewOut) - 1)
      /\ Head(ewOut) = ewOut[1]
      /\ \A n \in 1..(Len(ewOut) - 1) : ewOut'[n] = ewOut[n + 1]
  BY <1>1, Taken
<1>3. ASSUME NEW n \in Events' PROVE n + 1 \in Events /\ ewOut'[n] = ewOut[n + 1]
  BY <1>2, <1>3 DEF Events
<1>4. ASSUME NEW n \in Events, n # 1 PROVE n - 1 \in Events'
  <2>1. n \in 1..Len(ewOut) /\ n - 1 \in 1..(Len(ewOut) - 1) /\ (n - 1) + 1 = n
    BY <1>2, <1>4 DEF Events
  <2> QED
    BY <1>2, <1>4, <2>1 DEF Events
<1>5. Head(ewOut).type = "progress" <=> 1 \in Events
  BY <1>2 DEF Events
<1> QED
  BY <1>2, <1>3, <1>4, <1>5

\* An answer that is taken from the worker's stdin.
LEMMA AnswerTaken ==
  ASSUME EwTypeOK, ewIn # <<>>, ewIn' = Tail(ewIn)
  PROVE  /\ Head(ewIn).type \in {"accepted", "refused"} <=> 1 \in EventAnswers
         /\ Head(ewIn) = ewIn[1] /\ 1 \in DOMAIN ewIn
         /\ \A n \in EventAnswers' : n + 1 \in EventAnswers /\ ewIn'[n] = ewIn[n + 1]
         /\ \A n \in EventAnswers : n # 1 => n - 1 \in EventAnswers'
<1>1. ewIn \in Seq(Frames)
  BY DEF EwTypeOK
<1>2. /\ Len(ewIn) \in Nat \ {0} /\ DOMAIN ewIn = 1..Len(ewIn) /\ DOMAIN ewIn' = 1..(Len(ewIn) - 1)
      /\ Head(ewIn) = ewIn[1]
      /\ \A n \in 1..(Len(ewIn) - 1) : ewIn'[n] = ewIn[n + 1]
  BY <1>1, Taken
<1>3. ASSUME NEW n \in EventAnswers' PROVE n + 1 \in EventAnswers /\ ewIn'[n] = ewIn[n + 1]
  BY <1>2, <1>3 DEF EventAnswers
<1>4. ASSUME NEW n \in EventAnswers, n # 1 PROVE n - 1 \in EventAnswers'
  <2>1. n \in 1..Len(ewIn) /\ n - 1 \in 1..(Len(ewIn) - 1) /\ (n - 1) + 1 = n
    BY <1>2, <1>4 DEF EventAnswers
  <2> QED
    BY <1>2, <1>4, <2>1 DEF EventAnswers
<1>5. Head(ewIn).type \in {"accepted", "refused"} <=> 1 \in EventAnswers
  BY <1>2 DEF EventAnswers
<1>6. 1 \in DOMAIN ewIn
  BY <1>2
<1>7. Head(ewIn) = ewIn[1]
  BY <1>2
<1> QED
  BY <1>3, <1>4, <1>5, <1>6, <1>7

\* Queues that stay as they are hold the same events.
LEMMA EventsUnmoved ==
  ASSUME EwTypeOK
  PROVE  /\ ewOut' = ewOut => Events' = Events
         /\ ewIn' = ewIn => EventAnswers' = EventAnswers
         /\ Events' = Events /\ (\A n \in Events : ewOut'[n] = ewOut[n]) =>
              /\ \A n \in Events' : n + 0 \in Events /\ ewOut'[n] = ewOut[n + 0]
              /\ \A n \in Events : n - 0 \in Events'
         /\ EventAnswers' = EventAnswers /\ (\A n \in EventAnswers : ewIn'[n] = ewIn[n]) =>
              /\ \A n \in EventAnswers' : n + 0 \in EventAnswers /\ ewIn'[n] = ewIn[n + 0]
              /\ \A n \in EventAnswers : n - 0 \in EventAnswers'
<1>1. /\ ewOut' = ewOut => Events' = Events
      /\ ewIn' = ewIn => EventAnswers' = EventAnswers
  BY DEF Events, EventAnswers
<1>2. /\ \A n \in Events : n + 0 = n /\ n - 0 = n
      /\ \A n \in EventAnswers : n + 0 = n /\ n - 0 = n
  BY Places
<1> QED
  BY <1>1, <1>2

\* The counts agree after every step that leaves the evaluation undisturbed.
LEMMA CountsStep ==
  ASSUME EwTypeOK, EwTypeOK', WaitersNumbered, CallsAndEventsApart, ReaderSound, PipesSound,
         CountsAgree, [ExecuteNext]_ewVars
  PROVE  CountsAgree'
<1> SUFFICES ASSUME Undisturbed' PROVE EventsAgree'
  BY DEF CountsAgree
<1>0. EventsAgree /\ Undisturbed
  BY UndisturbedBefore DEF CountsAgree
<1>a. ewReader \in [pc : ReaderStates, frame : Frames] /\ ewOut \in Seq(Frames) /\ ewIn \in Seq(Frames)
  BY DEF EwTypeOK
<1>b. ewParent = "alive" /\ ewRejected = 0 /\ ewReader.pc \notin {"stopping", "done"}
  BY <1>0 DEF Undisturbed
<1>c. ~readResponses => \A j \in Items : ewItem[j].state = "progress" => ewItem'[j] = ewItem[j]
  BY <1>b, EmittersStay
<1>d. ASSUME UNCHANGED <<ewOut, ewIn, ewCount, ewPrevious>>, ~readResponses,
             ewReader'.pc = "progress" <=> ewReader.pc = "progress",
             ewReader'.pc = "progress" => ewReader'.frame = ewReader.frame
      PROVE  EventsAgree'
  <2>1. SameEvents(0, 0)
    BY <1>d, EventsUnmoved DEF SameEvents
  <2> QED
    BY <1>0, <1>c, <1>d, <2>1, CountsKept
<1>1. CASE Elsewhere
  <2>1. CASE readResponses
    <3>2. ewIn' = ewIn /\ ewIn' = Tail(ewIn) /\ ewIn # <<>>
      BY <1>1, <2>1, ElsewhereQuiet, ReadAnswers
    <3>3. Len(ewIn) \in Nat /\ Len(Tail(ewIn)) = Len(ewIn) - 1
      BY <1>a, <3>2
    <3> QED
      BY <3>2, <3>3
  <2>2. CASE ~readResponses
    BY <1>1, <1>d, <2>2, ElsewhereQuiet
  <2> QED
    BY <2>1, <2>2
<1>2. ASSUME NEW i \in Items, NEW kind \in {"progress", "rpc"}, Asks(i, kind), ~readResponses
      PROVE  EventsAgree'
  <2> DEFINE f == Frame(kind, ewNextID + 1, IF kind = "progress" THEN ewCount + 1 ELSE 0)
  <2>1. /\ f \in Frames /\ f.id = ewNextID + 1 /\ f.type = kind
        /\ kind = "progress" => f.seq = ewCount + 1
    BY DEF EwTypeOK, Frame, Frames, FrameTypes
  <2>2. ewOut' = Append(ewOut, f)
    BY <1>2 DEF Asks
  <2> HIDE DEF f
  <2>3. UNCHANGED <<ewIn, ewReader, ewCount, ewPrevious>>
    BY <1>2 DEF Asks, ewHost
  <2>4. CASE kind = "rpc"
    <3>1. Events' = Events /\ \A n \in Events : ewOut'[n] = ewOut[n]
      BY <2>1, <2>2, <2>4, EventPut
    <3>2. SameEvents(0, 0)
      BY <2>3, <3>1, EventsUnmoved DEF SameEvents
    <3> QED
      BY <1>0, <1>2, <1>c, <2>3, <3>2, CountsKept
  <2>5. CASE kind = "progress"
    <3>1. \A x : ~Emitter(x)
      BY <1>2, <2>5 DEF Asks, Emitter
    <3>2. Events = {} /\ ewReader.pc # "progress" /\ EventAnswers = {}
      BY <1>0, <3>1 DEF EventsAgree
    <3>3. ewCount = ewPrevious
      BY <1>0, <3>2 DEF EventsAgree
    <3>4. Events' = {Len(ewOut) + 1} /\ ewOut'[Len(ewOut) + 1] = f
      BY <2>1, <2>2, <2>5, <3>2, EventPut
    <3>5. EventAnswers' = {}
      BY <2>3, <3>2, EventsUnmoved
    <3>6. ewItem'[i].state = "progress" /\ ewItem'[i].id = f.id
      BY <1>2, <2>1, <2>5 DEF Asks
    <3>7. ASSUME NEW n \in Events' PROVE n = Len(ewOut) + 1 /\ ewOut'[n] = f
      BY <3>4
    <3>8. \A n \in Events' : Emitter(ewOut[n].id)'
      BY <1>2, <3>6, <3>7 DEF Emitter
    <3> QED
      BY <2>1, <2>3, <2>5, <3>2, <3>3, <3>4, <3>5, <3>7, <3>8 DEF EventsAgree
  <2> QED
    BY <2>4, <2>5
<1>3. CASE readResponses
  <2>1. /\ ewIn # <<>> /\ ewIn' = Tail(ewIn) /\ UNCHANGED <<ewOut, ewReader, ewPrevious>>
        /\ \/ (\A i \in Items : Waits(i) => ewItem[i].id # Head(ewIn).id) /\ UNCHANGED <<ewItem, ewCount>>
           \/ \E i \in Items : Answered(i)
    BY <1>3, ReadAnswers DEF ewHost
  <2>2. /\ Head(ewIn).type \in {"accepted", "refused"} <=> 1 \in EventAnswers
        /\ Head(ewIn) = ewIn[1] /\ 1 \in DOMAIN ewIn
        /\ \A n \in EventAnswers' : n + 1 \in EventAnswers /\ ewIn'[n] = ewIn[n + 1]
        /\ \A n \in EventAnswers : n # 1 => n - 1 \in EventAnswers'
    BY <2>1, AnswerTaken
  <2>3. Head(ewIn).type \in {"accepted", "rpc_result"}
    <3>1. ewIn[1].type # "refused"
      BY <1>b, <2>2 DEF PipesSound
    <3> QED
      BY <2>2, <3>1 DEF PipesSound
  <2>4. CASE Head(ewIn).type = "rpc_result"
    <3>1. CallNumber(Head(ewIn).id)
      BY <2>2, <2>4 DEF CallNumber
    <3>2. /\ ewCount' = ewCount
          /\ \A j \in Items : ewItem[j].state = "progress" => ewItem'[j] = ewItem[j]
      <4>1. CASE UNCHANGED <<ewItem, ewCount>>
        BY <4>1
      <4>2. ASSUME NEW i \in Items, Answered(i)
            PROVE  /\ ewCount' = ewCount
                   /\ \A j \in Items : ewItem[j].state = "progress" => ewItem'[j] = ewItem[j]
        <5>1. ewItem[i].state # "progress"
          BY <3>1, <4>2 DEF Answered, CallsAndEventsApart
        <5> QED
          BY <4>2, <5>1 DEF Answered
      <4> QED
        BY <2>1, <4>1, <4>2
    <3>3. SameEvents(0, 1)
      BY <2>1, <2>2, <2>4, EventsUnmoved DEF SameEvents
    <3> QED
      BY <1>0, <2>1, <3>2, <3>3, CountsKept
  <2>5. CASE Head(ewIn).type = "accepted"
    <3>1. ewPrevious = ewCount + 1 /\ EventAnswers = {1} /\ Emitter(ewIn[1].id)
      BY <1>0, <2>2, <2>5 DEF EventsAgree
    <3>2. PICK i \in Items : ewItem[i].state = "progress" /\ ewItem[i].id = Head(ewIn).id
      BY <2>2, <3>1 DEF Emitter
    <3>3. PICK j \in Items : Answered(j)
      BY <2>1, <3>2 DEF Waits
    <3>4. j = i
      BY <3>2, <3>3 DEF Answered, WaitersNumbered, Waits
    <3>5. ewCount' = ewPrevious'
      BY <2>1, <2>5, <3>1, <3>2, <3>3, <3>4 DEF Answered
    <3>6. EventAnswers' = {}
      <4>1. \A n \in EventAnswers' : n + 1 = 1 /\ n \in Nat \ {0}
        <5>1. ewIn' \in Seq(Frames)
          BY DEF EwTypeOK
        <5>2. DOMAIN ewIn' \subseteq Nat \ {0}
          BY <5>1
        <5> QED
          BY <2>2, <3>1, <5>2 DEF EventAnswers
      <4> QED
        BY <4>1
    <3>7. Events = {} /\ ewReader.pc # "progress"
      BY <1>0, <3>1 DEF EventsAgree
    <3>8. Events' = {} /\ ewReader'.pc # "progress"
      BY <2>1, <3>7, EventsUnmoved
    <3> QED
      BY <3>5, <3>6, <3>8 DEF EventsAgree
  <2> QED
    BY <2>3, <2>4, <2>5
<1>4. CASE Serve /\ ~readResponses
  <2>1. /\ ewOut' = ewOut \/ ewOut' = Append(ewOut, Frame("result", 0, 0))
        /\ UNCHANGED <<ewIn, ewReader, ewCount, ewPrevious>>
    BY <1>4 DEF Serve, ewHost, ewGuest
  <2>2. Frame("result", 0, 0) \in Frames /\ Frame("result", 0, 0).type = "result"
    BY DEF Frame, Frames, FrameTypes
  <2>3. CASE ewOut' = Append(ewOut, Frame("result", 0, 0))
    <3>1. Events' = Events /\ \A n \in Events : ewOut'[n] = ewOut[n]
      BY <2>2, <2>3, EventPut
    <3>2. SameEvents(0, 0)
      BY <2>1, <3>1, EventsUnmoved DEF SameEvents
    <3> QED
      BY <1>0, <1>4, <1>c, <2>1, <3>2, CountsKept
  <2>4. CASE ewOut' = ewOut
    BY <1>4, <1>d, <2>1, <2>4
  <2> QED
    BY <2>1, <2>3, <2>4
<1>5. CASE readMessages /\ ~readResponses
  <2>1. ewReader.pc = "reading" /\ UNCHANGED <<ewIn, ewItem, ewCount, ewPrevious>>
    BY <1>5 DEF readMessages, ReaderAt, Alone, ewGuest
  <2>2. ~(ewReader' = [pc |-> "stopping", frame |-> NoFrame])
    BY DEF Undisturbed
  <2>3. /\ ewOut # <<>> /\ ewOut' = Tail(ewOut)
        /\ ewReader' = [frame |-> Head(ewOut),
                        pc |-> CASE Head(ewOut).type = "result" -> "awaiting"
                                 [] Head(ewOut).type = "rpc" -> "slot"
                                 [] OTHER -> IF Head(ewOut).seq = ewPrevious + 1
                                             THEN "progress" ELSE "stopping"]
    BY <1>5, <2>2 DEF readMessages
  <2>4. /\ Head(ewOut).type = "progress" <=> 1 \in Events
        /\ Head(ewOut) = ewOut[1]
        /\ \A n \in Events' : n + 1 \in Events /\ ewOut'[n] = ewOut[n + 1]
        /\ \A n \in Events : n # 1 => n - 1 \in Events'
    BY <2>3, EventTaken
  <2>5. CASE Head(ewOut).type # "progress"
    <3>1. ewReader'.pc # "progress"
      <4>1. Head(ewOut).type \in {"rpc", "result"}
        <5>1. 1 \in DOMAIN ewOut
          BY <1>a, <2>3
        <5> QED
          BY <2>4, <2>5, <5>1 DEF PipesSound
      <4>2. CASE Head(ewOut).type = "rpc"
        BY <2>3, <4>2
      <4>3. CASE Head(ewOut).type = "result"
        BY <2>3, <4>3
      <4> QED
        BY <4>1, <4>2, <4>3
    <3>2. SameEvents(1, 0)
      BY <2>1, <2>4, <2>5, EventsUnmoved DEF SameEvents
    <3> QED
      BY <1>0, <1>5, <1>c, <2>1, <3>1, <3>2, CountsKept
  <2>6. CASE Head(ewOut).type = "progress"
    <3>1. /\ Head(ewOut).seq = ewPrevious + 1 /\ ewCount = ewPrevious /\ EventAnswers = {} /\ Events = {1}
          /\ Emitter(Head(ewOut).id)
      BY <1>0, <2>4, <2>6 DEF EventsAgree
    <3>2. ewReader'.pc = "progress" /\ ewReader'.frame = Head(ewOut)
      BY <2>3, <2>6, <3>1
    <3>3. Events' = {}
      <4>1. \A n \in Events' : n + 1 = 1 /\ n \in Nat \ {0}
        <5>1. ewOut' \in Seq(Frames)
          BY DEF EwTypeOK
        <5>2. DOMAIN ewOut' \subseteq Nat \ {0}
          BY <5>1
        <5> QED
          BY <2>4, <3>1, <5>2 DEF Events
      <4> QED
        BY <4>1
    <3>4. EventAnswers' = {}
      BY <2>1, <3>1, EventsUnmoved
    <3>5. Emitter(ewReader.frame.id)'
      BY <2>1, <3>1, <3>2 DEF Emitter
    <3> QED
      BY <2>1, <3>1, <3>2, <3>3, <3>4, <3>5 DEF EventsAgree
  <2> QED
    BY <2>5, <2>6
<1>6. CASE handleProgress /\ ~readResponses
  <2>1. ewReader.pc = "progress" /\ UNCHANGED <<ewOut, ewItem, ewCount>>
    BY <1>6 DEF handleProgress, ReaderAt, Alone, ewGuest
  <2>2. ~ReaderGoes("stopping")
    BY <1>a DEF ReaderGoes, Undisturbed
  <2>3. PICK a \in {"accepted", "refused"} :
           /\ ewIn' = Append(ewIn, Frame(a, ewReader.frame.id, 0))
           /\ ewRejected' = IF a = "refused" THEN ewRejected + 1 ELSE ewRejected
    BY <1>6, <2>2 DEF handleProgress
  <2>4. ewPrevious' = ewReader.frame.seq /\ ewReader' = [ewReader EXCEPT !.pc = "reading"]
    BY <1>6, <2>2 DEF handleProgress, ReaderGoes
  <2>5. /\ ewCount = ewPrevious /\ EventAnswers = {} /\ Emitter(ewReader.frame.id) /\ Events = {}
        /\ ewReader.frame.seq = ewPrevious + 1
    BY <1>0, <2>1 DEF EventsAgree, ReaderSound
  <2>6. a = "accepted"
    BY <1>b, <2>3 DEF Undisturbed
  <2> DEFINE f == Frame("accepted", ewReader.frame.id, 0)
  <2>7. f \in Frames /\ f.type = "accepted" /\ f.id = ewReader.frame.id
    BY <1>a DEF Frame, Frames, FrameTypes
  <2>8. ewIn' = Append(ewIn, f)
    BY <2>3, <2>6
  <2> HIDE DEF f
  <2>9. EventAnswers' = {Len(ewIn) + 1} /\ ewIn'[Len(ewIn) + 1] = f
    BY <2>5, <2>7, <2>8, AnswerPut
  <2>10. Events' = {} /\ ewReader'.pc # "progress"
    BY <1>a, <2>1, <2>4, <2>5, EventsUnmoved
  <2>11. ASSUME NEW n \in EventAnswers' PROVE n = Len(ewIn) + 1 /\ ewIn'[n] = f
    BY <2>9
  <2>12. \A n \in EventAnswers' : Emitter(ewIn[n].id)'
    BY <2>1, <2>5, <2>7, <2>11 DEF Emitter
  <2> QED
    BY <2>1, <2>4, <2>5, <2>9, <2>10, <2>12 DEF EventsAgree
<1>7. CASE (startRPCCallback \/ waitForCallbacks \/ finishResult) /\ ~readResponses
  <2>1. UNCHANGED <<ewOut, ewIn, ewCount, ewPrevious>> /\ ewReader.pc \in {"slot", "awaiting", "closing"}
    BY <1>7 DEF startRPCCallback, waitForCallbacks, finishResult, ReaderAt, Alone, ewGuest, ewPipes
  <2>2. \E stage \in {"reading", "stopping", "closing", "done"} : ewReader' = [ewReader EXCEPT !.pc = stage]
    BY <1>7 DEF startRPCCallback, waitForCallbacks, finishResult, ReaderGoes
  <2>3. ewReader'.pc # "progress" /\ ewReader.pc # "progress"
    BY <1>a, <2>1, <2>2
  <2> QED
    BY <1>7, <1>d, <2>1, <2>3
<1>8. CASE stopRPCCallbacks \/ ParentDies
  BY <1>8, <1>b DEF stopRPCCallbacks, ParentDies, ReaderAt, Undisturbed
<1>9. ASSUME NEW n \in DOMAIN ewCall, rpcResponse(n) \/ writeResponse(n), ~readResponses PROVE EventsAgree'
  <2>1. UNCHANGED <<ewOut, ewReader, ewCount, ewPrevious>>
    BY <1>9 DEF rpcResponse, writeResponse, Alone, ewGuest, ewPipes
  <2> DEFINE f == Frame("rpc_result", ewCall[n].id, 0)
  <2>2. f \in Frames /\ f.type = "rpc_result"
    BY Held DEF Frame, Frames, FrameTypes
  <2>3. ewIn' = ewIn \/ ewIn' = Append(ewIn, f)
    BY <1>9 DEF rpcResponse, writeResponse, ewPipes
  <2> HIDE DEF f
  <2>4. CASE ewIn' = Append(ewIn, f)
    <3>1. EventAnswers' = EventAnswers /\ \A m \in EventAnswers : ewIn'[m] = ewIn[m]
      BY <2>2, <2>4, AnswerPut
    <3>2. SameEvents(0, 0)
      BY <2>1, <3>1, EventsUnmoved DEF SameEvents
    <3> QED
      BY <1>0, <1>9, <1>c, <2>1, <3>2, CountsKept
  <2>5. CASE ewIn' = ewIn
    BY <1>9, <1>d, <2>1, <2>5
  <2> QED
    BY <2>3, <2>4, <2>5
<1> QED
  BY <1>1, <1>2, <1>3, <1>4, <1>5, <1>6, <1>7, <1>8, <1>9, WorkerCases

(***************************************************************************)
(* What an evaluation promises.                                             *)
(***************************************************************************)

\* The parent ends an evaluation for a broken sequence only after a refusal.
LEMMA SequenceStep ==
  ASSUME EwTypeOK, ReaderSound, PipesSound, CountsAgree, SequenceBreaksOnlyAfterRefusal, [ExecuteNext]_ewVars
  PROVE  SequenceBreaksOnlyAfterRefusal'
<1>0. ewReader \in [pc : ReaderStates, frame : Frames] /\ ewOut \in Seq(Frames) /\ ewRejected \in Nat
  BY DEF EwTypeOK
<1> SUFFICES ASSUME ewReader'.pc = "stopping", ewReader'.frame.type = "progress",
                    ewReader'.frame.seq # ewPrevious' + 1
             PROVE  ewRejected' > 0
  BY DEF SequenceBreaksOnlyAfterRefusal
<1>1. CASE UNCHANGED <<ewReader, ewPrevious, ewRejected>>
  BY <1>1 DEF SequenceBreaksOnlyAfterRefusal
<1>2. CASE Elsewhere
  BY <1>1, <1>2, ElsewhereQuiet
<1>3. CASE Serve
  BY <1>1, <1>3 DEF Serve, ewHost
<1>4. ASSUME NEW i \in Items, NEW kind \in {"progress", "rpc"}, Asks(i, kind) PROVE ewRejected' > 0
  BY <1>1, <1>4 DEF Asks, ewHost
<1>5. CASE readResponses
  BY <1>1, <1>5, ReadAnswers DEF ewHost
<1>6. CASE readMessages
  <2>1. UNCHANGED <<ewPrevious, ewRejected, ewParent>> /\ ewReader.pc = "reading" /\ ewParent = "alive"
    BY <1>6 DEF readMessages, ReaderAt
  <2>2. ewReader' # [pc |-> "stopping", frame |-> NoFrame]
    BY DEF NoFrame
  <2>3. ewOut # <<>> /\ ewOut' = Tail(ewOut) /\ ewReader'.frame = Head(ewOut)
    BY <1>6, <2>2 DEF readMessages
  <2>4. 1 \in Events /\ Head(ewOut) = ewOut[1]
    BY <2>3, EventTaken
  <2>5. ~EventsAgree
    BY <2>1, <2>3, <2>4 DEF EventsAgree
  <2>6. ewRejected # 0
    BY <2>1, <2>5 DEF CountsAgree, Undisturbed
  <2> QED
    BY <1>0, <2>1, <2>6
<1>7. CASE handleProgress
  <2>1. \/ ewReader' = [ewReader EXCEPT !.pc = "stopping"] /\ UNCHANGED ewPrevious
        \/ ewReader' = [ewReader EXCEPT !.pc = "reading"]
    BY <1>7 DEF handleProgress, ReaderGoes
  <2>2. ewReader'.frame = ewReader.frame /\ ewPrevious' = ewPrevious
    BY <1>0, <2>1
  <2> QED
    BY <1>7, <2>2 DEF ReaderSound, handleProgress, ReaderAt
<1>8. CASE startRPCCallback \/ waitForCallbacks \/ finishResult
  <2>1. \E stage \in ReaderStates : ewReader' = [ewReader EXCEPT !.pc = stage]
    BY <1>8 DEF startRPCCallback, waitForCallbacks, finishResult, ReaderGoes, ReaderStates
  <2>2. ewReader'.frame = ewReader.frame
    BY <1>0, <2>1
  <2>3. ~finishResult
    <3>1. finishResult => ewReader' = [ewReader EXCEPT !.pc = "done"]
      BY DEF finishResult, ReaderGoes
    <3> QED
      BY <1>0, <3>1
  <2> QED
    BY <1>8, <2>2, <2>3 DEF ReaderSound, startRPCCallback, waitForCallbacks, ReaderAt
<1>9. CASE stopRPCCallbacks
  <2>1. /\ UNCHANGED <<ewPrevious, ewRejected>>
        /\ ewReader' = [ewReader EXCEPT !.pc = "done"] \/ ewReader' = ewReader
    BY <1>9 DEF stopRPCCallbacks, ReaderGoes
  <2>2. ewReader' = ewReader
    BY <1>0, <2>1
  <2> QED
    BY <1>1, <2>1, <2>2
<1>10. ASSUME NEW n \in DOMAIN ewCall, rpcResponse(n) \/ writeResponse(n) PROVE ewRejected' > 0
  BY <1>1, <1>10 DEF rpcResponse, writeResponse
<1>11. CASE ParentDies
  BY <1>1, <1>11 DEF ParentDies
<1> QED
  BY <1>2, <1>3, <1>4, <1>5, <1>6, <1>7, <1>8, <1>9, <1>10, <1>11, WorkerCases

\* Callbacks that were canceled stay canceled, and a worker that does not evaluate never will.
LEMMA EndsStay ==
  ASSUME EwTypeOK, [ExecuteNext]_ewVars
  PROVE  /\ CallbacksCanceled => CallbacksCanceled'
         /\ ewParent = "dead" => ewParent' = "dead"
         /\ Guest' => Guest
<1>0. ewReader \in [pc : ReaderStates, frame : Frames] /\ ewChild \in {"eval", "result", "gone"}
      /\ ewParent \in {"alive", "dead"}
  BY DEF EwTypeOK
<1>1. ASSUME NEW i \in Items, admit(i) \/ executeItem(i)
      PROVE  UNCHANGED <<ewCtx, ewParent, ewReader>> /\ ewChild' = ewChild
  BY <1>1 DEF admit, executeItem, GuestOnly, ewHost
<1>2. ASSUME NEW i \in Items, NEW kind \in {"progress", "rpc"}, exchange(i, kind)
      PROVE  UNCHANGED <<ewCtx, ewParent, ewReader>> /\ ewChild' = ewChild
  BY <1>2 DEF exchange, ewHost
<1>3. ASSUME readResponses \/ failPending
      PROVE  UNCHANGED <<ewCtx, ewParent, ewReader>> /\ ewChild' = ewChild
  <2>1. readResponses => UNCHANGED <<ewCtx, ewParent, ewReader>> /\ ewChild' = ewChild
    BY ReadAnswers DEF ewHost
  <2>2. failPending => UNCHANGED <<ewCtx, ewParent, ewReader>> /\ ewChild' = ewChild
    <3>1. failPending => UNCHANGED ewHost /\ ewChild' = ewChild
      BY DEF failPending
    <3> QED
      BY <3>1 DEF ewHost
  <2> QED
    BY <1>3, <2>1, <2>2
<1>4. ASSUME Serve \/ ServeReturns
      PROVE  UNCHANGED <<ewCtx, ewParent, ewReader>> /\ ~Guest'
  BY <1>4 DEF Serve, ServeReturns, ewHost, Guest
<1>5. ASSUME readMessages \/ handleProgress \/ startRPCCallback \/ waitForCallbacks
      PROVE  /\ UNCHANGED <<ewCtx, ewParent>> /\ ewChild' = ewChild
             /\ ewReader.pc \notin {"stopping", "done"}
  BY <1>5 DEF readMessages, handleProgress, startRPCCallback, waitForCallbacks, ReaderAt
<1>6. ASSUME finishResult
      PROVE  UNCHANGED <<ewCtx, ewParent>> /\ ewChild' = ewChild /\ ewReader.pc \notin {"stopping", "done"}
  BY <1>6 DEF finishResult, ReaderAt
<1>7. ASSUME stopRPCCallbacks
      PROVE  UNCHANGED <<ewCtx, ewParent>> /\ ~Guest' /\ ewReader'.pc \in {"stopping", "done"}
  <2>1. /\ UNCHANGED <<ewCtx, ewParent>> /\ ewChild' = "gone" /\ ewReader.pc = "stopping"
        /\ ewReader' = [ewReader EXCEPT !.pc = "done"] \/ ewReader' = ewReader
    BY <1>7 DEF stopRPCCallbacks, ReaderGoes, kill, ReaderAt
  <2> QED
    BY <1>0, <2>1 DEF Guest
<1>8. ASSUME killOnCancel
      PROVE  UNCHANGED <<ewCtx, ewParent, ewReader>> /\ ~Guest'
  BY <1>8 DEF killOnCancel, kill, Guest, ewHost
<1>9. ASSUME NEW n \in DOMAIN ewCall, rpcResponse(n) \/ writeResponse(n)
      PROVE  UNCHANGED <<ewCtx, ewParent, ewReader>> /\ ewChild' = ewChild
  BY <1>9 DEF rpcResponse, writeResponse
<1>10. ASSUME cancelEval
       PROVE  UNCHANGED <<ewParent, ewReader>> /\ ewChild' = ewChild /\ ewCtx' = "canceled"
  BY <1>10 DEF cancelEval
<1>11. ASSUME ParentDies
       PROVE  UNCHANGED <<ewCtx, ewReader>> /\ ewChild' = ewChild /\ ewParent' = "dead"
  BY <1>11 DEF ParentDies
<1>12. ASSUME UNCHANGED ewVars
       PROVE  UNCHANGED <<ewCtx, ewParent, ewReader>> /\ ewChild' = ewChild
  BY <1>12 DEF ewVars, ewHost
<1>13. /\ ewCtx = "canceled" => ewCtx' = "canceled"
       /\ ewParent = "dead" => ewParent' = "dead"
       /\ Guest' => Guest
       /\ ewReader.pc \in {"stopping", "done"} => ewReader'.pc \in {"stopping", "done"}
  BY <1>1, <1>2, <1>3, <1>4, <1>5, <1>6, <1>7, <1>8, <1>9, <1>10, <1>11, <1>12
     DEF ExecuteNext, GuestNext, HostNext, Guest
<1> QED
  BY <1>13 DEF CallbacksCanceled

\* Where the request with number x is while its answer is owed.
OnItsWay(x) ==
    \/ \E n \in DOMAIN ewOut : ewOut[n].id = x
    \/ \E n \in DOMAIN ewIn : ewIn[n].id = x
    \/ ewReader.frame.id = x /\ ewReader.pc \in {"slot", "progress", "stopping"}
    \/ \E n \in Active : ewCall[n].id = x

\* A request that is on its way stays on its way until its answer is read or the evaluation ends.
LEMMA RequestsStay ==
  ASSUME EwTypeOK, FramesNumbered, ReaderSound, PipesSound, [ExecuteNext]_ewVars,
         NEW x \in Nat \ {0}, OnItsWay(x), Guest'
  PROVE  OnItsWay(x)' \/ CallbacksCanceled' \/ ewParent' = "dead" \/ (readResponses /\ Head(ewIn).id = x)
<1>0. /\ ewOut \in Seq(Frames) /\ ewIn \in Seq(Frames) /\ ewCall \in Seq(CallRecords)
      /\ ewReader \in [pc : ReaderStates, frame : Frames] /\ ewReader.frame \in Frames
  BY DEF EwTypeOK
<1>1. CASE Elsewhere
  BY <1>1, ElsewhereQuiet DEF OnItsWay, Active
<1>2. ASSUME NEW i \in Items, NEW kind \in {"progress", "rpc"}, Asks(i, kind) PROVE OnItsWay(x)'
  <2> DEFINE f == Frame(kind, ewNextID + 1, IF kind = "progress" THEN ewCount + 1 ELSE 0)
  <2>1. f \in Frames
    BY DEF EwTypeOK, Frame, Frames, FrameTypes
  <2>2. ewOut' = Append(ewOut, f) /\ UNCHANGED <<ewIn, ewReader, ewCall>>
    BY <1>2 DEF Asks, ewHost
  <2> HIDE DEF f
  <2>3. \A n \in DOMAIN ewOut : n \in DOMAIN ewOut' /\ ewOut'[n] = ewOut[n]
    <3>1. ewOut \in Seq(Frames)
      BY <1>0
    <3> QED
      BY <2>1, <2>2, <3>1, Appended
  <2> QED
    BY <2>2, <2>3 DEF OnItsWay, Active
<1>3. CASE readResponses
  <2>1. ewIn # <<>> /\ ewIn' = Tail(ewIn) /\ UNCHANGED <<ewOut, ewReader, ewCall>>
    BY <1>3, ReadAnswers DEF ewHost
  <2>2. \A n \in DOMAIN ewIn : ewIn[n] = Head(ewIn) \/ \E m \in DOMAIN ewIn' : ewIn'[m] = ewIn[n]
    <3> TAKE n \in DOMAIN ewIn
    <3>1. /\ Len(ewIn) \in Nat \ {0} /\ DOMAIN ewIn = 1..Len(ewIn) /\ DOMAIN ewIn' = 1..(Len(ewIn) - 1)
          /\ Head(ewIn) = ewIn[1]
          /\ \A m \in 1..(Len(ewIn) - 1) : ewIn'[m] = ewIn[m + 1]
      BY <1>0, <2>1, Taken
    <3>2. CASE n # 1
      <4>1. n - 1 \in DOMAIN ewIn' /\ (n - 1) + 1 = n
        BY <3>1, <3>2
      <4> QED
        BY <3>1, <4>1
    <3> QED
      BY <3>1, <3>2
  <2> QED
    BY <1>3, <2>1, <2>2 DEF OnItsWay, Active
<1>4. CASE Serve
  BY <1>4 DEF Serve, Guest
<1>5. CASE readMessages
  <2>1. UNCHANGED <<ewIn, ewCall>> /\ ewReader.pc = "reading"
    BY <1>5 DEF readMessages, ReaderAt
  <2>2. CASE ewReader' = [pc |-> "stopping", frame |-> NoFrame]
    BY <2>2 DEF CallbacksCanceled
  <2>3. CASE /\ ewOut # <<>> /\ ewOut' = Tail(ewOut)
             /\ ewReader' = [frame |-> Head(ewOut),
                             pc |-> CASE Head(ewOut).type = "result" -> "awaiting"
                                      [] Head(ewOut).type = "rpc" -> "slot"
                                      [] OTHER -> IF Head(ewOut).seq = ewPrevious + 1
                                                  THEN "progress" ELSE "stopping"]
    <3>1. /\ Len(ewOut) \in Nat \ {0} /\ DOMAIN ewOut = 1..Len(ewOut) /\ DOMAIN ewOut' = 1..(Len(ewOut) - 1)
          /\ Head(ewOut) = ewOut[1]
          /\ \A m \in 1..(Len(ewOut) - 1) : ewOut'[m] = ewOut[m + 1]
      BY <1>0, <2>3, Taken
    <3>2. CASE Head(ewOut).id = x
      <4>1. Head(ewOut).type # "result"
        <5>1. 1 \in DOMAIN ewOut
          BY <3>1
        <5> QED
          BY <3>1, <3>2, <5>1 DEF FramesNumbered
      <4>2. CASE Head(ewOut).type = "rpc"
        <5>1. ewReader'.pc = "slot" /\ ewReader'.frame = Head(ewOut)
          BY <2>3, <4>2
        <5> QED
          BY <3>2, <5>1 DEF OnItsWay
      <4>3. CASE Head(ewOut).type # "rpc"
        <5>1. ewReader'.pc \in {"progress", "stopping"} /\ ewReader'.frame = Head(ewOut)
          BY <2>3, <4>1, <4>3
        <5> QED
          BY <3>2, <5>1 DEF OnItsWay
      <4> QED
        BY <4>2, <4>3
    <3>3. CASE Head(ewOut).id # x
      <4>1. ASSUME NEW n \in DOMAIN ewOut, ewOut[n].id = x
            PROVE  \E m \in DOMAIN ewOut' : ewOut'[m].id = x
        <5>1. n # 1
          BY <3>1, <3>3, <4>1
        <5>2. n - 1 \in DOMAIN ewOut' /\ (n - 1) + 1 = n
          BY <3>1, <5>1
        <5> QED
          BY <3>1, <4>1, <5>2
      <4> QED
        BY <2>1, <4>1 DEF OnItsWay, Active
    <3> QED
      BY <3>2, <3>3
  <2> QED
    BY <1>5, <2>2, <2>3 DEF readMessages
<1>6. CASE handleProgress
  <2>1. UNCHANGED <<ewOut, ewCall>>
    BY <1>6 DEF handleProgress
  <2>2. CASE ReaderGoes("stopping")
    BY <1>0, <2>2 DEF ReaderGoes, CallbacksCanceled
  <2>3. ASSUME NEW a \in {"accepted", "refused"}, ewIn' = Append(ewIn, Frame(a, ewReader.frame.id, 0))
        PROVE  OnItsWay(x)'
    <3> DEFINE f == Frame(a, ewReader.frame.id, 0)
    <3>1. f \in Frames /\ f.id = ewReader.frame.id
      BY <1>0 DEF Frame, Frames, FrameTypes
    <3>2. ewIn' = Append(ewIn, f)
      BY <2>3
    <3> HIDE DEF f
    <3>3. /\ \A n \in DOMAIN ewIn : n \in DOMAIN ewIn' /\ ewIn'[n] = ewIn[n]
          /\ \E n \in DOMAIN ewIn' : ewIn'[n] = f
      <4>1. ewIn \in Seq(Frames)
        BY <1>0
      <4>2. /\ DOMAIN ewIn = 1..Len(ewIn) /\ DOMAIN ewIn' = 1..(Len(ewIn) + 1) /\ Len(ewIn) \in Nat
            /\ \A n \in 1..Len(ewIn) : ewIn'[n] = ewIn[n]
            /\ ewIn'[Len(ewIn) + 1] = f
        BY <4>1, <3>1, <3>2, Appended
      <4>3. Len(ewIn) + 1 \in DOMAIN ewIn'
        BY <4>2
      <4>4. \A n \in DOMAIN ewIn : n \in DOMAIN ewIn' /\ ewIn'[n] = ewIn[n]
        BY <4>2
      <4> QED
        BY <4>2, <4>3, <4>4
    <3> QED
      BY <2>1, <3>1, <3>3 DEF OnItsWay, Active
  <2> QED
    BY <1>6, <2>2, <2>3 DEF handleProgress
<1>7. CASE startRPCCallback
  <2>1. UNCHANGED <<ewOut, ewIn>> /\ ewReader.pc = "slot"
    BY <1>7 DEF startRPCCallback, ewPipes, ReaderAt
  <2>2. CASE ReaderGoes("stopping")
    BY <1>0, <2>2 DEF ReaderGoes, CallbacksCanceled
  <2>3. CASE ewCall' = Append(ewCall, [pc |-> "handler", id |-> ewReader.frame.id])
    <3> DEFINE c == [pc |-> "handler", id |-> ewReader.frame.id]
    <3>1. c \in CallRecords /\ c.pc = "handler" /\ c.id = ewReader.frame.id
      BY Held DEF CallRecords
    <3>2. ewCall' = Append(ewCall, c)
      BY <2>3
    <3> HIDE DEF c
    <3>3. /\ DOMAIN ewCall = 1..Len(ewCall) /\ DOMAIN ewCall' = 1..(Len(ewCall) + 1) /\ Len(ewCall) \in Nat
          /\ \A n \in 1..Len(ewCall) : ewCall'[n] = ewCall[n]
          /\ ewCall'[Len(ewCall) + 1] = c
      <4>1. ewCall \in Seq(CallRecords)
        BY <1>0
      <4> QED
        BY <4>1, <3>1, <3>2, Appended
    <3>4. \A n \in Active : n \in Active' /\ ewCall'[n] = ewCall[n]
      BY <3>3 DEF Active
    <3>5. Len(ewCall) + 1 \in Active' /\ ewCall'[Len(ewCall) + 1].id = ewReader.frame.id
      BY <3>1, <3>3 DEF Active
    <3> QED
      BY <2>1, <3>4, <3>5 DEF OnItsWay
  <2> QED
    BY <1>7, <2>2, <2>3 DEF startRPCCallback
<1>8. CASE waitForCallbacks \/ finishResult
  <2>1. UNCHANGED <<ewOut, ewIn, ewCall>> /\ ewReader.pc \in {"awaiting", "closing"}
    BY <1>8 DEF waitForCallbacks, finishResult, ewPipes, ReaderAt
  <2> QED
    BY <2>1 DEF OnItsWay, Active
<1>9. CASE stopRPCCallbacks
  BY <1>9 DEF stopRPCCallbacks, kill, Guest
<1>10. ASSUME NEW n \in DOMAIN ewCall, rpcResponse(n)
       PROVE  OnItsWay(x)' \/ CallbacksCanceled'
  <2>1. UNCHANGED <<ewOut, ewIn, ewReader, ewCtx>>
    BY <1>10 DEF rpcResponse, ewPipes
  <2>2. CASE CallbacksCanceled
    BY <2>1, <2>2 DEF CallbacksCanceled
  <2>3. CASE ~CallbacksCanceled
    <3>1. ewCall' = [ewCall EXCEPT ![n].pc = "writing"]
      BY <1>10, <2>3 DEF rpcResponse
    <3>2. /\ DOMAIN ewCall' = DOMAIN ewCall /\ ewCall'[n].pc = "writing"
          /\ \A m \in DOMAIN ewCall : ewCall'[m].id = ewCall[m].id /\ (m # n => ewCall'[m] = ewCall[m])
      BY <3>1, CallGoesOn
    <3>3. \A m \in Active : m \in Active' /\ ewCall'[m].id = ewCall[m].id
      BY <3>2 DEF Active
    <3> QED
      BY <2>1, <3>3 DEF OnItsWay
  <2> QED
    BY <2>2, <2>3
<1>11. ASSUME NEW n \in DOMAIN ewCall, writeResponse(n)
       PROVE  OnItsWay(x)' \/ CallbacksCanceled'
  <2>1. UNCHANGED <<ewOut, ewReader, ewCtx, ewChild>>
    BY <1>11 DEF writeResponse
  <2>2. CASE CallbacksCanceled
    BY <2>1, <2>2 DEF CallbacksCanceled
  <2>3. CASE ~CallbacksCanceled
    <3> DEFINE f == Frame("rpc_result", ewCall[n].id, 0)
    <3>1. f \in Frames /\ f.id = ewCall[n].id
      BY Held DEF Frame, Frames, FrameTypes
    <3>2. ewIn' = Append(ewIn, f)
      <4>1. ewChild # "gone"
        BY <2>1 DEF Guest
      <4> QED
        BY <1>11, <2>3, <4>1 DEF writeResponse
    <3> HIDE DEF f
    <3>3. /\ \A m \in DOMAIN ewIn : m \in DOMAIN ewIn' /\ ewIn'[m] = ewIn[m]
          /\ \E m \in DOMAIN ewIn' : ewIn'[m] = f
      <4>1. ewIn \in Seq(Frames)
        BY <1>0
      <4>2. /\ DOMAIN ewIn = 1..Len(ewIn) /\ DOMAIN ewIn' = 1..(Len(ewIn) + 1) /\ Len(ewIn) \in Nat
            /\ \A m \in 1..Len(ewIn) : ewIn'[m] = ewIn[m]
            /\ ewIn'[Len(ewIn) + 1] = f
        BY <4>1, <3>1, <3>2, Appended
      <4>3. Len(ewIn) + 1 \in DOMAIN ewIn'
        BY <4>2
      <4>4. \A m \in DOMAIN ewIn : m \in DOMAIN ewIn' /\ ewIn'[m] = ewIn[m]
        BY <4>2
      <4> QED
        BY <4>2, <4>3, <4>4
    <3>4. ewCall' = [ewCall EXCEPT ![n].pc = "done"]
      BY <1>11 DEF writeResponse
    <3>5. /\ DOMAIN ewCall' = DOMAIN ewCall
          /\ \A m \in DOMAIN ewCall : ewCall'[m].id = ewCall[m].id /\ (m # n => ewCall'[m] = ewCall[m])
      BY <3>4, CallGoesOn
    <3>6. \A m \in Active : m = n \/ (m \in Active' /\ ewCall'[m].id = ewCall[m].id)
      BY <3>5 DEF Active
    <3> QED
      BY <2>1, <3>1, <3>3, <3>6 DEF OnItsWay
  <2> QED
    BY <2>2, <2>3
<1>12. CASE ParentDies
  BY <1>12 DEF ParentDies
<1> QED
  BY <1>1, <1>2, <1>3, <1>4, <1>5, <1>6, <1>7, <1>8, <1>9, <1>10, <1>11, <1>12, WorkerCases

\* No request is lost.
LEMMA RequestsStep ==
  ASSUME EwTypeOK, WaitersNumbered, FramesNumbered, ReaderSound, PipesSound, RequestsInFlight,
         [ExecuteNext]_ewVars
  PROVE  RequestsInFlight'
<1> SUFFICES ASSUME NEW i \in Items, Guest', Waits(i)', NEW x, x = ewItem'[i].id,
                    ~CallbacksCanceled', ewParent' # "dead"
             PROVE  OnItsWay(x)'
  BY DEF RequestsInFlight, OnItsWay, Waits
<1>1. CASE Settles
  <2>1. ewItem'[i] = ewItem[i] /\ Waits(i)
    BY <1>1 DEF Settles, Waits
  <2>2. Guest /\ ~CallbacksCanceled /\ ewParent # "dead"
    BY EndsStay
  <2>3. OnItsWay(x)
    BY <2>1, <2>2 DEF RequestsInFlight, OnItsWay, Waits
  <2>4. x \in Nat \ {0}
    <3>1. ewNextID \in Nat /\ ewItem[i].id \in 1..ewNextID
      BY <2>1 DEF EwTypeOK, WaitersNumbered
    <3> QED
      BY <2>1, <3>1
  <2>5. ~(readResponses /\ Head(ewIn).id = x)
    <3> SUFFICES ASSUME readResponses, Head(ewIn).id = x PROVE FALSE
      OBVIOUS
    <3>1. ewItem[i].id = Head(ewIn).id
      BY <2>1
    <3>2. PICK j \in Items : Answered(j)
      BY <2>1, <3>1, ReadAnswers
    <3>3. j = i
      BY <2>1, <3>1, <3>2 DEF Answered, WaitersNumbered
    <3> QED
      BY <3>2, <3>3 DEF Answered
  <2> QED
    BY <2>3, <2>4, <2>5, RequestsStay
<1>2. ASSUME NEW j \in Items, NEW kind \in {"progress", "rpc"}, Asks(j, kind) PROVE OnItsWay(x)'
  <2> DEFINE f == Frame(kind, ewNextID + 1, IF kind = "progress" THEN ewCount + 1 ELSE 0)
  <2>1. f \in Frames /\ f.id = ewNextID + 1
    BY DEF EwTypeOK, Frame, Frames, FrameTypes
  <2>2. ewOut' = Append(ewOut, f)
    BY <1>2 DEF Asks
  <2> HIDE DEF f
  <2>3. CASE j = i
    <3>1. x = f.id
      BY <1>2, <2>1, <2>3 DEF Asks
    <3>2. /\ DOMAIN ewOut' = 1..(Len(ewOut) + 1) /\ Len(ewOut) \in Nat
          /\ ewOut'[Len(ewOut) + 1] = f
      <4>1. ewOut \in Seq(Frames)
        BY DEF EwTypeOK
      <4> QED
        BY <4>1, <2>1, <2>2, Appended
    <3>3. Len(ewOut) + 1 \in DOMAIN ewOut'
      BY <3>2
    <3> QED
      BY <3>1, <3>2, <3>3 DEF OnItsWay
  <2>4. CASE j # i
    <3>1. ewItem'[i] = ewItem[i] /\ Waits(i) /\ ~readResponses
      <4>1. ewItem'[i] = ewItem[i]
        BY <1>2, <2>4 DEF Asks
      <4>2. ewIn' = ewIn
        BY <1>2 DEF Asks
      <4>3. ~readResponses
        <5>1. ASSUME readResponses PROVE FALSE
          <6>1. ewIn # <<>> /\ ewIn' = Tail(ewIn) /\ ewIn \in Seq(Frames)
            BY <5>1, ReadAnswers DEF EwTypeOK
          <6>2. Len(ewIn) \in Nat /\ Len(Tail(ewIn)) = Len(ewIn) - 1
            BY <6>1
          <6> QED
            BY <4>2, <6>1, <6>2
        <5> QED
          BY <5>1
      <4> QED
        BY <4>1, <4>3 DEF Waits
    <3>2. Guest /\ ~CallbacksCanceled /\ ewParent # "dead"
      BY EndsStay
    <3>3. OnItsWay(x)
      BY <3>1, <3>2 DEF RequestsInFlight, OnItsWay, Waits
    <3>4. x \in Nat \ {0}
      <4>1. ewNextID \in Nat /\ ewItem[i].id \in 1..ewNextID
        BY <3>1 DEF EwTypeOK, WaitersNumbered
      <4> QED
        BY <3>1, <4>1
    <3> QED
      BY <3>1, <3>3, <3>4, RequestsStay
  <2> QED
    BY <2>3, <2>4
<1> QED
  BY <1>1, <1>2, ItemsMove

\* Every step keeps the invariant.
LEMMA EwInvStep ==
  ASSUME EwInv, [ExecuteNext]_ewVars
  PROVE  EwInv'
<1> USE DEF EwInv
<1>1. EwTypeOK'
  BY EwTypeStep
<1>2. WaitersNumbered' /\ OneEmits'
  BY WaitersStep
<1>3. FramesNumbered' /\ PipesSound'
  BY FramesStep
<1>4. CallsAndEventsApart'
  BY ApartStep
<1>5. ReaderSound'
  BY ReaderStep
<1>6. CountsAgree'
  BY <1>1, CountsStep
<1>7. CallbackSlots'
  BY SlotsStep
<1>8. RequestsInFlight'
  BY RequestsStep
<1>9. SequenceBreaksOnlyAfterRefusal'
  BY SequenceStep
<1> QED
  BY <1>1, <1>2, <1>3, <1>4, <1>5, <1>6, <1>7, <1>8, <1>9

\* What an evaluation keeps in every state: who waits, where the requests are, and how far
\* the worker's count of events may be from the parent's (executeworker).
THEOREM WorkerInvariance == ExecuteSpec => []EwInv
<1>1. EwInv /\ [ExecuteNext]_ewVars => EwInv'
  BY EwInvStep
<1> QED
  BY EwInvInit, <1>1, PTL DEF ExecuteSpec

\* However an evaluation ends, its callbacks end with it and within their slots, no request
\* is lost while it goes on, and a broken sequence follows a refused event (EvalRequest).
THEOREM EvaluationsContained == ExecuteSpec => []EvaluationContained
<1>1. EwInv => EvaluationContained
  <2> SUFFICES ASSUME EwInv PROVE EvaluationContained
    OBVIOUS
  <2>1. NoCallbackOutlivesEval
    BY DEF EwInv, ReaderSound, NoCallbackOutlivesEval
  <2> QED
    BY <2>1 DEF EwInv, EvaluationContained
<1> QED
  BY WorkerInvariance, <1>1, PTL

(***************************************************************************)
(* Admission.                                                               *)
(***************************************************************************)

Ended(i) == ewItem[i].state \in {"failed", "canceled"}

\* An item whose failure can be seen has closed admission.
FailureStops == (\E i \in Items : Ended(i)) => ewStopped

\* No step but admission starts an item, and none fails without closing admission.
LEMMA AdmissionStep ==
  ASSUME EwTypeOK, [ExecuteNext]_ewVars
  PROVE  /\ ewStopped => ewStopped'
         /\ \A j \in Items : Ended(j)' => Ended(j) \/ ewStopped'
         /\ \A j \in Items : ewItem[j].state = "not_started" =>
               ewItem'[j].state = "not_started" \/ (~ewStopped /\ ewStopped' = ewStopped /\ admit(j))
<1>0. ewItem \in [Items -> ItemRecords]
  BY DEF EwTypeOK
<1> DEFINE Keeps == /\ ewStopped => ewStopped'
                    /\ \A j \in Items : Ended(j)' => Ended(j) \/ ewStopped'
                    /\ \A j \in Items : ewItem[j].state = "not_started" => ewItem'[j].state = "not_started"
<1>1. ASSUME NEW i \in Items, NEW o \in EvalEnded, publishItem(i, o), ewItem[i].state # "not_started"
      PROVE  Keeps
  <2>1. [ewItem[i] EXCEPT !.state = o, !.id = 0].state = o
    BY <1>0 DEF ItemRecords
  <2>2. ewItem'[i].state = o /\ \A j \in Items : j # i => ewItem'[j] = ewItem[j]
    BY <1>0, <1>1, <2>1 DEF publishItem, SetItem
  <2>3. ewStopped' = (ewStopped \/ o \in {"failed", "canceled"})
    BY <1>1 DEF publishItem
  <2> QED
    BY <1>1, <2>2, <2>3 DEF Ended, EvalEnded
<1>2. ASSUME NEW i \in Items, ewItem'[i].state \in {"running", "progress", "rpc"},
             \A j \in Items : j # i => ewItem'[j] = ewItem[j],
             UNCHANGED ewStopped, ewItem[i].state # "not_started"
      PROVE  Keeps
  BY <1>2 DEF Ended
<1>3. ASSUME NEW i \in Items, admit(i)
      PROVE  /\ ~ewStopped /\ ewStopped' = ewStopped
             /\ \A j \in Items : Ended(j)' => Ended(j)
             /\ \A j \in Items : j # i => ewItem'[j] = ewItem[j]
  <2>1. [ewItem[i] EXCEPT !.state = "running"].state = "running"
    BY <1>0 DEF ItemRecords
  <2>2. ewItem'[i].state = "running" /\ \A j \in Items : j # i => ewItem'[j] = ewItem[j]
    BY <1>0, <1>3, <2>1 DEF admit, SetItem
  <2> QED
    BY <1>3, <2>2 DEF admit, Ended
<1>4. ASSUME NEW i \in Items, executeItem(i) PROVE Keeps
  <2>1. ewItem[i].state = "running" /\ \E o \in EvalEnded : publishItem(i, o)
    BY <1>4 DEF executeItem, EvalEnded
  <2> QED
    BY <1>1, <2>1
<1>5. ASSUME NEW i \in Items, NEW kind \in {"progress", "rpc"}, exchange(i, kind) PROVE Keeps
  <2>1. CASE ewDead \/ ewParent = "dead"
    <3>1. ewItem[i].state = "running" /\ publishItem(i, "failed")
      BY <1>5, <2>1 DEF exchange
    <3> QED
      BY <1>1, <3>1 DEF EvalEnded
  <2>2. CASE ~(ewDead \/ ewParent = "dead")
    <3>1. /\ ewItem[i].state = "running" /\ UNCHANGED ewStopped
          /\ ewItem' = [ewItem EXCEPT ![i] = [state |-> kind, asked |-> [ewItem[i].asked EXCEPT ![kind] = @ + 1],
                                              id |-> ewNextID + 1]]
      BY <1>5, <2>2 DEF exchange, SetItem
    <3>2. ewItem'[i].state = kind /\ \A j \in Items : j # i => ewItem'[j] = ewItem[j]
      BY <1>0, <3>1
    <3> HIDE DEF Keeps
    <3> QED
      BY <1>2, <3>1, <3>2
  <2> QED
    BY <2>1, <2>2
<1>6. CASE readResponses
  <2>1. CASE UNCHANGED ewGuest
    BY <2>1 DEF ewGuest, Ended
  <2>2. ASSUME NEW i \in Items, ewItem[i].state \in {"progress", "rpc"}, publishItem(i, "failed")
        PROVE  Keeps
    BY <1>1, <2>2 DEF EvalEnded
  <2>3. ASSUME NEW i \in Items, ewItem[i].state \in {"progress", "rpc"},
               SetItem(i, [ewItem[i] EXCEPT !.state = "running", !.id = 0]), UNCHANGED ewStopped
        PROVE  Keeps
    <3>1. [ewItem[i] EXCEPT !.state = "running", !.id = 0].state = "running"
      BY <1>0 DEF ItemRecords
    <3>2. ewItem'[i].state = "running" /\ \A j \in Items : j # i => ewItem'[j] = ewItem[j]
      BY <1>0, <2>3, <3>1 DEF SetItem
    <3> HIDE DEF Keeps
    <3> QED
      BY <1>2, <2>3, <3>2
  <2>4. \/ UNCHANGED ewGuest
        \/ \E i \in Items :
              /\ ewItem[i].state \in {"progress", "rpc"}
              /\ \/ publishItem(i, "failed")
                 \/ SetItem(i, [ewItem[i] EXCEPT !.state = "running", !.id = 0]) /\ UNCHANGED ewStopped
    BY <1>6 DEF readResponses
  <2> QED
    BY <2>1, <2>2, <2>3, <2>4
<1>7. CASE failPending
  <2>1. ASSUME NEW j \in Items
        PROVE  /\ ewItem[j].state \in {"progress", "rpc"} => ewStopped' /\ ewItem'[j].state = "failed"
               /\ ewItem[j].state \notin {"progress", "rpc"} => ewItem'[j] = ewItem[j]
    <3>1. ewItem'[j] = IF ewItem[j].state \in {"progress", "rpc"}
                       THEN [ewItem[j] EXCEPT !.state = "failed", !.id = 0] ELSE ewItem[j]
      BY <1>7 DEF failPending
    <3>2. [ewItem[j] EXCEPT !.state = "failed", !.id = 0].state = "failed"
      BY <1>0 DEF ItemRecords
    <3>3. ewItem[j].state \in {"progress", "rpc"} => ewStopped'
      BY <1>7 DEF failPending
    <3> QED
      BY <3>1, <3>2, <3>3
  <2>2. ewStopped => ewStopped'
    BY <1>7 DEF failPending
  <2> QED
    BY <2>1, <2>2 DEF Ended
<1>8. CASE Serve \/ ServeReturns \/ HostNext \/ cancelEval \/ ParentDies \/ UNCHANGED ewVars
  <2>1. UNCHANGED ewGuest
    BY <1>8 DEF Serve, ServeReturns, HostNext, cancelEval, ParentDies, ewVars, readMessages, handleProgress,
       startRPCCallback, waitForCallbacks, finishResult, stopRPCCallbacks, killOnCancel, rpcResponse,
       writeResponse, Alone
  <2> QED
    BY <2>1 DEF ewGuest, Ended
<1>9. Keeps \/ \E i \in Items : admit(i)
  BY <1>4, <1>5, <1>6, <1>7, <1>8 DEF ExecuteNext, GuestNext
<1> QED
  BY <1>3, <1>9

\* Once a failed or canceled item can be seen, no further item starts: the outcome and the
\* closing of admission are published under one lock (combinator.go).
THEOREM AdmissionStaysClosed == ExecuteSpec => AdmissionCloses
<1>1. ExecuteInit => FailureStops
  BY DEF ExecuteInit, FailureStops, Ended
<1>2. EwInv /\ FailureStops /\ [ExecuteNext]_ewVars => FailureStops'
  <2> SUFFICES ASSUME EwTypeOK, FailureStops, [ExecuteNext]_ewVars PROVE FailureStops'
    BY DEF EwInv
  <2> QED
    BY AdmissionStep DEF FailureStops
<1>3. EwInv /\ FailureStops /\ [ExecuteNext]_ewVars =>
        [(\E i \in Items : ewItem[i].state \in {"failed", "canceled"}) =>
            \A i \in Items : ewItem[i].state = "not_started" => ewItem'[i].state = "not_started"]_ewItem
  <2> SUFFICES ASSUME EwTypeOK, FailureStops, [ExecuteNext]_ewVars, NEW i \in Items,
                      ewItem[i].state \in {"failed", "canceled"},
                      NEW j \in Items, ewItem[j].state = "not_started"
               PROVE  ewItem'[j].state = "not_started"
    BY DEF EwInv
  <2>1. ewStopped
    BY DEF FailureStops, Ended
  <2> QED
    BY <2>1, AdmissionStep
<1> QED
  BY <1>1, <1>2, <1>3, WorkerInvariance, PTL DEF ExecuteSpec, AdmissionCloses
================================================================================
