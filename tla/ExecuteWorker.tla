----------------------------- MODULE ExecuteWorker -----------------------------
(***************************************************************************)
(* A script runs in a worker process (internal/executeworker): the guest's     *)
(* Parallel combinator admits items to a bounded number of goroutines, whose    *)
(* tool and agent calls are requests over a pipe; the parent reads one frame     *)
(* after the other, answers progress in the reader and every other call in a     *)
(* goroutine of its own, and ends the worker when anything goes wrong.           *)
(***************************************************************************)
EXTENDS Naturals, Sequences, FiniteSets

CONSTANTS Items,         \* the items of the Parallel call, 1..n
          Width,         \* its concurrency
          RpcSlots,      \* maxConcurrentRPCCallbacks
          RpcLimit       \* maxTotalRPCCallbacks

ASSUME ExecuteAssumption ==
    /\ Items \subseteq Nat \ {0} /\ Width \in Nat \ {0} /\ RpcSlots \in Nat \ {0} /\ RpcLimit \in Nat

VARIABLES
    ewItem,    \* the items: [state, asked, id]
    ewStopped, \* admission closed by a failed item
    ewCount,   \* events the emitter has had accepted
    ewNextID,  \* last request id of the caller
    ewDead,    \* terminalErr of the caller is set
    ewChild,   \* "eval", "result" (frame written), "gone"
    ewOut,     \* frames on the worker's stdout
    ewIn,      \* frames on the worker's stdin
    ewReader,  \* the parent: [pc, frame]
    ewCall,    \* callback goroutines: [pc, id], pc one of "handler", "writing", "done"
    ewPrevious,\* progressSequence
    ewRejected,\* progress events the sink refused
    ewCtx,     \* the caller's context: "live", "canceled"
    ewParent   \* "alive" or "dead"

ewGuest == <<ewItem, ewStopped, ewCount, ewNextID, ewDead>>
ewPipes == <<ewOut, ewIn>>
ewHost == <<ewReader, ewCall, ewPrevious, ewRejected, ewCtx, ewParent>>
ewVars == <<ewGuest, ewChild, ewPipes, ewHost>>

NoFrame == [type |-> "none", id |-> 0, seq |-> 0]
Frame(type, id, seq) == [type |-> type, id |-> id, seq |-> seq]

ExecuteInit ==
    /\ ewItem = [i \in Items |-> [state |-> "not_started", asked |-> [progress |-> 0, rpc |-> 0], id |-> 0]]
    /\ ewStopped = FALSE /\ ewCount = 0 /\ ewNextID = 0 /\ ewDead = FALSE
    /\ ewChild = "eval" /\ ewOut = <<>> /\ ewIn = <<>>
    /\ ewReader = [pc |-> "reading", frame |-> NoFrame]
    /\ ewCall = <<>> /\ ewPrevious = 0 /\ ewRejected = 0 /\ ewCtx = "live" /\ ewParent = "alive"

--------------------------------------------------------------------------------
(* The worker process. *)

InProgress == {"running", "progress", "rpc"}
EvalEnded == {"completed", "failed", "canceled"}
Guest == ewChild = "eval"
GuestOnly == UNCHANGED <<ewChild, ewPipes, ewHost>>
SetItem(i, rec) == ewItem' = [ewItem EXCEPT ![i] = rec]

\* Mutation: an item is admitted without looking at the outcomes published so far.
admitAlways(i) ==
    /\ Guest /\ ~ewDead /\ ewItem[i].state = "not_started"
    /\ \A j \in Items : j < i => ewItem[j].state # "not_started"
    /\ Cardinality({j \in Items : ewItem[j].state \in InProgress}) < Width
    /\ SetItem(i, [ewItem[i] EXCEPT !.state = "running"])
    /\ GuestOnly /\ UNCHANGED <<ewStopped, ewCount, ewNextID, ewDead>>

\* One of the goroutines takes the next item; a failed item or the end of the
\* evaluation context closes admission.
admit(i) ==
    /\ Guest /\ ~ewDead /\ ~ewStopped /\ ewItem[i].state = "not_started"
    /\ \A j \in Items : j < i => ewItem[j].state # "not_started"
    /\ Cardinality({j \in Items : ewItem[j].state \in InProgress}) < Width
    /\ SetItem(i, [ewItem[i] EXCEPT !.state = "running"])
    /\ GuestOnly /\ UNCHANGED <<ewStopped, ewCount, ewNextID, ewDead>>

\* The outcome of an item and the closing of admission are one step.
publishItem(i, outcome) ==
    /\ SetItem(i, [ewItem[i] EXCEPT !.state = outcome, !.id = 0])
    /\ ewStopped' = (ewStopped \/ outcome \in {"failed", "canceled"})

\* The callback returns or fails; a canceled context makes a completed item canceled.
executeItem(i) ==
    /\ Guest /\ ewItem[i].state = "running"
    /\ \/ publishItem(i, IF ewDead THEN "canceled" ELSE "completed")
       \/ publishItem(i, "failed")
    /\ GuestOnly /\ UNCHANGED <<ewCount, ewNextID, ewDead>>

\* Mutation: sequence numbers are given out without the lock.
unlocked(i, kind) == TRUE

\* The emitter holds its lock until the event is answered.
emits(i, kind) == kind = "progress" => \A j \in Items : ewItem[j].state # "progress"

\* A request registers its channel and its frame is written; a caller that has seen the
\* end of the pipe, or meets it now, fails.  Each item announces at most once and calls at
\* most twice.
exchange(i, kind) ==
    /\ Guest /\ ewItem[i].state = "running" /\ emits(i, kind)
    /\ ewItem[i].asked[kind] < IF kind = "rpc" THEN 2 ELSE 1
    /\ IF ewDead \/ ewParent = "dead"
       THEN publishItem(i, "failed") /\ UNCHANGED <<ewNextID, ewOut>>
       ELSE /\ ewNextID' = ewNextID + 1
            /\ SetItem(i, [state |-> kind, asked |-> [ewItem[i].asked EXCEPT ![kind] = @ + 1], id |-> ewNextID + 1])
            /\ ewOut' = Append(ewOut, Frame(kind, ewNextID + 1, IF kind = "progress" THEN ewCount + 1 ELSE 0))
            /\ UNCHANGED ewStopped
    /\ UNCHANGED <<ewChild, ewIn, ewHost, ewCount, ewDead>>

\* readResponses hands a frame to the request of its id; an accepted event counts, a
\* rejected one panics the callback.
readResponses ==
    LET answer == Head(ewIn)
        waiting == {i \in Items : ewItem[i].id = answer.id /\ ewItem[i].state \in {"progress", "rpc"}}
    IN
    /\ Guest /\ ~ewDead /\ ewIn # <<>> /\ ewIn' = Tail(ewIn)
    /\ \/ waiting = {} /\ UNCHANGED ewGuest
       \/ \E i \in waiting :
            /\ IF answer.type = "refused" THEN publishItem(i, "failed")
               ELSE SetItem(i, [ewItem[i] EXCEPT !.state = "running", !.id = 0]) /\ UNCHANGED ewStopped
            /\ ewCount' = IF ewItem[i].state = "progress" /\ answer.type # "refused" THEN ewCount + 1 ELSE ewCount
            /\ UNCHANGED <<ewNextID, ewDead>>
    /\ UNCHANGED <<ewChild, ewOut, ewHost>>

\* Mutation: later requests fail, but those in flight are not answered.
leavesPending ==
    /\ Guest /\ ~ewDead /\ ewParent = "dead" /\ ewIn = <<>>
    /\ ewDead' = TRUE
    /\ UNCHANGED <<ewItem, ewStopped, ewChild, ewPipes, ewHost, ewCount, ewNextID>>

\* The pipe ends: the first error is kept, every waiting request is answered with it and
\* the evaluation context is canceled.
failPending ==
    /\ Guest /\ ~ewDead /\ ewParent = "dead" /\ ewIn = <<>>
    /\ ewDead' = TRUE
    /\ ewItem' = [i \in Items |-> IF ewItem[i].state \in {"progress", "rpc"}
                                  THEN [ewItem[i] EXCEPT !.state = "failed", !.id = 0] ELSE ewItem[i]]
    /\ ewStopped' = (ewStopped \/ \E i \in Items : ewItem[i].state \in {"progress", "rpc"})
    /\ UNCHANGED <<ewChild, ewPipes, ewHost, ewCount, ewNextID>>

\* Every goroutine has returned: the combinator is over, its outcome is the result.
Serve ==
    /\ Guest /\ \A i \in Items : ewItem[i].state \in EvalEnded \cup {"not_started"}
    /\ ewDead \/ ewStopped \/ \A i \in Items : ewItem[i].state # "not_started"
    /\ IF ewParent = "dead"
       THEN ewChild' = "gone" /\ UNCHANGED ewOut
       ELSE ewChild' = "result" /\ ewOut' = Append(ewOut, Frame("result", 0, 0))
    /\ UNCHANGED <<ewGuest, ewIn, ewHost>>

\* Serve returns after it has written the result.
ServeReturns ==
    /\ ewChild = "result" /\ ewChild' = "gone"
    /\ UNCHANGED <<ewGuest, ewPipes, ewHost>>

--------------------------------------------------------------------------------
(* The parent. *)

Alone == UNCHANGED ewGuest
ReaderAt(pc) == ewParent = "alive" /\ ewReader.pc = pc
ReaderGoes(pc) == ewReader' = [ewReader EXCEPT !.pc = pc]
Active == {n \in DOMAIN ewCall : ewCall[n].pc # "done"}

\* The process is ended once, whoever asks.
kill == ewChild' = "gone"

\* The next frame decides what the reader does; the end of the pipe or a broken
\* sequence makes it stop.
readMessages ==
    /\ ReaderAt("reading")
    /\ \/ /\ ewOut # <<>> /\ ewOut' = Tail(ewOut)
          /\ ewReader' = [frame |-> Head(ewOut),
                          pc |-> CASE Head(ewOut).type = "result" -> "awaiting"
                                   [] Head(ewOut).type = "rpc" -> "slot"
                                   [] OTHER -> IF Head(ewOut).seq = ewPrevious + 1
                                               THEN "progress" ELSE "stopping"]
       \/ /\ ewOut = <<>> /\ ewChild = "gone" /\ UNCHANGED ewOut
          /\ ewReader' = [pc |-> "stopping", frame |-> NoFrame]
    /\ Alone /\ UNCHANGED <<ewChild, ewIn, ewCall, ewPrevious, ewRejected, ewCtx, ewParent>>

\* The sink takes or refuses the event in the reader's own goroutine; both advance the
\* sequence once the answer is written.
handleProgress ==
    /\ ReaderAt("progress")
    /\ \/ /\ ewCtx = "canceled" \/ ewChild = "gone"
          /\ ReaderGoes("stopping") /\ UNCHANGED <<ewIn, ewPrevious, ewRejected>>
       \/ /\ ewCtx = "live" /\ ewChild # "gone"
          /\ \E answer \in {"accepted", "refused"} :
                /\ ewIn' = Append(ewIn, Frame(answer, ewReader.frame.id, 0))
                /\ ewRejected' = IF answer = "refused" THEN ewRejected + 1 ELSE ewRejected
          /\ ewPrevious' = ewReader.frame.seq
          /\ ReaderGoes("reading")
    /\ Alone /\ UNCHANGED <<ewChild, ewOut, ewCall, ewCtx, ewParent>>

\* Mutation: a callback is started without a slot.
startUnbounded ==
    /\ ReaderAt("slot") /\ ReaderGoes("reading")
    /\ ewCall' = Append(ewCall, [pc |-> "handler", id |-> ewReader.frame.id])
    /\ Alone /\ UNCHANGED <<ewChild, ewPipes, ewPrevious, ewRejected, ewCtx, ewParent>>

\* Mutation: a request that finds no free slot is dropped.
dropsWhenFull ==
    /\ ReaderAt("slot") /\ ReaderGoes("reading")
    /\ ewCall' = IF Cardinality(Active) < RpcSlots THEN Append(ewCall, [pc |-> "handler", id |-> ewReader.frame.id]) ELSE ewCall
    /\ Alone /\ UNCHANGED <<ewChild, ewPipes, ewPrevious, ewRejected, ewCtx, ewParent>>

\* The reader waits for a slot, unless the context or the limit ends the evaluation.
startRPCCallback ==
    /\ ReaderAt("slot")
    /\ \/ /\ Len(ewCall) < RpcLimit /\ Cardinality(Active) < RpcSlots
          /\ ewCall' = Append(ewCall, [pc |-> "handler", id |-> ewReader.frame.id]) /\ ReaderGoes("reading")
       \/ /\ Len(ewCall) >= RpcLimit \/ ewCtx = "canceled"
          /\ ReaderGoes("stopping") /\ UNCHANGED ewCall
    /\ Alone /\ UNCHANGED <<ewChild, ewPipes, ewPrevious, ewRejected, ewCtx, ewParent>>

\* Callbacks are canceled with the caller's context and by stopRPCCallbacks.
CallbacksCanceled == ewCtx = "canceled" \/ ewReader.pc \in {"stopping", "done"}

\* The handler of a tool or an agent call returns.
rpcResponse(n) ==
    /\ ewParent = "alive" /\ n \in DOMAIN ewCall /\ ewCall[n].pc = "handler"
    /\ ewCall' = [ewCall EXCEPT ![n].pc = IF CallbacksCanceled THEN "done" ELSE "writing"]
    /\ Alone /\ UNCHANGED <<ewChild, ewPipes, ewReader, ewPrevious, ewRejected, ewCtx, ewParent>>

\* Under the lock of the pipe the answer is written, unless the callbacks were canceled
\* meanwhile; a broken pipe ends the worker, which is what broke it.
writeResponse(n) ==
    /\ ewParent = "alive" /\ n \in DOMAIN ewCall /\ ewCall[n].pc = "writing"
    /\ ewCall' = [ewCall EXCEPT ![n].pc = "done"]
    /\ ewIn' = IF CallbacksCanceled \/ ewChild = "gone" THEN ewIn
               ELSE Append(ewIn, Frame("rpc_result", ewCall[n].id, 0))
    /\ Alone /\ UNCHANGED <<ewChild, ewOut, ewReader, ewPrevious, ewRejected, ewCtx, ewParent>>

\* The result is there: every callback is awaited, then stdin is closed.
waitForCallbacks ==
    /\ ReaderAt("awaiting")
    /\ \/ ewCtx = "canceled" /\ ReaderGoes("stopping")
       \/ Active = {} /\ ReaderGoes("closing")
    /\ Alone /\ UNCHANGED <<ewChild, ewPipes, ewCall, ewPrevious, ewRejected, ewCtx, ewParent>>

finishResult ==
    /\ ReaderAt("closing") /\ ewChild = "gone"
    /\ ReaderGoes("done")
    /\ Alone /\ UNCHANGED <<ewChild, ewPipes, ewCall, ewPrevious, ewRejected, ewCtx, ewParent>>

\* Mutation: an error is returned as soon as the worker is killed.
stopsAtOnce == ReaderAt("stopping") /\ kill /\ ReaderGoes("done")
               /\ Alone /\ UNCHANGED <<ewPipes, ewCall, ewPrevious, ewRejected, ewCtx, ewParent>>

\* Callbacks are canceled, the worker is killed, and the callbacks are awaited.
stopRPCCallbacks ==
    /\ ReaderAt("stopping")
    /\ kill
    /\ IF Active = {} THEN ReaderGoes("done") ELSE ewChild # "gone" /\ UNCHANGED ewReader
    /\ Alone /\ UNCHANGED <<ewPipes, ewCall, ewPrevious, ewRejected, ewCtx, ewParent>>

\* The caller cancels; the goroutine of EvalRequest kills the worker.
cancelEval ==
    /\ ewParent = "alive" /\ ewCtx = "live" /\ ewReader.pc # "done" /\ ewCtx' = "canceled"
    /\ Alone /\ UNCHANGED <<ewChild, ewPipes, ewReader, ewCall, ewPrevious, ewRejected, ewParent>>

killOnCancel ==
    /\ ewParent = "alive" /\ ewCtx = "canceled" /\ ewChild # "gone" /\ kill
    /\ Alone /\ UNCHANGED <<ewPipes, ewHost>>

\* The parent process dies and takes its goroutines and its ends of the pipes along.
ParentDies ==
    /\ ewParent = "alive" /\ ewReader.pc # "done" /\ ewParent' = "dead"
    /\ ewCall' = [n \in DOMAIN ewCall |-> [ewCall[n] EXCEPT !.pc = "done"]]
    /\ Alone /\ UNCHANGED <<ewChild, ewPipes, ewReader, ewPrevious, ewRejected, ewCtx>>

GuestNext ==
    \/ \E i \in Items : admit(i) \/ executeItem(i) \/ \E kind \in {"progress", "rpc"} : exchange(i, kind)
    \/ readResponses \/ failPending \/ Serve \/ ServeReturns

HostNext ==
    \/ readMessages \/ handleProgress \/ startRPCCallback \/ waitForCallbacks \/ finishResult
    \/ stopRPCCallbacks \/ killOnCancel
    \/ \E n \in DOMAIN ewCall : rpcResponse(n) \/ writeResponse(n)

ExecuteNext == GuestNext \/ HostNext \/ cancelEval \/ ParentDies

ExecuteFairness == WF_ewVars(GuestNext) /\ WF_ewVars(HostNext)

--------------------------------------------------------------------------------
\* EvalRequest leaves nothing behind, whichever way it ends: no callback goroutine is
\* still calling a tool and the worker process is gone.
NoCallbackOutlivesEval ==
    ewParent = "alive" /\ ewReader.pc = "done" => Active = {} /\ ewChild = "gone"

\* A script's fan-out never runs more tool calls at once than there are slots.
CallbackSlots == Cardinality(Active) <= RpcSlots /\ Len(ewCall) <= RpcLimit

\* No request is lost between the two processes: while one waits, its frame is in a pipe
\* or in the parent's hands, or the evaluation is being ended.
RequestsInFlight ==
    \A i \in Items :
        Guest /\ ewItem[i].state \in {"progress", "rpc"} =>
            \/ \E n \in DOMAIN ewOut : ewOut[n].id = ewItem[i].id
            \/ \E n \in DOMAIN ewIn : ewIn[n].id = ewItem[i].id
            \/ ewReader.frame.id = ewItem[i].id /\ ewReader.pc \in {"slot", "progress", "stopping"}
            \/ \E n \in Active : ewCall[n].id = ewItem[i].id
            \/ CallbacksCanceled \/ ewParent = "dead"

\* The parent ends an evaluation for a broken progress sequence only after it refused an
\* event, which the parent counts and the worker does not.
SequenceBreaksOnlyAfterRefusal ==
    ewReader.pc = "stopping" /\ ewReader.frame.type = "progress" /\ ewReader.frame.seq # ewPrevious + 1
        => ewRejected > 0

\* Once a failed or canceled item can be seen, no further item starts.
AdmissionCloses ==
    [][(\E i \in Items : ewItem[i].state \in {"failed", "canceled"}) =>
          \A i \in Items : ewItem[i].state = "not_started" => ewItem'[i].state = "not_started"]_ewItem

\* Something has happened: an item was admitted, a result sent, the caller gave up.
Begun == ewCtx = "canceled" \/ ewChild # "eval" \/ \E i \in Items : ewItem[i].state # "not_started"

\* Every evaluation that has begun returns, and a worker whose parent died ends itself.
EvalReturns ==
    /\ Begun ~> (ewReader.pc = "done" \/ ewParent = "dead")
    /\ ewParent = "dead" ~> ewChild = "gone"

\* However an evaluation ends (a result, a refusal, a broken stream, a killed process) its
\* callbacks end with it, within their slots, and the host hears its events in sequence.
EvaluationContained ==
    /\ NoCallbackOutlivesEval /\ CallbackSlots /\ RequestsInFlight
    /\ SequenceBreaksOnlyAfterRefusal

\* An evaluation returns whatever its script and its process do, and what was admitted
\* before the end is all that ever runs.
EvaluationReturns ==
    /\ AdmissionCloses
    /\ EvalReturns
================================================================================
