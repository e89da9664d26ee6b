----------------------------- MODULE PreparedCalls -----------------------------
(***************************************************************************)
(* tool.PreparedCall (internal/tool/registry.go) on top of the mutation      *)
(* queue: a call is prepared, admitted (in order by a batch, or only when    *)
(* free by the task runtime), executed under its reservation or released     *)
(* unused, while its context may be canceled at any moment.                  *)
(***************************************************************************)
EXTENDS FileMutationLocks

CONSTANTS RequestPaths   \* absolute paths a call may ask to mutate

VARIABLES pc,            \* where each call is in its life
          canceled       \* calls whose context is done

vars == <<reservations, ready, path, pc, canceled>>

ASSUME RequestAssumption == RequestPaths \subseteq AbsolutePaths

Init ==
    /\ LockInit
    /\ pc = [c \in Holders |-> "prepared"]
    /\ canceled = {}

\* PreparedCall.Admit, from a batch or from Execute itself.
Admit(c) ==
    /\ pc[c] = "prepared"
    /\ \E p \in RequestPaths : reserve(c, canonicalMutationPath(p))
    /\ pc' = [pc EXCEPT ![c] = "reserved"]
    /\ UNCHANGED canceled

\* PreparedCall.TryAdmit; a refusal leaves the call prepared for a retry.
TryAdmit(c) ==
    /\ pc[c] = "prepared"
    /\ \E p \in RequestPaths :
         \/ /\ tryReserve(c, canonicalMutationPath(p))
            /\ pc' = [pc EXCEPT ![c] = "reserved"]
         \/ /\ refuse(canonicalMutationPath(p))
            /\ UNCHANGED pc
    /\ UNCHANGED canceled

\* PreparedCall.Release before Execute: the reservation is given back unused.
Release(c) ==
    /\ pc[c] = "reserved"
    /\ remove(c)
    /\ pc' = [pc EXCEPT ![c] = "released"]
    /\ UNCHANGED canceled

\* fileMutationReservation.execute: the first ctx.Err() check.
Execute(c) ==
    /\ pc[c] = "reserved"
    /\ IF c \in canceled
       THEN remove(c) /\ pc' = [pc EXCEPT ![c] = "aborted"]
       ELSE UNCHANGED lockVars /\ pc' = [pc EXCEPT ![c] = "waiting"]
    /\ UNCHANGED canceled

\* The select takes the ready case and the second ctx.Err() check passes.
Proceed(c) ==
    /\ pc[c] = "waiting"
    /\ c \in ready
    /\ c \notin canceled
    /\ pc' = [pc EXCEPT ![c] = "mutating"]
    /\ UNCHANGED <<lockVars, canceled>>

\* Mutation: the ctx.Done() case returns without removing the reservation.
abortWithoutRemove(c) ==
    /\ pc[c] = "waiting"
    /\ c \in canceled
    /\ pc' = [pc EXCEPT ![c] = "aborted"]
    /\ UNCHANGED <<lockVars, canceled>>

\* Either select case with a done context: give up without mutating.
Abort(c) ==
    /\ pc[c] = "waiting"
    /\ c \in canceled
    /\ remove(c)
    /\ pc' = [pc EXCEPT ![c] = "aborted"]
    /\ UNCHANGED canceled

\* mutate() returned or panicked; the deferred remove runs.
Return(c) ==
    /\ pc[c] = "mutating"
    /\ remove(c)
    /\ pc' = [pc EXCEPT ![c] = "executed"]
    /\ UNCHANGED canceled

\* The caller's context is canceled.
CancelContext(c) ==
    /\ c \notin canceled
    /\ canceled' = canceled \cup {c}
    /\ UNCHANGED <<lockVars, pc>>

Finished == {"released", "aborted", "executed"}

\* A later call of the same worker: a fresh PreparedCall and context.
Prepare(c) ==
    /\ pc[c] \in Finished
    /\ pc' = [pc EXCEPT ![c] = "prepared"]
    /\ canceled' = canceled \ {c}
    /\ UNCHANGED lockVars

Next ==
    \E c \in Holders :
        \/ Admit(c) \/ TryAdmit(c) \/ Release(c) \/ Execute(c) \/ Proceed(c)
        \/ Abort(c) \/ Return(c) \/ CancelContext(c) \/ Prepare(c)

(***************************************************************************)
(* A caller that holds a reservation runs or releases it (Execute, or the    *)
(* deferred Release of a batch), a goroutine past a select moves on, and a   *)
(* tool returns.  Nothing obliges a context to be canceled or a call to be   *)
(* prepared.                                                                 *)
(***************************************************************************)
Fairness ==
    \A c \in Holders :
        /\ WF_vars(Execute(c))
        /\ WF_vars(Proceed(c))
        /\ WF_vars(Abort(c))
        /\ WF_vars(Return(c))

Spec == Init /\ [][Next]_vars

FairSpec == Spec /\ Fairness

--------------------------------------------------------------------------------

Holding == {"reserved", "waiting", "mutating"}

\* Types of the prepared calls and the mutation queue's list of reservations.
TypeOK ==
    /\ reservations \in Seq(Holders)
    /\ ready \in SUBSET Holders
    /\ path \in [Holders -> AbsolutePaths]
    /\ pc \in [Holders -> {"prepared"} \cup Holding \cup Finished]
    /\ canceled \in SUBSET Holders

\* Two calls never mutate overlapping paths at the same time.
MutualExclusion ==
    \A c, d \in Holders :
        (c # d /\ pc[c] = "mutating" /\ pc[d] = "mutating")
            => ~mutationPathsConflict(path[c], path[d])

\* The queue holds exactly the calls that hold a reservation, once each, so a
\* canceled or released call leaves nothing behind that others would wait for.
NoLeakedReservation ==
    /\ \A i, j \in DOMAIN reservations : reservations[i] = reservations[j] => i = j
    /\ \A c \in Holders : InQueue(c) <=> pc[c] \in Holding

\* A call that waits for its turn gets it, or gives up with its context.
EveryWaiterLeaves ==
    \A c \in Holders : pc[c] = "waiting" ~> pc[c] \in {"mutating", "aborted"}

\* The mutation queue wakes exactly the waiters nothing blocks any more, whatever order the
\* calls are prepared, canceled and released in, and keeps no reservation of a finished call.
QueueSound ==
    /\ TypeOK /\ ReadyIffUnblocked /\ NoLeakedReservation
================================================================================
