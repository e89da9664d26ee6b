--------------------------- MODULE FileMutationLocks ---------------------------
(***************************************************************************)
(* The process-wide queue of file mutations (internal/tool/mutation_queue.go).*)
(* A reservation names the canonical path it wants to change.  Reservations  *)
(* are kept in registration order; a reservation is ready once no earlier    *)
(* one in the queue conflicts with it.  Every operation runs under           *)
(* fileMutationLocks.lock, so each is one atomic step of its callers.        *)
(*                                                                           *)
(* A path is the sequence of its components.  What the file system says of a *)
(* path is a constant: Resolve maps each existing path to the path without   *)
(* symbolic links, Unreadable holds the paths whose resolution fails for a   *)
(* reason other than a missing component.                                    *)
(***************************************************************************)
EXTENDS Naturals, Sequences, FiniteSets, SequencesExt

CONSTANTS Holders,      \* identities of the invocations that reserve
          Components,   \* path components
          Resolve,      \* filepath.EvalSymlinks on the paths that exist
          Unreadable    \* paths on which EvalSymlinks fails otherwise

VARIABLES reservations, \* fileMutationLocks.reservations: pending, oldest first
          ready,        \* reservations whose ready channel is closed
          path          \* fileMutationReservation.path of each call

lockVars == <<reservations, ready, path>>

AbsolutePaths == Seq(Components)

ASSUME ResolveAssumption ==
    /\ <<>> \in DOMAIN Resolve
    /\ DOMAIN Resolve \subseteq AbsolutePaths
    /\ \A p \in DOMAIN Resolve : Resolve[p] \in AbsolutePaths
    /\ Unreadable \subseteq AbsolutePaths
    /\ Unreadable \cap DOMAIN Resolve = {}

(***************************************************************************)
(* filepath.Rel(parent, child) is "." or does not climb: parent is a prefix. *)
(***************************************************************************)
pathContains(parent, child) ==
    /\ Len(parent) <= Len(child)
    /\ \A i \in 1..Len(parent) : parent[i] = child[i]

\* Mutation: only a parent registered first conflicts with its children.
conflictDownwardsOnly(left, right) == pathContains(left, right)

mutationPathsConflict(left, right) ==
    pathContains(left, right) \/ pathContains(right, left)

(***************************************************************************)
(* The longest existing ancestor is resolved and the missing components are  *)
(* appended again; a failure other than "does not exist" met on the way up   *)
(* leaves the path as it is.                                                 *)
(***************************************************************************)
canonicalMutationPath(absolutePath) ==
    LET ancestor(k) == SubSeq(absolutePath, 1, k)
        stops == {k \in 0..Len(absolutePath) :
                     ancestor(k) \in DOMAIN Resolve \cup Unreadable}
        last  == Max(stops)
    IN  IF ancestor(last) \in Unreadable
        THEN absolutePath
        ELSE Resolve[ancestor(last)] \o SubSeq(absolutePath, last + 1, Len(absolutePath))

InQueue(c) == \E i \in DOMAIN reservations : reservations[i] = c

(***************************************************************************)
(* The reservation at position i of queue waits for an earlier one.          *)
(***************************************************************************)
BlockedAt(queue, paths, i) ==
    \E j \in 1..(i - 1) : mutationPathsConflict(paths[queue[j]], paths[queue[i]])

Blocked(queue, paths, wanted) ==
    \E j \in 1..Len(queue) : mutationPathsConflict(paths[queue[j]], wanted)

(***************************************************************************)
(* reserveMode(path, nonblocking): a blocked nonblocking reservation is       *)
(* refused and leaves no trace; otherwise it joins the queue, ready at once   *)
(* if nothing pending conflicts.                                             *)
(***************************************************************************)
\* Mutation: the path is queued in place of the reservation.
reserveQueuesPath(c, wanted) ==
    /\ reservations' = Append(reservations, wanted)
    /\ path' = [path EXCEPT ![c] = wanted]
    /\ ready' = ready

reserve(c, wanted) ==
    /\ reservations' = Append(reservations, c)
    /\ path' = [path EXCEPT ![c] = wanted]
    /\ ready' = IF Blocked(reservations, path, wanted) THEN ready \ {c} ELSE ready \cup {c}

tryReserve(c, wanted) ==
    /\ ~Blocked(reservations, path, wanted)
    /\ reserve(c, wanted)

refuse(wanted) ==
    /\ Blocked(reservations, path, wanted)
    /\ UNCHANGED lockVars

(***************************************************************************)
(* remove(): the reservation leaves the queue and every waiting candidate    *)
(* that no earlier reservation of the remaining queue blocks becomes ready.  *)
(* Removing an absent reservation does nothing.                              *)
(***************************************************************************)
\* Mutation: only the head of the remaining queue is woken.
wakeHeadOnly(queue) == {queue[i] : i \in 1..Len(queue) \cap {1}}

Woken(queue) == {queue[i] : i \in {k \in 1..Len(queue) : ~BlockedAt(queue, path, k)}}

remove(c) ==
    /\ \/ \E i \in 1..Len(reservations) :
            /\ reservations[i] = c
            /\ reservations' = RemoveAt(reservations, i)
            /\ ready' = (ready \cup Woken(RemoveAt(reservations, i))) \ {c}
       \/ /\ ~InQueue(c)
          /\ UNCHANGED <<reservations, ready>>
    /\ UNCHANGED path

LockInit ==
    /\ reservations = <<>>
    /\ ready = {}
    /\ path = [c \in Holders |-> <<>>]

--------------------------------------------------------------------------------
\* No wakeup is lost and none is early: a pending reservation's channel is
\* closed exactly when no earlier pending reservation conflicts with it.
ReadyIffUnblocked ==
    \A i \in DOMAIN reservations :
        reservations[i] \in ready <=> ~BlockedAt(reservations, path, i)
================================================================================
