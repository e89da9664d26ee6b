---------------------------- MODULE SteeringInboxes ----------------------------
(***************************************************************************)
(* steeringInboxRegistry and steeringInbox                                    *)
(* (internal/assistant/steering_inbox.go): each run opens one inbox, the       *)
(* registry names the inbox of a session's active run, and the run that        *)
(* opened an inbox names it.  Every operator is one critical section of the    *)
(* inbox's or the registry's mutex.                                            *)
(***************************************************************************)
EXTENDS Integers, Sequences

CONSTANTS Runs, Sessions, Steers, NoRun,
          Capacity     \* registry.capacity

VARIABLES registered,  \* registry.inboxes: the inbox of a session, or NoRun
          drafts,      \* inbox.drafts
          closed       \* inbox.closed

InboxTypeOK ==
    /\ registered \in [Sessions -> Runs \cup {NoRun}]
    /\ drafts \in [Runs -> Seq(Steers)]
    /\ closed \in [Runs -> BOOLEAN]

InboxInit ==
    /\ registered = [s \in Sessions |-> NoRun]
    /\ drafts = [r \in Runs |-> <<>>]
    /\ closed = [r \in Runs |-> FALSE]

\* registry.register, when the session has no inbox.
register(s, r) ==
    /\ registered[s] = NoRun
    /\ registered' = [registered EXCEPT ![s] = r]
    /\ UNCHANGED <<drafts, closed>>

\* No early return of drain, drainFinal, settleIfEmpty and restore.
active(s, r) == registered[s] = r /\ ~closed[r]

\* Mutation: the capacity is off by one.
acceptsOneMore(i, r) == i = r /\ ~closed[i] /\ Len(drafts[i]) <= Capacity

\* Mutation: an inbox found before it was closed still accepts.
acceptsClosed(i, r) == i = r /\ Len(drafts[i]) < Capacity

\* inbox.accept on the inbox i that the registry gave, for a request naming run r.
accepts(i, r) == i = r /\ ~closed[i] /\ Len(drafts[i]) < Capacity

accept(i, d) ==
    /\ drafts' = [drafts EXCEPT ![i] = Append(@, d)]
    /\ UNCHANGED <<registered, closed>>

\* Mutation: the drained prefix stays in the inbox.
drainKeeps(r) == UNCHANGED <<registered, drafts, closed>>

\* registry.drain returns drafts[r].
drain(r) ==
    /\ drafts' = [drafts EXCEPT ![r] = <<>>]
    /\ UNCHANGED <<registered, closed>>

\* The end of an empty inbox, in settleIfEmpty and in drainFinal.
settle(s, r) ==
    /\ drafts[r] = <<>>
    /\ closed' = [closed EXCEPT ![r] = TRUE]
    /\ registered' = [registered EXCEPT ![s] = NoRun]
    /\ UNCHANGED drafts

drainFinal(s, r) == IF drafts[r] = <<>> THEN settle(s, r) ELSE drain(r)

\* registry.restore puts unstored drafts back in front, if they all fit.
restorable(s, r, unstored) ==
    active(s, r) /\ Len(drafts[r]) + Len(unstored) <= Capacity

restore(r, unstored) ==
    /\ drafts' = [drafts EXCEPT ![r] = unstored \o @]
    /\ UNCHANGED <<registered, closed>>

\* registry.close deletes the registration, then inbox.close returns drafts[r].
unregister(s) ==
    /\ registered' = [registered EXCEPT ![s] = NoRun]
    /\ UNCHANGED <<drafts, closed>>

close(r) ==
    /\ closed' = [closed EXCEPT ![r] = TRUE]
    /\ drafts' = [drafts EXCEPT ![r] = <<>>]
    /\ UNCHANGED registered
================================================================================
