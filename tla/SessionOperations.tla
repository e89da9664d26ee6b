--------------------------- MODULE SessionOperations ---------------------------
(***************************************************************************)
(* sessionOperationCoordinator (internal/assistant/session_operations.go):    *)
(* one slot per session, made by the first operation that asks for it,         *)
(* counted by everyone who holds or awaits it, and deleted by the last to      *)
(* leave.  An operation acquires once, so the operation that allocated a slot  *)
(* names it.                                                                  *)
(***************************************************************************)
EXTENDS Integers

CONSTANTS Operations, Sessions, NoSlot

VARIABLES slots,    \* coordinator.slots: the slot of a session, or NoSlot
          refs,     \* slot.refs
          token,    \* slot.token holds its one element
          slotOf    \* the slot that an operation's call to acquire captured

SlotTypeOK ==
    /\ slots \in [Sessions -> Operations \cup {NoSlot}]
    /\ refs \in [Operations -> Int]
    /\ token \in [Operations -> BOOLEAN]
    /\ slotOf \in [Operations -> Operations \cup {NoSlot}]

SlotInit ==
    /\ slots = [s \in Sessions |-> NoSlot]
    /\ refs = [o \in Operations |-> 0]
    /\ token = [o \in Operations |-> FALSE]
    /\ slotOf = [o \in Operations |-> NoSlot]

\* The critical section of acquire: find or make the slot, and count oneself.
reference(o, s) ==
    LET slot == IF slots[s] = NoSlot THEN o ELSE slots[s]
    IN  /\ slots' = [slots EXCEPT ![s] = slot]
        /\ refs' = [refs EXCEPT ![slot] = @ + 1]
        /\ slotOf' = [slotOf EXCEPT ![o] = slot]
        /\ UNCHANGED token

\* The send on the one-element channel, which blocks while it is full.
sendToken(o) ==
    /\ ~token[slotOf[o]]
    /\ token' = [token EXCEPT ![slotOf[o]] = TRUE]
    /\ UNCHANGED <<slots, refs, slotOf>>

\* The receive in the release function.
receiveToken(o) ==
    /\ token[slotOf[o]]
    /\ token' = [token EXCEPT ![slotOf[o]] = FALSE]
    /\ UNCHANGED <<slots, refs, slotOf>>

\* Mutation: whoever leaves deletes the slot, although others hold or await it.
releaseUncounted(o, s) ==
    LET slot == slotOf[o]
    IN  /\ refs' = [refs EXCEPT ![slot] = @ - 1]
        /\ slots' = IF slots[s] = slot THEN [slots EXCEPT ![s] = NoSlot] ELSE slots
        /\ slotOf' = [slotOf EXCEPT ![o] = NoSlot]
        /\ UNCHANGED token

\* releaseReference: the last one out deletes the slot, if it is still the session's.
releaseReference(o, s) ==
    LET slot == slotOf[o]
    IN  /\ refs' = [refs EXCEPT ![slot] = @ - 1]
        /\ slots' = IF refs[slot] = 1 /\ slots[s] = slot
                    THEN [slots EXCEPT ![s] = NoSlot] ELSE slots
        /\ slotOf' = [slotOf EXCEPT ![o] = NoSlot]
        /\ UNCHANGED token
================================================================================
