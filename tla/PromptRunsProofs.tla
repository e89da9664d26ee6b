---------------------------- MODULE PromptRunsProofs ----------------------------
(***************************************************************************)
(* The session as a lock, for any operations, sessions, users and provider.    *)
(*                                                                           *)
(* SlotSound is what the coordinator maintains: whoever holds or awaits a      *)
(* session is counted by the session's current slot, which is deleted only     *)
(* with its last user, so holders of one session share one token.  InboxSound  *)
(* and LineageSound rest on it.                                               *)
(***************************************************************************)
EXTENDS PromptRuns, FiniteSetTheorems, SequenceTheorems, TLAPS

\* A run between the stored prompt's parent and its release.
Working == {"prompting", "compacting", "registering", "responding", "requesting", "calling",
            "storing", "completed", "answering", "failing", "closing", "returning", "ending"}

\* The states in which a run may have an inbox in the registry.
Open == {"responding", "requesting", "calling", "storing", "completed", "answering",
         "failing", "closing"}

UsersOf(captured, k) == {o \in Operations : captured[o] = k}

ScopeTyped ==
    /\ SlotTypeOK
    /\ registered \in [Sessions -> Runs \cup {NoRun}]
    /\ pc \in [Operations -> States]
    /\ session \in [Operations \cup Notices -> Sessions]

\* An operation is counted by the slot it captured, which is its session's.
Captured ==
    \A o \in Operations :
        IF pc[o] \in {"idle", "done"} THEN slotOf[o] = NoSlot
        ELSE slotOf[o] \in Operations /\ slotOf[o] = slots[session[o]]

\* A slot belongs to the session of the operation that made it, and has users.
SlotOwned ==
    \A s \in Sessions :
        slots[s] # NoSlot =>
            session[slots[s]] = s /\ \E o \in Operations : slotOf[o] = slots[s]

Counted == \A k \in Operations : refs[k] = Cardinality(UsersOf(slotOf, k))

\* The token is held by at most one operation.
TokenHeld ==
    \A o \in Operations :
        Holding(o) =>
            /\ token[slotOf[o]]
            /\ \A p \in Operations : Holding(p) /\ slotOf[p] = slotOf[o] => p = o

SlotSound == Captured /\ SlotOwned /\ Counted /\ TokenHeld

\* The registry names only runs that are between registration and close.
InboxSound ==
    \A s \in Sessions :
        registered[s] # NoRun => session[registered[s]] = s /\ pc[registered[s]] \in Open

IndInv == ScopeTyped /\ SlotSound /\ InboxSound

\* The latest entry continues all that is stored, and so does whoever works on it.
LineageSound ==
    /\ leaf \in [Sessions -> SUBSET Operations]
    /\ lineage \in [Operations -> SUBSET Operations]
    /\ stored \in [Sessions -> SUBSET Operations]
    /\ \A s \in Sessions : stored[s] \subseteq leaf[s]
    /\ \A o \in Operations :
         /\ pc[o] \in {"idle", "waiting", "entering"} => o \notin stored[session[o]]
         /\ pc[o] \in Working \/ (pc[o] = "releasing" /\ o \in stored[session[o]])
               => stored[session[o]] \subseteq lineage[o] \cup {o}

--------------------------------------------------------------------------------
(* What the steps that hold a session may do to the rest of the state. *)

\* Operation o moves from its place inside the session to the place to.
Moves(o, to) ==
    /\ pc' = [pc EXCEPT ![o] = to]
    /\ UNCHANGED <<slotVars, session>>

\* How a step of a run that moves to the place to may change the registry.
Registers(r, to) ==
    \/ /\ registered' = registered
       /\ to \in Open \/ pc[r] \notin Open \/ registered[session[r]] # r
    \/ /\ registered' = [registered EXCEPT ![session[r]] = r]
       /\ to \in Open
    \/ registered' = [registered EXCEPT ![session[r]] = NoRun]

\* A step of a run keeps the slot, and opens or closes the inbox of its own run.
LEMMA RunStepFrame ==
    ASSUME NEW r \in Runs, RunStep(r)
    PROVE  /\ pc[r] \in Working \ {"compacting"}
           /\ MayAppendEntry(r)
           /\ \E to \in Working \cup {"releasing"} : Moves(r, to) /\ Registers(r, to)
<1> USE DEF Moves, Registers, MayAppendEntry, Goes, Working, Open, slotVars, inboxVars, entryVars
<1>1. CASE AppendUserEntry(r)
  BY <1>1 DEF AppendUserEntry
<1>2. CASE Register(r)
  BY <1>2 DEF Register, register
<1>3. CASE RespondToSlashCommand(r)
  BY <1>3 DEF RespondToSlashCommand
<1>4. CASE UseCachedResponse(r)
  BY <1>4 DEF UseCachedResponse, settle
<1>5. CASE PrepareRequest(r)
  BY <1>5 DEF PrepareRequest
<1>6. CASE TextRound(r)
  BY <1>6 DEF TextRound, drainFinal, settle, drain
<1>7. CASE ToolRound(r)
  BY <1>7 DEF ToolRound, drainSteering, drainFinal, settle, drain
<1>8. CASE PersistPendingRound(r)
  BY <1>8 DEF PersistPendingRound, restoreSteeringAfterCheckpointFailure, restore
<1>9. CASE PersistSteeringDraft(r)
  BY <1>9 DEF PersistSteeringDraft, restoreSteeringAfterCheckpointFailure, restore
<1>10. CASE FailRequest(r) \/ RetryRequest(r) \/ Complete(r)
  BY <1>10 DEF FailRequest, RetryRequest, Complete
<1>11. CASE RecoverOverflow(r)
  BY <1>11 DEF RecoverOverflow
<1>12. CASE PersistAnswer(r) \/ PersistFailure(r)
  BY <1>12 DEF PersistAnswer, PersistFailure
<1>13. CASE CloseRegistration(r)
  BY <1>13 DEF CloseRegistration, unregister
<1>14. CASE ReturnSteering(r) \/ EndTurn(r)
  BY <1>14 DEF ReturnSteering, EndTurn, close
<1> QED
  BY <1>1, <1>2, <1>3, <1>4, <1>5, <1>6, <1>7, <1>8, <1>9, <1>10, <1>11, <1>12, <1>13, <1>14
     DEF RunStep

--------------------------------------------------------------------------------
(* The coordinator. *)

\* The users of a slot are finitely many operations.
LEMMA UsersFinite ==
    ASSUME NEW captured, NEW k
    PROVE  /\ IsFiniteSet(Operations)
           /\ IsFiniteSet(UsersOf(captured, k))
           /\ Cardinality(UsersOf(captured, k)) \in Nat
<1>1. IsFiniteSet(Operations)
  BY OperationAssumption, FS_Union DEF Operations
<1>2. UsersOf(captured, k) \in SUBSET Operations
  BY DEF UsersOf
<1>3. IsFiniteSet(UsersOf(captured, k))
  BY <1>1, <1>2, FS_Subset
<1> QED
  BY <1>1, <1>3, FS_CardinalityType

\* acquire finds the slot of the session or makes one, and counts its caller.
LEMMA AcquireSlot ==
    ASSUME ScopeTyped, SlotSound, NEW o \in Operations, Acquire(o)
    PROVE  SlotTypeOK' /\ SlotSound'
<1> DEFINE s == session[o]
           k == IF slots[s] = NoSlot THEN o ELSE slots[s]
<1>1. /\ pc[o] = "idle" /\ pc' = [pc EXCEPT ![o] = "waiting"]
      /\ slots' = [slots EXCEPT ![s] = k] /\ refs' = [refs EXCEPT ![k] = @ + 1]
      /\ slotOf' = [slotOf EXCEPT ![o] = k] /\ token' = token /\ session' = session
  BY DEF Acquire, Goes, reference
<1>2. s \in Sessions /\ k \in Operations /\ slotOf[o] = NoSlot
  BY <1>1 DEF ScopeTyped, SlotTypeOK, SlotSound, Captured
<1> HIDE DEF k
<1>3. SlotTypeOK'
  BY <1>1, <1>2 DEF ScopeTyped, SlotTypeOK
<1>4. Captured'
  <2>1. \A p \in Operations : p # o /\ session[p] = s /\ pc[p] \notin {"idle", "done"} => slots[s] = k
    BY <1>2, NoSlotAssumption DEF k, SlotSound, Captured
  <2> QED
    BY <1>1, <1>2, <2>1 DEF ScopeTyped, SlotTypeOK, SlotSound, Captured
<1>5. SlotOwned'
  <2>1. session[k] = s
    BY <1>2 DEF k, SlotSound, SlotOwned
  <2>2. \A u \in Sessions : u # s /\ slots[u] # NoSlot =>
            session[slots[u]] = u /\ \E p \in Operations : slotOf'[p] = slots[u]
    BY <1>1, <1>2 DEF ScopeTyped, SlotTypeOK, SlotSound, SlotOwned
  <2>3. slotOf'[o] = k /\ slots'[s] = k
    BY <1>1, <1>2 DEF ScopeTyped, SlotTypeOK
  <2>4. \A u \in Sessions : u # s => slots'[u] = slots[u]
    BY <1>1, <1>2 DEF ScopeTyped, SlotTypeOK
  <2> QED
    BY <1>1, <1>2, <2>1, <2>2, <2>3, <2>4 DEF SlotOwned
<1>6. Counted'
  <2>1. UsersOf(slotOf', k) = UsersOf(slotOf, k) \cup {o} /\ o \notin UsersOf(slotOf, k)
    BY <1>1, <1>2, NoSlotAssumption DEF UsersOf, ScopeTyped, SlotTypeOK
  <2>2. \A q \in Operations : q # k => UsersOf(slotOf', q) = UsersOf(slotOf, q)
    BY <1>1, <1>2, NoSlotAssumption DEF UsersOf, ScopeTyped, SlotTypeOK
  <2>3. Cardinality(UsersOf(slotOf', k)) = Cardinality(UsersOf(slotOf, k)) + 1
    BY <2>1, UsersFinite, FS_AddElement
  <2>4. refs'[k] = refs[k] + 1 /\ \A q \in Operations : q # k => refs'[q] = refs[q]
    BY <1>1, <1>2 DEF ScopeTyped, SlotTypeOK
  <2> QED
    BY <1>2, <2>2, <2>3, <2>4 DEF SlotSound, Counted
<1>7. TokenHeld'
  BY <1>1, <1>2 DEF ScopeTyped, SlotTypeOK, SlotSound, TokenHeld, Holding
<1> QED
  BY <1>3, <1>4, <1>5, <1>6, <1>7 DEF SlotSound

\* The send succeeds only while no holder of the slot has its token.
LEMMA EnterSlot ==
    ASSUME ScopeTyped, SlotSound, NEW o \in Operations, Enter(o)
    PROVE  SlotTypeOK' /\ SlotSound'
<1>1. /\ pc[o] = "waiting" /\ pc' = [pc EXCEPT ![o] = "entering"]
      /\ ~token[slotOf[o]] /\ token' = [token EXCEPT ![slotOf[o]] = TRUE]
      /\ slots' = slots /\ refs' = refs /\ slotOf' = slotOf /\ session' = session
  BY DEF Enter, Goes, sendToken
<1>2. slotOf[o] \in Operations
  BY <1>1 DEF SlotSound, Captured
<1>3. SlotTypeOK' /\ Captured' /\ SlotOwned' /\ Counted'
  BY <1>1, <1>2 DEF ScopeTyped, SlotTypeOK, SlotSound, Captured, SlotOwned, Counted
<1>4. TokenHeld'
  BY <1>1, <1>2 DEF ScopeTyped, SlotTypeOK, SlotSound, TokenHeld, Holding
<1> QED
  BY <1>3, <1>4 DEF SlotSound

\* release gives up one reference, and deletes the slot with the last one.
LEMMA ReleaseSlot ==
    ASSUME ScopeTyped, SlotSound, NEW o \in Operations, Release(o)
    PROVE  SlotTypeOK' /\ SlotSound'
<1>1. /\ pc[o] = "releasing" /\ pc' = [pc EXCEPT ![o] = "leaving"]
      /\ token' = [token EXCEPT ![slotOf[o]] = FALSE]
      /\ slots' = slots /\ refs' = refs /\ slotOf' = slotOf /\ session' = session
  BY DEF Release, Goes, receiveToken
<1>2. slotOf[o] \in Operations /\ Holding(o)
  BY <1>1 DEF SlotSound, Captured, Holding
<1>3. SlotTypeOK' /\ Captured' /\ SlotOwned' /\ Counted'
  BY <1>1, <1>2 DEF ScopeTyped, SlotTypeOK, SlotSound, Captured, SlotOwned, Counted
<1>4. TokenHeld'
  BY <1>1, <1>2 DEF ScopeTyped, SlotTypeOK, SlotSound, TokenHeld, Holding
<1> QED
  BY <1>3, <1>4 DEF SlotSound

\* releaseReference, by a canceled waiter or after the receive: the slot goes with
\* its last user, and whoever remains keeps it.
LEMMA ReferenceReleased ==
    ASSUME ScopeTyped, SlotSound, NEW o \in Operations,
           pc[o] \in {"waiting", "leaving"}, pc' = [pc EXCEPT ![o] = "done"],
           releaseReference(o, session[o]), session' = session
    PROVE  SlotTypeOK' /\ SlotSound'
<1> DEFINE s == session[o]
           k == slotOf[o]
<1>1. /\ refs' = [refs EXCEPT ![k] = @ - 1]
      /\ slots' = IF refs[k] = 1 /\ slots[s] = k THEN [slots EXCEPT ![s] = NoSlot] ELSE slots
      /\ slotOf' = [slotOf EXCEPT ![o] = NoSlot] /\ token' = token
  BY DEF releaseReference
<1>2. s \in Sessions /\ k \in Operations /\ k = slots[s] /\ k # NoSlot /\ session[k] = s
  BY NoSlotAssumption DEF ScopeTyped, SlotTypeOK, SlotSound, Captured, SlotOwned
<1>3. o \in UsersOf(slotOf, k)
  BY DEF UsersOf
<1>4. refs[k] = 1 => \A p \in Operations : slotOf[p] = k => p = o
  <2>1. ASSUME refs[k] = 1 PROVE \E x : UsersOf(slotOf, k) = {x}
    BY <1>2, <2>1, UsersFinite, FS_Singleton DEF SlotSound, Counted
  <2> QED
    BY <1>3, <2>1 DEF UsersOf
<1>5. refs[k] # 1 => \E p \in Operations : p # o /\ slotOf[p] = k
  <2>1. ASSUME \A p \in Operations : slotOf[p] = k => p = o PROVE refs[k] = 1
    <3>1. UsersOf(slotOf, k) = {o}
      BY <2>1 DEF UsersOf
    <3> QED
      BY <1>2, <3>1, FS_Singleton DEF SlotSound, Counted
  <2> QED
    BY <2>1
<1>6. \A p \in Operations :
        p # o /\ pc[p] \notin {"idle", "done"} => slots'[session[p]] = slots[session[p]]
  BY <1>1, <1>2, <1>4 DEF ScopeTyped, SlotTypeOK, SlotSound, Captured
<1> HIDE DEF k
<1>7. SlotTypeOK'
  BY <1>1, <1>2 DEF ScopeTyped, SlotTypeOK
<1>8. Captured'
  BY <1>1, <1>6 DEF ScopeTyped, SlotTypeOK, SlotSound, Captured
<1>9. SlotOwned'
  <2> SUFFICES ASSUME NEW u \in Sessions, slots'[u] # NoSlot
               PROVE  session[slots'[u]] = u /\ \E p \in Operations : slotOf'[p] = slots'[u]
    BY DEF SlotOwned
  <2>1. slots'[u] = slots[u] /\ (u = s => refs[k] # 1)
    BY <1>1, <1>2 DEF ScopeTyped, SlotTypeOK
  <2>2. session[slots[u]] = u
    BY <2>1 DEF SlotSound, SlotOwned
  <2>3. PICK p \in Operations : slotOf[p] = slots[u] /\ p # o
    BY <1>2, <1>5, <2>1, <2>2 DEF SlotSound, SlotOwned, k
  <2>4. slotOf'[p] = slots[u]
    BY <1>1, <2>3 DEF ScopeTyped, SlotTypeOK
  <2> QED
    BY <2>1, <2>2, <2>4
<1>10. Counted'
  <2>1. UsersOf(slotOf', k) = UsersOf(slotOf, k) \ {o}
    BY <1>1, <1>2 DEF UsersOf, ScopeTyped, SlotTypeOK
  <2>2. \A q \in Operations : q # k => UsersOf(slotOf', q) = UsersOf(slotOf, q)
    BY <1>1, <1>2, NoSlotAssumption DEF UsersOf, ScopeTyped, SlotTypeOK, k
  <2>3. Cardinality(UsersOf(slotOf', k)) = Cardinality(UsersOf(slotOf, k)) - 1
    BY <1>3, <2>1, UsersFinite, FS_RemoveElement
  <2>4. refs'[k] = refs[k] - 1 /\ \A q \in Operations : q # k => refs'[q] = refs[q]
    BY <1>1, <1>2 DEF ScopeTyped, SlotTypeOK
  <2> QED
    BY <1>2, <2>2, <2>3, <2>4 DEF SlotSound, Counted
<1>11. TokenHeld'
  BY <1>1 DEF ScopeTyped, SlotTypeOK, SlotSound, TokenHeld, Holding
<1> QED
  BY <1>7, <1>8, <1>9, <1>10, <1>11 DEF SlotSound

\* Whoever holds the session and goes on holding it leaves the coordinator alone.
LEMMA SlotKept ==
    ASSUME ScopeTyped, SlotSound, NEW o \in Operations, pc[o] \in Working \cup {"entering"},
           NEW to \in Working \cup {"releasing"}, Moves(o, to)
    PROVE  SlotTypeOK' /\ SlotSound'
<1>1. \A p \in Operations : pc'[p] = IF p = o THEN to ELSE pc[p]
  BY DEF ScopeTyped, Moves
<1>2. slots' = slots /\ refs' = refs /\ token' = token /\ slotOf' = slotOf /\ session' = session
  BY DEF Moves, slotVars
<1>3. SlotTypeOK' /\ Captured' /\ SlotOwned' /\ Counted'
  BY <1>1, <1>2 DEF ScopeTyped, SlotTypeOK, SlotSound, Captured, SlotOwned, Counted, Working
<1>4. \A p \in Operations : Holding(p)' <=> Holding(p)
  BY <1>1 DEF Holding, Working
<1>5. TokenHeld'
  BY <1>2, <1>4 DEF SlotSound, TokenHeld
<1> QED
  BY <1>3, <1>5 DEF SlotSound

--------------------------------------------------------------------------------
(* The inductive step. *)

\* A step of an operation that has no inbox to lose.
LEMMA InboxKept ==
    ASSUME ScopeTyped, InboxSound, NEW o \in Operations, pc[o] \notin Open, NEW to \in States,
           pc' = [pc EXCEPT ![o] = to], session' = session, registered' = registered
    PROVE  pc' \in [Operations -> States] /\ InboxSound'
<1>1. pc' \in [Operations -> States]
  BY DEF ScopeTyped
<1>2. \A s \in Sessions : registered[s] # NoRun => registered[s] \in Operations
  BY DEF ScopeTyped, Operations
<1> QED
  BY <1>1, <1>2 DEF ScopeTyped, InboxSound

\* A step of a run leaves the inboxes of other runs alone.
LEMMA RunInbox ==
    ASSUME ScopeTyped, InboxSound, NEW r \in Runs, NEW to \in Working \cup {"releasing"},
           Moves(r, to), Registers(r, to)
    PROVE  /\ pc' \in [Operations -> States]
           /\ registered' \in [Sessions -> Runs \cup {NoRun}]
           /\ InboxSound'
<1>1. r \in Operations /\ session[r] \in Sessions /\ session' = session
  BY DEF Operations, ScopeTyped, Moves
<1>2. pc' \in [Operations -> States] /\ \A p \in Operations : pc'[p] = IF p = r THEN to ELSE pc[p]
  BY <1>1 DEF ScopeTyped, Moves, Working, States
<1>3. registered' \in [Sessions -> Runs \cup {NoRun}]
  BY <1>1 DEF ScopeTyped, Registers
<1>4. InboxSound'
  <2> SUFFICES ASSUME NEW s \in Sessions, registered'[s] # NoRun
               PROVE  session[registered'[s]] = s /\ pc'[registered'[s]] \in Open
    BY <1>1 DEF InboxSound
  <2>1. registered[s] # NoRun =>
            registered[s] \in Operations /\ session[registered[s]] = s /\ pc[registered[s]] \in Open
    BY DEF ScopeTyped, InboxSound, Operations
  <2>2. CASE registered'[s] = registered[s] /\ registered[s] # r
    BY <1>2, <2>1, <2>2
  <2>3. CASE registered'[s] = registered[s] /\ registered[s] = r
    BY <1>1, <1>2, <2>1, <2>3, InboxAssumption DEF ScopeTyped, Registers
  <2>4. CASE registered'[s] # registered[s]
    BY <1>1, <1>2, <2>4 DEF ScopeTyped, Registers
  <2> QED
    BY <2>2, <2>3, <2>4
<1> QED
  BY <1>2, <1>3, <1>4

\* Before any operation there is no slot, no user and no inbox.
LEMMA IndInvInit == Init => IndInv
<1> SUFFICES ASSUME Init PROVE IndInv
  OBVIOUS
<1>1. ScopeTyped /\ Captured /\ SlotOwned /\ TokenHeld /\ InboxSound
  BY DEF Init, SlotInit, InboxInit, ScopeTyped, SlotTypeOK, States, Captured, SlotOwned,
         TokenHeld, Holding, InboxSound
<1>2. Counted
  <2>1. \A k \in Operations : refs[k] = 0 /\ UsersOf(slotOf, k) = {}
    BY NoSlotAssumption DEF Init, SlotInit, UsersOf
  <2> QED
    BY <2>1, FS_EmptySet DEF Counted
<1> QED
  BY <1>1, <1>2 DEF IndInv, SlotSound

\* What the invariant is about, and what steps of users and terminal leave alone.
scopeVars == <<slots, refs, token, slotOf, registered, pc, session>>

\* Steps that leave slots, program counters and the registry alone.
LEMMA ScopeUnchanged ==
    ASSUME IndInv, UNCHANGED scopeVars
    PROVE  IndInv'
<1>1. ScopeTyped' /\ InboxSound'
  BY DEF IndInv, scopeVars, ScopeTyped, SlotTypeOK, InboxSound
<1>2. SlotSound'
  BY DEF IndInv, scopeVars, SlotSound, Captured, SlotOwned, Counted, TokenHeld, Holding
<1> QED
  BY <1>1, <1>2 DEF IndInv

\* Every step keeps slots and registry sound.
LEMMA IndInvNext == IndInv /\ [Next]_vars => IndInv'
<1> SUFFICES ASSUME IndInv, [Next]_vars PROVE IndInv'
  OBVIOUS
<1> USE DEF IndInv
<1>1. ASSUME NEW o \in Operations, Acquire(o) PROVE IndInv'
  <2>1. SlotTypeOK' /\ SlotSound'
    BY <1>1, AcquireSlot
  <2>2. /\ pc[o] \notin Open /\ pc' = [pc EXCEPT ![o] = "waiting"] /\ "waiting" \in States
        /\ session' = session /\ registered' = registered
    BY <1>1 DEF Acquire, Goes, Open, States, inboxVars
  <2>3. pc' \in [Operations -> States] /\ InboxSound'
    BY <2>2, InboxKept
  <2> QED
    BY <2>1, <2>2, <2>3 DEF ScopeTyped
<1>2. ASSUME NEW o \in Operations, Enter(o) PROVE IndInv'
  <2>1. SlotTypeOK' /\ SlotSound'
    BY <1>2, EnterSlot
  <2>2. /\ pc[o] \notin Open /\ pc' = [pc EXCEPT ![o] = "entering"] /\ "entering" \in States
        /\ session' = session /\ registered' = registered
    BY <1>2 DEF Enter, Goes, Open, States, inboxVars
  <2>3. pc' \in [Operations -> States] /\ InboxSound'
    BY <2>2, InboxKept
  <2> QED
    BY <2>1, <2>2, <2>3 DEF ScopeTyped
<1>3. ASSUME NEW o \in Operations, Release(o) PROVE IndInv'
  <2>1. SlotTypeOK' /\ SlotSound'
    BY <1>3, ReleaseSlot
  <2>2. /\ pc[o] \notin Open /\ pc' = [pc EXCEPT ![o] = "leaving"] /\ "leaving" \in States
        /\ session' = session /\ registered' = registered
    BY <1>3 DEF Release, Goes, Open, States, inboxVars
  <2>3. pc' \in [Operations -> States] /\ InboxSound'
    BY <2>2, InboxKept
  <2> QED
    BY <2>1, <2>2, <2>3 DEF ScopeTyped
<1>4. ASSUME NEW o \in Operations, GiveUp(o) \/ Leave(o) PROVE IndInv'
  <2>1. /\ pc[o] \in {"waiting", "leaving"} /\ pc' = [pc EXCEPT ![o] = "done"]
        /\ releaseReference(o, session[o]) /\ session' = session /\ registered' = registered
    BY <1>4 DEF GiveUp, Leave, Goes, inboxVars
  <2>2. SlotTypeOK' /\ SlotSound'
    BY <2>1, ReferenceReleased
  <2>3. pc[o] \notin Open /\ "done" \in States
    BY <2>1 DEF Open, States
  <2>4. pc' \in [Operations -> States] /\ InboxSound'
    BY <2>1, <2>3, InboxKept
  <2> QED
    BY <2>1, <2>2, <2>4 DEF ScopeTyped
<1>5. ASSUME NEW o \in Operations, ResolveParent(o) \/ CompactSession(o) PROVE IndInv'
  <2>1. PICK to \in {"prompting", "compacting", "releasing"} : Moves(o, to)
    BY <1>5 DEF ResolveParent, CompactSession, Goes, Moves, slotVars
  <2>2. /\ pc[o] \in {"entering", "compacting"} /\ registered' = registered
        /\ to \in Working \cup {"releasing"} /\ to \in States
    BY <1>5 DEF ResolveParent, CompactSession, Goes, inboxVars, Working, States
  <2>3. SlotTypeOK' /\ SlotSound'
    BY <2>1, <2>2, SlotKept DEF Working
  <2>4. pc' \in [Operations -> States] /\ InboxSound' /\ session' = session
    BY <2>1, <2>2, InboxKept DEF Moves, Open
  <2> QED
    BY <2>2, <2>3, <2>4 DEF ScopeTyped
<1>6. ASSUME NEW r \in Runs, RunStep(r) PROVE IndInv'
  <2>1. PICK to \in Working \cup {"releasing"} : Moves(r, to) /\ Registers(r, to)
    BY <1>6, RunStepFrame
  <2>2. r \in Operations /\ pc[r] \in Working \cup {"entering"}
    BY <1>6, RunStepFrame DEF Operations
  <2>3. SlotTypeOK' /\ SlotSound'
    BY <2>1, <2>2, SlotKept
  <2>4. /\ pc' \in [Operations -> States] /\ InboxSound' /\ session' = session
        /\ registered' \in [Sessions -> Runs \cup {NoRun}]
    BY <2>1, RunInbox DEF Moves
  <2> QED
    BY <2>3, <2>4 DEF ScopeTyped
<1>7. ASSUME NEW d \in Steers, AcceptSteer(d) \/ \E r \in Runs : LookUpInbox(d, r) PROVE IndInv'
  BY <1>7, ScopeUnchanged DEF AcceptSteer, LookUpInbox, accept, scopeVars, slotVars, inboxVars
<1>8. ASSUME NEW n \in Notices, SaveAgentCompletion(n) \/ ReadLeaf(n) \/ AppendSessionInfo(n)
      PROVE  IndInv'
  BY <1>8, ScopeUnchanged DEF SaveAgentCompletion, ReadLeaf, AppendSessionInfo, scopeVars,
         slotVars, inboxVars
<1>9. ASSUME UNCHANGED vars PROVE IndInv'
  BY <1>9, ScopeUnchanged DEF vars, scopeVars, slotVars, inboxVars
<1> QED
  BY <1>1, <1>2, <1>3, <1>4, <1>5, <1>6, <1>7, <1>8, <1>9 DEF Next, Done, Operations

\* Holders of one session share a slot, and a slot has one token.
LEMMA IndInvExcludes == IndInv => OneOperationPerSession
BY DEF IndInv, SlotSound, Captured, TokenHeld, OneOperationPerSession, Holding

\* Every reachable state satisfies the invariant that the coordinator and the registry
\* maintain together.
THEOREM Invariance == Spec => []IndInv
BY IndInvInit, IndInvNext, PTL DEF Spec

\* However many operations wait for a session, give up or leave, one at a time is
\* between acquire and release of it.
THEOREM OneAtATime == Spec => []OneOperationPerSession
BY Invariance, IndInvExcludes, PTL

\* A session that nobody uses has neither slot nor inbox, and registerSteeringInbox
\* never finds the inbox of another run.
THEOREM LeftClean == Spec => []SessionLeftClean
<1>1. IndInv => SessionLeftClean
  <2> SUFFICES ASSUME IndInv PROVE SessionLeftClean
    OBVIOUS
  <2>1. ASSUME NEW s \in Sessions,
               \A o \in Operations : session[o] = s => pc[o] \in {"idle", "done"}
        PROVE  slots[s] = NoSlot /\ registered[s] = NoRun
    <3>1. slots[s] = NoSlot
      BY <2>1, NoSlotAssumption
         DEF IndInv, ScopeTyped, SlotTypeOK, SlotSound, SlotOwned, Captured
    <3>2. registered[s] = NoRun
      BY <2>1 DEF IndInv, ScopeTyped, InboxSound, Open, Operations
    <3> QED
      BY <3>1, <3>2
  <2>2. ASSUME NEW r \in Runs, pc[r] = "registering" PROVE registered[session[r]] = NoRun
    <3> DEFINE q == registered[session[r]]
    <3>1. r \in Operations /\ session[r] \in Sessions /\ Holding(r)
      BY <2>2 DEF IndInv, ScopeTyped, Operations, Holding
    <3>2. q # NoRun => q \in Operations /\ session[q] = session[r] /\ pc[q] \in Open
      BY <3>1 DEF IndInv, ScopeTyped, InboxSound, Operations
    <3>3. q # NoRun => Holding(q) /\ q # r
      BY <2>2, <3>2 DEF Holding, Open
    <3> QED
      BY <3>1, <3>2, <3>3, IndInvExcludes DEF OneOperationPerSession
  <2> QED
    BY <2>1, <2>2 DEF SessionLeftClean
<1> QED
  BY Invariance, <1>1, PTL

--------------------------------------------------------------------------------
(* The conversation, as long as only the holder of a session writes to it. *)

\* An operation at work stores an entry, or leaves what is stored alone.
LEMMA WorkKeepsLineage ==
    ASSUME IndInv, LineageSound, NEW o \in Operations, pc[o] \in Working,
           NEW to \in Working \cup {"releasing"}, pc' = [pc EXCEPT ![o] = to],
           session' = session, MayAppendEntry(o)
    PROVE  LineageSound'
<1> DEFINE s == session[o]
<1>1. s \in Sessions /\ \A p \in Operations : pc'[p] = IF p = o THEN to ELSE pc[p]
  BY DEF IndInv, ScopeTyped
<1>2. \A p \in Operations : p # o /\ session[p] = s => pc[p] \notin Working \cup {"releasing"}
  BY IndInvExcludes DEF OneOperationPerSession, Holding, Working
<1>3. stored[s] \subseteq lineage[o] \cup {o}
  BY DEF LineageSound
<1>4. CASE AppendsEntry(o)
  <2>1. /\ lineage' = lineage
        /\ \A u \in Sessions : leaf'[u] = IF u = s THEN lineage[o] \cup {o} ELSE leaf[u]
        /\ \A u \in Sessions : stored'[u] = IF u = s THEN stored[u] \cup {o} ELSE stored[u]
    BY <1>1, <1>4 DEF AppendsEntry, LineageSound
  <2>2. /\ leaf' \in [Sessions -> SUBSET Operations] /\ lineage' \in [Operations -> SUBSET Operations]
        /\ stored' \in [Sessions -> SUBSET Operations]
    BY <1>1, <1>4 DEF AppendsEntry, LineageSound
  <2>3. \A u \in Sessions : stored'[u] \subseteq leaf'[u]
    BY <1>3, <2>1 DEF LineageSound
  <2>4. ASSUME NEW p \in Operations, p # o
        PROVE  /\ pc'[p] \in {"idle", "waiting", "entering"} => p \notin stored'[session[p]]
               /\ pc'[p] \in Working \/ (pc'[p] = "releasing" /\ p \in stored'[session[p]])
                     => stored'[session[p]] \subseteq lineage[p] \cup {p}
    <3>1. session[p] \in Sessions /\ pc'[p] = pc[p]
      BY <1>1, <2>4 DEF IndInv, ScopeTyped
    <3>2. CASE session[p] = s
      <4>1. pc'[p] \notin Working /\ pc'[p] # "releasing"
        BY <1>2, <2>4, <3>1, <3>2
      <4>2. pc[p] \in {"idle", "waiting", "entering"} => p \notin stored[s]
        BY <3>2 DEF LineageSound
      <4>3. stored'[s] = stored[s] \cup {o}
        BY <1>1, <2>1
      <4> QED
        BY <2>4, <3>1, <3>2, <4>1, <4>2, <4>3
    <3>3. CASE session[p] # s
      BY <2>1, <3>1, <3>3 DEF LineageSound
    <3> QED
      BY <3>2, <3>3
  <2>5. pc'[o] \notin {"idle", "waiting", "entering"} /\ stored'[s] \subseteq lineage[o] \cup {o}
    BY <1>1, <1>3, <2>1 DEF Working
  <2> QED
    BY <2>1, <2>2, <2>3, <2>4, <2>5 DEF LineageSound
<1>5. CASE UNCHANGED entryVars
  BY <1>1, <1>3, <1>5 DEF LineageSound, entryVars, Working
<1> QED
  BY <1>4, <1>5 DEF MayAppendEntry

\* Without entries written past the slot, a step keeps every branch whole.
LEMMA LineageNext ==
    ASSUME Notices = {}, IndInv, LineageSound, [Next]_vars
    PROVE  LineageSound'
<1> USE DEF Goes, entryVars
<1>0. \A o \in Operations : \A to :
        pc' = [pc EXCEPT ![o] = to] => \A p \in Operations : pc'[p] = IF p = o THEN to ELSE pc[p]
  BY DEF IndInv, ScopeTyped
<1>1. ASSUME NEW o \in Operations, Acquire(o) \/ Enter(o) \/ Release(o) \/ GiveUp(o)
      PROVE  LineageSound'
  <2>1. session' = session /\ UNCHANGED entryVars
    BY <1>1 DEF Acquire, Enter, Release, GiveUp
  <2>2. /\ \A p \in Operations : p # o => pc'[p] = pc[p]
        /\ pc'[o] \in {"waiting", "entering"} => pc[o] \in {"idle", "waiting"}
        /\ pc'[o] \in {"waiting", "entering", "leaving", "done"}
    BY <1>0, <1>1 DEF Acquire, Enter, Release, GiveUp
  <2> QED
    BY <2>1, <2>2 DEF LineageSound, Working
<1>2. ASSUME NEW o \in Operations, Leave(o) PROVE LineageSound'
  BY <1>0, <1>2 DEF Leave, LineageSound, Working
<1>3. ASSUME NEW o \in Operations, ResolveParent(o) PROVE LineageSound'
  <2>1. session[o] \in Sessions /\ session' = session /\ leaf' = leaf /\ stored' = stored
    BY <1>3 DEF ResolveParent, IndInv, ScopeTyped
  <2>2. /\ o \notin stored[session[o]]
        /\ \A p \in Operations : p # o => pc'[p] = pc[p] /\ lineage'[p] = lineage[p]
        /\ lineage' \in [Operations -> SUBSET Operations]
        /\ pc'[o] \in {"prompting", "compacting", "releasing"}
        /\ pc'[o] # "releasing" => lineage'[o] = leaf[session[o]]
    BY <1>0, <1>3, <2>1 DEF ResolveParent, LineageSound
  <2> QED
    BY <2>1, <2>2 DEF LineageSound, Working
<1>4. ASSUME NEW o \in Compactions, CompactSession(o) PROVE LineageSound'
  <2>1. /\ o \in Operations /\ pc[o] \in Working /\ pc' = [pc EXCEPT ![o] = "releasing"]
        /\ session' = session /\ MayAppendEntry(o)
    BY <1>4 DEF CompactSession, Operations, Working
  <2> QED
    BY <2>1, WorkKeepsLineage
<1>5. ASSUME NEW r \in Runs, RunStep(r) PROVE LineageSound'
  <2>1. PICK to \in Working \cup {"releasing"} : Moves(r, to)
    BY <1>5, RunStepFrame
  <2>2. /\ r \in Operations /\ pc[r] \in Working /\ pc' = [pc EXCEPT ![r] = to]
        /\ session' = session /\ MayAppendEntry(r)
    BY <1>5, <2>1, RunStepFrame DEF Operations, Moves
  <2> QED
    BY <2>2, WorkKeepsLineage
<1>6. ASSUME NEW d \in Steers, AcceptSteer(d) \/ \E r \in Runs : LookUpInbox(d, r)
      PROVE  LineageSound'
  BY <1>6 DEF AcceptSteer, LookUpInbox, LineageSound
<1>7. ASSUME UNCHANGED vars PROVE LineageSound'
  BY <1>7 DEF vars, LineageSound
<1> QED
  BY <1>1, <1>2, <1>3, <1>4, <1>5, <1>6, <1>7 DEF Next, Done

\* If every entry is written under the session's slot, each run continues all that
\* was stored before it: only the terminal's own entries can break the lineage.
THEOREM UnbrokenUnderSlot ==
    ASSUME Notices = {}
    PROVE  Spec => []LineageUnbroken
<1>1. Init => LineageSound
  BY DEF Init, LineageSound, Working
<1>2. IndInv /\ LineageSound /\ [Next]_vars => LineageSound'
  BY LineageNext
<1>3. IndInv /\ LineageSound => LineageUnbroken
  <2> SUFFICES ASSUME IndInv, LineageSound, NEW r \in Runs, Holding(r), r \in stored[session[r]]
               PROVE  stored[session[r]] \subseteq lineage[r] \cup {r}
    BY DEF LineageUnbroken
  <2>1. r \in Operations /\ pc[r] \in Working \cup {"entering", "releasing"}
    BY DEF IndInv, ScopeTyped, Operations, Holding, States, Working
  <2> QED
    BY <2>1 DEF LineageSound
<1> QED
  BY Invariance, <1>1, <1>2, <1>3, PTL DEF Spec

\* One operation at a time holds a session, and neither a slot nor an inbox is left of a
\* session that nobody uses.
THEOREM SessionsAreSound == Spec => []SessionsSound
<1>1. OneOperationPerSession /\ SessionLeftClean => SessionsSound
  BY DEF SessionsSound
<1>. QED
  BY <1>1, OneAtATime, LeftClean, PTL

--------------------------------------------------------------------------------
(***************************************************************************)
(* Steering and checkpoints of a run: what the inbox accepted is stored in     *)
(* that order, and what the provider is shown was stored before.               *)
(*                                                                           *)
(* The invariant of a run is a predicate of its local state, its inbox and     *)
(* its place (RunSound), so that steps of others keep it because they leave    *)
(* its arguments alone; that nobody else takes the registration of an open     *)
(* inbox is what IndInv gives.                                                *)
(***************************************************************************)

(* The messages that a run has consumed, and those that are on their way. *)

\* The accepted messages are those among the kept items, in order, and then the queue.
OrderOf(kept, accepted, queue) ==
    LET consumed == SteersAmong(kept, Len(kept))
    IN  /\ Len(accepted) = consumed + Len(queue)
        /\ \A i \in DOMAIN kept : kept[i].kind = "steer" =>
               kept[i].id = accepted[SteersAmong(kept, i)]
        /\ \A i \in DOMAIN queue : queue[i] = accepted[consumed + i]

\* Counting the steering messages of a prefix: at most its length, monotonically, and a
\* steering message counts itself.
LEMMA SteersCounted ==
    ASSUME NEW items, NEW n \in Nat
    PROVE  /\ SteersAmong(items, n) \in Nat
           /\ \A i \in 0..n : SteersAmong(items, i) <= SteersAmong(items, n)
           /\ \A i \in 1..n : items[i].kind = "steer" => SteersAmong(items, i) >= 1
<1> DEFINE S(k) == {i \in 1..k : items[i].kind = "steer"}
<1>1. \A k \in Nat : IsFiniteSet(S(k)) /\ Cardinality(S(k)) \in Nat
  <2> TAKE k \in Nat
  <2>1. IsFiniteSet(1..k) /\ S(k) \in SUBSET (1..k)
    BY FS_Interval
  <2> QED
    BY <2>1, FS_Subset, FS_CardinalityType
<1>2. \A i \in 0..n : Cardinality(S(i)) <= Cardinality(S(n))
  <2> TAKE i \in 0..n
  <2>1. S(i) \in SUBSET S(n)
    OBVIOUS
  <2> QED
    BY <1>1, <2>1, FS_Subset
<1>3. \A i \in 1..n : items[i].kind = "steer" => Cardinality(S(i)) >= 1
  <2> SUFFICES ASSUME NEW i \in 1..n, items[i].kind = "steer" PROVE Cardinality(S(i)) >= 1
    OBVIOUS
  <2>1. i \in S(i) /\ i \in Nat
    OBVIOUS
  <2>2. Cardinality(S(i)) # 0 /\ Cardinality(S(i)) \in Nat
    BY <1>1, <2>1, FS_EmptySet
  <2> HIDE DEF S
  <2> QED
    BY <2>2
<1> QED
  BY <1>1, <1>2, <1>3 DEF SteersAmong

\* What appending an item does to the counts.
LEMMA SteersAppended ==
    ASSUME NEW items \in Seq(Items), NEW x \in Items
    PROVE  /\ \A i \in 0..Len(items) :
                SteersAmong(Append(items, x), i) = SteersAmong(items, i)
           /\ SteersAmong(Append(items, x), Len(items) + 1) =
                SteersAmong(items, Len(items)) + (IF x.kind = "steer" THEN 1 ELSE 0)
<1> DEFINE n == Len(items)
           longer == Append(items, x)
           S == {i \in 1..n : items[i].kind = "steer"}
<1>1. n \in Nat /\ longer[n + 1] = x /\ \A i \in 1..n : longer[i] = items[i]
  BY LenProperties, AppendProperties
<1> HIDE DEF longer, n
<1>2. \A i \in 0..n : SteersAmong(longer, i) = SteersAmong(items, i)
  <2> TAKE i \in 0..n
  <2>1. {j \in 1..i : longer[j].kind = "steer"} = {j \in 1..i : items[j].kind = "steer"}
    BY <1>1
  <2> QED
    BY <2>1 DEF SteersAmong
<1>3. SteersAmong(longer, n + 1) =
        SteersAmong(items, n) + (IF x.kind = "steer" THEN 1 ELSE 0)
  <2>1. IsFiniteSet(S) /\ Cardinality(S) \in Nat /\ n + 1 \notin S
    <3>1. IsFiniteSet(1..n) /\ S \in SUBSET (1..n)
      BY <1>1, FS_Interval
    <3>2. n + 1 \notin S
      BY <1>1
    <3> QED
      BY <3>1, <3>2, FS_Subset, FS_CardinalityType
  <2>2. Cardinality(S \cup {n + 1}) = Cardinality(S) + 1
    BY <2>1, FS_AddElement
  <2>3. SteersAmong(items, n) = Cardinality(S) /\ SteersAmong(items, n) \in Nat
    BY <2>1 DEF SteersAmong
  <2>4. CASE x.kind = "steer"
    <3>1. {i \in 1..(n + 1) : longer[i].kind = "steer"} = S \cup {n + 1}
      BY <1>1, <2>4
    <3> QED
      BY <2>2, <2>3, <2>4, <3>1 DEF SteersAmong
  <2>5. CASE x.kind # "steer"
    <3>1. {i \in 1..(n + 1) : longer[i].kind = "steer"} = S
      BY <1>1, <2>5
    <3>2. QED
      <4>1. SteersAmong(longer, n + 1) = SteersAmong(items, n)
        BY <3>1 DEF SteersAmong
      <4> QED
        BY <2>3, <2>5, <4>1
  <2> QED
    BY <2>4, <2>5
<1> QED
  BY <1>2, <1>3 DEF longer, n

\* A round that is stored leaves the order alone.
LEMMA OrderRoundStored ==
    ASSUME NEW kept \in Seq(Items), NEW accepted \in Seq(Steers), NEW queue \in Seq(Steers),
           OrderOf(kept, accepted, queue), NEW x \in Items, x.kind = "round"
    PROVE  OrderOf(Append(kept, x), accepted, queue)
<1> DEFINE longer == Append(kept, x)
           n == Len(kept)
<1>1. /\ n \in Nat /\ DOMAIN kept = 1..n /\ Len(longer) = n + 1 /\ DOMAIN longer = 1..(n + 1)
      /\ longer[n + 1] = x /\ \A i \in 1..n : longer[i] = kept[i]
  <2>1. longer \in Seq(Items) /\ Len(longer) = n + 1
    BY AppendProperties
  <2> QED
    BY <2>1, LenProperties, AppendProperties
<1>2. /\ \A i \in 0..n : SteersAmong(longer, i) = SteersAmong(kept, i)
      /\ SteersAmong(longer, n + 1) = SteersAmong(kept, n)
  <2>1. SteersAmong(kept, n) \in Nat
    BY <1>1, SteersCounted
  <2> QED
    BY <1>1, <2>1, SteersAppended
<1> HIDE DEF longer, n
<1>3. \A i \in 1..(n + 1) : longer[i].kind = "steer" =>
        longer[i].id = accepted[SteersAmong(longer, i)]
  <2> SUFFICES ASSUME NEW i \in 1..(n + 1), longer[i].kind = "steer"
               PROVE  longer[i].id = accepted[SteersAmong(longer, i)]
    OBVIOUS
  <2>1. i \in 1..n /\ longer[i] = kept[i]
    BY <1>1
  <2> QED
    BY <1>1, <1>2, <2>1 DEF OrderOf, n
<1> QED
  BY <1>1, <1>2, <1>3 DEF OrderOf, longer, n

\* The oldest message of the queue is stored.
LEMMA OrderSteerStored ==
    ASSUME NEW kept \in Seq(Items), NEW accepted \in Seq(Steers), NEW queue \in Seq(Steers),
           queue # <<>>, OrderOf(kept, accepted, queue), Message(Head(queue)) \in Items
    PROVE  OrderOf(Append(kept, Message(Head(queue))), accepted, Tail(queue))
<1> DEFINE x == Message(Head(queue))
           longer == Append(kept, x)
           n == Len(kept)
           c == SteersAmong(kept, n)
<1>1. /\ n \in Nat /\ DOMAIN kept = 1..n /\ Len(longer) = n + 1 /\ DOMAIN longer = 1..(n + 1)
      /\ longer[n + 1] = x /\ \A i \in 1..n : longer[i] = kept[i]
  <2>1. longer \in Seq(Items) /\ Len(longer) = n + 1
    BY AppendProperties
  <2> QED
    BY <2>1, LenProperties, AppendProperties
<1>2. x.kind = "steer" /\ x.id = queue[1]
  BY DEF Message
<1>3. c \in Nat
  BY <1>1, SteersCounted
<1>4. /\ \A i \in 0..n : SteersAmong(longer, i) = SteersAmong(kept, i)
      /\ SteersAmong(longer, n + 1) = c + 1
  BY <1>1, <1>2, SteersAppended
<1>5. /\ Len(queue) \in Nat \ {0} /\ DOMAIN queue = 1..Len(queue)
      /\ Len(Tail(queue)) = Len(queue) - 1 /\ DOMAIN Tail(queue) = 1..(Len(queue) - 1)
      /\ \A i \in 1..(Len(queue) - 1) : Tail(queue)[i] = queue[i + 1]
  <2>1. Tail(queue) \in Seq(Steers) /\ Len(Tail(queue)) = Len(queue) - 1
    BY HeadTailProperties
  <2> QED
    BY <2>1, LenProperties, HeadTailProperties, EmptySeq
<1>6. /\ Len(accepted) = c + Len(queue)
      /\ \A i \in 1..n : kept[i].kind = "steer" => kept[i].id = accepted[SteersAmong(kept, i)]
      /\ \A i \in 1..Len(queue) : queue[i] = accepted[c + i]
  BY <1>1, <1>5 DEF OrderOf
<1> HIDE DEF longer, n, x, c
<1>7. \A i \in 1..(n + 1) : longer[i].kind = "steer" =>
        longer[i].id = accepted[SteersAmong(longer, i)]
  <2> SUFFICES ASSUME NEW i \in 1..(n + 1), longer[i].kind = "steer"
               PROVE  longer[i].id = accepted[SteersAmong(longer, i)]
    OBVIOUS
  <2>1. CASE i = n + 1
    BY <1>1, <1>2, <1>4, <1>5, <1>6, <2>1
  <2>2. CASE i \in 1..n
    BY <1>1, <1>4, <1>6, <2>2
  <2> QED
    BY <1>1, <2>1, <2>2
<1>8. \A i \in 1..(Len(queue) - 1) : Tail(queue)[i] = accepted[c + 1 + i]
  <2> TAKE i \in 1..(Len(queue) - 1)
  <2>1. i + 1 \in 1..Len(queue) /\ c + (i + 1) = c + 1 + i
    BY <1>3, <1>5
  <2> QED
    BY <1>5, <1>6, <2>1
<1>9. Len(accepted) = (c + 1) + Len(Tail(queue))
  BY <1>3, <1>5, <1>6
<1> QED
  BY <1>1, <1>4, <1>5, <1>7, <1>8, <1>9 DEF OrderOf, longer, n, x, c

\* A message is accepted behind all others.
LEMMA OrderAccepted ==
    ASSUME NEW kept \in Seq(Items), NEW accepted \in Seq(Steers), NEW queue \in Seq(Steers),
           OrderOf(kept, accepted, queue), NEW d \in Steers
    PROVE  OrderOf(kept, Append(accepted, d), Append(queue, d))
<1> DEFINE n == Len(kept)
           c == SteersAmong(kept, n)
           l == Len(queue)
           all == Append(accepted, d)
           more == Append(queue, d)
<1>1. n \in Nat /\ DOMAIN kept = 1..n /\ l \in Nat /\ DOMAIN queue = 1..l /\ c \in Nat
  BY LenProperties, SteersCounted
<1>2. /\ Len(accepted) = c + l
      /\ \A i \in 1..n : kept[i].kind = "steer" => kept[i].id = accepted[SteersAmong(kept, i)]
      /\ \A i \in 1..l : queue[i] = accepted[c + i]
  BY <1>1 DEF OrderOf
<1>3. /\ Len(more) = l + 1 /\ DOMAIN more = 1..(l + 1)
      /\ more[l + 1] = d /\ \A i \in 1..l : more[i] = queue[i]
  <2>1. more \in Seq(Steers)
    BY AppendProperties
  <2> QED
    BY <2>1, LenProperties, AppendProperties
<1>4. /\ Len(all) = c + l + 1 /\ all[c + l + 1] = d
      /\ \A i \in 1..(c + l) : all[i] = accepted[i]
  BY <1>1, <1>2, AppendProperties
<1>5. \A i \in 1..n : kept[i].kind = "steer" => SteersAmong(kept, i) \in 1..c
  BY <1>1, SteersCounted
<1> HIDE DEF n, c, l, all, more
<1>6. \A i \in 1..n : kept[i].kind = "steer" =>
        kept[i].id = all[SteersAmong(kept, i)]
  <2> SUFFICES ASSUME NEW i \in 1..n, kept[i].kind = "steer"
               PROVE  kept[i].id = all[SteersAmong(kept, i)]
    OBVIOUS
  <2>1. SteersAmong(kept, i) \in 1..(c + l)
    BY <1>1, <1>5
  <2> QED
    BY <1>2, <1>4, <2>1
<1>7. \A i \in 1..(l + 1) : more[i] = all[c + i]
  <2> TAKE i \in 1..(l + 1)
  <2>1. CASE i = l + 1
    BY <1>1, <1>3, <1>4, <2>1
  <2>2. CASE i \in 1..l
    <3>1. c + i \in 1..(c + l)
      BY <1>1, <2>2
    <3> QED
      BY <1>2, <1>3, <1>4, <2>2, <3>1
  <2> QED
    BY <1>1, <2>1, <2>2
<1>8. OrderOf(kept, all, more)
  BY <1>1, <1>3, <1>4, <1>6, <1>7 DEF OrderOf, n, c, l
<1> QED
  BY <1>8 DEF all, more

--------------------------------------------------------------------------------
(* The state of a run: v is run[r], d and c its inbox, p its place and o the inbox that *)
(* the registry names for its session. *)

RunRecord ==
    [hand : Seq(Steers), pending : Seq(Nat), rounds : Nat, talk : Seq(Items),
     kept : Seq(Items), attempt : 1..MaxAttempts, tools : 0..MaxToolRounds,
     advanced : BOOLEAN, recovered : BOOLEAN, answered : BOOLEAN,
     accepted : Seq(Steers), lost : Seq(Steers), returned : Seq(Steers)]

Typed(v, d, c) ==
    /\ v \in RunRecord
    /\ \A i \in DOMAIN v.pending : v.pending[i] \in 1..v.rounds
    /\ d \in Seq(Steers) /\ Len(d) <= Capacity
    /\ c \in BOOLEAN

Unopened == {"idle", "waiting", "entering", "prompting", "registering", "done"}
Ended == {"ending", "releasing", "leaving"}

\* Where each part of the state may be in use.
Staged(r, v, d, c, p, o) ==
    /\ p \in Unopened => v = FreshRun /\ d = <<>>
    /\ p \in {"responding", "requesting"} => v.kept = <<>> /\ v.talk = <<>> /\ v.pending = <<>>
    /\ v.hand # <<>> <=> p = "storing"
    /\ p = "storing" => o = r /\ ~c
    /\ v.lost # <<>> => p \in Ended \cup {"failing", "closing", "returning"}
    /\ v.lost # <<>> => Len(v.lost) + Len(d \o v.returned) > Capacity
    /\ v.returned # <<>> => p \in Ended
    /\ c => d = <<>>
    /\ p \in Open => o = r \/ c
    /\ p \in Ended => d = <<>>
    /\ p \in {"calling", "completed"} /\ v.kept # <<>> => v.kept[Len(v.kept)].kind = "steer"

\* The attempt's conversation is the end of the stored items and the rounds that are not
\* stored yet; the first z of them belong to earlier attempts.
AlignedAt(kept, pending, talk, z) ==
    /\ z + Len(talk) = Len(kept) + Len(pending)
    /\ \A i \in 1..Len(talk) :
         /\ z + i <= Len(kept) => talk[i] = kept[z + i]
         /\ z + i > Len(kept) => talk[i] = Round(pending[z + i - Len(kept)])

Mirrored(v) ==
    \E z \in 0..(Len(v.kept) + Len(v.pending)) : AlignedAt(v.kept, v.pending, v.talk, z)

Queue(v, d) == v.hand \o v.lost \o d \o v.returned

RunSound(r, v, d, c, p, o) ==
    /\ Typed(v, d, c)
    /\ Staged(r, v, d, c, p, o)
    /\ Mirrored(v)
    /\ OrderOf(v.kept, v.accepted, Queue(v, d))

RunOK(r) == RunSound(r, run[r], drafts[r], closed[r], pc[r], registered[session[r]])

\* A request that found an inbox finds it open or closed for good.
FoundOpen ==
    \A d \in Steers :
        steer[d].state = "found" =>
            LET i == steer[d].inbox
            IN  i \in Runs /\ (pc[i] \in Open \cup {"returning"} \/ closed[i])

EntriesTyped ==
    /\ leaf \in [Sessions -> SUBSET Operations]
    /\ lineage \in [Operations -> SUBSET Operations]
    /\ stored \in [Sessions -> SUBSET Operations]
    /\ notice \in [Notices -> [state : NoticeStates, parent : SUBSET Operations]]
    /\ steer \in [Steers -> [state : SteerStates, run : Runs \cup {NoRun},
                             inbox : Runs \cup {NoRun}]]

SteerInv ==
    /\ run \in [Runs -> RunRecord] /\ drafts \in [Runs -> Seq(Steers)]
    /\ closed \in [Runs -> BOOLEAN]
    /\ \A r \in Runs : RunOK(r)
    /\ FoundOpen
    /\ EntriesTyped

--------------------------------------------------------------------------------
(* What the steps of a checkpoint do to a run's state. *)

\* What Round and Message make are items.
LEMMA ItemsMade ==
    /\ \A n \in Nat : Round(n) \in Items /\ Round(n).kind = "round"
    /\ \A d \in Steers : Message(d) \in Items /\ Message(d).kind = "steer"
BY DEF Items, Round, Message

\* A run that has not begun is sound.
LEMMA FreshRunSound ==
    /\ FreshRun \in RunRecord
    /\ Mirrored(FreshRun)
    /\ OrderOf(FreshRun.kept, FreshRun.accepted, Queue(FreshRun, <<>>))
<1>1. FreshRun \in RunRecord
  BY BoundAssumption, EmptySeq DEF FreshRun, RunRecord
<1>2. Mirrored(FreshRun)
  BY EmptySeq DEF FreshRun, Mirrored, AlignedAt
<1>3. Queue(FreshRun, <<>>) = <<>>
  BY EmptySeq, ConcatEmptySeq DEF FreshRun, Queue
<1>4. SteersAmong(<<>>, 0) = 0
  <2>1. {i \in 1..0 : <<>>[i].kind = "steer"} = {}
    OBVIOUS
  <2> QED
    BY <2>1, FS_EmptySet DEF SteersAmong
<1>5. OrderOf(<<>>, <<>>, <<>>)
  BY <1>4, EmptySeq DEF OrderOf
<1> QED
  BY <1>1, <1>2, <1>3, <1>5 DEF FreshRun

\* The queue in the places where only the inbox, or only the checkpoint and the inbox,
\* have messages.
LEMMA QueueShapes ==
    ASSUME NEW h \in Seq(Steers), NEW l \in Seq(Steers), NEW d \in Seq(Steers),
           NEW t \in Seq(Steers)
    PROVE  /\ h \o l \o d \o t \in Seq(Steers)
           /\ l = <<>> /\ t = <<>> => h \o l \o d \o t = h \o d
           /\ h = <<>> /\ t = <<>> => h \o l \o d \o t = l \o d
           /\ h = <<>> /\ d = <<>> => h \o l \o d \o t = l \o t
           /\ h \o <<>> = h /\ <<>> \o h = h
<1>1. h \o l \in Seq(Steers) /\ h \o l \o d \in Seq(Steers) /\ h \o l \o d \o t \in Seq(Steers)
  BY ConcatProperties
<1>2. \A q \in Seq(Steers) : q \o <<>> = q /\ <<>> \o q = q
  BY ConcatEmptySeq
<1>3. h \o d \in Seq(Steers) /\ l \o d \in Seq(Steers)
  BY ConcatProperties
<1>4. l = <<>> /\ t = <<>> => h \o l \o d \o t = h \o d
  BY <1>2, <1>3
<1>5. h = <<>> /\ t = <<>> => h \o l \o d \o t = l \o d
  BY <1>2, <1>3
<1>6. h = <<>> /\ d = <<>> => h \o l \o d \o t = l \o t
  BY <1>1, <1>2
<1> QED
  BY <1>1, <1>2, <1>4, <1>5, <1>6

\* The sequences that the conversation is compared by.
LEMMA RecordSequences ==
    ASSUME NEW v \in RunRecord
    PROVE  /\ v.kept \in Seq(Items) /\ Len(v.kept) \in Nat /\ DOMAIN v.kept = 1..Len(v.kept)
           /\ v.talk \in Seq(Items) /\ Len(v.talk) \in Nat /\ DOMAIN v.talk = 1..Len(v.talk)
           /\ v.pending \in Seq(Nat) /\ Len(v.pending) \in Nat
           /\ DOMAIN v.pending = 1..Len(v.pending)
<1>1. v.kept \in Seq(Items) /\ v.talk \in Seq(Items) /\ v.pending \in Seq(Nat)
  BY DEF RunRecord
<1> QED
  BY <1>1, LenProperties

\* A round is done: it is shown, and pending.
LEMMA RoundMirrored ==
    ASSUME NEW v \in RunRecord, Mirrored(v),
           \A i \in DOMAIN v.pending : v.pending[i] \in 1..v.rounds,
           NEW w \in RunRecord, w.rounds = v.rounds + 1,
           w.pending = Append(v.pending, v.rounds + 1),
           w.talk = Append(v.talk, Round(v.rounds + 1)), w.kept = v.kept
    PROVE  Mirrored(w) /\ \A i \in DOMAIN w.pending : w.pending[i] \in 1..w.rounds
<1> DEFINE n == v.rounds + 1
           k == Len(v.kept)
           m == Len(v.pending)
           t == Len(v.talk)
<1>1. v.rounds \in Nat /\ n \in Nat /\ Round(n) \in Items
  BY ItemsMade DEF RunRecord
<1>2. /\ k \in Nat /\ m \in Nat /\ t \in Nat
      /\ DOMAIN v.pending = 1..m /\ DOMAIN w.pending = 1..(m + 1) /\ Len(w.pending) = m + 1
      /\ Len(w.talk) = t + 1
      /\ w.pending[m + 1] = n /\ \A i \in 1..m : w.pending[i] = v.pending[i]
      /\ w.talk[t + 1] = Round(n) /\ \A i \in 1..t : w.talk[i] = v.talk[i]
  BY <1>1, RecordSequences, AppendProperties
<1>3. PICK z \in 0..(k + m) : AlignedAt(v.kept, v.pending, v.talk, z)
  BY DEF Mirrored
<1>4. /\ z + t = k + m
      /\ \A i \in 1..t : /\ z + i <= k => v.talk[i] = v.kept[z + i]
                         /\ z + i > k => v.talk[i] = Round(v.pending[z + i - k])
  BY <1>3 DEF AlignedAt
<1> HIDE DEF n, k, m, t
<1>5. \A i \in 1..(t + 1) :
        /\ z + i <= k => w.talk[i] = v.kept[z + i]
        /\ z + i > k => w.talk[i] = Round(w.pending[z + i - k])
  <2> SUFFICES ASSUME NEW i \in 1..(t + 1)
               PROVE  /\ z + i <= k => w.talk[i] = v.kept[z + i]
                      /\ z + i > k => w.talk[i] = Round(w.pending[z + i - k])
    OBVIOUS
  <2>1. CASE i = t + 1
    <3>1. ~(z + i <= k) /\ z + i - k = m + 1
      BY <1>2, <1>4, <2>1
    <3> QED
      BY <1>2, <2>1, <3>1
  <2>2. CASE i \in 1..t
    <3>1. z + i > k => z + i - k \in 1..m
      BY <1>2, <1>4, <2>2
    <3> QED
      BY <1>2, <1>4, <2>2, <3>1
  <2>3. i = t + 1 \/ i \in 1..t
    BY <1>2
  <2> QED
    BY <2>1, <2>2, <2>3
<1>6. z \in 0..(k + (m + 1)) /\ z + (t + 1) = k + (m + 1)
  <2>1. k \in Nat /\ m \in Nat /\ t \in Nat
    BY <1>2
  <2>2. z + t = k + m
    BY <1>4
  <2> QED
    BY <2>1, <2>2
<1>7. Mirrored(w)
  <2>1. AlignedAt(w.kept, w.pending, w.talk, z)
    BY <1>2, <1>5, <1>6 DEF AlignedAt, k
  <2> QED
    BY <1>2, <1>6, <2>1 DEF Mirrored, k
<1>8. \A i \in 1..(m + 1) : w.pending[i] \in 1..n
  <2> SUFFICES ASSUME NEW i \in 1..(m + 1) PROVE w.pending[i] \in 1..n
    OBVIOUS
  <2>1. i = m + 1 => w.pending[i] \in 1..n
    BY <1>1, <1>2 DEF n
  <2>2. i \in 1..m => w.pending[i] \in 1..v.rounds
    BY <1>2
  <2>3. i = m + 1 \/ i \in 1..m
    BY <1>2
  <2>4. 1..v.rounds \subseteq 1..n
    BY <1>1 DEF n
  <2> QED
    BY <2>1, <2>2, <2>3, <2>4
<1> QED
  BY <1>2, <1>7, <1>8 DEF n

\* The oldest pending round is stored.
LEMMA RoundStoredMirrored ==
    ASSUME NEW v \in RunRecord, Mirrored(v), v.pending # <<>>,
           \A i \in DOMAIN v.pending : v.pending[i] \in 1..v.rounds,
           NEW w \in RunRecord, w.rounds = v.rounds, w.pending = Tail(v.pending),
           w.talk = v.talk, w.kept = Append(v.kept, Round(Head(v.pending)))
    PROVE  Mirrored(w) /\ \A i \in DOMAIN w.pending : w.pending[i] \in 1..w.rounds
<1> DEFINE k == Len(v.kept)
           m == Len(v.pending)
           t == Len(v.talk)
           x == Round(Head(v.pending))
<1>1. Head(v.pending) \in Nat /\ x \in Items /\ x = Round(v.pending[1]) /\ m # 0
  BY ItemsMade, RecordSequences, HeadTailProperties, EmptySeq
<1>2. /\ k \in Nat /\ m \in Nat /\ t \in Nat
      /\ DOMAIN v.pending = 1..m
      /\ DOMAIN w.pending = 1..(m - 1) /\ Len(w.pending) = m - 1
      /\ \A i \in 1..(m - 1) : w.pending[i] = v.pending[i + 1]
      /\ Len(w.kept) = k + 1 /\ w.kept[k + 1] = x /\ \A i \in 1..k : w.kept[i] = v.kept[i]
  BY <1>1, RecordSequences, AppendProperties, HeadTailProperties
<1>3. PICK z \in 0..(k + m) : AlignedAt(v.kept, v.pending, v.talk, z)
  BY DEF Mirrored
<1>4. /\ z + t = k + m
      /\ \A i \in 1..t : /\ z + i <= k => v.talk[i] = v.kept[z + i]
                         /\ z + i > k => v.talk[i] = Round(v.pending[z + i - k])
  BY <1>3 DEF AlignedAt
<1> HIDE DEF k, m, t, x
<1>5. \A i \in 1..t :
        /\ z + i <= k + 1 => v.talk[i] = w.kept[z + i]
        /\ z + i > k + 1 => v.talk[i] = Round(w.pending[z + i - (k + 1)])
  <2> SUFFICES ASSUME NEW i \in 1..t
               PROVE  /\ z + i <= k + 1 => v.talk[i] = w.kept[z + i]
                      /\ z + i > k + 1 => v.talk[i] = Round(w.pending[z + i - (k + 1)])
    OBVIOUS
  <2>1. CASE z + i <= k
    <3>1. z + i \in 1..k /\ ~(z + i > k + 1)
      BY <1>2, <2>1
    <3> QED
      BY <1>2, <1>4, <2>1, <3>1
  <2>2. CASE z + i = k + 1
    <3>1. z + i > k /\ ~(z + i > k + 1) /\ z + i - k = 1
      BY <1>2, <2>2
    <3> QED
      BY <1>1, <1>2, <1>4, <2>2, <3>1
  <2>3. CASE z + i > k + 1
    <3>1. /\ z + i > k /\ ~(z + i <= k + 1) /\ z + i - (k + 1) \in 1..(m - 1)
          /\ (z + i - (k + 1)) + 1 = z + i - k
      BY <1>1, <1>2, <1>4, <2>3
    <3>2. w.pending[z + i - (k + 1)] = v.pending[z + i - k]
      BY <1>2, <3>1
    <3> QED
      BY <1>4, <3>1, <3>2
  <2>4. z + i <= k \/ z + i = k + 1 \/ z + i > k + 1
    BY <1>2
  <2> QED
    BY <2>1, <2>2, <2>3, <2>4
<1>6. z \in 0..((k + 1) + (m - 1)) /\ z + t = (k + 1) + (m - 1)
  <2>1. k \in Nat /\ m \in Nat /\ t \in Nat
    BY <1>2
  <2>2. z + t = k + m
    BY <1>4
  <2> QED
    BY <2>1, <2>2
<1>7. Mirrored(w)
  <2>1. AlignedAt(w.kept, w.pending, w.talk, z)
    BY <1>2, <1>5, <1>6 DEF AlignedAt, t
  <2> QED
    BY <1>2, <1>6, <2>1 DEF Mirrored
<1>8. \A i \in 1..(m - 1) : w.pending[i] \in 1..v.rounds
  <2> SUFFICES ASSUME NEW i \in 1..(m - 1) PROVE w.pending[i] \in 1..v.rounds
    OBVIOUS
  <2>1. i + 1 \in 1..m
    BY <1>2
  <2> QED
    BY <1>2, <2>1
<1> QED
  BY <1>2, <1>7, <1>8

\* A message is stored behind the rounds, and shown.
LEMMA SteerStoredMirrored ==
    ASSUME NEW v \in RunRecord, Mirrored(v), v.pending = <<>>, NEW x \in Items,
           NEW w \in RunRecord, w.pending = v.pending,
           w.talk = Append(v.talk, x), w.kept = Append(v.kept, x)
    PROVE  Mirrored(w)
<1> DEFINE k == Len(v.kept)
           t == Len(v.talk)
<1>1. /\ k \in Nat /\ t \in Nat /\ Len(v.pending) = 0 /\ Len(w.pending) = 0
      /\ Len(w.talk) = t + 1 /\ w.talk[t + 1] = x /\ \A i \in 1..t : w.talk[i] = v.talk[i]
      /\ Len(w.kept) = k + 1 /\ w.kept[k + 1] = x /\ \A i \in 1..k : w.kept[i] = v.kept[i]
  BY RecordSequences, AppendProperties, EmptySeq
<1>2. PICK z \in 0..(k + 0) : AlignedAt(v.kept, v.pending, v.talk, z)
  BY <1>1 DEF Mirrored
<1>3. z + t = k /\ \A i \in 1..t : z + i <= k => v.talk[i] = v.kept[z + i]
  <2>1. z + t = k + 0 /\ \A i \in 1..t : z + i <= k => v.talk[i] = v.kept[z + i]
    <3>1. Len(v.pending) = 0
      BY <1>1
    <3> QED
      BY <1>2, <3>1 DEF AlignedAt
  <2>2. k + 0 = k
    BY <1>1
  <2> QED
    BY <2>1, <2>2
<1> HIDE DEF k, t
<1>4. \A i \in 1..(t + 1) : z + i <= k + 1 /\ w.talk[i] = w.kept[z + i]
  <2> SUFFICES ASSUME NEW i \in 1..(t + 1)
               PROVE  z + i <= k + 1 /\ w.talk[i] = w.kept[z + i]
    OBVIOUS
  <2>1. CASE i = t + 1
    <3>1. z + i = k + 1
      BY <1>1, <1>3, <2>1
    <3> QED
      BY <1>1, <2>1, <3>1
  <2>2. CASE i \in 1..t
    <3>1. z + i \in 1..k /\ z + i <= k /\ z + i <= k + 1
      BY <1>1, <1>3, <2>2
    <3> QED
      BY <1>1, <1>3, <2>2, <3>1
  <2>3. i = t + 1 \/ i \in 1..t
    BY <1>1
  <2> QED
    BY <2>1, <2>2, <2>3
<1>5. z \in 0..((k + 1) + 0) /\ z + (t + 1) = (k + 1) + 0
  BY <1>1, <1>3
<1>6. \A i \in 1..(t + 1) : ~(z + i > k + 1)
  BY <1>1, <1>4
<1>7. AlignedAt(w.kept, w.pending, w.talk, z)
  BY <1>1, <1>4, <1>5, <1>6 DEF AlignedAt
<1> QED
  BY <1>1, <1>5, <1>7 DEF Mirrored

\* A new attempt starts from the request.
LEMMA AttemptMirrored ==
    ASSUME NEW v \in RunRecord, NEW w \in RunRecord, w.pending = v.pending,
           w.talk = <<>>, w.kept = v.kept
    PROVE  Mirrored(w)
<1> DEFINE z == Len(w.kept) + Len(w.pending)
<1>1. Len(w.talk) = 0 /\ z \in Nat
  <2>1. Len(w.kept) \in Nat /\ Len(w.pending) \in Nat
    BY RecordSequences
  <2>2. Len(w.talk) = 0
    OBVIOUS
  <2>3. \A a, b \in Nat : a + b \in Nat
    OBVIOUS
  <2>4. z \in Nat
    BY <2>1, <2>3, Zenon
  <2> QED
    BY <2>2, <2>4, Zenon
<1> HIDE DEF z
<1>2. z \in 0..z /\ z + 0 = z
  BY <1>1
<1>3. AlignedAt(w.kept, w.pending, w.talk, z)
  BY <1>1, <1>2 DEF AlignedAt, z
<1> QED
  BY <1>2, <1>3 DEF Mirrored, z

--------------------------------------------------------------------------------
(* The steps of a run. *)

Reachable == Open \cup {"returning"}

\* What a step of run r owes: it changes nothing of another run, keeps the invariant of its
\* own, and never leaves an inbox open behind it.
StepSound(r) ==
    /\ run' \in [Runs -> RunRecord] /\ \A q \in Runs \ {r} : run'[q] = run[q]
    /\ drafts' \in [Runs -> Seq(Steers)] /\ \A q \in Runs \ {r} : drafts'[q] = drafts[q]
    /\ closed' \in [Runs -> BOOLEAN] /\ \A q \in Runs \ {r} : closed'[q] = closed[q]
    /\ RunOK(r)'
    /\ closed[r] => closed'[r]
    /\ pc[r] \in Reachable => pc'[r] \in Reachable \/ closed'[r]

\* The state of a run, as values.
LEMMA RunState ==
    ASSUME IndInv, SteerInv, NEW r \in Runs
    PROVE  /\ r \in Operations /\ session[r] \in Sessions /\ r # NoRun
           /\ \E v \in RunRecord, d \in Seq(Steers), c \in BOOLEAN, o \in Runs \cup {NoRun} :
                /\ v = run[r] /\ d = drafts[r] /\ c = closed[r] /\ o = registered[session[r]]
                /\ run = [run EXCEPT ![r] = v] /\ drafts = [drafts EXCEPT ![r] = d]
                /\ closed = [closed EXCEPT ![r] = c]
                /\ RunSound(r, v, d, c, pc[r], o)
<1>1. r \in Operations /\ session[r] \in Sessions /\ r # NoRun
  BY InboxAssumption DEF IndInv, ScopeTyped, Operations
<1>2. /\ run[r] \in RunRecord /\ drafts[r] \in Seq(Steers) /\ closed[r] \in BOOLEAN
      /\ registered[session[r]] \in Runs \cup {NoRun}
  BY <1>1 DEF IndInv, ScopeTyped, SteerInv
<1>3. /\ run = [run EXCEPT ![r] = run[r]] /\ drafts = [drafts EXCEPT ![r] = drafts[r]]
      /\ closed = [closed EXCEPT ![r] = closed[r]]
  BY DEF SteerInv
<1>4. RunSound(r, run[r], drafts[r], closed[r], pc[r], registered[session[r]])
  BY DEF SteerInv, RunOK
<1> QED
  BY <1>1, <1>2, <1>3, <1>4

\* A step of a run that leaves it sound, and does not reopen its inbox.
LEMMA StepMade ==
    ASSUME IndInv, SteerInv, NEW r \in Runs, NEW w \in RunRecord, NEW d \in Seq(Steers),
           NEW c \in BOOLEAN,
           run' = [run EXCEPT ![r] = w], drafts' = [drafts EXCEPT ![r] = d],
           closed' = [closed EXCEPT ![r] = c], session' = session,
           RunSound(r, w, d, c, pc'[r], registered'[session[r]]),
           closed[r] => c, pc[r] \in Reachable => pc'[r] \in Reachable \/ c
    PROVE  StepSound(r)
<1>1. /\ run' \in [Runs -> RunRecord] /\ \A q \in Runs \ {r} : run'[q] = run[q]
      /\ drafts' \in [Runs -> Seq(Steers)] /\ \A q \in Runs \ {r} : drafts'[q] = drafts[q]
      /\ closed' \in [Runs -> BOOLEAN] /\ \A q \in Runs \ {r} : closed'[q] = closed[q]
      /\ run'[r] = w /\ drafts'[r] = d /\ closed'[r] = c
  BY DEF SteerInv
<1>2. RunOK(r)'
  BY <1>1 DEF RunOK
<1> QED
  BY <1>1, <1>2 DEF StepSound

\* The place of a run after it goes somewhere.
LEMMA PlaceAfter ==
    ASSUME IndInv, NEW r \in Runs
    PROVE  \A from, to : Goes(r, from, to) => pc[r] = from /\ pc'[r] = to
BY DEF IndInv, ScopeTyped, Operations, Goes

\* Steps that change neither the run's state nor its inbox.
LEMMA QuietSteps ==
    ASSUME IndInv, SteerInv, NEW r \in Runs,
           \/ AppendUserEntry(r) \/ RespondToSlashCommand(r) \/ PrepareRequest(r)
           \/ FailRequest(r) \/ Complete(r) \/ PersistFailure(r) \/ EndTurn(r)
    PROVE  StepSound(r)
<1>1. PICK v \in RunRecord, d \in Seq(Steers), c \in BOOLEAN, o \in Runs \cup {NoRun} :
        /\ v = run[r] /\ d = drafts[r] /\ c = closed[r] /\ o = registered[session[r]]
        /\ run = [run EXCEPT ![r] = v] /\ drafts = [drafts EXCEPT ![r] = d]
        /\ closed = [closed EXCEPT ![r] = c]
        /\ RunSound(r, v, d, c, pc[r], o)
  BY RunState
<1>2. run' = run /\ drafts' = drafts /\ closed' = closed /\ registered' = registered /\ session' = session
  BY DEF AppendUserEntry, RespondToSlashCommand, PrepareRequest, FailRequest, Complete,
         PersistFailure, EndTurn, inboxVars
<1>3. PICK from, to :
        /\ from = pc[r] /\ to = pc'[r]
        /\ \/ from = "prompting" /\ to \in {"registering", "releasing"}
           \/ from = "responding" /\ to \in {"answering", "failing", "calling"}
           \/ from = "requesting" /\ to \in {"calling", "failing"}
           \/ from = "calling" /\ to = "failing"
           \/ from = "completed" /\ to \in {"answering", "failing"}
           \/ from = "failing" /\ to = "closing"
           \/ from = "ending" /\ to = "releasing"
  BY PlaceAfter DEF AppendUserEntry, RespondToSlashCommand, PrepareRequest, FailRequest, Complete,
         PersistFailure, EndTurn
<1>4. Staged(r, v, d, c, from, o)
  BY <1>1, <1>3 DEF RunSound
<1>5. Staged(r, v, d, c, to, o)
  BY <1>3, <1>4 DEF Staged, Unopened, Ended, Open, FreshRun
<1>6. RunSound(r, v, d, c, to, o)
  BY <1>1, <1>5 DEF RunSound
<1>7. from \in Reachable => to \in Reachable \/ c
  BY <1>3 DEF Reachable, Open
<1>8. /\ run' = [run EXCEPT ![r] = v] /\ drafts' = [drafts EXCEPT ![r] = d]
      /\ closed' = [closed EXCEPT ![r] = c] /\ registered'[session[r]] = o
  BY <1>1, <1>2
<1>9. pc[r] \in Reachable => to \in Reachable \/ c
  BY <1>3, <1>7
<1>10. closed[r] => c
  BY <1>1
<1> QED
  BY <1>2, <1>3, <1>6, <1>8, <1>9, <1>10, StepMade

\* registerSteeringInbox, or its refusal.
LEMMA RegisterStep ==
    ASSUME IndInv, SteerInv, NEW r \in Runs, Register(r)
    PROVE  StepSound(r)
<1>1. PICK v \in RunRecord, d \in Seq(Steers), c \in BOOLEAN, o \in Runs \cup {NoRun} :
        /\ v = run[r] /\ d = drafts[r] /\ c = closed[r] /\ o = registered[session[r]]
        /\ run = [run EXCEPT ![r] = v] /\ drafts = [drafts EXCEPT ![r] = d]
        /\ closed = [closed EXCEPT ![r] = c]
        /\ RunSound(r, v, d, c, pc[r], o)
  BY RunState
<1>2. /\ pc[r] = "registering" /\ session' = session
      /\ run' = run /\ drafts' = drafts /\ closed' = closed
      /\ \/ pc'[r] = "responding" /\ registered'[session[r]] = r
         \/ pc'[r] = "releasing" /\ registered'[session[r]] = o
  BY <1>1, RunState, PlaceAfter DEF Register, register, inboxVars, IndInv, ScopeTyped
<1>3. Staged(r, v, d, c, "registering", o)
  BY <1>1, <1>2 DEF RunSound
<1>4. Staged(r, v, d, c, "responding", r) /\ Staged(r, v, d, c, "releasing", o)
  BY <1>3 DEF Staged, Unopened, Ended, Open, FreshRun
<1>5. RunSound(r, v, d, c, "responding", r) /\ RunSound(r, v, d, c, "releasing", o)
  BY <1>1, <1>4 DEF RunSound
<1>6. pc[r] \notin Reachable
  BY <1>2 DEF Reachable, Open
<1>7. /\ run' = [run EXCEPT ![r] = v] /\ drafts' = [drafts EXCEPT ![r] = d]
      /\ closed' = [closed EXCEPT ![r] = c] /\ (closed[r] => c)
  BY <1>1, <1>2
<1>8. CASE pc'[r] = "responding" /\ registered'[session[r]] = r
  BY <1>2, <1>5, <1>6, <1>7, <1>8, StepMade
<1>9. CASE pc'[r] = "releasing" /\ registered'[session[r]] = o
  BY <1>2, <1>5, <1>6, <1>7, <1>9, StepMade
<1> QED
  BY <1>2, <1>8, <1>9

\* A cached answer ends the inbox only while it is empty.
LEMMA CachedStep ==
    ASSUME IndInv, SteerInv, NEW r \in Runs, UseCachedResponse(r)
    PROVE  StepSound(r)
<1>1. PICK v \in RunRecord, d \in Seq(Steers), c \in BOOLEAN, o \in Runs \cup {NoRun} :
        /\ v = run[r] /\ d = drafts[r] /\ c = closed[r] /\ o = registered[session[r]]
        /\ run = [run EXCEPT ![r] = v] /\ drafts = [drafts EXCEPT ![r] = d]
        /\ closed = [closed EXCEPT ![r] = c]
        /\ RunSound(r, v, d, c, pc[r], o)
  BY RunState
<1>2. pc[r] = "responding" /\ session' = session /\ run' = run /\ drafts' = drafts
  BY PlaceAfter DEF UseCachedResponse, settle, inboxVars
<1>3. \/ /\ pc'[r] = "failing" \/ pc'[r] = "requesting"
         /\ closed' = closed /\ registered' = registered
      \/ /\ pc'[r] = "answering" /\ d = <<>>
         /\ closed' = [closed EXCEPT ![r] = TRUE] /\ registered'[session[r]] = NoRun
  BY <1>1, RunState, PlaceAfter DEF UseCachedResponse, settle, inboxVars, IndInv, ScopeTyped
<1>4. Staged(r, v, d, c, "responding", o)
  BY <1>1, <1>2 DEF RunSound
<1>5. Staged(r, v, d, c, "failing", o) /\ Staged(r, v, d, c, "requesting", o)
  BY <1>4 DEF Staged, Unopened, Ended, Open
<1>6. d = <<>> => Staged(r, v, d, TRUE, "answering", NoRun)
  BY <1>4 DEF Staged, Unopened, Ended, Open
<1>7. /\ RunSound(r, v, d, c, "failing", o) /\ RunSound(r, v, d, c, "requesting", o)
      /\ d = <<>> => RunSound(r, v, d, TRUE, "answering", NoRun)
  BY <1>1, <1>5, <1>6 DEF RunSound, Typed
<1>8. "failing" \in Reachable /\ "requesting" \in Reachable /\ "answering" \in Reachable
  BY DEF Reachable, Open
<1>9. CASE closed' = closed /\ registered' = registered /\ pc'[r] = "failing"
  BY <1>1, <1>2, <1>7, <1>8, <1>9, StepMade
<1>10. CASE closed' = closed /\ registered' = registered /\ pc'[r] = "requesting"
  BY <1>1, <1>2, <1>7, <1>8, <1>10, StepMade
<1>11. CASE /\ pc'[r] = "answering" /\ d = <<>>
            /\ closed' = [closed EXCEPT ![r] = TRUE] /\ registered'[session[r]] = NoRun
  <2>1. RunSound(r, v, d, TRUE, pc'[r], registered'[session[r]]) /\ pc'[r] \in Reachable
    BY <1>7, <1>8, <1>11
  <2>2. /\ run' = [run EXCEPT ![r] = v] /\ drafts' = [drafts EXCEPT ![r] = d]
        /\ closed' = [closed EXCEPT ![r] = TRUE] /\ session' = session
    BY <1>1, <1>2, <1>11
  <2> QED
    BY <2>1, <2>2, StepMade
<1> QED
  BY <1>3, <1>9, <1>10, <1>11

\* registry.close: an inbox that is no longer registered is closed and empty.
LEMMA CloseStep ==
    ASSUME IndInv, SteerInv, NEW r \in Runs, CloseRegistration(r)
    PROVE  StepSound(r)
<1>1. PICK v \in RunRecord, d \in Seq(Steers), c \in BOOLEAN, o \in Runs \cup {NoRun} :
        /\ v = run[r] /\ d = drafts[r] /\ c = closed[r] /\ o = registered[session[r]]
        /\ run = [run EXCEPT ![r] = v] /\ drafts = [drafts EXCEPT ![r] = d]
        /\ closed = [closed EXCEPT ![r] = c]
        /\ RunSound(r, v, d, c, pc[r], o)
  BY RunState
<1>2. /\ pc[r] = "closing" /\ session' = session
      /\ run' = run /\ drafts' = drafts /\ closed' = closed
      /\ \/ pc'[r] = "returning" /\ registered'[session[r]] = NoRun
         \/ o # r /\ pc'[r] = "ending" /\ registered'[session[r]] = o
  BY <1>1, RunState, PlaceAfter DEF CloseRegistration, unregister, inboxVars, IndInv, ScopeTyped
<1>3. Staged(r, v, d, c, "closing", o)
  BY <1>1, <1>2 DEF RunSound
<1>4. Staged(r, v, d, c, "returning", NoRun)
  BY <1>3 DEF Staged, Unopened, Ended, Open
<1>5. o # r => c /\ Staged(r, v, d, c, "ending", o)
  BY <1>3 DEF Staged, Unopened, Ended, Open
<1>6. RunSound(r, v, d, c, "returning", NoRun) /\ (o # r => c /\ RunSound(r, v, d, c, "ending", o))
  BY <1>1, <1>4, <1>5 DEF RunSound
<1>7. "returning" \in Reachable
  BY DEF Reachable
<1>8. /\ run' = [run EXCEPT ![r] = v] /\ drafts' = [drafts EXCEPT ![r] = d]
      /\ closed' = [closed EXCEPT ![r] = c] /\ (closed[r] => c)
  BY <1>1, <1>2
<1>9. CASE pc'[r] = "returning" /\ registered'[session[r]] = NoRun
  BY <1>2, <1>6, <1>7, <1>8, <1>9, StepMade
<1>10. CASE o # r /\ pc'[r] = "ending" /\ registered'[session[r]] = o
  BY <1>2, <1>6, <1>8, <1>10, StepMade
<1> QED
  BY <1>2, <1>9, <1>10

\* inbox.close gives back what is left.
LEMMA ReturnStep ==
    ASSUME IndInv, SteerInv, NEW r \in Runs, ReturnSteering(r)
    PROVE  StepSound(r)
<1>1. PICK v \in RunRecord, d \in Seq(Steers), c \in BOOLEAN, o \in Runs \cup {NoRun} :
        /\ v = run[r] /\ d = drafts[r] /\ c = closed[r] /\ o = registered[session[r]]
        /\ run = [run EXCEPT ![r] = v] /\ drafts = [drafts EXCEPT ![r] = d]
        /\ closed = [closed EXCEPT ![r] = c]
        /\ RunSound(r, v, d, c, pc[r], o)
  BY RunState
<1> DEFINE w == [v EXCEPT !.returned = d]
<1>2. /\ pc[r] = "returning" /\ pc'[r] = "ending" /\ session' = session
      /\ drafts' = [drafts EXCEPT ![r] = <<>>] /\ closed' = [closed EXCEPT ![r] = TRUE]
      /\ registered' = registered /\ run' = [run EXCEPT ![r].returned = d]
  BY <1>1, PlaceAfter DEF ReturnSteering, close
<1>3. run' = [run EXCEPT ![r] = w]
  <2>1. run' = [run EXCEPT ![r] = [run[r] EXCEPT !.returned = d]]
    BY <1>2
  <2> QED
    BY <1>1, <2>1, Zenon
<1>4. /\ w \in RunRecord /\ w.hand = v.hand /\ w.lost = v.lost /\ w.returned = d
      /\ w.kept = v.kept /\ w.pending = v.pending /\ w.talk = v.talk /\ w.rounds = v.rounds
      /\ w.accepted = v.accepted
  BY DEF RunRecord
<1>5. Staged(r, v, d, c, "returning", o) /\ Typed(v, d, c)
  BY <1>1, <1>2 DEF RunSound
<1>6. v.hand = <<>> /\ v.returned = <<>> /\ v.lost \in Seq(Steers)
  BY <1>5 DEF Staged, Ended, RunRecord
<1>7. Queue(w, <<>>) = Queue(v, d)
  <2>1. v.lost \o d = Queue(v, d)
    BY <1>6, QueueShapes DEF Queue, RunRecord
  <2>2. <<>> \in Seq(Steers) /\ v.hand \in Seq(Steers)
    BY EmptySeq DEF RunRecord
  <2>3. v.hand \o v.lost \o <<>> \o d = v.lost \o d
    BY <1>6, <2>2, QueueShapes
  <2> QED
    BY <1>4, <2>1, <2>3 DEF Queue
<1>8. d \o v.returned = d /\ <<>> \o w.returned = d
  BY <1>4, <1>6, ConcatEmptySeq
<1> HIDE DEF w
<1>9. Staged(r, w, <<>>, TRUE, "ending", o)
  BY <1>4, <1>5, <1>6, <1>8 DEF Staged, Unopened, Ended, Open
<1>10. Typed(w, <<>>, TRUE)
  BY <1>4, <1>5, EmptySeq, InboxAssumption DEF Typed
<1>11. Mirrored(w) /\ OrderOf(w.kept, w.accepted, Queue(w, <<>>))
  BY <1>1, <1>4, <1>7 DEF RunSound, Mirrored
<1>12. RunSound(r, w, <<>>, TRUE, "ending", o)
  BY <1>9, <1>10, <1>11 DEF RunSound
<1>13. <<>> \in Seq(Steers)
  BY EmptySeq
<1> QED
  BY <1>1, <1>2, <1>3, <1>4, <1>12, <1>13, StepMade

--------------------------------------------------------------------------------
(* Rounds, checkpoints and attempts. *)

\* A round that is done: the checkpoint takes the drafts, or there are none.
LEMMA RoundDoneSound ==
    ASSUME NEW r \in Runs, NEW o \in Runs \cup {NoRun}, NEW v \in RunRecord, NEW d \in Seq(Steers), NEW c \in BOOLEAN,
           RunSound(r, v, d, c, "calling", o),
           NEW w \in RunRecord, w.rounds = v.rounds + 1,
           w.pending = Append(v.pending, v.rounds + 1),
           w.talk = Append(v.talk, Round(v.rounds + 1)), w.kept = v.kept,
           w.accepted = v.accepted, w.lost = v.lost, w.returned = v.returned
    PROVE  /\ w.hand = <<>> => RunSound(r, w, d, c, "failing", o)
           /\ w.hand = <<>> /\ d = <<>> =>
                /\ RunSound(r, w, <<>>, TRUE, "completed", NoRun)
                /\ RunSound(r, w, <<>>, TRUE, "calling", NoRun)
                /\ RunSound(r, w, <<>>, c, "calling", o)
           /\ w.hand = d /\ d # <<>> /\ o = r /\ ~c => RunSound(r, w, <<>>, c, "storing", o)
<1>1. Mirrored(w) /\ \A i \in DOMAIN w.pending : w.pending[i] \in 1..w.rounds
  BY RoundMirrored DEF RunSound, Typed
<1>2. Staged(r, v, d, c, "calling", o) /\ Typed(v, d, c)
  BY DEF RunSound
<1>3. v.hand = <<>> /\ v.lost = <<>> /\ v.returned = <<>>
  BY <1>2 DEF Staged, Ended
<1>4. /\ \A b \in BOOLEAN : Typed(w, <<>>, b)
      /\ Typed(w, d, c)
  <2>1. <<>> \in Seq(Steers) /\ Len(<<>>) <= Capacity
    BY EmptySeq, InboxAssumption
  <2> QED
    BY <1>1, <1>2, <2>1 DEF Typed
<1>5. Queue(v, d) = d
  BY <1>3, ConcatEmptySeq DEF Queue
<1>6. w.hand = <<>> => Queue(w, d) = d
  BY <1>3, ConcatEmptySeq DEF Queue
<1>7. w.hand = d => Queue(w, <<>>) = d
  BY <1>3, ConcatEmptySeq DEF Queue
<1>8. OrderOf(w.kept, w.accepted, d)
  BY <1>5 DEF RunSound
<1>9. w.hand = <<>> => Staged(r, w, d, c, "failing", o)
  BY <1>2, <1>3 DEF Staged, Unopened, Ended, Open
<1>10. w.hand = <<>> /\ d = <<>> =>
          /\ Staged(r, w, <<>>, TRUE, "completed", NoRun)
          /\ Staged(r, w, <<>>, TRUE, "calling", NoRun)
          /\ Staged(r, w, <<>>, c, "calling", o)
  BY <1>2, <1>3 DEF Staged, Unopened, Ended, Open
<1>11. w.hand = d /\ d # <<>> /\ o = r /\ ~c => Staged(r, w, <<>>, c, "storing", o)
  BY <1>2, <1>3 DEF Staged, Unopened, Ended, Open
<1>12. w.hand = <<>> => RunSound(r, w, d, c, "failing", o)
  BY <1>1, <1>4, <1>6, <1>8, <1>9 DEF RunSound
<1>13. ASSUME w.hand = <<>>, d = <<>>
       PROVE  /\ RunSound(r, w, <<>>, TRUE, "completed", NoRun)
              /\ RunSound(r, w, <<>>, TRUE, "calling", NoRun)
              /\ RunSound(r, w, <<>>, c, "calling", o)
  <2>1. OrderOf(w.kept, w.accepted, Queue(w, <<>>))
    BY <1>6, <1>8, <1>13
  <2> QED
    BY <1>1, <1>4, <1>10, <1>13, <2>1 DEF RunSound
<1>14. ASSUME w.hand = d, d # <<>>, o = r, ~c
       PROVE  RunSound(r, w, <<>>, c, "storing", o)
  BY <1>1, <1>4, <1>7, <1>8, <1>11, <1>14 DEF RunSound
<1> QED
  BY <1>12, <1>13, <1>14

\* restoreSteeringAfterCheckpointFailure: in front of the inbox, or lost.
LEMMA RestoreSound ==
    ASSUME NEW r \in Runs, NEW o \in Runs \cup {NoRun}, NEW v \in RunRecord, NEW d \in Seq(Steers), NEW c \in BOOLEAN,
           RunSound(r, v, d, c, "storing", o),
           NEW w \in RunRecord, w.hand = <<>>,
           w.rounds = v.rounds, w.pending = v.pending, w.talk = v.talk, w.kept = v.kept,
           w.accepted = v.accepted, w.returned = v.returned
    PROVE  /\ v.hand \o d \in Seq(Steers)
           /\ w.lost = v.lost /\ Len(d) + Len(v.hand) <= Capacity =>
                RunSound(r, w, v.hand \o d, c, "failing", o)
           /\ w.lost = v.hand /\ ~(Len(d) + Len(v.hand) <= Capacity) =>
                RunSound(r, w, d, c, "failing", o)
<1>1. Staged(r, v, d, c, "storing", o) /\ Typed(v, d, c)
  BY DEF RunSound
<1>2. v.lost = <<>> /\ v.returned = <<>> /\ ~c /\ o = r /\ v.hand \in Seq(Steers)
  BY <1>1 DEF Staged, Ended, RunRecord
<1>3. /\ v.hand \o d \in Seq(Steers) /\ Len(v.hand \o d) = Len(v.hand) + Len(d)
      /\ Len(v.hand) \in Nat /\ Len(d) \in Nat /\ Capacity \in Nat
  BY <1>2, ConcatProperties, LenProperties, InboxAssumption
<1>4. Queue(v, d) = v.hand \o d
  BY <1>2, <1>3, ConcatEmptySeq DEF Queue
<1>5. Mirrored(w)
  BY DEF RunSound, Mirrored
<1>6. OrderOf(w.kept, w.accepted, v.hand \o d)
  BY <1>4 DEF RunSound
<1>7. ASSUME w.lost = v.lost, Len(d) + Len(v.hand) <= Capacity
      PROVE  RunSound(r, w, v.hand \o d, c, "failing", o)
  <2>1. Typed(w, v.hand \o d, c)
    BY <1>1, <1>3, <1>7 DEF Typed
  <2>2. Staged(r, w, v.hand \o d, c, "failing", o)
    BY <1>1, <1>2, <1>7 DEF Staged, Unopened, Ended, Open
  <2>3. Queue(w, v.hand \o d) = v.hand \o d
    BY <1>2, <1>3, <1>7, ConcatEmptySeq, EmptySeq DEF Queue
  <2> QED
    BY <1>5, <1>6, <2>1, <2>2, <2>3 DEF RunSound
<1>8. ASSUME w.lost = v.hand, ~(Len(d) + Len(v.hand) <= Capacity)
      PROVE  RunSound(r, w, d, c, "failing", o)
  <2>1. Typed(w, d, c)
    BY <1>1 DEF Typed
  <2>2. Len(w.lost) + Len(d \o w.returned) > Capacity
    <3>1. d \o w.returned = d
      BY <1>2, ConcatEmptySeq
    <3> QED
      BY <1>3, <1>8, <3>1
  <2>3. Staged(r, w, d, c, "failing", o)
    BY <1>1, <1>2, <1>8, <2>2 DEF Staged, Unopened, Ended, Open
  <2>4. Queue(w, d) = v.hand \o d
    BY <1>2, <1>3, <1>8, ConcatEmptySeq DEF Queue
  <2> QED
    BY <1>5, <1>6, <2>1, <2>3, <2>4 DEF RunSound
<1> QED
  BY <1>3, <1>7, <1>8

\* A pending round is stored.
LEMMA PendingStoredSound ==
    ASSUME NEW r \in Runs, NEW o \in Runs \cup {NoRun}, NEW v \in RunRecord, NEW d \in Seq(Steers), NEW c \in BOOLEAN,
           RunSound(r, v, d, c, "storing", o), v.pending # <<>>,
           NEW w \in RunRecord, w.hand = v.hand, w.rounds = v.rounds,
           w.pending = Tail(v.pending), w.talk = v.talk,
           w.kept = Append(v.kept, Round(Head(v.pending))),
           w.accepted = v.accepted, w.lost = v.lost, w.returned = v.returned
    PROVE  RunSound(r, w, d, c, "storing", o)
<1>1. Staged(r, v, d, c, "storing", o) /\ Typed(v, d, c) /\ Mirrored(v)
  BY DEF RunSound
<1>2. Mirrored(w) /\ \A i \in DOMAIN w.pending : w.pending[i] \in 1..w.rounds
  BY <1>1, RoundStoredMirrored DEF Typed
<1>3. Staged(r, w, d, c, "storing", o)
  BY <1>1 DEF Staged, Unopened, Ended, Open
<1>4. Round(Head(v.pending)) \in Items /\ Round(Head(v.pending)).kind = "round"
  BY ItemsMade, RecordSequences, HeadTailProperties
<1>5. Queue(v, d) \in Seq(Steers)
  BY QueueShapes DEF Queue, RunRecord
<1>6. OrderOf(w.kept, w.accepted, Queue(v, d))
  <2>1. v.kept \in Seq(Items) /\ v.accepted \in Seq(Steers)
    BY DEF RunRecord
  <2>2. OrderOf(v.kept, v.accepted, Queue(v, d))
    BY DEF RunSound
  <2> QED
    BY <1>4, <1>5, <2>1, <2>2, OrderRoundStored
<1>7. Queue(w, d) = Queue(v, d)
  BY DEF Queue
<1> QED
  BY <1>1, <1>2, <1>3, <1>6, <1>7 DEF RunSound, Typed

\* Taking the head of a concatenation takes it from the first sequence.
LEMMA TailOfConcat ==
    ASSUME NEW S, NEW h \in Seq(S), h # <<>>, NEW d \in Seq(S)
    PROVE  /\ h \o d # <<>> /\ Head(h \o d) = Head(h)
           /\ Tail(h) \o d = Tail(h \o d)
<1> DEFINE all == h \o d
<1>1. /\ Len(h) \in Nat \ {0} /\ Len(d) \in Nat /\ Tail(h) \in Seq(S) /\ Len(Tail(h)) = Len(h) - 1
      /\ \A i \in 1..(Len(h) - 1) : Tail(h)[i] = h[i + 1]
  BY HeadTailProperties, LenProperties, EmptySeq
<1>2. /\ all \in Seq(S) /\ Len(all) = Len(h) + Len(d)
      /\ \A i \in 1..(Len(h) + Len(d)) : all[i] = IF i <= Len(h) THEN h[i] ELSE d[i - Len(h)]
  BY ConcatProperties
<1>3. all # <<>> /\ Head(all) = Head(h)
  <2>1. all # <<>>
    BY <1>1, <1>2, ConcatEqualIffEmpty
  <2>2. all[1] = h[1]
    BY <1>1, <1>2
  <2> QED
    BY <2>1, <2>2
<1> HIDE DEF all
<1>4. /\ Tail(all) \in Seq(S) /\ Len(Tail(all)) = Len(h) + Len(d) - 1
      /\ \A i \in 1..(Len(h) + Len(d) - 1) : Tail(all)[i] = all[i + 1]
  BY <1>1, <1>2, <1>3, HeadTailProperties
<1>5. /\ Tail(h) \o d \in Seq(S) /\ Len(Tail(h) \o d) = (Len(h) - 1) + Len(d)
      /\ \A i \in 1..((Len(h) - 1) + Len(d)) :
           (Tail(h) \o d)[i] = IF i <= Len(h) - 1 THEN Tail(h)[i] ELSE d[i - (Len(h) - 1)]
  BY <1>1, ConcatProperties
<1>6. \A i \in 1..(Len(h) + Len(d) - 1) : (Tail(h) \o d)[i] = Tail(all)[i]
  <2> SUFFICES ASSUME NEW i \in 1..(Len(h) + Len(d) - 1)
               PROVE  (Tail(h) \o d)[i] = Tail(all)[i]
    OBVIOUS
  <2>1. /\ i \in 1..((Len(h) - 1) + Len(d)) /\ i + 1 \in 1..(Len(h) + Len(d))
        /\ i - (Len(h) - 1) = (i + 1) - Len(h)
    BY <1>1
  <2>2. CASE i <= Len(h) - 1
    <3>1. i + 1 <= Len(h) /\ i \in 1..(Len(h) - 1)
      BY <1>1, <2>2
    <3> QED
      BY <1>1, <1>2, <1>4, <1>5, <2>1, <2>2, <3>1
  <2>3. CASE ~(i <= Len(h) - 1)
    <3>1. ~(i + 1 <= Len(h))
      BY <1>1, <2>3
    <3> QED
      BY <1>2, <1>4, <1>5, <2>1, <2>3, <3>1
  <2> QED
    BY <2>2, <2>3
<1>7. Tail(h) \o d = Tail(all)
  <2>1. Len(Tail(h) \o d) = Len(Tail(all)) /\ Len(Tail(h) \o d) = Len(h) + Len(d) - 1
    BY <1>1, <1>4, <1>5
  <2> QED
    BY <1>4, <1>5, <1>6, <2>1, SeqEqual
<1> QED
  BY <1>3, <1>7 DEF all

\* A message is stored, and shown to the provider; the last one ends the checkpoint.
LEMMA SteerStoredSound ==
    ASSUME NEW r \in Runs, NEW o \in Runs \cup {NoRun}, NEW v \in RunRecord, NEW d \in Seq(Steers), NEW c \in BOOLEAN,
           RunSound(r, v, d, c, "storing", o), v.pending = <<>>,
           NEW w \in RunRecord, w.hand = Tail(v.hand), w.rounds = v.rounds,
           w.pending = v.pending, w.talk = Append(v.talk, Message(Head(v.hand))),
           w.kept = Append(v.kept, Message(Head(v.hand))),
           w.accepted = v.accepted, w.lost = v.lost, w.returned = v.returned
    PROVE  /\ Len(v.hand) = 1 => RunSound(r, w, d, c, "calling", o)
           /\ Len(v.hand) # 1 => RunSound(r, w, d, c, "storing", o)
<1> DEFINE x == Message(Head(v.hand))
<1>1. Staged(r, v, d, c, "storing", o) /\ Typed(v, d, c) /\ Mirrored(v)
  BY DEF RunSound
<1>2. v.lost = <<>> /\ v.returned = <<>> /\ v.hand # <<>> /\ v.hand \in Seq(Steers)
  BY <1>1 DEF Staged, Ended, RunRecord
<1>3. x \in Items /\ x.kind = "steer"
  BY <1>2, ItemsMade, HeadTailProperties
<1>4. Typed(w, d, c)
  BY <1>1 DEF Typed
<1>5. Mirrored(w)
  BY <1>1, <1>3, SteerStoredMirrored
<1>6. OrderOf(w.kept, w.accepted, Queue(w, d))
  <2>1. Queue(v, d) = v.hand \o d /\ Queue(v, d) \in Seq(Steers)
    BY <1>2, ConcatEmptySeq, ConcatProperties DEF Queue
  <2>2. Queue(w, d) = Tail(v.hand) \o d
    <3>1. Tail(v.hand) \in Seq(Steers) /\ Tail(v.hand) \o d \in Seq(Steers)
      BY <1>2, HeadTailProperties, ConcatProperties
    <3> QED
      BY <1>2, <3>1, ConcatEmptySeq DEF Queue
  <2>3. Queue(v, d) # <<>> /\ Head(Queue(v, d)) = Head(v.hand) /\ Queue(w, d) = Tail(Queue(v, d))
    BY <1>2, <2>1, <2>2, TailOfConcat
  <2>4. v.kept \in Seq(Items) /\ v.accepted \in Seq(Steers)
    BY DEF RunRecord
  <2>5. OrderOf(v.kept, v.accepted, Queue(v, d))
    BY DEF RunSound
  <2> QED
    BY <1>3, <2>1, <2>3, <2>4, <2>5, OrderSteerStored
<1>7. w.kept[Len(w.kept)] = x
  BY <1>3, RecordSequences, AppendProperties
<1>8. ASSUME Len(v.hand) = 1 PROVE Staged(r, w, d, c, "calling", o)
  <2>1. w.hand = <<>>
    <3>1. Tail(v.hand) \in Seq(Steers) /\ Len(Tail(v.hand)) = 0
      BY <1>2, <1>8, HeadTailProperties
    <3> QED
      BY <3>1, EmptySeq
  <2> QED
    BY <1>1, <1>2, <1>3, <1>7, <2>1 DEF Staged, Unopened, Ended, Open
<1>9. ASSUME Len(v.hand) # 1 PROVE Staged(r, w, d, c, "storing", o)
  <2>1. w.hand # <<>>
    <3>1. Len(v.hand) \in Nat \ {0} /\ Len(w.hand) = Len(v.hand) - 1
      BY <1>2, HeadTailProperties, EmptySeq
    <3>2. Len(w.hand) # 0
      BY <1>9, <3>1
    <3> QED
      BY <3>2, EmptySeq
  <2> QED
    BY <1>1, <1>2, <2>1 DEF Staged, Unopened, Ended, Open
<1> QED
  BY <1>4, <1>5, <1>6, <1>8, <1>9 DEF RunSound

\* A new attempt, or a fact about the run that the invariant does not depend on.
LEMMA AttemptSound ==
    ASSUME NEW r \in Runs, NEW o \in Runs \cup {NoRun}, NEW v \in RunRecord, NEW d \in Seq(Steers), NEW c \in BOOLEAN,
           NEW from \in {"calling", "completed"}, RunSound(r, v, d, c, from, o),
           NEW w \in RunRecord, w.hand = v.hand, w.rounds = v.rounds,
           w.pending = v.pending, w.talk = <<>> \/ w.talk = v.talk, w.kept = v.kept,
           w.accepted = v.accepted, w.lost = v.lost, w.returned = v.returned
    PROVE  RunSound(r, w, d, c, "calling", o) /\ RunSound(r, w, d, c, "failing", o)
<1>1. Staged(r, v, d, c, from, o) /\ Typed(v, d, c) /\ Mirrored(v)
  BY DEF RunSound
<1>2. Staged(r, w, d, c, "calling", o) /\ Staged(r, w, d, c, "failing", o)
  BY <1>1 DEF Staged, Unopened, Ended, Open
<1>3. Mirrored(w)
  <2>1. w.talk = v.talk => Mirrored(w)
    BY <1>1 DEF Mirrored
  <2> QED
    BY <2>1, AttemptMirrored
<1>4. Typed(w, d, c)
  BY <1>1 DEF Typed
<1>5. OrderOf(w.kept, w.accepted, Queue(w, d))
  <2>1. Queue(w, d) = Queue(v, d)
    BY DEF Queue
  <2> QED
    BY <2>1 DEF RunSound
<1> QED
  BY <1>2, <1>3, <1>4, <1>5 DEF RunSound

\* The record of a round that is done, with the drafts it takes and the tools it ran.
Completed(v, h, t) ==
    [v EXCEPT !.rounds = v.rounds + 1, !.pending = Append(v.pending, v.rounds + 1),
              !.talk = Append(v.talk, Round(v.rounds + 1)), !.hand = h, !.tools = t]

\* What completeRound leaves is sound, whether or not it drained messages.
LEMMA CompletedSound ==
    ASSUME NEW r \in Runs, NEW o \in Runs \cup {NoRun}, NEW v \in RunRecord, NEW d \in Seq(Steers), NEW c \in BOOLEAN,
           RunSound(r, v, d, c, "calling", o), NEW t \in 0..MaxToolRounds
    PROVE  /\ Completed(v, <<>>, t) \in RunRecord /\ Completed(v, d, t) \in RunRecord
           /\ RunSound(r, Completed(v, <<>>, t), d, c, "failing", o)
           /\ d = <<>> =>
                /\ RunSound(r, Completed(v, d, t), <<>>, TRUE, "completed", NoRun)
                /\ RunSound(r, Completed(v, d, t), <<>>, TRUE, "calling", NoRun)
                /\ RunSound(r, Completed(v, d, t), <<>>, c, "calling", o)
           /\ d # <<>> /\ o = r /\ ~c => RunSound(r, Completed(v, d, t), <<>>, c, "storing", o)
<1> DEFINE n == v.rounds + 1
<1>1. v.rounds \in Nat /\ n \in Nat /\ Round(n) \in Items
  BY ItemsMade DEF RunRecord
<1>2. Append(v.pending, n) \in Seq(Nat) /\ Append(v.talk, Round(n)) \in Seq(Items)
  BY <1>1, RecordSequences, AppendProperties
<1>3. \A h \in Seq(Steers) :
        /\ Completed(v, h, t) \in RunRecord
        /\ Completed(v, h, t).rounds = n /\ Completed(v, h, t).pending = Append(v.pending, n)
        /\ Completed(v, h, t).talk = Append(v.talk, Round(n)) /\ Completed(v, h, t).hand = h
        /\ Completed(v, h, t).kept = v.kept /\ Completed(v, h, t).accepted = v.accepted
        /\ Completed(v, h, t).lost = v.lost /\ Completed(v, h, t).returned = v.returned
  <2> SUFFICES ASSUME NEW h \in Seq(Steers)
               PROVE  /\ Completed(v, h, t) \in RunRecord
                      /\ Completed(v, h, t).rounds = n
                      /\ Completed(v, h, t).pending = Append(v.pending, n)
                      /\ Completed(v, h, t).talk = Append(v.talk, Round(n))
                      /\ Completed(v, h, t).hand = h
                      /\ Completed(v, h, t).kept = v.kept
                      /\ Completed(v, h, t).accepted = v.accepted
                      /\ Completed(v, h, t).lost = v.lost
                      /\ Completed(v, h, t).returned = v.returned
    OBVIOUS
  <2>1. Completed(v, h, t) = [v EXCEPT !.rounds = n, !.pending = Append(v.pending, n),
                                       !.talk = Append(v.talk, Round(n)), !.hand = h,
                                       !.tools = t]
    BY DEF Completed
  <2> HIDE DEF n
  <2>2. Completed(v, h, t) \in RunRecord
    BY <1>1, <1>2, <2>1 DEF RunRecord
  <2> QED
    BY <2>1, <2>2 DEF RunRecord
<1>4. <<>> \in Seq(Steers)
  BY EmptySeq
<1>5. PICK a \in RunRecord :
        /\ a = Completed(v, <<>>, t)
        /\ a.rounds = n /\ a.pending = Append(v.pending, n) /\ a.talk = Append(v.talk, Round(n))
        /\ a.hand = <<>> /\ a.kept = v.kept /\ a.accepted = v.accepted /\ a.lost = v.lost
        /\ a.returned = v.returned
  BY <1>3, <1>4
<1>6. PICK b \in RunRecord :
        /\ b = Completed(v, d, t)
        /\ b.rounds = n /\ b.pending = Append(v.pending, n) /\ b.talk = Append(v.talk, Round(n))
        /\ b.hand = d /\ b.kept = v.kept /\ b.accepted = v.accepted /\ b.lost = v.lost
        /\ b.returned = v.returned
  BY <1>3
<1>7. RunSound(r, a, d, c, "failing", o)
  BY <1>5, RoundDoneSound
<1>8. d = <<>> => /\ RunSound(r, b, <<>>, TRUE, "completed", NoRun)
                  /\ RunSound(r, b, <<>>, TRUE, "calling", NoRun)
                  /\ RunSound(r, b, <<>>, c, "calling", o)
  BY <1>6, RoundDoneSound
<1>9. d # <<>> /\ o = r /\ ~c => RunSound(r, b, <<>>, c, "storing", o)
  BY <1>6, RoundDoneSound
<1> QED
  BY <1>5, <1>6, <1>7, <1>8, <1>9

\* A round ends, whatever the run does then: the inbox is gone, or empty and settled or left
\* open, or its drafts are taken.
LEMMA RoundStep ==
    ASSUME IndInv, SteerInv, NEW r \in Runs, NEW t \in 0..MaxToolRounds,
           pc[r] = "calling", session' = session,
           \/ /\ pc'[r] = "failing" /\ UNCHANGED inboxVars
              /\ run' = [run EXCEPT ![r] = [[RoundDone(r) EXCEPT !.hand = <<>>] EXCEPT !.tools = t]]
           \/ /\ active(session[r], r) /\ drafts[r] # <<>> /\ pc'[r] = "storing" /\ drain(r)
              /\ run' = [run EXCEPT ![r] = [RoundDone(r) EXCEPT !.tools = t]]
           \/ /\ drafts[r] = <<>> /\ pc'[r] \in {"calling", "completed"}
              /\ settle(session[r], r)
              /\ run' = [run EXCEPT ![r] = [RoundDone(r) EXCEPT !.tools = t]]
           \/ /\ drafts[r] = <<>> /\ pc'[r] = "calling" /\ drain(r)
              /\ run' = [run EXCEPT ![r] = [RoundDone(r) EXCEPT !.tools = t]]
    PROVE  StepSound(r)
<1>1. PICK v \in RunRecord, d \in Seq(Steers), c \in BOOLEAN, o \in Runs \cup {NoRun} :
        /\ v = run[r] /\ d = drafts[r] /\ c = closed[r] /\ o = registered[session[r]]
        /\ run = [run EXCEPT ![r] = v] /\ drafts = [drafts EXCEPT ![r] = d]
        /\ closed = [closed EXCEPT ![r] = c]
        /\ RunSound(r, v, d, c, pc[r], o)
  BY RunState
<1>2. session[r] \in Sessions /\ registered \in [Sessions -> Runs \cup {NoRun}]
  BY RunState DEF IndInv, ScopeTyped
<1>3. /\ Completed(v, <<>>, t) \in RunRecord /\ Completed(v, d, t) \in RunRecord
      /\ RunSound(r, Completed(v, <<>>, t), d, c, "failing", o)
      /\ d = <<>> =>
           /\ RunSound(r, Completed(v, d, t), <<>>, TRUE, "completed", NoRun)
           /\ RunSound(r, Completed(v, d, t), <<>>, TRUE, "calling", NoRun)
           /\ RunSound(r, Completed(v, d, t), <<>>, c, "calling", o)
      /\ d # <<>> /\ o = r /\ ~c => RunSound(r, Completed(v, d, t), <<>>, c, "storing", o)
  <2>1. RunSound(r, v, d, c, "calling", o)
    BY <1>1
  <2> QED
    BY <2>1, CompletedSound, Zenon
<1>4. [[RoundDone(r) EXCEPT !.hand = <<>>] EXCEPT !.tools = t] = Completed(v, <<>>, t)
  BY <1>1 DEF RoundDone, RunRecord, Completed
<1>5. [RoundDone(r) EXCEPT !.tools = t] = Completed(v, d, t)
  BY <1>1 DEF RoundDone, RunRecord, Completed
<1>6. <<>> \in Seq(Steers) /\ {"failing", "storing", "calling", "completed"} \subseteq Reachable
  BY EmptySeq DEF Reachable, Open
<1>7. CASE /\ pc'[r] = "failing" /\ UNCHANGED inboxVars
            /\ run' = [run EXCEPT ![r] = [[RoundDone(r) EXCEPT !.hand = <<>>] EXCEPT !.tools = t]]
  <2>1. /\ run' = [run EXCEPT ![r] = Completed(v, <<>>, t)] /\ drafts' = [drafts EXCEPT ![r] = d]
        /\ closed' = [closed EXCEPT ![r] = c] /\ registered'[session[r]] = o
    BY <1>1, <1>4, <1>7 DEF inboxVars
  <2>2. RunSound(r, Completed(v, <<>>, t), d, c, pc'[r], registered'[session[r]]) /\ pc'[r] \in Reachable
    BY <1>3, <1>6, <1>7, <2>1
  <2>3. closed[r] => c
    BY <1>1
  <2> QED
    BY <2>1, <2>2, <2>3, <1>3, StepMade
<1>8. CASE /\ active(session[r], r) /\ drafts[r] # <<>> /\ pc'[r] = "storing" /\ drain(r)
            /\ run' = [run EXCEPT ![r] = [RoundDone(r) EXCEPT !.tools = t]]
  <2>1. /\ run' = [run EXCEPT ![r] = Completed(v, d, t)] /\ drafts' = [drafts EXCEPT ![r] = <<>>]
        /\ closed' = [closed EXCEPT ![r] = c] /\ registered'[session[r]] = o
        /\ d # <<>> /\ o = r /\ ~c
    BY <1>1, <1>5, <1>8 DEF drain, active
  <2>2. RunSound(r, Completed(v, d, t), <<>>, c, pc'[r], registered'[session[r]]) /\ pc'[r] \in Reachable
    BY <1>3, <1>6, <1>8, <2>1
  <2>3. closed[r] => c
    BY <1>1
  <2> QED
    BY <1>6, <2>1, <2>2, <2>3, <1>3, StepMade
<1>9. CASE /\ drafts[r] = <<>> /\ pc'[r] \in {"calling", "completed"}
            /\ settle(session[r], r)
            /\ run' = [run EXCEPT ![r] = [RoundDone(r) EXCEPT !.tools = t]]
  <2>1. /\ run' = [run EXCEPT ![r] = Completed(v, d, t)] /\ drafts' = [drafts EXCEPT ![r] = <<>>] /\ d = <<>>
        /\ closed' = [closed EXCEPT ![r] = TRUE] /\ registered'[session[r]] = NoRun
    BY <1>1, <1>2, <1>5, <1>9 DEF settle
  <2>2. RunSound(r, Completed(v, d, t), <<>>, TRUE, pc'[r], registered'[session[r]]) /\ pc'[r] \in Reachable
    BY <1>3, <1>6, <1>9, <2>1
  <2> QED
    BY <1>3, <1>6, <2>1, <2>2, StepMade
<1>10. CASE /\ drafts[r] = <<>> /\ pc'[r] = "calling" /\ drain(r)
            /\ run' = [run EXCEPT ![r] = [RoundDone(r) EXCEPT !.tools = t]]
  <2>1. /\ run' = [run EXCEPT ![r] = Completed(v, d, t)] /\ drafts' = [drafts EXCEPT ![r] = <<>>] /\ d = <<>>
        /\ closed' = [closed EXCEPT ![r] = c] /\ registered'[session[r]] = o
    BY <1>1, <1>5, <1>10 DEF drain
  <2>2. RunSound(r, Completed(v, d, t), <<>>, c, pc'[r], registered'[session[r]]) /\ pc'[r] \in Reachable
    BY <1>3, <1>6, <1>10, <2>1
  <2>3. closed[r] => c
    BY <1>1
  <2> QED
    BY <1>6, <2>1, <2>2, <2>3, <1>3, StepMade
<1> QED
  BY <1>7, <1>8, <1>9, <1>10

\* A text round.
LEMMA TextStep ==
    ASSUME IndInv, SteerInv, NEW r \in Runs, TextRound(r)
    PROVE  StepSound(r)
<1> DEFINE t == run[r].tools
<1>1. run[r] \in RunRecord /\ t \in 0..MaxToolRounds
  BY DEF SteerInv, RunRecord
<1>2. /\ [RoundDone(r) EXCEPT !.tools = t] = RoundDone(r)
      /\ [[RoundDone(r) EXCEPT !.hand = <<>>] EXCEPT !.tools = t] = [RoundDone(r) EXCEPT !.hand = <<>>]
  BY <1>1 DEF RoundDone, RunRecord
<1>3. pc[r] = "calling" /\ session' = session
  BY PlaceAfter DEF TextRound
<1>4. CASE ~active(session[r], r)
  <2>1. /\ pc'[r] = "failing" /\ UNCHANGED inboxVars
        /\ run' = [run EXCEPT ![r] = [RoundDone(r) EXCEPT !.hand = <<>>]]
    BY <1>4, PlaceAfter DEF TextRound
  <2> QED
    BY <1>1, <1>2, <1>3, <2>1, RoundStep
<1>5. CASE active(session[r], r)
  <2>1. /\ pc'[r] = IF drafts[r] = <<>> THEN "completed" ELSE "storing"
        /\ drainFinal(session[r], r) /\ run' = [run EXCEPT ![r] = RoundDone(r)]
    BY <1>5, PlaceAfter DEF TextRound
  <2>2. CASE drafts[r] = <<>>
    <3>1. pc'[r] = "completed" /\ settle(session[r], r)
      BY <2>1, <2>2 DEF drainFinal
    <3> QED
      BY <1>1, <1>2, <1>3, <2>1, <2>2, <3>1, RoundStep
  <2>3. CASE drafts[r] # <<>>
    <3>1. pc'[r] = "storing" /\ drain(r)
      BY <2>1, <2>3 DEF drainFinal
    <3> QED
      BY <1>1, <1>2, <1>3, <1>5, <2>1, <2>3, <3>1, RoundStep
  <2> QED
    BY <2>2, <2>3
<1> QED
  BY <1>4, <1>5

\* A tool round.
LEMMA ToolStep ==
    ASSUME IndInv, SteerInv, NEW r \in Runs, ToolRound(r)
    PROVE  StepSound(r)
<1> DEFINE t == run[r].tools + 1
<1>1. run[r] \in RunRecord /\ t \in 0..MaxToolRounds
  BY BoundAssumption DEF SteerInv, RunRecord, ToolRound
<1>2. /\ [RoundDone(r) EXCEPT !.tools = @ + 1] = [RoundDone(r) EXCEPT !.tools = t]
      /\ [RoundDone(r) EXCEPT !.hand = <<>>, !.tools = @ + 1] =
           [[RoundDone(r) EXCEPT !.hand = <<>>] EXCEPT !.tools = t]
  BY <1>1 DEF RoundDone, RunRecord
<1>3. pc[r] = "calling" /\ session' = session
  BY PlaceAfter DEF ToolRound
<1>4. CASE ~active(session[r], r)
  <2>1. /\ pc'[r] = "failing" /\ UNCHANGED inboxVars
        /\ run' = [run EXCEPT ![r] = [RoundDone(r) EXCEPT !.hand = <<>>, !.tools = @ + 1]]
    BY <1>4, PlaceAfter DEF ToolRound
  <2> QED
    BY <1>1, <1>2, <1>3, <2>1, RoundStep
<1>5. CASE active(session[r], r)
  <2>1. /\ pc'[r] = IF drafts[r] = <<>> THEN "calling" ELSE "storing"
        /\ \E finish \in ToolRoundFinish : drainSteering(r, finish)
        /\ run' = [run EXCEPT ![r] = [RoundDone(r) EXCEPT !.tools = @ + 1]]
    BY <1>5, PlaceAfter DEF ToolRound
  <2>2. CASE drafts[r] = <<>>
    <3>1. pc'[r] = "calling" /\ (settle(session[r], r) \/ drain(r))
      BY <2>1, <2>2 DEF drainFinal, drainSteering
    <3> QED
      BY <1>1, <1>2, <1>3, <2>1, <2>2, <3>1, RoundStep
  <2>3. CASE drafts[r] # <<>>
    <3>1. pc'[r] = "storing" /\ drain(r)
      BY <2>1, <2>3 DEF drainFinal, drainSteering
    <3> QED
      BY <1>1, <1>2, <1>3, <1>5, <2>1, <2>3, <3>1, RoundStep
  <2> QED
    BY <2>2, <2>3
<1> QED
  BY <1>4, <1>5

\* A checkpoint that fails, of which some entries may be stored.
LEMMA CheckpointFails ==
    ASSUME IndInv, SteerInv, NEW r \in Runs, Goes(r, "storing", "failing"),
           restoreSteeringAfterCheckpointFailure(r), session' = session
    PROVE  StepSound(r)
<1>1. PICK v \in RunRecord, d \in Seq(Steers), c \in BOOLEAN, o \in Runs \cup {NoRun} :
        /\ v = run[r] /\ d = drafts[r] /\ c = closed[r] /\ o = registered[session[r]]
        /\ run = [run EXCEPT ![r] = v] /\ drafts = [drafts EXCEPT ![r] = d]
        /\ closed = [closed EXCEPT ![r] = c]
        /\ RunSound(r, v, d, c, pc[r], o)
  BY RunState
<1>2. pc[r] = "storing" /\ pc'[r] = "failing"
  BY PlaceAfter
<1>3. RunSound(r, v, d, c, "storing", o)
  BY <1>1, <1>2
<1>4. o = r /\ ~c
  BY <1>3 DEF RunSound, Staged
<1>5. registered' = registered /\ closed' = closed
  BY DEF restoreSteeringAfterCheckpointFailure, restore, inboxVars
<1>6. "failing" \in Reachable /\ <<>> \in Seq(Steers) /\ v.hand \in Seq(Steers)
  BY EmptySeq DEF Reachable, Open, RunRecord
<1>7. CASE /\ restorable(session[r], r, run[r].hand) /\ restore(r, run[r].hand)
           /\ run' = [run EXCEPT ![r].hand = <<>>]
  <2>1. PICK w \in RunRecord : w = [v EXCEPT !.hand = <<>>]
    BY <1>6 DEF RunRecord
  <2>2. /\ w.hand = <<>> /\ w.rounds = v.rounds /\ w.pending = v.pending /\ w.talk = v.talk
        /\ w.kept = v.kept /\ w.accepted = v.accepted /\ w.lost = v.lost
        /\ w.returned = v.returned
    BY <2>1 DEF RunRecord
  <2>3. Len(d) + Len(v.hand) <= Capacity
    BY <1>1, <1>7 DEF restorable
  <2>4. v.hand \o d \in Seq(Steers) /\ RunSound(r, w, v.hand \o d, c, "failing", o)
    BY <1>3, <2>2, <2>3, RestoreSound
  <2>5. run' = [run EXCEPT ![r] = w]
    <3>1. run' = [run EXCEPT ![r] = [run[r] EXCEPT !.hand = <<>>]]
      BY <1>7
    <3> QED
      BY <1>1, <2>1, <3>1, Zenon
  <2>6. drafts' = [drafts EXCEPT ![r] = v.hand \o d] /\ closed' = [closed EXCEPT ![r] = c]
    BY <1>1, <1>5, <1>7 DEF restore
  <2>7. RunSound(r, w, v.hand \o d, c, pc'[r], registered'[session[r]]) /\ pc'[r] \in Reachable
    BY <1>1, <1>2, <1>5, <1>6, <2>4
  <2>8. closed[r] => c
    BY <1>1
  <2> QED
    BY <2>4, <2>5, <2>6, <2>7, <2>8, StepMade
<1>8. CASE /\ ~restorable(session[r], r, run[r].hand)
           /\ run' = [run EXCEPT ![r].hand = <<>>, ![r].lost = run[r].hand]
           /\ UNCHANGED inboxVars
  <2>1. PICK w \in RunRecord : w = [v EXCEPT !.hand = <<>>, !.lost = v.hand]
    BY <1>6 DEF RunRecord
  <2>2. /\ w.hand = <<>> /\ w.rounds = v.rounds /\ w.pending = v.pending /\ w.talk = v.talk
        /\ w.kept = v.kept /\ w.accepted = v.accepted /\ w.lost = v.hand
        /\ w.returned = v.returned
    BY <2>1 DEF RunRecord
  <2>3. ~(Len(d) + Len(v.hand) <= Capacity)
    BY <1>1, <1>4, <1>8 DEF restorable, active
  <2>4. RunSound(r, w, d, c, "failing", o)
    BY <1>3, <2>2, <2>3, RestoreSound
  <2>5. run' = [run EXCEPT ![r] = w]
    <3>1. run' = [run EXCEPT ![r] = [[run[r] EXCEPT !.hand = <<>>] EXCEPT !.lost = run[r].hand]]
      BY <1>8 DEF SteerInv
    <3>2. [[v EXCEPT !.hand = <<>>] EXCEPT !.lost = v.hand] = w
      BY <2>1 DEF RunRecord
    <3> QED
      BY <1>1, <3>1, <3>2, Zenon
  <2>6. drafts' = [drafts EXCEPT ![r] = d] /\ closed' = [closed EXCEPT ![r] = c]
    BY <1>1, <1>5, <1>8 DEF inboxVars
  <2>7. RunSound(r, w, d, c, pc'[r], registered'[session[r]]) /\ pc'[r] \in Reachable
    BY <1>1, <1>2, <1>5, <1>6, <2>4
  <2>8. closed[r] => c
    BY <1>1
  <2> QED
    BY <2>5, <2>6, <2>7, <2>8, StepMade
<1> QED
  BY <1>7, <1>8 DEF restoreSteeringAfterCheckpointFailure

\* The write of a pending round.
LEMMA PendingStep ==
    ASSUME IndInv, SteerInv, NEW r \in Runs, PersistPendingRound(r)
    PROVE  StepSound(r)
<1>1. PICK v \in RunRecord, d \in Seq(Steers), c \in BOOLEAN, o \in Runs \cup {NoRun} :
        /\ v = run[r] /\ d = drafts[r] /\ c = closed[r] /\ o = registered[session[r]]
        /\ run = [run EXCEPT ![r] = v] /\ drafts = [drafts EXCEPT ![r] = d]
        /\ closed = [closed EXCEPT ![r] = c]
        /\ RunSound(r, v, d, c, pc[r], o)
  BY RunState
<1>2. v.pending # <<>> /\ session' = session
  BY <1>1 DEF PersistPendingRound
<1>3. CASE Goes(r, "storing", "failing") /\ restoreSteeringAfterCheckpointFailure(r)
  BY <1>2, <1>3, CheckpointFails
<1>4. CASE /\ Goes(r, "storing", "storing") /\ UNCHANGED inboxVars
           /\ run' = [run EXCEPT ![r].pending = Tail(@), ![r].advanced = TRUE,
                                 ![r].kept = Append(@, Round(Head(run[r].pending)))]
  <2>1. pc[r] = "storing" /\ pc'[r] = "storing"
    BY <1>4, PlaceAfter
  <2>2. Head(v.pending) \in Nat /\ Tail(v.pending) \in Seq(Nat)
    BY <1>2, RecordSequences, HeadTailProperties
  <2>3. Append(v.kept, Round(Head(v.pending))) \in Seq(Items)
    BY <2>2, ItemsMade, RecordSequences, AppendProperties
  <2>4. PICK w \in RunRecord :
          w = [v EXCEPT !.pending = Tail(v.pending), !.advanced = TRUE,
                        !.kept = Append(v.kept, Round(Head(v.pending)))]
    BY <2>2, <2>3 DEF RunRecord
  <2>5. /\ w.hand = v.hand /\ w.rounds = v.rounds /\ w.pending = Tail(v.pending)
        /\ w.talk = v.talk /\ w.kept = Append(v.kept, Round(Head(v.pending)))
        /\ w.accepted = v.accepted /\ w.lost = v.lost /\ w.returned = v.returned
    BY <2>4 DEF RunRecord
  <2>6. RunSound(r, w, d, c, "storing", o)
    <3>1. RunSound(r, v, d, c, "storing", o)
      BY <1>1, <2>1
    <3> QED
      BY <1>2, <2>5, <3>1, PendingStoredSound
  <2>7. run' = [run EXCEPT ![r] = w]
    <3>1. run'[r] = w /\ DOMAIN run' = Runs /\ \A q \in Runs \ {r} : run'[q] = run[q]
      BY <1>1, <1>4, <2>4 DEF SteerInv, RunRecord
    <3>2. run' = [q \in Runs |-> run'[q]]
      BY <1>4 DEF SteerInv
    <3> QED
      BY <3>1, <3>2 DEF SteerInv
  <2>8. /\ drafts' = [drafts EXCEPT ![r] = d] /\ closed' = [closed EXCEPT ![r] = c]
        /\ registered' = registered /\ (closed[r] => c)
    BY <1>1, <1>4 DEF inboxVars
  <2>9. RunSound(r, w, d, c, pc'[r], registered'[session[r]]) /\ pc'[r] \in Reachable
    BY <1>1, <2>1, <2>6, <2>8 DEF Reachable, Open
  <2> QED
    BY <1>2, <2>7, <2>8, <2>9, StepMade
<1> QED
  BY <1>3, <1>4 DEF PersistPendingRound

\* The write of a drained message.
LEMMA DraftStep ==
    ASSUME IndInv, SteerInv, NEW r \in Runs, PersistSteeringDraft(r)
    PROVE  StepSound(r)
<1>1. PICK v \in RunRecord, d \in Seq(Steers), c \in BOOLEAN, o \in Runs \cup {NoRun} :
        /\ v = run[r] /\ d = drafts[r] /\ c = closed[r] /\ o = registered[session[r]]
        /\ run = [run EXCEPT ![r] = v] /\ drafts = [drafts EXCEPT ![r] = d]
        /\ closed = [closed EXCEPT ![r] = c]
        /\ RunSound(r, v, d, c, pc[r], o)
  BY RunState
<1>2. v.pending = <<>> /\ session' = session
  BY <1>1 DEF PersistSteeringDraft
<1>3. CASE Goes(r, "storing", "failing") /\ restoreSteeringAfterCheckpointFailure(r)
  BY <1>2, <1>3, CheckpointFails
<1> DEFINE item == Message(Head(v.hand))
<1>4. CASE /\ Goes(r, "storing", IF Len(run[r].hand) = 1 THEN "calling" ELSE "storing")
           /\ UNCHANGED inboxVars
           /\ run' = [run EXCEPT ![r].hand = Tail(@),
                                 ![r].talk = Append(@, Message(Head(run[r].hand))),
                                 ![r].kept = Append(@, Message(Head(run[r].hand)))]
  <2>1. /\ pc[r] = "storing" /\ pc'[r] \in {"calling", "storing"}
        /\ pc'[r] = "calling" <=> Len(v.hand) = 1
    BY <1>1, <1>4, PlaceAfter
  <2>2. RunSound(r, v, d, c, "storing", o)
    BY <1>1, <2>1
  <2>3. v.hand # <<>> /\ v.hand \in Seq(Steers)
    BY <2>2 DEF RunSound, Staged, RunRecord
  <2>4. item \in Items /\ Tail(v.hand) \in Seq(Steers)
    BY <2>3, ItemsMade, HeadTailProperties
  <2> HIDE DEF item
  <2>5. Append(v.kept, item) \in Seq(Items) /\ Append(v.talk, item) \in Seq(Items)
    BY <2>4, RecordSequences, AppendProperties
  <2>6. PICK w \in RunRecord :
          w = [v EXCEPT !.hand = Tail(v.hand), !.talk = Append(v.talk, item),
                        !.kept = Append(v.kept, item)]
    BY <2>4, <2>5 DEF RunRecord
  <2>7. /\ w.hand = Tail(v.hand) /\ w.rounds = v.rounds /\ w.pending = v.pending
        /\ w.talk = Append(v.talk, item) /\ w.kept = Append(v.kept, item)
        /\ w.accepted = v.accepted /\ w.lost = v.lost /\ w.returned = v.returned
    BY <2>6 DEF RunRecord
  <2>8. /\ Len(v.hand) = 1 => RunSound(r, w, d, c, "calling", o)
        /\ Len(v.hand) # 1 => RunSound(r, w, d, c, "storing", o)
    BY <1>2, <2>2, <2>7, SteerStoredSound DEF item
  <2>9. run' = [run EXCEPT ![r] = w]
    <3>1. run' = [run EXCEPT ![r].hand = Tail(@), ![r].talk = Append(@, item),
                             ![r].kept = Append(@, item)]
      BY <1>1, <1>4 DEF item
    <3>2. run'[r] = w /\ DOMAIN run' = Runs /\ \A q \in Runs \ {r} : run'[q] = run[q]
      BY <1>1, <2>6, <3>1 DEF SteerInv, RunRecord
    <3>3. run' = [q \in Runs |-> run'[q]]
      BY <3>1 DEF SteerInv
    <3> QED
      BY <3>2, <3>3 DEF SteerInv
  <2>10. /\ drafts' = [drafts EXCEPT ![r] = d] /\ closed' = [closed EXCEPT ![r] = c]
         /\ registered' = registered /\ (closed[r] => c)
    BY <1>1, <1>4 DEF inboxVars
  <2>11. RunSound(r, w, d, c, pc'[r], registered'[session[r]]) /\ pc'[r] \in Reachable
    BY <1>1, <2>1, <2>8, <2>10 DEF Reachable, Open
  <2> QED
    BY <1>2, <2>9, <2>10, <2>11, StepMade
<1> QED
  BY <1>3, <1>4 DEF PersistSteeringDraft

\* A request that is sent again.
LEMMA RetryStep ==
    ASSUME IndInv, SteerInv, NEW r \in Runs, RetryRequest(r)
    PROVE  StepSound(r)
<1>1. PICK v \in RunRecord, d \in Seq(Steers), c \in BOOLEAN, o \in Runs \cup {NoRun} :
        /\ v = run[r] /\ d = drafts[r] /\ c = closed[r] /\ o = registered[session[r]]
        /\ run = [run EXCEPT ![r] = v] /\ drafts = [drafts EXCEPT ![r] = d]
        /\ closed = [closed EXCEPT ![r] = c]
        /\ RunSound(r, v, d, c, pc[r], o)
  BY RunState
<1>2. /\ pc[r] = "calling" /\ pc'[r] = "calling" /\ session' = session /\ UNCHANGED inboxVars
      /\ v.attempt < MaxAttempts
      /\ run' = [run EXCEPT ![r].attempt = @ + 1, ![r].talk = <<>>]
  BY <1>1, PlaceAfter DEF RetryRequest
<1>3. v.attempt + 1 \in 1..MaxAttempts /\ <<>> \in Seq(Items)
  BY <1>2, BoundAssumption, EmptySeq DEF RunRecord
<1>4. PICK w \in RunRecord : w = [v EXCEPT !.attempt = v.attempt + 1, !.talk = <<>>]
  BY <1>3 DEF RunRecord
<1>5. /\ w.hand = v.hand /\ w.rounds = v.rounds /\ w.pending = v.pending /\ w.talk = <<>>
      /\ w.kept = v.kept /\ w.accepted = v.accepted /\ w.lost = v.lost
      /\ w.returned = v.returned
  BY <1>4 DEF RunRecord
<1>6. RunSound(r, w, d, c, "calling", o)
  <2>1. RunSound(r, v, d, c, "calling", o)
    BY <1>1, <1>2
  <2> QED
    BY <1>5, <2>1, AttemptSound
<1>7. run' = [run EXCEPT ![r] = w]
  <2>1. run'[r] = w /\ DOMAIN run' = Runs /\ \A q \in Runs \ {r} : run'[q] = run[q]
    BY <1>1, <1>2, <1>4 DEF SteerInv, RunRecord
  <2>2. run' = [q \in Runs |-> run'[q]]
    BY <1>2 DEF SteerInv
  <2> QED
    BY <2>1, <2>2 DEF SteerInv
<1>8. /\ drafts' = [drafts EXCEPT ![r] = d] /\ closed' = [closed EXCEPT ![r] = c]
      /\ registered' = registered /\ (closed[r] => c)
  BY <1>1, <1>2 DEF inboxVars
<1>9. RunSound(r, w, d, c, pc'[r], registered'[session[r]]) /\ pc'[r] \in Reachable
  BY <1>1, <1>2, <1>6, <1>8 DEF Reachable, Open
<1> QED
  BY <1>2, <1>7, <1>8, <1>9, StepMade

\* A request that is rebuilt after an overflow.
LEMMA RecoverStep ==
    ASSUME IndInv, SteerInv, NEW r \in Runs, RecoverOverflow(r)
    PROVE  StepSound(r)
<1>1. PICK v \in RunRecord, d \in Seq(Steers), c \in BOOLEAN, o \in Runs \cup {NoRun} :
        /\ v = run[r] /\ d = drafts[r] /\ c = closed[r] /\ o = registered[session[r]]
        /\ run = [run EXCEPT ![r] = v] /\ drafts = [drafts EXCEPT ![r] = d]
        /\ closed = [closed EXCEPT ![r] = c]
        /\ RunSound(r, v, d, c, pc[r], o)
  BY RunState
<1>2. /\ pc[r] \in {"calling", "completed"} /\ pc'[r] \in {"calling", "failing"}
      /\ session' = session /\ UNCHANGED inboxVars
      /\ \/ run' = [run EXCEPT ![r].recovered = TRUE, ![r].attempt = 1, ![r].talk = <<>>]
         \/ run' = [run EXCEPT ![r].recovered = TRUE]
  BY <1>1, PlaceAfter DEF RecoverOverflow
<1>3. 1 \in 1..MaxAttempts /\ <<>> \in Seq(Items)
  BY BoundAssumption, EmptySeq
<1>4. PICK w \in RunRecord :
        /\ \/ w = [v EXCEPT !.recovered = TRUE, !.attempt = 1, !.talk = <<>>]
           \/ w = [v EXCEPT !.recovered = TRUE]
        /\ run'[r] = w
  <2>1. /\ [v EXCEPT !.recovered = TRUE, !.attempt = 1, !.talk = <<>>] \in RunRecord
        /\ [v EXCEPT !.recovered = TRUE] \in RunRecord
    BY <1>3 DEF RunRecord
  <2>2. \/ run'[r] = [v EXCEPT !.recovered = TRUE, !.attempt = 1, !.talk = <<>>]
        \/ run'[r] = [v EXCEPT !.recovered = TRUE]
    <3>1. CASE run' = [run EXCEPT ![r].recovered = TRUE, ![r].attempt = 1, ![r].talk = <<>>]
      BY <1>1, <3>1 DEF SteerInv, RunRecord
    <3>2. CASE run' = [run EXCEPT ![r].recovered = TRUE]
      BY <1>1, <3>2 DEF SteerInv, RunRecord
    <3> QED
      BY <1>2, <3>1, <3>2
  <2> QED
    BY <2>1, <2>2
<1>5. /\ w.hand = v.hand /\ w.rounds = v.rounds /\ w.pending = v.pending
      /\ w.talk = <<>> \/ w.talk = v.talk
      /\ w.kept = v.kept /\ w.accepted = v.accepted /\ w.lost = v.lost
      /\ w.returned = v.returned
  BY <1>4 DEF RunRecord
<1>6. RunSound(r, w, d, c, "calling", o) /\ RunSound(r, w, d, c, "failing", o)
  BY <1>1, <1>2, <1>5, AttemptSound
<1>7. run' = [run EXCEPT ![r] = w]
  <2>1. DOMAIN run' = Runs /\ \A q \in Runs \ {r} : run'[q] = run[q]
    BY <1>1, <1>2 DEF SteerInv
  <2>2. run' = [q \in Runs |-> run'[q]]
    BY <1>2 DEF SteerInv
  <2> QED
    BY <1>4, <2>1, <2>2 DEF SteerInv
<1>8. /\ drafts' = [drafts EXCEPT ![r] = d] /\ closed' = [closed EXCEPT ![r] = c]
      /\ registered' = registered /\ (closed[r] => c)
  BY <1>1, <1>2 DEF inboxVars
<1>9. RunSound(r, w, d, c, pc'[r], registered'[session[r]]) /\ pc'[r] \in Reachable
  BY <1>1, <1>2, <1>6, <1>8 DEF Reachable, Open
<1> QED
  BY <1>2, <1>7, <1>8, <1>9, StepMade

\* The write of the answer.
LEMMA AnswerStep ==
    ASSUME IndInv, SteerInv, NEW r \in Runs, PersistAnswer(r)
    PROVE  StepSound(r)
<1>1. PICK v \in RunRecord, d \in Seq(Steers), c \in BOOLEAN, o \in Runs \cup {NoRun} :
        /\ v = run[r] /\ d = drafts[r] /\ c = closed[r] /\ o = registered[session[r]]
        /\ run = [run EXCEPT ![r] = v] /\ drafts = [drafts EXCEPT ![r] = d]
        /\ closed = [closed EXCEPT ![r] = c]
        /\ RunSound(r, v, d, c, pc[r], o)
  BY RunState
<1>2. /\ pc[r] = "answering" /\ pc'[r] = "closing"
      /\ session' = session /\ UNCHANGED inboxVars
      /\ run' = run \/ run' = [run EXCEPT ![r].answered = TRUE]
  BY PlaceAfter DEF PersistAnswer
<1>3. PICK w \in RunRecord : w = [v EXCEPT !.answered = TRUE]
  BY DEF RunRecord
<1>4. /\ w.hand = v.hand /\ w.rounds = v.rounds /\ w.pending = v.pending /\ w.talk = v.talk
      /\ w.kept = v.kept /\ w.accepted = v.accepted /\ w.lost = v.lost
      /\ w.returned = v.returned
  BY <1>3 DEF RunRecord
<1>5. Staged(r, v, d, c, "answering", o) /\ Typed(v, d, c) /\ Mirrored(v)
  BY <1>1, <1>2 DEF RunSound
<1>6. Staged(r, v, d, c, "closing", o) /\ Staged(r, w, d, c, "closing", o)
  BY <1>4, <1>5 DEF Staged, Unopened, Ended, Open
<1>7. Typed(w, d, c) /\ Mirrored(w) /\ Queue(w, d) = Queue(v, d)
  BY <1>4, <1>5 DEF Typed, Mirrored, Queue
<1>8. RunSound(r, v, d, c, "closing", o) /\ RunSound(r, w, d, c, "closing", o)
  BY <1>1, <1>4, <1>6, <1>7 DEF RunSound
<1>9. /\ drafts' = [drafts EXCEPT ![r] = d] /\ closed' = [closed EXCEPT ![r] = c]
      /\ registered' = registered /\ (closed[r] => c)
  BY <1>1, <1>2 DEF inboxVars
<1>10. pc'[r] \in Reachable /\ registered'[session[r]] = o
  BY <1>1, <1>2, <1>9 DEF Reachable, Open
<1>11. CASE run' = run
  <2>1. run' = [run EXCEPT ![r] = v] /\ RunSound(r, v, d, c, pc'[r], registered'[session[r]])
    BY <1>1, <1>2, <1>8, <1>10, <1>11
  <2> QED
    BY <1>2, <1>9, <1>10, <2>1, StepMade
<1>12. CASE run' = [run EXCEPT ![r].answered = TRUE]
  <2>1. run' = [run EXCEPT ![r] = w]
    <3>1. run' = [run EXCEPT ![r] = [run[r] EXCEPT !.answered = TRUE]]
      BY <1>12
    <3> QED
      BY <1>1, <1>3, <3>1, Zenon
  <2>2. RunSound(r, w, d, c, pc'[r], registered'[session[r]])
    BY <1>2, <1>8, <1>10
  <2> QED
    BY <1>2, <1>9, <1>10, <2>1, <2>2, StepMade
<1> QED
  BY <1>2, <1>11, <1>12

\* Every step of a run leaves it sound.
LEMMA RunStepSound ==
    ASSUME IndInv, SteerInv, NEW r \in Runs, RunStep(r)
    PROVE  StepSound(r)
BY QuietSteps, RegisterStep, CachedStep, TextStep, ToolStep, PendingStep, DraftStep, RetryStep,
   RecoverStep, AnswerStep, CloseStep, ReturnStep DEF RunStep

--------------------------------------------------------------------------------
(* The inductive step. *)

\* Whatever an operation does to its own session, the inbox of an open run elsewhere, or of
\* a run that holds this session, stays its own.
LEMMA RegistrationKept ==
    ASSUME IndInv, SteerInv, NEW r \in Runs, NEW q \in Runs \ {r}, RunStep(r)
    PROVE  /\ pc'[q] = pc[q] /\ session' = session
           /\ pc[q] \in Open => registered'[session[q]] = registered[session[q]]
<1>1. r \in Operations /\ q \in Operations /\ session[r] \in Sessions /\ session[q] \in Sessions
  BY RunState
<1>2. PICK to \in Working \cup {"releasing"} : Moves(r, to) /\ Registers(r, to)
  BY RunStepFrame
<1>3. pc'[q] = pc[q] /\ session' = session
  BY <1>1, <1>2 DEF Moves, IndInv, ScopeTyped
<1>4. Holding(r)
  BY RunStepFrame DEF Holding, Working
<1>5. pc[q] \in Open => Holding(q)
  BY DEF Open, Holding
<1>6. pc[q] \in Open => session[q] # session[r]
  BY <1>1, <1>4, <1>5, IndInvExcludes DEF OneOperationPerSession
<1>7. \A s \in Sessions : s # session[r] => registered'[s] = registered[s]
  BY <1>1, <1>2 DEF Registers, IndInv, ScopeTyped
<1> QED
  BY <1>1, <1>3, <1>6, <1>7

\* The invariant of a run depends on the registry only while its inbox is open.
LEMMA ElsewhereSound ==
    ASSUME NEW q \in Runs, NEW v, NEW d, NEW c, NEW p, NEW o, NEW u,
           RunSound(q, v, d, c, p, o), p \in Open => u = o
    PROVE  RunSound(q, v, d, c, p, u)
<1>1. Staged(q, v, d, c, p, o)
  BY DEF RunSound
<1>2. Staged(q, v, d, c, p, u)
  <2>1. "storing" \in Open
    BY DEF Open
  <2> QED
    BY <1>1, <2>1 DEF Staged
<1> QED
  BY <1>2 DEF RunSound

\* The entries and the requests keep their types.
LEMMA EntriesKept ==
    ASSUME IndInv, EntriesTyped, [Next]_vars
    PROVE  EntriesTyped'
<1> USE DEF EntriesTyped
<1>1. \A o \in Operations : session[o] \in Sessions
  BY DEF IndInv, ScopeTyped
<1>2. ASSUME NEW o \in Operations, MayAppendEntry(o), steer' = steer PROVE EntriesTyped'
  <2>1. CASE AppendsEntry(o)
    BY <1>1, <1>2, <2>1 DEF AppendsEntry
  <2>2. CASE UNCHANGED entryVars
    BY <1>2, <2>2 DEF entryVars
  <2> QED
    BY <1>2, <2>1, <2>2 DEF MayAppendEntry
<1>3. ASSUME NEW o \in Operations, Acquire(o) \/ Enter(o) \/ GiveUp(o) \/ Release(o)
      PROVE  EntriesTyped'
  BY <1>3 DEF Acquire, Enter, GiveUp, Release, entryVars
<1>4. ASSUME NEW o \in Operations, ResolveParent(o) \/ Leave(o) PROVE EntriesTyped'
  BY <1>1, <1>4 DEF ResolveParent, Leave
<1>5. ASSUME NEW o \in Compactions, CompactSession(o) PROVE EntriesTyped'
  BY <1>2, <1>5 DEF CompactSession, Operations
<1>6. ASSUME NEW r \in Runs, RunStep(r) PROVE EntriesTyped'
  <2>1. steer' = steer
    BY <1>6 DEF RunStep, AppendUserEntry, Register, RespondToSlashCommand, UseCachedResponse,
         PrepareRequest, TextRound, ToolRound, PersistPendingRound, PersistSteeringDraft,
         FailRequest, RetryRequest, RecoverOverflow, Complete, PersistAnswer, PersistFailure,
         CloseRegistration, ReturnSteering, EndTurn
  <2>2. MayAppendEntry(r) /\ r \in Operations
    BY <1>6, RunStepFrame DEF Operations
  <2> QED
    BY <1>2, <2>1, <2>2
<1>7. ASSUME NEW d \in Steers, AcceptSteer(d) PROVE EntriesTyped'
  <2>1. PICK st \in SteerStates : steer' = [steer EXCEPT ![d].state = st]
    BY <1>7 DEF AcceptSteer, SteerStates
  <2>2. UNCHANGED entryVars
    BY <1>7 DEF AcceptSteer
  <2>3. steer' \in [Steers -> [state : SteerStates, run : Runs \cup {NoRun},
                               inbox : Runs \cup {NoRun}]]
    BY <2>1
  <2> QED
    BY <2>2, <2>3 DEF entryVars
<1>8. ASSUME NEW d \in Steers, NEW r \in Runs, LookUpInbox(d, r) PROVE EntriesTyped'
  <2>1. registered[session[r]] \in Runs \cup {NoRun}
    BY <1>1 DEF IndInv, ScopeTyped, Operations
  <2>2. PICK i \in Runs \cup {NoRun}, st \in SteerStates :
          steer' = [steer EXCEPT ![d] = [state |-> st, run |-> r, inbox |-> i]]
    BY <1>8, <2>1 DEF LookUpInbox, SteerStates
  <2>3. steer' \in [Steers -> [state : SteerStates, run : Runs \cup {NoRun},
                               inbox : Runs \cup {NoRun}]]
    BY <2>2
  <2> QED
    BY <1>8, <2>3 DEF LookUpInbox, entryVars
<1>9. ASSUME NEW n \in Notices, SaveAgentCompletion(n) \/ ReadLeaf(n) \/ AppendSessionInfo(n)
      PROVE  EntriesTyped'
  <2>1. session[n] \in Sessions
    BY DEF IndInv, ScopeTyped
  <2>2. CASE SaveAgentCompletion(n)
    BY <2>1, <2>2 DEF SaveAgentCompletion, NoticeStates
  <2>3. CASE ReadLeaf(n)
    BY <2>1, <2>3 DEF ReadLeaf, NoticeStates
  <2>4. CASE AppendSessionInfo(n)
    BY <2>1, <2>4 DEF AppendSessionInfo, NoticeStates
  <2> QED
    BY <1>9, <2>2, <2>3, <2>4
<1>10. ASSUME UNCHANGED vars PROVE EntriesTyped'
  BY <1>10 DEF vars, entryVars
<1> QED
  BY <1>3, <1>4, <1>5, <1>6, <1>7, <1>8, <1>9, <1>10 DEF Next, Done

\* A step of a run.
LEMMA RunStepKeeps ==
    ASSUME IndInv, SteerInv, EntriesTyped', NEW r \in Runs, RunStep(r)
    PROVE  SteerInv'
<1>1. StepSound(r)
  BY RunStepSound
<1>2. ASSUME NEW q \in Runs PROVE RunOK(q)'
  <2>1. CASE q = r
    BY <1>1, <2>1 DEF StepSound
  <2>2. CASE q # r
    <3>1. /\ pc'[q] = pc[q] /\ session' = session
          /\ pc[q] \in Open => registered'[session[q]] = registered[session[q]]
      BY <2>2, RegistrationKept
    <3>2. run'[q] = run[q] /\ drafts'[q] = drafts[q] /\ closed'[q] = closed[q]
      BY <1>1, <2>2 DEF StepSound
    <3>3. RunSound(q, run[q], drafts[q], closed[q], pc[q], registered[session[q]])
      BY DEF SteerInv, RunOK
    <3>4. RunSound(q, run[q], drafts[q], closed[q], pc[q], registered'[session[q]])
      BY <3>1, <3>3, ElsewhereSound
    <3> QED
      BY <3>1, <3>2, <3>4 DEF RunOK
  <2> QED
    BY <2>1, <2>2
<1>3. FoundOpen'
  <2>1. steer' = steer
    BY DEF RunStep, AppendUserEntry, Register, RespondToSlashCommand, UseCachedResponse,
         PrepareRequest, TextRound, ToolRound, PersistPendingRound, PersistSteeringDraft,
         FailRequest, RetryRequest, RecoverOverflow, Complete, PersistAnswer, PersistFailure,
         CloseRegistration, ReturnSteering, EndTurn
  <2>2. \A i \in Runs :
          pc[i] \in Reachable \/ closed[i] => pc'[i] \in Reachable \/ closed'[i]
    <3> SUFFICES ASSUME NEW i \in Runs, pc[i] \in Reachable \/ closed[i]
                 PROVE  pc'[i] \in Reachable \/ closed'[i]
      OBVIOUS
    <3>1. CASE i = r
      BY <1>1, <3>1 DEF StepSound
    <3>2. CASE i # r
      BY <1>1, <3>2, RegistrationKept DEF StepSound
    <3> QED
      BY <3>1, <3>2
  <2> QED
    BY <2>1, <2>2 DEF SteerInv, FoundOpen, Reachable
<1>4. /\ run' \in [Runs -> RunRecord] /\ drafts' \in [Runs -> Seq(Steers)]
      /\ closed' \in [Runs -> BOOLEAN]
  BY <1>1 DEF StepSound
<1> QED
  BY <1>2, <1>3, <1>4 DEF SteerInv

\* A step of an operation at its session's door.
LEMMA DoorStepKeeps ==
    ASSUME IndInv, SteerInv, EntriesTyped', NEW o \in Operations,
           Acquire(o) \/ Enter(o) \/ GiveUp(o) \/ ResolveParent(o) \/ Release(o) \/ Leave(o)
    PROVE  SteerInv'
<1>1. drafts' = drafts /\ closed' = closed /\ registered' = registered /\ session' = session
      /\ steer' = steer
  BY DEF Acquire, Enter, GiveUp, ResolveParent, Release, Leave, inboxVars
<1>2. /\ \A p \in Operations : p # o => pc'[p] = pc[p]
      /\ \/ pc[o] = "idle" /\ pc'[o] = "waiting"
         \/ pc[o] = "waiting" /\ pc'[o] \in {"entering", "done"}
         \/ pc[o] = "entering" /\ pc'[o] = "prompting" /\ o \in Runs
         \/ pc[o] = "entering" /\ pc'[o] = "compacting" /\ o \notin Runs
         \/ pc[o] = "entering" /\ pc'[o] = "releasing"
         \/ pc[o] = "releasing" /\ pc'[o] = "leaving"
         \/ pc[o] = "leaving" /\ pc'[o] = "done"
  BY DEF Acquire, Enter, GiveUp, ResolveParent, Release, Leave, Goes, IndInv, ScopeTyped
<1>3. /\ run' \in [Runs -> RunRecord]
      /\ \A q \in Runs : run'[q] = IF q = o /\ pc[o] = "leaving" THEN FreshRun ELSE run[q]
  <2>1. CASE Leave(o)
    BY <2>1, FreshRunSound DEF Leave, Goes, SteerInv
  <2>2. CASE Acquire(o) \/ Enter(o) \/ GiveUp(o) \/ ResolveParent(o) \/ Release(o)
    <3>1. run' = run /\ pc[o] # "leaving"
      BY <2>2 DEF Acquire, Enter, GiveUp, ResolveParent, Release, Goes
    <3> QED
      BY <3>1 DEF SteerInv
  <2> QED
    BY <2>1, <2>2
<1>4. ASSUME NEW q \in Runs PROVE RunOK(q)'
  <2>1. PICK v \in RunRecord, d \in Seq(Steers), c \in BOOLEAN, u \in Runs \cup {NoRun} :
          /\ v = run[q] /\ d = drafts[q] /\ c = closed[q] /\ u = registered[session[q]]
          /\ RunSound(q, v, d, c, pc[q], u)
    BY RunState
  <2>2. Staged(q, v, d, c, pc[q], u) /\ q \in Operations
    BY <2>1 DEF RunSound, Operations
  <2>3. CASE q # o
    <3>1. pc'[q] = pc[q] /\ run'[q] = v
      BY <1>2, <1>3, <2>1, <2>2, <2>3
    <3> QED
      BY <1>1, <2>1, <3>1 DEF RunOK
  <2>4. CASE q = o /\ pc[o] = "leaving"
    <3>1. d = <<>>
      BY <2>2, <2>4 DEF Staged, Ended
    <3>2. Staged(q, FreshRun, d, c, "done", u)
      BY <3>1 DEF Staged, Unopened, Ended, Open, FreshRun
    <3>3. Typed(FreshRun, d, c)
      <4>1. FreshRun.pending = <<>> /\ DOMAIN FreshRun.pending = {}
        BY EmptySeq DEF FreshRun
      <4> QED
        BY <2>1, <4>1, FreshRunSound DEF RunSound, Typed
    <3>4. RunSound(q, FreshRun, d, c, "done", u)
      BY <3>1, <3>2, <3>3, FreshRunSound DEF RunSound
    <3>5. pc'[q] = "done" /\ run'[q] = FreshRun
      BY <1>2, <1>3, <2>4
    <3> QED
      BY <1>1, <2>1, <3>4, <3>5 DEF RunOK
  <2>5. CASE q = o /\ pc[o] # "leaving"
    <3>1. run'[q] = v
      BY <1>3, <2>1, <2>5
    <3>2. PICK from, to :
            /\ from = pc[q] /\ to = pc'[q]
            /\ \/ from = "idle" /\ to = "waiting"
               \/ from = "waiting" /\ to \in {"entering", "done"}
               \/ from = "entering" /\ to \in {"prompting", "releasing"}
               \/ from = "releasing" /\ to = "leaving"
      BY <1>2, <2>5
    <3>3. Staged(q, v, d, c, to, u)
      BY <2>2, <3>2 DEF Staged, Unopened, Ended, Open, FreshRun
    <3>4. RunSound(q, v, d, c, to, u)
      BY <2>1, <3>3 DEF RunSound
    <3> QED
      BY <1>1, <2>1, <3>1, <3>2, <3>4 DEF RunOK
  <2> QED
    BY <2>3, <2>4, <2>5
<1>5. FoundOpen'
  <2>1. \A i \in Runs :
          pc[i] \in Reachable \/ closed[i] => pc'[i] \in Reachable \/ closed'[i]
    BY <1>1, <1>2 DEF Reachable, Open, Operations
  <2> QED
    BY <1>1, <2>1 DEF SteerInv, FoundOpen, Reachable
<1> QED
  BY <1>1, <1>3, <1>4, <1>5 DEF SteerInv

\* What did not fit does not fit behind one more message.
LEMMA StillFull == \A l, n, k \in Nat : l + n > k => l + (n + 1) > k
  OBVIOUS

\* What Runtime.Steer appends, it appends to an inbox that has not given anything back yet.
LEMMA AcceptedSound ==
    ASSUME NEW i \in Runs, NEW o \in Runs \cup {NoRun}, NEW v \in RunRecord,
           NEW d \in Seq(Steers), NEW c \in BOOLEAN, NEW p \in Reachable,
           RunSound(i, v, d, c, p, o), ~c, Len(d) < Capacity, NEW m \in Steers,
           NEW w \in RunRecord, w.accepted = Append(v.accepted, m),
           w.hand = v.hand, w.rounds = v.rounds, w.pending = v.pending, w.talk = v.talk,
           w.kept = v.kept, w.lost = v.lost, w.returned = v.returned
    PROVE  Append(d, m) \in Seq(Steers) /\ RunSound(i, w, Append(d, m), c, p, o)
<1>1. Staged(i, v, d, c, p, o) /\ Typed(v, d, c) /\ Mirrored(v)
  BY DEF RunSound
<1>2. /\ Append(d, m) \in Seq(Steers) /\ Len(Append(d, m)) = Len(d) + 1
      /\ Len(d) \in Nat /\ Len(v.lost) \in Nat /\ Capacity \in Nat
  <2>1. v.lost \in Seq(Steers)
    BY DEF RunRecord
  <2> QED
    BY <2>1, AppendProperties, LenProperties, InboxAssumption
<1>3. v.returned = <<>> /\ w.returned = <<>>
  BY <1>1 DEF Staged, Ended, Reachable, Open
<1>4. d \o v.returned = d /\ Append(d, m) \o w.returned = Append(d, m)
  BY <1>2, <1>3, ConcatEmptySeq
<1>5. v.lost # <<>> => Len(w.lost) + Len(Append(d, m) \o w.returned) > Capacity
  <2>1. v.lost # <<>> => Len(v.lost) + Len(d) > Capacity
    BY <1>1, <1>4 DEF Staged
  <2>2. PICK l \in Nat, n \in Nat, k \in Nat :
          l = Len(v.lost) /\ n = Len(d) /\ k = Capacity /\ Len(Append(d, m)) = n + 1
    BY <1>2
  <2>3. l + n > k => l + (n + 1) > k
    BY StillFull
  <2>4. v.lost # <<>> => l + n > k
    BY <2>1, <2>2
  <2>5. v.lost # <<>> => l + (n + 1) > k
    BY <2>3, <2>4
  <2> QED
    BY <1>4, <2>2, <2>5
<1>6. Staged(i, w, Append(d, m), c, p, o)
  <2>1. p \notin Unopened /\ p \notin Ended
    BY DEF Reachable, Open, Unopened, Ended
  <2> QED
    BY <1>1, <1>3, <1>5, <2>1 DEF Staged
<1>7. Typed(w, Append(d, m), c) /\ Mirrored(w)
  <2>1. Len(Append(d, m)) <= Capacity
    BY <1>2
  <2>2. \A n \in DOMAIN w.pending : w.pending[n] \in 1..w.rounds
    BY <1>1 DEF Typed
  <2>3. Mirrored(w)
    BY <1>1 DEF Mirrored
  <2> QED
    BY <1>2, <2>1, <2>2, <2>3 DEF Typed
<1>8. OrderOf(w.kept, w.accepted, Queue(w, Append(d, m)))
  <2>1. Queue(v, d) = v.hand \o v.lost \o d /\ Queue(v, d) \in Seq(Steers)
    <3>1. v.hand \o v.lost \in Seq(Steers)
      BY ConcatProperties DEF RunRecord
    <3>2. v.hand \o v.lost \o d \in Seq(Steers)
      BY <3>1, ConcatProperties
    <3> QED
      BY <1>3, <3>2, ConcatEmptySeq DEF Queue
  <2>2. Queue(w, Append(d, m)) = Append(Queue(v, d), m)
    <3>1. PICK h \in Seq(Steers) : h = v.hand \o v.lost
      BY ConcatProperties DEF RunRecord
    <3>2. /\ h \o Append(d, m) \in Seq(Steers) /\ h \o d \in Seq(Steers)
          /\ <<m>> \in Seq(Steers)
      BY <1>2, ConcatProperties
    <3>3. h \o Append(d, m) = Append(h \o d, m)
      <4>1. Append(d, m) = d \o <<m>> /\ Append(h \o d, m) = (h \o d) \o <<m>>
        BY <3>2, AppendIsConcat
      <4>2. (h \o d) \o <<m>> = h \o (d \o <<m>>)
        BY <3>2, ConcatAssociative
      <4> QED
        BY <4>1, <4>2
    <3>4. Queue(w, Append(d, m)) = h \o Append(d, m)
      BY <1>3, <3>1, <3>2, ConcatEmptySeq DEF Queue
    <3> QED
      BY <2>1, <3>1, <3>3, <3>4
  <2>3. v.kept \in Seq(Items) /\ v.accepted \in Seq(Steers)
    BY DEF RunRecord
  <2>4. OrderOf(v.kept, v.accepted, Queue(v, d))
    BY DEF RunSound
  <2> QED
    BY <2>1, <2>2, <2>3, <2>4, OrderAccepted
<1> QED
  BY <1>2, <1>6, <1>7, <1>8 DEF RunSound

\* A message enters the inbox of an open run, or is refused.
LEMMA AcceptKeeps ==
    ASSUME IndInv, SteerInv, EntriesTyped', NEW m \in Steers, AcceptSteer(m)
    PROVE  SteerInv'
<1> DEFINE i == steer[m].inbox
<1>1. pc' = pc /\ session' = session /\ registered' = registered /\ closed' = closed
  BY DEF AcceptSteer, accept, slotVars, inboxVars
<1>2. i \in Runs /\ (pc[i] \in Reachable \/ closed[i])
  BY DEF AcceptSteer, SteerInv, FoundOpen, Reachable
<1>3. FoundOpen'
  <2>1. \A n \in Steers : steer'[n].state = "found" =>
          steer[n].state = "found" /\ steer'[n].inbox = steer[n].inbox
    <3>1. PICK st \in {"accepted", "refused"} : steer' = [steer EXCEPT ![m].state = st]
      BY DEF AcceptSteer
    <3> QED
      BY <3>1 DEF SteerInv, EntriesTyped
  <2> QED
    BY <1>1, <2>1 DEF SteerInv, FoundOpen
<1>4. CASE UNCHANGED <<inboxVars, run>>
  <2>1. drafts' = drafts /\ run' = run
    BY <1>4 DEF inboxVars
  <2> QED
    BY <1>1, <1>3, <2>1 DEF SteerInv, RunOK
<1>5. CASE /\ accepts(i, steer[m].run) /\ accept(i, m)
           /\ run' = [run EXCEPT ![i].accepted = Append(@, m)]
  <2>1. PICK j \in Runs : j = i
    BY <1>2
  <2>2. PICK v \in RunRecord, d \in Seq(Steers), c \in BOOLEAN, o \in Runs \cup {NoRun} :
          /\ v = run[j] /\ d = drafts[j] /\ c = closed[j] /\ o = registered[session[j]]
          /\ run = [run EXCEPT ![j] = v] /\ drafts = [drafts EXCEPT ![j] = d]
          /\ closed = [closed EXCEPT ![j] = c]
          /\ RunSound(j, v, d, c, pc[j], o)
    BY RunState
  <2>3. ~c /\ Len(d) < Capacity /\ pc[j] \in Reachable
    BY <1>2, <1>5, <2>1, <2>2 DEF accepts
  <2>4. Append(v.accepted, m) \in Seq(Steers)
    <3>1. v.accepted \in Seq(Steers)
      BY DEF RunRecord
    <3> QED
      BY <3>1, AppendProperties
  <2>5. PICK w \in RunRecord : w = [v EXCEPT !.accepted = Append(v.accepted, m)]
    BY <2>4 DEF RunRecord
  <2>6. /\ w.accepted = Append(v.accepted, m)
        /\ w.hand = v.hand /\ w.rounds = v.rounds /\ w.pending = v.pending /\ w.talk = v.talk
        /\ w.kept = v.kept /\ w.lost = v.lost /\ w.returned = v.returned
    BY <2>5 DEF RunRecord
  <2>7. PICK p \in Reachable : p = pc[j]
    BY <2>3
  <2>8. Append(d, m) \in Seq(Steers) /\ RunSound(j, w, Append(d, m), c, p, o)
    <3>1. RunSound(j, v, d, c, p, o)
      BY <2>2, <2>7
    <3> QED
      BY <2>3, <2>6, <3>1, AcceptedSound
  <2>9. run' = [run EXCEPT ![j] = w]
    <3>1. run'[j] = w /\ DOMAIN run' = Runs /\ \A q \in Runs \ {j} : run'[q] = run[q]
      BY <1>5, <2>1, <2>2, <2>5 DEF SteerInv, RunRecord
    <3>2. run' = [q \in Runs |-> run'[q]]
      BY <1>5 DEF SteerInv
    <3> QED
      BY <3>1, <3>2 DEF SteerInv
  <2>10. drafts' = [drafts EXCEPT ![j] = Append(d, m)]
    BY <1>5, <2>1, <2>2 DEF accept
  <2>11. run' \in [Runs -> RunRecord] /\ drafts' \in [Runs -> Seq(Steers)]
    BY <2>8, <2>9, <2>10 DEF SteerInv
  <2>12. ASSUME NEW q \in Runs PROVE RunOK(q)'
    <3>1. CASE q = j
      <4>1. run'[q] = w /\ drafts'[q] = Append(d, m)
        BY <2>9, <2>10, <3>1 DEF SteerInv
      <4> QED
        BY <1>1, <2>2, <2>7, <2>8, <3>1, <4>1 DEF RunOK
    <3>2. CASE q # j
      <4>1. run'[q] = run[q] /\ drafts'[q] = drafts[q] /\ RunOK(q)
        BY <2>9, <2>10, <3>2 DEF SteerInv
      <4> QED
        BY <1>1, <4>1 DEF RunOK
    <3> QED
      BY <3>1, <3>2
  <2> QED
    BY <1>1, <1>3, <2>11, <2>12 DEF SteerInv
<1> QED
  BY <1>4, <1>5 DEF AcceptSteer

\* Steer finds an inbox, which may close before it accepts.
LEMMA LookUpKeeps ==
    ASSUME IndInv, SteerInv, EntriesTyped', NEW m \in Steers, NEW r \in Runs, LookUpInbox(m, r)
    PROVE  SteerInv'
<1>1. /\ pc' = pc /\ session' = session /\ registered' = registered /\ closed' = closed
      /\ drafts' = drafts /\ run' = run
  BY DEF LookUpInbox, inboxVars
<1>2. \A q \in Runs : RunOK(q)'
  BY <1>1 DEF SteerInv, RunOK
<1>3. FoundOpen'
  <2>1. session[r] \in Sessions /\ registered[session[r]] \in Runs \cup {NoRun}
    BY DEF IndInv, ScopeTyped, Operations
  <2>2. registered[session[r]] # NoRun =>
          registered[session[r]] \in Runs /\ pc[registered[session[r]]] \in Open
    BY <2>1 DEF IndInv, InboxSound
  <2>3. \A n \in Steers : steer'[n].state = "found" =>
          \/ n # m /\ steer'[n] = steer[n]
          \/ steer'[n].inbox = registered[session[r]] /\ registered[session[r]] # NoRun
    BY DEF LookUpInbox, SteerInv, EntriesTyped
  <2> QED
    BY <1>1, <2>2, <2>3 DEF SteerInv, FoundOpen
<1> QED
  BY <1>1, <1>2, <1>3 DEF SteerInv

\* Steps that leave the runs and their inboxes alone.
LEMMA OthersKeep ==
    ASSUME SteerInv, EntriesTyped', \A q \in Runs : pc'[q] = pc[q],
           UNCHANGED <<session, registered, drafts, closed, run, steer>>
    PROVE  SteerInv'
<1>1. \A q \in Runs : RunOK(q)'
  BY DEF SteerInv, RunOK
<1>2. FoundOpen'
  BY DEF SteerInv, FoundOpen
<1> QED
  BY <1>1, <1>2 DEF SteerInv

\* Fresh runs and no messages satisfy the invariant.
LEMMA SteerInvInit == Init => SteerInv
<1> SUFFICES ASSUME Init PROVE SteerInv
  OBVIOUS
<1>1. EntriesTyped /\ FoundOpen
  BY DEF Init, EntriesTyped, FoundOpen, NoticeStates, SteerStates
<1>2. /\ run \in [Runs -> RunRecord] /\ drafts \in [Runs -> Seq(Steers)]
      /\ closed \in [Runs -> BOOLEAN]
  BY FreshRunSound, EmptySeq DEF Init, InboxInit
<1>3. ASSUME NEW r \in Runs PROVE RunOK(r)
  <2>1. /\ run[r] = FreshRun /\ drafts[r] = <<>> /\ closed[r] = FALSE /\ pc[r] = "idle"
        /\ session[r] \in Sessions /\ registered[session[r]] = NoRun
    BY DEF Init, InboxInit, Operations
  <2>2. Typed(FreshRun, <<>>, FALSE)
    <3>1. FreshRun.pending = <<>> /\ DOMAIN FreshRun.pending = {}
      BY EmptySeq DEF FreshRun
    <3> QED
      BY <3>1, FreshRunSound, EmptySeq, InboxAssumption DEF Typed
  <2>3. Staged(r, FreshRun, <<>>, FALSE, "idle", NoRun)
    BY DEF Staged, Unopened, Ended, Open, FreshRun
  <2> QED
    BY <2>1, <2>2, <2>3, FreshRunSound DEF RunOK, RunSound
<1> QED
  BY <1>1, <1>2, <1>3 DEF SteerInv

\* Every step of a run, of a sender and of the coordinator keeps the invariant.
LEMMA SteerInvNext == IndInv /\ SteerInv /\ [Next]_vars => SteerInv'
<1> SUFFICES ASSUME IndInv, SteerInv, [Next]_vars PROVE SteerInv'
  OBVIOUS
<1>1. EntriesTyped'
  BY EntriesKept DEF SteerInv
<1>2. ASSUME NEW o \in Operations,
             Acquire(o) \/ Enter(o) \/ GiveUp(o) \/ ResolveParent(o) \/ Release(o) \/ Leave(o)
      PROVE  SteerInv'
  BY <1>1, <1>2, DoorStepKeeps
<1>3. ASSUME NEW o \in Compactions, CompactSession(o) PROVE SteerInv'
  <2>1. o \in Operations /\ o \notin Runs
    BY OperationAssumption DEF Operations
  <2>2. /\ \A q \in Runs : pc'[q] = pc[q]
        /\ UNCHANGED <<session, registered, drafts, closed, run, steer>>
    BY <1>3, <2>1 DEF CompactSession, Goes, inboxVars, IndInv, ScopeTyped, Operations
  <2> QED
    BY <1>1, <2>2, OthersKeep
<1>4. ASSUME NEW r \in Runs, RunStep(r) PROVE SteerInv'
  BY <1>1, <1>4, RunStepKeeps
<1>5. ASSUME NEW d \in Steers, AcceptSteer(d) PROVE SteerInv'
  BY <1>1, <1>5, AcceptKeeps
<1>6. ASSUME NEW d \in Steers, NEW r \in Runs, LookUpInbox(d, r) PROVE SteerInv'
  BY <1>1, <1>6, LookUpKeeps
<1>7. ASSUME NEW n \in Notices, SaveAgentCompletion(n) \/ ReadLeaf(n) \/ AppendSessionInfo(n)
      PROVE  SteerInv'
  <2>1. pc' = pc /\ UNCHANGED <<session, registered, drafts, closed, run, steer>>
    BY <1>7 DEF SaveAgentCompletion, ReadLeaf, AppendSessionInfo, inboxVars
  <2> QED
    BY <1>1, <2>1, OthersKeep
<1>8. ASSUME UNCHANGED vars PROVE SteerInv'
  <2>1. pc' = pc /\ UNCHANGED <<session, registered, drafts, closed, run, steer>>
    BY <1>8 DEF vars, inboxVars
  <2> QED
    BY <1>1, <2>1, OthersKeep
<1> QED
  BY <1>2, <1>3, <1>4, <1>5, <1>6, <1>7, <1>8 DEF Next, Done

\* Every reachable state satisfies what the runs, their inboxes and the requests maintain
\* on top of the coordinator's invariant.
THEOREM SteeringInvariance == Spec => [](IndInv /\ SteerInv)
<1>1. Init => IndInv /\ SteerInv
  BY IndInvInit, SteerInvInit
<1>2. (IndInv /\ SteerInv) /\ [Next]_vars => (IndInv /\ SteerInv)'
  BY IndInvNext, SteerInvNext
<1> QED
  BY <1>1, <1>2, PTL DEF Spec

--------------------------------------------------------------------------------
(* What the runs check, from the invariant. *)

\* A run's accepted messages are stored, on their way or returned, each once and in the order
\* of acceptance; only a full inbox loses any (inbox.accept, drain, restore and close).
THEOREM SteersKeepOrder == Spec => []SteersInOrder
<1>1. SteerInv => SteersInOrder
  <2> SUFFICES ASSUME SteerInv, NEW r \in Runs
               PROVE  LET kept == run[r].kept
                          consumed == SteersAmong(kept, Len(kept))
                      IN  /\ Len(run[r].accepted) = consumed + Len(Unstored(r))
                          /\ \A i \in DOMAIN kept : kept[i].kind = "steer" =>
                                 kept[i].id = run[r].accepted[SteersAmong(kept, i)]
                          /\ \A i \in DOMAIN Unstored(r) :
                                 Unstored(r)[i] = run[r].accepted[consumed + i]
                          /\ run[r].lost # <<>> =>
                               Len(run[r].lost) + Len(drafts[r] \o run[r].returned) > Capacity
                          /\ pc[r] \in {"ending", "releasing", "leaving"} => drafts[r] = <<>>
    BY DEF SteersInOrder
  <2>1. RunOK(r)
    BY DEF SteerInv
  <2>2. OrderOf(run[r].kept, run[r].accepted, Unstored(r))
    BY <2>1 DEF RunOK, RunSound, Queue, Unstored
  <2>3. /\ run[r].lost # <<>> =>
             Len(run[r].lost) + Len(drafts[r] \o run[r].returned) > Capacity
        /\ pc[r] \in {"ending", "releasing", "leaving"} => drafts[r] = <<>>
    BY <2>1 DEF RunOK, RunSound, Staged, Ended
  <2> QED
    BY <2>2, <2>3 DEF OrderOf
<1> QED
  BY <1>1, SteeringInvariance, PTL

\* Exposed(r), for the attempt's conversation.
ShownOf(talk) ==
    LET steered == {i \in DOMAIN talk : talk[i].kind = "steer"}
        last == CHOOSE i \in steered : \A j \in steered : j <= i
    IN  IF steered = {} THEN <<>> ELSE SubSeq(talk, 1, last)

\* An aligned conversation shows no more than the end of what is kept, when that ends with a
\* steering message.
LEMMA ShownIsKept ==
    ASSUME NEW kept \in Seq(Items), NEW pending \in Seq(Nat), NEW talk \in Seq(Items),
           NEW z \in Nat, AlignedAt(kept, pending, talk, z),
           kept # <<>> => kept[Len(kept)].kind = "steer"
    PROVE  /\ Len(ShownOf(talk)) <= Len(kept)
           /\ SubSeq(kept, Len(kept) - Len(ShownOf(talk)) + 1, Len(kept)) = ShownOf(talk)
<1> DEFINE k == Len(kept)
           p == Len(pending)
           t == Len(talk)
           steered == {i \in DOMAIN talk : talk[i].kind = "steer"}
           last == CHOOSE i \in steered : \A j \in steered : j <= i
<1>1. /\ k \in Nat /\ p \in Nat /\ t \in Nat /\ DOMAIN talk = 1..t
      /\ \A i \in 1..k : kept[i] \in Items
      /\ \A i \in 1..t : talk[i] \in Items
  BY LenProperties, ElementOfSeq
<1>2. /\ z + t = k + p
      /\ \A i \in 1..t : z + i <= k => talk[i] = kept[z + i]
      /\ \A i \in 1..t : z + i > k => talk[i].kind # "steer"
  <2>1. \A i \in 1..t : z + i > k => talk[i] = Round(pending[z + i - k])
    BY DEF AlignedAt
  <2>2. \A i \in 1..t : z + i > k => talk[i].kind # "steer"
    <3>1. \A n : Round(n).kind # "steer"
      BY DEF Round
    <3> QED
      BY <2>1, <3>1
  <2> QED
    BY <2>2 DEF AlignedAt
<1>3. CASE steered = {}
  <2>1. ShownOf(talk) = <<>> /\ Len(<<>>) = 0
    BY <1>3, EmptySeq DEF ShownOf
  <2>2. SubSeq(kept, k + 1, k) = <<>>
    BY <1>1, SubSeqEmpty
  <2> QED
    BY <1>1, <2>1, <2>2
<1>4. CASE steered # {}
  <2>1. PICK i \in 1..t : talk[i].kind = "steer"
    BY <1>1, <1>4
  <2>2. k - z \in 1..t /\ z + (k - z) = k /\ k # 0
    <3>1. z + i <= k
      BY <1>1, <1>2, <2>1
    <3> HIDE DEF k, p, t
    <3> QED
      BY <1>1, <1>2, <3>1
  <2>3. kept # <<>>
    BY <2>2, EmptySeq
  <2>4. talk[k - z].kind = "steer"
    BY <1>1, <1>2, <2>2, <2>3
  <2>5. k - z \in steered /\ \A j \in steered : j <= k - z
    <3>1. \A j \in 1..t : talk[j].kind = "steer" => j <= k - z
      <4> SUFFICES ASSUME NEW j \in 1..t, talk[j].kind = "steer" PROVE j <= k - z
        OBVIOUS
      <4>1. z + j <= k
        BY <1>1, <1>2
      <4> HIDE DEF k, p, t
      <4> QED
        BY <1>1, <4>1
    <3> QED
      BY <1>1, <2>2, <2>4, <3>1
  <2>6. last = k - z
    <3>1. steered \subseteq Int
      BY <1>1
    <3>2. last \in steered /\ \A j \in steered : j <= last
      BY <2>5
    <3>3. last <= k - z /\ k - z <= last
      BY <2>5, <3>2
    <3>4. last \in Int /\ k - z \in Int
      BY <2>2, <3>1, <3>2
    <3> HIDE DEF last, k
    <3> QED
      BY <3>3, <3>4
  <2>7. ShownOf(talk) = SubSeq(talk, 1, k - z)
    BY <1>4, <2>6 DEF ShownOf
  <2>8. PICK l \in Nat : l = k - z /\ l <= t /\ l <= k /\ k - l + 1 = z + 1 /\ l >= 1
    <3> HIDE DEF k, p, t
    <3> QED
      BY <1>1, <2>2
  <2>9. /\ SubSeq(talk, 1, l) \in Seq(Items) /\ Len(SubSeq(talk, 1, l)) = l
        /\ \A j \in 1..l : SubSeq(talk, 1, l)[j] = talk[j]
    <3>1. \A j \in 1..l : talk[j] \in Items
      BY <1>1, <2>8
    <3>2. /\ SubSeq(talk, 1, l) \in Seq(Items)
          /\ Len(SubSeq(talk, 1, l)) = IF 1 <= l THEN l - 1 + 1 ELSE 0
          /\ \A j \in 1..(l - 1 + 1) : SubSeq(talk, 1, l)[j] = talk[1 + j - 1]
      BY <3>1, SubSeqProperties
    <3> QED
      BY <2>8, <3>2
  <2>10. /\ SubSeq(kept, z + 1, k) \in Seq(Items) /\ Len(SubSeq(kept, z + 1, k)) = l
         /\ \A j \in 1..l : SubSeq(kept, z + 1, k)[j] = kept[z + j]
    <3>1. \A j \in (z + 1)..k : kept[j] \in Items
      BY <1>1
    <3>2. /\ SubSeq(kept, z + 1, k) \in Seq(Items)
          /\ Len(SubSeq(kept, z + 1, k)) = IF z + 1 <= k THEN k - (z + 1) + 1 ELSE 0
          /\ \A j \in 1..(k - (z + 1) + 1) : SubSeq(kept, z + 1, k)[j] = kept[(z + 1) + j - 1]
      BY <1>1, <3>1, SubSeqProperties
    <3> HIDE DEF k
    <3>3. z + 1 <= k /\ k - (z + 1) + 1 = l /\ \A j \in 1..l : (z + 1) + j - 1 = z + j
      BY <1>1, <2>8
    <3> QED
      BY <3>2, <3>3
  <2>11. \A j \in 1..l : talk[j] = kept[z + j]
    <3> SUFFICES ASSUME NEW j \in 1..l PROVE j \in 1..t /\ z + j <= k
      BY <1>2
    <3> HIDE DEF k, t
    <3> QED
      BY <1>1, <2>8
  <2>12. SubSeq(kept, z + 1, k) = SubSeq(talk, 1, l)
    BY <2>9, <2>10, <2>11, SeqEqual
  <2> QED
    BY <2>7, <2>8, <2>9, <2>12
<1> QED
  BY <1>3, <1>4

\* What the runs keep of the types, from the invariant.
LEMMA SteerInvTyped == IndInv /\ SteerInv => TypeOK
<1> SUFFICES ASSUME IndInv, SteerInv PROVE TypeOK
  OBVIOUS
<1>1. SlotTypeOK /\ InboxTypeOK /\ pc \in [Operations -> States]
      /\ session \in [Operations \cup Notices -> Sessions]
  BY DEF IndInv, ScopeTyped, SteerInv, InboxTypeOK
<1>2. ASSUME NEW r \in Runs PROVE RunTypeOK(r) /\ Len(drafts[r]) <= Capacity
  <2>1. Typed(run[r], drafts[r], closed[r]) /\ run[r] \in RunRecord
    BY DEF SteerInv, RunOK, RunSound
  <2>2. run[r].pending \in Seq(1..run[r].rounds)
    <3>1. PICK s \in Seq(Nat), n \in Nat : s = run[r].pending /\ n = run[r].rounds
      BY <2>1 DEF RunRecord
    <3>2. Len(s) \in Nat /\ s \in [1..Len(s) -> 1..n]
      <4>1. Len(s) \in Nat /\ s \in [1..Len(s) -> Nat] /\ DOMAIN s = 1..Len(s)
        BY LenProperties
      <4> QED
        BY <2>1, <3>1, <4>1 DEF Typed
    <3>3. s \in Seq(1..n)
      BY <3>2
    <3> QED
      BY <3>1, <3>3
  <2> QED
    BY <2>1, <2>2 DEF Typed, RunTypeOK, RunRecord
<1> QED
  BY <1>1, <1>2 DEF TypeOK, SteerInv, EntriesTyped

\* What a provider is shown of a turn, through retries and steers, is stored before it is
\* shown (roundCheckpoint, persistPendingRounds, persistSteeringDrafts).
THEOREM ShownIsDurable == Spec => []CheckpointsSound
<1>1. IndInv /\ SteerInv => ExposedIsDurable
  <2> SUFFICES ASSUME IndInv, SteerInv, NEW r \in Runs, pc[r] = "calling"
               PROVE  /\ Len(Exposed(r)) <= Len(run[r].kept)
                      /\ SubSeq(run[r].kept, Len(run[r].kept) - Len(Exposed(r)) + 1,
                                Len(run[r].kept)) = Exposed(r)
    BY DEF ExposedIsDurable
  <2>1. run[r] \in RunRecord /\ Mirrored(run[r])
        /\ Staged(r, run[r], drafts[r], closed[r], "calling", registered[session[r]])
    BY DEF SteerInv, RunOK, RunSound
  <2>2. PICK z \in Nat : AlignedAt(run[r].kept, run[r].pending, run[r].talk, z)
    BY <2>1 DEF Mirrored
  <2>3. run[r].kept # <<>> => run[r].kept[Len(run[r].kept)].kind = "steer"
    BY <2>1 DEF Staged
  <2>4. PICK kept \in Seq(Items), pending \in Seq(Nat), talk \in Seq(Items) :
          kept = run[r].kept /\ pending = run[r].pending /\ talk = run[r].talk
    BY <2>1 DEF RunRecord
  <2>5. Exposed(r) = ShownOf(talk)
    BY <2>4 DEF Exposed, ShownOf
  <2>6. /\ Len(ShownOf(talk)) <= Len(kept)
        /\ SubSeq(kept, Len(kept) - Len(ShownOf(talk)) + 1, Len(kept)) = ShownOf(talk)
    BY <2>2, <2>3, <2>4, ShownIsKept
  <2> QED
    BY <2>4, <2>5, <2>6
<1>2. IndInv /\ SteerInv => CheckpointsSound
  BY <1>1, SteerInvTyped DEF CheckpointsSound
<1> QED
  BY <1>2, SteeringInvariance, PTL
================================================================================
