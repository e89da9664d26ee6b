----------------------------- MODULE ServicesProofs -----------------------------
(***************************************************************************)
(* Safety of the components that run by themselves: transactions over a pool   *)
(* of connections, the waiters of a background tool call, the terminal that     *)
(* follows background work, and the host of extensions with what the terminal   *)
(* applies of their events, for any callers, connections, tasks, runs and files. *)
(***************************************************************************)
EXTENDS ToolWaits, Transactions, TerminalRefresh, ExtensionHost, WellFoundedInduction,
        FiniteSetTheorems, TLAPS

TxSpec == TxInit /\ [][TxNext]_txVars
WaitSpec == WaitInit /\ [][WaitNext]_twVars

ExtensionsNext ==
    \/ HostNext /\ UNCHANGED exVars
    \/ ExtensionNext /\ UNCHANGED xVars
ExtensionsSpec == HostInit /\ ExtensionInit /\ [][ExtensionsNext]_<<xVars, exVars>>

--------------------------------------------------------------------------------
(* Transactions.  A caller owns its connection from acquireConn to             *)
(* cleanupTransaction; what it has applied is decided by commitTx and looked at  *)
(* again only when the attempt is judged.                                      *)

Causes == {"none", "busy", "other", "panic"}
Places == {"loop", "wait", "acquire", "begin", "body", "commit", "cleanup", "closing", "decide",
           "ok", "error", "panicked"}
Owning == {"begin", "body", "commit", "cleanup", "closing"}

TxTyped ==
    /\ txAt \in [TxCalls -> Places]
    /\ txTry \in [TxCalls -> Nat]
    /\ txConn \in [TxCalls -> Conns \cup {NoConn}]
    /\ txCause \in [TxCalls -> Causes]
    /\ txCleanup \in [TxCalls -> Causes]
    /\ txValue \in [TxCalls -> Nat]
    /\ txIdle \subseteq Conns
    /\ txOpen \in [Conns -> SUBSET (TxCalls \X Nat)]

\* A connection is idle or of one caller, and only a reader's own may be marked.
ConnsSound ==
    /\ \A c \in TxCalls : txConn[c] # NoConn <=> txAt[c] \in Owning
    /\ \A c \in TxCalls : txConn[c] \notin txIdle
    /\ \A c, d \in TxCalls : txConn[c] = txConn[d] /\ c # d => txConn[c] = NoConn
    /\ txIdle \cap txMarked = {}
    /\ NoConn \notin txMarked
    /\ \A c \in WriteCalls : txConn[c] \notin txMarked

\* The attempt has committed and nothing has been said against it.
Committed(c) ==
    \/ txAt[c] = "ok"
    \/ txAt[c] \in {"closing", "decide"} /\ txCause[c] = "none"

AppliedSound ==
    /\ \A c \in WriteCalls : \A n :
         <<c, n>> \in txApplied <=> Committed(c) /\ n = txValue[c]
    /\ \A c \in WriteCalls :
         txAt[c] = "commit" \/ Committed(c) => txValue[c] = txTry[c]
    /\ \A c \in WriteCalls :
         txAt[c] = "decide" /\ txCause[c] = "none" => txCleanup[c] = "none"
    /\ \A c \in TxCalls : txAt[c] = "cleanup" => txCause[c] # "none"
    /\ \A p \in txApplied : p[1] \in WriteCalls /\ p = <<p[1], p[2]>>

\* From BEGIN to COMMIT or ROLLBACK the connection has open what this attempt began, and nothing
\* that was left there.  What is left open is of an earlier attempt or of one that failed.
OpenSound ==
    /\ \A c \in TxCalls :
         txAt[c] \in {"body", "commit", "cleanup"} => txOpen[txConn[c]] = {<<c, txTry[c]>>}
    /\ \A k \in Conns : \A c \in TxCalls : \A n \in Nat :
         <<c, n>> \in txOpen[k] =>
             \/ n < txTry[c]
             \/ n = txTry[c] /\ txAt[c] \in {"body", "commit", "cleanup"} /\ txConn[c] = k
             \/ n = txTry[c] /\ txAt[c] \in {"closing", "decide"} /\ txCause[c] # "none"
             \/ n = txTry[c] /\ txAt[c] \in {"wait", "error", "panicked"}

TxInv == TxTyped /\ ConnsSound /\ AppliedSound /\ OpenSound

\* Calls that have not begun have no connection and no attempt.
LEMMA TxInvInit == TxInit => TxInv
BY TransactionAssumption
   DEF TxInit, TxInv, TxTyped, ConnsSound, AppliedSound, OpenSound, Committed, Owning, Places, Causes,
       TxCalls

\* The loop starts an attempt, waits for the next one or gives up.
LEMMA LoopKeeps ==
    ASSUME TxInv, NEW c \in TxCalls, executeLoop(c) PROVE TxInv'
<1>1. TxTyped'
  BY TransactionAssumption DEF executeLoop, Goto, TxInv, TxTyped, txPool, TxCalls, ConnsSound, Owning, Places, Causes
<1>2. ConnsSound'
  BY TransactionAssumption DEF executeLoop, Goto, TxInv, TxTyped, txPool, TxCalls, ConnsSound, Places, Owning
<1>3. AppliedSound'
  BY TransactionAssumption DEF executeLoop, Goto, TxInv, TxTyped, txPool, TxCalls, ConnsSound, Owning, AppliedSound, OpenSound, Committed
<1>4. OpenSound'
  BY TransactionAssumption DEF executeLoop, Goto, TxInv, TxTyped, txPool, TxCalls, ConnsSound, Owning, AppliedSound, OpenSound
<1> QED
  BY <1>1, <1>2, <1>3, <1>4 DEF TxInv

\* A connection leaves the pool for one call.
LEMMA AcquireKeeps ==
    ASSUME TxInv, NEW c \in TxCalls, acquireConn(c) PROVE TxInv'
<1>1. TxTyped'
  BY TransactionAssumption DEF acquireConn, Goto, TxInv, TxTyped, txPool, TxCalls, ConnsSound, Owning, Places, Causes
<1>2. ConnsSound'
  BY TransactionAssumption DEF acquireConn, Goto, TxInv, TxTyped, txPool, TxCalls, ConnsSound, Places, Owning
<1>3. AppliedSound'
  BY TransactionAssumption DEF acquireConn, Goto, TxInv, TxTyped, txPool, TxCalls, ConnsSound, Owning, AppliedSound, OpenSound, Committed
<1>4. OpenSound'
  BY TransactionAssumption DEF acquireConn, Goto, TxInv, TxTyped, txPool, TxCalls, ConnsSound, Owning, AppliedSound, OpenSound
<1> QED
  BY <1>1, <1>2, <1>3, <1>4 DEF TxInv

\* BEGIN succeeds on a connection with nothing open, is refused, or the mark fails.
LEMMA BeginKeeps ==
    ASSUME TxInv, NEW c \in TxCalls, beginTx(c) PROVE TxInv'
<1>1. TxTyped'
  BY TransactionAssumption DEF beginTx, Goto, Abort, Close, TxInv, TxTyped, txPool, TxCalls, ConnsSound, Owning, Places, Causes
<1>2. ConnsSound'
  BY TransactionAssumption DEF beginTx, Goto, Abort, Close, TxInv, TxTyped, txPool, TxCalls, ConnsSound, Places, Owning
<1>3. AppliedSound'
  BY TransactionAssumption DEF beginTx, Goto, Abort, Close, TxInv, TxTyped, txPool, TxCalls, ConnsSound, Owning, AppliedSound, OpenSound, Committed
<1>4. OpenSound'
  BY TransactionAssumption DEF beginTx, Goto, Abort, Close, TxInv, TxTyped, txPool, TxCalls, ConnsSound, Owning, AppliedSound, OpenSound
<1> QED
  BY <1>1, <1>2, <1>3, <1>4 DEF TxInv

\* The callback returns, fails or panics.
LEMMA CallbackKeeps ==
    ASSUME TxInv, NEW c \in TxCalls, runCallback(c) PROVE TxInv'
<1>1. TxTyped'
  BY TransactionAssumption DEF runCallback, Goto, committedValue, Abort, TxInv, TxTyped, txPool, TxCalls, ConnsSound, Owning, Places, Causes
<1>2. ConnsSound'
  BY TransactionAssumption DEF runCallback, Goto, committedValue, Abort, TxInv, TxTyped, txPool, TxCalls, ConnsSound, Places, Owning
<1>3. AppliedSound'
  BY TransactionAssumption DEF runCallback, Goto, committedValue, Abort, TxInv, TxTyped, txPool, TxCalls, ConnsSound, Owning, AppliedSound, OpenSound, Committed
<1>4. OpenSound'
  BY TransactionAssumption DEF runCallback, Goto, committedValue, Abort, TxInv, TxTyped, txPool, TxCalls, ConnsSound, Owning, AppliedSound, OpenSound
<1> QED
  BY <1>1, <1>2, <1>3, <1>4 DEF TxInv

\* COMMIT applies the transaction of this attempt or nothing.
LEMMA CommitKeeps ==
    ASSUME TxInv, NEW c \in TxCalls, commitTx(c) PROVE TxInv'
<1>1. TxTyped'
  BY TransactionAssumption DEF commitTx, Goto, Abort, Close, Writes, TxInv, TxTyped, txPool, TxCalls, ConnsSound, Owning, Places, Causes
<1>2. ConnsSound'
  BY TransactionAssumption DEF commitTx, Goto, Abort, Close, Writes, TxInv, TxTyped, txPool, TxCalls, ConnsSound, Places, Owning
<1>3. AppliedSound'
  BY TransactionAssumption DEF commitTx, Goto, Abort, Close, Writes, TxInv, TxTyped, txPool, TxCalls, ConnsSound, Owning, AppliedSound, OpenSound, Committed
<1>4. OpenSound'
  BY TransactionAssumption DEF commitTx, Goto, Abort, Close, Writes, TxInv, TxTyped, txPool, TxCalls, ConnsSound, Owning, AppliedSound, OpenSound
<1> QED
  BY <1>1, <1>2, <1>3, <1>4 DEF TxInv

\* The rollback, its failure, and what becomes of the connection.
LEMMA CleanupKeeps ==
    ASSUME TxInv, NEW c \in TxCalls, cleanupTransaction(c) PROVE TxInv'
<1>1. TxTyped'
  BY TransactionAssumption DEF cleanupTransaction, Goto, discardConnection, Rollbacks, TxInv, TxTyped, txPool, TxCalls, ConnsSound, Owning, Places, Causes
<1>2. ConnsSound'
  BY TransactionAssumption DEF cleanupTransaction, Goto, discardConnection, Rollbacks, TxInv, TxTyped, txPool, TxCalls, ConnsSound, Places, Owning
<1>3. AppliedSound'
  BY TransactionAssumption DEF cleanupTransaction, Goto, discardConnection, Rollbacks, TxInv, TxTyped, txPool, TxCalls, ConnsSound, Owning, AppliedSound, OpenSound, Committed
<1>4. OpenSound'
  BY TransactionAssumption DEF cleanupTransaction, Goto, discardConnection, Rollbacks, TxInv, TxTyped, txPool, TxCalls, ConnsSound, Owning, AppliedSound, OpenSound
<1> QED
  BY <1>1, <1>2, <1>3, <1>4 DEF TxInv

\* What the attempt ended with decides whether there is another.
LEMMA DecideKeeps ==
    ASSUME TxInv, NEW c \in TxCalls, decideAttempt(c) PROVE TxInv'
<1>1. TxTyped'
  BY TransactionAssumption DEF decideAttempt, Goto, JoinedBusy, TxInv, TxTyped, txPool, TxCalls, ConnsSound, Owning, Places, Causes
<1>2. ConnsSound'
  BY TransactionAssumption DEF decideAttempt, Goto, JoinedBusy, TxInv, TxTyped, txPool, TxCalls, ConnsSound, Places, Owning
<1>3. AppliedSound'
  BY TransactionAssumption DEF decideAttempt, Goto, JoinedBusy, TxInv, TxTyped, txPool, TxCalls, ConnsSound, Owning, AppliedSound, OpenSound, Committed
<1>4. OpenSound'
  BY TransactionAssumption DEF decideAttempt, Goto, JoinedBusy, TxInv, TxTyped, txPool, TxCalls, ConnsSound, Owning, AppliedSound, OpenSound
<1> QED
  BY <1>1, <1>2, <1>3, <1>4 DEF TxInv

\* Every statement of every call keeps the invariant.
LEMMA TxInvNext == TxInv /\ [TxNext]_txVars => TxInv'
<1> SUFFICES ASSUME TxInv, [TxNext]_txVars PROVE TxInv'
  OBVIOUS
<1>1. ASSUME NEW c \in TxCalls, cancelTxContext(c) PROVE TxInv'
  BY <1>1 DEF cancelTxContext, txPool, TxInv, TxTyped, ConnsSound, AppliedSound, OpenSound, Committed
<1>2. CASE UNCHANGED txVars
  BY <1>2 DEF txVars, TxInv, TxTyped, ConnsSound, AppliedSound, OpenSound, Committed
<1> QED
  BY <1>1, <1>2, LoopKeeps, AcquireKeeps, BeginKeeps, CallbackKeeps, CommitKeeps, CleanupKeeps,
     DecideKeeps DEF TxNext

\* What Transaction returns is what its last attempt committed, an error or a panic means that
\* nothing was, no connection goes back to the pool marked read-only, and what a failed
\* rollback or COMMIT leaves open on one is never committed afterwards: for any callers,
\* connections, busy errors, failing commits and cleanups.
THEOREM CommitsAreHonest == TxSpec => []CommitsHonest
<1>1. TxInv => CommitsHonest
  <2> SUFFICES ASSUME TxInv PROVE CommitsHonest
    OBVIOUS
  <2>1. ASSUME NEW c \in WriteCalls
        PROVE  LET applied == {p \in txApplied : p[1] = c}
               IN  /\ txAt[c] = "ok" => applied = {<<c, txValue[c]>>}
                   /\ txAt[c] \in {"error", "panicked"} => applied = {}
    <3>1. \A p \in txApplied : p[1] = c => p = <<c, p[2]>>
      BY DEF TxInv, AppliedSound
    <3>2. \A n : <<c, n>> \in txApplied <=> Committed(c) /\ n = txValue[c]
      BY DEF TxInv, AppliedSound
    <3>3. txAt[c] \in {"error", "panicked"} => ~Committed(c)
      BY DEF Committed
    <3>4. txAt[c] = "ok" => Committed(c)
      BY DEF Committed
    <3> QED
      BY <3>1, <3>2, <3>3, <3>4
  <2>2. NoPoisonedConnection
    BY DEF TxInv, ConnsSound, NoPoisonedConnection
  <2>3. ASSUME NEW k \in txIdle, NEW p \in txOpen[k]
        PROVE  p \notin txApplied /\ ~(txAt[p[1]] = "ok" /\ txTry[p[1]] = p[2])
    <3>1. PICK c \in TxCalls, n \in Nat : p = <<c, n>>
      BY DEF TxInv, TxTyped
    <3>2. \/ n < txTry[c]
          \/ n = txTry[c] /\ ~Committed(c)
      BY <3>1, <2>3 DEF TxInv, TxTyped, OpenSound, ConnsSound, Owning, Committed
    <3>3. <<c, n>> \in txApplied => c \in WriteCalls /\ Committed(c) /\ n = txTry[c]
      BY DEF TxInv, AppliedSound
    <3>4. txTry[c] \in Nat
      BY DEF TxInv, TxTyped
    <3> QED
      BY <3>1, <3>2, <3>3, <3>4 DEF Committed
  <2> QED
    BY <2>1, <2>2, <2>3 DEF CommitsHonest, ReturnedIsCommitted, LeftOpenFailed
<1> QED
  BY <1>1, TxInvInit, TxInvNext, PTL DEF TxSpec

--------------------------------------------------------------------------------
(* Waiters of one background tool call.  The callers of Start share one lock,   *)
(* which is in the map while any of them refers to it; the row, its worker and   *)
(* its notifications decide who is woken.                                      *)

Using == {"waiting", "locked", "admitted", "unlock", "unref"}
Inside == {"locked", "admitted", "unlock"}
Rows == {"absent", "queued", "running", "canceling", "ended"}

\* The callers that refer to a lock.
UsersOf(lock) == {s \in Starters : twStart[s].pc \in Using /\ twStart[s].lock = lock}

WaitTyped ==
    /\ twRow \in Rows
    /\ twMap \in Starters \cup {NoLock}
    /\ twLocks \in [Starters -> [refs : Nat, held : BOOLEAN]]
    /\ twStart \in [Starters -> [pc : Using \cup {"idle", "returned"}, lock : Starters \cup {NoLock}]]
    /\ twAdmitted \in Nat
    /\ twWait \in [Waiters -> {"idle", "added", "blocked", "returned"}]
    /\ twChans \in [Waiters -> Nat]
    /\ twSilent \in BOOLEAN
    /\ twOutcome \in {"none", "kept", "published"}

\* Whoever uses a lock uses the one in the map, which counts its users and is held by one.
LockSound ==
    /\ \A s \in Starters : twStart[s].pc \in Using => twStart[s].lock = twMap /\ twMap # NoLock
    /\ \A k \in Starters : /\ IsFiniteSet(UsersOf(k))
                           /\ twLocks[k].refs = Cardinality(UsersOf(k))
    /\ \A k \in Starters :
         twLocks[k].held => \E s \in Starters : twStart[s].pc \in Inside /\ twStart[s].lock = k
    /\ \A s \in Starters : twStart[s].pc \in Inside => twLocks[twStart[s].lock].held
    /\ \A s, u \in Starters : twStart[s].pc \in Inside /\ twStart[u].pc \in Inside => s = u

\* The one inside finds out whether the row is there.
AdmittedOnce ==
    /\ twAdmitted <= 1
    /\ twRow = "absent" => twAdmitted = 0
    /\ \A s \in Starters : twStart[s].pc = "admitted" => twRow = "absent"

\* A silent end and an announced one exclude each other.
EndSound ==
    /\ twSilent => twRow = "ended"
    /\ "settle" \in twNotify => twRow = "ended" /\ ~twSilent
    /\ PublishedIsSettled

WaitInv == WaitTyped /\ LockSound /\ AdmittedOnce /\ EndSound /\ NoLostWakeup /\ WaitersRemoved

\* Before any Start there is no row, no lock and no waiter.
LEMMA WaitInvInit == WaitInit => WaitInv
<1> SUFFICES ASSUME WaitInit PROVE WaitInv
  OBVIOUS
<1>1. \A k \in Starters : UsersOf(k) = {}
  BY DEF WaitInit, UsersOf, Using
<1>2. LockSound
  BY <1>1, FS_EmptySet DEF WaitInit, LockSound, Using, Inside
<1>3. WaitTyped
  BY DEF WaitInit, WaitTyped, Using, Rows
<1>4. AdmittedOnce /\ EndSound
  BY DEF WaitInit, AdmittedOnce, EndSound, PublishedIsSettled
<1>5. NoLostWakeup /\ WaitersRemoved
  BY DEF WaitInit, NoLostWakeup, WaitersRemoved
<1> QED
  BY <1>2, <1>3, <1>4, <1>5 DEF WaitInv

\* Steps that leave Start's locks and callers alone.
LEMMA LockKept ==
    ASSUME LockSound, UNCHANGED <<twMap, twLocks, twStart>> PROVE LockSound'
<1>1. \A k \in Starters : UsersOf(k)' = UsersOf(k)
  BY DEF UsersOf
<1> QED
  BY <1>1 DEF LockSound

\* A step of Start leaves the waiters and the end of the row alone.
LEMMA StartOnlyKeeps ==
    ASSUME WaitInv, StartOnly, twRow' \in {twRow, IF twRow = "absent" THEN "queued" ELSE twRow}
    PROVE  EndSound' /\ NoLostWakeup' /\ WaitersRemoved'
BY DEF WaitInv, StartOnly, twWaits, EndSound, PublishedIsSettled, NoLostWakeup, WaitersRemoved

\* Finding or making the lock adds its caller to those it counts.
LEMMA FindKeeps ==
    ASSUME WaitInv, NEW s \in Starters, findLock(s) PROVE WaitInv'
<1>1. PICK k \in Starters : k = IF twMap = NoLock THEN s ELSE twMap
  BY DEF WaitInv, WaitTyped
<1>2. /\ twStart[s].pc = "idle" /\ twMap' = k
      /\ twLocks' = [twLocks EXCEPT ![k].refs = @ + 1]
      /\ twStart' = [twStart EXCEPT ![s] = [pc |-> "waiting", lock |-> k]]
      /\ StartOnly /\ UNCHANGED <<twRow, twAdmitted>>
  BY <1>1 DEF findLock, StartAt
<1>3. \A u \in Starters : twStart[u].pc \in Using => twStart[u].lock = k /\ twMap = k
  BY <1>1, WaitAssumption DEF WaitInv, LockSound
<1>4. /\ \A j \in Starters \ {k} : UsersOf(j)' = UsersOf(j)
      /\ UsersOf(k)' = UsersOf(k) \cup {s} /\ s \notin UsersOf(k)
  BY <1>2 DEF UsersOf, Using, WaitInv, WaitTyped
<1>5. /\ IsFiniteSet(UsersOf(k)') /\ twLocks'[k].refs = Cardinality(UsersOf(k)')
      /\ twLocks'[k].held = twLocks[k].held
      /\ \A j \in Starters \ {k} : twLocks'[j] = twLocks[j]
      /\ twLocks' \in [Starters -> [refs : Nat, held : BOOLEAN]]
  <2>1. twLocks[k].refs \in Nat /\ twLocks \in [Starters -> [refs : Nat, held : BOOLEAN]]
    BY DEF WaitInv, WaitTyped
  <2>2. IsFiniteSet(UsersOf(k)) /\ twLocks[k].refs = Cardinality(UsersOf(k))
    BY DEF WaitInv, LockSound
  <2>3. IsFiniteSet(UsersOf(k) \cup {s})
        /\ Cardinality(UsersOf(k) \cup {s}) = Cardinality(UsersOf(k)) + 1
    BY <1>4, <2>2, FS_AddElement
  <2>4. /\ twLocks'[k].refs = twLocks[k].refs + 1 /\ twLocks'[k].held = twLocks[k].held
        /\ \A j \in Starters \ {k} : twLocks'[j] = twLocks[j]
        /\ twLocks' \in [Starters -> [refs : Nat, held : BOOLEAN]]
    BY <1>2, <2>1
  <2> QED
    BY <1>4, <2>2, <2>3, <2>4
<1>6. /\ twStart'[s].pc = "waiting" /\ twStart'[s].lock = k
      /\ \A u \in Starters \ {s} : twStart'[u] = twStart[u]
  BY <1>2 DEF WaitInv, WaitTyped
<1>7. LockSound'
  <2>1. \A u \in Starters : twStart'[u].pc \in Using => twStart'[u].lock = twMap' /\ twMap' # NoLock
    BY <1>2, <1>3, <1>6, WaitAssumption
  <2>2. \A j \in Starters : IsFiniteSet(UsersOf(j)') /\ twLocks'[j].refs = Cardinality(UsersOf(j)')
    <3> TAKE j \in Starters
    <3>1. CASE j = k
      BY <1>5, <3>1
    <3>2. CASE j # k
      <4>1. IsFiniteSet(UsersOf(j)) /\ twLocks[j].refs = Cardinality(UsersOf(j))
        BY DEF WaitInv, LockSound
      <4>2. UsersOf(j)' = UsersOf(j) /\ twLocks'[j] = twLocks[j]
        BY <1>4, <1>5, <3>2
      <4> QED
        BY <4>1, <4>2
    <3> QED
      BY <3>1, <3>2
  <2>3. \A u \in Starters : twStart'[u].pc \in Inside <=> twStart[u].pc \in Inside
    BY <1>2, <1>6 DEF Inside
  <2>4. \A j \in Starters : twLocks'[j].held = twLocks[j].held
    BY <1>5
  <2>5. \A u \in Starters : twStart[u].pc \in Inside => u # s /\ twStart'[u] = twStart[u]
    BY <1>2, <1>6 DEF Inside
  <2>6. \A u \in Starters : twStart[u].pc \in Inside => twStart[u].lock \in Starters
    BY <1>3 DEF Inside, Using
  <2> QED
    BY <2>1, <2>2, <2>3, <2>4, <2>5, <2>6 DEF LockSound, WaitInv
<1>8. WaitTyped' /\ AdmittedOnce'
  BY <1>2, <1>5, <1>6 DEF WaitInv, WaitTyped, AdmittedOnce, StartOnly, twWaits, Using
<1> QED
  BY <1>2, <1>7, <1>8, StartOnlyKeeps DEF WaitInv

\* Giving up the last reference removes a lock that nobody uses.
LEMMA UnrefKeeps ==
    ASSUME WaitInv, NEW s \in Starters, unrefStart(s) PROVE WaitInv'
<1>1. PICK k \in Starters : k = twStart[s].lock /\ k = twMap
  BY DEF unrefStart, StartAt, WaitInv, WaitTyped, LockSound, Using
<1>2. /\ twStart[s].pc = "unref" /\ twStart' = [twStart EXCEPT ![s].pc = "returned"]
      /\ twLocks' = [twLocks EXCEPT ![k].refs = @ - 1]
      /\ twMap' = IF twLocks[k].refs = 1 THEN NoLock ELSE twMap
      /\ StartOnly /\ UNCHANGED <<twRow, twAdmitted>>
  BY <1>1 DEF unrefStart, StartAt, LockOf
<1>3. /\ twStart'[s].pc = "returned" /\ twStart' \in [Starters -> [pc : Using \cup {"idle", "returned"}, lock : Starters \cup {NoLock}]]
      /\ \A u \in Starters \ {s} : twStart'[u] = twStart[u]
  BY <1>2 DEF WaitInv, WaitTyped
<1>4. /\ \A j \in Starters \ {k} : UsersOf(j)' = UsersOf(j)
      /\ UsersOf(k)' = UsersOf(k) \ {s} /\ s \in UsersOf(k)
  BY <1>1, <1>2, <1>3 DEF UsersOf, Using
<1>5. /\ IsFiniteSet(UsersOf(k)') /\ twLocks'[k].refs = Cardinality(UsersOf(k)')
      /\ twLocks'[k].held = twLocks[k].held
      /\ \A j \in Starters \ {k} : twLocks'[j] = twLocks[j]
      /\ twLocks' \in [Starters -> [refs : Nat, held : BOOLEAN]]
      /\ twLocks[k].refs = 1 => UsersOf(k)' = {}
  <2>1. twLocks[k].refs \in Nat /\ twLocks \in [Starters -> [refs : Nat, held : BOOLEAN]]
    BY DEF WaitInv, WaitTyped
  <2>2. IsFiniteSet(UsersOf(k)) /\ twLocks[k].refs = Cardinality(UsersOf(k))
    BY DEF WaitInv, LockSound
  <2>3. IsFiniteSet(UsersOf(k) \ {s}) /\ Cardinality(UsersOf(k) \ {s}) = Cardinality(UsersOf(k)) - 1
    BY <1>4, <2>2, FS_RemoveElement
  <2>4. Cardinality(UsersOf(k) \ {s}) \in Nat
    BY <2>3, FS_CardinalityType
  <2>5. Cardinality(UsersOf(k) \ {s}) = 0 => UsersOf(k) \ {s} = {}
    BY <2>3, FS_EmptySet
  <2>6. /\ twLocks'[k].refs = twLocks[k].refs - 1 /\ twLocks'[k].held = twLocks[k].held
        /\ \A j \in Starters \ {k} : twLocks'[j] = twLocks[j]
    BY <1>2, <2>1
  <2>7. twLocks' \in [Starters -> [refs : Nat, held : BOOLEAN]]
    <3>1. twLocks[k].refs - 1 \in Nat
      BY <2>2, <2>3, <2>4
    <3> QED
      BY <1>2, <2>1, <3>1
  <2> QED
    BY <1>4, <2>2, <2>3, <2>5, <2>6, <2>7
<1>6. LockSound'
  <2>1. \A u \in Starters : twStart'[u].pc \in Using => twStart'[u].lock = twMap' /\ twMap' # NoLock
    <3> SUFFICES ASSUME NEW u \in Starters, twStart'[u].pc \in Using
                 PROVE  twStart'[u].lock = twMap' /\ twMap' # NoLock
      OBVIOUS
    <3>1. u # s /\ twStart'[u] = twStart[u]
      BY <1>3 DEF Using
    <3>2. twStart[u].lock = k
      BY <1>1, <3>1 DEF WaitInv, LockSound
    <3>3. u \in UsersOf(k)'
      BY <3>1, <3>2 DEF UsersOf
    <3> QED
      BY <1>1, <1>2, <1>5, <3>1, <3>2, <3>3, WaitAssumption
  <2>2. \A j \in Starters : IsFiniteSet(UsersOf(j)') /\ twLocks'[j].refs = Cardinality(UsersOf(j)')
    <3> TAKE j \in Starters
    <3>1. CASE j = k
      BY <1>5, <3>1
    <3>2. CASE j # k
      <4>1. IsFiniteSet(UsersOf(j)) /\ twLocks[j].refs = Cardinality(UsersOf(j))
        BY DEF WaitInv, LockSound
      <4>2. UsersOf(j)' = UsersOf(j) /\ twLocks'[j] = twLocks[j]
        BY <1>4, <1>5, <3>2
      <4> QED
        BY <4>1, <4>2
    <3> QED
      BY <3>1, <3>2
  <2>3. \A u \in Starters : twStart'[u].pc \in Inside <=> twStart[u].pc \in Inside
    BY <1>2, <1>3 DEF Inside
  <2>4. \A j \in Starters : twLocks'[j].held = twLocks[j].held
    BY <1>5
  <2>5. \A u \in Starters : twStart[u].pc \in Inside => u # s /\ twStart'[u] = twStart[u]
    BY <1>2, <1>3 DEF Inside
  <2>6. \A u \in Starters : twStart[u].pc \in Inside => twStart[u].lock \in Starters
    BY <1>1 DEF Inside, Using, WaitInv, LockSound
  <2> QED
    BY <2>1, <2>2, <2>3, <2>4, <2>5, <2>6 DEF LockSound, WaitInv
<1>7. WaitTyped' /\ AdmittedOnce'
  <2>1. twMap' \in Starters \cup {NoLock}
    BY <1>2 DEF WaitInv, WaitTyped
  <2>2. \A u \in Starters : twStart'[u].pc = "admitted" => twStart[u].pc = "admitted"
    BY <1>3
  <2> QED
    BY <1>2, <1>3, <1>5, <2>1, <2>2 DEF WaitInv, WaitTyped, AdmittedOnce, StartOnly, twWaits
<1> QED
  BY <1>2, <1>6, <1>7, StartOnlyKeeps DEF WaitInv

\* The callers of Start move on without a new reference.
LEMMA StartMoves ==
    ASSUME WaitInv, NEW s \in Starters, NEW to \in Using, twStart[s].pc \in Using,
           twStart' = [twStart EXCEPT ![s].pc = to]
    PROVE  /\ \A u \in Starters : twStart'[u] = IF u = s THEN [twStart[s] EXCEPT !.pc = to] ELSE twStart[u]
           /\ twStart'[s].pc = to /\ twStart'[s].lock = twStart[s].lock /\ twStart[s].lock \in Starters
           /\ twStart' \in [Starters -> [pc : Using \cup {"idle", "returned"}, lock : Starters \cup {NoLock}]]
           /\ \A k \in Starters : UsersOf(k)' = UsersOf(k)
           /\ \A u \in Starters : twStart'[u].pc \in Using => twStart[u].pc \in Using
           /\ \A u \in Starters : twStart'[u].lock = twStart[u].lock
<1>1. twStart \in [Starters -> [pc : Using \cup {"idle", "returned"}, lock : Starters \cup {NoLock}]]
  BY DEF WaitInv, WaitTyped
<1>2. /\ \A u \in Starters : twStart'[u] = IF u = s THEN [twStart[s] EXCEPT !.pc = to] ELSE twStart[u]
      /\ twStart'[s].pc = to /\ twStart'[s].lock = twStart[s].lock
      /\ twStart' \in [Starters -> [pc : Using \cup {"idle", "returned"}, lock : Starters \cup {NoLock}]]
  BY <1>1
<1>3. twStart[s].lock \in Starters
  BY <1>1 DEF WaitInv, LockSound
<1>4. \A u \in Starters : twStart'[u].lock = twStart[u].lock
  BY <1>2
<1>5. \A u \in Starters : twStart'[u].pc \in Using <=> twStart[u].pc \in Using
  BY <1>2
<1> QED
  BY <1>2, <1>3, <1>4, <1>5 DEF UsersOf

\* Taking the mutex of the lock brings its caller inside, where nobody is.
LEMMA LockKeeps ==
    ASSUME WaitInv, NEW s \in Starters, lockStart(s) PROVE WaitInv'
<1>1. /\ twStart[s].pc = "waiting" /\ ~twLocks[twStart[s].lock].held
      /\ twLocks' = [twLocks EXCEPT ![twStart[s].lock].held = TRUE]
      /\ twStart' = [twStart EXCEPT ![s].pc = "locked"]
      /\ StartOnly /\ UNCHANGED <<twRow, twMap, twAdmitted>>
  BY DEF lockStart, StartAt, LockOf
<1>2. /\ \A u \in Starters : twStart'[u] = IF u = s THEN [twStart[s] EXCEPT !.pc = "locked"] ELSE twStart[u]
      /\ twStart'[s].pc = "locked" /\ twStart[s].lock \in Starters
      /\ twStart' \in [Starters -> [pc : Using \cup {"idle", "returned"}, lock : Starters \cup {NoLock}]]
      /\ \A k \in Starters : UsersOf(k)' = UsersOf(k)
      /\ \A u \in Starters : twStart'[u].pc \in Using => twStart[u].pc \in Using
      /\ \A u \in Starters : twStart'[u].lock = twStart[u].lock
  BY <1>1, StartMoves DEF Using
<1>3. PICK k \in Starters : k = twStart[s].lock /\ k = twMap
  BY <1>1, <1>2 DEF WaitInv, LockSound, Using
<1>4. /\ twLocks'[k].held /\ twLocks'[k].refs = twLocks[k].refs
      /\ \A j \in Starters \ {k} : twLocks'[j] = twLocks[j]
      /\ twLocks' \in [Starters -> [refs : Nat, held : BOOLEAN]]
  <2>1. twLocks' = [twLocks EXCEPT ![k].held = TRUE]
    BY <1>1, <1>3
  <2>2. twLocks \in [Starters -> [refs : Nat, held : BOOLEAN]]
    BY DEF WaitInv, WaitTyped
  <2> QED
    BY <2>1, <2>2
<1>5. \A u \in Starters : twStart[u].pc \notin Inside
  <2>1. \A u \in Starters : twStart[u].pc \in Inside => twStart[u].lock = k
    BY <1>3 DEF WaitInv, LockSound, Inside, Using
  <2> QED
    BY <1>1, <1>3, <2>1 DEF WaitInv, LockSound
<1>6. \A u \in Starters : twStart'[u].pc \in Inside <=> u = s
  BY <1>2, <1>5 DEF Inside
<1>7. LockSound'
  <2>1. \A u \in Starters : twStart'[u].pc \in Using => twStart'[u].lock = twMap' /\ twMap' # NoLock
    BY <1>1, <1>2 DEF WaitInv, LockSound
  <2>2. \A j \in Starters : IsFiniteSet(UsersOf(j)') /\ twLocks'[j].refs = Cardinality(UsersOf(j)')
    BY <1>2, <1>4 DEF WaitInv, LockSound
  <2>3. \A j \in Starters : twLocks'[j].held => j = k
    BY <1>4, <1>5 DEF WaitInv, LockSound
  <2>4. twStart'[s].lock = k
    BY <1>2, <1>3
  <2> QED
    BY <1>4, <1>6, <2>1, <2>2, <2>3, <2>4 DEF LockSound
<1>8. WaitTyped' /\ AdmittedOnce'
  <2>1. \A u \in Starters : twStart'[u].pc # "admitted"
    BY <1>2, <1>5 DEF Inside
  <2> QED
    BY <1>1, <1>2, <1>4, <2>1 DEF WaitInv, WaitTyped, AdmittedOnce, StartOnly, twWaits
<1> QED
  BY <1>1, <1>7, <1>8, StartOnlyKeeps DEF WaitInv

\* The caller inside goes on inside.
LEMMA InsideMoves ==
    ASSUME WaitInv, NEW s \in Starters, NEW to \in Inside, twStart[s].pc \in Inside,
           twStart' = [twStart EXCEPT ![s].pc = to], UNCHANGED <<twMap, twLocks>>
    PROVE  /\ LockSound'
           /\ twStart' \in [Starters -> [pc : Using \cup {"idle", "returned"}, lock : Starters \cup {NoLock}]]
           /\ \A u \in Starters : twStart'[u].pc \in Inside <=> u = s
           /\ twStart'[s].pc = to
<1>1. /\ \A u \in Starters : twStart'[u] = IF u = s THEN [twStart[s] EXCEPT !.pc = to] ELSE twStart[u]
      /\ twStart'[s].pc = to /\ twStart[s].lock \in Starters
      /\ twStart' \in [Starters -> [pc : Using \cup {"idle", "returned"}, lock : Starters \cup {NoLock}]]
      /\ \A k \in Starters : UsersOf(k)' = UsersOf(k)
      /\ \A u \in Starters : twStart'[u].pc \in Using => twStart[u].pc \in Using
      /\ \A u \in Starters : twStart'[u].lock = twStart[u].lock
  <2>1. to \in Using /\ twStart[s].pc \in Using
    BY DEF Inside, Using
  <2> QED
    BY <2>1, StartMoves
<1>2. \A u \in Starters : twStart'[u].pc \in Inside <=> u = s
  <2>1. \A u \in Starters : twStart[u].pc \in Inside => u = s
    BY DEF WaitInv, LockSound
  <2> QED
    BY <1>1, <2>1
<1>3. LockSound'
  <2>1. \A u \in Starters : twStart'[u].pc \in Using => twStart'[u].lock = twMap' /\ twMap' # NoLock
    BY <1>1 DEF WaitInv, LockSound
  <2>2. \A j \in Starters : IsFiniteSet(UsersOf(j)') /\ twLocks'[j].refs = Cardinality(UsersOf(j)')
    BY <1>1 DEF WaitInv, LockSound
  <2>3. \A j \in Starters : twLocks'[j].held => j = twStart[s].lock
    BY DEF WaitInv, LockSound
  <2>4. twLocks'[twStart[s].lock].held
    BY DEF WaitInv, LockSound
  <2> QED
    BY <1>1, <1>2, <2>1, <2>2, <2>3, <2>4 DEF LockSound
<1> QED
  BY <1>1, <1>2, <1>3

\* The caller inside looks for the row, and asks Admit if there is none.
LEMMA AdmitKeeps ==
    ASSUME WaitInv, NEW s \in Starters, admitStartRequest(s) PROVE WaitInv'
<1>1. PICK to \in {"admitted", "unlock"} :
        /\ twStart' = [twStart EXCEPT ![s].pc = to] /\ (to = "admitted" => twRow = "absent")
  BY DEF admitStartRequest
<1>2. /\ twStart[s].pc = "locked" /\ StartOnly /\ UNCHANGED <<twRow, twMap, twLocks, twAdmitted>>
  BY DEF admitStartRequest, StartAt
<1>3. /\ LockSound'
      /\ twStart' \in [Starters -> [pc : Using \cup {"idle", "returned"}, lock : Starters \cup {NoLock}]]
      /\ \A u \in Starters : twStart'[u].pc \in Inside <=> u = s
      /\ twStart'[s].pc = to
  BY <1>1, <1>2, InsideMoves DEF Inside
<1>4. WaitTyped' /\ AdmittedOnce'
  BY <1>1, <1>2, <1>3 DEF WaitInv, WaitTyped, AdmittedOnce, StartOnly, twWaits, Inside
<1> QED
  BY <1>2, <1>3, <1>4, StartOnlyKeeps DEF WaitInv

\* The caller inside stores the task that nobody else can have stored.
LEMMA CreateKeeps ==
    ASSUME WaitInv, NEW s \in Starters, createTask(s) PROVE WaitInv'
<1>1. /\ twStart[s].pc = "admitted" /\ twStart' = [twStart EXCEPT ![s].pc = "unlock"]
      /\ \/ twRow' = (IF twRow = "absent" THEN "queued" ELSE twRow) /\ twAdmitted' = twAdmitted + 1
         \/ UNCHANGED <<twRow, twAdmitted>>
      /\ StartOnly /\ UNCHANGED <<twMap, twLocks>>
  BY DEF createTask, StartAt
<1>2. /\ LockSound'
      /\ twStart' \in [Starters -> [pc : Using \cup {"idle", "returned"}, lock : Starters \cup {NoLock}]]
      /\ \A u \in Starters : twStart'[u].pc \in Inside <=> u = s
      /\ twStart'[s].pc = "unlock"
  BY <1>1, InsideMoves DEF Inside
<1>3. twRow = "absent" /\ twAdmitted = 0
  BY <1>1 DEF WaitInv, AdmittedOnce
<1>4. WaitTyped' /\ AdmittedOnce'
  BY <1>1, <1>2, <1>3 DEF WaitInv, WaitTyped, AdmittedOnce, StartOnly, twWaits, Inside, Rows
<1> QED
  BY <1>1, <1>2, <1>4, StartOnlyKeeps DEF WaitInv

\* The caller inside leaves.
LEMMA UnlockKeeps ==
    ASSUME WaitInv, NEW s \in Starters, unlockStart(s) PROVE WaitInv'
<1>1. /\ twStart[s].pc = "unlock" /\ twStart' = [twStart EXCEPT ![s].pc = "unref"]
      /\ twLocks' = [twLocks EXCEPT ![twStart[s].lock].held = FALSE]
      /\ StartOnly /\ UNCHANGED <<twRow, twMap, twAdmitted>>
  BY DEF unlockStart, StartAt, LockOf
<1>2. /\ \A u \in Starters : twStart'[u] = IF u = s THEN [twStart[s] EXCEPT !.pc = "unref"] ELSE twStart[u]
      /\ twStart'[s].pc = "unref" /\ twStart[s].lock \in Starters
      /\ twStart' \in [Starters -> [pc : Using \cup {"idle", "returned"}, lock : Starters \cup {NoLock}]]
      /\ \A k \in Starters : UsersOf(k)' = UsersOf(k)
      /\ \A u \in Starters : twStart'[u].pc \in Using => twStart[u].pc \in Using
      /\ \A u \in Starters : twStart'[u].lock = twStart[u].lock
  BY <1>1, StartMoves DEF Using
<1>3. PICK k \in Starters : k = twStart[s].lock
  BY <1>2
<1>4. /\ ~twLocks'[k].held /\ twLocks'[k].refs = twLocks[k].refs
      /\ \A j \in Starters \ {k} : twLocks'[j] = twLocks[j]
      /\ twLocks' \in [Starters -> [refs : Nat, held : BOOLEAN]]
  BY <1>1, <1>3 DEF WaitInv, WaitTyped
<1>5. \A u \in Starters : twStart'[u].pc \notin Inside
  <2>1. \A u \in Starters : twStart[u].pc \in Inside => u = s
    BY <1>1 DEF WaitInv, LockSound, Inside
  <2> QED
    BY <1>2, <2>1 DEF Inside
<1>6. \A j \in Starters : ~twLocks'[j].held
  <2>1. \A j \in Starters : twLocks[j].held => j = k
    BY <1>1, <1>3 DEF WaitInv, LockSound, Inside
  <2> QED
    BY <1>4, <2>1
<1>7. LockSound'
  <2>1. \A u \in Starters : twStart'[u].pc \in Using => twStart'[u].lock = twMap' /\ twMap' # NoLock
    BY <1>1, <1>2 DEF WaitInv, LockSound
  <2>2. \A j \in Starters : IsFiniteSet(UsersOf(j)') /\ twLocks'[j].refs = Cardinality(UsersOf(j)')
    BY <1>2, <1>4 DEF WaitInv, LockSound
  <2> QED
    BY <1>5, <1>6, <2>1, <2>2 DEF LockSound
<1>8. WaitTyped' /\ AdmittedOnce'
  <2>1. \A u \in Starters : twStart'[u].pc # "admitted"
    BY <1>5 DEF Inside
  <2> QED
    BY <1>1, <1>2, <1>4, <2>1 DEF WaitInv, WaitTyped, AdmittedOnce, StartOnly, twWaits
<1> QED
  BY <1>1, <1>7, <1>8, StartOnlyKeeps DEF WaitInv

\* Wait changes nothing but its caller, its channels and the set of those that are woken.
LEMMA WaiterKeeps ==
    ASSUME WaitInv, NEW w \in Waiters, addWaiter(w) \/ readTask(w) \/ wakes(w) \/ removeWaiter(w)
    PROVE  WaitInv'
<1>1. WaitOnly
  BY DEF addWaiter, readTask, wakes, removeWaiter
<1>2. LockSound' /\ AdmittedOnce' /\ EndSound'
  BY <1>1, LockKept DEF WaitOnly, twStarts, WaitInv, AdmittedOnce, EndSound, PublishedIsSettled
<1>3. WaitTyped'
  BY <1>1 DEF WaitOnly, twStarts, WaitInv, WaitTyped, addWaiter, readTask, wakes, removeWaiter
<1>4. NoLostWakeup' /\ WaitersRemoved'
  <2>1. CASE addWaiter(w)
    BY <1>1, <2>1 DEF WaitOnly, addWaiter, WaitInv, WaitTyped, NoLostWakeup, WaitersRemoved
  <2>2. CASE readTask(w)
    BY <1>1, <2>2 DEF WaitOnly, readTask, WaitInv, WaitTyped, NoLostWakeup, WaitersRemoved
  <2>3. CASE wakes(w)
    BY <1>1, <2>3 DEF WaitOnly, wakes, WaitInv, WaitTyped, NoLostWakeup, WaitersRemoved
  <2>4. CASE removeWaiter(w)
    BY <1>1, <2>4 DEF WaitOnly, removeWaiter, WaitInv, WaitTyped, NoLostWakeup, WaitersRemoved
  <2> QED
    BY <2>1, <2>2, <2>3, <2>4
<1> QED
  BY <1>2, <1>3, <1>4 DEF WaitInv

\* Whoever ends the row has said so, or recovery has.
LEMMA TaskKeeps ==
    ASSUME WaitInv, runTask \/ rememberCompletion \/ settleTool \/ cancelTool \/ recoverSilently
    PROVE  WaitInv'
<1>1. TaskOnly
  BY DEF runTask, rememberCompletion, settleTool, cancelTool, recoverSilently
<1>2. LockSound' /\ WaitersRemoved'
  BY <1>1, LockKept DEF TaskOnly, twStarts, twWaits, WaitInv, WaitersRemoved
<1>3. WaitTyped' /\ AdmittedOnce'
  BY <1>1 DEF TaskOnly, twStarts, twWaits, WaitInv, WaitTyped, AdmittedOnce, Rows,
              runTask, rememberCompletion, settleTool, cancelTool, recoverSilently
<1>4. EndSound' /\ NoLostWakeup'
  <2>1. CASE runTask
    BY <1>1, <2>1 DEF TaskOnly, twWaits, WaitInv, EndSound, PublishedIsSettled, NoLostWakeup, runTask
  <2>2. CASE rememberCompletion
    BY <1>1, <2>2 DEF TaskOnly, twWaits, WaitInv, EndSound, PublishedIsSettled, NoLostWakeup,
                      rememberCompletion
  <2>3. CASE settleTool
    BY <1>1, <2>3 DEF TaskOnly, twWaits, WaitInv, EndSound, PublishedIsSettled, NoLostWakeup, settleTool
  <2>4. CASE cancelTool
    BY <1>1, <2>4 DEF TaskOnly, twWaits, WaitInv, EndSound, PublishedIsSettled, NoLostWakeup, cancelTool
  <2>5. CASE recoverSilently
    BY <1>1, <2>5 DEF TaskOnly, twWaits, WaitInv, EndSound, PublishedIsSettled, NoLostWakeup,
                      recoverSilently
  <2> QED
    BY <2>1, <2>2, <2>3, <2>4, <2>5
<1> QED
  BY <1>2, <1>3, <1>4 DEF WaitInv

\* notifyWaiters wakes everyone registered, and only announced ends are published.
LEMMA NotifyKeeps ==
    ASSUME WaitInv, NEW who \in twNotify, notifyWaiters(who) PROVE WaitInv'
<1>1. LockSound' /\ AdmittedOnce'
  BY LockKept DEF notifyWaiters, twStarts, WaitInv, AdmittedOnce
<1>2. WaitTyped' /\ EndSound'
  BY DEF notifyWaiters, twStarts, WaitInv, WaitTyped, EndSound, PublishedIsSettled
<1>3. \A w \in Waiters : twWait[w] \in {"added", "blocked"} => w \in twWoken'
  BY DEF notifyWaiters, WaitInv, WaitersRemoved
<1>4. NoLostWakeup' /\ WaitersRemoved'
  BY <1>3 DEF notifyWaiters, NoLostWakeup, WaitersRemoved
<1> QED
  BY <1>1, <1>2, <1>4 DEF WaitInv

\* Every step of Start, Wait and the task keeps the invariant.
LEMMA WaitInvNext == WaitInv /\ [WaitNext]_twVars => WaitInv'
<1> SUFFICES ASSUME WaitInv, [WaitNext]_twVars PROVE WaitInv'
  OBVIOUS
<1>1. CASE UNCHANGED twVars
  <2>1. LockSound'
    BY <1>1, LockKept DEF twVars, twStarts, WaitInv
  <2> QED
    BY <1>1, <2>1 DEF twVars, twStarts, twWaits, WaitInv, WaitTyped, AdmittedOnce, EndSound,
                      PublishedIsSettled, NoLostWakeup, WaitersRemoved
<1> QED
  BY <1>1, FindKeeps, LockKeeps, AdmitKeeps, CreateKeeps, UnlockKeeps, UnrefKeeps, WaiterKeeps,
     TaskKeeps, NotifyKeeps DEF WaitNext

\* Callers of Start admit and store an invocation once under a lock made and removed on demand,
\* no caller of Wait sleeps through the end of the task unless recovery ended it, no channel
\* is left behind, and what is published has been stored.
THEOREM WaitersAreServed == WaitSpec => []WaitersServed
<1>1. WaitInv => WaitersServed
  <2> SUFFICES ASSUME WaitInv PROVE StartedOnce
    BY DEF WaitInv, EndSound, WaitersServed
  <2> DEFINE inside == {s \in Starters : twStart[s].pc \in {"locked", "admitted", "unlock"}}
  <2>1. Cardinality(inside) <= 1
    <3>1. CASE inside = {}
      BY <3>1, FS_EmptySet
    <3>2. CASE inside # {}
      <4>1. PICK s \in inside : TRUE
        BY <3>2
      <4>2. inside = {s}
        BY <4>1 DEF WaitInv, LockSound, Inside
      <4>3. Cardinality({s}) = 1
        BY FS_Singleton
      <4>4. Cardinality(inside) = 1
        BY <4>2, <4>3
      <4> HIDE DEF inside
      <4> QED
        BY <4>4
    <3> QED
      BY <3>1, <3>2
  <2> QED
    BY <2>1 DEF StartedOnce, WaitInv, AdmittedOnce
<1> QED
  BY <1>1, WaitInvInit, WaitInvNext, PTL DEF WaitSpec

--------------------------------------------------------------------------------
(***************************************************************************)
(* The terminal and its background work.  What a refresh read may be old, so  *)
(* the invariant says what old knowledge is good for: a run once read as        *)
(* canceled or gone still is (Recorded), and what was submitted before a         *)
(* refresh is among what it looks up (LookupsSound).  Each part is stated of      *)
(* a terminal s, its workers, the rows, what was told, met and submitted late,     *)
(* so that the helpers of the model, which map such states, can be reasoned about. *)
(***************************************************************************)

RefreshSpec == RefreshInit /\ [][RefreshNext]_rfVars

\* Functions from some of D to R.
Maps(D, R) == UNION {[d -> R] : d \in SUBSET D}

RowStates == {NoRow, "active", "ended", "canceled", "gone"}
SectionsOf(D, R) == [valid : BOOLEAN, rows : Maps(D, R)]
Snapshots == [agents : SectionsOf(BgTasks, RowStates), byId : SectionsOf(BgTasks, RowStates),
              runs : SectionsOf(BgRuns, RowStates), runById : SectionsOf(BgRuns, RowStates),
              kids : SectionsOf(BgRuns, BOOLEAN)]
Stages == {"agents", "lookups", "runs", "run_lookups", "details", "posted"}
Requests == [generation : Int, session : {Home, "child", "other"}, at : Stages, tracked : SUBSET BgTasks,
             runIds : SUBSET BgRuns, snapshot : Snapshots]
Apps == [session : {Home, "child", "other"}, inspecting : BOOLEAN, inFlight : BOOLEAN, generation : Int,
         inFlightGeneration : Int, pending : BOOLEAN, tracked : SUBSET BgTasks, runs : Maps(BgRuns, RowStates),
         submitted : Maps(BgRuns, Int), delivered : SUBSET BgWork, visits : Int]

\* There is one worker while a refresh is in flight; only the session that is shown starts one.
OneRefresh(s, workers) ==
    /\ s.inspecting <=> s.session = "child"
    /\ s.inFlight <=> workers # {}
    /\ \A w \in workers :
          /\ w.generation = s.inFlightGeneration /\ w.generation <= s.generation
          /\ w.session # "child" /\ workers = {w}

\* Another session has no background work, and what is read for it is empty.
OtherIsEmpty(s, workers, m) ==
    /\ s.session = "other" =>
          s.tracked = {} /\ DOMAIN s.runs = {} /\ DOMAIN s.submitted = {} /\ m = {}
    /\ \A w \in workers : w.session = "other" =>
          DOMAIN w.snapshot.agents.rows = {} /\ DOMAIN w.snapshot.runs.rows = {}

\* What is remembered as delivered is what was told, once.
DeliveredIsTold(s, t) == \A id \in BgWork : t[id] = IF id \in s.delivered THEN 1 ELSE 0

Recorded(rows, row) == \A id \in DOMAIN rows : rows[id] \in {"canceled", "gone"} => row[id] \in {"canceled", "gone"}
Exist(ids, row) == \A id \in ids : row[id] # NoRow

\* What was read as canceled or gone still is, and the followed tasks exist.
SnapshotSound(snap, row) ==
    /\ Recorded(snap.agents.rows, row) /\ Recorded(snap.byId.rows, row)
    /\ Recorded(snap.runs.rows, row) /\ Recorded(snap.runById.rows, row)
    /\ Exist(DOMAIN snap.agents.rows, row)
    /\ \A id \in DOMAIN snap.agents.rows : snap.agents.rows[id] # NoRow
    /\ \A id \in DOMAIN snap.byId.rows : snap.byId.rows[id] # NoRow
RecordsSound(s, workers, row) ==
    /\ Recorded(s.runs, row) /\ Exist(s.tracked, row)
    /\ \A w \in workers : SnapshotSound(w.snapshot, row) /\ Exist(w.tracked, row)

\* A lookup that succeeded found every run it was asked for; it was asked for all that were
\* submitted before the refresh.
LookedUp(at, runIds, snap) ==
    /\ at \in {"agents", "lookups", "runs", "run_lookups"} => ~snap.runById.valid
    /\ snap.runById.valid => runIds \subseteq DOMAIN snap.runs.rows \cup DOMAIN snap.runById.rows
LookupsSound(s, workers, l) ==
    \A w \in workers :
        /\ LookedUp(w.at, w.runIds, w.snapshot)
        /\ w.generation = s.generation => DOMAIN s.submitted \ l \subseteq w.runIds

\* NothingForgotten, of any state.
Follows(s, id) == id \in s.tracked \cup DOMAIN s.runs \cup DOMAIN s.submitted
Remembered(s, row, t, m, l) == \A id \in m \ l : Follows(s, id) \/ t[id] > 0 \/ row[id] \in {"canceled", "gone"}

RefreshSound(s, workers, row, t, m, l) ==
    /\ s \in Apps /\ workers \subseteq Requests /\ row \in [BgWork -> RowStates] /\ t \in [BgWork -> Nat]
    /\ m \subseteq BgWork
    /\ OneRefresh(s, workers) /\ OtherIsEmpty(s, workers, m) /\ DeliveredIsTold(s, t)
    /\ RecordsSound(s, workers, row) /\ LookupsSound(s, workers, l) /\ Remembered(s, row, t, m, l)

RefreshInv ==
    /\ RefreshSound(rf, rfWorkers, bgRow, told, met, late)
    /\ bgKids \in [BgRuns -> BOOLEAN]

(***************************************************************************)
(* What applying a snapshot does to the terminal.                           *)
(***************************************************************************)

\* A function belongs to the partial functions if it is one from some of D to R.
LEMMA InMaps ==
  ASSUME NEW D, NEW R, NEW f
  PROVE  f \in Maps(D, R) <=> /\ f = [x \in DOMAIN f |-> f[x]]
                              /\ DOMAIN f \subseteq D
                              /\ \A x \in DOMAIN f : f[x] \in R
<1>1. ASSUME f \in Maps(D, R)
      PROVE  f = [x \in DOMAIN f |-> f[x]] /\ DOMAIN f \subseteq D /\ \A x \in DOMAIN f : f[x] \in R
  <2>1. PICK d \in SUBSET D : f \in [d -> R]
    BY <1>1 DEF Maps
  <2> QED
    BY <2>1
<1>2. ASSUME f = [x \in DOMAIN f |-> f[x]], DOMAIN f \subseteq D, \A x \in DOMAIN f : f[x] \in R
      PROVE  f \in Maps(D, R)
  <2>1. f \in [DOMAIN f -> R]
    BY <1>2
  <2> QED
    BY <1>2, <2>1 DEF Maps
<1> QED
  BY <1>1, <1>2

\* Building a partial function gives one.
LEMMA MapBuilt ==
  ASSUME NEW D, NEW R, NEW E \in SUBSET D, NEW f, f = [x \in E |-> f[x]], \A x \in E : f[x] \in R
  PROVE  f \in Maps(D, R) /\ DOMAIN f = E
BY InMaps

\* The parts of a snapshot and of the terminal are what their names say.
LEMMA SnapshotParts ==
  ASSUME NEW snap \in Snapshots
  PROVE  /\ snap.agents.rows \in Maps(BgTasks, RowStates) /\ snap.byId.rows \in Maps(BgTasks, RowStates)
         /\ snap.runs.rows \in Maps(BgRuns, RowStates) /\ snap.runById.rows \in Maps(BgRuns, RowStates)
         /\ snap.agents.valid \in BOOLEAN /\ snap.byId.valid \in BOOLEAN /\ snap.runs.valid \in BOOLEAN
         /\ snap.runById.valid \in BOOLEAN /\ snap.kids.valid \in BOOLEAN
         /\ snap.kids.rows \in Maps(BgRuns, BOOLEAN)
BY DEF Snapshots, SectionsOf

\* The maps and sets of the terminal.
LEMMA AppParts ==
  ASSUME NEW s \in Apps
  PROVE  /\ s.runs \in Maps(BgRuns, RowStates) /\ DOMAIN s.runs \subseteq BgRuns
         /\ s.submitted \in Maps(BgRuns, Int) /\ DOMAIN s.submitted \subseteq BgRuns
         /\ s.tracked \subseteq BgTasks /\ s.delivered \subseteq BgWork
         /\ \A id \in DOMAIN s.submitted : s.submitted[id] \in Int
         /\ \A id \in DOMAIN s.runs : s.runs[id] \in RowStates
BY InMaps DEF Apps

\* What stays of the terminal when a snapshot is applied.
KeepsSlot(s, t) ==
    /\ t.session = s.session /\ t.inspecting = s.inspecting /\ t.inFlight = s.inFlight
    /\ t.generation = s.generation /\ t.inFlightGeneration = s.inFlightGeneration /\ t.pending = s.pending

\* Tasks: a followed task is kept, or it is delivered, or it was read as gone.
LEMMA AgentsApplied ==
  ASSUME NEW s \in Apps, NEW snap \in Snapshots
  PROVE  LET a == applyLoadedAgentTasks(s, snap) IN
         /\ a[1] \in Apps /\ KeepsSlot(s, a[1]) /\ a[1].runs = s.runs /\ a[1].submitted = s.submitted
         /\ a[2] \subseteq BgTasks /\ a[2] \cap s.delivered = {} /\ a[1].delivered = s.delivered \cup a[2]
         /\ a[1].tracked \subseteq s.tracked \cup DOMAIN snap.agents.rows
         /\ \A id \in s.tracked :
               \/ id \in a[1].tracked \cup a[1].delivered
               \/ id \in DOMAIN snap.agents.rows /\ snap.agents.rows[id] \in {NoRow, "gone"}
               \/ id \in DOMAIN snap.byId.rows /\ snap.byId.rows[id] \in {NoRow, "gone"}
<1> DEFINE fates(f) == {id \in s.tracked : reconcileLoadedAgentTask(snap, id) = f}
           active == {id \in DOMAIN snap.agents.rows : snap.agents.rows[id] = "active"}
           completed == fates("complete") \ s.delivered
           t == [s EXCEPT !.tracked = fates("keep") \cup active, !.delivered = @ \cup completed]
<1>1. CASE ~snap.agents.valid
  BY <1>1 DEF applyLoadedAgentTasks, KeepsSlot
<1>2. CASE snap.agents.valid
  <2>1. applyLoadedAgentTasks(s, snap) = <<t, completed>>
    BY <1>2 DEF applyLoadedAgentTasks
  <2>2. active \subseteq BgTasks /\ completed \subseteq BgTasks /\ fates("keep") \subseteq s.tracked
    BY SnapshotParts, AppParts, InMaps
  <2>3. /\ t \in Apps /\ KeepsSlot(s, t) /\ t.runs = s.runs /\ t.submitted = s.submitted
        /\ t.delivered = s.delivered \cup completed /\ t.tracked = fates("keep") \cup active
    <3>1. s.tracked \subseteq BgTasks /\ s.delivered \subseteq BgWork /\ BgTasks \subseteq BgWork
      BY AppParts DEF BgWork
    <3> HIDE DEF fates, active, completed
    <3> QED
      BY <2>2, <3>1 DEF Apps, KeepsSlot
  <2>4. ASSUME NEW id \in s.tracked
        PROVE  \/ id \in fates("keep") \cup completed \cup s.delivered
               \/ id \in DOMAIN snap.agents.rows /\ snap.agents.rows[id] \in {NoRow, "gone"}
               \/ id \in DOMAIN snap.byId.rows /\ snap.byId.rows[id] \in {NoRow, "gone"}
    <3>1. \/ reconcileLoadedAgentTask(snap, id) \in {"keep", "complete"}
          \/ id \in DOMAIN snap.agents.rows /\ snap.agents.rows[id] \in {NoRow, "gone"}
          \/ id \in DOMAIN snap.byId.rows /\ snap.byId.rows[id] \in {NoRow, "gone"}
      BY DEF reconcileLoadedAgentTask
    <3> QED
      BY <3>1
  <2> HIDE DEF fates, active, completed, t
  <2>5. active \subseteq DOMAIN snap.agents.rows
    BY DEF active
  <2>6. completed \cap s.delivered = {}
    BY DEF completed
  <2> QED
    BY <2>1, <2>2, <2>3, <2>4, <2>5, <2>6
<1> QED
  BY <1>1, <1>2, SnapshotParts

\* Runs: a run that leaves the list was told, or was read as canceled or gone.
LEMMA RunsApplied ==
  ASSUME NEW s \in Apps, NEW snap \in Snapshots, NEW row,
         Recorded(s.runs, row), Recorded(snap.runs.rows, row), Recorded(snap.runById.rows, row)
  PROVE  LET b == applyLoadedWorkflows(s, snap) IN
         /\ b[1] \in Apps /\ KeepsSlot(s, b[1]) /\ b[1].tracked = s.tracked /\ b[1].submitted = s.submitted
         /\ b[2] \subseteq BgRuns /\ b[2] \cap s.delivered = {} /\ b[1].delivered = s.delivered \cup b[2]
         /\ DOMAIN b[1].runs \subseteq DOMAIN s.runs \cup DOMAIN snap.runs.rows
         /\ Recorded(b[1].runs, row)
         /\ \A id \in DOMAIN s.runs :
               id \in DOMAIN b[1].runs \cup b[1].delivered \/ row[id] \in {"canceled", "gone"}
<1> DEFINE now(id) == reconcileLoadedWorkflow(s, snap, id)
           known == {id \in DOMAIN s.runs : now(id) # "gone"}
           followed == [id \in known |-> now(id)]
           rows == [id \in known \cup DOMAIN snap.runs.rows |-> IF id \in known THEN followed[id] ELSE snap.runs.rows[id]]
           ended == deliverWorkflowCompletion(s, followed)
           shown == IF snap.kids.valid THEN visibleWorkflows(rows, snap.kids) ELSE rows
           t == [s EXCEPT !.runs = shown, !.delivered = @ \cup ended]
<1>1. CASE ~snap.runs.valid
  <2>1. applyLoadedWorkflows(s, snap) = <<s, {}>>
    BY <1>1 DEF applyLoadedWorkflows
  <2> QED
    BY <2>1 DEF KeepsSlot
<1>2. CASE snap.runs.valid
  <2>1. applyLoadedWorkflows(s, snap) = <<t, ended>>
    BY <1>2 DEF applyLoadedWorkflows
  <2>2. /\ DOMAIN s.runs \subseteq BgRuns /\ DOMAIN snap.runs.rows \subseteq BgRuns
        /\ \A id \in DOMAIN s.runs : s.runs[id] \in RowStates
        /\ \A id \in DOMAIN snap.runs.rows : snap.runs.rows[id] \in RowStates
        /\ \A id \in DOMAIN snap.runById.rows : snap.runById.rows[id] \in RowStates
    BY SnapshotParts, AppParts, InMaps
  <2>3. \A id \in DOMAIN s.runs : now(id) \in RowStates /\ (now(id) \in {"canceled", "gone"} => row[id] \in {"canceled", "gone"})
    BY <2>2 DEF reconcileLoadedWorkflow, Recorded
  <2>4. known \subseteq DOMAIN s.runs /\ DOMAIN rows = known \cup DOMAIN snap.runs.rows
    OBVIOUS
  <2>5. \A id \in DOMAIN rows : rows[id] \in RowStates /\ (rows[id] \in {"canceled", "gone"} => row[id] \in {"canceled", "gone"})
    <3>1. \A id \in known : rows[id] = now(id)
      OBVIOUS
    <3>2. \A id \in DOMAIN rows \ known : rows[id] = snap.runs.rows[id] /\ id \in DOMAIN snap.runs.rows
      OBVIOUS
    <3> HIDE DEF rows, known, now
    <3> QED
      BY <2>2, <2>3, <2>4, <3>1, <3>2 DEF Recorded
  <2>6. ended = {id \in known : now(id) = "ended" /\ id \notin s.delivered}
    BY DEF deliverWorkflowCompletion
  <2>7. \A id \in known : rows[id] = now(id)
    OBVIOUS
  <2> HIDE DEF rows, known, ended, now
  <2>8. /\ DOMAIN shown \subseteq DOMAIN rows /\ shown = [id \in DOMAIN shown |-> shown[id]]
        /\ \A id \in DOMAIN shown : shown[id] = rows[id]
        /\ \A id \in DOMAIN rows : id \in DOMAIN shown \/ Terminal(rows[id])
    <3>1. CASE snap.kids.valid
      BY <3>1 DEF visibleWorkflows
    <3>2. CASE ~snap.kids.valid
      BY <3>2 DEF rows
    <3> QED
      BY <3>1, <3>2
  <2> HIDE DEF shown
  <2>9. shown \in Maps(BgRuns, RowStates)
    BY <2>2, <2>4, <2>5, <2>8, InMaps
  <2>10. ended \subseteq BgRuns /\ ended \subseteq BgWork /\ ended \cap s.delivered = {}
    BY <2>2, <2>4, <2>6 DEF BgWork
  <2>11. /\ t \in Apps /\ KeepsSlot(s, t) /\ t.tracked = s.tracked /\ t.submitted = s.submitted
         /\ t.delivered = s.delivered \cup ended /\ t.runs = shown
    BY <2>9, <2>10 DEF Apps, KeepsSlot
  <2>12. Recorded(shown, row)
    BY <2>5, <2>8 DEF Recorded
  <2>13. ASSUME NEW id \in DOMAIN s.runs
         PROVE  id \in DOMAIN shown \cup s.delivered \cup ended \/ row[id] \in {"canceled", "gone"}
    <3>1. CASE id \notin known
      BY <3>1, <2>3 DEF known
    <3>2. CASE id \in known
      <4>1. id \in DOMAIN shown \/ now(id) \in {"ended", "canceled"}
        BY <3>2, <2>4, <2>7, <2>8 DEF Terminal
      <4> QED
        BY <3>2, <4>1, <2>3, <2>6
    <3> QED
      BY <3>1, <3>2
  <2> HIDE DEF t
  <2> QED
    BY <2>1, <2>4, <2>8, <2>10, <2>11, <2>12, <2>13
<1> QED
  BY <1>1, <1>2, SnapshotParts

\* Submitted runs: one that was looked for is followed, kept for another refresh, told, canceled
\* or gone, or has been looked for too often.
LEMMA PendingApplied ==
  ASSUME NEW s \in Apps, NEW snap \in Snapshots, NEW row,
         Recorded(s.runs, row), Recorded(snap.runs.rows, row), Recorded(snap.runById.rows, row)
  PROVE  LET c == reconcilePendingWorkflows(s, snap) IN
         /\ c[1] \in Apps /\ KeepsSlot(s, c[1]) /\ c[1].tracked = s.tracked
         /\ c[2] \subseteq BgRuns /\ c[2] \cap s.delivered = {} /\ c[1].delivered = s.delivered \cup c[2]
         /\ DOMAIN c[1].submitted \subseteq DOMAIN s.submitted
         /\ DOMAIN s.runs \subseteq DOMAIN c[1].runs
         /\ DOMAIN c[1].runs \subseteq DOMAIN s.runs \cup DOMAIN s.submitted
         /\ Recorded(c[1].runs, row)
         /\ s.session = Home => \A id \in DOMAIN s.submitted :
               (snap.runById.valid => id \in DOMAIN snap.runs.rows \cup DOMAIN snap.runById.rows)
               => \/ id \in DOMAIN c[1].runs \cup DOMAIN c[1].submitted \cup c[1].delivered
                  \/ s.submitted[id] + 1 >= RetryLimit
                  \/ row[id] \in {"canceled", "gone"}
<1> DEFINE now(id) == reconcilePendingWorkflowRun(s, snap, id)
           found == {id \in DOMAIN s.submitted : now(id) \notin {"unresolved", "gone"} /\ s.session = Home}
           joined == {id \in found : ~Terminal(now(id))}
           ended == deliverWorkflowCompletion(s, [id \in found |-> now(id)])
           runs == [id \in DOMAIN s.runs \cup joined |-> IF id \in DOMAIN s.runs THEN s.runs[id] ELSE now(id)]
           t == [s EXCEPT !.runs = runs, !.delivered = @ \cup ended]
           kept == retainPendingWorkflowRuns(t, {id \in DOMAIN s.submitted : now(id) = "unresolved"})
           u == [t EXCEPT !.submitted = kept]
<1>1. reconcilePendingWorkflows(s, snap) = <<u, ended>>
  BY DEF reconcilePendingWorkflows
<1>2. /\ DOMAIN s.runs \subseteq BgRuns /\ DOMAIN s.submitted \subseteq BgRuns
      /\ \A id \in DOMAIN s.submitted : s.submitted[id] \in Int
      /\ \A id \in DOMAIN s.runs : s.runs[id] \in RowStates
      /\ \A id \in DOMAIN snap.runs.rows : snap.runs.rows[id] \in RowStates
      /\ \A id \in DOMAIN snap.runById.rows : snap.runById.rows[id] \in RowStates
  BY SnapshotParts, AppParts, InMaps
<1>3. ASSUME NEW id \in DOMAIN s.submitted
      PROVE  /\ now(id) \in RowStates \cup {"unresolved"}
             /\ now(id) = "canceled" => row[id] \in {"canceled", "gone"}
             /\ now(id) = "gone" /\ (snap.runById.valid => id \in DOMAIN snap.runs.rows \cup DOMAIN snap.runById.rows)
                => row[id] \in {"canceled", "gone"}
  BY <1>2 DEF reconcilePendingWorkflowRun, Recorded, RowStates
<1>4. ended = {id \in found : now(id) = "ended" /\ id \notin s.delivered}
  BY DEF deliverWorkflowCompletion
<1> HIDE DEF now
<1>5. joined \subseteq DOMAIN s.submitted /\ \A id \in joined : now(id) \in RowStates \ {"canceled", "gone"}
  BY <1>3 DEF Terminal
<1>6. ended \subseteq BgRuns /\ ended \subseteq BgWork /\ ended \cap s.delivered = {}
  <2>1. found \subseteq DOMAIN s.submitted
    OBVIOUS
  <2> HIDE DEF found, ended
  <2> QED
    BY <2>1, <1>2, <1>4 DEF BgWork
<1>7. /\ DOMAIN runs = DOMAIN s.runs \cup joined /\ runs = [id \in DOMAIN runs |-> runs[id]]
      /\ \A id \in DOMAIN s.runs : runs[id] = s.runs[id]
      /\ \A id \in joined \ DOMAIN s.runs : runs[id] = now(id)
  OBVIOUS
<1>8. ASSUME NEW id \in DOMAIN s.submitted, s.session = Home
      PROVE  \/ id \in DOMAIN runs \cup s.delivered \cup ended
             \/ now(id) \in {"unresolved", "gone", "canceled"}
  BY <1>3, <1>4, <1>7, <1>8 DEF Terminal
<1>9. ASSUME NEW id \in DOMAIN s.submitted, now(id) = "unresolved"
      PROVE  id \in DOMAIN runs \cup DOMAIN kept \/ s.submitted[id] + 1 >= RetryLimit
  <2>1. t.runs = runs /\ t.submitted = s.submitted
    BY DEF Apps
  <2>2. DOMAIN kept = {x \in DOMAIN s.submitted : now(x) = "unresolved" /\ x \notin DOMAIN runs /\ s.submitted[x] + 1 < RetryLimit}
    BY <2>1 DEF retainPendingWorkflowRuns
  <2>3. s.submitted[id] + 1 < RetryLimit \/ s.submitted[id] + 1 >= RetryLimit
    BY <1>2, RetryAssumption
  <2> HIDE DEF kept, runs
  <2> QED
    BY <1>9, <2>2, <2>3
<1>10. kept \in Maps(BgRuns, Int) /\ DOMAIN kept \subseteq DOMAIN s.submitted
  <2>1. t.submitted = s.submitted
    BY DEF Apps
  <2>2. /\ DOMAIN kept \subseteq DOMAIN s.submitted /\ kept = [id \in DOMAIN kept |-> kept[id]]
        /\ \A id \in DOMAIN kept : kept[id] = s.submitted[id] + 1
    BY <2>1 DEF retainPendingWorkflowRuns
  <2> HIDE DEF kept
  <2>3. \A id \in DOMAIN kept : kept[id] \in Int
    BY <2>2, <1>2
  <2> QED
    BY <2>2, <2>3, <1>2, InMaps
<1> HIDE DEF joined, ended, runs, found
<1>11. runs \in Maps(BgRuns, RowStates)
  <2>1. DOMAIN runs \subseteq BgRuns /\ \A id \in DOMAIN runs : runs[id] \in RowStates
    BY <1>2, <1>5, <1>7
  <2> QED
    BY <2>1, <1>7, InMaps
<1>12. Recorded(runs, row)
  BY <1>5, <1>7 DEF Recorded
<1> HIDE DEF kept
<1>13. /\ u \in Apps /\ KeepsSlot(s, u) /\ u.tracked = s.tracked /\ u.runs = runs /\ u.submitted = kept
       /\ u.delivered = s.delivered \cup ended
  BY <1>6, <1>10, <1>11 DEF Apps, KeepsSlot
<1> HIDE DEF t, u
<1>14. s.session = Home => \A id \in DOMAIN s.submitted :
          (snap.runById.valid => id \in DOMAIN snap.runs.rows \cup DOMAIN snap.runById.rows)
          => \/ id \in DOMAIN runs \cup DOMAIN kept \cup s.delivered \cup ended
             \/ s.submitted[id] + 1 >= RetryLimit
             \/ row[id] \in {"canceled", "gone"}
  BY <1>3, <1>8, <1>9
<1> QED
  BY <1>1, <1>5, <1>6, <1>7, <1>10, <1>12, <1>13, <1>14

\* A snapshot: what was followed or told still is, unless it was canceled, is gone, or was
\* submitted and looked for too often or not at all.
LEMMA SnapshotApplied ==
  ASSUME NEW s \in Apps, NEW snap \in Snapshots, NEW row, Recorded(s.runs, row), SnapshotSound(snap, row)
  PROVE  LET c == applyTerminalRefreshSnapshot(s, snap) IN
         /\ c[1] \in Apps /\ KeepsSlot(s, c[1])
         /\ c[2] \subseteq BgWork /\ c[2] \cap s.delivered = {} /\ c[1].delivered = s.delivered \cup c[2]
         /\ c[1].tracked \subseteq s.tracked \cup DOMAIN snap.agents.rows
         /\ DOMAIN c[1].submitted \subseteq DOMAIN s.submitted
         /\ DOMAIN c[1].runs \subseteq DOMAIN s.runs \cup DOMAIN s.submitted \cup DOMAIN snap.runs.rows
         /\ Recorded(c[1].runs, row)
         /\ \A id \in s.tracked \cup DOMAIN s.runs :
               Follows(c[1], id) \/ id \in c[1].delivered \/ row[id] \in {"canceled", "gone"}
         /\ s.session = Home => \A id \in DOMAIN s.submitted :
               (snap.runById.valid => id \in DOMAIN snap.runs.rows \cup DOMAIN snap.runById.rows)
               => \/ Follows(c[1], id) \/ id \in c[1].delivered
                  \/ s.submitted[id] + 1 >= RetryLimit
                  \/ row[id] \in {"canceled", "gone"}
<1> DEFINE a == applyLoadedAgentTasks(s, snap)
           b == applyLoadedWorkflows(a[1], snap)
           c == reconcilePendingWorkflows(b[1], snap)
<1>1. applyTerminalRefreshSnapshot(s, snap) = <<c[1], a[2] \cup b[2] \cup c[2]>>
  BY DEF applyTerminalRefreshSnapshot
<1>2. /\ a[1] \in Apps /\ KeepsSlot(s, a[1]) /\ a[1].runs = s.runs /\ a[1].submitted = s.submitted
      /\ a[2] \subseteq BgTasks /\ a[2] \cap s.delivered = {} /\ a[1].delivered = s.delivered \cup a[2]
      /\ a[1].tracked \subseteq s.tracked \cup DOMAIN snap.agents.rows
  BY AgentsApplied
<1>3. \A id \in s.tracked : id \in a[1].tracked \cup a[1].delivered \/ row[id] \in {"canceled", "gone"}
  <2> SUFFICES ASSUME NEW id \in s.tracked
               PROVE  id \in a[1].tracked \cup a[1].delivered \/ row[id] \in {"canceled", "gone"}
    OBVIOUS
  <2>1. \/ id \in a[1].tracked \cup a[1].delivered
        \/ id \in DOMAIN snap.agents.rows /\ snap.agents.rows[id] \in {NoRow, "gone"}
        \/ id \in DOMAIN snap.byId.rows /\ snap.byId.rows[id] \in {NoRow, "gone"}
    BY AgentsApplied
  <2> HIDE DEF a
  <2> QED
    BY <2>1 DEF SnapshotSound, Recorded
<1> HIDE DEF a
<1>4. Recorded(a[1].runs, row) /\ Recorded(snap.runs.rows, row) /\ Recorded(snap.runById.rows, row)
  BY <1>2 DEF SnapshotSound
<1>5. /\ b[1] \in Apps /\ KeepsSlot(a[1], b[1]) /\ b[1].tracked = a[1].tracked /\ b[1].submitted = a[1].submitted
      /\ b[2] \subseteq BgRuns /\ b[2] \cap a[1].delivered = {} /\ b[1].delivered = a[1].delivered \cup b[2]
      /\ DOMAIN b[1].runs \subseteq DOMAIN a[1].runs \cup DOMAIN snap.runs.rows
      /\ Recorded(b[1].runs, row)
      /\ \A id \in DOMAIN a[1].runs :
            id \in DOMAIN b[1].runs \cup b[1].delivered \/ row[id] \in {"canceled", "gone"}
  BY <1>2, <1>4, RunsApplied
<1> HIDE DEF b
<1>6. /\ c[1] \in Apps /\ KeepsSlot(b[1], c[1]) /\ c[1].tracked = b[1].tracked
      /\ c[2] \subseteq BgRuns /\ c[2] \cap b[1].delivered = {} /\ c[1].delivered = b[1].delivered \cup c[2]
      /\ DOMAIN c[1].submitted \subseteq DOMAIN b[1].submitted
      /\ DOMAIN b[1].runs \subseteq DOMAIN c[1].runs
      /\ DOMAIN c[1].runs \subseteq DOMAIN b[1].runs \cup DOMAIN b[1].submitted
      /\ Recorded(c[1].runs, row)
  BY <1>4, <1>5, PendingApplied
<1>7. b[1].session = Home => \A id \in DOMAIN b[1].submitted :
         (snap.runById.valid => id \in DOMAIN snap.runs.rows \cup DOMAIN snap.runById.rows)
         => \/ id \in DOMAIN c[1].runs \cup DOMAIN c[1].submitted \cup c[1].delivered
            \/ b[1].submitted[id] + 1 >= RetryLimit
            \/ row[id] \in {"canceled", "gone"}
  BY <1>4, <1>5, PendingApplied
<1> HIDE DEF c
<1>8. KeepsSlot(s, c[1])
  BY <1>2, <1>5, <1>6 DEF KeepsSlot
<1>9. \A id \in s.tracked \cup DOMAIN s.runs :
         Follows(c[1], id) \/ id \in c[1].delivered \/ row[id] \in {"canceled", "gone"}
  BY <1>2, <1>3, <1>5, <1>6 DEF Follows
<1>10. s.session = Home => \A id \in DOMAIN s.submitted :
          (snap.runById.valid => id \in DOMAIN snap.runs.rows \cup DOMAIN snap.runById.rows)
          => \/ Follows(c[1], id) \/ id \in c[1].delivered
             \/ s.submitted[id] + 1 >= RetryLimit
             \/ row[id] \in {"canceled", "gone"}
  <2>1. b[1].session = s.session /\ b[1].submitted = s.submitted
    BY <1>2, <1>5 DEF KeepsSlot
  <2> QED
    BY <1>7, <2>1 DEF Follows
<1>11. /\ a[2] \cup b[2] \cup c[2] \subseteq BgWork /\ (a[2] \cup b[2] \cup c[2]) \cap s.delivered = {}
       /\ c[1].delivered = s.delivered \cup (a[2] \cup b[2] \cup c[2])
  BY <1>2, <1>5, <1>6 DEF BgWork
<1>12. /\ c[1].tracked \subseteq s.tracked \cup DOMAIN snap.agents.rows
       /\ DOMAIN c[1].submitted \subseteq DOMAIN s.submitted
       /\ DOMAIN c[1].runs \subseteq DOMAIN s.runs \cup DOMAIN s.submitted \cup DOMAIN snap.runs.rows
  BY <1>2, <1>5, <1>6
<1> QED
  BY <1>1, <1>6, <1>8, <1>9, <1>10, <1>11, <1>12

\* Rows only grow older: what was canceled or gone stays so, what exists stays.
RowsAge(row, row2) ==
    \A id \in BgWork : /\ row[id] \in {"canceled", "gone"} => row2[id] \in {"canceled", "gone"}
                       /\ row[id] # NoRow => row2[id] # NoRow

\* The parts of a request.
LEMMA RequestParts ==
  ASSUME NEW w \in Requests
  PROVE  w.snapshot \in Snapshots /\ w.tracked \subseteq BgTasks /\ w.runIds \subseteq BgRuns /\ w.generation \in Int
BY DEF Requests

\* Older rows keep the invariant.
LEMMA AgedSound ==
  ASSUME NEW s, NEW workers, NEW row, NEW t, NEW m, NEW l, NEW row2 \in [BgWork -> RowStates],
         RefreshSound(s, workers, row, t, m, l), RowsAge(row, row2)
  PROVE  RefreshSound(s, workers, row2, t, m, l)
<1>1. ASSUME NEW rows, DOMAIN rows \subseteq BgWork, Recorded(rows, row)
      PROVE  Recorded(rows, row2)
  BY <1>1 DEF Recorded, RowsAge
<1>2. ASSUME NEW ids, ids \subseteq BgWork, Exist(ids, row)
      PROVE  Exist(ids, row2)
  BY <1>2 DEF Exist, RowsAge
<1>3. ASSUME NEW snap \in Snapshots, SnapshotSound(snap, row)
      PROVE  SnapshotSound(snap, row2)
  <2>1. /\ DOMAIN snap.agents.rows \subseteq BgWork /\ DOMAIN snap.byId.rows \subseteq BgWork
        /\ DOMAIN snap.runs.rows \subseteq BgWork /\ DOMAIN snap.runById.rows \subseteq BgWork
    BY SnapshotParts, InMaps DEF BgWork
  <2> QED
    BY <1>1, <1>2, <1>3, <2>1 DEF SnapshotSound
<1>4. RecordsSound(s, workers, row2)
  <2>1. DOMAIN s.runs \subseteq BgWork /\ s.tracked \subseteq BgWork
    BY AppParts DEF RefreshSound, BgWork
  <2>2. ASSUME NEW w \in workers
        PROVE  SnapshotSound(w.snapshot, row2) /\ Exist(w.tracked, row2)
    <3>1. w \in Requests
      BY DEF RefreshSound
    <3>2. w.snapshot \in Snapshots /\ w.tracked \subseteq BgWork
      BY <3>1, RequestParts DEF BgWork
    <3> QED
      BY <1>2, <1>3, <3>2 DEF RefreshSound, RecordsSound
  <2> QED
    BY <1>1, <1>2, <2>1, <2>2 DEF RefreshSound, RecordsSound
<1>5. Remembered(s, row2, t, m, l)
  BY DEF RefreshSound, Remembered, RowsAge
<1> QED
  BY <1>4, <1>5 DEF RefreshSound

\* Setting one field of the terminal.
LEMMA AppSet ==
  ASSUME NEW s \in Apps
  PROVE  /\ \A x \in Int : [s EXCEPT !.generation = x] \in Apps
         /\ \A x \in Int : [s EXCEPT !.inFlightGeneration = x] \in Apps
         /\ \A x \in Int : [s EXCEPT !.visits = x] \in Apps
         /\ \A x \in BOOLEAN : [s EXCEPT !.inFlight = x] \in Apps
         /\ \A x \in BOOLEAN : [s EXCEPT !.pending = x] \in Apps
         /\ \A x \in BOOLEAN : [s EXCEPT !.inspecting = x] \in Apps
         /\ \A x \in {Home, "child", "other"} : [s EXCEPT !.session = x] \in Apps
         /\ \A x \in SUBSET BgTasks : [s EXCEPT !.tracked = x] \in Apps
         /\ \A x \in SUBSET BgWork : [s EXCEPT !.delivered = x] \in Apps
         /\ \A x \in Maps(BgRuns, RowStates) : [s EXCEPT !.runs = x] \in Apps
         /\ \A x \in Maps(BgRuns, Int) : [s EXCEPT !.submitted = x] \in Apps
BY DEF Apps

\* An empty snapshot says nothing.
LEMMA EmptySnapshot ==
  ASSUME NEW row
  PROVE  /\ NoSnapshot \in Snapshots /\ SnapshotSound(NoSnapshot, row) /\ ~NoSnapshot.runById.valid
         /\ DOMAIN NoSnapshot.agents.rows = {} /\ DOMAIN NoSnapshot.runs.rows = {}
<1>1. DOMAIN NoRows = {} /\ NoRows = [id \in {} |-> NoRows[id]]
  BY DEF NoRows
<1>2. \A D, R : NoRows \in Maps(D, R)
  BY <1>1, InMaps
<1> HIDE DEF NoRows
<1>3. NoSnapshot \in Snapshots
  BY <1>2 DEF NoSnapshot, Snapshots, SectionsOf, Section
<1>4. SnapshotSound(NoSnapshot, row)
  BY <1>1 DEF NoSnapshot, Section, SnapshotSound, Recorded, Exist
<1> QED
  BY <1>1, <1>3, <1>4 DEF NoSnapshot, Section

\* Asking for a refresh keeps the invariant: the new worker starts from nothing and knows every
\* run that is followed.
LEMMA Asked ==
  ASSUME NEW s, NEW workers, NEW row, NEW t, NEW m, NEW l, RefreshSound(s, workers, row, t, m, l)
  PROVE  LET r == requestTerminalRefresh(s, workers) IN
         /\ RefreshSound(r[1], r[2], row, t, m, l)
         /\ r[1].tracked = s.tracked /\ r[1].runs = s.runs /\ r[1].submitted = s.submitted
<1> DEFINE g == s.generation + 1
           waits == [s EXCEPT !.pending = TRUE]
           starts == [s EXCEPT !.generation = g, !.inFlight = TRUE, !.inFlightGeneration = g]
           new == captureTerminalRefreshRequest(s, g)
<1>0. s \in Apps
  BY DEF RefreshSound
<1>1. CASE s.inspecting
  <2>1. requestTerminalRefresh(s, workers) = <<s, workers>>
    BY <1>1 DEF requestTerminalRefresh
  <2> QED
    BY <2>1
<1>2. CASE ~s.inspecting /\ s.inFlight
  <2>1. requestTerminalRefresh(s, workers) = <<waits, workers>>
    BY <1>2 DEF requestTerminalRefresh
  <2>2. /\ waits \in Apps /\ waits.session = s.session /\ waits.inspecting = s.inspecting
        /\ waits.inFlight = s.inFlight /\ waits.generation = s.generation
        /\ waits.inFlightGeneration = s.inFlightGeneration /\ waits.tracked = s.tracked /\ waits.runs = s.runs
        /\ waits.submitted = s.submitted /\ waits.delivered = s.delivered
    <3>1. waits \in Apps
      BY <1>0 DEF Apps
    <3> QED
      BY <1>0, <3>1 DEF Apps
  <2> HIDE DEF waits
  <2>3. RefreshSound(waits, workers, row, t, m, l)
    BY <2>2 DEF RefreshSound, OneRefresh, OtherIsEmpty, DeliveredIsTold, RecordsSound, LookupsSound, Remembered, Follows
  <2> QED
    BY <2>1, <2>2, <2>3
<1>3. CASE ~s.inspecting /\ ~s.inFlight
  <2>1. workers = {}
    BY <1>3 DEF RefreshSound, OneRefresh
  <2>2. requestTerminalRefresh(s, workers) = <<starts, {new}>>
    BY <1>3, <2>1 DEF requestTerminalRefresh
  <2>3. /\ starts \in Apps /\ starts.session = s.session /\ starts.inspecting = s.inspecting
        /\ starts.inFlight = TRUE /\ starts.generation = g
        /\ starts.inFlightGeneration = g /\ starts.tracked = s.tracked /\ starts.runs = s.runs
        /\ starts.submitted = s.submitted /\ starts.delivered = s.delivered
    <3>0. g \in Int
      BY <1>0 DEF Apps
    <3>1. [s EXCEPT !.generation = g] \in Apps
      BY <1>0, <3>0, AppSet
    <3>2. [s EXCEPT !.generation = g, !.inFlight = TRUE] \in Apps
      BY <3>1, AppSet
    <3>3. starts \in Apps
      BY <3>0, <3>2, AppSet
    <3> QED
      BY <1>0, <3>3 DEF Apps
  <2>4. /\ new.generation = g /\ new.session = s.session /\ new.at = "agents" /\ new.tracked = s.tracked
        /\ new.runIds = DOMAIN s.runs \cup DOMAIN s.submitted /\ new.snapshot = NoSnapshot
    BY DEF captureTerminalRefreshRequest
  <2>5. new \in Requests
    <3>1. /\ g \in Int /\ s.session \in {Home, "child", "other"} /\ "agents" \in Stages /\ s.tracked \subseteq BgTasks
          /\ DOMAIN s.runs \cup DOMAIN s.submitted \subseteq BgRuns /\ NoSnapshot \in Snapshots
      BY <1>0, AppParts, EmptySnapshot DEF Apps, Stages
    <3> QED
      BY <3>1 DEF captureTerminalRefreshRequest, Requests
  <2> HIDE DEF starts, new
  <2>6. OneRefresh(starts, {new})
    <3>1. s.session # "child" /\ g \in Int
      BY <1>0, <1>3 DEF RefreshSound, OneRefresh, Apps
    <3> QED
      BY <1>3, <2>3, <2>4, <3>1 DEF OneRefresh
  <2>7. OtherIsEmpty(starts, {new}, m)
    BY <2>3, <2>4, EmptySnapshot DEF RefreshSound, OtherIsEmpty
  <2>8. RecordsSound(starts, {new}, row)
    BY <2>3, <2>4, EmptySnapshot DEF RefreshSound, RecordsSound
  <2>9. LookupsSound(starts, {new}, l)
    BY <2>3, <2>4, EmptySnapshot DEF LookupsSound, LookedUp
  <2>10. DeliveredIsTold(starts, t) /\ Remembered(starts, row, t, m, l)
    BY <2>3 DEF RefreshSound, DeliveredIsTold, Remembered, Follows
  <2>11. RefreshSound(starts, {new}, row, t, m, l)
    BY <2>3, <2>5, <2>6, <2>7, <2>8, <2>9, <2>10 DEF RefreshSound
  <2> QED
    BY <2>2, <2>3, <2>11
<1> QED
  BY <1>1, <1>2, <1>3

\* Telling what was not told before.
LEMMA ToldOnceMore ==
  ASSUME NEW t \in [BgWork -> Nat], NEW old, NEW ids, ids \cap old = {},
         \A id \in BgWork : t[id] = IF id \in old THEN 1 ELSE 0
  PROVE  LET t2 == [id \in BgWork |-> t[id] + IF id \in ids THEN 1 ELSE 0] IN
         /\ t2 \in [BgWork -> Nat]
         /\ \A id \in BgWork : t2[id] = IF id \in old \cup ids THEN 1 ELSE 0
         /\ \A id \in BgWork : t[id] > 0 \/ id \in ids => t2[id] > 0
<1> SUFFICES ASSUME NEW id \in BgWork
             PROVE  LET x == t[id] + IF id \in ids THEN 1 ELSE 0
                    IN x \in Nat /\ x = (IF id \in old \cup ids THEN 1 ELSE 0) /\ (t[id] > 0 \/ id \in ids => x > 0)
  OBVIOUS
<1>1. t[id] \in Nat /\ t[id] = IF id \in old THEN 1 ELSE 0
  OBVIOUS
<1>2. id \in ids => id \notin old
  OBVIOUS
<1> QED
  BY <1>1, <1>2

\* What applyTerminalRefresh makes of the terminal, of what was told, met and submitted late.
Freed(s) == [s EXCEPT !.inFlight = FALSE, !.inFlightGeneration = 0, !.pending = FALSE]
ToldAlso(t, ids) == [id \in BgWork |-> t[id] + IF id \in ids THEN 1 ELSE 0]
MetAlso(m, s) == m \cup s.tracked \cup DOMAIN s.runs \cup DOMAIN s.submitted
LateAlso(l, s) == l \cup {id \in DOMAIN s.submitted : s.submitted[id] + 1 >= RetryLimit}

\* Applying what came back keeps the invariant.
LEMMA AppliedKept ==
  ASSUME NEW s, NEW workers, NEW row, NEW t, NEW m, NEW l, RefreshSound(s, workers, row, t, m, l),
         NEW w \in workers
  PROVE  LET applied == Snapshot(Freed(s), w)
         IN RefreshSound(applied[1], {}, row, ToldAlso(t, applied[2]), MetAlso(m, applied[1]), LateAlso(l, s))
<1> USE DEF Freed, ToldAlso, MetAlso, LateAlso
<1> DEFINE free == Freed(s)
           applied == Snapshot(free, w)
           t2 == ToldAlso(t, applied[2])
           m2 == MetAlso(m, applied[1])
           l2 == LateAlso(l, s)
           c == applied[1]
<1>1. /\ s \in Apps /\ row \in [BgWork -> RowStates] /\ t \in [BgWork -> Nat] /\ m \subseteq BgWork
      /\ w \in Requests /\ RecordsSound(s, workers, row) /\ DeliveredIsTold(s, t) /\ OtherIsEmpty(s, workers, m)
  BY DEF RefreshSound
<1>2. /\ free \in Apps /\ free.session = s.session /\ free.inspecting = s.inspecting /\ free.inFlight = FALSE
      /\ free.generation = s.generation /\ free.tracked = s.tracked /\ free.runs = s.runs
      /\ free.submitted = s.submitted /\ free.delivered = s.delivered
  <2>1. free \in Apps
    <3> DEFINE e1 == [s EXCEPT !.inFlight = FALSE]
               e2 == [e1 EXCEPT !.inFlightGeneration = 0]
    <3>1. e1 \in Apps
      BY <1>1, AppSet
    <3> HIDE DEF e1
    <3>2. e2 \in Apps
      BY <3>1 DEF Apps
    <3> HIDE DEF e2
    <3>3. [e2 EXCEPT !.pending = FALSE] \in Apps
      BY <3>2, AppSet
    <3> QED
      BY <3>3 DEF e1, e2
  <2> QED
    BY <1>1, <2>1 DEF Apps
<1> HIDE DEF free
<1>3. w.snapshot \in Snapshots /\ Recorded(free.runs, row) /\ SnapshotSound(w.snapshot, row) /\ w.session # "child"
  BY <1>1, <1>2, RequestParts DEF RecordsSound, RefreshSound, OneRefresh
<1>4. /\ c \in Apps /\ c.session = s.session /\ c.inspecting = s.inspecting /\ c.inFlight = FALSE
      /\ applied[2] \subseteq BgWork /\ applied[2] \cap s.delivered = {} /\ c.delivered = s.delivered \cup applied[2]
      /\ Recorded(c.runs, row)
      /\ \A id \in s.tracked \cup DOMAIN s.runs :
            Follows(c, id) \/ id \in c.delivered \/ row[id] \in {"canceled", "gone"}
  <2>1. CASE ~(w.generation = free.generation /\ w.session = free.session)
    <3>1. applied = <<free, {}>>
      BY <2>1 DEF Snapshot
    <3> HIDE DEF applied
    <3> QED
      BY <1>2, <1>3, <3>1 DEF Follows
  <2>2. CASE w.generation = free.generation /\ w.session = free.session
    <3>1. applied = applyTerminalRefreshSnapshot(free, w.snapshot)
      BY <2>2 DEF Snapshot
    <3> HIDE DEF applied
    <3> QED
      BY <1>2, <1>3, <3>1, SnapshotApplied DEF KeepsSlot
  <2> QED
    BY <2>1, <2>2
<1>5. /\ \/ c.tracked \subseteq s.tracked
         \/ w.session = s.session /\ c.tracked \subseteq s.tracked \cup DOMAIN w.snapshot.agents.rows
      /\ DOMAIN c.submitted \subseteq DOMAIN s.submitted
      /\ \/ DOMAIN c.runs \subseteq DOMAIN s.runs
         \/ w.session = s.session /\ DOMAIN c.runs \subseteq DOMAIN s.runs \cup DOMAIN s.submitted \cup DOMAIN w.snapshot.runs.rows
  <2>1. CASE ~(w.generation = free.generation /\ w.session = free.session)
    <3>1. applied = <<free, {}>>
      BY <2>1 DEF Snapshot
    <3> HIDE DEF applied
    <3> QED
      BY <1>2, <3>1
  <2>2. CASE w.generation = free.generation /\ w.session = free.session
    <3>1. applied = applyTerminalRefreshSnapshot(free, w.snapshot)
      BY <2>2 DEF Snapshot
    <3> HIDE DEF applied
    <3> QED
      BY <1>2, <1>3, <2>2, <3>1, SnapshotApplied
  <2> QED
    BY <2>1, <2>2
<1>6. \A id \in DOMAIN s.submitted \ l2 :
         Follows(c, id) \/ id \in c.delivered \/ row[id] \in {"canceled", "gone"}
  <2> SUFFICES ASSUME NEW id \in DOMAIN s.submitted, id \notin l2
               PROVE  Follows(c, id) \/ id \in c.delivered \/ row[id] \in {"canceled", "gone"}
    OBVIOUS
  <2>1. CASE ~(w.generation = free.generation /\ w.session = free.session)
    <3>1. applied = <<free, {}>>
      BY <2>1 DEF Snapshot
    <3> HIDE DEF applied
    <3> QED
      BY <1>2, <3>1 DEF Follows
  <2>2. CASE w.generation = free.generation /\ w.session = free.session
    <3>1. applied = applyTerminalRefreshSnapshot(free, w.snapshot)
      BY <2>2 DEF Snapshot
    <3> HIDE DEF applied
    <3>2. free.session = Home
      <4>1. s.session \in {Home, "child", "other"} /\ s.session # "other"
        BY <1>1 DEF Apps, OtherIsEmpty
      <4> QED
        BY <1>2, <1>3, <2>2, <4>1
    <3>3. w.snapshot.runById.valid => id \in DOMAIN w.snapshot.runs.rows \cup DOMAIN w.snapshot.runById.rows
      <4>1. id \in w.runIds
        BY <1>2, <2>2 DEF RefreshSound, LookupsSound
      <4> QED
        BY <4>1 DEF RefreshSound, LookupsSound, LookedUp
    <3>4. ~(free.submitted[id] + 1 >= RetryLimit)
      BY <1>2
    <3> HIDE DEF l2
    <3> QED
      BY <1>2, <1>3, <3>1, <3>2, <3>3, <3>4, SnapshotApplied
  <2> QED
    BY <2>1, <2>2
<1> HIDE DEF applied
<1>7. /\ t2 \in [BgWork -> Nat] /\ DeliveredIsTold(c, t2)
      /\ \A id \in BgWork : t[id] > 0 \/ id \in c.delivered => t2[id] > 0
  <2>1. \A id \in BgWork : t[id] = IF id \in s.delivered THEN 1 ELSE 0
    BY <1>1 DEF DeliveredIsTold
  <2>2. /\ t2 \in [BgWork -> Nat]
        /\ \A id \in BgWork : t2[id] = IF id \in s.delivered \cup applied[2] THEN 1 ELSE 0
        /\ \A id \in BgWork : t[id] > 0 \/ id \in applied[2] => t2[id] > 0
    BY <1>1, <1>4, <2>1, ToldOnceMore
  <2> HIDE DEF t2
  <2> QED
    BY <1>4, <2>1, <2>2 DEF DeliveredIsTold
<1> HIDE DEF t2
<1>8. m2 \subseteq BgWork
  <2>1. c.tracked \subseteq BgTasks /\ DOMAIN c.runs \subseteq BgRuns /\ DOMAIN c.submitted \subseteq BgRuns
    BY <1>4, AppParts
  <2> QED
    BY <1>1, <2>1 DEF BgWork
<1>9. OneRefresh(c, {})
  BY <1>4 DEF RefreshSound, OneRefresh
<1>10. OtherIsEmpty(c, {}, m2)
  <2>1. c.session = "other" => c.tracked = {} /\ DOMAIN c.runs = {} /\ DOMAIN c.submitted = {} /\ m = {}
    BY <1>1, <1>4, <1>5 DEF OtherIsEmpty
  <2> QED
    BY <2>1 DEF OtherIsEmpty
<1>11. RecordsSound(c, {}, row)
  BY <1>1, <1>3, <1>4, <1>5 DEF RecordsSound, SnapshotSound, Exist
<1>12. Remembered(c, row, t2, m2, l2)
  <2> SUFFICES ASSUME NEW id \in m2 \ l2
               PROVE  Follows(c, id) \/ t2[id] > 0 \/ row[id] \in {"canceled", "gone"}
    BY DEF Remembered
  <2>1. CASE id \notin m
    BY <2>1 DEF Follows
  <2>2. CASE id \in m
    <3>1. id \notin l
      OBVIOUS
    <3>2. Follows(s, id) \/ t[id] > 0 \/ row[id] \in {"canceled", "gone"}
      BY <2>2, <3>1 DEF RefreshSound, Remembered
    <3> HIDE DEF m2, l2
    <3>3. CASE id \in DOMAIN s.submitted
      BY <1>6, <1>7, <1>8, <3>3
    <3>4. CASE id \in s.tracked \cup DOMAIN s.runs
      BY <1>4, <1>7, <1>8, <3>4
    <3> QED
      BY <1>7, <1>8, <3>2, <3>3, <3>4 DEF Follows
  <2> QED
    BY <2>1, <2>2
<1>13. LookupsSound(c, {}, l2)
  BY DEF LookupsSound
<1> HIDE DEF m2, l2
<1>14. RefreshSound(c, {}, row, t2, m2, l2)
  BY <1>1, <1>4, <1>7, <1>8, <1>9, <1>10, <1>11, <1>12, <1>13 DEF RefreshSound
<1> QED
  BY <1>14 DEF free, applied, t2, m2, l2

\* A worker's read keeps the invariant if what it read is sound.
LEMMA AdvanceStep ==
  ASSUME RefreshInv, NEW w \in rfWorkers, NEW at \in Stages, NEW snap \in Snapshots, Advance(w, at, snap),
         SnapshotSound(snap, bgRow), LookedUp(at, w.runIds, snap),
         w.session = "other" => DOMAIN snap.agents.rows = {} /\ DOMAIN snap.runs.rows = {}
  PROVE  RefreshInv'
<1> DEFINE new == [w EXCEPT !.at = at, !.snapshot = snap]
<1>1. rfWorkers = {w} /\ w \in Requests
  BY DEF RefreshInv, RefreshSound, OneRefresh
<1>2. rfWorkers' = {new} /\ UNCHANGED <<rf, bgRow, bgKids, told, met, late>>
  BY <1>1 DEF Advance
<1>3. /\ new \in Requests /\ new.generation = w.generation /\ new.session = w.session /\ new.at = at
      /\ new.tracked = w.tracked /\ new.runIds = w.runIds /\ new.snapshot = snap
  <2>1. new \in Requests
    BY <1>1 DEF Requests
  <2> QED
    BY <1>1, <2>1 DEF Requests
<1> HIDE DEF new
<1>4. RefreshSound(rf, {new}, bgRow, told, met, late)
  <2>1. OneRefresh(rf, {new})
    BY <1>1, <1>3 DEF RefreshInv, RefreshSound, OneRefresh
  <2>2. OtherIsEmpty(rf, {new}, met)
    BY <1>1, <1>3 DEF RefreshInv, RefreshSound, OtherIsEmpty
  <2>3. RecordsSound(rf, {new}, bgRow)
    BY <1>1, <1>3 DEF RefreshInv, RefreshSound, RecordsSound
  <2>4. LookupsSound(rf, {new}, late)
    BY <1>1, <1>3 DEF RefreshInv, RefreshSound, LookupsSound
  <2> QED
    BY <1>3, <2>1, <2>2, <2>3, <2>4 DEF RefreshInv, RefreshSound
<1> QED
  BY <1>2, <1>4 DEF RefreshInv

\* Setting one section of a snapshot.
LEMMA SectionSet ==
  ASSUME NEW snap \in Snapshots
  PROVE  /\ \A x \in SectionsOf(BgTasks, RowStates) : [snap EXCEPT !.agents = x] \in Snapshots
         /\ \A x \in SectionsOf(BgTasks, RowStates) : [snap EXCEPT !.byId = x] \in Snapshots
         /\ \A x \in SectionsOf(BgRuns, RowStates) : [snap EXCEPT !.runs = x] \in Snapshots
         /\ \A x \in SectionsOf(BgRuns, RowStates) : [snap EXCEPT !.runById = x] \in Snapshots
         /\ \A x \in SectionsOf(BgRuns, BOOLEAN) : [snap EXCEPT !.kids = x] \in Snapshots
BY DEF Snapshots

\* The rows that are read at one moment say what is so at that moment.
LEMMA RowsRead ==
  ASSUME bgRow \in [BgWork -> RowStates], NEW D \in SUBSET BgWork, NEW got \in SUBSET D, NEW valid \in BOOLEAN
  PROVE  LET rows == [id \in got |-> bgRow[id]] IN
         /\ Section(valid, rows) \in SectionsOf(D, RowStates)
         /\ Section(valid, rows).rows = rows /\ Section(valid, rows).valid = valid
         /\ DOMAIN rows = got /\ Recorded(rows, bgRow)
<1> DEFINE rows == [id \in got |-> bgRow[id]]
<1>1. rows = [id \in DOMAIN rows |-> rows[id]] /\ DOMAIN rows \subseteq D /\ \A id \in DOMAIN rows : rows[id] \in RowStates
  OBVIOUS
<1>2. DOMAIN rows = got /\ Recorded(rows, bgRow)
  BY DEF Recorded
<1> HIDE DEF rows
<1>3. rows \in Maps(D, RowStates)
  BY <1>1, InMaps
<1>4. Section(valid, rows) \in SectionsOf(D, RowStates)
  BY <1>3 DEF Section, SectionsOf
<1>5. Section(valid, rows).rows = rows /\ Section(valid, rows).valid = valid
  BY DEF Section
<1> QED
  BY <1>2, <1>4, <1>5 DEF rows

\* What a worker lists exists, and nothing is listed for another session.
LEMMA ListRead ==
  ASSUME bgRow \in [BgWork -> RowStates], NEW D \in SUBSET BgWork, NEW ids \in SUBSET D, NEW w, NEW ok \in BOOLEAN
  PROVE  LET sec == IF ok THEN Section(TRUE, Of(w, ids)) ELSE Section(FALSE, NoRows) IN
         /\ sec \in SectionsOf(D, RowStates) /\ Recorded(sec.rows, bgRow)
         /\ Exist(DOMAIN sec.rows, bgRow) /\ \A id \in DOMAIN sec.rows : sec.rows[id] # NoRow
         /\ w.session = "other" => DOMAIN sec.rows = {}
<1> DEFINE got == {x \in ids : w.session = Home /\ bgRow[x] \notin {NoRow, "gone"}}
           rows == [id \in got |-> bgRow[id]]
           none == [id \in {} |-> bgRow[id]]
<1>1. CASE ok
  <2>1. Of(w, ids) = rows /\ got \subseteq D /\ \A id \in got : rows[id] # NoRow /\ bgRow[id] # NoRow
    BY DEF Of
  <2>2. w.session = "other" => got = {}
    BY DEF Home
  <2>3. /\ Section(TRUE, rows) \in SectionsOf(D, RowStates) /\ Section(TRUE, rows).rows = rows
        /\ DOMAIN rows = got /\ Recorded(rows, bgRow)
    BY <2>1, RowsRead
  <2> HIDE DEF got, rows
  <2> QED
    BY <1>1, <2>1, <2>2, <2>3 DEF Exist
<1>2. CASE ~ok
  <2>1. NoRows = none
    BY DEF NoRows
  <2>2. /\ Section(FALSE, none) \in SectionsOf(D, RowStates) /\ Section(FALSE, none).rows = none
        /\ DOMAIN none = {} /\ Recorded(none, bgRow)
    BY RowsRead
  <2> HIDE DEF none
  <2> QED
    BY <1>2, <2>1, <2>2 DEF Exist
<1> QED
  BY <1>1, <1>2

\* A lookup has read some of what it was asked for, and all of it if it did not fail.
LEMMA LookedUpRead ==
  ASSUME bgRow \in [BgWork -> RowStates], NEW D \in SUBSET BgWork, NEW ids \in SUBSET D, NEW w,
         NEW sec \in lookUp(w, ids)
  PROVE  /\ sec \in SectionsOf(D, RowStates) /\ Recorded(sec.rows, bgRow)
         /\ DOMAIN sec.rows \subseteq ids /\ (sec.valid => DOMAIN sec.rows = ids)
         /\ \A id \in DOMAIN sec.rows : sec.rows[id] = bgRow[id]
<1>1. PICK got \in SUBSET ids, valid \in BOOLEAN :
         sec = Section(valid, [id \in got |-> bgRow[id]]) /\ (valid => got = ids)
  BY DEF lookUp
<1> DEFINE rows == [id \in got |-> bgRow[id]]
<1>2. /\ Section(valid, rows) \in SectionsOf(D, RowStates) /\ Section(valid, rows).rows = rows
      /\ Section(valid, rows).valid = valid /\ DOMAIN rows = got /\ Recorded(rows, bgRow)
  BY RowsRead
<1>3. \A id \in got : rows[id] = bgRow[id]
  OBVIOUS
<1> HIDE DEF rows
<1> QED
  BY <1>1, <1>2, <1>3 DEF rows

\* What the invariant says of a worker.
LEMMA WorkerFacts ==
  ASSUME RefreshInv, NEW w \in rfWorkers
  PROVE  /\ w.snapshot \in Snapshots /\ w.tracked \subseteq BgTasks /\ w.runIds \subseteq BgRuns
         /\ SnapshotSound(w.snapshot, bgRow) /\ Exist(w.tracked, bgRow) /\ LookedUp(w.at, w.runIds, w.snapshot)
         /\ w.session = "other" => DOMAIN w.snapshot.agents.rows = {} /\ DOMAIN w.snapshot.runs.rows = {}
         /\ bgRow \in [BgWork -> RowStates] /\ bgKids \in [BgRuns -> BOOLEAN]
         /\ BgTasks \subseteq BgWork /\ BgRuns \subseteq BgWork
BY RequestParts DEF RefreshInv, RefreshSound, RecordsSound, LookupsSound, OtherIsEmpty, BgWork

\* The worker's reads.
LEMMA AgentsReadStep ==
  ASSUME RefreshInv, NEW w \in rfWorkers, setAgentListSections(w)
  PROVE  RefreshInv'
<1> DEFINE ids == NewestOf(Created(BgTasks))
           sec(ok) == IF ok THEN Section(TRUE, Of(w, ids)) ELSE Section(FALSE, NoRows)
<1>1. PICK ok \in BOOLEAN : Advance(w, "lookups", [w.snapshot EXCEPT !.agents = sec(ok)])
  BY DEF setAgentListSections
<1>2. ids \subseteq BgTasks
  BY DEF NewestOf, Created
<1> HIDE DEF ids
<1>3. /\ sec(ok) \in SectionsOf(BgTasks, RowStates) /\ Recorded(sec(ok).rows, bgRow)
      /\ Exist(DOMAIN sec(ok).rows, bgRow) /\ \A id \in DOMAIN sec(ok).rows : sec(ok).rows[id] # NoRow
      /\ w.session = "other" => DOMAIN sec(ok).rows = {}
  BY <1>2, WorkerFacts, ListRead
<1> HIDE DEF sec
<1> DEFINE snap == [w.snapshot EXCEPT !.agents = sec(ok)]
<1>4. /\ snap \in Snapshots /\ snap.agents = sec(ok) /\ snap.byId = w.snapshot.byId
      /\ snap.runs = w.snapshot.runs /\ snap.runById = w.snapshot.runById
  <2>1. snap \in Snapshots
    BY <1>3, WorkerFacts, SectionSet
  <2> QED
    BY <2>1, WorkerFacts DEF Snapshots
<1>5. w.at = "agents"
  BY DEF setAgentListSections
<1> HIDE DEF snap
<1>6. SnapshotSound(snap, bgRow)
  BY <1>3, <1>4, WorkerFacts DEF SnapshotSound
<1>7. LookedUp("lookups", w.runIds, snap)
  BY <1>4, <1>5, WorkerFacts DEF LookedUp
<1>8. w.session = "other" => DOMAIN snap.agents.rows = {} /\ DOMAIN snap.runs.rows = {}
  BY <1>3, <1>4, WorkerFacts
<1> QED
  BY <1>1, <1>4, <1>6, <1>7, <1>8, AdvanceStep DEF Stages, snap

\* So does the look-up of the tracked tasks the list did not hold.
LEMMA TasksLookedUpStep ==
  ASSUME RefreshInv, NEW w \in rfWorkers, loadTrackedAgentTasks(w)
  PROVE  RefreshInv'
<1> DEFINE ids == w.tracked \ DOMAIN w.snapshot.agents.rows
<1>1. PICK sec \in lookUp(w, ids) : Advance(w, "runs", [w.snapshot EXCEPT !.byId = sec])
  BY DEF loadTrackedAgentTasks
<1>2. ids \subseteq BgTasks /\ Exist(ids, bgRow)
  BY WorkerFacts DEF Exist
<1> HIDE DEF ids
<1>3. /\ sec \in SectionsOf(BgTasks, RowStates) /\ Recorded(sec.rows, bgRow)
      /\ DOMAIN sec.rows \subseteq ids /\ \A id \in DOMAIN sec.rows : sec.rows[id] = bgRow[id]
  <2>1. bgRow \in [BgWork -> RowStates] /\ BgTasks \in SUBSET BgWork /\ ids \in SUBSET BgTasks
    BY <1>2, WorkerFacts
  <2> QED
    BY <2>1, LookedUpRead
<1> DEFINE snap == [w.snapshot EXCEPT !.byId = sec]
<1>4. /\ snap \in Snapshots /\ snap.agents = w.snapshot.agents /\ snap.byId = sec
      /\ snap.runs = w.snapshot.runs /\ snap.runById = w.snapshot.runById
  <2>1. snap \in Snapshots
    BY <1>3, WorkerFacts, SectionSet
  <2> QED
    BY <2>1, WorkerFacts DEF Snapshots
<1>5. w.at = "lookups"
  BY DEF loadTrackedAgentTasks
<1> HIDE DEF snap
<1>6. SnapshotSound(snap, bgRow)
  BY <1>2, <1>3, <1>4, WorkerFacts DEF SnapshotSound, Exist
<1>7. LookedUp("runs", w.runIds, snap)
  BY <1>4, <1>5, WorkerFacts DEF LookedUp
<1>8. w.session = "other" => DOMAIN snap.agents.rows = {} /\ DOMAIN snap.runs.rows = {}
  BY <1>4, WorkerFacts
<1> QED
  BY <1>1, <1>4, <1>6, <1>7, <1>8, AdvanceStep DEF Stages, snap

\* The sections of the runs hold what their rows said when they were read.
LEMMA RunsReadStep ==
  ASSUME RefreshInv, NEW w \in rfWorkers, loadWorkflowRefreshSections(w)
  PROVE  RefreshInv'
<1> DEFINE sec(ok) == IF ok THEN Section(TRUE, Of(w, ActiveRuns)) ELSE Section(FALSE, NoRows)
<1>1. PICK ok \in BOOLEAN : Advance(w, "run_lookups", [w.snapshot EXCEPT !.runs = sec(ok)])
  BY DEF loadWorkflowRefreshSections
<1>2. ActiveRuns \subseteq BgRuns
  BY DEF ActiveRuns, Created
<1>3. /\ sec(ok) \in SectionsOf(BgRuns, RowStates) /\ Recorded(sec(ok).rows, bgRow)
      /\ w.session = "other" => DOMAIN sec(ok).rows = {}
  BY <1>2, WorkerFacts, ListRead
<1> HIDE DEF sec
<1> DEFINE snap == [w.snapshot EXCEPT !.runs = sec(ok)]
<1>4. /\ snap \in Snapshots /\ snap.agents = w.snapshot.agents /\ snap.byId = w.snapshot.byId
      /\ snap.runs = sec(ok) /\ snap.runById = w.snapshot.runById
  <2>1. snap \in Snapshots
    BY <1>3, WorkerFacts, SectionSet
  <2> QED
    BY <2>1, WorkerFacts DEF Snapshots
<1>5. w.at = "runs"
  BY DEF loadWorkflowRefreshSections
<1> HIDE DEF snap
<1>6. SnapshotSound(snap, bgRow)
  BY <1>3, <1>4, WorkerFacts DEF SnapshotSound
<1>7. LookedUp("run_lookups", w.runIds, snap)
  BY <1>4, <1>5, WorkerFacts DEF LookedUp
<1>8. w.session = "other" => DOMAIN snap.agents.rows = {} /\ DOMAIN snap.runs.rows = {}
  BY <1>3, <1>4, WorkerFacts
<1> QED
  BY <1>1, <1>4, <1>6, <1>7, <1>8, AdvanceStep DEF Stages, snap

\* The runs that are followed and not in the sections are looked up one by one.
LEMMA RunsLookedUpStep ==
  ASSUME RefreshInv, NEW w \in rfWorkers, loadTrackedWorkflows(w)
  PROVE  RefreshInv'
<1> DEFINE ids == w.runIds \ DOMAIN w.snapshot.runs.rows
<1>1. PICK sec \in lookUp(w, ids) : Advance(w, "details", [w.snapshot EXCEPT !.runById = sec])
  BY DEF loadTrackedWorkflows
<1>2. ids \subseteq BgRuns
  BY WorkerFacts
<1>3. w.runIds \subseteq DOMAIN w.snapshot.runs.rows \cup ids
  OBVIOUS
<1> HIDE DEF ids
<1>4. /\ sec \in SectionsOf(BgRuns, RowStates) /\ Recorded(sec.rows, bgRow)
      /\ sec.valid => DOMAIN sec.rows = ids
  BY <1>2, WorkerFacts, LookedUpRead
<1> DEFINE snap == [w.snapshot EXCEPT !.runById = sec]
<1>5. /\ snap \in Snapshots /\ snap.agents = w.snapshot.agents /\ snap.byId = w.snapshot.byId
      /\ snap.runs = w.snapshot.runs /\ snap.runById = sec
  <2>1. snap \in Snapshots
    BY <1>4, WorkerFacts, SectionSet
  <2> QED
    BY <2>1, WorkerFacts DEF Snapshots
<1> HIDE DEF snap
<1>6. SnapshotSound(snap, bgRow)
  BY <1>4, <1>5, WorkerFacts DEF SnapshotSound
<1>7. LookedUp("details", w.runIds, snap)
  BY <1>3, <1>4, <1>5 DEF LookedUp
<1>8. w.session = "other" => DOMAIN snap.agents.rows = {} /\ DOMAIN snap.runs.rows = {}
  BY <1>5, WorkerFacts
<1> QED
  BY <1>1, <1>5, <1>6, <1>7, <1>8, AdvanceStep DEF Stages, snap

\* The details are read last; then the snapshot goes to the terminal.
LEMMA DetailsReadStep ==
  ASSUME RefreshInv, NEW w \in rfWorkers, loadWorkflowDetails(w)
  PROVE  RefreshInv'
<1> DEFINE ids == w.runIds \cup DOMAIN w.snapshot.runs.rows
           kids == [id \in ids |-> bgKids[id]]
<1>1. PICK ok \in BOOLEAN : Advance(w, "posted", [w.snapshot EXCEPT !.kids = Section(ok, kids)])
  BY DEF loadWorkflowDetails
<1>2. ids \subseteq BgRuns
  BY WorkerFacts, SnapshotParts, InMaps
<1>3. kids \in Maps(BgRuns, BOOLEAN)
  <2>1. kids = [id \in DOMAIN kids |-> kids[id]] /\ DOMAIN kids \subseteq BgRuns /\ \A id \in DOMAIN kids : kids[id] \in BOOLEAN
    <3> HIDE DEF ids
    <3> QED
      BY <1>2, WorkerFacts
  <2> HIDE DEF kids
  <2> QED
    BY <2>1, InMaps
<1> HIDE DEF kids
<1>4. Section(ok, kids) \in SectionsOf(BgRuns, BOOLEAN)
  BY <1>3 DEF Section, SectionsOf
<1> DEFINE snap == [w.snapshot EXCEPT !.kids = Section(ok, kids)]
<1>5. /\ snap \in Snapshots /\ snap.agents = w.snapshot.agents /\ snap.byId = w.snapshot.byId
      /\ snap.runs = w.snapshot.runs /\ snap.runById = w.snapshot.runById
  <2>1. snap \in Snapshots
    BY <1>4, WorkerFacts, SectionSet
  <2> QED
    BY <2>1, WorkerFacts DEF Snapshots
<1> HIDE DEF snap
<1>6. SnapshotSound(snap, bgRow)
  BY <1>5, WorkerFacts DEF SnapshotSound
<1>7. LookedUp("posted", w.runIds, snap)
  BY <1>5, WorkerFacts DEF LookedUp
<1>8. w.session = "other" => DOMAIN snap.agents.rows = {} /\ DOMAIN snap.runs.rows = {}
  BY <1>5, WorkerFacts
<1> QED
  BY <1>1, <1>5, <1>6, <1>7, <1>8, AdvanceStep DEF Stages, snap

\* The invariant after a step, from the state the step leads to.
LEMMA SoundNext ==
  ASSUME RefreshSound(rf', rfWorkers', bgRow', told', met', late'), bgKids' \in [BgRuns -> BOOLEAN]
  PROVE  RefreshInv'
BY DEF RefreshInv

\* What the helpers of the session switches do to the terminal.
LEMMA Invalidated ==
  ASSUME NEW s \in Apps
  PROVE  LET e == invalidateTerminalRefresh(s) IN
         /\ e \in Apps /\ e.session = s.session /\ e.inspecting = s.inspecting /\ e.inFlight = s.inFlight
         /\ e.generation = s.generation + 1 /\ e.inFlightGeneration = s.inFlightGeneration /\ e.tracked = s.tracked
         /\ e.runs = s.runs /\ e.submitted = s.submitted /\ e.delivered = s.delivered
<1> DEFINE e1 == [s EXCEPT !.generation = @ + 1]
           e2 == [e1 EXCEPT !.pending = FALSE]
<1>1. e1 \in Apps
  BY DEF Apps
<1>2. e2 \in Apps
  <2> HIDE DEF e1
  <2> QED
    BY <1>1 DEF Apps
<1>3. invalidateTerminalRefresh(s) = e2
  BY DEF invalidateTerminalRefresh
<1> QED
  BY <1>2, <1>3 DEF Apps

Visiting(s, x, v) == [s EXCEPT !.session = x, !.inspecting = (x = "child"), !.visits = v]
Showing(s, x) == [s EXCEPT !.session = x, !.inspecting = (x = "child")]

\* Showing another session leaves the refresh and what it follows alone.
LEMMA SessionSet ==
  ASSUME NEW s \in Apps, NEW x \in {Home, "child", "other"}, NEW v \in Int
  PROVE  LET e == Visiting(s, x, v)
             f == Showing(s, x)
         IN /\ e \in Apps /\ e.session = x /\ (e.inspecting <=> x = "child") /\ e.inFlight = s.inFlight
            /\ e.generation = s.generation /\ e.inFlightGeneration = s.inFlightGeneration /\ e.tracked = s.tracked
            /\ e.runs = s.runs /\ e.submitted = s.submitted /\ e.delivered = s.delivered
            /\ f \in Apps /\ f.session = x /\ (f.inspecting <=> x = "child") /\ f.inFlight = s.inFlight
            /\ f.generation = s.generation /\ f.inFlightGeneration = s.inFlightGeneration /\ f.tracked = s.tracked
            /\ f.runs = s.runs /\ f.submitted = s.submitted /\ f.delivered = s.delivered
<1> DEFINE y == (x = "child")
           e1 == [s EXCEPT !.session = x]
           e2 == [e1 EXCEPT !.inspecting = y]
           e3 == [e2 EXCEPT !.visits = v]
<1>1. e1 \in Apps
  BY AppSet
<1>2. e2 \in Apps
  <2> HIDE DEF e1
  <2> QED
    BY <1>1, AppSet
<1>3. e3 \in Apps
  <2> HIDE DEF e2
  <2> QED
    BY <1>2, AppSet
<1>4. /\ e2.session = x /\ (e2.inspecting <=> x = "child") /\ e2.inFlight = s.inFlight
      /\ e2.generation = s.generation /\ e2.inFlightGeneration = s.inFlightGeneration /\ e2.tracked = s.tracked
      /\ e2.runs = s.runs /\ e2.submitted = s.submitted /\ e2.delivered = s.delivered
  BY <1>2 DEF Apps
<1>5. /\ e3.session = e2.session /\ (e3.inspecting <=> e2.inspecting) /\ e3.inFlight = e2.inFlight
      /\ e3.generation = e2.generation /\ e3.inFlightGeneration = e2.inFlightGeneration /\ e3.tracked = e2.tracked
      /\ e3.runs = e2.runs /\ e3.submitted = e2.submitted /\ e3.delivered = e2.delivered
  <2> HIDE DEF e2
  <2> QED
    BY <1>2 DEF Apps
<1> QED
  BY <1>2, <1>3, <1>4, <1>5 DEF Visiting, Showing

\* A reset forgets everything that is followed and starts a new generation.
LEMMA Reset ==
  ASSUME NEW s \in Apps
  PROVE  LET e == resetAgentTaskTracking(s) IN
         /\ e \in Apps /\ e.inFlight = s.inFlight /\ e.generation = s.generation + 1
         /\ e.inFlightGeneration = s.inFlightGeneration /\ e.tracked = {} /\ DOMAIN e.runs = {}
         /\ DOMAIN e.submitted = {} /\ e.delivered = {}
<1> DEFINE none == [id \in {} |-> 0]
           e0 == invalidateTerminalRefresh(s)
           e1 == [e0 EXCEPT !.tracked = {}]
           e2 == [e1 EXCEPT !.runs = NoRows]
           e3 == [e2 EXCEPT !.submitted = none]
           e4 == [e3 EXCEPT !.delivered = {}]
<1>1. NoRows \in Maps(BgRuns, RowStates) /\ DOMAIN NoRows = {}
  <2>1. DOMAIN NoRows = {} /\ NoRows = [id \in {} |-> NoRows[id]]
    BY DEF NoRows
  <2> QED
    BY <2>1, InMaps
<1>2. none \in Maps(BgRuns, Int) /\ DOMAIN none = {}
  <2>1. DOMAIN none = {} /\ none = [id \in {} |-> none[id]]
    OBVIOUS
  <2> HIDE DEF none
  <2> QED
    BY <2>1, InMaps
<1>3. resetAgentTaskTracking(s) = e4
  BY DEF resetAgentTaskTracking
<1>4. /\ e0 \in Apps /\ e0.inFlight = s.inFlight /\ e0.generation = s.generation + 1
      /\ e0.inFlightGeneration = s.inFlightGeneration
  BY Invalidated
<1> HIDE DEF none, e0
<1>5. /\ e1 \in Apps /\ e1.inFlight = e0.inFlight /\ e1.generation = e0.generation
      /\ e1.inFlightGeneration = e0.inFlightGeneration /\ e1.tracked = {}
  BY <1>4 DEF Apps
<1> HIDE DEF e1
<1>6. /\ e2 \in Apps /\ e2.inFlight = e1.inFlight /\ e2.generation = e1.generation
      /\ e2.inFlightGeneration = e1.inFlightGeneration /\ e2.tracked = e1.tracked /\ e2.runs = NoRows
  BY <1>1, <1>5 DEF Apps
<1> HIDE DEF e2
<1>7. /\ e3 \in Apps /\ e3.inFlight = e2.inFlight /\ e3.generation = e2.generation
      /\ e3.inFlightGeneration = e2.inFlightGeneration /\ e3.tracked = e2.tracked /\ e3.runs = e2.runs
      /\ e3.submitted = none
  BY <1>2, <1>6 DEF Apps
<1> HIDE DEF e3
<1>8. /\ e4 \in Apps /\ e4.inFlight = e3.inFlight /\ e4.generation = e3.generation
      /\ e4.inFlightGeneration = e3.inFlightGeneration /\ e4.tracked = e3.tracked /\ e4.runs = e3.runs
      /\ e4.submitted = e3.submitted /\ e4.delivered = {}
  BY <1>7 DEF Apps
<1> HIDE DEF e4
<1> QED
  BY <1>1, <1>2, <1>3, <1>4, <1>5, <1>6, <1>7, <1>8

\* A snapshot that comes back goes to the terminal, and its worker makes room for the next.
LEMMA ApplyStep ==
  ASSUME RefreshInv, NEW w \in rfWorkers, applyTerminalRefresh(w)
  PROVE  RefreshInv'
<1> DEFINE applied == Snapshot(Freed(rf), w)
           t2 == ToldAlso(told, applied[2])
           m2 == MetAlso(met, applied[1])
           l2 == LateAlso(late, rf)
           r == requestTerminalRefresh(applied[1], {})
<1>1. rf.inFlight /\ w.generation = rf.inFlightGeneration /\ rfWorkers \ {w} = {}
  BY DEF RefreshInv, RefreshSound, OneRefresh
<1>2. RefreshSound(applied[1], {}, bgRow, t2, m2, l2)
  <2>1. RefreshSound(rf, rfWorkers, bgRow, told, met, late)
    BY DEF RefreshInv
  <2> QED
    BY <2>1, AppliedKept
<1>3. RefreshSound(r[1], r[2], bgRow, t2, m2, l2)
  <2> HIDE DEF applied, t2, m2, l2
  <2> QED
    BY <1>2, Asked
<1>4. /\ told' = t2 /\ met' = m2 /\ late' = l2 /\ UNCHANGED <<bgRow, bgKids>>
      /\ rf' = (IF rf.pending THEN r[1] ELSE applied[1]) /\ rfWorkers' = (IF rf.pending THEN r[2] ELSE {})
  BY <1>1 DEF applyTerminalRefresh, Tell, Meets, Freed, ToldAlso, MetAlso, LateAlso
<1> HIDE DEF applied, t2, m2, l2, r
<1>5. RefreshSound(rf', rfWorkers', bgRow', told', met', late')
  BY <1>2, <1>3, <1>4
<1> QED
  BY <1>4, <1>5, SoundNext DEF RefreshInv

\* A tick, or a watched task that has ended, asks for a refresh.
LEMMA AskStep ==
  ASSUME RefreshInv, Asks(rf), UNCHANGED <<bgRow, bgKids, told, met, late>>
  PROVE  RefreshInv'
<1>1. RefreshSound(rf', rfWorkers', bgRow, told, met, late)
  BY Asked DEF Asks, RefreshInv
<1> QED
  BY <1>1, SoundNext DEF RefreshInv

\* A run that is submitted is followed; while a refresh is in flight it is also late.
LEMMA SubmitStep ==
  ASSUME RefreshInv, NEW id \in BgRuns, trackSubmittedWorkflow(id)
  PROVE  RefreshInv'
<1> DEFINE sub == [x \in DOMAIN rf.submitted \cup {id} |-> IF x = id THEN 0 ELSE rf.submitted[x]]
           s == [rf EXCEPT !.submitted = sub]
<1>1. /\ rf \in Apps /\ rf.session # "other" /\ bgRow[id] = NoRow /\ bgRow' = [bgRow EXCEPT ![id] = "active"]
      /\ UNCHANGED <<bgKids, told>> /\ late' = (IF rf.inFlight THEN late \cup {id} ELSE late)
      /\ Asks(s) /\ Meets(s)
  BY DEF trackSubmittedWorkflow, RefreshInv, RefreshSound
<1>2. bgRow' \in [BgWork -> RowStates] /\ RowsAge(bgRow, bgRow')
  <2>1. bgRow \in [BgWork -> RowStates] /\ "active" \in RowStates /\ NoRow \notin {"canceled", "gone", "active"}
    BY DEF RefreshInv, RefreshSound, RowStates, NoRow
  <2> QED
    BY <1>1, <2>1 DEF RowsAge
<1>3. RefreshSound(rf, rfWorkers, bgRow', told, met, late)
  BY <1>2, AgedSound DEF RefreshInv
<1>4. sub \in Maps(BgRuns, Int) /\ DOMAIN sub = DOMAIN rf.submitted \cup {id}
  <2>1. DOMAIN rf.submitted \subseteq BgRuns /\ \A x \in DOMAIN rf.submitted : rf.submitted[x] \in Int
    BY <1>1, AppParts
  <2>2. /\ sub = [x \in DOMAIN sub |-> sub[x]] /\ DOMAIN sub = DOMAIN rf.submitted \cup {id}
        /\ \A x \in DOMAIN sub : sub[x] \in Int
    BY <2>1
  <2> HIDE DEF sub
  <2> QED
    BY <2>1, <2>2, InMaps
<1> HIDE DEF sub
<1>5. /\ s \in Apps /\ s.session = rf.session /\ s.inspecting = rf.inspecting /\ s.inFlight = rf.inFlight
      /\ s.generation = rf.generation /\ s.inFlightGeneration = rf.inFlightGeneration /\ s.tracked = rf.tracked
      /\ s.runs = rf.runs /\ s.submitted = sub /\ s.delivered = rf.delivered
  BY <1>1, <1>4 DEF Apps
<1> HIDE DEF s
<1>6. met' = met \cup rf.tracked \cup DOMAIN rf.runs \cup DOMAIN rf.submitted \cup {id}
  BY <1>1, <1>4, <1>5 DEF Meets
<1>7. OneRefresh(s, rfWorkers) /\ DeliveredIsTold(s, told) /\ RecordsSound(s, rfWorkers, bgRow')
  BY <1>3, <1>5 DEF RefreshSound, OneRefresh, DeliveredIsTold, RecordsSound
<1>8. OtherIsEmpty(s, rfWorkers, met')
  BY <1>1, <1>3, <1>5 DEF RefreshSound, OtherIsEmpty
<1>9. LookupsSound(s, rfWorkers, late')
  <2>1. rfWorkers # {} => DOMAIN s.submitted \ late' \subseteq DOMAIN rf.submitted \ late
    BY <1>1, <1>3, <1>4, <1>5 DEF RefreshSound, OneRefresh
  <2> QED
    BY <1>3, <1>5, <2>1 DEF RefreshSound, LookupsSound
<1>10. Remembered(s, bgRow', told, met', late')
  <2>1. \A x : Follows(s, x) <=> x \in rf.tracked \cup DOMAIN rf.runs \cup DOMAIN rf.submitted \cup {id}
    BY <1>4, <1>5 DEF Follows
  <2>2. late \subseteq late'
    BY <1>1
  <2> QED
    BY <1>3, <1>6, <2>1, <2>2 DEF RefreshSound, Remembered, Follows
<1>11. met' \subseteq BgWork
  BY <1>1, <1>3, <1>6, AppParts DEF RefreshSound, BgWork
<1>12. RefreshSound(s, rfWorkers, bgRow', told, met', late')
  BY <1>3, <1>5, <1>7, <1>8, <1>9, <1>10, <1>11 DEF RefreshSound
<1>13. RefreshSound(rf', rfWorkers', bgRow', told, met', late')
  BY <1>1, <1>12, Asked DEF Asks
<1> QED
  BY <1>1, <1>13, SoundNext DEF RefreshInv

\* A watched task that has ended is told at once, or the next refresh will tell it.
LEMMA EventStep ==
  ASSUME RefreshInv, NEW id \in BgTasks, handleAgentTaskTerminalEvent(id)
  PROVE  RefreshInv'
<1>1. CASE ~rf.inspecting
  BY <1>1, AskStep DEF handleAgentTaskTerminalEvent, KeepRows
<1>2. CASE rf.inspecting
  <2>1. PICK promptRuns \in BOOLEAN :
           /\ rf' = IF promptRuns THEN finishAgentTaskCompletion(rf, id) ELSE rf
           /\ Tell(IF promptRuns THEN {id} \ rf.delivered ELSE {}) /\ UNCHANGED rfWorkers
    BY <1>2 DEF handleAgentTaskTerminalEvent
  <2> DEFINE ids == IF promptRuns THEN {id} \ rf.delivered ELSE {}
  <2>2. UNCHANGED <<bgRow, bgKids, met, late>> /\ rf \in Apps /\ id \in BgWork /\ told \in [BgWork -> Nat]
    BY DEF handleAgentTaskTerminalEvent, KeepRows, RefreshInv, RefreshSound, BgWork
  <2>3. /\ rf' \in Apps /\ rf'.session = rf.session /\ rf'.inspecting = rf.inspecting /\ rf'.inFlight = rf.inFlight
        /\ rf'.generation = rf.generation /\ rf'.inFlightGeneration = rf.inFlightGeneration
        /\ rf'.runs = rf.runs /\ rf'.submitted = rf.submitted /\ rf'.delivered = rf.delivered \cup ids
        /\ rf'.tracked = IF promptRuns THEN rf.tracked \ {id} ELSE rf.tracked
    <3>1. CASE promptRuns
      <4> DEFINE e1 == [rf EXCEPT !.delivered = @ \cup {id}]
                 e2 == [e1 EXCEPT !.tracked = @ \ {id}]
      <4>1. e1 \in Apps /\ e2 \in Apps
        BY <2>2 DEF Apps
      <4>2. rf' = e2
        BY <2>1, <3>1 DEF finishAgentTaskCompletion
      <4>3. rf.delivered \cup ids = rf.delivered \cup {id}
        BY <3>1
      <4> QED
        BY <2>2, <3>1, <4>1, <4>2, <4>3 DEF Apps
    <3>2. CASE ~promptRuns
      BY <2>1, <2>2, <3>2
    <3> QED
      BY <3>1, <3>2
  <2>4. told' = [x \in BgWork |-> told[x] + IF x \in ids THEN 1 ELSE 0] /\ ids \cap rf.delivered = {}
    BY <2>1 DEF Tell
  <2>5. \A x \in BgWork : told[x] = IF x \in rf.delivered THEN 1 ELSE 0
    BY DEF RefreshInv, RefreshSound, DeliveredIsTold
  <2>6. promptRuns => id \in rf.delivered \cup ids
    OBVIOUS
  <2> HIDE DEF ids
  <2>7. /\ told' \in [BgWork -> Nat]
        /\ \A x \in BgWork : told'[x] = IF x \in rf.delivered \cup ids THEN 1 ELSE 0
        /\ \A x \in BgWork : told[x] > 0 \/ x \in ids => told'[x] > 0
    BY <2>2, <2>4, <2>5, ToldOnceMore
  <2>8. DeliveredIsTold(rf', told')
    BY <2>3, <2>7 DEF DeliveredIsTold
  <2>9. OneRefresh(rf', rfWorkers) /\ OtherIsEmpty(rf', rfWorkers, met) /\ LookupsSound(rf', rfWorkers, late)
    BY <2>3 DEF RefreshInv, RefreshSound, OneRefresh, OtherIsEmpty, LookupsSound
  <2>10. RecordsSound(rf', rfWorkers, bgRow)
    BY <2>3 DEF RefreshInv, RefreshSound, RecordsSound, Exist
  <2>11. Remembered(rf', bgRow, told', met, late)
    <3> SUFFICES ASSUME NEW x \in met \ late
                 PROVE  Follows(rf', x) \/ told'[x] > 0 \/ bgRow[x] \in {"canceled", "gone"}
      BY DEF Remembered
    <3>1. x \in BgWork /\ (Follows(rf, x) \/ told[x] > 0 \/ bgRow[x] \in {"canceled", "gone"})
      BY DEF RefreshInv, RefreshSound, Remembered
    <3>2. promptRuns => told'[id] > 0
      BY <2>2, <2>6, <2>7
    <3> QED
      BY <2>3, <2>7, <3>1, <3>2 DEF Follows
  <2>12. RefreshSound(rf', rfWorkers, bgRow, told', met, late)
    BY <2>3, <2>7, <2>8, <2>9, <2>10, <2>11 DEF RefreshInv, RefreshSound
  <2> QED
    BY <2>1, <2>2, <2>12, SoundNext DEF RefreshInv
<1> QED
  BY <1>1, <1>2

\* A session switch that keeps what is followed: the worker in flight is of an older generation.
LEMMA MovedSound ==
  ASSUME RefreshInv, NEW s \in Apps, s.inspecting <=> s.session = "child", s.session # "other",
         s.generation = rf.generation + 1, s.inFlight = rf.inFlight, s.inFlightGeneration = rf.inFlightGeneration,
         s.tracked = rf.tracked, s.runs = rf.runs, s.submitted = rf.submitted, s.delivered = rf.delivered
  PROVE  RefreshSound(s, rfWorkers, bgRow, told, met, late)
<1>1. rf.generation \in Int /\ \A w \in rfWorkers : w.generation \in Int /\ w.generation <= rf.generation
  BY RequestParts DEF RefreshInv, RefreshSound, Apps, OneRefresh
<1>2. OneRefresh(s, rfWorkers)
  BY <1>1 DEF RefreshInv, RefreshSound, OneRefresh
<1>3. OtherIsEmpty(s, rfWorkers, met) /\ DeliveredIsTold(s, told) /\ RecordsSound(s, rfWorkers, bgRow)
  BY DEF RefreshInv, RefreshSound, OtherIsEmpty, DeliveredIsTold, RecordsSound
<1>4. LookupsSound(s, rfWorkers, late)
  BY <1>1 DEF RefreshInv, RefreshSound, LookupsSound
<1>5. Remembered(s, bgRow, told, met, late)
  BY DEF RefreshInv, RefreshSound, Remembered, Follows
<1> QED
  BY <1>2, <1>3, <1>4, <1>5 DEF RefreshInv, RefreshSound

\* Inspecting a child shows its session, which no snapshot under way is of.
LEMMA InspectStep ==
  ASSUME RefreshInv, startInspection
  PROVE  RefreshInv'
<1> DEFINE e == invalidateTerminalRefresh(rf)
           s == Visiting(e, "child", e.visits + 1)
<1>1. rf' = s /\ UNCHANGED <<bgRow, bgKids, rfWorkers, told, met, late>>
  BY DEF startInspection, KeepRows, Visiting
<1>2. rf \in Apps
  BY DEF RefreshInv, RefreshSound
<1>3. /\ e \in Apps /\ e.inFlight = rf.inFlight /\ e.generation = rf.generation + 1
      /\ e.inFlightGeneration = rf.inFlightGeneration /\ e.tracked = rf.tracked
      /\ e.runs = rf.runs /\ e.submitted = rf.submitted /\ e.delivered = rf.delivered
  BY <1>2, Invalidated
<1> HIDE DEF e
<1>4. e.visits + 1 \in Int
  BY <1>3 DEF Apps
<1>5. /\ s \in Apps /\ s.session = "child" /\ (s.inspecting <=> s.session = "child") /\ s.inFlight = e.inFlight
      /\ s.generation = e.generation /\ s.inFlightGeneration = e.inFlightGeneration /\ s.tracked = e.tracked
      /\ s.runs = e.runs /\ s.submitted = e.submitted /\ s.delivered = e.delivered
  <2>1. "child" \in {Home, "child", "other"}
    OBVIOUS
  <2>2. s \in Apps
    BY <1>3, <1>4, <2>1, SessionSet
  <2>3. s.session = "child" /\ (s.inspecting <=> s.session = "child")
    BY <1>3, <1>4, <2>1, SessionSet
  <2>4. /\ s.inFlight = e.inFlight /\ s.generation = e.generation
        /\ s.inFlightGeneration = e.inFlightGeneration /\ s.tracked = e.tracked
    BY <1>3, <1>4, <2>1, SessionSet
  <2>5. s.runs = e.runs /\ s.submitted = e.submitted /\ s.delivered = e.delivered
    BY <1>3, <1>4, <2>1, SessionSet
  <2> QED
    BY <2>2, <2>3, <2>4, <2>5
<1> HIDE DEF s
<1>6. RefreshSound(s, rfWorkers, bgRow, told, met, late)
  BY <1>3, <1>5, MovedSound
<1> QED
  BY <1>1, <1>6, SoundNext DEF RefreshInv

\* Leaving the child goes back to the home session.
LEMMA LeaveStep ==
  ASSUME RefreshInv, endInspection
  PROVE  RefreshInv'
<1> DEFINE e == invalidateTerminalRefresh(rf)
           s == Showing(e, Home)
<1>1. Asks(s) /\ UNCHANGED <<bgRow, bgKids, told, met, late>>
  BY DEF endInspection, KeepRows, Showing, Home
<1>2. rf \in Apps
  BY DEF RefreshInv, RefreshSound
<1>3. /\ e \in Apps /\ e.inFlight = rf.inFlight /\ e.generation = rf.generation + 1
      /\ e.inFlightGeneration = rf.inFlightGeneration /\ e.tracked = rf.tracked
      /\ e.runs = rf.runs /\ e.submitted = rf.submitted /\ e.delivered = rf.delivered
  BY <1>2, Invalidated
<1> HIDE DEF e
<1>4. /\ s \in Apps /\ s.session = Home /\ ~s.inspecting /\ s.inFlight = e.inFlight
      /\ s.generation = e.generation /\ s.inFlightGeneration = e.inFlightGeneration /\ s.tracked = e.tracked
      /\ s.runs = e.runs /\ s.submitted = e.submitted /\ s.delivered = e.delivered
  <2>1. e.visits \in Int
    BY <1>3 DEF Apps
  <2> QED
    BY <1>3, <2>1, SessionSet DEF Home
<1> HIDE DEF s
<1>5. RefreshSound(s, rfWorkers, bgRow, told, met, late)
  BY <1>3, <1>4, MovedSound DEF Home
<1>6. RefreshSound(rf', rfWorkers', bgRow, told, met, late)
  BY <1>1, <1>5, Asked DEF Asks
<1> QED
  BY <1>1, <1>6, SoundNext DEF RefreshInv

\* Another session starts with nothing followed and nothing told.
LEMMA ResumeStep ==
  ASSUME RefreshInv, resumeSession
  PROVE  RefreshInv'
<1> DEFINE e == resetAgentTaskTracking(rf)
<1>1. PICK x \in {Home, "other"} : rf' = Visiting(e, x, e.visits + 1)
  BY DEF resumeSession, Visiting, Home
<1>2. UNCHANGED <<bgRow, bgKids, rfWorkers>> /\ told' = [id \in BgWork |-> 0] /\ met' = {} /\ late' = {}
  BY DEF resumeSession, KeepRows
<1>3. rf \in Apps /\ rf.generation \in Int /\ \A w \in rfWorkers : w.generation \in Int /\ w.generation <= rf.generation
  BY RequestParts DEF RefreshInv, RefreshSound, Apps, OneRefresh
<1>4. /\ e \in Apps /\ e.inFlight = rf.inFlight /\ e.generation = rf.generation + 1
      /\ e.inFlightGeneration = rf.inFlightGeneration /\ e.tracked = {} /\ DOMAIN e.runs = {}
      /\ DOMAIN e.submitted = {} /\ e.delivered = {}
  BY <1>3, Reset
<1> HIDE DEF e
<1> DEFINE s == Visiting(e, x, e.visits + 1)
<1>5. e.visits + 1 \in Int /\ x \in {Home, "child", "other"}
  BY <1>4 DEF Apps
<1>6. /\ s \in Apps /\ s.session = x /\ (s.inspecting <=> x = "child") /\ s.inFlight = e.inFlight
      /\ s.generation = e.generation /\ s.inFlightGeneration = e.inFlightGeneration /\ s.tracked = e.tracked
      /\ s.runs = e.runs /\ s.submitted = e.submitted /\ s.delivered = e.delivered
  BY <1>4, <1>5, SessionSet
<1>7. rf' = s
  BY <1>1
<1> HIDE DEF s
<1>8. OneRefresh(s, rfWorkers)
  BY <1>3, <1>4, <1>6 DEF RefreshInv, RefreshSound, OneRefresh, Home
<1>9. OtherIsEmpty(s, rfWorkers, {})
  BY <1>4, <1>6 DEF RefreshInv, RefreshSound, OtherIsEmpty
<1>10. told' \in [BgWork -> Nat] /\ DeliveredIsTold(s, told')
  BY <1>2, <1>4, <1>6 DEF DeliveredIsTold
<1>11. RecordsSound(s, rfWorkers, bgRow)
  BY <1>4, <1>6 DEF RefreshInv, RefreshSound, RecordsSound, Recorded, Exist
<1>12. LookupsSound(s, rfWorkers, {})
  BY <1>4, <1>6 DEF RefreshInv, RefreshSound, LookupsSound
<1>13. Remembered(s, bgRow, told', {}, {})
  BY DEF Remembered
<1>14. RefreshSound(s, rfWorkers, bgRow, told', {}, {})
  BY <1>6, <1>8, <1>9, <1>10, <1>11, <1>12, <1>13 DEF RefreshInv, RefreshSound
<1> QED
  BY <1>2, <1>7, <1>14, SoundNext DEF RefreshInv

\* The work itself only ages the rows.
LEMMA WorkStep ==
  ASSUME RefreshInv, \/ sessionDeleted
                     \/ \E id \in BgTasks : taskCreated(id)
                     \/ \E id \in BgRuns : childChanges(id)
                     \/ \E id \in BgWork : workEnds(id)
  PROVE  RefreshInv'
<1>1. bgRow \in [BgWork -> RowStates] /\ bgKids \in [BgRuns -> BOOLEAN] /\ BgTasks \subseteq BgWork
  BY DEF RefreshInv, RefreshSound, BgWork
<1>2. KeepTerminal /\ bgRow' \in [BgWork -> RowStates] /\ RowsAge(bgRow, bgRow') /\ bgKids' \in [BgRuns -> BOOLEAN]
  <2>1. CASE sessionDeleted
    BY <1>1, <2>1 DEF sessionDeleted, RowsAge, RowStates, NoRow
  <2>2. ASSUME NEW id \in BgTasks, taskCreated(id)
        PROVE  KeepTerminal /\ bgRow' \in [BgWork -> RowStates] /\ RowsAge(bgRow, bgRow') /\ bgKids' \in [BgRuns -> BOOLEAN]
    BY <1>1, <2>2 DEF taskCreated, RowsAge, RowStates, NoRow
  <2>3. ASSUME NEW id \in BgRuns, childChanges(id)
        PROVE  KeepTerminal /\ bgRow' \in [BgWork -> RowStates] /\ RowsAge(bgRow, bgRow') /\ bgKids' \in [BgRuns -> BOOLEAN]
    BY <1>1, <2>3 DEF childChanges, RowsAge
  <2>4. ASSUME NEW id \in BgWork, workEnds(id)
        PROVE  KeepTerminal /\ bgRow' \in [BgWork -> RowStates] /\ RowsAge(bgRow, bgRow') /\ bgKids' \in [BgRuns -> BOOLEAN]
    <3>1. PICK end \in {"ended", "canceled"} : bgRow' = [bgRow EXCEPT ![id] = end]
      BY <2>4 DEF workEnds
    <3> QED
      BY <1>1, <2>4, <3>1 DEF workEnds, RowsAge, RowStates, NoRow
  <2> QED
    BY <2>1, <2>2, <2>3, <2>4
<1>3. RefreshSound(rf, rfWorkers, bgRow', told, met, late)
  BY <1>2, AgedSound DEF RefreshInv
<1> QED
  BY <1>2, <1>3, SoundNext DEF RefreshInv, KeepTerminal

\* The terminal starts with nothing followed.
LEMMA RefreshInvInit == RefreshInit => RefreshInv
<1> SUFFICES ASSUME RefreshInit
             PROVE  RefreshInv
  OBVIOUS
<1> DEFINE none == [id \in {} |-> 0]
<1>1. NoRows \in Maps(BgRuns, RowStates) /\ DOMAIN NoRows = {}
  <2>1. DOMAIN NoRows = {} /\ NoRows = [id \in {} |-> NoRows[id]]
    BY DEF NoRows
  <2> QED
    BY <2>1, InMaps
<1>2. none \in Maps(BgRuns, Int) /\ DOMAIN none = {}
  <2>1. DOMAIN none = {} /\ none = [id \in {} |-> none[id]]
    OBVIOUS
  <2> HIDE DEF none
  <2> QED
    BY <2>1, InMaps
<1>3. /\ rf = [session |-> Home, inspecting |-> FALSE, inFlight |-> FALSE, generation |-> 0, inFlightGeneration |-> 0,
               pending |-> FALSE, tracked |-> {}, runs |-> NoRows, submitted |-> none, delivered |-> {}, visits |-> 0]
      /\ rfWorkers = {} /\ bgRow = [id \in BgWork |-> NoRow] /\ bgKids = [id \in BgRuns |-> FALSE]
      /\ told = [id \in BgWork |-> 0] /\ met = {} /\ late = {}
  BY DEF RefreshInit
<1> HIDE DEF none
<1>4. rf \in Apps
  BY <1>1, <1>2, <1>3 DEF Apps
<1>5. /\ rf.session = Home /\ rf.inspecting = FALSE /\ rf.inFlight = FALSE /\ rf.tracked = {} /\ rf.runs = NoRows
      /\ rf.delivered = {}
  BY <1>3
<1>6. OneRefresh(rf, rfWorkers) /\ OtherIsEmpty(rf, rfWorkers, met)
  BY <1>3, <1>5 DEF OneRefresh, OtherIsEmpty, Home
<1>7. DeliveredIsTold(rf, told) /\ RecordsSound(rf, rfWorkers, bgRow)
  BY <1>1, <1>3, <1>5 DEF DeliveredIsTold, RecordsSound, Recorded, Exist
<1>8. LookupsSound(rf, rfWorkers, late) /\ Remembered(rf, bgRow, told, met, late)
  BY <1>3 DEF LookupsSound, Remembered
<1>9. bgRow \in [BgWork -> RowStates] /\ bgKids \in [BgRuns -> BOOLEAN] /\ told \in [BgWork -> Nat]
  BY <1>3 DEF RowStates
<1> QED
  BY <1>3, <1>4, <1>6, <1>7, <1>8, <1>9 DEF RefreshInv, RefreshSound

\* Every step of the terminal and its work keeps the invariant.
LEMMA RefreshInvStep ==
  ASSUME RefreshInv, [RefreshNext]_rfVars
  PROVE  RefreshInv'
<1>1. ASSUME NEW w \in rfWorkers,
             \/ setAgentListSections(w) \/ loadTrackedAgentTasks(w) \/ loadWorkflowRefreshSections(w)
             \/ loadTrackedWorkflows(w) \/ loadWorkflowDetails(w) \/ applyTerminalRefresh(w)
      PROVE  RefreshInv'
  BY <1>1, AgentsReadStep, TasksLookedUpStep, RunsReadStep, RunsLookedUpStep, DetailsReadStep, ApplyStep
<1>2. CASE workTick
  BY <1>2, AskStep DEF workTick, KeepRows
<1>3. CASE startInspection \/ endInspection \/ resumeSession
  BY <1>3, InspectStep, LeaveStep, ResumeStep
<1>4. CASE sessionDeleted
  BY <1>4, WorkStep
<1>5. ASSUME NEW id \in BgTasks, taskCreated(id) \/ handleAgentTaskTerminalEvent(id)
      PROVE  RefreshInv'
  BY <1>5, WorkStep, EventStep
<1>6. ASSUME NEW id \in BgRuns, trackSubmittedWorkflow(id) \/ childChanges(id)
      PROVE  RefreshInv'
  BY <1>6, WorkStep, SubmitStep
<1>7. ASSUME NEW id \in BgWork, workEnds(id)
      PROVE  RefreshInv'
  BY <1>7, WorkStep
<1>8. CASE UNCHANGED rfVars
  BY <1>8, SoundNext DEF rfVars, RefreshInv
<1> QED
  BY <1>1, <1>2, <1>3, <1>4, <1>5, <1>6, <1>7, <1>8 DEF RefreshNext

\* The invariant is enough.
LEMMA RefreshInvEnough == RefreshInv => FollowedWork
<1> SUFFICES ASSUME RefreshInv
             PROVE  FollowedWork
  OBVIOUS
<1>1. RefreshSlot
  <2>1. rf.inFlight <=> rfWorkers # {}
    BY DEF RefreshInv, RefreshSound, OneRefresh
  <2>2. ASSUME rf.inFlight
        PROVE  {w.generation : w \in rfWorkers} = {rf.inFlightGeneration} /\ Cardinality(rfWorkers) = 1
    <3>1. PICK w \in rfWorkers : TRUE
      BY <2>1, <2>2
    <3>2. rfWorkers = {w} /\ w.generation = rf.inFlightGeneration
      BY DEF RefreshInv, RefreshSound, OneRefresh
    <3>3. Cardinality({w}) = 1
      BY FS_Singleton
    <3> QED
      BY <3>2, <3>3
  <2> QED
    BY <2>1, <2>2 DEF RefreshSlot
<1>2. FollowsItsSession
  <2>1. ASSUME DOMAIN rf.runs = {}
        PROVE  rf.runs = NoRows
    <3>1. rf.runs = [x \in DOMAIN rf.runs |-> rf.runs[x]]
      BY AppParts, InMaps DEF RefreshInv, RefreshSound
    <3> QED
      BY <2>1, <3>1 DEF NoRows
  <2> QED
    BY <2>1 DEF FollowsItsSession, RefreshInv, RefreshSound, OtherIsEmpty
<1>3. ToldOnce
  BY DEF ToldOnce, RefreshInv, RefreshSound, DeliveredIsTold
<1>4. NothingForgotten
  BY DEF NothingForgotten, Surfaces, RefreshInv, RefreshSound, Remembered, Follows
<1> QED
  BY <1>1, <1>2, <1>3, <1>4 DEF FollowedWork

\* The terminal follows its background work to the end, whatever its refreshes read and whenever
\* they come back (refresh.go:35-150, terminal_refresh_data.go): one refresh at a time, no snapshot
\* of another session, every end told at most once and nothing forgotten that was not submitted
\* under a refresh or looked for in vain.
THEOREM WorkIsFollowed == RefreshSpec => []FollowedWork
<1>1. RefreshInit => RefreshInv
  BY RefreshInvInit
<1>2. RefreshInv /\ [RefreshNext]_rfVars => RefreshInv'
  BY RefreshInvStep
<1>3. RefreshInv => FollowedWork
  BY RefreshInvEnough
<1> QED
  BY <1>1, <1>2, <1>3, PTL DEF RefreshSpec

--------------------------------------------------------------------------------
(* The host of extensions.  The queues of a dispatch: every due timer once, and  *)
(* handlers by priority.                                                      *)

ReachesAll(f, S, T) == \A t \in T : \E s \in S : f[s] = t

\* An injective map of a finite set into one as large reaches all of it.
LEMMA InjectionReachesAll ==
  ASSUME NEW S, NEW T, IsFiniteSet(T), NEW f \in [S -> T], \A a, b \in S : f[a] = f[b] => a = b,
         Cardinality(S) = Cardinality(T)
  PROVE  ReachesAll(f, S, T)
<1>1. f \in Injection(S, T)
  BY DEF Injection, IsInjective
<1>2. f \in Surjection(S, T)
  BY <1>1, FS_Injection
<1> QED
  BY <1>2 DEF Surjection, ReachesAll

\* An order of a finite set in which no member comes twice has all of its members.
LEMMA QueueHasAll ==
  ASSUME NEW S, IsFiniteSet(S), NEW q \in SetToSeqs(S)
  PROVE  /\ q \in Seq(S) /\ q \in [1..Len(q) -> S]
         /\ \A i, j \in DOMAIN q : i # j => q[i] # q[j]
         /\ \A s \in S : \E i \in DOMAIN q : q[i] = s
<1> DEFINE n == Cardinality(S)
<1>1. n \in Nat
  BY FS_CardinalityType
<1> HIDE DEF n
<1>2. q \in [1..n -> S] /\ \A i, j \in 1..n : i # j => q[i] # q[j]
  BY DEF SetToSeqs, n
<1>3. q \in Seq(S) /\ Len(q) = n /\ DOMAIN q = 1..n
  BY <1>1, <1>2
<1>4. Cardinality(1..n) = n
  BY <1>1, FS_Interval
<1>5. \A s \in S : \E i \in 1..n : q[i] = s
  <2>1. \A i, j \in 1..n : q[i] = q[j] => i = j
    BY <1>2
  <2>2. Cardinality(1..n) = Cardinality(S)
    BY <1>4 DEF n
  <2>3. ReachesAll(q, 1..n, S)
    BY <1>2, <2>1, <2>2, InjectionReachesAll
  <2> QED
    BY <2>3 DEF ReachesAll
<1> QED
  BY <1>2, <1>3, <1>5

\* How many of a set run before one of them.
rankIn(S, r) == Cardinality({s \in S : runsBefore(s, r)})

Registrations == [extension : Extensions, kind : Kinds, priority : Int, order : Nat]

\* Handlers with different orders of registration are ordered by runsBefore.
LEMMA RunsBeforeOrders ==
  ASSUME NEW S \in SUBSET Registrations, \A a, b \in S : a.order = b.order => a = b
  PROVE  /\ \A a, b \in S : a # b => runsBefore(a, b) \/ runsBefore(b, a)
         /\ \A a \in S : ~runsBefore(a, a)
         /\ \A a, b, c \in S : runsBefore(a, b) /\ runsBefore(b, c) => runsBefore(a, c)
<1>1. \A a \in S : a.order \in Int /\ a.priority \in Int
  BY DEF Registrations
<1> QED
  BY <1>1 DEF runsBefore

\* A registration that runs before another has the smaller rank, and ranks are below the number of them.
LEMMA RankIs ==
  ASSUME NEW S \in SUBSET Registrations, IsFiniteSet(S), \A a, b \in S : a.order = b.order => a = b
  PROVE  /\ \A a \in S : rankIn(S, a) \in 0..(Cardinality(S) - 1)
         /\ \A a, b \in S : runsBefore(a, b) => rankIn(S, a) < rankIn(S, b)
<1> DEFINE before(r) == {s \in S : runsBefore(s, r)}
<1>1. \A r : IsFiniteSet(before(r)) /\ Cardinality(before(r)) \in Nat /\ Cardinality(before(r)) <= Cardinality(S)
      /\ (Cardinality(S) = Cardinality(before(r)) => S = before(r))
  <2> SUFFICES ASSUME NEW r
               PROVE  IsFiniteSet(before(r)) /\ Cardinality(before(r)) \in Nat /\ Cardinality(before(r)) <= Cardinality(S)
                      /\ (Cardinality(S) = Cardinality(before(r)) => S = before(r))
    OBVIOUS
  <2>1. before(r) \in SUBSET S
    OBVIOUS
  <2> HIDE DEF before
  <2> QED
    BY <2>1, FS_Subset, FS_CardinalityType
<1>2. Cardinality(S) \in Nat
  BY FS_CardinalityType
<1>3. \A a \in S : a \notin before(a)
  BY RunsBeforeOrders
<1>4. ASSUME NEW a \in S, NEW b \in S, runsBefore(a, b) PROVE Cardinality(before(a)) < Cardinality(before(b))
  <2>1. before(a) \in SUBSET before(b) /\ a \in before(b)
    BY <1>4, RunsBeforeOrders
  <2>2. before(a) # before(b)
    BY <2>1, <1>3
  <2> HIDE DEF before
  <2>3. /\ Cardinality(before(a)) <= Cardinality(before(b))
        /\ Cardinality(before(b)) = Cardinality(before(a)) => before(b) = before(a)
    BY <1>1, <2>1, FS_Subset
  <2> QED
    BY <1>1, <2>2, <2>3
<1>5. \A a : rankIn(S, a) = Cardinality(before(a))
  BY DEF rankIn
<1> HIDE DEF before
<1> QED
  BY <1>1, <1>2, <1>3, <1>4, <1>5

IsInOrder(q) == \A i, j \in DOMAIN q : i < j => runsBefore(q[i], q[j])

\* A finite set of handlers has an order by priority.
LEMMA OrderExists ==
  ASSUME NEW S \in SUBSET Registrations, IsFiniteSet(S), \A a, b \in S : a.order = b.order => a = b
  PROVE  \E q \in [1..Cardinality(S) -> S] : IsInOrder(q)
<1> DEFINE n == Cardinality(S)
           rank == [r \in S |-> rankIn(S, r) + 1]
<1>1. n \in Nat
  BY FS_CardinalityType
<1>2. rank \in [S -> 1..n]
  <2>1. \A a \in S : rankIn(S, a) \in 0..(n - 1)
    BY RankIs
  <2> HIDE DEF n
  <2>2. \A a \in S : rankIn(S, a) + 1 \in 1..n
    BY <1>1, <2>1
  <2> QED
    BY <2>2
<1>3. \A a, b \in S : runsBefore(a, b) => rank[a] < rank[b]
  <2>1. \A a \in S : rankIn(S, a) \in Int
    BY <1>1, RankIs
  <2>2. \A a, b \in S : runsBefore(a, b) => rankIn(S, a) < rankIn(S, b)
    BY RankIs
  <2> QED
    BY <2>1, <2>2
<1> HIDE DEF rank, n
<1>4. \A a, b \in S : rank[a] = rank[b] => a = b
  <2>1. \A a, b \in S : a # b => rank[a] < rank[b] \/ rank[b] < rank[a]
    BY <1>3, RunsBeforeOrders
  <2>2. \A a \in S : rank[a] \in Int
    BY <1>1, <1>2
  <2> QED
    BY <2>1, <2>2
<1>5. IsFiniteSet(1..n) /\ Cardinality(1..n) = n
  BY <1>1, FS_Interval
<1>6. \A i \in 1..n : \E r \in S : rank[r] = i
  <2>1. Cardinality(S) = Cardinality(1..n)
    BY <1>5 DEF n
  <2>2. ReachesAll(rank, S, 1..n)
    BY <1>2, <1>4, <1>5, <2>1, InjectionReachesAll
  <2> QED
    BY <2>2 DEF ReachesAll
<1> DEFINE q == [i \in 1..n |-> CHOOSE r \in S : rank[r] = i]
<1>7. \A i \in 1..n : q[i] \in S /\ rank[q[i]] = i
  BY <1>6
<1>8. q \in [1..n -> S] /\ DOMAIN q = 1..n
  BY <1>7
<1> HIDE DEF q
<1>9. ASSUME NEW i \in 1..n, NEW j \in 1..n, i < j PROVE runsBefore(q[i], q[j])
  <2>1. q[i] \in S /\ q[j] \in S /\ rank[q[i]] = i /\ rank[q[j]] = j /\ i \in Int /\ j \in Int
    BY <1>7, <1>1
  <2>2. q[i] # q[j] /\ ~(rank[q[j]] < rank[q[i]])
    BY <2>1, <1>9
  <2> QED
    BY <2>1, <2>2, <1>3, RunsBeforeOrders
<1>10. IsInOrder(q)
  BY <1>8, <1>9 DEF IsInOrder
<1> QED
  BY <1>8, <1>10 DEF n

\* The snapshot of the handlers of a kind.
LEMMA HandlersForIs ==
  ASSUME xRegs \in SUBSET Registrations, IsFiniteSet(xRegs), \A a, b \in xRegs : a.order = b.order => a = b, NEW kind
  PROVE  /\ handlersFor(kind) \in Seq({r \in xRegs : r.kind = kind})
         /\ IsInOrder(handlersFor(kind))
<1> DEFINE regs == {r \in xRegs : r.kind = kind}
           q == CHOOSE q \in [1..Cardinality(regs) -> regs] : \A i, j \in DOMAIN q : i < j => runsBefore(q[i], q[j])
<1>1. regs \in SUBSET Registrations /\ regs \in SUBSET xRegs /\ \A a, b \in regs : a.order = b.order => a = b
  OBVIOUS
<1>2. handlersFor(kind) = q
  BY DEF handlersFor
<1> HIDE DEF regs
<1>3. IsFiniteSet(regs) /\ Cardinality(regs) \in Nat
  BY <1>1, FS_Subset, FS_CardinalityType
<1>4. \E p \in [1..Cardinality(regs) -> regs] : IsInOrder(p)
  BY <1>1, <1>3, OrderExists
<1>5. q \in [1..Cardinality(regs) -> regs] /\ IsInOrder(q)
  BY <1>4 DEF IsInOrder
<1> HIDE DEF q
<1>6. q \in Seq(regs)
  BY <1>3, <1>5
<1> QED
  BY <1>2, <1>5, <1>6 DEF regs

--------------------------------------------------------------------------------
(* A timer that was taken is never scheduled too, and one that was stopped while  *)
(* it waits is remembered as canceled: that is what its two looks rely on.       *)

TimerRecords == [extension : Extensions, repeats : BOOLEAN, due : BOOLEAN, order : Nat]
QueuedCalls == Registrations \cup TimerRecords

\* The tables of handlers and timers.  An interval that is kept is not canceled, and what is
\* scheduled was not stopped.
TablesHold ==
  /\ xOrder \in Nat /\ xLoading \subseteq Extensions
  /\ xRegs \in SUBSET Registrations /\ IsFiniteSet(xRegs)
  /\ \A r \in xRegs : r.order \in 1..xOrder
  /\ \A a, b \in xRegs : a.order = b.order => a = b
  /\ xTimers \in SUBSET TimerRecords /\ IsFiniteSet(xTimers)
  /\ \A timer \in xTimers : timer.order \in 1..xOrder
  /\ \A a, b \in xTimers : a.order = b.order => a = b
  /\ xCanceled \subseteq 1..xOrder /\ xStopped \subseteq 1..xOrder /\ xIntervals \subseteq 1..xOrder
  /\ xIntervals \cap xCanceled = {}
  /\ \A timer \in xTimers : timer.order \in xIntervals => timer.repeats
  /\ StoppedStaysStopped

\* The timers a terminal event has taken and still has to run: each once, none of them
\* scheduled, and those that were stopped meanwhile are known to be canceled.
QueueHolds ==
  xThread["ui"].phase = "timers" =>
      /\ \A i \in DOMAIN xThread["ui"].queue :
            LET timer == xThread["ui"].queue[i]
            IN  /\ timer \in TimerRecords /\ timer.order \in 1..xOrder
                /\ timer.order \in xIntervals => timer.repeats
                /\ timer.order \in xStopped => timer.order \in xCanceled
                /\ \A other \in xTimers : other.order # timer.order
      /\ \A i, j \in DOMAIN xThread["ui"].queue :
            i # j => xThread["ui"].queue[i].order # xThread["ui"].queue[j].order

Dispatches == [phase : {"idle", "timers", "keymaps", "handlers", "lifecycle", "emit"},
               queue : Seq(QueuedCalls), step : {"next", "running", "check", "reschedule"}]

PhasesOf(t) == IF t = "ui" THEN {"idle", "timers", "keymaps", "handlers"} ELSE {"idle", "lifecycle", "emit"}

\* What a thread may be dispatching.
ThreadHolds(t, d) ==
  /\ d \in Dispatches /\ d.phase \in PhasesOf(t)
  /\ d.phase = "idle" => d = Resting
  /\ d.queue = <<>> => d.step = "next"
  /\ d.step \in {"check", "reschedule"} => d.phase = "timers"

DispatchHolds ==
  /\ DOMAIN xThread = Threads /\ xThread = [t \in Threads |-> xThread[t]]
  /\ \A t \in Threads : ThreadHolds(t, xThread[t])
  /\ xPhase # "ready" => \A t \in Threads : xThread[t] = Resting

\* A running callback holds the lock of its extension, and only the terminal's give it an event.
LocksHold ==
  /\ xLocks \in [Extensions -> {"free"} \cup Threads]
  /\ xActive \in [Extensions -> {"nil", "event"}]
  /\ \A t \in Threads : xThread[t].step = "running" => xLocks[Calling(t).extension] = t
  /\ \A e \in Extensions : xActive[e] = "event" => xLocks[e] = "ui"
  /\ OnlyItsCallbacksWrite

\* What has run of an event, and its place before what is still to run.
RanHolds ==
  /\ xEvent \in [stopped : BOOLEAN, writers : SUBSET Threads, ran : Seq(Registrations)]
  /\ RunsByPriority
  /\ xThread["ui"].phase = "timers" => xEvent.ran = <<>>
  /\ xThread["ui"].phase = "keymaps" => \A i \in DOMAIN xEvent.ran : xEvent.ran[i].kind = "keymap"
  /\ xThread["ui"].phase \in {"keymaps", "handlers"} =>
         /\ xThread["ui"].queue \in Seq(Registrations) /\ IsInOrder(xThread["ui"].queue)
         /\ \A i \in DOMAIN xThread["ui"].queue :
               xThread["ui"].queue[i].kind = IF xThread["ui"].phase = "keymaps" THEN "keymap" ELSE "key"
         /\ \A i \in DOMAIN xEvent.ran, j \in DOMAIN xThread["ui"].queue :
               xEvent.ran[i].kind = xThread["ui"].queue[j].kind =>
                   \/ runsBefore(xEvent.ran[i], xThread["ui"].queue[j])
                   \/ xThread["ui"].step = "running" /\ j = 1

HostInv == TablesHold /\ QueueHolds /\ IntervalsKept /\ DispatchHolds /\ LocksHold /\ RanHolds

\* An empty sequence is one of any set.
LEMMA EmptyQueue == ASSUME NEW S PROVE <<>> \in Seq(S)
OBVIOUS

\* Nothing is registered, dispatched or locked at first.
LEMMA HostInvInit == HostInit => HostInv
<1> SUFFICES ASSUME HostInit PROVE HostInv
  OBVIOUS
<1>1. \A t \in Threads : xThread[t] = Resting
  BY DEF HostInit
<1>2. "ui" \in Threads /\ "agent" \in Threads
  BY DEF Threads
<1>3. TablesHold
  BY FS_EmptySet DEF HostInit, TablesHold, StoppedStaysStopped
<1>4. QueueHolds /\ IntervalsKept
  BY <1>1, <1>2 DEF QueueHolds, IntervalsKept, Resting, HostInit
<1>5. Resting \in Dispatches
  BY EmptyQueue DEF Resting, Dispatches
<1>6. DispatchHolds
  BY <1>1, <1>5 DEF DispatchHolds, ThreadHolds, PhasesOf, Resting, HostInit, Threads
<1>7. LocksHold
  BY <1>1 DEF LocksHold, Resting, HostInit, OnlyItsCallbacksWrite, NoEvent
<1>8. RanHolds
  BY <1>1, <1>2 DEF RanHolds, Resting, HostInit, NoEvent, RunsByPriority
<1> QED
  BY <1>3, <1>4, <1>6, <1>7, <1>8 DEF HostInv

--------------------------------------------------------------------------------
(* The tables. *)

\* What a callback or a file registers, drops or stops.
LEMMA RegisterKeeps ==
  ASSUME HostInv, NEW e \in Extensions, Register(e), UNCHANGED <<xThread, xLoading>>
  PROVE  TablesHold' /\ QueueHolds' /\ IntervalsKept'
<1> DEFINE G == TablesHold' /\ QueueHolds' /\ IntervalsKept'
<1> USE DEF HostInv
<1>0. xOrder \in Nat /\ xOrder + 1 \in Nat /\ xOrder + 1 \notin 1..xOrder /\ 1..xOrder \subseteq 1..(xOrder+1)
      /\ xOrder + 1 \in 1..(xOrder+1)
  BY DEF TablesHold
<1>1. ASSUME NEW kind \in Kinds, NEW priority \in {0, 1}, registerHandler(e, kind, priority) PROVE G
  <2> DEFINE r == [extension |-> e, kind |-> kind, priority |-> priority, order |-> xOrder + 1]
  <2>1. xOrder' = xOrder + 1 /\ xRegs' = xRegs \cup {r} /\ UNCHANGED <<xTimers, xCanceled, xStopped, xIntervals>>
    BY <1>1 DEF registerHandler
  <2>2. r \in Registrations /\ r.order = xOrder + 1
    BY <1>0 DEF Registrations
  <2> HIDE DEF r
  <2>3. IsFiniteSet(xRegs')
    BY <2>1, FS_AddElement DEF TablesHold
  <2>4. xRegs' \in SUBSET Registrations /\ \A x \in xRegs' : x.order \in 1..(xOrder + 1)
    BY <1>0, <2>1, <2>2 DEF TablesHold
  <2>5. \A a, b \in xRegs' : a.order = b.order => a = b
    BY <1>0, <2>1, <2>2 DEF TablesHold
  <2>6. TablesHold'
    BY <1>0, <2>1, <2>3, <2>4, <2>5 DEF TablesHold, StoppedStaysStopped
  <2> QED
    BY <2>1, <2>6, <1>0 DEF QueueHolds, IntervalsKept, Waiting
<1>2. ASSUME luaKeymapDel(e) PROVE G
  <2>1. xRegs' \in SUBSET xRegs /\ UNCHANGED <<xTimers, xCanceled, xOrder, xStopped, xIntervals>>
    BY <1>2 DEF luaKeymapDel
  <2>2. IsFiniteSet(xRegs')
    BY <2>1, FS_Subset DEF TablesHold
  <2>3. TablesHold'
    BY <2>1, <2>2 DEF TablesHold, StoppedStaysStopped
  <2> QED
    BY <2>1, <2>3 DEF QueueHolds, IntervalsKept, Waiting
<1>3. ASSUME NEW repeats \in BOOLEAN, registerTimer(e, repeats) PROVE G
  <2> DEFINE timer == [extension |-> e, repeats |-> repeats, due |-> FALSE, order |-> xOrder + 1]
  <2>1. /\ xOrder' = xOrder + 1 /\ xTimers' = xTimers \cup {timer} /\ UNCHANGED <<xRegs, xCanceled, xStopped>>
        /\ xIntervals' = IF repeats THEN xIntervals \cup {xOrder + 1} ELSE xIntervals
    BY <1>3 DEF registerTimer
  <2>2. timer \in TimerRecords /\ timer.order = xOrder + 1 /\ timer.repeats = repeats
    BY <1>0 DEF TimerRecords
  <2> HIDE DEF timer
  <2>3. IsFiniteSet(xTimers')
    BY <2>1, FS_AddElement DEF TablesHold
  <2>4. xTimers' \in SUBSET TimerRecords /\ \A x \in xTimers' : x.order \in 1..(xOrder + 1)
    BY <1>0, <2>1, <2>2 DEF TablesHold
  <2>5. \A a, b \in xTimers' : a.order = b.order => a = b
    BY <1>0, <2>1, <2>2 DEF TablesHold
  <2>6. \A x \in xTimers' : /\ x.order \in xIntervals' => x.repeats
                            /\ x.order \notin xStopped
    BY <1>0, <2>1, <2>2 DEF TablesHold, StoppedStaysStopped
  <2>7. TablesHold'
    BY <1>0, <2>1, <2>3, <2>4, <2>5, <2>6 DEF TablesHold, StoppedStaysStopped
  <2>8. QueueHolds'
    BY <1>0, <2>1, <2>2 DEF QueueHolds
  <2>9. IntervalsKept'
    BY <2>1, <2>2 DEF IntervalsKept, Waiting
  <2> QED
    BY <2>7, <2>8, <2>9
<1>4. ASSUME NEW id \in 1..xOrder, cancelTimer(id) PROVE G
  <2>1. /\ xCanceled' = xCanceled \cup {id} /\ xTimers' = {timer \in xTimers : timer.order # id}
        /\ xStopped' = xStopped \cup {id} /\ xIntervals' = xIntervals \ {id} /\ UNCHANGED <<xRegs, xOrder>>
    BY <1>4 DEF cancelTimer
  <2>2. xTimers' \in SUBSET xTimers /\ \A timer \in xTimers' : timer.order # id
    BY <2>1
  <2>3. IsFiniteSet(xTimers')
    BY <2>2, FS_Subset DEF TablesHold
  <2>4. TablesHold'
    BY <2>1, <2>2, <2>3 DEF TablesHold, StoppedStaysStopped
  <2>5. QueueHolds'
    BY <2>1, <2>2 DEF QueueHolds
  <2>6. IntervalsKept'
    <3> SUFFICES ASSUME NEW k \in xIntervals'
                 PROVE  \/ \E timer \in xTimers' : timer.order = k
                        \/ xThread["ui"].phase = "timers" /\ k \in Waiting("ui")
      BY DEF IntervalsKept, Waiting
    <3>1. k \in xIntervals /\ k # id
      BY <2>1
    <3>2. CASE \E timer \in xTimers : timer.order = k
      BY <3>1, <3>2, <2>1
    <3>3. CASE ~\E timer \in xTimers : timer.order = k
      BY <3>1, <3>3 DEF IntervalsKept
    <3> QED
      BY <3>2, <3>3
  <2> QED
    BY <2>4, <2>5, <2>6
<1> QED
  BY <1>1, <1>2, <1>3, <1>4 DEF Register

\* The file of an extension fails.
LEMMA UnregisterKeeps ==
  ASSUME HostInv, unregisterRuntime PROVE TablesHold' /\ QueueHolds' /\ IntervalsKept'
<1> USE DEF HostInv
<1> DEFINE gone == {timer.order : timer \in xTimers \ xTimers'}
<1>1. /\ xRegs' \in SUBSET xRegs /\ xTimers' \in SUBSET xTimers /\ xLoading' = {}
      /\ xCanceled' = xCanceled \cup gone /\ xIntervals' = xIntervals \ gone
      /\ UNCHANGED <<xOrder, xStopped, xThread>> /\ xPhase = "loading"
  BY DEF unregisterRuntime, xCalls
<1>2. gone \subseteq 1..xOrder /\ \A timer \in xTimers : timer.order \in gone \/ timer \in xTimers'
  BY DEF TablesHold
<1> HIDE DEF gone
<1>3. IsFiniteSet(xRegs') /\ IsFiniteSet(xTimers')
  BY <1>1, FS_Subset DEF TablesHold
<1>4. TablesHold'
  BY <1>1, <1>2, <1>3 DEF TablesHold, StoppedStaysStopped
<1>5. xThread["ui"].phase # "timers" /\ xThread["ui"]' = xThread["ui"]
  BY <1>1 DEF DispatchHolds, Threads, Resting
<1> QED
  BY <1>1, <1>2, <1>4, <1>5 DEF QueueHolds, IntervalsKept

\* Shutdown finds the threads at rest, and empties the tables of the host and its queue (Manager.Shutdown).
LEMMA ShutdownKeeps ==
  ASSUME HostInv, Shutdown PROVE TablesHold' /\ QueueHolds' /\ IntervalsKept' /\ \A t \in Threads : xThread[t] = Resting
<1> USE DEF HostInv
<1>1. /\ xRegs' = {} /\ xTimers' = {} /\ xCanceled' = {} /\ xOrder' = 0 /\ xStopped' = {} /\ xIntervals' = {}
      /\ xLoading' = {} /\ UNCHANGED xThread
  BY DEF Shutdown, xCalls
<1>2. \A t \in Threads : xThread[t] = Resting
  BY DEF Shutdown, DispatchHolds
<1>3. TablesHold'
  BY <1>1, FS_EmptySet DEF TablesHold, StoppedStaysStopped
<1> QED
  BY <1>1, <1>2, <1>3 DEF QueueHolds, IntervalsKept, Threads, Resting

\* A timer falls due.
LEMMA TimePassesKeeps == ASSUME HostInv, TimePasses PROVE TablesHold' /\ QueueHolds' /\ IntervalsKept'
<1> USE DEF HostInv
<1>1. PICK timer \in xTimers : xTimers' = (xTimers \ {timer}) \cup {[timer EXCEPT !.due = TRUE]}
  BY DEF TimePasses
<1>2. UNCHANGED <<xRegs, xCanceled, xOrder, xStopped, xIntervals, xThread, xLoading>>
  BY DEF TimePasses, xHost, xCalls
<1> DEFINE new == [timer EXCEPT !.due = TRUE]
<1>3. new \in TimerRecords /\ new.order = timer.order /\ new.repeats = timer.repeats
  BY DEF TablesHold, TimerRecords
<1>4. xTimers' = (xTimers \ {timer}) \cup {new}
  BY <1>1
<1> HIDE DEF new
<1>5. IsFiniteSet(xTimers')
  BY <1>4, FS_AddElement, FS_RemoveElement DEF TablesHold
<1>6. TablesHold'
  BY <1>2, <1>3, <1>4, <1>5 DEF TablesHold, StoppedStaysStopped
<1>7. QueueHolds'
  BY <1>2, <1>3, <1>4 DEF QueueHolds
<1>8. IntervalsKept'
  BY <1>2, <1>3, <1>4 DEF IntervalsKept, Waiting
<1> QED
  BY <1>6, <1>7, <1>8

--------------------------------------------------------------------------------
(* The threads. *)

IsTail(p, q) ==
  /\ 1 \in DOMAIN q
  /\ \A i \in DOMAIN p : i \in Nat \ {0} /\ i + 1 \in DOMAIN q /\ p[i] = q[i+1]
  /\ \A i \in DOMAIN q : i \in Nat \ {0} /\ (i = 1 \/ (i - 1 \in DOMAIN p /\ p[i-1] = q[i]))

\* The tail of a queue has its other calls, each one place earlier.
LEMMA TailIs ==
  ASSUME NEW S, NEW q \in Seq(S), q # <<>>
  PROVE  Tail(q) \in Seq(S) /\ IsTail(Tail(q), q) /\ Head(q) = q[1] /\ Head(q) \in S
<1>1. Len(q) \in Nat \ {0} /\ DOMAIN q = 1..Len(q) /\ Len(Tail(q)) = Len(q) - 1 /\ Tail(q) \in Seq(S)
  OBVIOUS
<1>2. DOMAIN Tail(q) = 1..(Len(q) - 1)
  BY <1>1
<1>3. \A i \in 1..(Len(q) - 1) : Tail(q)[i] = q[i+1]
  BY <1>1
<1>4. Head(q) = q[1] /\ Head(q) \in S
  BY <1>1
<1>5. IsTail(Tail(q), q)
  BY <1>1, <1>2, <1>3 DEF IsTail
<1> QED
  BY <1>1, <1>4, <1>5

\* What a thread with something to call is doing.
LEMMA ThreadIs ==
  ASSUME DispatchHolds, NEW t \in Threads
  PROVE  /\ xThread[t] = [phase |-> xThread[t].phase, queue |-> xThread[t].queue, step |-> xThread[t].step]
         /\ xThread[t].phase \in PhasesOf(t)
         /\ xThread[t].queue \in Seq(QueuedCalls)
         /\ xThread[t].step \in {"next", "running", "check", "reschedule"}
         /\ xThread[t].phase = "idle" => xThread[t].queue = <<>> /\ xThread[t].step = "next"
         /\ xThread[t].queue = <<>> => xThread[t].step = "next"
         /\ xThread[t].step \in {"check", "reschedule"} => xThread[t].phase = "timers"
BY DEF DispatchHolds, ThreadHolds, Dispatches, Resting

\* A dispatch that has calls left is in the first of them, of an extension that is loaded.
LEMMA CallingIs ==
  ASSUME DispatchHolds, NEW t \in Threads, xThread[t].queue # <<>>
  PROVE  /\ Calling(t) = xThread[t].queue[1] /\ Calling(t) \in QueuedCalls /\ Calling(t).extension \in Extensions
         /\ IsTail(Tail(xThread[t].queue), xThread[t].queue) /\ Tail(xThread[t].queue) \in Seq(QueuedCalls)
         /\ xThread[t].phase # "idle" /\ xPhase = "ready"
<1>1. xThread[t].queue \in Seq(QueuedCalls)
  BY ThreadIs
<1>2. /\ Calling(t) = xThread[t].queue[1] /\ Calling(t) \in QueuedCalls
      /\ IsTail(Tail(xThread[t].queue), xThread[t].queue) /\ Tail(xThread[t].queue) \in Seq(QueuedCalls)
  BY <1>1, TailIs DEF Calling
<1>3. Calling(t).extension \in Extensions
  BY <1>2 DEF QueuedCalls, Registrations, TimerRecords
<1>4. xThread[t].phase # "idle"
  BY ThreadIs
<1>5. xPhase = "ready"
  BY DEF DispatchHolds, Resting
<1> QED
  BY <1>2, <1>3, <1>4, <1>5

\* One thread goes on while the other waits.
LEMMA ThreadSteps ==
  ASSUME DispatchHolds, NEW t \in Threads, NEW d, ThreadHolds(t, d), xPhase = "ready", xPhase' = xPhase,
         xThread' = [xThread EXCEPT ![t] = d]
  PROVE  DispatchHolds' /\ xThread'[t] = d /\ \A u \in Threads \ {t} : xThread'[u] = xThread[u]
<1>1. /\ DOMAIN xThread' = Threads /\ xThread' = [u \in Threads |-> xThread'[u]] /\ xThread'[t] = d
      /\ \A u \in Threads \ {t} : xThread'[u] = xThread[u]
  BY DEF DispatchHolds
<1> QED
  BY <1>1 DEF DispatchHolds

\* A thread may always rest.
LEMMA RestingHolds == \A t \in Threads : ThreadHolds(t, Resting)
<1>1. Resting \in Dispatches
  BY EmptyQueue DEF Resting, Dispatches
<1> QED
  BY <1>1 DEF ThreadHolds, Resting, PhasesOf

\* What a thread does when a callback is through.
LEMMA ContinueIs ==
  ASSUME DispatchHolds, NEW t \in Threads, xThread[t].queue # <<>>, NEW stopped \in BOOLEAN
  PROVE  /\ ThreadHolds(t, Continue(t, stopped))
         /\ stopped => Continue(t, stopped) = Resting
         /\ ~stopped => Continue(t, stopped)
                          = [phase |-> xThread[t].phase, queue |-> Tail(xThread[t].queue), step |-> "next"]
<1>1. Continue(t, TRUE) = Resting
  BY DEF Continue
<1>2. Continue(t, FALSE) = [phase |-> xThread[t].phase, queue |-> Tail(xThread[t].queue), step |-> "next"]
  <2>1. xThread[t] = [phase |-> xThread[t].phase, queue |-> xThread[t].queue, step |-> xThread[t].step]
    BY ThreadIs
  <2>2. Continue(t, FALSE) = [xThread[t] EXCEPT !.queue = Tail(@), !.step = "next"]
    BY DEF Continue
  <2> QED
    BY <2>1, <2>2
<1>3. ThreadHolds(t, Resting)
  BY RestingHolds
<1>4. ThreadHolds(t, [phase |-> xThread[t].phase, queue |-> Tail(xThread[t].queue), step |-> "next"])
  <2> DEFINE d == [phase |-> xThread[t].phase, queue |-> Tail(xThread[t].queue), step |-> "next"]
  <2>1. Tail(xThread[t].queue) \in Seq(QueuedCalls) /\ xThread[t].phase # "idle"
    BY CallingIs
  <2>2. xThread[t].phase \in PhasesOf(t)
    BY ThreadIs
  <2>3. d \in Dispatches
    BY <2>1, <2>2 DEF Dispatches, PhasesOf
  <2>4. d.phase = xThread[t].phase /\ d.step = "next"
    OBVIOUS
  <2> HIDE DEF d
  <2> QED
    BY <2>1, <2>2, <2>3, <2>4 DEF ThreadHolds, d
<1> QED
  BY <1>1, <1>2, <1>3, <1>4

--------------------------------------------------------------------------------
(* What a step that leaves a part of the host alone keeps. *)

\* A step that leaves the tables alone keeps what holds of them.
LEMMA TablesSame == ASSUME TablesHold, UNCHANGED xTable, xLoading' \subseteq Extensions PROVE TablesHold'
BY DEF TablesHold, xTable, StoppedStaysStopped

\* A step that leaves the tables and the terminal's queue alone keeps what holds of the due timers.
LEMMA QueueSame ==
  ASSUME QueueHolds, IntervalsKept, UNCHANGED xTable,
         xThread'["ui"].phase = xThread["ui"].phase, xThread'["ui"].queue = xThread["ui"].queue
  PROVE  QueueHolds' /\ IntervalsKept'
BY DEF QueueHolds, IntervalsKept, Waiting, xTable

\* A terminal event that runs no timers has none to lose.
LEMMA QueueNone ==
  ASSUME IntervalsKept, UNCHANGED xTable, xThread["ui"].phase = "timers" => xThread["ui"].queue = <<>>,
         xThread'["ui"].phase # "timers"
  PROVE  QueueHolds' /\ IntervalsKept'
BY DEF QueueHolds, IntervalsKept, Waiting, xTable

\* A step that leaves the event alone, in the same call or at its end, keeps the order of what ran.
LEMMA RanSame ==
  ASSUME RanHolds, UNCHANGED xEvent, xThread'["ui"].phase \in {xThread["ui"].phase, "idle"},
         xThread'["ui"].phase = "idle" \/ (xThread'["ui"].queue = xThread["ui"].queue /\ xThread'["ui"].step = xThread["ui"].step)
  PROVE  RanHolds'
BY DEF RanHolds, RunsByPriority

\* A thread that holds no lock before or after a step.
LEMMA LocksSame ==
  ASSUME LocksHold, UNCHANGED <<xLocks, xActive, xEvent>>, NEW t \in Threads, xThread'[t].step # "running",
         \A u \in Threads \ {t} : xThread'[u] = xThread[u]
  PROVE  LocksHold'
BY DEF LocksHold, OnlyItsCallbacksWrite, Calling

\* A step that leaves the locks, the active events and the threads alone keeps their owners.
LEMMA LocksUntouched ==
  ASSUME LocksHold, UNCHANGED <<xLocks, xActive, xEvent, xThread>>
  PROVE  LocksHold'
BY DEF LocksHold, OnlyItsCallbacksWrite, Calling

\* A callback that ends gives its lock back.
LEMMA ReleaseKeeps ==
  ASSUME LocksHold, DispatchHolds, NEW t \in Threads, Running(t), Release(t), xEvent'.writers = xEvent.writers,
         xThread'[t].step # "running", \A u \in Threads \ {t} : xThread'[u] = xThread[u]
  PROVE  LocksHold'
<1>1. Calling(t).extension \in Extensions /\ xLocks[Calling(t).extension] = t
  BY CallingIs DEF Running, LocksHold
<1> DEFINE e == Calling(t).extension
<1>2. xLocks' = [xLocks EXCEPT ![e] = "free"] /\ xActive' = [xActive EXCEPT ![e] = "nil"]
  BY DEF Release
<1> HIDE DEF e
<1>3. e \in Extensions /\ xLocks[e] = t
  BY <1>1 DEF e
<1>4. /\ xLocks' \in [Extensions -> {"free"} \cup Threads] /\ xActive' \in [Extensions -> {"nil", "event"}]
      /\ \A x \in Extensions : xActive'[x] = "event" => xLocks'[x] = "ui"
  BY <1>2, <1>3 DEF LocksHold
<1>5. ASSUME NEW u \in Threads, xThread'[u].step = "running" PROVE xLocks'[Calling(u)'.extension] = u
  <2>1. u # t /\ xThread'[u] = xThread[u]
    BY <1>5
  <2>2. xThread[u].queue # <<>> /\ Calling(u)' = Calling(u)
    BY <1>5, <2>1, ThreadIs DEF Calling
  <2>3. Calling(u).extension \in Extensions /\ xLocks[Calling(u).extension] = u
    BY <1>5, <2>1, <2>2, CallingIs DEF LocksHold
  <2> QED
    BY <2>1, <2>2, <2>3, <1>2, <1>3 DEF LocksHold
<1> QED
  BY <1>4, <1>5 DEF LocksHold, OnlyItsCallbacksWrite

--------------------------------------------------------------------------------
(* The steps. *)

\* Loading, and what a file registers.
LEMMA LoadingKeeps ==
  ASSUME HostInv,
         \/ \E e \in Extensions : loadLuaFile(e)
         \/ runsFile \/ loadsDone \/ unregisterRuntime \/ Shutdown
  PROVE  HostInv'
<1> USE DEF HostInv
<1>1. UNCHANGED xCalls
  BY DEF loadLuaFile, runsFile, loadsDone, unregisterRuntime, Shutdown
<1>2. TablesHold' /\ QueueHolds' /\ IntervalsKept'
  <2>1. ASSUME NEW e \in Extensions, loadLuaFile(e) PROVE TablesHold' /\ QueueHolds' /\ IntervalsKept'
    <3>1. UNCHANGED <<xTable, xThread>> /\ xLoading' \subseteq Extensions
      BY <2>1 DEF loadLuaFile, xCalls
    <3> QED
      BY <3>1, TablesSame, QueueSame
  <2>2. ASSUME runsFile PROVE TablesHold' /\ QueueHolds' /\ IntervalsKept'
    <3>1. PICK e \in xLoading : Register(e)
      BY <2>2 DEF runsFile
    <3>2. UNCHANGED <<xThread, xLoading>> /\ e \in Extensions
      BY <2>2 DEF runsFile, xHost, xCalls, TablesHold
    <3> QED
      BY <3>1, <3>2, RegisterKeeps
  <2>3. ASSUME loadsDone PROVE TablesHold' /\ QueueHolds' /\ IntervalsKept'
    <3>1. UNCHANGED <<xTable, xThread>> /\ xLoading' \subseteq Extensions
      BY <2>3 DEF loadsDone, xCalls
    <3> QED
      BY <3>1, TablesSame, QueueSame
  <2> QED
    BY <2>1, <2>2, <2>3, UnregisterKeeps, ShutdownKeeps
<1>3. xPhase' # "ready" => \A t \in Threads : xThread[t] = Resting
  <2>1. ASSUME Shutdown PROVE \A t \in Threads : xThread[t] = Resting
    BY <2>1, ShutdownKeeps
  <2>2. ASSUME ~Shutdown, xPhase' # "ready" PROVE \A t \in Threads : xThread[t] = Resting
    <3>1. xPhase # "ready"
      BY <2>2 DEF loadLuaFile, runsFile, loadsDone, unregisterRuntime, xHost
    <3> QED
      BY <3>1 DEF DispatchHolds
  <2> QED
    BY <2>1, <2>2
<1>4. DispatchHolds'
  BY <1>1, <1>3 DEF DispatchHolds, xCalls
<1>5. LocksHold' /\ RanHolds'
  BY <1>1, LocksUntouched, RanSame DEF xCalls
<1> QED
  BY <1>2, <1>4, <1>5

\* A timer falls due, or a callback registers and stops.
LEMMA InCallbackKeeps ==
  ASSUME HostInv, TimePasses \/ \E t \in Threads : inCallback(t) PROVE HostInv'
<1> USE DEF HostInv
<1>1. UNCHANGED <<xHost, xCalls>>
  BY DEF TimePasses, inCallback
<1>2. TablesHold' /\ QueueHolds' /\ IntervalsKept'
  <2>1. ASSUME NEW t \in Threads, inCallback(t) PROVE TablesHold' /\ QueueHolds' /\ IntervalsKept'
    <3>1. Register(Calling(t).extension) /\ xThread[t].queue # <<>>
      BY <2>1 DEF inCallback, Running
    <3>2. Calling(t).extension \in Extensions
      BY <3>1, CallingIs
    <3>3. UNCHANGED <<xThread, xLoading>>
      BY <1>1 DEF xHost, xCalls
    <3> QED
      BY <3>1, <3>2, <3>3, RegisterKeeps
  <2> QED
    BY <2>1, TimePassesKeeps
<1>3. DispatchHolds' /\ LocksHold' /\ RanHolds'
  BY <1>1, LocksUntouched, RanSame DEF xCalls, xHost, DispatchHolds
<1> QED
  BY <1>2, <1>3

\* A terminal event takes the due timers.
LEMMA TerminalEventKeeps == ASSUME HostInv, handleTerminalEvent PROVE HostInv'
<1> USE DEF HostInv
<1> DEFINE due == {timer \in xTimers : timer.due /\ timer.order \notin xCanceled}
<1>1. PICK queue \in SetToSeqs(due) :
          xThread' = [xThread EXCEPT !["ui"] = [phase |-> "timers", queue |-> queue, step |-> "next"]]
  BY DEF handleTerminalEvent
<1>2. /\ xTimers' = {timer \in xTimers : ~timer.due /\ timer.order \notin xCanceled}
      /\ xCanceled' = xCanceled \ {timer.order : timer \in xTimers}
      /\ xPhase = "ready" /\ xThread["ui"] = Resting /\ xEvent' = NoEvent
      /\ UNCHANGED <<xHost, xRegs, xOrder, xStopped, xIntervals, xLocks, xActive>>
  BY DEF handleTerminalEvent, takeDueTimers
<1>3. due \in SUBSET xTimers /\ xTimers' \in SUBSET xTimers
  BY <1>2
<1>4. IsFiniteSet(due) /\ IsFiniteSet(xTimers')
  BY <1>3, FS_Subset DEF TablesHold
<1>5. \A timer \in due : timer \in xTimers /\ timer.due
  OBVIOUS
<1>6. \A timer \in xTimers : timer.order \in xCanceled \/ timer \in due \/ timer \in xTimers'
  BY <1>2 DEF TablesHold, TimerRecords
<1>7. \A timer \in xTimers' : ~timer.due
  BY <1>2
<1> HIDE DEF due
<1>8. /\ queue \in Seq(due) /\ \A i, j \in DOMAIN queue : i # j => queue[i] # queue[j]
      /\ \A timer \in due : \E i \in DOMAIN queue : queue[i] = timer
      /\ \A i \in DOMAIN queue : queue[i] \in due
  BY <1>4, QueueHasAll
<1>9. "ui" \in Threads
  BY DEF Threads
<1> DEFINE d == [phase |-> "timers", queue |-> queue, step |-> "next"]
<1>10. queue \in Seq(QueuedCalls)
  <2>1. due \subseteq QueuedCalls
    BY <1>3 DEF TablesHold, QueuedCalls
  <2> QED
    BY <1>8, <2>1
<1>11. ThreadHolds("ui", d)
  BY <1>10 DEF ThreadHolds, Dispatches, PhasesOf
<1>12. DispatchHolds' /\ xThread'["ui"] = d /\ \A u \in Threads \ {"ui"} : xThread'[u] = xThread[u]
  <2> HIDE DEF d
  <2>1. xThread' = [xThread EXCEPT !["ui"] = d]
    BY <1>1 DEF d
  <2> QED
    BY <1>2, <1>9, <1>11, <2>1, ThreadSteps DEF xHost
<1>13. TablesHold'
  BY <1>2, <1>3, <1>4 DEF TablesHold, StoppedStaysStopped, xHost
<1>14. QueueHolds'
  <2>1. \A i \in DOMAIN queue :
           /\ queue[i] \in TimerRecords /\ queue[i].order \in 1..xOrder
           /\ queue[i].order \in xIntervals => queue[i].repeats
           /\ queue[i].order \notin xStopped
           /\ \A other \in xTimers' : other.order # queue[i].order
    BY <1>3, <1>5, <1>7, <1>8 DEF TablesHold, StoppedStaysStopped
  <2>2. \A i, j \in DOMAIN queue : i # j => queue[i].order # queue[j].order
    BY <1>5, <1>8 DEF TablesHold
  <2>3. xThread'["ui"].queue = queue /\ UNCHANGED <<xOrder, xStopped, xIntervals>>
    BY <1>2, <1>12
  <2> QED
    BY <2>1, <2>2, <2>3 DEF QueueHolds
<1>15. IntervalsKept'
  <2>0. xThread'["ui"].phase = "timers" /\ xThread'["ui"].queue = queue /\ xIntervals' = xIntervals
    BY <1>2, <1>12
  <2> SUFFICES ASSUME NEW id \in xIntervals
               PROVE  (\E timer \in xTimers' : timer.order = id) \/ \E i \in DOMAIN queue : queue[i].order = id
    BY <2>0 DEF IntervalsKept, Waiting
  <2>1. PICK timer \in xTimers : timer.order = id
    BY <1>2 DEF IntervalsKept, Resting
  <2>2. id \notin xCanceled
    BY DEF TablesHold
  <2> QED
    BY <2>1, <2>2, <1>6, <1>8
<1>16. LocksHold'
  <2>1. \A t \in Threads : xThread'[t].step = "running" => t # "ui" /\ xThread'[t] = xThread[t]
    BY <1>12
  <2> QED
    BY <1>2, <2>1 DEF LocksHold, OnlyItsCallbacksWrite, NoEvent, Calling
<1>17. RanHolds'
  BY <1>2, <1>12 DEF RanHolds, NoEvent, RunsByPriority
<1> QED
  BY <1>12, <1>13, <1>14, <1>15, <1>16, <1>17

\* An assistant run dispatches.
LEMMA LifecycleKeeps ==
  ASSUME HostInv, NEW phase \in {"lifecycle", "emit"}, DispatchLifecycle(phase) PROVE HostInv'
<1> USE DEF HostInv
<1> DEFINE d == [phase |-> phase, queue |-> handlersFor("tool_call"), step |-> "next"]
<1>1. /\ xThread' = [xThread EXCEPT !["agent"] = d] /\ xPhase = "ready"
      /\ UNCHANGED <<xHost, xTable, xLocks, xActive, xEvent>>
  BY DEF DispatchLifecycle
<1>2. "agent" \in Threads /\ "ui" \in Threads /\ "ui" # "agent"
  BY DEF Threads
<1>3. handlersFor("tool_call") \in Seq(QueuedCalls)
  <2> DEFINE S == {r \in xRegs : r.kind = "tool_call"}
  <2>1. S \subseteq QueuedCalls
    BY DEF TablesHold, QueuedCalls
  <2>2. handlersFor("tool_call") \in Seq(S)
    BY HandlersForIs DEF TablesHold
  <2> HIDE DEF S
  <2> QED
    BY <2>1, <2>2
<1>4. ThreadHolds("agent", d)
  BY <1>3 DEF ThreadHolds, Dispatches, PhasesOf
<1>5. d.step = "next"
  OBVIOUS
<1> HIDE DEF d
<1>6. DispatchHolds' /\ xThread'["agent"] = d /\ \A u \in Threads \ {"agent"} : xThread'[u] = xThread[u]
  BY <1>1, <1>2, <1>4, ThreadSteps DEF xHost
<1>7. xThread'["ui"] = xThread["ui"] /\ xThread'["agent"].step # "running"
  BY <1>2, <1>5, <1>6
<1>8. TablesHold' /\ QueueHolds' /\ IntervalsKept'
  BY <1>1, <1>7, TablesSame, QueueSame DEF xHost, TablesHold
<1>9. LocksHold'
  BY <1>1, <1>2, <1>6, <1>7, LocksSame
<1>10. RanHolds'
  BY <1>1, <1>7, RanSame
<1> QED
  BY <1>6, <1>8, <1>9, <1>10

\* The keymaps after the timers, the handlers after the keymaps.
LEMMA NextPhaseKeeps == ASSUME HostInv, NEW t \in Threads, nextPhase(t) PROVE HostInv'
<1> USE DEF HostInv
<1> DEFINE d == CASE xThread[t].phase = "timers" ->
                         [phase |-> "keymaps", queue |-> handlersFor("keymap"), step |-> "next"]
                  [] xThread[t].phase = "keymaps" /\ ~xEvent.stopped ->
                         [phase |-> "handlers", queue |-> handlersFor("key"), step |-> "next"]
                  [] OTHER -> Resting
<1>1. /\ xThread' = [xThread EXCEPT ![t] = d] /\ xThread[t].phase # "idle" /\ xThread[t].queue = <<>>
      /\ UNCHANGED <<xHost, xTable, xLocks, xActive, xEvent>>
  BY DEF nextPhase
<1>2. xPhase = "ready"
  BY <1>1 DEF DispatchHolds, Resting
<1>3. \/ /\ t = "ui" /\ xThread["ui"].phase = "timers"
         /\ d = [phase |-> "keymaps", queue |-> handlersFor("keymap"), step |-> "next"]
      \/ /\ t = "ui" /\ xThread["ui"].phase = "keymaps"
         /\ d = [phase |-> "handlers", queue |-> handlersFor("key"), step |-> "next"]
      \/ d = Resting
  <2>1. xThread[t].phase \in PhasesOf(t)
    BY ThreadIs
  <2> QED
    BY <2>1 DEF PhasesOf, Threads
<1> HIDE DEF d
<1>4. ASSUME NEW kind
      PROVE  /\ handlersFor(kind) \in Seq(Registrations) /\ handlersFor(kind) \in Seq(QueuedCalls)
             /\ IsInOrder(handlersFor(kind))
             /\ \A i \in DOMAIN handlersFor(kind) : handlersFor(kind)[i].kind = kind
  <2> DEFINE S == {r \in xRegs : r.kind = kind}
             q == handlersFor(kind)
  <2>1. S \subseteq QueuedCalls /\ S \subseteq Registrations /\ \A r \in S : r.kind = kind
    BY DEF TablesHold, QueuedCalls
  <2>2. q \in Seq(S) /\ IsInOrder(q)
    BY HandlersForIs DEF TablesHold
  <2> HIDE DEF S, q
  <2>3. q \in Seq(QueuedCalls) /\ q \in Seq(Registrations) /\ \A i \in DOMAIN q : q[i] \in S
    BY <2>1, <2>2
  <2> QED
    BY <2>1, <2>2, <2>3 DEF q
<1>5. ThreadHolds(t, d) /\ d.step = "next"
  <2>1. CASE d = Resting
    BY <2>1, RestingHolds DEF Resting
  <2>2. ASSUME NEW kind, NEW phase \in {"keymaps", "handlers"}, t = "ui",
               d = [phase |-> phase, queue |-> handlersFor(kind), step |-> "next"]
        PROVE  ThreadHolds(t, d) /\ d.step = "next"
    BY <1>4, <2>2 DEF ThreadHolds, Dispatches, PhasesOf
  <2> QED
    BY <1>3, <2>1, <2>2
<1>6. DispatchHolds' /\ xThread'[t] = d /\ \A u \in Threads \ {t} : xThread'[u] = xThread[u]
  BY <1>1, <1>2, <1>5, ThreadSteps DEF xHost
<1>7. LocksHold'
  BY <1>1, <1>5, <1>6, LocksSame
<1>8. TablesHold'
  BY <1>1, TablesSame DEF xHost, TablesHold
<1>u. "ui" \in Threads
  BY DEF Threads
<1>9. QueueHolds' /\ IntervalsKept'
  <2>1. CASE t = "ui"
    <3>1. xThread'["ui"].phase # "timers"
      BY <1>3, <1>6, <2>1 DEF Resting
    <3> QED
      BY <1>1, <2>1, <3>1, QueueNone
  <2>2. CASE t # "ui"
    BY <1>1, <1>6, <1>u, <2>2, QueueSame
  <2> QED
    BY <2>1, <2>2
<1>10. RanHolds'
  <2>1. CASE t # "ui"
    BY <1>1, <1>6, <1>u, <2>1, RanSame
  <2>2. CASE d = Resting /\ t = "ui"
    <3>1. xThread'["ui"].phase = "idle"
      BY <1>6, <2>2 DEF Resting
    <3> QED
      BY <1>1, <3>1, RanSame
  <2>3. CASE /\ t = "ui" /\ xThread["ui"].phase = "timers"
             /\ d = [phase |-> "keymaps", queue |-> handlersFor("keymap"), step |-> "next"]
    <3>1. xThread'["ui"].phase = "keymaps" /\ xThread'["ui"].queue = handlersFor("keymap") /\ xEvent' = xEvent
      BY <1>1, <1>6, <2>3
    <3>2. xEvent.ran = <<>>
      BY <2>3 DEF RanHolds
    <3>3. DOMAIN xEvent.ran = {}
      BY <3>2
    <3>4. /\ handlersFor("keymap") \in Seq(Registrations) /\ IsInOrder(handlersFor("keymap"))
          /\ \A i \in DOMAIN handlersFor("keymap") : handlersFor("keymap")[i].kind = "keymap"
      BY <1>4
    <3> QED
      BY <3>1, <3>3, <3>4 DEF RanHolds, RunsByPriority
  <2>4. CASE /\ t = "ui" /\ xThread["ui"].phase = "keymaps"
             /\ d = [phase |-> "handlers", queue |-> handlersFor("key"), step |-> "next"]
    <3>1. xThread'["ui"].phase = "handlers" /\ xThread'["ui"].queue = handlersFor("key") /\ xEvent' = xEvent
      BY <1>1, <1>6, <2>4
    <3>2. \A i \in DOMAIN xEvent.ran : xEvent.ran[i].kind = "keymap"
      BY <2>4 DEF RanHolds
    <3>3. /\ handlersFor("key") \in Seq(Registrations) /\ IsInOrder(handlersFor("key"))
          /\ \A i \in DOMAIN handlersFor("key") : handlersFor("key")[i].kind = "key"
      BY <1>4
    <3> QED
      BY <3>1, <3>2, <3>3 DEF RanHolds, RunsByPriority
  <2> QED
    BY <1>3, <2>1, <2>2, <2>3, <2>4
<1> QED
  BY <1>6, <1>7, <1>8, <1>9, <1>10

\* A callback is called.
LEMMA StartCallKeeps == ASSUME HostInv, NEW t \in Threads, startCall(t) PROVE HostInv'
<1> USE DEF HostInv
<1> DEFINE e == Calling(t).extension
           d == [phase |-> xThread[t].phase, queue |-> xThread[t].queue, step |-> "running"]
<1>1. /\ xThread[t].queue # <<>> /\ xThread[t].step = "next"
      /\ xLocks[e] = "free" /\ xLocks' = [xLocks EXCEPT ![e] = t]
      /\ xActive' = [xActive EXCEPT ![e] = IF t = "ui" THEN "event" ELSE "nil"]
      /\ xThread' = [xThread EXCEPT ![t].step = "running"]
      /\ xEvent' = IF xThread[t].phase \in {"keymaps", "handlers"} THEN [xEvent EXCEPT !.ran = Append(@, Calling(t))]
                   ELSE xEvent
      /\ UNCHANGED <<xHost, xTable>>
  BY DEF startCall, callLuaPrepared
<1>2. xThread' = [xThread EXCEPT ![t] = d]
  <2>1. xThread[t] = [phase |-> xThread[t].phase, queue |-> xThread[t].queue, step |-> xThread[t].step]
    BY ThreadIs
  <2>2. [xThread[t] EXCEPT !.step = "running"] = d
    BY <2>1
  <2>3. xThread' = [xThread EXCEPT ![t] = [xThread[t] EXCEPT !.step = "running"]]
    BY <1>1
  <2> QED
    BY <2>2, <2>3
<1>3. e \in Extensions /\ xPhase = "ready" /\ xThread[t].phase # "idle"
  BY <1>1, CallingIs
<1>4. ThreadHolds(t, d)
  <2>1. /\ xThread[t].queue \in Seq(QueuedCalls) /\ xThread[t].phase \in PhasesOf(t)
    BY ThreadIs
  <2>2. d \in Dispatches
    BY <2>1 DEF Dispatches, PhasesOf
  <2> QED
    BY <1>1, <1>3, <2>1, <2>2 DEF ThreadHolds
<1>d. d.step = "running" /\ d.queue = xThread[t].queue /\ d.phase = xThread[t].phase
  OBVIOUS
<1> HIDE DEF d, e
<1>5. DispatchHolds' /\ xThread'[t] = d /\ \A u \in Threads \ {t} : xThread'[u] = xThread[u]
  BY <1>1, <1>2, <1>3, <1>4, ThreadSteps DEF xHost
<1>6. \A u \in Threads : xThread'[u].phase = xThread[u].phase /\ xThread'[u].queue = xThread[u].queue
  BY <1>5, <1>d
<1>u. "ui" \in Threads /\ "free" \notin Threads
  BY DEF Threads
<1>7. TablesHold' /\ QueueHolds' /\ IntervalsKept'
  BY <1>1, <1>6, <1>u, TablesSame, QueueSame DEF xHost, TablesHold
<1>8. xEvent'.writers = xEvent.writers /\ xEvent' \in [stopped : BOOLEAN, writers : SUBSET Threads, ran : Seq(Registrations)]
      /\ xEvent'.ran = IF xThread[t].phase \in {"keymaps", "handlers"} THEN Append(xEvent.ran, Calling(t)) ELSE xEvent.ran
  <2>0. xEvent \in [stopped : BOOLEAN, writers : SUBSET Threads, ran : Seq(Registrations)]
    BY DEF RanHolds
  <2>1. CASE xThread[t].phase \in {"keymaps", "handlers"}
    <3>1. t = "ui"
      BY <2>1, ThreadIs DEF PhasesOf
    <3>2. Calling(t) \in Registrations
      BY <3>1, <2>1, <1>1, TailIs DEF RanHolds, Calling
    <3>3. Append(xEvent.ran, Calling(t)) \in Seq(Registrations)
      BY <3>2, <2>0
    <3>4. xEvent = [stopped |-> xEvent.stopped, writers |-> xEvent.writers, ran |-> xEvent.ran]
          /\ xEvent.stopped \in BOOLEAN /\ xEvent.writers \in SUBSET Threads
      BY <2>0
    <3>5. xEvent' = [stopped |-> xEvent.stopped, writers |-> xEvent.writers, ran |-> Append(xEvent.ran, Calling(t))]
      BY <1>1, <2>1, <3>4
    <3> QED
      BY <2>1, <3>3, <3>4, <3>5
  <2>2. CASE xThread[t].phase \notin {"keymaps", "handlers"}
    BY <2>0, <2>2, <1>1
  <2> QED
    BY <2>1, <2>2
<1>9. LocksHold'
  <2>1. /\ xLocks' \in [Extensions -> {"free"} \cup Threads] /\ xActive' \in [Extensions -> {"nil", "event"}]
        /\ \A x \in Extensions : xActive'[x] = "event" => xLocks'[x] = "ui"
    BY <1>1, <1>3 DEF LocksHold
  <2>2. ASSUME NEW u \in Threads, xThread'[u].step = "running" PROVE xLocks'[Calling(u)'.extension] = u
    <3>1. Calling(u)' = Calling(u)
      BY <1>6 DEF Calling
    <3>2. CASE u = t
      BY <3>1, <3>2, <1>1, <1>3 DEF e, LocksHold
    <3>3. CASE u # t
      <4>1. xThread[u].step = "running"
        BY <2>2, <3>3, <1>5
      <4>2. xThread[u].queue # <<>>
        BY <4>1, ThreadIs
      <4>3. Calling(u).extension \in Extensions /\ xLocks[Calling(u).extension] = u
        BY <4>1, <4>2, CallingIs DEF LocksHold
      <4>4. Calling(u).extension # e
        BY <4>3, <1>1, <1>u
      <4> QED
        BY <3>1, <4>3, <4>4, <1>1, <1>3 DEF LocksHold
    <3> QED
      BY <3>2, <3>3
  <2> QED
    BY <2>1, <2>2, <1>8 DEF LocksHold, OnlyItsCallbacksWrite
<1>10. RanHolds'
  <2>1. CASE xThread[t].phase \notin {"keymaps", "handlers"}
    <3>1. xEvent' = xEvent
      BY <1>1, <2>1
    <3>2. CASE t = "ui"
      BY <3>1, <3>2, <2>1, <1>6, <1>u DEF RanHolds, RunsByPriority
    <3>3. CASE t # "ui"
      BY <3>1, <3>3, <1>5, <1>u, RanSame
    <3> QED
      BY <3>2, <3>3
  <2>2. CASE xThread[t].phase \in {"keymaps", "handlers"}
    <3>1. t = "ui"
      BY <2>2, ThreadIs DEF PhasesOf
    <3> DEFINE q == xThread["ui"].queue
               ran == xEvent.ran
               h == q[1]
    <3>2. /\ q \in Seq(Registrations) /\ IsInOrder(q) /\ ran \in Seq(Registrations)
          /\ \A i \in DOMAIN q : q[i].kind = IF xThread["ui"].phase = "keymaps" THEN "keymap" ELSE "key"
          /\ \A i \in DOMAIN ran, j \in DOMAIN q : ran[i].kind = q[j].kind => runsBefore(ran[i], q[j])
      BY <2>2, <3>1, <1>1 DEF RanHolds
    <3>3. 1 \in DOMAIN q /\ Calling(t) = h
      BY <3>1, <1>1, CallingIs DEF IsTail
    <3>4. xEvent'.ran = Append(ran, h)
      BY <2>2, <1>8, <3>3
    <3>5. /\ xThread'["ui"].phase = xThread["ui"].phase /\ xThread'["ui"].queue = q
          /\ xThread'["ui"].step = "running"
      BY <1>5, <1>6, <1>u, <1>d, <3>1
    <3> HIDE DEF q, ran, h
    <3>6. /\ DOMAIN xEvent'.ran = DOMAIN ran \cup {Len(ran) + 1} /\ Len(ran) \in Nat /\ DOMAIN ran = 1..Len(ran)
          /\ xEvent'.ran[Len(ran) + 1] = h /\ \A i \in DOMAIN ran : xEvent'.ran[i] = ran[i]
      BY <3>2, <3>4
    <3>7. RunsByPriority'
      <4> SUFFICES ASSUME NEW i \in DOMAIN xEvent'.ran, NEW j \in DOMAIN xEvent'.ran, i < j,
                          xEvent'.ran[i].kind = xEvent'.ran[j].kind
                   PROVE  runsBefore(xEvent'.ran[i], xEvent'.ran[j])
        BY DEF RunsByPriority, runsBefore
      <4>1. i \in DOMAIN ran
        BY <3>6
      <4>2. CASE j \in DOMAIN ran
        BY <4>1, <4>2, <3>6 DEF RanHolds, RunsByPriority, runsBefore, ran
      <4>3. CASE j = Len(ran) + 1
        <5>1. ran[i].kind = h.kind
          BY <4>1, <4>3, <3>6
        <5>2. runsBefore(ran[i], h)
          BY <4>1, <5>1, <3>2, <3>3 DEF h
        <5> QED
          BY <4>1, <4>3, <5>2, <3>6
      <4> QED
        BY <4>2, <4>3, <3>6
    <3>8. \A i \in DOMAIN xEvent'.ran, j \in DOMAIN q :
             xEvent'.ran[i].kind = q[j].kind => runsBefore(xEvent'.ran[i], q[j]) \/ j = 1
      <4> SUFFICES ASSUME NEW i \in DOMAIN xEvent'.ran, NEW j \in DOMAIN q, xEvent'.ran[i].kind = q[j].kind, j # 1
                   PROVE  runsBefore(xEvent'.ran[i], q[j])
        OBVIOUS
      <4>1. CASE i \in DOMAIN ran
        BY <4>1, <3>2, <3>6
      <4>2. CASE i = Len(ran) + 1
        <5>1. 1 < j
          BY <3>2
        <5> QED
          BY <4>2, <5>1, <3>2, <3>3, <3>6 DEF IsInOrder, h
      <4> QED
        BY <4>1, <4>2, <3>6
    <3>9. xThread["ui"].phase = "keymaps" => \A i \in DOMAIN xEvent'.ran : xEvent'.ran[i].kind = "keymap"
      BY <3>2, <3>3, <3>6 DEF RanHolds, h, ran
    <3>10. xThread["ui"].phase # "timers"
      BY <2>2, <3>1
    <3> QED
      BY <1>8, <3>2, <3>5, <3>7, <3>8, <3>9, <3>10 DEF RanHolds
  <2> QED
    BY <2>1, <2>2
<1> QED
  BY <1>5, <1>7, <1>9, <1>10

\* A callback writes to the event of its extension.
LEMMA BufferCallKeeps == ASSUME HostInv, NEW t \in Threads, bufferCall(t) PROVE HostInv'
<1> USE DEF HostInv
<1>1. /\ xThread[t].queue # <<>> /\ xThread[t].step = "running" /\ xActive[Calling(t).extension] = "event"
      /\ xEvent' = [xEvent EXCEPT !.writers = @ \cup {t}]
      /\ UNCHANGED <<xHost, xTable, xLocks, xActive, xThread>>
  BY DEF bufferCall, Running
<1>2. t = "ui"
  BY <1>1, CallingIs DEF LocksHold
<1>3. xEvent' = [stopped |-> xEvent.stopped, writers |-> xEvent.writers \cup {t}, ran |-> xEvent.ran]
  BY <1>1 DEF RanHolds
<1>4. RanHolds'
  BY <1>1, <1>3 DEF RanHolds, RunsByPriority
<1>5. LocksHold'
  BY <1>1, <1>2, <1>3 DEF LocksHold, OnlyItsCallbacksWrite, Calling
<1> QED
  BY <1>1, <1>4, <1>5, TablesSame, QueueSame DEF xHost, TablesHold, DispatchHolds

\* The timers that are left when the first of them is through.
LEMMA QueueAdvances ==
  ASSUME QueueHolds, IntervalsKept, UNCHANGED xTable, xThread["ui"].phase = "timers",
         xThread'["ui"].phase = "timers", IsTail(xThread'["ui"].queue, xThread["ui"].queue),
         xThread["ui"].queue[1].order \notin xIntervals
  PROVE  QueueHolds' /\ IntervalsKept'
<1> DEFINE q == xThread["ui"].queue
           p == xThread'["ui"].queue
<1>1. IsTail(p, q) /\ q[1].order \notin xIntervals
  OBVIOUS
<1>2. UNCHANGED <<xTimers, xCanceled, xOrder, xStopped, xIntervals>>
  BY DEF xTable
<1>3. \A i \in DOMAIN q :
         /\ q[i] \in TimerRecords /\ q[i].order \in 1..xOrder
         /\ q[i].order \in xIntervals => q[i].repeats
         /\ q[i].order \in xStopped => q[i].order \in xCanceled
         /\ \A other \in xTimers : other.order # q[i].order
  BY DEF QueueHolds
<1>4. \A i, j \in DOMAIN q : i # j => q[i].order # q[j].order
  BY DEF QueueHolds
<1>5. \A id \in xIntervals : (\E timer \in xTimers : timer.order = id) \/ \E i \in DOMAIN q : q[i].order = id
  BY DEF IntervalsKept, Waiting
<1> HIDE DEF q, p
<1>6. \A i \in DOMAIN p : i + 1 \in DOMAIN q /\ p[i] = q[i+1]
  BY <1>1 DEF IsTail
<1>7. \A i, j \in DOMAIN p : i # j => i + 1 # j + 1
  BY <1>1 DEF IsTail
<1>8. QueueHolds'
  BY <1>2, <1>3, <1>4, <1>6, <1>7 DEF QueueHolds, p
<1>9. \A i \in DOMAIN q : i = 1 \/ \E j \in DOMAIN p : p[j] = q[i]
  BY <1>1 DEF IsTail
<1>10. IntervalsKept'
  <2> SUFFICES ASSUME NEW id \in xIntervals
               PROVE  (\E timer \in xTimers : timer.order = id) \/ \E i \in DOMAIN p : p[i].order = id
    BY <1>2 DEF IntervalsKept, Waiting, p
  <2> QED
    BY <1>1, <1>5, <1>9
<1> QED
  BY <1>8, <1>10

\* The calls of an event that are left when the first of them is through.
LEMMA RanAdvances ==
  ASSUME RanHolds, xEvent'.ran = xEvent.ran,
         xEvent' \in [stopped : BOOLEAN, writers : SUBSET Threads, ran : Seq(Registrations)],
         xThread["ui"].queue # <<>>, xThread'["ui"].phase = xThread["ui"].phase,
         xThread["ui"].phase \in {"timers", "keymaps", "handlers"},
         xThread'["ui"].queue = Tail(xThread["ui"].queue)
  PROVE  RanHolds'
<1>1. RunsByPriority'
  BY DEF RanHolds, RunsByPriority
<1>2. CASE xThread["ui"].phase = "timers"
  BY <1>1, <1>2 DEF RanHolds
<1>3. CASE xThread["ui"].phase \in {"keymaps", "handlers"}
  <2> DEFINE q == xThread["ui"].queue
             p == xThread'["ui"].queue
             ran == xEvent.ran
  <2>1. /\ q \in Seq(Registrations) /\ IsInOrder(q)
        /\ \A i \in DOMAIN q : q[i].kind = IF xThread["ui"].phase = "keymaps" THEN "keymap" ELSE "key"
        /\ \A i \in DOMAIN ran, j \in DOMAIN q : ran[i].kind = q[j].kind => runsBefore(ran[i], q[j]) \/ j = 1
        /\ xThread["ui"].phase = "keymaps" => \A i \in DOMAIN ran : ran[i].kind = "keymap"
    BY <1>3 DEF RanHolds
  <2>2. p \in Seq(Registrations) /\ IsTail(p, q)
    BY <2>1, TailIs
  <2> HIDE DEF q, p, ran
  <2>3. \A i \in DOMAIN p : i + 1 \in DOMAIN q /\ p[i] = q[i+1] /\ i \in Nat \ {0}
    BY <2>2 DEF IsTail
  <2>4. IsInOrder(p)
    <3>1. \A i, j \in DOMAIN p : i < j => i + 1 < j + 1
      BY <2>3
    <3> QED
      BY <2>1, <2>3, <3>1 DEF IsInOrder
  <2>5. \A i \in DOMAIN ran, j \in DOMAIN p : ran[i].kind = p[j].kind => runsBefore(ran[i], p[j])
    <3>1. \A j \in DOMAIN p : j + 1 # 1
      BY <2>3
    <3> QED
      BY <2>1, <2>3, <3>1
  <2>6. \A i \in DOMAIN p : p[i].kind = IF xThread["ui"].phase = "keymaps" THEN "keymap" ELSE "key"
    BY <2>1, <2>3
  <2>7. xThread'["ui"].phase # "timers"
    BY <1>3
  <2> QED
    BY <1>1, <2>1, <2>2, <2>4, <2>5, <2>6, <2>7 DEF RanHolds, p, ran
<1> QED
  BY <1>2, <1>3

\* A callback returns.
LEMMA ReturnCallKeeps == ASSUME HostInv, NEW t \in Threads, NEW stop \in BOOLEAN, returnCall(t, stop) PROVE HostInv'
<1> USE DEF HostInv
<1> DEFINE d == CASE xThread[t].phase = "timers" /\ Calling(t).repeats -> [xThread[t] EXCEPT !.step = "check"]
                  [] xThread[t].phase \in {"keymaps", "handlers"} -> Continue(t, xEvent'.stopped)
                  [] xThread[t].phase = "lifecycle" -> Continue(t, stop)
                  [] OTHER -> Continue(t, FALSE)
           checked == [phase |-> xThread[t].phase, queue |-> xThread[t].queue, step |-> "check"]
           tail == [phase |-> xThread[t].phase, queue |-> Tail(xThread[t].queue), step |-> "next"]
<1>1. /\ Running(t) /\ Release(t) /\ xThread[t].queue # <<>> /\ xThread[t].step = "running"
      /\ xEvent' = IF t = "ui" /\ stop THEN [xEvent EXCEPT !.stopped = TRUE] ELSE xEvent
      /\ xThread' = [xThread EXCEPT ![t] = d]
      /\ UNCHANGED <<xHost, xTable>>
  BY DEF returnCall, Running
<1>2. /\ xEvent' \in [stopped : BOOLEAN, writers : SUBSET Threads, ran : Seq(Registrations)]
      /\ xEvent'.ran = xEvent.ran /\ xEvent'.writers = xEvent.writers /\ xEvent'.stopped \in BOOLEAN
  BY <1>1 DEF RanHolds
<1>3. xPhase = "ready" /\ xThread[t].phase # "idle"
  BY <1>1, CallingIs
<1>4. [xThread[t] EXCEPT !.step = "check"] = checked
  <2>1. xThread[t] = [phase |-> xThread[t].phase, queue |-> xThread[t].queue, step |-> xThread[t].step]
    BY ThreadIs
  <2> QED
    BY <2>1
<1>5. \/ d = checked /\ xThread[t].phase = "timers"
      \/ d = tail /\ ~(xThread[t].phase = "timers" /\ Calling(t).repeats)
      \/ d = Resting /\ xThread[t].phase # "timers"
  <2>1. \A stopped \in BOOLEAN : Continue(t, stopped) = Resting \/ Continue(t, stopped) = tail
    BY <1>1, ContinueIs
  <2>2. Continue(t, FALSE) = tail
    BY <1>1, ContinueIs
  <2> HIDE DEF tail, checked
  <2>3. CASE xThread[t].phase = "timers" /\ Calling(t).repeats
    BY <1>4, <2>3
  <2>4. CASE xThread[t].phase = "timers" /\ ~Calling(t).repeats
    BY <2>2, <2>4
  <2>5. CASE xThread[t].phase \in {"keymaps", "handlers"}
    BY <1>2, <2>1, <2>5
  <2>6. CASE xThread[t].phase = "lifecycle"
    BY <2>1, <2>6
  <2>7. CASE xThread[t].phase \notin {"timers", "keymaps", "handlers", "lifecycle"}
    BY <2>2, <2>7
  <2> QED
    BY <2>3, <2>4, <2>5, <2>6, <2>7
<1>6. ThreadHolds(t, checked) \/ xThread[t].phase # "timers"
  <2>1. xThread[t].queue \in Seq(QueuedCalls) /\ xThread[t].phase \in PhasesOf(t)
    BY ThreadIs
  <2>2. checked \in Dispatches
    BY <2>1 DEF Dispatches, PhasesOf
  <2> QED
    BY <1>1, <1>3, <2>1, <2>2 DEF ThreadHolds
<1>7. ThreadHolds(t, tail) /\ ThreadHolds(t, Resting)
  BY <1>1, ContinueIs, RestingHolds
<1>8. /\ checked.step = "check" /\ checked.queue = xThread[t].queue /\ checked.phase = xThread[t].phase
      /\ tail.step = "next" /\ tail.queue = Tail(xThread[t].queue) /\ tail.phase = xThread[t].phase
      /\ Resting.step = "next" /\ Resting.phase = "idle"
  BY DEF Resting
<1> HIDE DEF d, checked, tail
<1>9. ThreadHolds(t, d) /\ d.step # "running"
  BY <1>5, <1>6, <1>7, <1>8
<1>10. DispatchHolds' /\ xThread'[t] = d /\ \A u \in Threads \ {t} : xThread'[u] = xThread[u]
  BY <1>1, <1>3, <1>9, ThreadSteps DEF xHost
<1>11. LocksHold'
  BY <1>1, <1>2, <1>9, <1>10, ReleaseKeeps
<1>12. TablesHold'
  BY <1>1, TablesSame DEF xHost, TablesHold
<1>u. "ui" \in Threads
  BY DEF Threads
<1>13. QueueHolds' /\ IntervalsKept'
  <2>1. CASE t # "ui" \/ d = checked
    BY <1>1, <1>8, <1>10, <1>u, <2>1, QueueSame
  <2>2. CASE t = "ui" /\ xThread[t].phase # "timers"
    <3>1. d.phase # "timers"
      BY <1>5, <1>8, <2>2
    <3> QED
      BY <1>1, <1>10, <2>2, <3>1, QueueNone
  <2>3. CASE t = "ui" /\ xThread[t].phase = "timers" /\ d # checked
    <3>1. d = tail /\ ~Calling("ui").repeats
      BY <1>5, <2>3
    <3>2. IsTail(Tail(xThread["ui"].queue), xThread["ui"].queue) /\ Calling("ui") = xThread["ui"].queue[1]
          /\ 1 \in DOMAIN xThread["ui"].queue
      BY <1>1, <1>u, <2>3, CallingIs DEF IsTail
    <3>3. xThread["ui"].queue[1].order \notin xIntervals
      BY <2>3, <3>1, <3>2 DEF QueueHolds
    <3>4. xThread'["ui"].phase = "timers" /\ xThread'["ui"].queue = Tail(xThread["ui"].queue)
      BY <1>8, <1>10, <2>3, <3>1
    <3> QED
      BY <1>1, <2>3, <3>2, <3>3, <3>4, QueueAdvances
  <2> QED
    BY <2>1, <2>2, <2>3
<1>14. RanHolds'
  <2>1. CASE t # "ui"
    <3>1. xThread'["ui"] = xThread["ui"] /\ xEvent' = xEvent
      BY <1>1, <1>10, <1>u, <2>1
    <3> QED
      BY <3>1, RanSame
  <2>2. CASE t = "ui" /\ d = Resting
    BY <1>2, <1>8, <1>10, <2>2 DEF RanHolds, RunsByPriority
  <2>3. CASE t = "ui" /\ d = checked /\ xThread[t].phase = "timers"
    BY <1>2, <1>8, <1>10, <2>3 DEF RanHolds, RunsByPriority
  <2>4. CASE t = "ui" /\ d = tail
    <3>1. xThread["ui"].phase \in {"timers", "keymaps", "handlers"}
      BY <1>3, <1>u, <2>4, ThreadIs DEF PhasesOf
    <3> QED
      BY <1>1, <1>2, <1>8, <1>10, <2>4, <3>1, RanAdvances
  <2> QED
    BY <1>5, <2>1, <2>2, <2>3, <2>4
<1> QED
  BY <1>10, <1>11, <1>12, <1>13, <1>14

\* An error or the end of the context loses the intervals that were still waiting.
LEMMA IntervalsLost ==
  ASSUME HostInv, NEW t \in Threads, UNCHANGED <<xHost, xRegs, xTimers, xCanceled, xOrder, xStopped>>,
         xIntervals' = IF xThread[t].phase = "timers" THEN xIntervals \ Waiting(t) ELSE xIntervals,
         xThread[t].phase = "timers" => xThread'[t].phase = "idle",
         xThread'[t].phase \in {xThread[t].phase, "idle"}, \A u \in Threads \ {t} : xThread'[u] = xThread[u]
  PROVE  TablesHold' /\ QueueHolds' /\ IntervalsKept'
<1> USE DEF HostInv
<1>u. "ui" \in Threads
  BY DEF Threads
<1>1. xIntervals' \subseteq xIntervals
  OBVIOUS
<1>2. TablesHold'
  BY <1>1 DEF TablesHold, StoppedStaysStopped, xHost
<1>3. CASE t = "ui"
  <2>1. xThread'["ui"].phase # "timers"
    BY <1>3
  <2>2. \A id \in xIntervals' : \E timer \in xTimers : timer.order = id
    BY <1>3 DEF IntervalsKept
  <2>3. xTimers' = xTimers
    OBVIOUS
  <2>4. IntervalsKept'
    BY <2>1, <2>2, <2>3 DEF IntervalsKept
  <2> QED
    BY <1>2, <2>1, <2>4 DEF QueueHolds
<1>4. CASE t # "ui"
  <2>1. xThread[t].phase # "timers"
    BY <1>4, ThreadIs DEF PhasesOf
  <2>2. xThread'["ui"] = xThread["ui"] /\ UNCHANGED xTable
    BY <1>4, <1>u, <2>1 DEF xTable
  <2> QED
    BY <1>2, <2>2, QueueSame
<1> QED
  BY <1>3, <1>4

\* A callback fails.
LEMMA FailCallKeeps == ASSUME HostInv, NEW t \in Threads, failCall(t) PROVE HostInv'
<1> USE DEF HostInv
<1> DEFINE d == Continue(t, xThread[t].phase # "lifecycle")
           tail == [phase |-> xThread[t].phase, queue |-> Tail(xThread[t].queue), step |-> "next"]
<1>1. /\ Running(t) /\ Release(t) /\ xThread[t].queue # <<>> /\ xThread[t].step = "running"
      /\ xThread' = [xThread EXCEPT ![t] = d]
      /\ xIntervals' = IF xThread[t].phase = "timers" THEN xIntervals \ Waiting(t) ELSE xIntervals
      /\ UNCHANGED <<xHost, xRegs, xTimers, xCanceled, xOrder, xStopped, xEvent>>
  BY DEF failCall, Running
<1>2. xPhase = "ready"
  BY <1>1, CallingIs
<1>3. ThreadHolds(t, d) /\ (d = Resting \/ (d = tail /\ xThread[t].phase = "lifecycle"))
  BY <1>1, ContinueIs
<1>4. Resting.step = "next" /\ Resting.phase = "idle" /\ tail.step = "next" /\ tail.phase = xThread[t].phase
  BY DEF Resting
<1> HIDE DEF d, tail
<1>5. DispatchHolds' /\ xThread'[t] = d /\ \A u \in Threads \ {t} : xThread'[u] = xThread[u]
  BY <1>1, <1>2, <1>3, ThreadSteps DEF xHost
<1>6. LocksHold'
  BY <1>1, <1>3, <1>4, <1>5, ReleaseKeeps
<1>7. TablesHold' /\ QueueHolds' /\ IntervalsKept'
  BY <1>1, <1>3, <1>4, <1>5, IntervalsLost
<1>8. RanHolds'
  <2>1. CASE t = "ui"
    <3>1. xThread[t].phase # "lifecycle"
      BY <2>1, ThreadIs DEF PhasesOf
    <3>2. xThread'["ui"].phase = "idle"
      BY <1>3, <1>4, <1>5, <2>1, <3>1
    <3> QED
      BY <1>1, <3>2, RanSame
  <2>2. CASE t # "ui"
    <3>1. xThread'["ui"] = xThread["ui"]
      BY <1>5, <2>2 DEF Threads
    <3> QED
      BY <1>1, <3>1, RanSame
  <2> QED
    BY <2>1, <2>2
<1> QED
  BY <1>5, <1>6, <1>7, <1>8

\* The context ends between two callbacks.
LEMMA ContextDoneKeeps == ASSUME HostInv, NEW t \in Threads, contextDone(t) PROVE HostInv'
<1> USE DEF HostInv
<1>1. /\ xThread[t].queue # <<>> /\ xThread' = [xThread EXCEPT ![t] = Resting]
      /\ xIntervals' = IF xThread[t].phase = "timers" THEN xIntervals \ Waiting(t) ELSE xIntervals
      /\ UNCHANGED <<xHost, xRegs, xTimers, xCanceled, xOrder, xStopped, xLocks, xActive, xEvent>>
  BY DEF contextDone
<1>2. xPhase = "ready"
  BY <1>1, CallingIs
<1>3. DispatchHolds' /\ xThread'[t] = Resting /\ \A u \in Threads \ {t} : xThread'[u] = xThread[u]
  BY <1>1, <1>2, RestingHolds, ThreadSteps DEF xHost
<1>4. Resting.step = "next" /\ Resting.phase = "idle"
  BY DEF Resting
<1>5. LocksHold'
  BY <1>1, <1>3, <1>4, LocksSame
<1>6. TablesHold' /\ QueueHolds' /\ IntervalsKept'
  BY <1>1, <1>3, <1>4, IntervalsLost
<1>7. RanHolds'
  <2>1. CASE t = "ui"
    BY <1>1, <1>3, <1>4, <2>1, RanSame
  <2>2. CASE t # "ui"
    <3>1. xThread'["ui"] = xThread["ui"]
      BY <1>3, <2>2 DEF Threads
    <3> QED
      BY <1>1, <3>1, RanSame
  <2> QED
    BY <2>1, <2>2
<1> QED
  BY <1>3, <1>5, <1>6, <1>7

\* The first look at a repeating timer that has run.
LEMMA TimerCanceledKeeps == ASSUME HostInv, timerCanceled PROVE HostInv'
<1> USE DEF HostInv
<1> DEFINE ui == xThread["ui"]
           d == IF Calling("ui").order \in xCanceled THEN Continue("ui", FALSE) ELSE [ui EXCEPT !.step = "reschedule"]
           again == [phase |-> ui.phase, queue |-> ui.queue, step |-> "reschedule"]
           tail == [phase |-> ui.phase, queue |-> Tail(ui.queue), step |-> "next"]
<1>u. "ui" \in Threads
  BY DEF Threads
<1>1. /\ ui.step = "check" /\ xThread' = [xThread EXCEPT !["ui"] = d]
      /\ UNCHANGED <<xHost, xTable, xLocks, xActive, xEvent>>
  BY DEF timerCanceled
<1>2. ui.phase = "timers" /\ ui.queue # <<>> /\ ui.queue \in Seq(QueuedCalls)
  BY <1>1, <1>u, ThreadIs
<1>3. /\ xPhase = "ready" /\ Calling("ui") = ui.queue[1] /\ IsTail(Tail(ui.queue), ui.queue)
  BY <1>2, <1>u, CallingIs
<1>4. [ui EXCEPT !.step = "reschedule"] = again
  <2>1. ui = [phase |-> ui.phase, queue |-> ui.queue, step |-> ui.step]
    BY <1>u, ThreadIs
  <2> QED
    BY <2>1
<1>5. ThreadHolds("ui", tail) /\ Continue("ui", FALSE) = tail
  BY <1>2, <1>u, ContinueIs
<1>6. ThreadHolds("ui", again)
  BY <1>2 DEF ThreadHolds, Dispatches, PhasesOf
<1>7. \/ d = tail /\ ui.queue[1].order \in xCanceled
      \/ d = again
  BY <1>3, <1>4, <1>5
<1>8. /\ again.step = "reschedule" /\ again.queue = ui.queue /\ again.phase = ui.phase
      /\ tail.step = "next" /\ tail.queue = Tail(ui.queue) /\ tail.phase = ui.phase
  OBVIOUS
<1> HIDE DEF d, again, tail
<1>9. ThreadHolds("ui", d) /\ d.step # "running" /\ d.phase = "timers"
  BY <1>2, <1>5, <1>6, <1>7, <1>8
<1>10. DispatchHolds' /\ xThread'["ui"] = d /\ \A u \in Threads \ {"ui"} : xThread'[u] = xThread[u]
  BY <1>1, <1>3, <1>9, <1>u, ThreadSteps DEF xHost
<1>11. LocksHold'
  BY <1>1, <1>9, <1>10, <1>u, LocksSame
<1>12. TablesHold'
  BY <1>1, TablesSame DEF xHost, TablesHold
<1>13. QueueHolds' /\ IntervalsKept'
  <2>1. CASE d = again
    BY <1>1, <1>8, <1>10, <2>1, QueueSame
  <2>2. CASE d = tail /\ ui.queue[1].order \in xCanceled
    <3>1. ui.queue[1].order \notin xIntervals
      BY <2>2 DEF TablesHold
    <3>2. xThread'["ui"].phase = "timers" /\ xThread'["ui"].queue = Tail(ui.queue)
      BY <1>2, <1>8, <1>10, <2>2
    <3> QED
      BY <1>1, <1>2, <1>3, <3>1, <3>2, QueueAdvances
  <2> QED
    BY <1>7, <2>1, <2>2
<1>14. RanHolds'
  BY <1>1, <1>2, <1>9, <1>10 DEF RanHolds, RunsByPriority
<1> QED
  BY <1>10, <1>11, <1>12, <1>13, <1>14

\* The second look, which schedules it again.
LEMMA RunTimerKeeps == ASSUME HostInv, runTimer PROVE HostInv'
<1> USE DEF HostInv
<1> DEFINE ui == xThread["ui"]
           head == ui.queue[1]
           new == [head EXCEPT !.due = FALSE]
           d == [phase |-> ui.phase, queue |-> Tail(ui.queue), step |-> "next"]
<1>u. "ui" \in Threads
  BY DEF Threads
<1>1. /\ ui.step = "reschedule" /\ rescheduleTimer(Calling("ui"))
      /\ xThread' = [xThread EXCEPT !["ui"] = Continue("ui", FALSE)]
      /\ UNCHANGED <<xHost, xRegs, xOrder, xStopped, xIntervals, xLocks, xActive, xEvent>>
  BY DEF runTimer
<1>2. ui.phase = "timers" /\ ui.queue # <<>> /\ ui.queue \in Seq(QueuedCalls)
  BY <1>1, <1>u, ThreadIs
<1>3. /\ xPhase = "ready" /\ Calling("ui") = head /\ IsTail(Tail(ui.queue), ui.queue) /\ 1 \in DOMAIN ui.queue
  BY <1>2, <1>u, CallingIs DEF IsTail
<1>4. ThreadHolds("ui", d) /\ Continue("ui", FALSE) = d
  BY <1>2, <1>u, ContinueIs
<1>5. d.step = "next" /\ d.queue = Tail(ui.queue) /\ d.phase = "timers"
  BY <1>2
<1>6. \/ head.order \in xCanceled /\ xCanceled' = xCanceled \ {head.order} /\ xTimers' = xTimers
      \/ head.order \notin xCanceled /\ xTimers' = xTimers \cup {new} /\ xCanceled' = xCanceled
  BY <1>1, <1>3 DEF rescheduleTimer
<1>7. /\ head \in TimerRecords /\ head.order \in 1..xOrder
      /\ head.order \in xIntervals => head.repeats
      /\ head.order \in xStopped => head.order \in xCanceled
      /\ \A other \in xTimers : other.order # head.order
  BY <1>2, <1>3 DEF QueueHolds
<1>8. new \in TimerRecords /\ new.order = head.order /\ new.repeats = head.repeats
  BY <1>7 DEF TimerRecords
<1> DEFINE p == Tail(ui.queue)
           q == ui.queue
<1>9. /\ \A i \in DOMAIN q :
            /\ q[i] \in TimerRecords /\ q[i].order \in 1..xOrder
            /\ q[i].order \in xIntervals => q[i].repeats
            /\ q[i].order \in xStopped => q[i].order \in xCanceled
            /\ \A other \in xTimers : other.order # q[i].order
      /\ \A i, j \in DOMAIN q : i # j => q[i].order # q[j].order
  BY <1>2 DEF QueueHolds
<1>10. \A id \in xIntervals : (\E timer \in xTimers : timer.order = id) \/ \E i \in DOMAIN q : q[i].order = id
  BY <1>2 DEF IntervalsKept, Waiting
<1>11. IsTail(p, q) /\ head = q[1] /\ 1 \in DOMAIN q
  BY <1>3
<1> HIDE DEF d, new, head, p, q
<1>12. DispatchHolds' /\ xThread'["ui"] = d /\ \A u \in Threads \ {"ui"} : xThread'[u] = xThread[u]
  BY <1>1, <1>3, <1>4, <1>u, ThreadSteps DEF xHost
<1>13. LocksHold'
  BY <1>1, <1>5, <1>12, <1>u, LocksSame
<1>14. TablesHold'
  <2>1. IsFiniteSet(xTimers')
    BY <1>6, FS_AddElement DEF TablesHold
  <2>2. CASE xTimers' = xTimers
    BY <1>1, <1>6, <2>1, <2>2 DEF TablesHold, StoppedStaysStopped, xHost
  <2>3. CASE head.order \notin xCanceled /\ xTimers' = xTimers \cup {new} /\ xCanceled' = xCanceled
    <3>1. /\ \A timer \in xTimers' : /\ timer \in TimerRecords /\ timer.order \in 1..xOrder /\ timer.order \notin xStopped
                                     /\ timer.order \in xIntervals => timer.repeats
          /\ \A a, b \in xTimers' : a.order = b.order => a = b
      BY <1>7, <1>8, <2>3 DEF TablesHold, StoppedStaysStopped
    <3> QED
      BY <1>1, <2>1, <2>3, <3>1 DEF TablesHold, StoppedStaysStopped, xHost
  <2> QED
    BY <1>6, <2>2, <2>3
<1>15. \A i \in DOMAIN p : i + 1 \in DOMAIN q /\ p[i] = q[i+1] /\ i + 1 # 1
  BY <1>11 DEF IsTail
<1>16. \A i \in DOMAIN p : p[i].order # head.order
  BY <1>9, <1>11, <1>15
<1>17. xThread'["ui"].queue = p /\ xThread'["ui"].phase = "timers"
  BY <1>5, <1>12 DEF p
<1>18. QueueHolds'
  <2>1. \A i \in DOMAIN p :
           /\ p[i] \in TimerRecords /\ p[i].order \in 1..xOrder
           /\ p[i].order \in xIntervals => p[i].repeats
           /\ p[i].order \in xStopped => p[i].order \in xCanceled'
           /\ \A other \in xTimers' : other.order # p[i].order
    BY <1>6, <1>8, <1>9, <1>15, <1>16
  <2>2. \A i, j \in DOMAIN p : i # j => i + 1 # j + 1
    BY <1>11 DEF IsTail
  <2>3. \A i, j \in DOMAIN p : i # j => p[i].order # p[j].order
    BY <1>9, <1>15, <2>2
  <2>4. UNCHANGED <<xOrder, xIntervals, xStopped>>
    BY <1>1
  <2> QED
    BY <1>17, <2>1, <2>3, <2>4 DEF QueueHolds
<1>19. IntervalsKept'
  <2>0. UNCHANGED xIntervals
    BY <1>1
  <2> SUFFICES ASSUME NEW id \in xIntervals
               PROVE  (\E timer \in xTimers' : timer.order = id) \/ \E i \in DOMAIN p : p[i].order = id
    BY <2>0, <1>17 DEF IntervalsKept, Waiting
  <2>1. CASE \E timer \in xTimers : timer.order = id
    BY <2>1, <1>6
  <2>2. CASE \E i \in DOMAIN q : q[i].order = id
    <3>1. PICK i \in DOMAIN q : q[i].order = id
      BY <2>2
    <3>2. CASE i = 1
      <4>1. head.order = id /\ head.order \notin xCanceled
        BY <3>1, <3>2, <1>11 DEF TablesHold
      <4> QED
        BY <4>1, <1>6, <1>8
    <3>3. CASE i # 1
      <4>1. i - 1 \in DOMAIN p /\ p[i-1] = q[i]
        BY <3>1, <3>3, <1>11 DEF IsTail
      <4> QED
        BY <3>1, <4>1
    <3> QED
      BY <3>2, <3>3
  <2> QED
    BY <2>1, <2>2, <1>10
<1>20. RanHolds'
  <2>1. xEvent' = xEvent /\ xThread'["ui"].phase = "timers" /\ xThread["ui"].phase = "timers"
    BY <1>1, <1>2, <1>17
  <2> QED
    BY <2>1 DEF RanHolds, RunsByPriority
<1> QED
  BY <1>12, <1>13, <1>14, <1>18, <1>19, <1>20

\* Loading, timers, dispatches and callbacks keep the invariant.
LEMMA HostInvNext == HostInv /\ [HostNext]_xVars => HostInv'
<1> SUFFICES ASSUME HostInv, [HostNext]_xVars PROVE HostInv'
  OBVIOUS
<1>1. CASE UNCHANGED xVars
  <2>1. UNCHANGED <<xHost, xTable, xCalls>>
    BY <1>1 DEF xVars
  <2>2. TablesHold' /\ QueueHolds' /\ IntervalsKept'
    BY <2>1, TablesSame, QueueSame DEF HostInv, TablesHold, xHost, xCalls
  <2>3. DispatchHolds' /\ LocksHold' /\ RanHolds'
    BY <2>1, LocksUntouched, RanSame DEF HostInv, DispatchHolds, xHost, xCalls
  <2> QED
    BY <2>2, <2>3 DEF HostInv
<1>2. CASE HostNext
  BY <1>2, LoadingKeeps, InCallbackKeeps, TerminalEventKeeps, TimerCanceledKeeps, RunTimerKeeps, LifecycleKeeps,
     NextPhaseKeeps, StartCallKeeps, BufferCallKeeps, FailCallKeeps, ContextDoneKeeps, ReturnCallKeeps DEF HostNext
<1> QED
  BY <1>1, <1>2

--------------------------------------------------------------------------------
(* The result of a lifecycle event, handler by handler. *)

ArgumentsNamed == Maps({"path", "limit"}, Int)

LifecycleTable ==
  [arguments : ArgumentsNamed, hasArgs : BOOLEAN, summary : Int, cancel : BOOLEAN, stopped : BOOLEAN]

LifecycleResult ==
  [arguments : ArgumentsNamed, hasArgs : BOOLEAN, summary : Int, cancel : BOOLEAN, stopped : BOOLEAN]

LifecycleTyped == lfTables \in Seq(LifecycleTable) /\ lfResult \in LifecycleResult

\* One map laid over another is a map.
LEMMA OverTyped ==
  ASSUME NEW K, NEW V, NEW f \in Maps(K, V), NEW g \in Maps(K, V)
  PROVE  /\ Over(f, g) \in Maps(K, V)
         /\ DOMAIN Over(f, g) = DOMAIN f \cup DOMAIN g
         /\ \A n \in DOMAIN f \cup DOMAIN g : Over(f, g)[n] = IF n \in DOMAIN g THEN g[n] ELSE f[n]
<1> DEFINE o == Over(f, g)
<1>1. DOMAIN o = DOMAIN f \cup DOMAIN g /\ \A n \in DOMAIN o : o[n] = IF n \in DOMAIN g THEN g[n] ELSE f[n]
  BY DEF Over
<1>2. o = [n \in DOMAIN o |-> o[n]]
  BY DEF Over
<1>3. /\ \A n \in DOMAIN f : f[n] \in V
      /\ \A n \in DOMAIN g : g[n] \in V
      /\ DOMAIN f \subseteq K /\ DOMAIN g \subseteq K
  BY InMaps
<1> HIDE DEF o
<1>4. \A n \in DOMAIN o : o[n] \in V
  BY <1>1, <1>3
<1>5. o \in Maps(K, V)
  BY <1>1, <1>2, <1>3, <1>4, InMaps
<1> QED
  BY <1>1, <1>5 DEF o

\* The map without a member of any set.
LEMMA EmptyMap == ASSUME NEW K, NEW V PROVE <<>> \in Maps(K, V)
<1>1. DOMAIN <<>> \subseteq K /\ <<>> = [n \in DOMAIN <<>> |-> <<>>[n]] /\ \A n \in DOMAIN <<>> : <<>>[n] \in V
  OBVIOUS
<1> QED
  BY <1>1, InMaps

\* The tables of the model are tables.
LEMMA TablesTyped == \A table \in Tables : table \in LifecycleTable
<1> SUFFICES ASSUME NEW table \in Tables PROVE table \in LifecycleTable
  OBVIOUS
<1>1. table.arguments \in ArgumentsNamed
  <2>1. <<>> \in ArgumentsNamed
    BY EmptyMap DEF ArgumentsNamed
  <2>2. [n \in {"path"} |-> 1] \in [{"path"} -> Int]
    OBVIOUS
  <2>3. [n \in {"path", "limit"} |-> 2] \in [{"path", "limit"} -> Int]
    OBVIOUS
  <2>4. {"path"} \in SUBSET {"path", "limit"} /\ {"path", "limit"} \in SUBSET {"path", "limit"}
    OBVIOUS
  <2>5. [n \in {"path"} |-> 1] \in ArgumentsNamed
    BY <2>2, <2>4 DEF ArgumentsNamed, Maps
  <2>6. [n \in {"path", "limit"} |-> 2] \in ArgumentsNamed
    BY <2>3, <2>4 DEF ArgumentsNamed, Maps
  <2> QED
    BY <2>1, <2>5, <2>6 DEF Tables
<1> QED
  BY <1>1 DEF Tables, LifecycleTable

\* A member that bounds a set of integers is the last of it.
LastOf(set) == CHOOSE i \in set : \A j \in set : j <= i

\* The greatest member of a set of indices is its last.
LEMMA LastIs ==
  ASSUME NEW set \in SUBSET Int, NEW m \in set, \A j \in set : j <= m
  PROVE  LastOf(set) = m
<1> DEFINE l == LastOf(set)
<1>1. l \in set /\ \A j \in set : j <= l
  BY DEF LastOf
<1> HIDE DEF l
<1>2. l \in Int /\ m \in Int /\ l <= m /\ m <= l
  BY <1>1
<1>3. l = m
  BY <1>2
<1> QED
  BY <1>3 DEF l

\* A set of indices that is not empty has a last one.
LEMMA BoundedHasLast ==
  ASSUME NEW n \in Nat, NEW set \in SUBSET (1..(n-1)), set # {}
  PROVE  \E m \in set : \A j \in set : j <= m
<1> DEFINE R == OpToRel(<, Nat)
           left == {n - i : i \in set}
<1>1. IsWellFoundedOn(R, Nat)
  BY NatLessThanWellFounded
<1>2. left \in SUBSET Nat /\ left # {}
  OBVIOUS
<1>3. \A x, y \in Nat : x < y => <<x, y>> \in R
  BY DEF OpToRel
<1> HIDE DEF R
<1>4. PICK x \in left : \A y \in left : ~(<<y, x>> \in R)
  BY <1>1, <1>2, WFMin
<1>5. PICK m \in set : x = n - m
  OBVIOUS
<1>6. \A j \in set : n - j \in left
  OBVIOUS
<1> HIDE DEF left
<1>7. \A j \in set : ~(n - j < n - m)
  BY <1>2, <1>3, <1>4, <1>5, <1>6
<1> QED
  BY <1>7

GivenIn(t) == {i \in DOMAIN t : t[i].hasArgs}
EmptiedIn(t) == {i \in GivenIn(t) : t[i].arguments = <<>>}
AfterIn(t) == {i \in GivenIn(t) : \A j \in EmptiedIn(t) : j <= i}
TellIn(t, f) == {i \in AfterIn(t) : f \in DOMAIN t[i].arguments}
FieldsIn(t) == UNION {DOMAIN t[i].arguments : i \in AfterIn(t)}
ToldIn(t) == {i \in DOMAIN t : t[i].summary # 0}

MergedOf(t, result) ==
  /\ result.arguments = [f \in FieldsIn(t) |-> t[LastOf(TellIn(t, f))].arguments[f]]
  /\ result.summary = IF ToldIn(t) = {} THEN 0 ELSE t[LastOf(ToldIn(t))].summary
  /\ result.cancel = \E i \in DOMAIN t : t[i].cancel

\* The property, by the tables and the result it is about.
LEMMA MergedIs == LifecycleMerged <=> MergedOf(lfTables, lfResult)
BY DEF LifecycleMerged, MergedOf, GivenIn, EmptiedIn, AfterIn, TellIn, FieldsIn, ToldIn, LastOf

\* One more table.
LEMMA MergedStep ==
  ASSUME NEW t \in Seq(LifecycleTable), NEW r \in LifecycleResult, NEW table \in LifecycleTable, MergedOf(t, r)
  PROVE  /\ MergedOf(Append(t, table), applyLifecycleLuaResult(r, table))
         /\ applyLifecycleLuaResult(r, table) \in LifecycleResult
<1> DEFINE u == Append(t, table)
           n == Len(t) + 1
           s == applyLifecycleLuaResult(r, table)
           merged == IF table.arguments = <<>> THEN table.arguments ELSE Over(r.arguments, table.arguments)
<1>1. /\ n \in Nat /\ DOMAIN u = DOMAIN t \cup {n} /\ DOMAIN t = 1..(n-1) /\ u[n] = table
      /\ \A i \in DOMAIN t : u[i] = t[i] /\ i \in Int /\ i < n
  OBVIOUS
<1>2. s = [arguments |-> IF table.hasArgs THEN merged ELSE r.arguments, hasArgs |-> r.hasArgs \/ table.hasArgs,
           summary |-> IF table.summary # 0 THEN table.summary ELSE r.summary,
           cancel |-> r.cancel \/ table.cancel, stopped |-> table.stopped]
  <2> DEFINE c == mergeCompactionMutation(r, table)
  <2>0. r = [arguments |-> r.arguments, hasArgs |-> r.hasArgs, summary |-> r.summary, cancel |-> r.cancel,
             stopped |-> r.stopped]
    BY DEF LifecycleResult
  <2>1. c = [arguments |-> r.arguments, hasArgs |-> r.hasArgs,
             summary |-> IF table.summary # 0 THEN table.summary ELSE r.summary,
             cancel |-> r.cancel \/ table.cancel, stopped |-> r.stopped]
    <3> DEFINE sum == IF table.summary # 0 THEN table.summary ELSE r.summary
               can == r.cancel \/ table.cancel
    <3>1. c = [r EXCEPT !.summary = sum, !.cancel = can]
      BY DEF mergeCompactionMutation
    <3> HIDE DEF sum, can, c
    <3>2. c = [arguments |-> r.arguments, hasArgs |-> r.hasArgs, summary |-> sum, cancel |-> can, stopped |-> r.stopped]
      BY <2>0, <3>1
    <3> QED
      BY <3>2 DEF sum, can
  <2>2. s = [c EXCEPT !.stopped = table.stopped, !.hasArgs = @ \/ table.hasArgs,
                      !.arguments = IF table.hasArgs THEN merged ELSE @]
    BY DEF applyLifecycleLuaResult, mergeToolCallMutation
  <2> HIDE DEF s, c, merged
  <2> QED
    BY <2>1, <2>2
<1>3. merged \in ArgumentsNamed
  BY OverTyped DEF LifecycleTable, LifecycleResult, ArgumentsNamed
<1>4. s \in LifecycleResult
  <2> HIDE DEF s, merged
  <2>1. /\ s = [arguments |-> s.arguments, hasArgs |-> r.hasArgs \/ table.hasArgs, summary |-> s.summary,
                cancel |-> s.cancel, stopped |-> table.stopped]
        /\ s.arguments \in ArgumentsNamed /\ s.summary \in Int /\ s.cancel \in BOOLEAN
        /\ (r.hasArgs \/ table.hasArgs) \in BOOLEAN /\ table.stopped \in BOOLEAN
    BY <1>2, <1>3 DEF LifecycleTable, LifecycleResult
  <2> QED
    BY <2>1, <1>2 DEF LifecycleResult
<1> HIDE DEF u, n, s
<1>5. /\ GivenIn(u) = IF table.hasArgs THEN GivenIn(t) \cup {n} ELSE GivenIn(t)
      /\ GivenIn(t) \subseteq DOMAIN t
  BY <1>1 DEF GivenIn
<1>6. /\ EmptiedIn(u) = IF table.hasArgs /\ table.arguments = <<>> THEN EmptiedIn(t) \cup {n} ELSE EmptiedIn(t)
      /\ EmptiedIn(t) \subseteq GivenIn(t)
  BY <1>1, <1>5 DEF EmptiedIn
<1>7. s.arguments = [f \in FieldsIn(u) |-> u[LastOf(TellIn(u, f))].arguments[f]]
  <2>0. /\ AfterIn(t) \subseteq DOMAIN t /\ \A f : TellIn(t, f) \subseteq DOMAIN t
        /\ \A f : f \in FieldsIn(t) <=> TellIn(t, f) # {}
        /\ \A f : f \in FieldsIn(u) <=> TellIn(u, f) # {}
    BY <1>5 DEF AfterIn, TellIn, FieldsIn
  <2>1. CASE ~table.hasArgs
    <3>1. AfterIn(u) = AfterIn(t)
      BY <2>1, <1>5, <1>6 DEF AfterIn
    <3>2. \A f : TellIn(u, f) = TellIn(t, f)
      BY <3>1, <2>0, <1>1 DEF TellIn
    <3>3. FieldsIn(u) = FieldsIn(t)
      BY <3>2, <2>0
    <3>4. \A f \in FieldsIn(t) : LastOf(TellIn(t, f)) \in DOMAIN t
      <4> SUFFICES ASSUME NEW f \in FieldsIn(t) PROVE LastOf(TellIn(t, f)) \in DOMAIN t
        OBVIOUS
      <4>1. \E m \in TellIn(t, f) : \A j \in TellIn(t, f) : j <= m
        BY <2>0, <1>1, BoundedHasLast
      <4> QED
        BY <4>1, <2>0, <1>1, LastIs
    <3> QED
      BY <3>2, <3>3, <3>4, <2>1, <1>1, <1>2 DEF MergedOf
  <2>2. CASE table.hasArgs /\ table.arguments = <<>>
    <3>1. AfterIn(u) = {n}
      BY <2>2, <1>1, <1>5, <1>6 DEF AfterIn
    <3>2. FieldsIn(u) = {}
      BY <3>1, <2>2, <1>1 DEF FieldsIn
    <3>3. s.arguments = <<>>
      BY <2>2, <1>2
    <3> QED
      BY <3>2, <3>3
  <2>3. CASE table.hasArgs /\ table.arguments # <<>>
    <3>1. AfterIn(u) = AfterIn(t) \cup {n}
      BY <2>3, <1>1, <1>5, <1>6 DEF AfterIn
    <3>2. \A f : TellIn(u, f) = IF f \in DOMAIN table.arguments THEN TellIn(t, f) \cup {n} ELSE TellIn(t, f)
      BY <3>1, <2>0, <1>1 DEF TellIn
    <3>3. FieldsIn(u) = FieldsIn(t) \cup DOMAIN table.arguments
      BY <3>2, <2>0
    <3>4. \A f \in DOMAIN table.arguments : LastOf(TellIn(u, f)) = n
      <4> SUFFICES ASSUME NEW f \in DOMAIN table.arguments PROVE LastOf(TellIn(u, f)) = n
        OBVIOUS
      <4>1. TellIn(u, f) \in SUBSET Int /\ n \in TellIn(u, f) /\ \A j \in TellIn(u, f) : j <= n
        BY <3>2, <2>0, <1>1
      <4> QED
        BY <4>1, LastIs
    <3>5. \A f \in FieldsIn(t) : LastOf(TellIn(t, f)) \in DOMAIN t
      <4> SUFFICES ASSUME NEW f \in FieldsIn(t) PROVE LastOf(TellIn(t, f)) \in DOMAIN t
        OBVIOUS
      <4>1. \E m \in TellIn(t, f) : \A j \in TellIn(t, f) : j <= m
        BY <2>0, <1>1, BoundedHasLast
      <4> QED
        BY <4>1, <2>0, <1>1, LastIs
    <3>6. r.arguments = [f \in FieldsIn(t) |-> t[LastOf(TellIn(t, f))].arguments[f]]
      BY DEF MergedOf
    <3>7. s.arguments = Over(r.arguments, table.arguments)
      BY <2>3, <1>2
    <3>8. DOMAIN r.arguments = FieldsIn(t)
      BY <3>6
    <3>9. \A f \in FieldsIn(u) : Over(r.arguments, table.arguments)[f] = u[LastOf(TellIn(u, f))].arguments[f]
      <4> SUFFICES ASSUME NEW f \in FieldsIn(u)
                   PROVE  Over(r.arguments, table.arguments)[f] = u[LastOf(TellIn(u, f))].arguments[f]
        OBVIOUS
      <4>1. CASE f \in DOMAIN table.arguments
        BY <4>1, <3>4, <1>1 DEF Over
      <4>2. CASE f \notin DOMAIN table.arguments
        <5>1. f \in FieldsIn(t) /\ TellIn(u, f) = TellIn(t, f)
          BY <4>2, <3>2, <3>3
        <5>2. Over(r.arguments, table.arguments)[f] = r.arguments[f]
          BY <4>2, <5>1, <3>8 DEF Over
        <5> QED
          BY <5>1, <5>2, <3>5, <3>6, <1>1
      <4> QED
        BY <4>1, <4>2
    <3>10. /\ DOMAIN Over(r.arguments, table.arguments) = FieldsIn(u)
           /\ Over(r.arguments, table.arguments)
                = [f \in DOMAIN Over(r.arguments, table.arguments) |-> Over(r.arguments, table.arguments)[f]]
      BY <3>3, <3>8 DEF Over
    <3> QED
      BY <3>7, <3>9, <3>10
  <2> QED
    BY <2>1, <2>2, <2>3 DEF LifecycleTable
<1>8. s.summary = IF ToldIn(u) = {} THEN 0 ELSE u[LastOf(ToldIn(u))].summary
  <2>1. ToldIn(u) = IF table.summary # 0 THEN ToldIn(t) \cup {n} ELSE ToldIn(t)
    BY <1>1 DEF ToldIn
  <2>2. ToldIn(t) \subseteq DOMAIN t
    BY DEF ToldIn
  <2>3. CASE table.summary # 0
    <3>1. ToldIn(u) \in SUBSET Int /\ n \in ToldIn(u) /\ \A j \in ToldIn(u) : j <= n
      BY <2>1, <2>2, <2>3, <1>1
    <3>2. LastOf(ToldIn(u)) = n
      BY <3>1, LastIs
    <3> QED
      BY <3>1, <3>2, <2>3, <1>1, <1>2
  <2>4. CASE table.summary = 0
    <3>1. ASSUME ToldIn(t) # {} PROVE LastOf(ToldIn(t)) \in DOMAIN t
      <4>1. \E m \in ToldIn(t) : \A j \in ToldIn(t) : j <= m
        BY <3>1, <2>2, <1>1, BoundedHasLast
      <4> QED
        BY <4>1, <2>2, <1>1, LastIs
    <3> QED
      BY <3>1, <2>1, <2>4, <1>1, <1>2 DEF MergedOf
  <2> QED
    BY <2>3, <2>4
<1>9. s.cancel = \E i \in DOMAIN u : u[i].cancel
  BY <1>1, <1>2 DEF MergedOf, LifecycleTable
<1> QED
  BY <1>4, <1>7, <1>8, <1>9 DEF MergedOf, u, s

--------------------------------------------------------------------------------
(* An event as its callbacks edit it and the terminal applies it. *)

BufferNames == {Composer, Notes}
WindowNames == {Status, SidePane}
Buffers == [text : Seq(Int), cursor : Int]
BufferMaps == Maps(BufferNames, Buffers)
WindowMaps == Maps(WindowNames, Int)

HostEvents ==
  [edits : Nat, buffers : BufferMaps, windows : WindowMaps, layout : WindowMaps, layoutChanged : BOOLEAN,
   changedBuffers : SUBSET BufferNames, deletedBuffers : SUBSET BufferNames,
   changedWindows : SUBSET WindowNames, deletedWindows : SUBSET WindowNames]

\* Names that were neither changed nor deleted are as they were.
KeptFrom(base, now, changed, deleted, names) ==
  \A n \in names \ (changed \cup deleted) :
      /\ n \in DOMAIN now <=> n \in DOMAIN base
      /\ n \in DOMAIN now => now[n] = base[n]

\* What holds of an open event that was shown these buffers and windows.
EventHolds(e, buffers, windows) ==
  /\ e \in HostEvents
  /\ e.layout = e.windows
  /\ e.changedBuffers \subseteq DOMAIN e.buffers /\ e.deletedBuffers \cap DOMAIN e.buffers = {}
  /\ KeptFrom(buffers, e.buffers, e.changedBuffers, e.deletedBuffers, BufferNames)
  /\ ~e.layoutChanged =>
         /\ e.changedWindows \subseteq DOMAIN e.windows /\ e.deletedWindows \cap DOMAIN e.windows = {}
         /\ KeptFrom(windows, e.windows, e.changedWindows, e.deletedWindows, WindowNames)

ShownBuffers == extensionBuffers(extBuffers, extComposer)
ShownWindows == cloneRuntimeWindows(extWindows, extLayout)

ShownTyped ==
  /\ extBuffers \in BufferMaps /\ Composer \notin DOMAIN extBuffers
  /\ \A n \in DOMAIN extBuffers : clamped(extBuffers[n]) = extBuffers[n]
  /\ extComposer \in Buffers /\ clamped(extComposer) = extComposer
  /\ extWindows \in WindowMaps /\ extLayout \in WindowMaps \cup {NoLayout}

EventInv == extEvent = NoHostEvent \/ EventHolds(extEvent, ShownBuffers, ShownWindows)

ExtensionInv ==
  ShownTyped /\ EventInv /\ BuffersAsSeen /\ WindowsAsSeen /\ LifecycleTyped /\ LifecycleMerged

\* A map with one more or one other value, or with one less.
LEMMA WithTyped ==
  ASSUME NEW K, NEW V, NEW f \in Maps(K, V), NEW name \in K, NEW value \in V
  PROVE  /\ With(f, name, value) \in Maps(K, V)
         /\ DOMAIN With(f, name, value) = DOMAIN f \cup {name}
         /\ With(f, name, value)[name] = value
         /\ \A n \in DOMAIN f \ {name} : With(f, name, value)[n] = f[n]
<1> DEFINE o == With(f, name, value)
<1>1. /\ DOMAIN o = DOMAIN f \cup {name} /\ o[name] = value
      /\ \A n \in DOMAIN f \ {name} : o[n] = f[n]
      /\ o = [n \in DOMAIN o |-> o[n]]
  BY DEF With
<1>2. DOMAIN f \subseteq K /\ \A n \in DOMAIN f : f[n] \in V
  BY InMaps
<1> HIDE DEF o
<1>3. \A n \in DOMAIN o : o[n] \in V
  BY <1>1, <1>2
<1>4. o \in Maps(K, V)
  BY <1>1, <1>2, <1>3, InMaps
<1> QED
  BY <1>1, <1>4 DEF o

\* Without one of its names a map has the others, as they were.
LEMMA WithoutTyped ==
  ASSUME NEW K, NEW V, NEW f \in Maps(K, V), NEW name
  PROVE  /\ Without(f, name) \in Maps(K, V)
         /\ DOMAIN Without(f, name) = DOMAIN f \ {name}
         /\ \A n \in DOMAIN f \ {name} : Without(f, name)[n] = f[n]
<1> DEFINE o == Without(f, name)
<1>1. /\ DOMAIN o = DOMAIN f \ {name}
      /\ \A n \in DOMAIN f \ {name} : o[n] = f[n]
      /\ o = [n \in DOMAIN o |-> o[n]]
  BY DEF Without
<1>2. DOMAIN f \subseteq K /\ \A n \in DOMAIN f : f[n] \in V
  BY InMaps
<1> HIDE DEF o
<1>3. o \in Maps(K, V)
  BY <1>1, <1>2, InMaps
<1> QED
  BY <1>1, <1>3 DEF o

\* Clamping a buffer, or any other of its edits, gives a buffer.
LEMMA ClampedTyped ==
  ASSUME NEW b \in Buffers
  PROVE  clamped(b) \in Buffers /\ clamped(clamped(b)) = clamped(b)
<1> DEFINE c == IF b.cursor < 0 THEN 0 ELSE IF b.cursor > Len(b.text) THEN Len(b.text) ELSE b.cursor
<1>1. b = [text |-> b.text, cursor |-> b.cursor] /\ b.text \in Seq(Int) /\ b.cursor \in Int /\ Len(b.text) \in Nat
  BY DEF Buffers
<1>2. clamped(b) = [b EXCEPT !.cursor = c]
  BY DEF clamped
<1>3. c \in Int /\ 0 <= c /\ c <= Len(b.text)
  BY <1>1
<1> HIDE DEF c
<1>4. clamped(b) = [text |-> b.text, cursor |-> c]
  BY <1>1, <1>2
<1>5. clamped([text |-> b.text, cursor |-> c]) = [text |-> b.text, cursor |-> c]
  BY <1>1, <1>3 DEF clamped
<1> QED
  BY <1>1, <1>3, <1>4, <1>5 DEF Buffers

\* A buffer whose text is set is a buffer.
LEMMA SetTextTyped == ASSUME NEW b \in Buffers, NEW text \in Seq(Int) PROVE luaBufferSetText(b, text) \in Buffers
<1>1. b = [text |-> b.text, cursor |-> b.cursor] /\ Len(text) \in Int
  BY DEF Buffers
<1>2. luaBufferSetText(b, text) = [text |-> text, cursor |-> Len(text)]
  <2>1. luaBufferSetText(b, text) = [b EXCEPT !.text = text, !.cursor = Len(text)]
    BY DEF luaBufferSetText
  <2> QED
    BY <1>1, <2>1
<1> QED
  BY <1>1, <1>2 DEF Buffers

\* A buffer whose cursor is set is a buffer.
LEMMA SetCursorTyped == ASSUME NEW b \in Buffers, NEW cursor \in Int PROVE luaBufferSetCursor(b, cursor) \in Buffers
<1>1. b = [text |-> b.text, cursor |-> b.cursor] /\ b.text \in Seq(Int)
  BY DEF Buffers
<1>2. luaBufferSetCursor(b, cursor) = [text |-> b.text, cursor |-> cursor]
  BY <1>1 DEF luaBufferSetCursor
<1> QED
  BY <1>1, <1>2 DEF Buffers

\* A buffer of which a part is replaced is a buffer.
LEMMA ReplaceTyped ==
  ASSUME NEW b \in Buffers, NEW start \in Int, NEW end \in Int, NEW replacement \in Seq(Int)
  PROVE  luaBufferReplace(b, start, end, replacement) \in Buffers
<1> DEFINE text == spliceBufferText(b.text, start, end, replacement)
<1>1. b.text \in Seq(Int) /\ Len(b.text) \in Nat
  BY DEF Buffers
<1>2. \A i \in Int, n \in Nat : clampRuneIndex(i, n) \in 0..n
  BY DEF clampRuneIndex
<1>3. \A i, j \in 0..Len(b.text) : minInt(i, j) \in 0..Len(b.text) /\ maxInt(i, j) \in 0..Len(b.text)
  BY <1>1 DEF minInt, maxInt
<1>4. \A i \in 0..Len(b.text) : SubSeq(b.text, 1, i) \in Seq(Int) /\ SubSeq(b.text, i + 1, Len(b.text)) \in Seq(Int)
  BY <1>1
<1>5. text \in Seq(Int)
  <2> DEFINE i == clampRuneIndex(start, Len(b.text))
             j == clampRuneIndex(end, Len(b.text))
             lo == minInt(i, j)
             hi == maxInt(i, j)
  <2>1. lo \in 0..Len(b.text) /\ hi \in 0..Len(b.text)
    BY <1>1, <1>2, <1>3
  <2>2. text = SubSeq(b.text, 1, lo) \o replacement \o SubSeq(b.text, hi + 1, Len(b.text))
    BY DEF spliceBufferText
  <2> HIDE DEF lo, hi, text
  <2> QED
    BY <1>4, <2>1, <2>2
<1> HIDE DEF text
<1>6. clampRuneIndex(minInt(start, end) + Len(replacement), Len(text)) \in Int
  <2>1. minInt(start, end) + Len(replacement) \in Int /\ Len(text) \in Nat
    BY <1>5 DEF minInt
  <2> QED
    BY <2>1, <1>2
<1> QED
  BY <1>5, <1>6 DEF luaBufferReplace, Buffers, text

--------------------------------------------------------------------------------
(* The edits. *)

\* The buffer a name stands for.
LEMMA BufferOfTyped ==
  ASSUME NEW e \in HostEvents, NEW name \in BufferNames PROVE bufferOf(e, name) \in Buffers
<1>1. e.buffers \in BufferMaps
  BY DEF HostEvents
<1>2. \A n \in DOMAIN e.buffers : e.buffers[n] \in Buffers
  BY <1>1, InMaps DEF BufferMaps
<1>3. EmptyBuffer \in Buffers
  BY DEF EmptyBuffer, Buffers
<1> QED
  BY <1>2, <1>3 DEF bufferOf

\* An event by its fields.
EventOf(e) ==
  [edits |-> e.edits, buffers |-> e.buffers, windows |-> e.windows, layout |-> e.layout,
   layoutChanged |-> e.layoutChanged, changedBuffers |-> e.changedBuffers, deletedBuffers |-> e.deletedBuffers,
   changedWindows |-> e.changedWindows, deletedWindows |-> e.deletedWindows]

\* What the fields of an event are.
LEMMA EventFields ==
  ASSUME NEW e \in HostEvents
  PROVE  /\ e = EventOf(e)
         /\ e.edits \in Nat /\ e.buffers \in BufferMaps /\ e.windows \in WindowMaps /\ e.layout \in WindowMaps
         /\ e.layoutChanged \in BOOLEAN
         /\ e.changedBuffers \in SUBSET BufferNames /\ e.deletedBuffers \in SUBSET BufferNames
         /\ e.changedWindows \in SUBSET WindowNames /\ e.deletedWindows \in SUBSET WindowNames
BY DEF HostEvents, EventOf

\* A callback that sets a buffer leaves the event applicable: what it changed is what it left.
LEMMA SetBufferHolds ==
  ASSUME NEW buffers, NEW windows, NEW e, EventHolds(e, buffers, windows), NEW name \in BufferNames, NEW b \in Buffers
  PROVE  EventHolds(setBuffer(e, name, b), buffers, windows)
<1> DEFINE s == setBuffer(e, name, b)
           now == With(e.buffers, name, b)
<1>0. e \in HostEvents
  BY DEF EventHolds
<1>f. e = EventOf(e)
  BY <1>0, EventFields
<1>m. e.buffers \in BufferMaps /\ e.windows \in WindowMaps
  BY <1>0, EventFields
<1>1. s = [e EXCEPT !.buffers = now, !.changedBuffers = @ \cup {name}, !.deletedBuffers = @ \ {name}]
  BY DEF setBuffer
<1>2. /\ now \in BufferMaps /\ DOMAIN now = DOMAIN e.buffers \cup {name}
      /\ \A n \in DOMAIN e.buffers \ {name} : now[n] = e.buffers[n]
  <2> DEFINE f == e.buffers
  <2>1. f \in Maps(BufferNames, Buffers)
    BY <1>m DEF BufferMaps
  <2> HIDE DEF f
  <2>2. With(f, name, b) \in Maps(BufferNames, Buffers)
    BY <2>1, WithTyped
  <2>3. /\ DOMAIN With(f, name, b) = DOMAIN f \cup {name}
        /\ \A n \in DOMAIN f \ {name} : With(f, name, b)[n] = f[n]
    BY DEF With
  <2> QED
    BY <2>2, <2>3 DEF f, BufferMaps
<1> HIDE DEF s, now
<1>3. s = [edits |-> e.edits, buffers |-> now, windows |-> e.windows, layout |-> e.layout,
           layoutChanged |-> e.layoutChanged, changedBuffers |-> e.changedBuffers \cup {name},
           deletedBuffers |-> e.deletedBuffers \ {name}, changedWindows |-> e.changedWindows,
           deletedWindows |-> e.deletedWindows]
  BY <1>f, <1>1 DEF EventOf
<1>4. s \in HostEvents
  BY <1>0, <1>2, <1>3, EventFields DEF HostEvents
<1>5. KeptFrom(buffers, now, e.changedBuffers \cup {name}, e.deletedBuffers \ {name}, BufferNames)
  BY <1>2 DEF EventHolds, KeptFrom
<1> QED
  BY <1>2, <1>3, <1>4, <1>5 DEF EventHolds, s

\* So does one that deletes a buffer, the composer included.
LEMMA DeleteBufferHolds ==
  ASSUME NEW buffers, NEW windows, NEW e, EventHolds(e, buffers, windows), NEW name \in BufferNames
  PROVE  EventHolds(deleteBuffer(e, name), buffers, windows)
<1> DEFINE s == deleteBuffer(e, name)
           now == Without(e.buffers, name)
<1>0. e \in HostEvents
  BY DEF EventHolds
<1>f. e = EventOf(e)
  BY <1>0, EventFields
<1>m. e.buffers \in BufferMaps /\ e.windows \in WindowMaps
  BY <1>0, EventFields
<1>1. s = [e EXCEPT !.buffers = now, !.changedBuffers = @ \ {name}, !.deletedBuffers = @ \cup {name}]
  BY DEF deleteBuffer
<1>2. /\ now \in BufferMaps /\ DOMAIN now = DOMAIN e.buffers \ {name}
      /\ \A n \in DOMAIN e.buffers \ {name} : now[n] = e.buffers[n]
  <2> DEFINE f == e.buffers
  <2>1. f \in Maps(BufferNames, Buffers)
    BY <1>m DEF BufferMaps
  <2> HIDE DEF f
  <2>2. Without(f, name) \in Maps(BufferNames, Buffers)
    BY <2>1, WithoutTyped
  <2>3. /\ DOMAIN Without(f, name) = DOMAIN f \ {name}
        /\ \A n \in DOMAIN f \ {name} : Without(f, name)[n] = f[n]
    BY DEF Without
  <2> QED
    BY <2>2, <2>3 DEF f, BufferMaps
<1> HIDE DEF s, now
<1>3. s = [edits |-> e.edits, buffers |-> now, windows |-> e.windows, layout |-> e.layout,
           layoutChanged |-> e.layoutChanged, changedBuffers |-> e.changedBuffers \ {name},
           deletedBuffers |-> e.deletedBuffers \cup {name}, changedWindows |-> e.changedWindows,
           deletedWindows |-> e.deletedWindows]
  BY <1>f, <1>1 DEF EventOf
<1>4. s \in HostEvents
  BY <1>0, <1>2, <1>3, EventFields DEF HostEvents
<1>5. KeptFrom(buffers, now, e.changedBuffers \ {name}, e.deletedBuffers \cup {name}, BufferNames)
  BY <1>2 DEF EventHolds, KeptFrom
<1> QED
  BY <1>2, <1>3, <1>4, <1>5 DEF EventHolds, s

\* So does one that sets a window,
LEMMA SetWindowHolds ==
  ASSUME NEW buffers, NEW windows, NEW e, EventHolds(e, buffers, windows), NEW name \in WindowNames, NEW w \in Int
  PROVE  EventHolds(setWindow(e, name, w), buffers, windows)
<1> DEFINE s == setWindow(e, name, w)
           now == With(e.windows, name, w)
<1>0. e \in HostEvents /\ e.layout = e.windows
  BY DEF EventHolds
<1>f. e = EventOf(e)
  BY <1>0, EventFields
<1>m. e.buffers \in BufferMaps /\ e.windows \in WindowMaps
  BY <1>0, EventFields
<1>1. s = [e EXCEPT !.windows = now, !.layout = now, !.changedWindows = @ \cup {name}, !.deletedWindows = @ \ {name}]
  BY <1>0 DEF setWindow
<1>2. /\ now \in WindowMaps /\ DOMAIN now = DOMAIN e.windows \cup {name}
      /\ \A n \in DOMAIN e.windows \ {name} : now[n] = e.windows[n]
  <2> DEFINE f == e.windows
  <2>1. f \in Maps(WindowNames, Int)
    BY <1>m DEF WindowMaps
  <2> HIDE DEF f
  <2>2. With(f, name, w) \in Maps(WindowNames, Int)
    BY <2>1, WithTyped
  <2>3. /\ DOMAIN With(f, name, w) = DOMAIN f \cup {name}
        /\ \A n \in DOMAIN f \ {name} : With(f, name, w)[n] = f[n]
    BY DEF With
  <2> QED
    BY <2>2, <2>3 DEF f, WindowMaps
<1> HIDE DEF s, now
<1>3. s = [edits |-> e.edits, buffers |-> e.buffers, windows |-> now, layout |-> now,
           layoutChanged |-> e.layoutChanged, changedBuffers |-> e.changedBuffers,
           deletedBuffers |-> e.deletedBuffers, changedWindows |-> e.changedWindows \cup {name},
           deletedWindows |-> e.deletedWindows \ {name}]
  BY <1>f, <1>1 DEF EventOf
<1>4. s \in HostEvents
  BY <1>0, <1>2, <1>3, EventFields DEF HostEvents
<1>5. ~e.layoutChanged => KeptFrom(windows, now, e.changedWindows \cup {name}, e.deletedWindows \ {name}, WindowNames)
  BY <1>2 DEF EventHolds, KeptFrom
<1> QED
  BY <1>2, <1>3, <1>4, <1>5 DEF EventHolds, s

\* one that deletes a window,
LEMMA DeleteWindowHolds ==
  ASSUME NEW buffers, NEW windows, NEW e, EventHolds(e, buffers, windows), NEW name \in WindowNames
  PROVE  EventHolds(deleteWindow(e, name), buffers, windows)
<1> DEFINE s == deleteWindow(e, name)
           now == Without(e.windows, name)
<1>0. e \in HostEvents /\ e.layout = e.windows
  BY DEF EventHolds
<1>f. e = EventOf(e)
  BY <1>0, EventFields
<1>m. e.buffers \in BufferMaps /\ e.windows \in WindowMaps
  BY <1>0, EventFields
<1>1. s = [e EXCEPT !.windows = now, !.layout = now, !.changedWindows = @ \ {name}, !.deletedWindows = @ \cup {name}]
  BY <1>0 DEF deleteWindow
<1>2. /\ now \in WindowMaps /\ DOMAIN now = DOMAIN e.windows \ {name}
      /\ \A n \in DOMAIN e.windows \ {name} : now[n] = e.windows[n]
  <2> DEFINE f == e.windows
  <2>1. f \in Maps(WindowNames, Int)
    BY <1>m DEF WindowMaps
  <2> HIDE DEF f
  <2>2. Without(f, name) \in Maps(WindowNames, Int)
    BY <2>1, WithoutTyped
  <2>3. /\ DOMAIN Without(f, name) = DOMAIN f \ {name}
        /\ \A n \in DOMAIN f \ {name} : Without(f, name)[n] = f[n]
    BY DEF Without
  <2> QED
    BY <2>2, <2>3 DEF f, WindowMaps
<1> HIDE DEF s, now
<1>3. s = [edits |-> e.edits, buffers |-> e.buffers, windows |-> now, layout |-> now,
           layoutChanged |-> e.layoutChanged, changedBuffers |-> e.changedBuffers,
           deletedBuffers |-> e.deletedBuffers, changedWindows |-> e.changedWindows \ {name},
           deletedWindows |-> e.deletedWindows \cup {name}]
  BY <1>f, <1>1 DEF EventOf
<1>4. s \in HostEvents
  BY <1>0, <1>2, <1>3, EventFields DEF HostEvents
<1>5. ~e.layoutChanged => KeptFrom(windows, now, e.changedWindows \ {name}, e.deletedWindows \cup {name}, WindowNames)
  BY <1>2 DEF EventHolds, KeptFrom
<1> QED
  BY <1>2, <1>3, <1>4, <1>5 DEF EventHolds, s

\* and one that sets the whole layout.
LEMMA SetLayoutHolds ==
  ASSUME NEW buffers, NEW windows, NEW e, EventHolds(e, buffers, windows), NEW layout \in WindowMaps
  PROVE  EventHolds(setLayout(e, layout), buffers, windows)
<1> DEFINE s == setLayout(e, layout)
<1>0. e \in HostEvents
  BY DEF EventHolds
<1>f. e = EventOf(e)
  BY <1>0, EventFields
<1>m. e.buffers \in BufferMaps /\ e.windows \in WindowMaps
  BY <1>0, EventFields
<1>3. s = [edits |-> e.edits, buffers |-> e.buffers, windows |-> layout, layout |-> layout,
           layoutChanged |-> TRUE, changedBuffers |-> e.changedBuffers,
           deletedBuffers |-> e.deletedBuffers, changedWindows |-> e.changedWindows,
           deletedWindows |-> e.deletedWindows]
  <2>1. s = [e EXCEPT !.layout = layout, !.windows = layout, !.layoutChanged = TRUE]
    BY DEF setLayout
  <2> HIDE DEF s
  <2> QED
    BY <1>f, <2>1 DEF EventOf
<1> HIDE DEF s
<1>4. s \in HostEvents
  BY <1>0, <1>3, EventFields DEF HostEvents
<1> QED
  BY <1>3, <1>4 DEF EventHolds, s

\* Counting an edit.
LEMMA EditHolds ==
  ASSUME NEW buffers, NEW windows, NEW e, EventHolds(e, buffers, windows)
  PROVE  EventHolds([e EXCEPT !.edits = @ + 1], buffers, windows)
<1> DEFINE s == [e EXCEPT !.edits = @ + 1]
<1>0. e \in HostEvents
  BY DEF EventHolds
<1>f. e = EventOf(e)
  BY <1>0, EventFields
<1>m. e.buffers \in BufferMaps /\ e.windows \in WindowMaps
  BY <1>0, EventFields
<1>3. s = [edits |-> e.edits + 1, buffers |-> e.buffers, windows |-> e.windows, layout |-> e.layout,
           layoutChanged |-> e.layoutChanged, changedBuffers |-> e.changedBuffers,
           deletedBuffers |-> e.deletedBuffers, changedWindows |-> e.changedWindows,
           deletedWindows |-> e.deletedWindows]
  BY <1>f DEF EventOf
<1> HIDE DEF s
<1>4. s \in HostEvents
  BY <1>0, <1>3, EventFields DEF HostEvents
<1> QED
  BY <1>3, <1>4 DEF EventHolds, s

--------------------------------------------------------------------------------
(* What the terminal applies. *)

\* Two maps are equal when they map the same names to the same values.
LEMMA SameMap ==
  ASSUME NEW f, NEW g, f = [n \in DOMAIN f |-> f[n]], g = [n \in DOMAIN g |-> g[n]],
         DOMAIN f = DOMAIN g, \A n \in DOMAIN f : f[n] = g[n]
  PROVE  f = g
OBVIOUS

\* The buffers are as the event left them.
LEMMA BuffersApplied ==
  ASSUME ShownTyped, NEW windows, NEW e, EventHolds(e, ShownBuffers, windows), applyExtensionBuffers(e)
  PROVE  /\ extBuffers' \in BufferMaps /\ Composer \notin DOMAIN extBuffers'
         /\ \A n \in DOMAIN extBuffers' : clamped(extBuffers'[n]) = extBuffers'[n]
         /\ extComposer' \in Buffers /\ clamped(extComposer') = extComposer'
         /\ extensionBuffers(extBuffers', extComposer')
              = Over([n \in {Composer} |-> EmptyBuffer], [n \in DOMAIN e.buffers |-> clamped(e.buffers[n])])
<1> DEFINE changed == Changed(e.buffers, e.changedBuffers)
           kept == [n \in DOMAIN extBuffers \ e.deletedBuffers |-> extBuffers[n]]
           new == [n \in DOMAIN changed \ {Composer} |-> clamped(changed[n])]
           left == [n \in DOMAIN e.buffers |-> clamped(e.buffers[n])]
           empty == [n \in {Composer} |-> EmptyBuffer]
<1>1. /\ extBuffers' = Over(kept, new)
      /\ extComposer' = IF Composer \in DOMAIN changed THEN clamped(changed[Composer])
                        ELSE IF Composer \in e.deletedBuffers THEN EmptyBuffer
                        ELSE extComposer
  BY DEF applyExtensionBuffers
<1>2. /\ e.buffers \in BufferMaps
      /\ e.changedBuffers \in SUBSET BufferNames /\ e.deletedBuffers \in SUBSET BufferNames
      /\ e.changedBuffers \subseteq DOMAIN e.buffers /\ e.deletedBuffers \cap DOMAIN e.buffers = {}
      /\ KeptFrom(ShownBuffers, e.buffers, e.changedBuffers, e.deletedBuffers, BufferNames)
  <2>1. e \in HostEvents
    BY DEF EventHolds
  <2> QED
    BY <2>1, EventFields DEF EventHolds
<1>3. /\ DOMAIN e.buffers \subseteq BufferNames /\ \A n \in DOMAIN e.buffers : e.buffers[n] \in Buffers
      /\ DOMAIN extBuffers \subseteq BufferNames /\ \A n \in DOMAIN extBuffers : extBuffers[n] \in Buffers
  BY <1>2, InMaps DEF BufferMaps, ShownTyped
<1>4. /\ DOMAIN ShownBuffers = DOMAIN extBuffers \cup {Composer}
      /\ ShownBuffers[Composer] = extComposer
      /\ \A n \in DOMAIN extBuffers : ShownBuffers[n] = extBuffers[n]
  BY DEF ShownTyped, ShownBuffers, extensionBuffers, With
<1>5. /\ DOMAIN changed = e.changedBuffers /\ \A n \in e.changedBuffers : changed[n] = e.buffers[n]
  BY <1>2 DEF Changed
<1> HIDE DEF changed
<1>6. /\ DOMAIN kept = DOMAIN extBuffers \ e.deletedBuffers /\ \A n \in DOMAIN kept : kept[n] = extBuffers[n]
      /\ DOMAIN new = e.changedBuffers \ {Composer} /\ \A n \in DOMAIN new : new[n] = clamped(e.buffers[n])
      /\ DOMAIN left = DOMAIN e.buffers /\ \A n \in DOMAIN left : left[n] = clamped(e.buffers[n])
      /\ DOMAIN empty = {Composer} /\ empty[Composer] = EmptyBuffer
  BY <1>5
<1> HIDE DEF kept, new, left, empty
<1>7. /\ DOMAIN extBuffers' = DOMAIN kept \cup DOMAIN new
      /\ \A n \in DOMAIN extBuffers' : extBuffers'[n] = IF n \in DOMAIN new THEN new[n] ELSE kept[n]
      /\ extBuffers' = [n \in DOMAIN extBuffers' |-> extBuffers'[n]]
  BY <1>1 DEF Over
<1>8. /\ Composer \notin DOMAIN extBuffers' /\ DOMAIN extBuffers' \subseteq BufferNames
      /\ \A n \in DOMAIN extBuffers' :
            extBuffers'[n] = IF n \in e.changedBuffers THEN clamped(e.buffers[n]) ELSE extBuffers[n]
      /\ \A n \in BufferNames \ {Composer} :
            n \in DOMAIN extBuffers' <=> n \in e.changedBuffers \/ (n \in DOMAIN extBuffers /\ n \notin e.deletedBuffers)
  BY <1>2, <1>3, <1>6, <1>7 DEF ShownTyped
<1>9. \A n \in DOMAIN extBuffers' : extBuffers'[n] \in Buffers /\ clamped(extBuffers'[n]) = extBuffers'[n]
  <2> SUFFICES ASSUME NEW n \in DOMAIN extBuffers'
               PROVE  extBuffers'[n] \in Buffers /\ clamped(extBuffers'[n]) = extBuffers'[n]
    OBVIOUS
  <2>1. CASE n \in e.changedBuffers
    <3>1. e.buffers[n] \in Buffers /\ extBuffers'[n] = clamped(e.buffers[n])
      BY <2>1, <1>2, <1>3, <1>8
    <3> QED
      BY <3>1, ClampedTyped
  <2>2. CASE n \notin e.changedBuffers
    <3>1. n \in DOMAIN extBuffers /\ extBuffers'[n] = extBuffers[n]
      BY <2>2, <1>6, <1>7, <1>8
    <3> QED
      BY <3>1, <1>3 DEF ShownTyped
  <2> QED
    BY <2>1, <2>2
<1>10. extBuffers' \in BufferMaps
  BY <1>7, <1>8, <1>9, InMaps DEF BufferMaps
<1>11. EmptyBuffer \in Buffers /\ clamped(EmptyBuffer) = EmptyBuffer
  BY DEF EmptyBuffer, Buffers, clamped
<1>12. extComposer' = IF Composer \in e.changedBuffers THEN clamped(e.buffers[Composer])
                      ELSE IF Composer \in e.deletedBuffers THEN EmptyBuffer
                      ELSE extComposer
  BY <1>1, <1>5
<1>13. extComposer' \in Buffers /\ clamped(extComposer') = extComposer'
  <2>1. CASE Composer \in e.changedBuffers
    <3>1. e.buffers[Composer] \in Buffers
      BY <2>1, <1>2, <1>3
    <3> QED
      BY <3>1, <2>1, <1>12, ClampedTyped
  <2>2. CASE Composer \notin e.changedBuffers
    BY <2>2, <1>11, <1>12 DEF ShownTyped
  <2> QED
    BY <2>1, <2>2
<1>14. extensionBuffers(extBuffers', extComposer') = Over(empty, left)
  <2> DEFINE f == extensionBuffers(extBuffers', extComposer')
             g == Over(empty, left)
  <2>1. /\ DOMAIN f = DOMAIN extBuffers' \cup {Composer} /\ f[Composer] = extComposer'
        /\ \A n \in DOMAIN extBuffers' : f[n] = extBuffers'[n]
        /\ f = [n \in DOMAIN f |-> f[n]]
    BY <1>8 DEF extensionBuffers, With
  <2>2. /\ DOMAIN g = DOMAIN e.buffers \cup {Composer}
        /\ \A n \in DOMAIN g : g[n] = IF n \in DOMAIN e.buffers THEN clamped(e.buffers[n]) ELSE EmptyBuffer
        /\ g = [n \in DOMAIN g |-> g[n]]
    BY <1>6 DEF Over
  <2> HIDE DEF f, g
  <2>3. \A n \in BufferNames \ {Composer} : n \in DOMAIN extBuffers' <=> n \in DOMAIN e.buffers
    BY <1>2, <1>4, <1>8 DEF KeptFrom
  <2>4. DOMAIN f = DOMAIN g
    BY <1>3, <1>8, <2>1, <2>2, <2>3
  <2>5. \A n \in DOMAIN f : f[n] = g[n]
    <3> SUFFICES ASSUME NEW n \in DOMAIN f PROVE f[n] = g[n]
      OBVIOUS
    <3>0. n \in BufferNames
      BY <1>8, <2>1 DEF BufferNames
    <3>1. CASE n = Composer
      <4>1. CASE Composer \in e.changedBuffers
        BY <3>1, <4>1, <1>2, <1>12, <2>1, <2>2
      <4>2. CASE Composer \in e.deletedBuffers
        <5>1. Composer \notin DOMAIN e.buffers /\ Composer \notin e.changedBuffers
          BY <4>2, <1>2
        <5> QED
          BY <3>1, <4>2, <5>1, <1>12, <2>1, <2>2
      <4>3. CASE Composer \notin e.changedBuffers /\ Composer \notin e.deletedBuffers
        <5>1. Composer \in DOMAIN e.buffers /\ e.buffers[Composer] = extComposer
          BY <4>3, <3>0, <3>1, <1>2, <1>4 DEF KeptFrom
        <5>2. g[Composer] = clamped(extComposer)
          BY <5>1, <2>2
        <5> QED
          BY <3>1, <4>3, <5>2, <1>12, <2>1 DEF ShownTyped
      <4> QED
        BY <4>1, <4>2, <4>3
    <3>2. CASE n # Composer
      <4>0. n \in DOMAIN extBuffers' /\ n \in DOMAIN e.buffers /\ n \notin e.deletedBuffers
        BY <3>0, <3>2, <1>2, <2>1, <2>3
      <4>1. CASE n \in e.changedBuffers
        BY <4>0, <4>1, <1>8, <2>1, <2>2
      <4>2. CASE n \notin e.changedBuffers
        <5>1. n \in DOMAIN extBuffers /\ extBuffers'[n] = extBuffers[n]
          BY <4>0, <4>2, <3>0, <3>2, <1>8
        <5>2. e.buffers[n] = extBuffers[n]
          BY <3>0, <4>0, <4>2, <5>1, <1>2, <1>4 DEF KeptFrom
        <5>3. g[n] = clamped(extBuffers[n])
          BY <4>0, <5>2, <2>2
        <5> QED
          BY <4>0, <5>1, <5>3, <2>1 DEF ShownTyped
      <4> QED
        BY <4>1, <4>2
    <3> QED
      BY <3>1, <3>2
  <2>6. f = g
    BY <2>1, <2>2, <2>4, <2>5, SameMap
  <2> QED
    BY <2>6 DEF f, g
<1> QED
  BY <1>8, <1>9, <1>10, <1>13, <1>14 DEF left, empty

\* A map of windows is not the missing layout.
LEMMA NoLayoutIsNoMap == \A f \in WindowMaps : f # NoLayout
<1> SUFFICES ASSUME NEW f \in WindowMaps PROVE f # NoLayout
  OBVIOUS
<1>1. DOMAIN f \subseteq {"status", "side"}
  BY InMaps DEF WindowMaps, WindowNames, Status, SidePane
<1>2. "none" \in DOMAIN NoLayout
  BY DEF NoLayout
<1> QED
  BY <1>1, <1>2

\* The windows shown, name by name.
IsClone(f, windows, layout) ==
  LET shown == IF layout = NoLayout THEN {} ELSE DOMAIN layout
  IN  /\ DOMAIN f = DOMAIN windows \cup shown \cup {Status}
      /\ \A n \in DOMAIN f : f[n] = IF n \in DOMAIN windows THEN windows[n]
                                    ELSE IF n \in shown THEN layout[n] ELSE 0
      /\ f = [n \in DOMAIN f |-> f[n]]

\* The clone of the windows an event is given has the terminal's own and what the layout and the windows say.
LEMMA ClonedIs ==
  ASSUME NEW windows \in WindowMaps, NEW layout \in WindowMaps \cup {NoLayout}
  PROVE  IsClone(cloneRuntimeWindows(windows, layout), windows, layout)
<1> DEFINE own == [n \in {Status} |-> 0]
           laid == IF layout = NoLayout THEN <<>> ELSE layout
           shown == IF layout = NoLayout THEN {} ELSE DOMAIN layout
           f == Over(Over(own, laid), windows)
<1>1. DOMAIN own = {Status} /\ own[Status] = 0
  OBVIOUS
<1>2. DOMAIN laid = shown /\ \A n \in shown : laid[n] = layout[n]
  OBVIOUS
<1> HIDE DEF own, laid, shown
<1>3. /\ DOMAIN f = DOMAIN windows \cup shown \cup {Status}
      /\ \A n \in DOMAIN f : f[n] = IF n \in DOMAIN windows THEN windows[n]
                                    ELSE IF n \in shown THEN layout[n] ELSE 0
      /\ f = [n \in DOMAIN f |-> f[n]]
  BY <1>1, <1>2 DEF Over
<1>4. cloneRuntimeWindows(windows, layout) = f
  BY DEF cloneRuntimeWindows, own, laid
<1> HIDE DEF f
<1> QED
  BY <1>3, <1>4 DEF shown, IsClone

\* The windows are as the event left them.
LEMMA WindowsApplied ==
  ASSUME ShownTyped, NEW buffers, NEW e, EventHolds(e, buffers, ShownWindows), applyRuntimeWindows(e)
  PROVE  /\ extWindows' \in WindowMaps /\ extLayout' \in WindowMaps \cup {NoLayout}
         /\ cloneRuntimeWindows(extWindows', extLayout') = Over([n \in {Status} |-> 0], e.windows)
<1> DEFINE changed == Changed(e.windows, e.changedWindows)
           kept(f) == [n \in DOMAIN f \ e.deletedWindows |-> f[n]]
           own == [n \in {Status} |-> 0]
           g == Over(own, e.windows)
<1>1. IF e.layoutChanged
      THEN extLayout' = e.layout /\ extWindows' = e.layout
      ELSE /\ extWindows' = Over(kept(extWindows), changed)
           /\ extLayout' = IF extLayout = NoLayout THEN NoLayout ELSE Over(kept(extLayout), changed)
  BY DEF applyRuntimeWindows
<1>2. /\ e.windows \in WindowMaps /\ e.layout = e.windows /\ e.layoutChanged \in BOOLEAN
      /\ e.changedWindows \in SUBSET WindowNames /\ e.deletedWindows \in SUBSET WindowNames
  <2>1. e \in HostEvents
    BY DEF EventHolds
  <2> QED
    BY <2>1, EventFields DEF EventHolds
<1>3. DOMAIN e.windows \subseteq WindowNames /\ \A n \in DOMAIN e.windows : e.windows[n] \in Int
  BY <1>2, InMaps DEF WindowMaps
<1>4. /\ DOMAIN g = {Status} \cup DOMAIN e.windows
      /\ \A n \in DOMAIN g : g[n] = IF n \in DOMAIN e.windows THEN e.windows[n] ELSE 0
      /\ g = [n \in DOMAIN g |-> g[n]]
  <2>1. DOMAIN own = {Status} /\ own[Status] = 0
    OBVIOUS
  <2> HIDE DEF own
  <2> QED
    BY <2>1 DEF Over
<1> HIDE DEF g
<1>5. CASE e.layoutChanged
  <2>1. extWindows' = e.windows /\ extLayout' = e.windows /\ extLayout' # NoLayout
    BY <1>1, <1>2, <1>5, NoLayoutIsNoMap
  <2> DEFINE f == cloneRuntimeWindows(extWindows', extLayout')
  <2>2. /\ DOMAIN f = DOMAIN e.windows \cup {Status}
        /\ \A n \in DOMAIN f : f[n] = IF n \in DOMAIN e.windows THEN e.windows[n] ELSE 0
        /\ f = [n \in DOMAIN f |-> f[n]]
    <3>1. IsClone(f, e.windows, e.windows) /\ e.windows # NoLayout
      BY <1>2, <2>1, ClonedIs, NoLayoutIsNoMap
    <3> HIDE DEF f
    <3> QED
      BY <3>1 DEF IsClone
  <2> HIDE DEF f
  <2>3. f = g
    BY <1>4, <2>2, SameMap
  <2> QED
    BY <2>1, <2>3, <1>2 DEF f, g
<1>6. CASE ~e.layoutChanged
  <2>1. /\ extWindows' = Over(kept(extWindows), changed)
        /\ extLayout' = IF extLayout = NoLayout THEN NoLayout ELSE Over(kept(extLayout), changed)
    BY <1>1, <1>6
  <2>2. /\ e.changedWindows \subseteq DOMAIN e.windows /\ e.deletedWindows \cap DOMAIN e.windows = {}
        /\ KeptFrom(ShownWindows, e.windows, e.changedWindows, e.deletedWindows, WindowNames)
    BY <1>6 DEF EventHolds
  <2>3. DOMAIN changed = e.changedWindows /\ \A n \in e.changedWindows : changed[n] = e.windows[n]
    BY <2>2 DEF Changed
  <2> HIDE DEF changed
  <2>4. ASSUME NEW w \in WindowMaps
        PROVE  /\ DOMAIN Over(kept(w), changed) = (DOMAIN w \ e.deletedWindows) \cup e.changedWindows
               /\ \A n \in (DOMAIN w \ e.deletedWindows) \cup e.changedWindows :
                     Over(kept(w), changed)[n] = IF n \in e.changedWindows THEN e.windows[n] ELSE w[n]
               /\ Over(kept(w), changed) \in WindowMaps
    <3> DEFINE k == kept(w)
               o == Over(k, changed)
    <3>1. DOMAIN k = DOMAIN w \ e.deletedWindows /\ \A n \in DOMAIN k : k[n] = w[n]
      OBVIOUS
    <3> HIDE DEF k
    <3>2. /\ DOMAIN o = (DOMAIN w \ e.deletedWindows) \cup e.changedWindows
          /\ \A n \in DOMAIN o : o[n] = IF n \in e.changedWindows THEN e.windows[n] ELSE w[n]
          /\ o = [n \in DOMAIN o |-> o[n]]
      BY <2>3, <3>1 DEF Over
    <3> HIDE DEF o
    <3>3. DOMAIN w \subseteq WindowNames /\ \A n \in DOMAIN w : w[n] \in Int
      BY InMaps DEF WindowMaps
    <3>4. \A n \in DOMAIN o : n \in WindowNames /\ o[n] \in Int
      BY <1>2, <1>3, <2>2, <3>2, <3>3
    <3>5. o \in WindowMaps
      BY <3>2, <3>4, InMaps DEF WindowMaps
    <3> QED
      BY <3>2, <3>5 DEF o, k
  <2> HIDE DEF kept
  <2>5. /\ extWindows' \in WindowMaps
        /\ DOMAIN extWindows' = (DOMAIN extWindows \ e.deletedWindows) \cup e.changedWindows
        /\ \A n \in DOMAIN extWindows' :
              extWindows'[n] = IF n \in e.changedWindows THEN e.windows[n] ELSE extWindows[n]
    BY <2>1, <2>4 DEF ShownTyped
  <2> DEFINE before == IF extLayout = NoLayout THEN {} ELSE DOMAIN extLayout
             after == IF extLayout' = NoLayout THEN {} ELSE DOMAIN extLayout'
  <2>6. /\ extLayout' \in WindowMaps \cup {NoLayout}
        /\ after \subseteq (before \ e.deletedWindows) \cup e.changedWindows
        /\ before \ e.deletedWindows \subseteq after
        /\ \A n \in after : extLayout'[n] = IF n \in e.changedWindows THEN e.windows[n] ELSE extLayout[n]
    <3>1. CASE extLayout = NoLayout
      BY <2>1, <3>1
    <3>2. CASE extLayout # NoLayout
      <4>1. extLayout \in WindowMaps
        BY <3>2 DEF ShownTyped
      <4>2. extLayout' = Over(kept(extLayout), changed)
        BY <2>1, <3>2
      <4>3. extLayout' \in WindowMaps /\ extLayout' # NoLayout
        BY <2>4, <4>1, <4>2, NoLayoutIsNoMap
      <4> QED
        BY <2>4, <3>2, <4>1, <4>2, <4>3
    <3> QED
      BY <3>1, <3>2
  <2> DEFINE f == cloneRuntimeWindows(extWindows', extLayout')
  <2>7. /\ DOMAIN f = DOMAIN extWindows' \cup after \cup {Status}
        /\ \A n \in DOMAIN f : f[n] = IF n \in DOMAIN extWindows' THEN extWindows'[n]
                                      ELSE IF n \in after THEN extLayout'[n] ELSE 0
        /\ f = [n \in DOMAIN f |-> f[n]]
    <3>1. IsClone(f, extWindows', extLayout')
      BY <2>5, <2>6, ClonedIs
    <3> HIDE DEF f
    <3> QED
      BY <3>1 DEF IsClone
  <2>8. /\ DOMAIN ShownWindows = DOMAIN extWindows \cup before \cup {Status}
        /\ \A n \in DOMAIN ShownWindows :
              ShownWindows[n] = IF n \in DOMAIN extWindows THEN extWindows[n]
                                ELSE IF n \in before THEN extLayout[n] ELSE 0
    <3>1. IsClone(ShownWindows, extWindows, extLayout)
      BY ClonedIs DEF ShownTyped, ShownWindows
    <3> QED
      BY <3>1 DEF IsClone
  <2> HIDE DEF f, before, after
  <2>9. Status \in WindowNames /\ DOMAIN extWindows \subseteq WindowNames /\ before \subseteq WindowNames
    BY InMaps DEF ShownTyped, WindowMaps, WindowNames, before
  <2>10. \A n \in WindowNames : /\ n \in DOMAIN f <=> n \in DOMAIN g
                                /\ n \in DOMAIN f => f[n] = g[n]
    <3> SUFFICES ASSUME NEW n \in WindowNames
                 PROVE  /\ n \in DOMAIN f <=> n \in DOMAIN g
                        /\ n \in DOMAIN f => f[n] = g[n]
      OBVIOUS
    <3>1. CASE n \in e.changedWindows
      BY <3>1, <1>4, <2>2, <2>5, <2>7
    <3>2. CASE n \in e.deletedWindows
      <4>1. n \notin e.changedWindows /\ n \notin DOMAIN e.windows
        BY <3>2, <2>2
      <4>2. n \notin DOMAIN extWindows' /\ n \notin after
        BY <3>2, <4>1, <2>5, <2>6
      <4> QED
        BY <4>1, <4>2, <1>4, <2>7
    <3>3. CASE n \notin e.changedWindows /\ n \notin e.deletedWindows
      <4>1. /\ n \in DOMAIN e.windows <=> n \in DOMAIN ShownWindows
            /\ n \in DOMAIN e.windows => e.windows[n] = ShownWindows[n]
        BY <3>3, <2>2 DEF KeptFrom
      <4>2. /\ n \in DOMAIN extWindows' <=> n \in DOMAIN extWindows
            /\ n \in DOMAIN extWindows => extWindows'[n] = extWindows[n]
            /\ n \in after <=> n \in before
            /\ n \in after => extLayout'[n] = extLayout[n]
        BY <3>3, <2>5, <2>6
      <4> QED
        BY <4>1, <4>2, <1>4, <2>7, <2>8
    <3> QED
      BY <3>1, <3>2, <3>3
  <2>11. DOMAIN f \subseteq WindowNames /\ DOMAIN g \subseteq WindowNames
    BY <1>2, <1>3, <1>4, <2>5, <2>6, <2>7, <2>9
  <2>12. f = g
    BY <1>4, <2>7, <2>10, <2>11, SameMap
  <2> QED
    BY <2>5, <2>6, <2>12 DEF f, g
<1> QED
  BY <1>2, <1>5, <1>6

\* Nothing is open, applied or returned at first.
LEMMA ExtensionInvInit == ExtensionInit => ExtensionInv
<1> SUFFICES ASSUME ExtensionInit PROVE ExtensionInv
  OBVIOUS
<1>1. extBuffers \in BufferMaps /\ extWindows \in WindowMaps
  BY EmptyMap DEF ExtensionInit, BufferMaps, WindowMaps
<1>2. EmptyBuffer \in Buffers /\ clamped(EmptyBuffer) = EmptyBuffer
  BY DEF EmptyBuffer, Buffers, clamped
<1>3. DOMAIN extBuffers = {}
  BY DEF ExtensionInit
<1>4. ShownTyped
  BY <1>1, <1>2, <1>3 DEF ShownTyped, ExtensionInit
<1>5. EventInv /\ BuffersAsSeen /\ WindowsAsSeen
  BY DEF ExtensionInit, EventInv, BuffersAsSeen, WindowsAsSeen
<1>6. LifecycleTyped
  BY EmptyMap DEF LifecycleTyped, LifecycleResult, ArgumentsNamed, ExtensionInit, NoMutation
<1>7. LifecycleMerged
  <2>1. lfTables = <<>> /\ DOMAIN lfTables = {}
    BY DEF ExtensionInit
  <2>2. /\ GivenIn(lfTables) = {} /\ AfterIn(lfTables) = {} /\ ToldIn(lfTables) = {}
    BY <2>1 DEF GivenIn, AfterIn, ToldIn
  <2>3. FieldsIn(lfTables) = {}
    BY <2>2 DEF FieldsIn
  <2>4. lfResult.arguments = [f \in FieldsIn(lfTables) |-> lfTables[LastOf(TellIn(lfTables, f))].arguments[f]]
    BY <2>3 DEF ExtensionInit, NoMutation
  <2> QED
    BY <2>1, <2>2, <2>4, MergedIs DEF MergedOf, ExtensionInit, NoMutation
<1> QED
  BY <1>4, <1>5, <1>6, <1>7 DEF ExtensionInv

\* An event is opened on what is shown.
LEMMA NewEventHolds == ASSUME ExtensionInv, newLuaHostEvent PROVE EventHolds(extEvent', ShownBuffers, ShownWindows)
<1> DEFINE windows == cloneRuntimeWindows(extWindows, extLayout)
           buffers == extensionBuffers(extBuffers, extComposer)
<1>1. extEvent' = [edits |-> 0, buffers |-> buffers,
                   windows |-> windows, layout |-> windows, layoutChanged |-> FALSE,
                   changedBuffers |-> {}, deletedBuffers |-> {}, changedWindows |-> {}, deletedWindows |-> {}]
  BY DEF newLuaHostEvent
<1>2. buffers \in BufferMaps
  BY WithTyped DEF ExtensionInv, ShownTyped, BufferMaps, extensionBuffers, BufferNames
<1>3. windows \in WindowMaps
  <2>1. IsClone(windows, extWindows, extLayout)
    BY ClonedIs DEF ExtensionInv, ShownTyped
  <2> HIDE DEF windows
  <2>2. /\ extWindows \in WindowMaps /\ (extLayout = NoLayout \/ extLayout \in WindowMaps)
    BY DEF ExtensionInv, ShownTyped
  <2>3. DOMAIN windows \subseteq WindowNames
    BY <2>1, <2>2, InMaps DEF IsClone, WindowMaps, WindowNames
  <2>4. \A n \in DOMAIN windows : windows[n] \in Int
    BY <2>1, <2>2, InMaps DEF IsClone, WindowMaps
  <2> QED
    BY <2>1, <2>3, <2>4, InMaps DEF IsClone, WindowMaps
<1>4. ShownBuffers = buffers /\ ShownWindows = windows
  BY DEF ShownBuffers, ShownWindows
<1> HIDE DEF buffers, windows
<1> QED
  BY <1>1, <1>2, <1>3, <1>4 DEF EventHolds, HostEvents, KeptFrom

\* An edit leaves an event of which the same holds.
LEMMA EditKeeps ==
  ASSUME ExtensionInv, NEW event, Edit(event),
         extEvent # NoHostEvent => EventHolds(event, ShownBuffers, ShownWindows)
  PROVE  EventHolds(extEvent', ShownBuffers, ShownWindows) /\ UNCHANGED <<extState, extSeen, extEvents, lfTables, lfResult>>
BY EditHolds DEF Edit

\* The edits of the three kinds.
LEMMA EditsKeep ==
  ASSUME ExtensionInv,
         \/ \E name \in {Composer, Notes} : editBuffer(name)
         \/ \E name \in {Status, SidePane} : editWindow(name)
         \/ editLayout
  PROVE  EventHolds(extEvent', ShownBuffers, ShownWindows) /\ UNCHANGED <<extState, extSeen, extEvents, lfTables, lfResult>>
<1> DEFINE G == EventHolds(extEvent', ShownBuffers, ShownWindows)
                /\ UNCHANGED <<extState, extSeen, extEvents, lfTables, lfResult>>
<1>1. EventHolds(extEvent, ShownBuffers, ShownWindows) /\ extEvent \in HostEvents
  BY DEF ExtensionInv, EventInv, editBuffer, editWindow, editLayout, EventHolds
<1>2. ASSUME NEW event, Edit(event), EventHolds(event, ShownBuffers, ShownWindows) PROVE G
  BY <1>2, EditKeeps
<1> HIDE DEF G
<1>3. ASSUME NEW name \in {Composer, Notes}, editBuffer(name) PROVE G
  <2> DEFINE buffer == bufferOf(extEvent, name)
  <2>0. name \in BufferNames
    BY <1>3 DEF BufferNames
  <2>1. buffer \in Buffers /\ buffer.text \in Seq(Int)
    BY <1>1, <2>0, BufferOfTyped DEF Buffers
  <2>t. Typing \subseteq Seq(Int) /\ Offsets \subseteq Int
    BY DEF Typing, Offsets
  <2>9. ASSUME NEW b \in Buffers, Edit(setBuffer(extEvent, name, b)) PROVE G
    BY <1>1, <1>2, <2>0, <2>9, SetBufferHolds
  <2>e. \/ \E text \in Typing : Edit(setBuffer(extEvent, name, luaBufferSetText(buffer, text)))
        \/ Edit(setBuffer(extEvent, name, luaBufferAppend(buffer, << 1 >>)))
        \/ \E cursor \in Offsets : Edit(setBuffer(extEvent, name, luaBufferSetCursor(buffer, cursor)))
        \/ \E start, end \in Offsets, text \in Typing :
              Edit(setBuffer(extEvent, name, luaBufferReplace(buffer, start, end, text)))
        \/ Edit(deleteBuffer(extEvent, name))
    BY <1>3 DEF editBuffer
  <2> HIDE DEF buffer
  <2>2. ASSUME NEW text \in Typing, Edit(setBuffer(extEvent, name, luaBufferSetText(buffer, text))) PROVE G
    BY <2>1, <2>t, <2>9, <2>2, SetTextTyped
  <2>3. ASSUME Edit(setBuffer(extEvent, name, luaBufferAppend(buffer, << 1 >>))) PROVE G
    <3>1. buffer.text \o << 1 >> \in Seq(Int)
      BY <2>1
    <3>2. luaBufferAppend(buffer, << 1 >>) \in Buffers
      BY <2>1, <3>1, SetTextTyped DEF luaBufferAppend
    <3> QED
      BY <2>9, <2>3, <3>2
  <2>4. ASSUME NEW cursor \in Offsets, Edit(setBuffer(extEvent, name, luaBufferSetCursor(buffer, cursor))) PROVE G
    BY <2>1, <2>t, <2>9, <2>4, SetCursorTyped
  <2>5. ASSUME NEW start \in Offsets, NEW end \in Offsets, NEW text \in Typing,
               Edit(setBuffer(extEvent, name, luaBufferReplace(buffer, start, end, text)))
        PROVE  G
    <3>1. luaBufferReplace(buffer, start, end, text) \in Buffers
      BY <2>1, <2>t, ReplaceTyped
    <3> QED
      BY <2>9, <2>5, <3>1
  <2>6. ASSUME Edit(deleteBuffer(extEvent, name)) PROVE G
    BY <1>1, <1>2, <2>0, <2>6, DeleteBufferHolds
  <2> QED
    BY <2>e, <2>2, <2>3, <2>4, <2>5, <2>6
<1>4. ASSUME NEW name \in {Status, SidePane}, editWindow(name) PROVE G
  <2>0. name \in WindowNames
    BY <1>4 DEF WindowNames
  <2>1. ASSUME NEW w \in {1, 2}, Edit(setWindow(extEvent, name, w)) PROVE G
    <3> w \in Int
      OBVIOUS
    <3> QED
      BY <1>1, <1>2, <2>0, <2>1, SetWindowHolds
  <2>2. ASSUME Edit(deleteWindow(extEvent, name)) PROVE G
    BY <1>1, <1>2, <2>0, <2>2, DeleteWindowHolds
  <2> QED
    BY <1>4, <2>1, <2>2 DEF editWindow
<1>5. ASSUME editLayout PROVE G
  <2>1. PICK w \in {<<>>, [n \in {SidePane} |-> 3], [n \in {Status, SidePane} |-> 4]} : Edit(setLayout(extEvent, w))
    BY <1>5 DEF editLayout
  <2>2. <<>> \in WindowMaps
    BY EmptyMap DEF WindowMaps
  <2>3. [n \in {SidePane} |-> 3] \in [{SidePane} -> Int] /\ {SidePane} \in SUBSET WindowNames
    BY DEF WindowNames
  <2>4. [n \in {Status, SidePane} |-> 4] \in [{Status, SidePane} -> Int] /\ {Status, SidePane} \in SUBSET WindowNames
    BY DEF WindowNames
  <2>5. [n \in {SidePane} |-> 3] \in WindowMaps
    BY <2>3 DEF WindowMaps, Maps
  <2>6. [n \in {Status, SidePane} |-> 4] \in WindowMaps
    BY <2>4 DEF WindowMaps, Maps
  <2>7. w \in WindowMaps
    BY <2>2, <2>5, <2>6
  <2> QED
    BY <1>1, <1>2, <2>1, <2>7, SetLayoutHolds
<1> QED
  BY <1>3, <1>4, <1>5 DEF G

\* Steps that leave what is shown and the open event alone.
LEMMA ShownUnchanged ==
  ASSUME ExtensionInv, UNCHANGED extState
  PROVE  ShownTyped' /\ ShownBuffers' = ShownBuffers /\ ShownWindows' = ShownWindows
BY DEF ExtensionInv, ShownTyped, ShownBuffers, ShownWindows, extState

\* A step that leaves what the terminal shows alone keeps what the last event left of it.
LEMMA SeenUnchanged ==
  ASSUME ExtensionInv, UNCHANGED extState, extSeen' \in {extSeen, NoHostEvent}
  PROVE  BuffersAsSeen' /\ WindowsAsSeen'
<1>1. CASE extSeen' = NoHostEvent
  BY <1>1 DEF BuffersAsSeen, WindowsAsSeen
<1>2. CASE extSeen' = extSeen
  BY <1>2 DEF ExtensionInv, BuffersAsSeen, WindowsAsSeen, extState
<1> QED
  BY <1>1, <1>2

\* A step that leaves the lifecycle result alone keeps it merged.
LEMMA LifecycleUnchanged ==
  ASSUME ExtensionInv, UNCHANGED <<lfTables, lfResult>>
  PROVE  LifecycleTyped' /\ LifecycleMerged'
<1>1. MergedOf(lfTables', lfResult')
  BY MergedIs DEF ExtensionInv
<1>2. LifecycleMerged'
  BY <1>1 DEF LifecycleMerged, MergedOf, GivenIn, EmptiedIn, AfterIn, TellIn, FieldsIn, ToldIn, LastOf
<1> QED
  BY <1>2 DEF ExtensionInv, LifecycleTyped

\* Events, edits, results and lifecycle handlers keep the invariant.
LEMMA ExtensionInvNext == ExtensionInv /\ [ExtensionNext]_exVars => ExtensionInv'
<1> SUFFICES ASSUME ExtensionInv, [ExtensionNext]_exVars PROVE ExtensionInv'
  OBVIOUS
<1>1. CASE newLuaHostEvent
  <2>1. UNCHANGED <<extState, lfTables, lfResult>> /\ extSeen' = NoHostEvent
    BY <1>1 DEF newLuaHostEvent
  <2>2. EventHolds(extEvent', ShownBuffers, ShownWindows)
    BY <1>1, NewEventHolds
  <2>3. ShownTyped' /\ EventInv'
    BY <2>1, <2>2, ShownUnchanged DEF EventInv
  <2> QED
    BY <2>1, <2>3, SeenUnchanged, LifecycleUnchanged DEF ExtensionInv
<1>2. CASE \/ \E name \in {Composer, Notes} : editBuffer(name)
           \/ \E name \in {Status, SidePane} : editWindow(name)
           \/ editLayout
  <2>1. /\ EventHolds(extEvent', ShownBuffers, ShownWindows)
        /\ UNCHANGED <<extState, extSeen, extEvents, lfTables, lfResult>>
    BY <1>2, EditsKeep
  <2>2. ShownTyped' /\ EventInv'
    BY <2>1, ShownUnchanged DEF EventInv
  <2> QED
    BY <2>1, <2>2, SeenUnchanged, LifecycleUnchanged DEF ExtensionInv
<1>3. CASE applyExtensionEventResult
  <2>1. /\ extEvent # NoHostEvent /\ applyExtensionBuffers(extEvent) /\ applyRuntimeWindows(extEvent)
        /\ extSeen' = extEvent /\ extEvent' = NoHostEvent /\ UNCHANGED <<lfTables, lfResult>>
    BY <1>3 DEF applyExtensionEventResult
  <2>2. ShownTyped /\ EventHolds(extEvent, ShownBuffers, ShownWindows)
    BY <2>1 DEF ExtensionInv, EventInv
  <2>3. /\ extBuffers' \in BufferMaps /\ Composer \notin DOMAIN extBuffers'
        /\ \A n \in DOMAIN extBuffers' : clamped(extBuffers'[n]) = extBuffers'[n]
        /\ extComposer' \in Buffers /\ clamped(extComposer') = extComposer'
        /\ extensionBuffers(extBuffers', extComposer')
             = Over([n \in {Composer} |-> EmptyBuffer],
                    [n \in DOMAIN extEvent.buffers |-> clamped(extEvent.buffers[n])])
    BY <2>1, <2>2, BuffersApplied
  <2>4. /\ extWindows' \in WindowMaps /\ extLayout' \in WindowMaps \cup {NoLayout}
        /\ cloneRuntimeWindows(extWindows', extLayout') = Over([n \in {Status} |-> 0], extEvent.windows)
    BY <2>1, <2>2, WindowsApplied
  <2>5. ShownTyped'
    BY <2>3, <2>4 DEF ShownTyped
  <2>6. BuffersAsSeen'
    BY <2>1, <2>3 DEF BuffersAsSeen
  <2>7. WindowsAsSeen'
    BY <2>1, <2>4 DEF WindowsAsSeen
  <2> QED
    BY <2>1, <2>5, <2>6, <2>7, LifecycleUnchanged DEF ExtensionInv, EventInv
<1>4. CASE dropResult
  <2>1. UNCHANGED <<extState, extSeen, lfTables, lfResult>> /\ extEvent' = NoHostEvent
    BY <1>4 DEF dropResult
  <2> QED
    BY <2>1, ShownUnchanged, SeenUnchanged, LifecycleUnchanged DEF ExtensionInv, EventInv
<1>5. ASSUME NEW table \in Tables, handlerReturns(table) PROVE ExtensionInv'
  <2>1. /\ UNCHANGED <<extState, extEvent, extSeen>>
        /\ lfTables' = Append(lfTables, table) /\ lfResult' = applyLifecycleLuaResult(lfResult, table)
    BY <1>5 DEF handlerReturns
  <2>2. table \in LifecycleTable
    BY TablesTyped
  <2>3. lfTables \in Seq(LifecycleTable) /\ lfResult \in LifecycleResult /\ MergedOf(lfTables, lfResult)
    BY MergedIs DEF ExtensionInv, LifecycleTyped
  <2>4. MergedOf(lfTables', lfResult') /\ lfResult' \in LifecycleResult
    BY <2>1, <2>2, <2>3, MergedStep
  <2>5. lfTables' \in Seq(LifecycleTable)
    BY <2>1, <2>2, <2>3
  <2>6. LifecycleMerged'
    BY <2>4 DEF LifecycleMerged, MergedOf, GivenIn, EmptiedIn, AfterIn, TellIn, FieldsIn, ToldIn, LastOf
  <2>7. ShownTyped' /\ EventInv'
    BY <2>1, ShownUnchanged DEF EventInv, ExtensionInv
  <2> QED
    BY <2>1, <2>4, <2>5, <2>6, <2>7, SeenUnchanged DEF ExtensionInv, LifecycleTyped
<1>6. CASE UNCHANGED exVars
  <2>1. UNCHANGED <<extState, extEvent, extSeen, lfTables, lfResult>>
    BY <1>6 DEF exVars
  <2> QED
    BY <2>1, ShownUnchanged, SeenUnchanged, LifecycleUnchanged DEF ExtensionInv, EventInv
<1> QED
  BY <1>1, <1>2, <1>3, <1>4, <1>5, <1>6 DEF ExtensionNext

--------------------------------------------------------------------------------
ExtensionsInv == HostInv /\ ExtensionInv

\* Each part keeps its own invariant; a step of the other leaves it alone.
LEMMA ExtensionsInvariance == ExtensionsSpec => []ExtensionsInv
<1>1. HostInit /\ ExtensionInit => ExtensionsInv
  BY HostInvInit, ExtensionInvInit DEF ExtensionsInv
<1>2. ExtensionsInv /\ [ExtensionsNext]_<<xVars, exVars>> => ExtensionsInv'
  <2> SUFFICES ASSUME ExtensionsInv, [ExtensionsNext]_<<xVars, exVars>>
               PROVE  ExtensionsInv'
    OBVIOUS
  <2>1. [HostNext]_xVars /\ [ExtensionNext]_exVars
    BY DEF ExtensionsNext
  <2> QED
    BY <2>1, HostInvNext, ExtensionInvNext DEF ExtensionsInv
<1> QED
  BY <1>1, <1>2, PTL DEF ExtensionsSpec

\* However the terminal's dispatches and an assistant run's interleave, and whatever their callbacks
\* register and stop meanwhile (extension/manager_dispatch.go, host_timers.go): no interval is lost
\* and no stopped timer runs on, only a terminal event's own callbacks write to it, and handlers run
\* by priority; what callbacks change of buffers and windows is what the next event shows, and what
\* lifecycle handlers return is merged in their order (terminal/extensions.go, lifecycle results).
THEOREM ExtensionsAreSound == ExtensionsSpec => []ExtensionsSound
<1>1. HostInv => IntervalsKept /\ StoppedStaysStopped /\ OnlyItsCallbacksWrite /\ RunsByPriority
  BY DEF HostInv, TablesHold, LocksHold, RanHolds
<1>2. ExtensionInv => BuffersAsSeen /\ WindowsAsSeen /\ LifecycleMerged
  BY DEF ExtensionInv
<1>3. ExtensionsInv => ExtensionsSound
  BY <1>1, <1>2 DEF ExtensionsInv, ExtensionsSound
<1> QED
  BY <1>3, ExtensionsInvariance, PTL
================================================================================
