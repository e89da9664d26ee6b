------------------------------ MODULE Transactions -----------------------------
(***************************************************************************)
(* Transactions over a pool of SQLite connections                              *)
(* (internal/database/transaction.go): a callback is tried again while the      *)
(* database is busy, a read-only one marks its connection, and the connection    *)
(* goes back to the pool, whatever COMMIT or ROLLBACK left open on it.           *)
(***************************************************************************)
EXTENDS Naturals, FiniteSets

CONSTANTS WriteCalls, ReadCalls,  \* callers of Transaction and of readOnlyTransaction
          Conns,                  \* connections the pool may open
          NoConn,
          MaxAttempts             \* sqliteTransactionAttempts

ASSUME TransactionAssumption ==
    MaxAttempts \in Nat \ {0} /\ NoConn \notin Conns /\ WriteCalls \cap ReadCalls = {}

VARIABLES
    txAt,       \* where a caller is
    txTry,      \* its attempt
    txConn,     \* its connection
    txCause,    \* the error of the attempt: "none", "busy", "other", "panic"
    txCleanup,  \* the error of its cleanup
    txValue,    \* the value the callback set: the attempt it came from, or 0
    txCtx,      \* callers whose context is canceled
    txIdle,     \* idle connections
    txMarked,   \* connections with query_only=ON
    txOpen,     \* the transaction open on a connection: {} or the {<<caller, attempt>>} that began it
    txApplied   \* committed writes: a set of <<caller, attempt>>

txVars == <<txAt, txTry, txConn, txCause, txCleanup, txValue, txCtx, txIdle, txMarked, txOpen, txApplied>>
txPool == <<txIdle, txMarked, txOpen>>

TxCalls == WriteCalls \cup ReadCalls

TxInit ==
    /\ txAt = [c \in TxCalls |-> "loop"] /\ txTry = [c \in TxCalls |-> 1] /\ txConn = [c \in TxCalls |-> NoConn]
    /\ txCause = [c \in TxCalls |-> "none"] /\ txCleanup = [c \in TxCalls |-> "none"]
    /\ txValue = [c \in TxCalls |-> 0] /\ txCtx = {} /\ txIdle = Conns /\ txMarked = {}
    /\ txOpen = [k \in Conns |-> {}] /\ txApplied = {}

Goto(c, at) == txAt' = [txAt EXCEPT ![c] = at]

\* The attempt ends and its transaction is to be rolled back.
Abort(c, cause) == Goto(c, "cleanup") /\ txCause' = [txCause EXCEPT ![c] = cause]

\* The attempt ends with a transaction that never began or that database/sql calls done:
\* Rollback is not called, or returns ErrTxDone without a word to the database.
Close(c, cause) == Goto(c, "closing") /\ txCause' = [txCause EXCEPT ![c] = cause]

\* The writes of an open transaction; whoever has one open has the write lock.
Writes(k) == {p \in txOpen[k] : p[1] \in WriteCalls}
WriteLocked == \E k \in Conns : Writes(k) # {}

\* The head of the loop and the wait between attempts look at the context.
executeLoop(c) ==
    /\ txAt[c] \in {"loop", "wait"}
    /\ \/ c \in txCtx /\ Goto(c, "error") /\ UNCHANGED txTry
       \/ c \notin txCtx /\ txAt[c] = "loop" /\ Goto(c, "acquire") /\ UNCHANGED txTry
       \/ txAt[c] = "wait" /\ Goto(c, "loop") /\ txTry' = [txTry EXCEPT ![c] = @ + 1]
    /\ UNCHANGED <<txConn, txCause, txCleanup, txValue, txCtx, txPool, txApplied>>

\* A connection of the pool; without one the attempt fails before anything is to clean.
acquireConn(c) ==
    /\ txAt[c] = "acquire"
    /\ \/ \E k \in txIdle :
            /\ txIdle' = txIdle \ {k} /\ txConn' = [txConn EXCEPT ![c] = k] /\ Goto(c, "begin")
            /\ UNCHANGED txCause
       \/ c \in txCtx /\ Goto(c, "decide") /\ txCause' = [txCause EXCEPT ![c] = "other"] /\ UNCHANGED <<txIdle, txConn>>
    /\ UNCHANGED <<txTry, txCleanup, txValue, txCtx, txMarked, txOpen, txApplied>>

\* BEGIN is refused on a connection that still has a transaction open; a write transaction
\* takes the lock at once or is busy; a read-only one marks its connection.
beginTx(c) ==
    LET k == txConn[c]
    IN /\ txAt[c] = "begin"
       /\ \/ /\ txOpen[k] = {} /\ (c \in WriteCalls => ~WriteLocked)
             /\ txOpen' = [txOpen EXCEPT ![k] = {<<c, txTry[c]>>}]
             /\ \/ /\ Goto(c, "body") /\ UNCHANGED txCause
                   /\ txMarked' = IF c \in ReadCalls THEN txMarked \cup {k} ELSE txMarked
                \/ c \in ReadCalls /\ (\E cause \in {"busy", "other"} : Abort(c, cause)) /\ UNCHANGED txMarked
          \/ /\ \E cause \in {"busy", "other"} :
                   (cause = "busy" /\ c \in WriteCalls => WriteLocked) /\ Close(c, cause)
             /\ UNCHANGED <<txMarked, txOpen>>
       /\ UNCHANGED <<txTry, txConn, txCleanup, txValue, txCtx, txIdle, txApplied>>

\* Mutation: the value of the first attempt that had one is kept.
keepsFirst(old, attempt) == IF old = 0 THEN attempt ELSE old

committedValue(old, attempt) == attempt

\* The callback sets the value, fails, or panics.  A connection marked read-only refuses writes.
runCallback(c) ==
    /\ txAt[c] = "body"
    /\ \/ /\ c \notin WriteCalls \/ txConn[c] \notin txMarked
          /\ txValue' = [txValue EXCEPT ![c] = committedValue(@, txTry[c])]
          /\ Goto(c, "commit") /\ UNCHANGED txCause
       \/ \E cause \in {"busy", "other", "panic"} : Abort(c, cause) /\ UNCHANGED txValue
    /\ UNCHANGED <<txTry, txConn, txCleanup, txCtx, txPool, txApplied>>

\* Commit looks at the context before it ends the transaction.  COMMIT applies what the
\* connection has open, or fails and applies nothing; what it leaves open stays open.
commitTx(c) ==
    LET k == txConn[c]
    IN /\ txAt[c] = "commit"
       /\ \/ c \in txCtx /\ Abort(c, "other") /\ UNCHANGED <<txOpen, txApplied>>
          \/ /\ c \notin txCtx /\ Close(c, "none")
             /\ txApplied' = txApplied \cup Writes(k) /\ txOpen' = [txOpen EXCEPT ![k] = {}]
          \/ /\ c \notin txCtx /\ \E cause \in {"busy", "other"} : Close(c, cause)
             /\ txOpen' \in {txOpen, [txOpen EXCEPT ![k] = {}]} /\ UNCHANGED txApplied
       /\ UNCHANGED <<txTry, txConn, txCleanup, txValue, txCtx, txIdle, txMarked>>

\* Mutation: a connection that stays marked goes back to the pool.
keepsConnection(k) == txMarked

\* The driver is told the connection is bad: the pool opens another in its place.
discardConnection(k) == txMarked \ {k}

\* What a rollback may leave open and the error it returns.  It may fail; when the context is
\* canceled, database/sql may have tried before it and dropped the error.
Rollbacks(c) ==
    LET open == txOpen[txConn[c]]
    IN IF txAt[c] = "closing" THEN {<<open, "none">>}
       ELSE {<<{}, "none">>} \cup {<<left, "other">> : left \in {{}, open}}
            \cup (IF c \in txCtx THEN {<<open, "none">>} ELSE {})

\* Rollback, then query_only=OFF under a context of its own, then the connection goes back to
\* the pool: only a failed query_only=OFF discards it, a failed rollback does not.
cleanupTransaction(c) ==
    LET k == txConn[c]
    IN /\ txAt[c] \in {"cleanup", "closing"}
       /\ \E rollback \in Rollbacks(c), restore \in (IF c \in ReadCalls THEN {"none", "busy", "other"} ELSE {"none"}) :
            /\ txMarked' = IF c \in WriteCalls THEN txMarked
                           ELSE IF restore = "none" THEN txMarked \ {k}
                           ELSE discardConnection(k)
            /\ txOpen' = [txOpen EXCEPT ![k] = IF restore = "none" THEN rollback[1] ELSE {}]
            /\ txCleanup' = [txCleanup EXCEPT ![c] = IF rollback[2] # "none" THEN rollback[2] ELSE restore]
       /\ txIdle' = txIdle \cup {k} /\ txConn' = [txConn EXCEPT ![c] = NoConn]
       /\ Goto(c, IF txCause[c] = "panic" THEN "panicked" ELSE "decide")
       /\ UNCHANGED <<txTry, txCause, txValue, txCtx, txApplied>>

\* joinTransactionErrors: one error is returned as it is, two become a transactionAttemptError.
JoinedBusy(c) ==
    \/ txCause[c] = "busy" /\ txCleanup[c] = "none"
    \/ txCause[c] = "none" /\ txCleanup[c] = "busy"

\* Success returns; only a busy attempt whose cleanup did not fail too is tried again.
decideAttempt(c) ==
    /\ txAt[c] = "decide"
    /\ Goto(c, CASE txCause[c] = "none" /\ txCleanup[c] = "none" -> "ok"
                 [] JoinedBusy(c) /\ txTry[c] < MaxAttempts -> "wait"
                 [] OTHER -> "error")
    /\ txCause' = [txCause EXCEPT ![c] = "none"] /\ txCleanup' = [txCleanup EXCEPT ![c] = "none"]
    /\ UNCHANGED <<txTry, txConn, txValue, txCtx, txPool, txApplied>>

cancelTxContext(c) ==
    /\ c \notin txCtx /\ txCtx' = txCtx \cup {c}
    /\ UNCHANGED <<txAt, txTry, txConn, txCause, txCleanup, txValue, txPool, txApplied>>

TxNext ==
    \E c \in TxCalls :
        \/ executeLoop(c) \/ acquireConn(c) \/ beginTx(c) \/ runCallback(c) \/ commitTx(c)
        \/ cleanupTransaction(c) \/ decideAttempt(c) \/ cancelTxContext(c)

--------------------------------------------------------------------------------
\* A write that returns a value has committed it, from that attempt and no other; one that
\* returns an error or panics has committed nothing.
ReturnedIsCommitted ==
    \A c \in WriteCalls :
        LET applied == {p \in txApplied : p[1] = c}
        IN /\ txAt[c] = "ok" => applied = {<<c, txValue[c]>>}
           /\ txAt[c] \in {"error", "panicked"} => applied = {}

\* A connection of the pool accepts writes.
NoPoisonedConnection == txIdle \cap txMarked = {}

\* A transaction that a connection of the pool still has open is of an attempt that failed: no
\* caller was told that it succeeded, and nothing of it was committed, by its own COMMIT or
\* by that of a later transaction on the connection.
LeftOpenFailed ==
    \A k \in txIdle : \A p \in txOpen[k] :
        p \notin txApplied /\ ~(txAt[p[1]] = "ok" /\ txTry[p[1]] = p[2])

\* What a write reports is what its last attempt committed, a connection of the pool takes
\* writes, and what a failed attempt left open on one is never committed afterwards.
CommitsHonest ==
    /\ ReturnedIsCommitted /\ NoPoisonedConnection /\ LeftOpenFailed

\* No connection of the pool has a transaction open.  It does not hold: only a failed
\* query_only=OFF discards a connection, a failed rollback or COMMIT does not (README.md,
\* section 7).
PoolClean == \A k \in txIdle : txOpen[k] = {}
================================================================================
