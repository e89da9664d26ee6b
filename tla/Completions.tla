------------------------------ MODULE Completions ------------------------------
(***************************************************************************)
(* Completion deliveries (internal/database/completion_repository.go): the     *)
(* terminal event of durable work becomes a row for its session, and readers    *)
(* turn a prefix of the pending rows into one entry of the session.            *)
(***************************************************************************)
EXTENDS Integers, FiniteSets, SequencesExt

CONSTANTS Work,         \* tasks that end
          OwnerOf,      \* the session a task belongs to
          ChildWork,    \* agent tasks of a workflow run
          Readers,      \* callers of Pending and Consume
          SessionRows, GlobalRows,  \* completionSessionRows, completionGlobalRows
          DrainLimit,   \* completionDrainDefault
          RepairPage    \* completionPageDefault

ASSUME CompletionAssumption ==
    SessionRows \in Nat /\ GlobalRows \in Nat /\ DrainLimit \in Nat \ {0} /\ RepairPage \in Nat \ {0}

VARIABLES
    cdEnded,     \* the terminal rows by finished_at
    cdMatching,  \* tasks whose last event says what their row says
    cdNext,      \* session_completion_sequences
    cdRows,      \* session_completion_deliveries: a set of records
    cdEntries,   \* entries appended by Consume, by session
    cdIds,       \* what a reader was given by Pending
    cdGot        \* what the entry returned to a reader holds

cdVars == <<cdEnded, cdMatching, cdNext, cdRows, cdEntries, cdIds, cdGot>>

Sessions == {OwnerOf[t] : t \in Work}
NotRead == <<>>

CompletionInit ==
    /\ cdEnded = <<>> /\ cdMatching = {} /\ cdRows = {}
    /\ cdNext = [s \in Sessions |-> 1] /\ cdEntries = [s \in Sessions |-> <<>>]
    /\ cdIds = [r \in Readers |-> NotRead] /\ cdGot = [r \in Readers |-> NotRead]

PendingOf(rows, s) == {d \in rows : d.owner = s /\ d.state = "pending"}

\* Mutation: a delivery that was made before does not count.
eligibleAgain(store, t) == t \in store.matching /\ t \notin ChildWork

\* The event says how the row ended, the task is not a workflow child and has no delivery.
completionEligible(store, t) ==
    t \in store.matching /\ t \notin ChildWork /\ ~\E d \in store.rows : d.task = t

\* Mutation: the row that reaches the limit is still taken.
withinQuotaLoosely(store, s) == Cardinality(PendingOf(store.rows, s)) <= SessionRows

\* Rows stand for bytes too: an envelope has a bounded size.
completionWithinQuota(store, s) ==
    /\ Cardinality(PendingOf(store.rows, s)) + 1 <= SessionRows
    /\ Cardinality({d \in store.rows : d.state = "pending"}) + 1 <= GlobalRows

\* Mutation: the sequence is the place among the pending rows.
countsPending(store, t) ==
    [store EXCEPT !.rows = @ \cup {[task |-> t, owner |-> OwnerOf[t], state |-> "pending",
                                    seq |-> Cardinality(PendingOf(@, OwnerOf[t])) + 1]}]

\* The session's sequence advances and a pending row is inserted.
insertCompletion(store, t) ==
    [store EXCEPT !.next[OwnerOf[t]] = @ + 1,
                  !.rows = @ \cup {[task |-> t, owner |-> OwnerOf[t], state |-> "pending",
                                    seq |-> store.next[OwnerOf[t]]]}]

projectTerminalSource(store, t) ==
    IF completionEligible(store, t) /\ completionWithinQuota(store, OwnerOf[t])
    THEN insertCompletion(store, t) ELSE store

Store == [rows |-> cdRows, next |-> cdNext, matching |-> cdMatching]

SetStore(store) == cdRows' = store.rows /\ cdNext' = store.next

\* TaskRepository.Finish: the row, its event and the delivery in one transaction.  The event
\* of a cascade need not be the one that names the state.
finishWork(t, matches) ==
    /\ t \notin Range(cdEnded)
    /\ cdEnded' = Append(cdEnded, t)
    /\ cdMatching' = IF matches THEN cdMatching \cup {t} ELSE cdMatching
    /\ SetStore(projectTerminalSource([Store EXCEPT !.matching = cdMatching'], t))
    /\ UNCHANGED <<cdEntries, cdIds, cdGot>>

\* Transition and RecoverExpired end a row with its event and project nothing.
endUnprojected(t) ==
    /\ t \notin Range(cdEnded)
    /\ cdEnded' = Append(cdEnded, t) /\ cdMatching' = cdMatching \cup {t}
    /\ UNCHANGED <<cdNext, cdRows, cdEntries, cdIds, cdGot>>

\* Repair projects a page of the terminal rows that have no delivery, oldest first.
Repair ==
    LET Missing(t) == completionEligible(Store, t)
        all == SelectSeq(cdEnded, Missing)
        page == SubSeq(all, 1, IF Len(all) < RepairPage THEN Len(all) ELSE RepairPage)
    IN /\ page # <<>>
       /\ SetStore(FoldLeft(projectTerminalSource, Store, page))
       /\ UNCHANGED <<cdEnded, cdMatching, cdEntries, cdIds, cdGot>>

BySequence(rows) == SetToSortSeq(rows, LAMBDA a, b : a.seq < b.seq)

Prefix(s, limit) ==
    LET rows == BySequence(PendingOf(cdRows, s)) IN SubSeq(rows, 1, IF Len(rows) < limit THEN Len(rows) ELSE limit)

TasksOf(rows) == [i \in DOMAIN rows |-> rows[i].task]

\* The oldest pending deliveries of a session, at most limit.
Pending(r, s, limit) ==
    /\ Prefix(s, limit) # <<>>
    /\ cdIds' = [cdIds EXCEPT ![r] = TasksOf(Prefix(s, limit))]
    /\ cdGot' = [cdGot EXCEPT ![r] = NotRead]
    /\ UNCHANGED <<cdEnded, cdMatching, cdNext, cdRows, cdEntries>>

\* Mutation: the rows only have to be as many as the ids.
asManyRows(rows, ids) == Len(rows) = Len(ids)

completionRowsMatchIDs(rows, ids) == Len(rows) = Len(ids) /\ TasksOf(rows) = ids

settleCompletionRows(rows) ==
    (cdRows \ Range(rows)) \cup {[d EXCEPT !.state = "consumed"] : d \in Range(rows)}

\* Consume takes the ids only while they are the pending prefix: an entry under the latest
\* one of the session, its associations and the settled rows, or nothing.  ids may be older
\* than the pending rows.
Consume(r, s) ==
    LET rows == Prefix(s, Len(cdIds[r]))
    IN /\ cdIds[r] # NotRead /\ OwnerOf[cdIds[r][1]] = s
       /\ cdIds' = [cdIds EXCEPT ![r] = NotRead]
       /\ IF completionRowsMatchIDs(rows, cdIds[r])
          THEN /\ cdEntries' = [cdEntries EXCEPT ![s] = Append(@, rows)]
               /\ cdRows' = settleCompletionRows(rows)
               /\ cdGot' = [cdGot EXCEPT ![r] = <<cdIds[r], TasksOf(rows)>>]
          ELSE UNCHANGED <<cdEntries, cdRows, cdGot>>
       /\ UNCHANGED <<cdEnded, cdMatching, cdNext>>

CompletionNext ==
    \/ \E t \in Work : endUnprojected(t) \/ \E matches \in BOOLEAN : finishWork(t, matches)
    \/ Repair
    \/ \E r \in Readers, s \in Sessions : Consume(r, s) \/ \E n \in 1..DrainLimit : Pending(r, s, n)

--------------------------------------------------------------------------------
\* The entries of a session hold its deliveries each once and in sequence, without a gap,
\* whatever the readers saw when they asked, and no task is delivered twice.
DeliveredInSequence ==
    \A s \in Sessions :
        LET told == FlattenSeq(cdEntries[s])
        IN /\ \A i \in DOMAIN told : told[i].seq = i
           /\ \A a, b \in {d \in cdRows : d.owner = s} : a.task = b.task \/ a.seq = b.seq => a = b

\* A reader that gets an entry gets the deliveries it asked for.
ConsumedAsRead == \A r \in Readers : cdGot[r] # NotRead => cdGot[r][1] = cdGot[r][2]

\* The pending rows stay within the session's and the global limit.
PendingBounded ==
    /\ \A s \in Sessions : Cardinality(PendingOf(cdRows, s)) <= SessionRows
    /\ Cardinality({d \in cdRows : d.state = "pending"}) <= GlobalRows

\* Completions are delivered in sequence, consumed only as they were read and kept within
\* their quota, with readers, drains and repairs at work.
DeliveredOnce ==
    /\ DeliveredInSequence /\ ConsumedAsRead /\ PendingBounded
================================================================================
