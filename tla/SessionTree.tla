------------------------------ MODULE SessionTree ------------------------------
(***************************************************************************)
(* The entries of one session as a tree (internal/database/session_*.go):       *)
(* appends under any parent, conditional compactions, deleted branches, the      *)
(* model-facing context of a branch, and a reader that pages the transcript.     *)
(***************************************************************************)
EXTENDS Integers, FiniteSets, SequencesExt

CONSTANTS MaxEntries,   \* bound on the entries ever appended
          EntryKinds,   \* the kinds of entry an instance appends
          CompactionOps,\* operation ids of compactions
          PageSize      \* the limit of a page

ASSUME TreeAssumption == MaxEntries \in Nat /\ PageSize \in Nat \ {0}

VARIABLES
    stEntries,  \* session_entries: id -> record
    stNext,     \* the next id; ids grow (UUIDv7)
    stSessions, \* session rows: "owner", and "child" of one of its workflow runs
    stReturned, \* what the last call of an operation returned: an entry or 0
    stMark,     \* the ids below which the reader's first page was taken
    stPages     \* the entries the reader has, oldest first

stVars == <<stEntries, stNext, stSessions, stReturned, stMark, stPages>>

NoParent == 0
Ids == DOMAIN stEntries

TreeInit ==
    /\ stEntries = <<>> /\ stNext = 1 /\ stSessions = {"owner", "child"}
    /\ stReturned = [o \in CompactionOps |-> 0] /\ stMark = 0 /\ stPages = <<>>

--------------------------------------------------------------------------------
(* Queries. *)

\* ORDER BY created_at, id.
Before(a, b) == stEntries[a].at < stEntries[b].at \/ (stEntries[a].at = stEntries[b].at /\ a < b)

Ordered(ids) == SetToSortSeq(ids, Before)

\* The path from the root to an entry: branchChainSQL.
Branch(id) ==
    LET chain[n \in 0..MaxEntries] ==
            IF n = NoParent THEN <<>> ELSE Append(chain[stEntries[n].parent], n)
    IN chain[id]

Children(parent) == {n \in Ids : stEntries[n].parent = parent}

\* The entries of the tree from its roots down, children by creation.
Tree ==
    LET below[n \in 0..MaxEntries] ==
            IF n # NoParent /\ n \notin Ids THEN <<>>
            ELSE (IF n = NoParent THEN <<>> ELSE <<n>>)
                 \o FoldLeft(LAMBDA acc, c : acc \o below[c], <<>>, Ordered(Children(n)))
    IN below[NoParent]

--------------------------------------------------------------------------------
(* The context of a branch. *)

Messages == {"user", "assistant", "toolResult", "custom_message"}

\* entryParticipatesInModelContext
ModelFacing(kind) == kind \in {"user", "assistant", "custom_message", "branch_summary", "compaction"}

\* entryDisplaysInTranscript
Displayed(kind) == kind \notin {"model_change", "label", "session_info"}

EmptyContext == [messages |-> <<>>, anchor |-> 0, index |-> 0, model |-> 0]

\* An assistant message with usage becomes the anchor of the token count.
appendModelFacing(ctx, n) ==
    IF ~stEntries[n].facing THEN ctx
    ELSE LET longer == [ctx EXCEPT !.messages = Append(@, n)]
         IN IF stEntries[n].kind = "assistant" /\ stEntries[n].usage
            THEN [longer EXCEPT !.anchor = n, !.index = Len(longer.messages)] ELSE longer

applyEntryToContext(ctx, n) ==
    CASE stEntries[n].kind \in Messages -> appendModelFacing(ctx, n)
      [] stEntries[n].kind = "branch_summary" -> [ctx EXCEPT !.messages = Append(@, n)]
      [] stEntries[n].kind = "model_change" -> [ctx EXCEPT !.model = n]
      [] OTHER -> ctx

\* The retained entries before a compaction, without their usage.
retainedTail(branch, first, last) ==
    LET Kept(n) == stEntries[n].kind = "branch_summary" \/ (stEntries[n].kind \in Messages /\ stEntries[n].facing)
    IN SelectSeq(SubSeq(branch, first, last), Kept)

\* Mutation: the anchor survives the compaction.
keepsAnchor(ctx, branch, i) ==
    [ctx EXCEPT !.messages = <<branch[i]>> \o retainedTail(branch, i, i - 1)]

\* A compaction starts the context again: its summary, the tail it kept, and no anchor.
applyCompactionContext(ctx, branch, i) ==
    LET kept == {k \in 1..(i - 1) : branch[k] = stEntries[branch[i]].first}
        from == IF kept = {} THEN i ELSE CHOOSE k \in kept : TRUE
    IN [ctx EXCEPT !.messages = <<branch[i]>> \o retainedTail(branch, from, i - 1), !.anchor = 0, !.index = 0]

BuildContext(leaf) ==
    LET branch == Branch(leaf)
        Apply(ctx, i) == IF stEntries[branch[i]].kind = "compaction"
                         THEN applyCompactionContext(ctx, branch, i)
                         ELSE applyEntryToContext(ctx, branch[i])
    IN FoldLeft(Apply, EmptyContext, [i \in DOMAIN branch |-> i])

--------------------------------------------------------------------------------
(* Writes. *)

NewEntry(kind, parent, at, facing, usage, first, op) ==
    [kind |-> kind, parent |-> parent, at |-> at, facing |-> facing, usage |-> usage,
     display |-> Displayed(kind), first |-> first, op |-> op]

\* The foreign key of an entry: its session and its parent exist.
CanAppend(parent) == "owner" \in stSessions /\ stNext <= MaxEntries /\ parent \in Ids \cup {NoParent}

\* The entry, its message and the session's time in one transaction.
appendEntryTx(entry) == stEntries' = stEntries @@ (stNext :> entry) /\ stNext' = stNext + 1

\* A message keeps the time its caller gave it, which may be older than its neighbours', and
\* its caller may override whether the model sees it.
AppendMessage(kind, parent, at, facing, usage) ==
    /\ kind \in EntryKinds \cap Messages /\ CanAppend(parent)
    /\ appendEntryTx(NewEntry(kind, parent, at, facing, usage /\ kind = "assistant", 0, "none"))
    /\ UNCHANGED <<stSessions, stReturned, stMark, stPages>>

\* Model changes, labels, names, extension state and branch summaries.
AppendOther(kind, parent) ==
    /\ kind \in EntryKinds \ (Messages \cup {"compaction"}) /\ CanAppend(parent)
    /\ appendEntryTx(NewEntry(kind, parent, stNext, ModelFacing(kind), FALSE, 0, "none"))
    /\ UNCHANGED <<stSessions, stReturned, stMark, stPages>>

CompactionsOf(parent) == {n \in Ids : stEntries[n].kind = "compaction" /\ stEntries[n].parent = parent}

\* Mutation: only the operation's own retry is found.
conflictsByOperation(op, parent) == {n \in Ids : stEntries[n].op = op}

\* The unique indexes: one entry for an operation, one compaction for a parent.
insertConflicts(op, parent) == {n \in Ids : stEntries[n].op = op} \cup CompactionsOf(parent)

\* resolveCompactionConflict: the operation's own entry for the same parent, else an error.
resolveConflict(op, parent) ==
    LET own == {n \in Ids : stEntries[n].op = op /\ stEntries[n].parent = parent}
    IN IF own # {} THEN CHOOSE n \in own : TRUE ELSE 0

\* A compaction is written unless its operation or its parent has one.
AppendCompaction(op, parent, first) ==
    /\ "compaction" \in EntryKinds /\ CanAppend(parent)
    /\ first \in Range(Branch(parent)) \cup {NoParent}
    /\ IF insertConflicts(op, parent) = {}
       THEN /\ appendEntryTx(NewEntry("compaction", parent, stNext, TRUE, FALSE, first, op))
            /\ stReturned' = [stReturned EXCEPT ![op] = stNext]
       ELSE /\ stReturned' = [stReturned EXCEPT ![op] = resolveConflict(op, parent)]
            /\ UNCHANGED <<stEntries, stNext>>
    /\ UNCHANGED <<stSessions, stMark, stPages>>

\* Mutation: children lose their parent instead.
deletesOne(id) ==
    [n \in Ids \ {id} |-> IF stEntries[n].parent = id THEN [stEntries[n] EXCEPT !.parent = NoParent] ELSE stEntries[n]]

\* Mutation: the descendants stay behind.
deletesEntryOnly(id) == [n \in Ids \ {id} |-> stEntries[n]]

\* An entry goes with all its descendants.
deleteEntryBranchTx(id) == [n \in {m \in Ids : id \notin Range(Branch(m))} |-> stEntries[n]]

DeleteEntryBranch(id) ==
    /\ id \in Ids /\ stEntries' = deleteEntryBranchTx(id)
    /\ stReturned' = [o \in CompactionOps |-> IF stReturned[o] \in DOMAIN stEntries' THEN stReturned[o] ELSE 0]
    /\ stPages' = <<>> /\ stMark' = 0
    /\ UNCHANGED <<stNext, stSessions>>

\* deleteSessionRows: an owner takes its workflow children along; a child that a run retains
\* is refused.
deleteSessionRows(s) ==
    IF s = "owner" THEN {} ELSE stSessions

DeleteSession(s) ==
    /\ s \in stSessions /\ stSessions' = deleteSessionRows(s)
    /\ stEntries' = IF "owner" \in stSessions' THEN stEntries ELSE <<>>
    /\ stReturned' = IF "owner" \in stSessions' THEN stReturned ELSE [o \in CompactionOps |-> 0]
    /\ stPages' = <<>> /\ stMark' = 0 /\ UNCHANGED stNext

--------------------------------------------------------------------------------
(* A reader of the transcript. *)

Transcript == Ordered({n \in Ids : stEntries[n].display /\ stEntries[n].kind \in Messages})

LastPage(seq) == SubSeq(seq, IF Len(seq) > PageSize THEN Len(seq) - PageSize + 1 ELSE 1, Len(seq))

TranscriptMessageTail ==
    /\ Transcript # <<>> /\ stPages = <<>>
    /\ stPages' = LastPage(Transcript) /\ stMark' = stNext
    /\ UNCHANGED <<stEntries, stNext, stSessions, stReturned>>

\* Mutation: entries with the time of the cursor are passed over.
olderThan(n, cursor) == stEntries[n].at < stEntries[cursor].at

\* created_at and id before those of the cursor.
beforeCursor(n, cursor) == Before(n, cursor)

TranscriptMessagesBefore ==
    /\ stPages # <<>>
    /\ LET older == SelectSeq(Transcript, LAMBDA n : beforeCursor(n, stPages[1]))
       IN older # <<>> /\ stPages' = LastPage(older) \o stPages
    /\ UNCHANGED <<stEntries, stNext, stSessions, stReturned, stMark>>

TreeNext ==
    \/ \E kind \in EntryKinds, parent \in Ids \cup {NoParent} :
         \/ AppendOther(kind, parent)
         \/ \E at \in {n \in 1..stNext : n + 2 >= stNext}, facing, usage \in BOOLEAN :
              /\ facing = ModelFacing(kind) \/ kind = "toolResult"
              /\ AppendMessage(kind, parent, at, facing, usage)
    \/ \E op \in CompactionOps, parent, first \in Ids \cup {NoParent} : AppendCompaction(op, parent, first)
    \/ \E id \in Ids : DeleteEntryBranch(id)
    \/ \E s \in {"owner", "child"} : DeleteSession(s)
    \/ TranscriptMessageTail \/ TranscriptMessagesBefore

--------------------------------------------------------------------------------
\* The context of every entry is the summary of the last compaction before it, what that one
\* kept and what came after it; the usage anchor points at a message after it.
ContextFollowsCompaction ==
    \A leaf \in Ids :
        LET branch == Branch(leaf)
            ctx == BuildContext(leaf)
            cuts == {i \in DOMAIN branch : stEntries[branch[i]].kind = "compaction"}
            cut == IF cuts = {} THEN 0 ELSE CHOOSE i \in cuts : \A j \in cuts : j <= i
            Seen(n) == stEntries[n].kind = "branch_summary" \/ (stEntries[n].kind \in Messages /\ stEntries[n].facing)
            after == SelectSeq(SubSeq(branch, cut + 1, Len(branch)), Seen)
        IN /\ IsSuffix(after, ctx.messages)
           /\ cut > 0 => ctx.messages[1] = branch[cut]
           /\ IsInjective(ctx.messages)
           /\ ctx.anchor # 0 => ctx.messages[ctx.index] = ctx.anchor /\ \E i \in DOMAIN after : after[i] = ctx.anchor

\* One compaction under a parent and one for an operation; a caller is told the entry of its
\* own operation or none.
CompactedOnce ==
    /\ \A a, b \in Ids : stEntries[a].kind = "compaction" /\ stEntries[b].kind = "compaction" /\ a # b
                         => stEntries[a].parent # stEntries[b].parent /\ stEntries[a].op # stEntries[b].op
    /\ \A o \in CompactionOps : stReturned[o] # 0 => stEntries[stReturned[o]].op = o

\* Every entry is in the tree the panel shows, once.
TreeShowsAll == Range(Tree) = Ids /\ Len(Tree) = Cardinality(Ids)

\* The pages of a reader have no duplicate, and no gap among what was there at its first page.
PagesComplete ==
    stPages # <<>> =>
        /\ \A i \in 1..(Len(stPages) - 1) : Before(stPages[i], stPages[i + 1])
        /\ \A n \in Range(Transcript) : n < stMark /\ Before(stPages[1], n) => n \in Range(stPages)

\* An entry never moves to another parent, and the session of a workflow child goes only
\* with its owner.
TreeIsStable ==
    [][/\ \A n \in Ids \cap DOMAIN stEntries' : stEntries'[n].parent = stEntries[n].parent
       /\ "child" \in stSessions \ stSessions' => "owner" \in stSessions \ stSessions']_stVars

\* Appends, deletions and compactions leave a forest that the listing shows in full and pages
\* over without loss; the context follows the last compaction, made once; entries never move.
TreeSound ==
    /\ [](/\ TreeShowsAll /\ PagesComplete /\ ContextFollowsCompaction
          /\ CompactedOnce)
    /\ TreeIsStable
================================================================================
