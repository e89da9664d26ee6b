------------------------------ MODULE MCServices -------------------------------
(***************************************************************************)
(* The components that share no state with the runtimes.  A behaviour is a  *)
(* behaviour of one of them, each on an instance of its own.                *)
(***************************************************************************)
EXTENDS AgentEvents, ToolWaits, Completions, Transactions, SessionTree,
        PartialProgress, ProviderRounds, CompactionPlans, Credentials, ModelCatalog,
        FileEdits, ToolOutput, FileSearch,
        ExtensionHost, TextInput, WorkflowScripts

OwnerOfWork == [w \in Work |-> IF w = "k4" THEN "s2" ELSE "s1"]

Said == {[role |-> "user", tokens |-> 150], [role |-> "user", tokens |-> 300],
         [role |-> "assistant", tokens |-> 50]}
ShortHistories == UNION {[1..n -> Said] : n \in 1..4}

OneReplacement == {<<"n", "x">>}

\* Callers and commands that have started, of the five there are.
JobsUsed == Cardinality({j \in Jobs : authWork[j].step # "idle"})

VARIABLE part

\* What is durable or awaited.
storesVars == <<evVars, twVars, cdVars, txVars, stVars, wVars>>

StoresParts == {"events", "waits", "completions", "transactions", "tree", "watch"}

StoresInit == EventInit /\ WaitInit /\ CompletionInit /\ TxInit /\ TreeInit /\ WatchInit

StoresNext ==
    \/ part = "events" /\ EventNext /\ UNCHANGED <<twVars, cdVars, txVars, stVars, wVars>>
    \/ part = "waits" /\ WaitNext /\ UNCHANGED <<evVars, cdVars, txVars, stVars, wVars>>
    \/ part = "completions" /\ CompletionNext /\ UNCHANGED <<evVars, twVars, txVars, stVars, wVars>>
    \/ part = "transactions" /\ TxNext /\ Cardinality(txCtx') <= 1
       /\ UNCHANGED <<evVars, twVars, cdVars, stVars, wVars>>
    \/ part = "tree" /\ TreeNext /\ UNCHANGED <<evVars, twVars, cdVars, txVars, wVars>>
    \/ part = "watch" /\ WatchNext /\ UNCHANGED <<evVars, twVars, cdVars, txVars, stVars>>

\* A turn with the model, its history, its credentials and the catalog of models.
loopVars == <<ppVars, prVars, cpVars, srVars, auVars, mcVars>>

LoopParts == {"progress", "plans", "reduction", "rounds", "credentials", "catalog"}

LoopInit == ProgressInit /\ RoundsInit /\ PlanInit /\ ReductionInit /\ CredentialsInit /\ CatalogInit

LoopNext ==
    \/ part = "progress" /\ ProgressNext /\ UNCHANGED <<prVars, cpVars, srVars, auVars, mcVars>>
    \/ part = "rounds" /\ RoundsNext /\ UNCHANGED <<ppVars, cpVars, srVars, auVars, mcVars>>
    \/ part = "plans" /\ PlanNext /\ UNCHANGED <<ppVars, prVars, srVars, auVars, mcVars>>
    \/ part = "reduction" /\ ReductionNext /\ UNCHANGED <<ppVars, prVars, cpVars, auVars, mcVars>>
    \/ part = "credentials" /\ CredentialsNext /\ JobsUsed' <= 3 /\ Cardinality(authExpired') <= 1
       /\ UNCHANGED <<ppVars, prVars, cpVars, srVars, mcVars>>
    \/ part = "catalog" /\ CatalogNext /\ UNCHANGED <<ppVars, prVars, cpVars, srVars, auVars>>

\* The tools that work on files.
filesVars == <<feVars, toVars, fsVars>>

FilesParts == {"edits", "bash", "read", "grep", "find", "ignore"}

FilesInit == EditInit /\ OutputInit /\ SearchInit

FilesNext ==
    \/ part = "edits" /\ EditNext /\ UNCHANGED <<toVars, fsVars>>
    \/ part = "bash" /\ BashNext /\ UNCHANGED <<feVars, fsVars>>
    \/ part = "read" /\ ReadNext /\ UNCHANGED <<feVars, fsVars>>
    \/ part = "grep" /\ GrepNext /\ UNCHANGED <<feVars, toVars>>
    \/ part = "find" /\ FindNext /\ UNCHANGED <<feVars, toVars>>
    \/ part = "ignore" /\ IgnoreNext /\ UNCHANGED <<feVars, toVars>>

\* What users program and type.
userVars == <<xVars, exVars, tiVars, wsVars, spVars>>

UserParts == {"host", "extensions", "scripts", "announce", "text", "list"}

UserInit == HostInit /\ ExtensionInit /\ TextInit /\ ScriptInit /\ AnnounceInit

UserNext ==
    \/ part = "host" /\ HostNext /\ UNCHANGED <<exVars, tiVars, wsVars, spVars>>
    \/ part = "extensions" /\ ExtensionNext /\ UNCHANGED <<xVars, tiVars, wsVars, spVars>>
    \/ part = "text" /\ TextNext /\ UNCHANGED <<xVars, exVars, wsVars, spVars>>
    \/ part = "list" /\ ListNext /\ UNCHANGED <<xVars, exVars, wsVars, spVars>>
    \/ part = "scripts" /\ ScriptNext /\ UNCHANGED <<xVars, exVars, tiVars, spVars>>
    \/ part = "announce" /\ AnnounceNext /\ UNCHANGED <<xVars, exVars, tiVars, wsVars>>

PartsInit ==
    /\ part \in StoresParts \cup LoopParts \cup FilesParts \cup UserParts
    /\ StoresInit
    /\ LoopInit
    /\ FilesInit
    /\ UserInit

PartsNext ==
    \/ StoresNext /\ UNCHANGED <<part, loopVars, filesVars, userVars>>
    \/ LoopNext /\ UNCHANGED <<part, storesVars, filesVars, userVars>>
    \/ FilesNext /\ UNCHANGED <<part, storesVars, loopVars, userVars>>
    \/ UserNext /\ UNCHANGED <<part, storesVars, loopVars, filesVars>>

(***************************************************************************)
(* The properties of a component are evaluated in the behaviours of its part: *)
(* the other parts leave its variables as they are in its initial state.      *)
(***************************************************************************)

\* Events of an agent task reach the log and every watcher of it in order and without a gap,
\* also through a failed flush, a full buffer and a shutdown; a watch that stops says so.
EventsDelivered ==
    /\ part = "events" => DraftsInOrder /\ CloseLosesNothing /\ EndReachesAwait
    /\ part = "watch" => ForwardsTheLog /\ StopIsAnnounced

\* Every tool call of a turn is answered and stored once, only whole calls of a whole stream
\* run (but for the exceptions WholeCallsRun and NothingFromBrokenStream name), what was
\* shown is stored, the history only grows and no retry runs a tool twice.
TurnSound ==
    /\ [](/\ part = "progress" => ToolsAnswered /\ NothingStoredTwice
          /\ part = "rounds" => CallsAnswered /\ RolesAlternate /\ WholeCallsRun
                              /\ NothingFromBrokenStream /\ ShownIsStored)
    /\ HistoryOnlyGrows
    /\ NoRetryAfterTools

\* A compaction summarizes or keeps every entry and counts what will be replayed, and a
\* reduction in rounds tells the same text in order under the checkpoint's contract.
SummariesTellAll ==
    /\ part = "plans" => TailKept /\ SummaryPlusTail /\ CountsWhatIsReplayed /\ ActiveWorkRemembered
    /\ part = "reduction" => ToldInOrder /\ ReductionIsOneRound /\ CheckpointContract

\* The credentials file is whole at every moment and never loses another writer's provider,
\* and the cached catalog says unmodified only of what it holds.
StoredSound ==
    /\ part = "credentials" => FileIsWhole /\ OtherProvidersKept /\ RefreshedIsSaved
    /\ part = "catalog" => UnmodifiedIsCurrent /\ MergedModels

\* A script launches each call once and in order, also when it is replayed, returns only what
\* is settled, and its events are judged and published as its watchers see them.
ScriptsSound ==
    /\ part = "scripts" => OneChildPerCall /\ LaunchesInOrder /\ LaunchedAreSettled
    /\ part = "announce" => WatchersCanFollow /\ JudgedAsSeen

\* Edits apply together to the places they name and leave the rest of the file alone, and
\* cut output, pages, matches and found files say exactly what they left out.
FilesSound ==
    /\ part = "edits" => EditsAtOnce /\ RestOfFileKept /\ NoGuessedPlace
    /\ part = "bash" => BufferIsTail /\ TailShown
    /\ part = "read" => PagesWholeFile
    /\ part = "grep" => GrepComplete
    /\ part = "find" => FindBounded
    /\ part = "ignore" => IgnoreFresh
================================================================================
