----------------------------- MODULE ModelCatalog -----------------------------
(***************************************************************************)
(* The model registry (internal/model): each refresh reads the custom models,    *)
(* the discovered catalog through a disk cache of content and entity tag, and     *)
(* merges built-in, discovered and custom models.  The cache is two files that    *)
(* are written one after the other, and the process can die in between.            *)
(***************************************************************************)
EXTENDS Naturals, Sequences, SequencesExt

CONSTANTS MaxCatalog     \* bound: catalogs the source publishes, one after the other

ASSUME CatalogAssumption == MaxCatalog \in Nat

VARIABLES
    mcSource,   \* number of the catalog the source serves now, never reused
    mcContent,  \* the cache file: [of, whole, fresh]; of = 0 when there is none
    mcTag,      \* the tag file: the catalog it names, 0 when there is none
    mcConfig,   \* the custom configuration: "none", "broken", "override" or "model"
    mcRefresh,  \* the refresh: [pc, stale, sent, got, custom, todo]
    mcModels,   \* registry.models: a sequence of [id, from]
    mcErrors    \* [config, discovery]

mcVars == <<mcSource, mcContent, mcTag, mcConfig, mcRefresh, mcModels, mcErrors>>

NoFile == [of |-> 0, whole |-> TRUE, fresh |-> FALSE]
AtRest == [pc |-> "idle", stale |-> NoFile, sent |-> 0, got |-> 0, custom |-> "none", todo |-> <<>>]

CatalogInit ==
    /\ mcSource = 1 /\ mcContent = NoFile /\ mcTag = 0 /\ mcConfig = "none"
    /\ mcRefresh = AtRest /\ mcModels = <<>> /\ mcErrors = [config |-> FALSE, discovery |-> FALSE]

--------------------------------------------------------------------------------
(* The three catalogs and their merge. *)

\* Two built-in models; "override" of the configuration patches the first.
BuiltIns == <<"builtin-only", "everywhere">>
builtInModels(custom) ==
    [n \in DOMAIN BuiltIns |-> [id |-> BuiltIns[n], from |-> IF custom = "override" /\ n = 1 THEN "patched" ELSE "builtin"]]

\* A parsed catalog: models the mappings know, then the static ones.
discoveredModels(found) == IF found THEN <<[id |-> "everywhere", from |-> "discovered"],
                                           [id |-> "discovered-only", from |-> "discovered"]>> ELSE <<>>

customModels(custom) == IF custom = "model" THEN <<[id |-> "everywhere", from |-> "custom"]>> ELSE <<>>

\* Mutation: a model that is already known is listed again.
appendsModel(merged, model) == Append(merged, model)

\* A later catalog replaces the model of the same provider and id in its place.
mergeModel(merged, model) ==
    IF \E n \in DOMAIN merged : merged[n].id = model.id
    THEN [n \in DOMAIN merged |-> IF merged[n].id = model.id THEN model ELSE merged[n]]
    ELSE Append(merged, model)

mergeModelCatalogs(custom, found) ==
    FoldLeft(LAMBDA merged, model : mergeModel(merged, model), <<>>,
             builtInModels(custom) \o discoveredModels(found) \o customModels(custom))

--------------------------------------------------------------------------------
(* A refresh. *)

At(pc) == mcRefresh.pc = pc
Goes(rec) == mcRefresh' = rec
Files == <<mcContent, mcTag>>
Around == <<mcSource, mcConfig>>

\* The merged models replace the registry's under its lock, with the errors of both parts.
publishModels(custom, found, failed) ==
    /\ mcModels' = mergeModelCatalogs(custom, found)
    /\ mcErrors' = [config |-> custom = "broken", discovery |-> failed]
    /\ Goes(AtRest)

\* parse of a whole catalog succeeds, of a cut one fails.
parses(content) == content.of # 0 /\ content.whole

\* RefreshContext reads the configuration, then the cache: a fresh file is the answer,
\* even when it does not parse.
RefreshContext ==
    /\ At("idle")
    /\ \/ /\ mcContent.of # 0 /\ mcContent.fresh
          /\ publishModels(mcConfig, parses(mcContent), ~parses(mcContent))
       \/ /\ ~(mcContent.of # 0 /\ mcContent.fresh)
          /\ Goes([AtRest EXCEPT !.pc = "fetching", !.stale = mcContent, !.custom = mcConfig,
                                 !.sent = IF mcContent.of = 0 THEN 0 ELSE mcTag])
          /\ UNCHANGED <<mcModels, mcErrors>>
    /\ UNCHANGED <<Files, Around>>

\* Mutation: the tag is written while the catalog is still to come.
tagFirst == <<"tag", "content">>

\* The content is on disk before the tag that vouches for it.
storeOrder == <<"content", "tag">>

\* The source answers the conditional request: nothing new, a catalog with a tag or
\* without a usable one, or an error, which the stale file stands in for.
fetchDiscoveryCatalogConditional ==
    /\ At("fetching")
    /\ \/ /\ mcRefresh.sent = mcSource
          /\ Goes([mcRefresh EXCEPT !.pc = "unmodified"]) /\ UNCHANGED <<mcModels, mcErrors>>
       \/ /\ mcRefresh.sent # mcSource
          /\ \E tag \in {0, mcSource} :
                Goes([mcRefresh EXCEPT !.pc = "storing", !.todo = storeOrder, !.got = mcSource, !.sent = tag])
          /\ UNCHANGED <<mcModels, mcErrors>>
       \/ publishModels(mcRefresh.custom, parses(mcRefresh.stale), ~parses(mcRefresh.stale))
    /\ UNCHANGED <<Files, Around>>

\* A 304 makes the file fresh again, if it parses.
discoveredModelsFromNotModifiedCache ==
    /\ At("unmodified")
    /\ mcContent' = IF parses(mcRefresh.stale) THEN [mcContent EXCEPT !.fresh = TRUE] ELSE mcContent
    /\ publishModels(mcRefresh.custom, parses(mcRefresh.stale), ~parses(mcRefresh.stale))
    /\ UNCHANGED <<mcTag, Around>>

\* One of the two files is written; an error ends the refresh without a catalog.
writeDiscoveryCache ==
    /\ At("storing") /\ mcRefresh.todo # <<>>
    /\ \/ /\ Head(mcRefresh.todo) = "content"
          /\ mcContent' = [of |-> mcRefresh.got, whole |-> TRUE, fresh |-> TRUE] /\ UNCHANGED mcTag
          /\ Goes([mcRefresh EXCEPT !.todo = Tail(@)]) /\ UNCHANGED <<mcModels, mcErrors>>
       \/ /\ Head(mcRefresh.todo) = "tag"
          /\ mcTag' = mcRefresh.sent /\ UNCHANGED mcContent
          /\ Goes([mcRefresh EXCEPT !.todo = Tail(@)]) /\ UNCHANGED <<mcModels, mcErrors>>
       \/ publishModels(mcRefresh.custom, FALSE, TRUE) /\ UNCHANGED Files
    /\ UNCHANGED Around

\* Both files are there: the fetched content is parsed.
DiscoverModelsCached ==
    /\ At("storing") /\ mcRefresh.todo = <<>>
    /\ publishModels(mcRefresh.custom, TRUE, FALSE)
    /\ UNCHANGED <<Files, Around>>

\* The process dies, perhaps in the middle of writing the content; the next one starts
\* with an empty registry.
RegistryDies ==
    /\ ~At("idle") /\ Goes(AtRest) /\ mcModels' = <<>> /\ mcErrors' = [config |-> FALSE, discovery |-> FALSE]
    /\ \/ UNCHANGED mcContent
       \/ /\ mcRefresh.todo # <<>> /\ Head(mcRefresh.todo) = "content"
          /\ mcContent' = [of |-> mcRefresh.got, whole |-> FALSE, fresh |-> TRUE]
    /\ UNCHANGED <<mcTag, Around>>

\* The file outlives the cache's TTL, the source publishes, the user edits the configuration.
CacheAges ==
    /\ mcContent.fresh /\ mcContent' = [mcContent EXCEPT !.fresh = FALSE]
    /\ UNCHANGED <<mcTag, Around, mcRefresh, mcModels, mcErrors>>
SourcePublishes ==
    /\ mcSource < MaxCatalog /\ mcSource' = mcSource + 1
    /\ UNCHANGED <<Files, mcConfig, mcRefresh, mcModels, mcErrors>>
EditModels ==
    /\ At("idle") /\ \E config \in {"none", "broken", "override", "model"} \ {mcConfig} : mcConfig' = config
    /\ UNCHANGED <<Files, mcSource, mcRefresh, mcModels, mcErrors>>

CatalogNext ==
    \/ RefreshContext \/ fetchDiscoveryCatalogConditional \/ discoveredModelsFromNotModifiedCache
    \/ writeDiscoveryCache \/ DiscoverModelsCached \/ RegistryDies
    \/ CacheAges \/ SourcePublishes \/ EditModels

--------------------------------------------------------------------------------
\* When the source says that nothing is new, the file the registry then uses is that very
\* catalog, whatever was interrupted before: a tag never vouches for older content.
UnmodifiedIsCurrent ==
    mcRefresh.pc = "unmodified" => mcRefresh.stale.of = mcRefresh.sent /\ mcRefresh.stale.whole

\* Every model is listed once, as the last catalog that has it describes it.
MergedModels ==
    /\ \A m, n \in DOMAIN mcModels : mcModels[m].id = mcModels[n].id => m = n
    /\ \A n \in DOMAIN mcModels :
          mcModels[n].id = "everywhere" /\ (\E m \in DOMAIN mcModels : mcModels[m].id = "discovered-only")
              => mcModels[n].from # "builtin"
================================================================================
