------------------------------ MODULE FileSearch -------------------------------
(***************************************************************************)
(* The grep and find tools and the ignore rules of the read tool               *)
(* (internal/tool/grep.go, find.go, ls.go, ignore.go).  Grep reads its files one    *)
(* after the other; find is called back by the concurrent walkers of fastwalk;    *)
(* the parsed .gitignore files are cached with a signature of what they were.     *)
(***************************************************************************)
EXTENDS Naturals, FiniteSets, Sequences, SequencesExt

CONSTANTS MaxGrepFiles, MaxGrepLines, \* files and lines grep looks at
          MaxRows,                    \* maxTruncationLines
          Walkers, FindFiles,         \* find: walkers, and the files of the tree,
          FindMatches, FindLimit,     \* those that match, and the limit
          IgnoreReads, MaxVersion     \* concurrent reads, and edits of .gitignore

VARIABLES
    gsFiles,  \* for each file, whether each of its lines matches
    gsFound,  \* what grep returned
    fnLeft, fnAt, fnResults, fnStop, \* find: files to visit, walkers, results, how the walk ended
    igVersion, igCache, igRead       \* .gitignore, the cache entry, and the reads

gsVars == <<gsFiles, gsFound>>
fnVars == <<fnLeft, fnAt, fnResults, fnStop>>
igVars == <<igVersion, igCache, igRead>>
fsVars == <<gsVars, fnVars, igVars>>

NotSearched == [rows |-> <<>>, limited |-> FALSE, cut |-> FALSE, limit |-> 0]
NoEntry == [sig |-> 0, pat |-> 0]
NoRead == [step |-> "idle", began |-> 0, sig |-> 0, pat |-> 0]

SearchInit ==
    /\ gsFiles = <<<<>>>> /\ gsFound = NotSearched
    /\ fnLeft = FindFiles /\ fnAt = [w \in Walkers |-> "none"] /\ fnResults = {} /\ fnStop = "walking"
    /\ igVersion = 1 /\ igCache = NoEntry /\ igRead = [r \in IgnoreReads |-> NoRead]

--------------------------------------------------------------------------------
(* grep. *)

\* A match with its context: the rows around it, cut at the ends of the file.
formatGrepBlock(f, line, context) ==
    LET first == IF line > context THEN line - context ELSE 1
        last == IF line + context <= Len(gsFiles[f]) THEN line + context ELSE Len(gsFiles[f])
    IN  [i \in 1..(last - first + 1) |-> [file |-> f, line |-> first + i - 1, match |-> first + i - 1 = line]]

\* The first matches of a file, as many as the search may still report.
grepFile(f, context, remaining) ==
    FoldLeft(LAMBDA a, line :
                 IF a.count < remaining /\ gsFiles[f][line]
                 THEN [rows |-> a.rows \o formatGrepBlock(f, line, context), count |-> a.count + 1] ELSE a,
             [rows |-> <<>>, count |-> 0], [line \in DOMAIN gsFiles[f] |-> line])

\* Mutation: every file may report as many matches as the search.
remainingOfEach(limit, count) == limit

remainingLimit(limit, count) == limit - count

matchLimitReached(count, limit) == count >= limit

runGrepSearch(limit, context) ==
    FoldLeft(LAMBDA a, f :
                 IF matchLimitReached(a.count, limit) THEN a
                 ELSE LET file == grepFile(f, context, remainingLimit(limit, a.count))
                      IN  [rows |-> a.rows \o file.rows, count |-> a.count + file.count],
             [rows |-> <<>>, count |-> 0], [f \in DOMAIN gsFiles |-> f])

\* The rows that fit, and the notices.
formatGrepResults(limit, found) ==
    [rows |-> IF Len(found.rows) > MaxRows THEN SubSeq(found.rows, 1, MaxRows) ELSE found.rows,
     limited |-> matchLimitReached(found.count, limit), cut |-> Len(found.rows) > MaxRows, limit |-> limit]

GrowGrep ==
    /\ gsFound = NotSearched
    /\ \/ /\ Len(Last(gsFiles)) < MaxGrepLines
          /\ \E matches \in BOOLEAN : gsFiles' = [gsFiles EXCEPT ![Len(gsFiles)] = Append(@, matches)]
       \/ Len(gsFiles) < MaxGrepFiles /\ gsFiles' = Append(gsFiles, <<>>)
    /\ UNCHANGED <<gsFound, fnVars, igVars>>

Grep(limit, context) ==
    /\ gsFound = NotSearched
    /\ gsFound' = formatGrepResults(limit, runGrepSearch(limit, context))
    /\ UNCHANGED <<gsFiles, fnVars, igVars>>

GrepNext == GrowGrep \/ \E limit \in 1..3, context \in 0..1 : Grep(limit, context)

--------------------------------------------------------------------------------
(* find. *)

\* Mutation: what was checked before the lock was taken is believed.
addsUnchecked(w) == TRUE

\* The limit is checked again under the lock.
belowLimit(w) == Cardinality(fnResults) < FindLimit

\* The callback for one file; after SkipAll or an error no new one starts.
visit(w) ==
    /\ fnAt[w] = "none" /\ fnStop = "walking"
    /\ \E f \in fnLeft :
        /\ fnLeft' = fnLeft \ {f}
        /\ IF Cardinality(fnResults) >= FindLimit THEN fnStop' = "skipped" /\ UNCHANGED fnAt
           ELSE fnAt' = [fnAt EXCEPT ![w] = f] /\ UNCHANGED fnStop
    /\ UNCHANGED <<fnResults, gsVars, igVars>>

addMatch(w) ==
    /\ fnAt[w] # "none" /\ fnAt' = [fnAt EXCEPT ![w] = "none"]
    /\ CASE fnAt[w] \notin FindMatches -> UNCHANGED <<fnResults, fnStop>>
         [] fnAt[w] \in FindMatches /\ belowLimit(w) ->
                fnResults' = fnResults \cup {fnAt[w]} /\ UNCHANGED fnStop
         [] OTHER -> fnStop' = (IF fnStop = "walking" THEN "skipped" ELSE fnStop) /\ UNCHANGED fnResults
    /\ UNCHANGED <<fnLeft, gsVars, igVars>>

\* The context ends, or a directory cannot be read: the whole search fails.
walkFails ==
    /\ fnStop = "walking" /\ fnLeft # {}
    /\ fnStop' = "failed"
    /\ UNCHANGED <<fnLeft, fnAt, fnResults, gsVars, igVars>>

\* Walk returns when the walkers are through.
walkEnds ==
    /\ \A w \in Walkers : fnAt[w] = "none"
    /\ fnStop = "skipped" \/ (fnStop = "walking" /\ fnLeft = {})
    /\ fnStop' = "ended"
    /\ UNCHANGED <<fnLeft, fnAt, fnResults, gsVars, igVars>>

FindNext == (\E w \in Walkers : visit(w) \/ addMatch(w)) \/ walkFails \/ walkEnds

--------------------------------------------------------------------------------
(* The ignore rules. *)

\* Somebody edits .gitignore: its time or size changes.
editGitignore ==
    /\ igVersion < MaxVersion /\ igVersion' = igVersion + 1
    /\ UNCHANGED <<igCache, igRead, gsVars, fnVars>>

ToRead(r, step) == igRead' = [igRead EXCEPT ![r].step = step]

\* A cached entry whose signature is still true is used, any other is read again.
repositoryPatterns(r) ==
    /\ igRead[r].step = "idle"
    /\ igRead' = [igRead EXCEPT ![r] =
           IF igCache # NoEntry /\ igCache.sig = igVersion
           THEN [step |-> "used", began |-> igVersion, sig |-> 0, pat |-> igCache.pat]
           ELSE [NoRead EXCEPT !.step = "first", !.began = igVersion]]
    /\ UNCHANGED <<igVersion, igCache, gsVars, fnVars>>

\* Mutation: the files are parsed before their signature is taken.
parsesFirst(first, second) == [sig |-> second, pat |-> first]

\* The signature is older than the patterns, never younger.
readRepositoryIgnorePatterns(first, second) == [sig |-> first, pat |-> second]

\* Two passes over the tree; the signature of a walk that failed is never fresh.
readFirst(r) ==
    /\ igRead[r].step = "first"
    /\ igRead' = [igRead EXCEPT ![r].step = "second", ![r].sig = igVersion]
    /\ UNCHANGED <<igVersion, igCache, gsVars, fnVars>>

readSecond(r) ==
    /\ igRead[r].step = "second"
    /\ LET entry == readRepositoryIgnorePatterns(igRead[r].sig, igVersion)
       IN  /\ igRead' = [igRead EXCEPT ![r].step = "used", ![r].pat = entry.pat]
           /\ igCache' \in {entry, [entry EXCEPT !.sig = 0]}
    /\ UNCHANGED <<igVersion, gsVars, fnVars>>

readEnds(r) ==
    /\ igRead[r].step = "used"
    /\ igRead' = [igRead EXCEPT ![r] = NoRead]
    /\ UNCHANGED <<igVersion, igCache, gsVars, fnVars>>

IgnoreNext ==
    \/ editGitignore
    \/ \E r \in IgnoreReads : repositoryPatterns(r) \/ readFirst(r) \/ readSecond(r) \/ readEnds(r)

--------------------------------------------------------------------------------
(* Properties. *)

Shown == {[file |-> gsFound.rows[i].file, line |-> gsFound.rows[i].line] :
             i \in {j \in DOMAIN gsFound.rows : gsFound.rows[j].match}}

\* A search that gives no notice has shown every matching line, and no search
\* reports more matches than it was asked for, over all its files together
\* (runGrepSearch hands each file what is left of the limit).
GrepComplete ==
    gsFound # NotSearched =>
        /\ Cardinality(Shown) <= gsFound.limit
        /\ (~gsFound.limited /\ ~gsFound.cut) =>
               \A f \in DOMAIN gsFiles : \A line \in DOMAIN gsFiles[f] :
                   gsFiles[f][line] => [file |-> f, line |-> line] \in Shown

\* The limit of find holds although several walkers report at once, and a walk
\* that ended below it has every file that matches (findWalkState.addMatch checks
\* again under the lock).
FindBounded ==
    /\ Cardinality(fnResults) <= FindLimit
    /\ (fnStop = "ended" /\ Cardinality(fnResults) < FindLimit) => fnResults = FindMatches

\* A read follows the ignore rules as they were when it began, or newer ones: the
\* cache never answers with rules from before an edit, also when the edit fell
\* between the two passes of another read (readRepositoryIgnorePatterns).
IgnoreFresh ==
    \A r \in IgnoreReads : igRead[r].step = "used" => igRead[r].pat >= igRead[r].began
================================================================================
