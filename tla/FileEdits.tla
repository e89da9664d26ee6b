------------------------------- MODULE FileEdits -------------------------------
(***************************************************************************)
(* The edit tool (internal/tool/edit.go, edit_diff.go): every old text of a      *)
(* call is looked up in the file, exactly or after a normalisation that forgives  *)
(* trailing space and typographic runes, and all replacements are made at once.   *)
(* A text is a sequence of characters: Space, Feed (\n), Return (\r), Curly (any    *)
(* rune the normalisation maps to Straight) and ordinary ones.                *)
(***************************************************************************)
EXTENDS Naturals, FiniteSets, Sequences, SequencesExt

CONSTANTS Characters, \* the characters files and arguments are made of
          MaxText,    \* length of the file
          MaxOld,     \* length of an old text
          NewTexts    \* the replacement texts

VARIABLES feFile, feEdits, feResult

feVars == <<feFile, feEdits, feResult>>

Space == "s"
Feed == "n"
Return == "r"
Curly == "q"
Straight == "p"

Refused == [ok |-> FALSE, text |-> <<>>, fuzzy |-> FALSE]
OldTexts == UNION {[1..n -> Characters] : n \in 1..MaxOld}
Replacements == [old : OldTexts, new : NewTexts]

EditInit == feFile = <<>> /\ feEdits = <<>> /\ feResult = Refused

Chosen(text, positions) ==
    FoldLeft(LAMBDA kept, i : IF i \in positions THEN Append(kept, text[i]) ELSE kept,
             <<>>, [i \in DOMAIN text |-> i])

--------------------------------------------------------------------------------
(* Line endings. *)

AfterReturn(text, i) == i > 1 /\ text[i - 1] = Return

\* The first line feed decides for the whole file.
detectLineEnding(text) ==
    LET feeds == {i \in DOMAIN text : text[i] = Feed}
    IN  IF feeds # {} /\ AfterReturn(text, Min(feeds)) THEN <<Return, Feed>> ELSE <<Feed>>

normalizeToLF(text) ==
    LET kept == Chosen(text, {i \in DOMAIN text : ~(text[i] = Feed /\ AfterReturn(text, i))})
    IN  [i \in DOMAIN kept |-> IF kept[i] = Return THEN Feed ELSE kept[i]]

\* Mutation: the file keeps the line feeds the edit worked with.
leavesFeeds(text, ending) == text

restoreLineEndings(text, ending) ==
    FlattenSeq([i \in DOMAIN text |-> IF text[i] = Feed THEN ending ELSE <<text[i]>>])

--------------------------------------------------------------------------------
(* Matching. *)

\* Space at the end of a line goes, typographic runes become plain ones.
normalizeForFuzzyMatch(text) ==
    LET Trailing(i) ==
            /\ text[i] = Space
            /\ LET later == {j \in i..Len(text) : text[j] # Space} IN later = {} \/ text[Min(later)] = Feed
        kept == Chosen(text, {i \in DOMAIN text : ~Trailing(i)})
    IN  [i \in DOMAIN kept |-> IF kept[i] = Curly THEN Straight ELSE kept[i]]

Matches(text, old) ==
    {i \in 1..(Len(text) + 1 - Len(old)) : SubSeq(text, i, i + Len(old) - 1) = old}

\* strings.Count: occurrences that do not overlap, from the left.
countIn(text, old) ==
    LET at == Matches(text, old)
        Count(a, i) == IF i >= a.free /\ i \in at THEN [free |-> i + Len(old), count |-> a.count + 1] ELSE a
    IN  FoldLeft(Count, [free |-> 1, count |-> 0], [i \in 1..Len(text) |-> i]).count

\* Nothing is left of a blank text, and nothing counts no times.
countOccurrences(text, old) ==
    LET fuzzy == normalizeForFuzzyMatch(old)
    IN  IF fuzzy = <<>> THEN 0 ELSE countIn(normalizeForFuzzyMatch(text), fuzzy)

fuzzyFindText(text, old) ==
    LET exact == Matches(text, old)
        fuzzyOld == normalizeForFuzzyMatch(old)
        fuzzy == Matches(normalizeForFuzzyMatch(text), fuzzyOld)
    IN  CASE exact # {} -> [found |-> TRUE, fuzzy |-> FALSE, index |-> Min(exact), length |-> Len(old)]
          [] exact = {} /\ fuzzy # {} ->
                [found |-> TRUE, fuzzy |-> TRUE, index |-> Min(fuzzy), length |-> Len(fuzzyOld)]
          [] OTHER -> [found |-> FALSE, fuzzy |-> FALSE, index |-> 0, length |-> 0]

normalizeEdits(edits) == [e \in DOMAIN edits |->
    [old |-> normalizeToLF(edits[e].old), new |-> normalizeToLF(edits[e].new)]]

usesFuzzyMatch(text, edits) == \E e \in DOMAIN edits : fuzzyFindText(text, edits[e].old).fuzzy

\* Once one old text needs the normalisation, the whole file goes through it.
baseContent(text, edits) == IF usesFuzzyMatch(text, edits) THEN normalizeForFuzzyMatch(text) ELSE text

\* Mutation: the first of several occurrences is taken.
matchesFirst(base, edits) == \A e \in DOMAIN edits : fuzzyFindText(base, edits[e].old).found

collectMatchedEdits(base, edits) ==
    \A e \in DOMAIN edits :
        fuzzyFindText(base, edits[e].old).found /\ countOccurrences(base, edits[e].old) <= 1

matchedEdits(base, edits) ==
    SortSeq([e \in DOMAIN edits |-> [new |-> edits[e].new] @@ fuzzyFindText(base, edits[e].old)],
            LAMBDA a, b : a.index < b.index)

rejectOverlappingEdits(matched) ==
    \A e \in 2..Len(matched) : matched[e - 1].index + matched[e - 1].length <= matched[e].index

replaceMatch(text, match) ==
    SubSeq(text, 1, match.index - 1) \o match.new \o SubSeq(text, match.index + match.length, Len(text))

\* Mutation: from the front, with places that the text before has moved.
appliesForward(base, matched) == FoldLeft(replaceMatch, base, matched)

\* From the back, so that the places of the earlier matches stay true.
applyMatchedEdits(base, matched) == FoldLeft(replaceMatch, base, Reverse(matched))

\* What the edits make of the normalised file, when all were found apart and change it.
editedContent(base, edits, matched, fuzzy) ==
    LET new == applyMatchedEdits(base, matched)
    IN  IF \/ ~collectMatchedEdits(base, edits)
           \/ ~rejectOverlappingEdits(matched)
           \/ new = base
        THEN Refused
        ELSE [ok |-> TRUE, text |-> new, fuzzy |-> fuzzy]

applyEditsToNormalizedContent(text, given) ==
    LET edits == normalizeEdits(given)
        base == baseContent(text, edits)
    IN  editedContent(base, edits, matchedEdits(base, edits), usesFuzzyMatch(text, edits))

editLocked(file, edits) ==
    LET applied == applyEditsToNormalizedContent(normalizeToLF(file), edits)
    IN  [applied EXCEPT !.text = restoreLineEndings(@, detectLineEnding(file))]

--------------------------------------------------------------------------------
(* Every file and every call. *)

GrowFile ==
    /\ feEdits = <<>> /\ Len(feFile) < MaxText
    /\ \E c \in Characters : feFile' = Append(feFile, c)
    /\ UNCHANGED <<feEdits, feResult>>

AddEdit ==
    /\ Len(feEdits) < 2 /\ Len(feFile) = MaxText
    /\ \E edit \in Replacements :
        /\ feEdits' = Append(feEdits, edit)
        /\ feResult' = editLocked(feFile, feEdits')
    /\ UNCHANGED feFile

EditNext == GrowFile \/ AddEdit

--------------------------------------------------------------------------------
(* Properties. *)

Uniform(text) ==
    LET feeds == {i \in DOMAIN text : text[i] = Feed}
        returns == {i \in DOMAIN text : text[i] = Return}
    IN  returns = {} \/ (returns = {i - 1 : i \in feeds} /\ 1 \notin feeds)

Blank(old) == normalizeForFuzzyMatch(normalizeToLF(old)) = <<>>

\* The edits of a call are matched against the file as it was and made at once
\* (guideline of Definition): the file is A X B Y C and the result A X' B Y' C,
\* whatever order the edits are listed in and whatever their lengths do to the
\* places that follow (applyMatchedEdits; in the line feeds of normalizeToLF).
EditsAtOnce ==
    (Len(feEdits) = 2 /\ feResult.ok /\ ~feResult.fuzzy) =>
        LET text == normalizeToLF(feFile)
            edits == normalizeEdits(feEdits)
        IN  \E e \in {1, 2} : LET x == edits[e] y == edits[3 - e] IN
              \E i \in Matches(text, x.old), j \in Matches(text, y.old) :
                /\ i + Len(x.old) <= j
                /\ normalizeToLF(feResult.text) =
                      SubSeq(text, 1, i - 1) \o x.new \o SubSeq(text, i + Len(x.old), j - 1)
                      \o y.new \o SubSeq(text, j + Len(y.old), Len(text))

\* A replacement that was found as given changes nothing around it: the file is
\* A X B and the result A Y B, where X and Y are the two texts in the file's own
\* line endings (editLocked restores them).
RestOfFileKept ==
    (Len(feEdits) = 1 /\ feResult.ok /\ ~feResult.fuzzy /\ Uniform(feFile)) =>
        \E a \in 0..Len(feFile) : \E b \in a..Len(feFile) :
            LET x == SubSeq(feFile, a + 1, b)
                rest == SubSeq(feFile, b + 1, Len(feFile))
                y == restoreLineEndings(normalizeToLF(feEdits[1].new), detectLineEnding(feFile))
            IN  /\ normalizeToLF(x) = normalizeToLF(feEdits[1].old)
                /\ feResult.text = SubSeq(feFile, 1, a) \o y \o rest

Ambiguous(text, old) == Cardinality(Matches(text, old)) > 1

SelfOverlapping(old) == \E k \in 1..(Len(old) - 1) : SubSeq(old, k + 1, Len(old)) = SubSeq(old, 1, Len(old) - k)

\* No edit is made at a place the caller could not have known: an old text that
\* is not blank and cannot overlap itself occurs once (countOccurrences).
NoGuessedPlace ==
    feResult.ok => \A e \in DOMAIN feEdits :
        LET old == normalizeToLF(feEdits[e].old)
        IN  (~Blank(old) /\ ~SelfOverlapping(old)) =>
                ~Ambiguous(normalizeToLF(feFile), old)

\* What is replaced is in the file, once: "Every edits[].oldText must match a
\* unique, non-overlapping region of the original file" (editDescription), at
\* least up to trailing space and typographic runes.
\* It does not hold: README.md, section 7.
UniqueRegion ==
    feResult.ok => \A e \in DOMAIN feEdits :
        LET text == normalizeToLF(feFile)
            old == normalizeToLF(feEdits[e].old)
        IN  \/ Cardinality(Matches(text, old)) = 1
            \/ /\ normalizeForFuzzyMatch(old) # <<>>
               /\ Cardinality(Matches(normalizeForFuzzyMatch(text), normalizeForFuzzyMatch(old))) = 1
================================================================================
