------------------------------ MODULE TextInput ------------------------------
(***************************************************************************)
(* The text area and the selection lists of the terminal (internal/tui):         *)
(* editing around a rune cursor, wrapping to the width of the box, the window     *)
(* of rows around the cursor, and the window of items around the selection.       *)
(***************************************************************************)
EXTENDS Naturals, Integers, Sequences, SequencesExt, FiniteSetsExt

CONSTANTS Typeable,          \* runes that are typed
          MaxTyping,     \* bound: runes of the text
          Columns,       \* inner width of the box, in cells
          Rows,          \* maxRows of the box
          ListItems,     \* bound: items that match a query
          ListHeights    \* heights a list is drawn with

ASSUME TextAssumption ==
    /\ MaxTyping \in Nat /\ Columns \in Nat \ {0} /\ Rows \in Nat \ {0}
    /\ ListItems \in Nat /\ ListHeights \subseteq Nat \ {0}

VARIABLES
    tiText,      \* the runes
    tiCursor,    \* runes before the cursor
    tiMatches,   \* items the list's query leaves
    tiSelected,  \* selected, counted from 0
    tiHeight     \* height of the list's panel

tiArea == <<tiText, tiCursor>>
tiList == <<tiMatches, tiSelected, tiHeight>>
tiVars == <<tiArea, tiList>>

Newline == "n"
IsBlank(char) == char \in {" ", Newline}
Cells(char) == IF char = "w" THEN 2 ELSE 1

TextInit ==
    /\ tiText = <<>> /\ tiCursor = 0
    /\ tiMatches = ListItems /\ tiSelected = 0 /\ tiHeight \in ListHeights /\ \A h \in ListHeights : h <= tiHeight

--------------------------------------------------------------------------------
(* Editing. *)

Upto(n) == SubSeq(tiText, 1, n)
From(n) == SubSeq(tiText, n + 1, Len(tiText))

\* The cursor moves or text around it goes; SetRunes clamps, which no editing step needs.
SetRunes(value, cursor) == tiText' = value /\ tiCursor' = cursor /\ UNCHANGED tiList

\* The longest stretch of runes before, or behind, position n that all satisfy the test.
Back(n, Test(_)) == CHOOSE k \in 0..n : (\A i \in (k + 1)..n : Test(tiText[i])) /\ (k > 0 => ~Test(tiText[k]))
Ahead(n, Test(_)) ==
    CHOOSE k \in n..Len(tiText) : (\A i \in (n + 1)..k : Test(tiText[i])) /\ (k < Len(tiText) => ~Test(tiText[k + 1]))

CurrentLineStart == Back(tiCursor, LAMBDA char : char # Newline)
CurrentLineEnd == Ahead(tiCursor, LAMBDA char : char # Newline)
\* Blanks, then the word.
WordLeft == Back(Back(tiCursor, IsBlank), LAMBDA char : ~IsBlank(char))
WordRight == Ahead(Ahead(tiCursor, IsBlank), LAMBDA char : ~IsBlank(char))

InsertRuneAt(char) ==
    /\ Len(tiText) < MaxTyping
    /\ SetRunes(Append(Upto(tiCursor), char) \o From(tiCursor), tiCursor + 1)

MoveCursor ==
    \E place \in {WordLeft, WordRight, CurrentLineStart, CurrentLineEnd}
                 \cup ({tiCursor - 1, tiCursor + 1} \cap (0..Len(tiText))) :
        place # tiCursor /\ SetRunes(tiText, place)

\* Backspace, word and line variants remove what lies before the cursor.
DeleteBack(start) == start < tiCursor /\ SetRunes(Upto(start) \o From(tiCursor), start)

\* Mutation: the rune before the cursor goes along.
deletesAround(end) ==
    end > tiCursor /\ SetRunes(Upto(Max({tiCursor - 1, 0})) \o From(end), Max({tiCursor - 1, 0}))

\* Delete, word and line variants remove what lies behind it.
DeleteAhead(end) == end > tiCursor /\ SetRunes(Upto(tiCursor) \o From(end), tiCursor)

Delete ==
    \/ \E start \in {Max({tiCursor - 1, 0}), WordLeft, CurrentLineStart} : DeleteBack(start)
    \/ \E end \in {Min({tiCursor + 1, Len(tiText)}), WordRight, CurrentLineEnd} : DeleteAhead(end)

ClearText == tiText # <<>> /\ SetRunes(<<>>, 0)

--------------------------------------------------------------------------------
(* Rendering. *)

CellsOf(text) == FoldLeft(LAMBDA sum, char : sum + Cells(char), 0, text)

\* Mutation: the rune that no longer fits is still taken.
breaksLate(text, i, end) ==
    LET fitting == {k \in 1..(end - i) : CellsOf(SubSeq(text, i, i + k - 2)) <= Columns} IN Max(fitting)

\* Runes of one row that starts at i: as many as fit, back to the last blank when the
\* logical line goes on, and never none.
wrapBreakIndex(text, i, end) ==
    LET limit == Max({0} \cup {k \in 1..(end - i) : CellsOf(SubSeq(text, i, i + k - 1)) <= Columns})
        blanks == {k \in 2..limit : text[i + k - 1] = " "}
    IN IF limit = 0 THEN 1
       ELSE IF limit < end - i /\ blanks # {} THEN Max(blanks) ELSE limit

\* WrapPreserveWhitespace: the rows of a text, as pairs of positions.
wrapRows(text) ==
    LET logicalEnd(i) == Min({k \in i..(Len(text) + 1) : k = Len(text) + 1 \/ text[k] = Newline})
        rows[i \in 1..(Len(text) + 1)] ==
            LET end == logicalEnd(i)
                next == IF i = end THEN i ELSE i + wrapBreakIndex(text, i, end)
            IN <<[from |-> i, to |-> next]>> \o
               (IF next > Len(text) THEN <<>> ELSE rows[IF next = end THEN next + 1 ELSE next])
    IN rows[1]

\* TextAreaCursorPosition wraps the text before the cursor on its own.
CursorPosition ==
    LET rows == wrapRows(Upto(tiCursor))
        last == rows[Len(rows)]
    IN [row |-> Len(rows) - 1, column |-> CellsOf(SubSeq(tiText, last.from, last.to - 1))]

\* Mutation: the window starts one row late.
startsLate(count, row) == IF count <= Rows THEN 0 ELSE Min({Max({0, row - Rows}), count - Rows})

\* VisibleLines: rows skipped above the window.
skippedRows(count, row) == IF count <= Rows THEN 0 ELSE Min({Max({0, row - Rows + 1}), count - Rows})

--------------------------------------------------------------------------------
(* Lists. *)

Listed(matches, selected, height) ==
    tiMatches' = matches /\ tiSelected' = selected /\ tiHeight' = height /\ UNCHANGED tiArea

clampSelection(index, count) == IF count = 0 THEN 0 ELSE Min({Max({0, index}), count - 1})

\* A rune typed into or taken from the query leaves other matches.
ApplyFilter == \E matches \in 0..ListItems : Listed(matches, clampSelection(tiSelected, matches), tiHeight)

\* The selection wraps around.
MoveSelection == tiMatches > 0 /\ \E delta \in {-1, 1} :
    Listed(tiMatches, (tiSelected + delta + tiMatches) % tiMatches, tiHeight)

\* The terminal is resized.
ResizeList == \E height \in ListHeights \ {tiHeight} : Listed(tiMatches, tiSelected, height)

\* listChromeRows
maxListItems == Max({1, tiHeight - 8})

\* Mutation: the window follows the selection one item late.
windowLate == IF tiMatches <= maxListItems THEN 0
              ELSE Min({Max({0, tiSelected - maxListItems}), tiMatches - maxListItems + 1})

\* The window is centred on the selection and stays inside the list.
windowStart == IF tiMatches <= maxListItems THEN 0
               ELSE Min({Max({0, tiSelected - maxListItems \div 2}), tiMatches - maxListItems})

TextNext ==
    \/ \E char \in Typeable : InsertRuneAt(char)
    \/ MoveCursor \/ Delete \/ ClearText
ListNext == ApplyFilter \/ MoveSelection \/ ResizeList

--------------------------------------------------------------------------------
\* Wrapping to the box loses no rune and overfills no row, except with a rune wider than
\* the box: the rows follow each other, with a line feed or nothing between them.
WrapKeepsText ==
    \A rows \in {wrapRows(tiText)} :
        /\ \A n \in DOMAIN rows :
              /\ CellsOf(SubSeq(tiText, rows[n].from, rows[n].to - 1)) <= Columns \/ rows[n].to - rows[n].from = 1
              /\ n > 1 => \/ rows[n].from = rows[n - 1].to
                          \/ rows[n].from = rows[n - 1].to + 1 /\ tiText[rows[n - 1].to] = Newline
        /\ rows[1].from = 1 /\ rows[Len(rows)].to = Len(tiText) + 1

\* The cursor is drawn inside the box, however the text before it wraps on its own.
CursorInBox ==
    \A at \in {CursorPosition}, count \in {Len(wrapRows(tiText))} :
        /\ at.row - skippedRows(count, at.row) \in 0..(Min({count, Rows}) - 1)
        /\ at.column <= Max({Columns, 2})

\* The selected item is always among the drawn ones and the window never runs past the
\* end of the list, through any filtering, wrap-around and resize.
SelectionShown ==
    tiMatches > 0 => /\ tiSelected \in windowStart..(windowStart + maxListItems - 1)
                     /\ windowStart + Min({maxListItems, tiMatches}) <= tiMatches

\* A keystroke changes nothing on the other side of the cursor: what is behind it stays
\* when what is before it goes, and the other way round.
EditsAtCursor ==
    [][\/ UNCHANGED tiText \/ tiText' = <<>>
       \/ SubSeq(tiText', tiCursor' + 1, Len(tiText')) = From(tiCursor)
       \/ tiCursor' = tiCursor /\ SubSeq(tiText', 1, tiCursor) = Upto(tiCursor)
              /\ IsSuffix(SubSeq(tiText', tiCursor + 1, Len(tiText')), tiText)]_tiArea

\* The cursor is drawn on the cell the next rune goes to: the row and column of the
\* cursor are those of its position in the wrapped text.
\* It does not hold: README.md, section 7.
CursorWhereTyped ==
    LET rows == wrapRows(tiText)
        n == CursorPosition.row + 1
    IN tiCursor + 1 \in rows[n].from..rows[n].to

\* Wrapping keeps the text, the cursor stays in its box and the selection in its window, and
\* an edit changes the text at the cursor only.
InputSound ==
    /\ [](/\ WrapKeepsText /\ CursorInBox /\ SelectionShown)
    /\ EditsAtCursor
================================================================================
