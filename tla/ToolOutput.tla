------------------------------ MODULE ToolOutput -------------------------------
(***************************************************************************)
(* What the bash and read tools show of large outputs (internal/tool/bash.go,      *)
(* read.go, truncate.go).  A command writes to one bounded buffer that keeps the   *)
(* last bytes; the end of it that fits the limits is shown.  A file is read in     *)
(* pages, and every page names the offset of the next.                         *)
(* The n-th byte a command writes is n, or -n when it is a line feed; a file is    *)
(* the sequence of its lines' lengths.                                         *)
(***************************************************************************)
EXTENDS Integers, FiniteSets, Sequences, SequencesExt

CONSTANTS MaxShown, MaxShownBytes, \* DefaultMaxLines and DefaultMaxBytes
          MaxWritten,         \* bytes a command writes
          MaxFile, MaxWidth   \* lines of a file, and their lengths

VARIABLES
    shWritten, \* everything the command wrote
    shBuffer,  \* synchronizedBuffer.buffer
    shCut,     \* synchronizedBuffer.truncated
    shResult,  \* what the tool returned
    rdFile,    \* the file: the length of each line
    rdOffset,  \* the offset of the next read; 0 when there is none
    rdSeen     \* the lines that were shown, in order

shVars == <<shWritten, shBuffer, shCut, shResult>>
rdVars == <<rdFile, rdOffset, rdSeen>>
toVars == <<shVars, rdVars>>

CommandRuns == [status |-> "running", text |-> <<>>, lines |-> 0, cut |-> FALSE]

OutputInit ==
    /\ shWritten = <<>> /\ shBuffer = <<>> /\ shCut = FALSE /\ shResult = CommandRuns
    /\ rdFile = <<>> /\ rdOffset = 0 /\ rdSeen = <<>>

Suffix(s, n) == SubSeq(s, Len(s) - n + 1, Len(s))

\* strings.Split(text, "\n"): the feeds are left out.
LinesOf(text) ==
    FoldLeft(LAMBDA lines, b : IF b < 0 THEN Append(lines, <<>>)
                               ELSE [lines EXCEPT ![Len(lines)] = Append(@, b)], <<<<>>>>, text)

--------------------------------------------------------------------------------
(* Truncation. *)

\* What a line costs: its bytes, and the feed that joins it to what is there.
lineBytes(width, taken) == width + (IF taken > 0 THEN 1 ELSE 0)

\* Lines are taken one after the other until a limit is met.
Take(widths) ==
    FoldLeft(LAMBDA a, width :
                 LET bytes == a.bytes + lineBytes(width, a.lines) IN
                 IF a.full \/ a.lines = MaxShown THEN [a EXCEPT !.full = TRUE]
                 ELSE IF bytes > MaxShownBytes THEN [a EXCEPT !.full = TRUE, !.by = "bytes"]
                 ELSE [a EXCEPT !.lines = @ + 1, !.bytes = bytes],
             [lines |-> 0, bytes |-> 0, full |-> FALSE, by |-> "lines"], widths)

collectHeadLines(widths) == Take(widths).lines
collectTailLines(widths) == Take(Reverse(widths))

\* Mutation: one line more is let through, and the bytes are not counted.
fitsLoosely(text) == Len(LinesOf(text)) <= MaxShown + 1

fitsLimits(text) == Len(LinesOf(text)) <= MaxShown /\ Len(text) <= MaxShownBytes

\* The last whole lines, or the end of the last line when not even that fits.
TruncateTail(text) ==
    LET widths == [l \in DOMAIN LinesOf(text) |-> Len(LinesOf(text)[l])]
        kept == collectTailLines(widths)
    IN  CASE fitsLimits(text) -> [text |-> text, lines |-> Len(widths), cut |-> FALSE]
          [] ~fitsLimits(text) /\ kept.lines > 0 -> [text |-> Suffix(text, kept.bytes), lines |-> kept.lines, cut |-> TRUE]
          [] OTHER -> [text |-> Suffix(text, MaxShownBytes), lines |-> 1, cut |-> TRUE]

--------------------------------------------------------------------------------
(* The bash tool. *)

\* Mutation: room is made for the new bytes, one too few.
keepsOneMore(data) ==
    IF Len(shBuffer) + Len(data) > MaxShownBytes + 1 THEN Suffix(shBuffer \o data, MaxShownBytes + 1) ELSE shBuffer \o data

\* A large write replaces the buffer by its own end, another one pushes out the oldest bytes.
appendBounded(data) ==
    IF Len(data) >= MaxShownBytes THEN Suffix(data, MaxShownBytes)
    ELSE LET overflow == Len(shBuffer) + Len(data) - MaxShownBytes
         IN  (IF overflow > 0 THEN SubSeq(shBuffer, overflow + 1, Len(shBuffer)) ELSE shBuffer) \o data

writeCut(data) ==
    IF Len(data) >= MaxShownBytes THEN Len(data) > MaxShownBytes \/ shWritten # <<>>
    ELSE shCut \/ Len(shBuffer) + Len(data) > MaxShownBytes

\* stdout and stderr, in whatever order the lock is taken.
Write ==
    /\ shResult = CommandRuns
    /\ \E n \in 1..(MaxWritten - Len(shWritten)) : \E feeds \in SUBSET (1..n) :
        LET data == [i \in 1..n |-> (Len(shWritten) + i) * (IF i \in feeds THEN -1 ELSE 1)]
        IN  /\ shBuffer' = appendBounded(data) /\ shCut' = writeCut(data)
            /\ shWritten' = shWritten \o data
    /\ UNCHANGED <<shResult, rdVars>>

\* The command ends, fails to start or is killed: what it wrote is shown in every case.
formatBashResult ==
    /\ shResult = CommandRuns
    /\ \E status \in {"ok", "failed", "timed out", "aborted"} :
        shResult' = [status |-> status] @@ [TruncateTail(shBuffer) EXCEPT !.cut = @ \/ shCut]
    /\ UNCHANGED <<shWritten, shBuffer, shCut, rdVars>>

--------------------------------------------------------------------------------
(* The read tool. *)

GrowRead ==
    /\ rdOffset = 0 /\ rdSeen = <<>> /\ Len(rdFile) < MaxFile
    /\ \E width \in 0..MaxWidth : rdFile' = Append(rdFile, width)
    /\ UNCHANGED <<shVars, rdOffset, rdSeen>>

StartRead ==
    /\ rdOffset = 0 /\ rdSeen = <<>> /\ rdFile # <<>>
    /\ rdOffset' = 1
    /\ UNCHANGED <<shVars, rdFile, rdSeen>>

\* The lines from the offset, at most as many as were asked for; 0 asks for all.
selectReadContent(limit) ==
    SubSeq(rdFile, rdOffset, IF limit = 0 \/ rdOffset + limit > Len(rdFile) THEN Len(rdFile) ELSE rdOffset + limit - 1)

\* Mutation: the last line that was shown is offered again.
offersLastLine(shown, selected) ==
    IF shown < selected \/ rdOffset + shown <= Len(rdFile) THEN rdOffset + shown - 1 ELSE 0

\* "Use offset=... to continue", when something is left; a line that is too long
\* for any page ends the reading with the advice to use another tool.
nextOffset(shown, selected) ==
    IF shown > 0 /\ (shown < selected \/ rdOffset + shown <= Len(rdFile)) THEN rdOffset + shown ELSE 0

textReadResult(limit) ==
    /\ rdOffset \in 1..Len(rdFile)
    /\ LET widths == selectReadContent(limit)
           shown == collectHeadLines(widths)
       IN  /\ rdSeen' = rdSeen \o [i \in 1..shown |-> rdOffset + i - 1]
           /\ rdOffset' = nextOffset(shown, Len(widths))
    /\ UNCHANGED <<shVars, rdFile>>

BashNext == Write \/ formatBashResult

ReadNext ==
    \/ GrowRead \/ StartRead
    \/ \E limit \in 0..(MaxShown + 1) : textReadResult(limit)

--------------------------------------------------------------------------------
(* Properties. *)

\* The buffer of a command holds the last bytes it wrote, in order, and says so
\* when there were more, however the output was cut into writes
\* (synchronizedBuffer.Write).
BufferIsTail ==
    /\ shBuffer = (IF Len(shWritten) > MaxShownBytes THEN Suffix(shWritten, MaxShownBytes) ELSE shWritten)
    /\ shCut = (Len(shWritten) > MaxShownBytes)

Fits(text) == Len(text) <= MaxShownBytes /\ Len(LinesOf(text)) <= MaxShown

\* What is shown of a command is the end of what it wrote, within both limits
\* and as much of it as the limits allow, and is marked when it is not all of it
\* (TruncateTail keeps "the last complete lines that fit within both limits").
TailShown ==
    shResult # CommandRuns =>
        LET shown == shResult.text
            more == Len(shBuffer) - Len(shown)
            wholeLine == more = 0 \/ shBuffer[more] < 0
        IN  /\ shown = Suffix(shWritten, Len(shown)) /\ Fits(shown)
            /\ wholeLine
            /\ \A longer \in (Len(shown) + 2)..Len(shBuffer) :
                   Fits(Suffix(shBuffer, longer)) => shBuffer[Len(shBuffer) - longer] > 0
            /\ shResult.cut = (shown # shWritten)

\* Whoever follows the offsets of the read tool sees the file from its first line
\* on, each line once and none left out; when no offset is named, everything was
\* shown, or the next line is longer than any page (truncatedReadOutput,
\* formatReadOutput).
PagesWholeFile ==
    /\ rdSeen = [i \in 1..Len(rdSeen) |-> i]
    /\ rdOffset # 0 => rdOffset = Len(rdSeen) + 1
    /\ (rdOffset = 0 /\ rdSeen # <<>> /\ Len(rdSeen) < Len(rdFile)) => rdFile[Len(rdSeen) + 1] > MaxShownBytes
================================================================================
