--------------------------- MODULE CollectorTail ---------------------------
(***************************************************************************)
(* kya/runtime/_collector.py, iter_tail: the collector follows the log of  *)
(* a runtime sensor by reading and looking at the file in turn.  The       *)
(* sensor writes a line in two pieces, of which the second ends it; its    *)
(* log is rotated by renaming it, or cut to nothing in place, and after a  *)
(* rotation the sensor goes on in the old file until it opens the new one. *)
(* The lines that are yielded are parsed and ingested one by one, what is  *)
(* not JSON is counted (run_collector); the tail does not depend on it.    *)
(***************************************************************************)
EXTENDS Integers, Sequences, SequencesExt

CONSTANTS MaxLines, MaxRotations, MaxCuts

VARIABLES
    files,      \* the content of each file there was, by inode, in pieces [line, part]
    path,       \* the inode at the path, 0 while there is none
    writing,    \* the inode the sensor writes to
    written,    \* the pieces it has written
    cuts,
    fd, pos,    \* the inode the tail has open, and how far it has read
    leftover,   \* the beginning of a line
    yielded,    \* the lines, each a sequence of pieces
    pc,
    drained,    \* the pieces in the open file when a read came back empty
    misplaced,  \* the open file was cut below the position, and nobody has noticed
    misread     \* it grew past the position before anybody did

vars == <<files, path, writing, written, cuts, fd, pos, leftover, yielded, pc, drained,
          misplaced, misread>>
sensor == <<files, path, writing, written, cuts>>

Piece(n) == [line |-> (n + 1) \div 2, part |-> IF n % 2 = 1 THEN 1 ELSE 2]
Rest(s, n) == SubSeq(s, n + 1, Len(s))
AtLineEnd == Len(written) % 2 = 0
Ended(p) == p.part = 2
-----------------------------------------------------------------------------
\* The tail starts at the end of what is there.
Init ==
    /\ files = <<<<>>>> /\ path = 1 /\ writing = 1 /\ written = <<>> /\ cuts = 0
    /\ fd = 1 /\ pos = 0 /\ leftover = <<>> /\ yielded = <<>> /\ pc = "read"
    /\ drained = {} /\ misplaced = FALSE /\ misread = FALSE

Write ==
    /\ Len(written) < 2 * MaxLines
    /\ LET piece == Piece(Len(written) + 1)
       IN /\ written' = Append(written, piece)
          /\ files' = [files EXCEPT ![writing] = Append(@, piece)]
    /\ UNCHANGED <<path, writing, cuts, fd, pos, leftover, yielded, pc, drained, misplaced,
                   misread>>

\* logrotate: rename, create, and later the sensor opens the new file, between two lines.
Rename ==
    /\ path # 0 /\ Len(files) <= MaxRotations
    /\ path' = 0
    /\ UNCHANGED <<files, writing, written, cuts, fd, pos, leftover, yielded, pc, drained,
                   misplaced, misread>>

Create ==
    /\ path = 0
    /\ files' = Append(files, <<>>) /\ path' = Len(files) + 1
    /\ UNCHANGED <<writing, written, cuts, fd, pos, leftover, yielded, pc, drained,
                   misplaced, misread>>

Reopen ==
    /\ path \notin {0, writing} /\ AtLineEnd
    /\ writing' = path
    /\ UNCHANGED <<files, path, written, cuts, fd, pos, leftover, yielded, pc, drained,
                   misplaced, misread>>

\* copytruncate, between two lines.
Cut ==
    /\ path # 0 /\ cuts < MaxCuts /\ AtLineEnd
    /\ files' = [files EXCEPT ![path] = <<>>] /\ cuts' = cuts + 1
    /\ misplaced' = (misplaced \/ (fd = path /\ pos > 0))
    /\ UNCHANGED <<path, writing, written, fd, pos, leftover, yielded, pc, drained, misread>>

\* A seeded fault, the mutant of TailKept: the beginning of a line is forgotten.
LinesUnjoined(buf) ==
    [lines |-> [k \in DOMAIN SelectSeq(buf, Ended) |-> <<SelectSeq(buf, Ended)[k]>>],
     rest |-> <<>>]

\* What split("\n") makes of a chunk after the leftover: whole lines, and a beginning.
Lines(buf) ==
    LET ends == SelectSeq([i \in DOMAIN buf |-> i], LAMBDA i : Ended(buf[i]))
        From(k) == IF k = 1 THEN 1 ELSE ends[k - 1] + 1
    IN [lines |-> [k \in DOMAIN ends |-> SubSeq(buf, From(k), ends[k])],
        rest |-> IF ends = <<>> THEN buf ELSE Rest(buf, Last(ends))]

Read ==
    /\ pc = "read" /\ pos < Len(files[fd])
    /\ LET cut == Lines(leftover \o Rest(files[fd], pos))
       IN yielded' = yielded \o cut.lines /\ leftover' = cut.rest
    /\ pos' = Len(files[fd])
    /\ misread' = (misread \/ misplaced) /\ misplaced' = FALSE
    /\ UNCHANGED <<sensor, fd, pc, drained>>

\* Nothing new: the file at the path is looked at next.
ReadNothing ==
    /\ pc = "read" /\ pos >= Len(files[fd])
    /\ pc' = "stat"
    /\ drained' = IF misplaced THEN drained ELSE drained \cup ToSet(files[fd])
    /\ UNCHANGED <<sensor, fd, pos, leftover, yielded, misplaced, misread>>

\* os.stat finds another file: it is opened next.
StatRotated ==
    /\ pc = "stat" /\ path \notin {0, fd}
    /\ pc' = "open"
    /\ UNCHANGED <<sensor, fd, pos, leftover, yielded, drained, misplaced, misread>>

\* It finds the same file, shorter than it was: back to its beginning.
StatCut ==
    /\ pc = "stat" /\ path = fd /\ Len(files[fd]) < pos
    /\ pos' = 0 /\ leftover' = <<>> /\ misplaced' = FALSE /\ pc' = "read"
    /\ UNCHANGED <<sensor, fd, yielded, drained, misread>>

\* It finds nothing there, or the same file: a pause.
StatSame ==
    /\ pc = "stat" /\ path \in {0, fd} /\ (path = fd => Len(files[fd]) >= pos)
    /\ pc' = "read"
    /\ UNCHANGED <<sensor, fd, pos, leftover, yielded, drained, misplaced, misread>>

\* The old file is closed and the one at the path opened, whichever it is by now.
OpenNext ==
    /\ pc = "open" /\ path # 0
    /\ fd' = path /\ pos' = 0 /\ leftover' = <<>> /\ misplaced' = FALSE /\ pc' = "read"
    /\ UNCHANGED <<sensor, yielded, drained, misread>>

\* It was renamed once more: open raises and the collector ends.
OpenFails ==
    /\ pc = "open" /\ path = 0
    /\ pc' = "died"
    /\ UNCHANGED <<sensor, fd, pos, leftover, yielded, drained, misplaced, misread>>

Next ==
    \/ Write \/ Rename \/ Create \/ Reopen \/ Cut
    \/ Read \/ ReadNothing \/ StatRotated \/ StatCut \/ StatSame \/ OpenNext \/ OpenFails

Spec == Init /\ [][Next]_vars
-----------------------------------------------------------------------------
\* The type invariant.
TypeOK ==
    /\ path \in 0..Len(files) /\ {writing, fd} \subseteq 1..Len(files)
    /\ pos \in Nat /\ pc \in {"read", "stat", "open", "died"}
    /\ Len(written) <= 2 * MaxLines /\ drained \subseteq ToSet(written)

Line(n) == <<Piece(2 * n - 1), Piece(2 * n)>>

\* What is yielded is whole lines, each once and in order, however the log is rotated or
\* cut, unless a file that was cut grows past the old position unnoticed.
WholeLinesInOrder ==
    ~ misread =>
        /\ \A k \in DOMAIN yielded : \E n \in 1..MaxLines : yielded[k] = Line(n)
        /\ \A k \in 1..(Len(yielded) - 1) : yielded[k][1].line < yielded[k + 1][1].line

\* A line that was complete in the open file when a read came back empty is yielded,
\* whatever is done to the file afterwards: a rotation loses only what the sensor writes
\* between that read and the tail's turning to the new file.
DrainedIsYielded ==
    ~ misread =>
        \A n \in 1..MaxLines :
            ToSet(Line(n)) \subseteq drained => Line(n) \in ToSet(yielded)

TailKept == WholeLinesInOrder /\ DrainedIsYielded
=============================================================================
