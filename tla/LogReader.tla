------------------------------ MODULE LogReader ------------------------------
(* The rotation-aware reader of log files (pkg/logs) as the web_log and       *)
(* squidlog collectors use it: Check opens the file at the configured path    *)
(* at its end and guesses a parser from its last lines, every Collect reads   *)
(* lines to the end of the file, and after enough empty reads the reader      *)
(* closes the file and opens whatever is at the path then.                    *)
(*                                                                            *)
(* Meanwhile the application writes lines, possibly in two parts, and the log *)
(* is rotated (renamed, then created anew, then the application reopens it)   *)
(* or truncated.  A line is two units, an odd and the even one after it that  *)
(* ends it; the units of all files are numbered in the order of writing.      *)
(* What a line says is left out.                                              *)
EXTENDS Integers, Sequences, Functions

CONSTANTS
    maxEOF,       \* empty reads before a reopen
    Parsers,      \* "json" gives up a Collect at a malformed line, "text" does not
    MaxUnits,     \* bound: units written
    MaxRotations  \* bound: rotations and truncations

VARIABLES
    disk,         \* contents of the files created so far
    live,         \* the file at the path, 0 if there is none
    writer,       \* the file the application writes to
    written,      \* units written so far
    disturbed,    \* rotations and truncations so far
    parser,       \* the parser of this job
    pc,           \* where the collector is
    caller,       \* the call under way: "check" or "collect"
    file,         \* the open file, 0 if there is none
    offset,       \* the reader's position in it
    eofCounter,   \* empty reads since the file was opened
    continuousEOF,\* empty reads in a row (2 stands for any number above)
    buffer,       \* units read and not yet taken by the parser
    owed,         \* history: units written while the reader was watching the file
                  \* that the parser has not taken
    last          \* history: the last unit the parser has taken

logVars == <<disk, live, writer, written, disturbed>>
readerVars == <<file, offset, eofCounter, continuousEOF>>
vars == <<logVars, parser, pc, caller, readerVars, buffer, owed, last>>

NoFile == 0
EndsLine(unit) == unit % 2 = 0
Contents(f) == IF f = NoFile THEN <<>> ELSE disk[f]

TypeOK ==
    /\ disk \in Seq(Seq(1..MaxUnits)) /\ live \in 0..Len(disk) /\ writer \in 1..Len(disk)
    /\ written \in 0..MaxUnits /\ disturbed \in 0..MaxRotations /\ parser \in Parsers
    /\ pc \in {"new", "find", "open", "seek", "parser", "idle", "read", "reopen", "stopped"}
    /\ caller \in {"check", "collect"}
    /\ file \in 0..Len(disk) /\ offset \in 0..MaxUnits
    /\ eofCounter \in 0..maxEOF /\ continuousEOF \in 0..2
    /\ buffer \in Seq(1..MaxUnits) /\ owed \subseteq 1..MaxUnits /\ last \in 0..MaxUnits

Init ==
    /\ disk = << <<1, 2>> >> /\ live = 1 /\ writer = 1 /\ written = 2 /\ disturbed = 0
    /\ parser \in Parsers /\ pc = "new" /\ caller = "check"
    /\ file = NoFile /\ offset = 0 /\ eofCounter = 0 /\ continuousEOF = 0
    /\ buffer = <<>> /\ owed = {} /\ last = 0

----------------------------------------------------------------------------
(* The application and the rotation of its log                                *)

\* The reader sees what is added to a file it has open and positioned, until the
\* read at whose end it decides to reopen.
Watching(f) == file = f /\ pc \notin {"seek", "reopen"} /\ offset <= Len(disk[f])

Writes(count) ==
    /\ written + count <= MaxUnits
    /\ written' = written + count
    /\ LET units == [k \in 1..count |-> written + k] IN
       /\ disk' = [disk EXCEPT ![writer] = @ \o units]
       /\ owed' = IF Watching(writer) THEN owed \cup Range(units) ELSE owed
    /\ UNCHANGED <<live, writer, disturbed, parser, pc, caller, readerVars, buffer, last>>

\* A line at once, or one part of it.
Write == Writes(1) \/ (EndsLine(written) /\ Writes(2))

Rotate ==
    /\ live # NoFile /\ disturbed < MaxRotations
    /\ live' = NoFile /\ disturbed' = disturbed + 1
    /\ UNCHANGED <<disk, writer, written, parser, pc, caller, readerVars, buffer, owed, last>>

Create ==
    /\ live = NoFile
    /\ disk' = Append(disk, <<>>) /\ live' = Len(disk) + 1
    /\ UNCHANGED <<writer, written, disturbed, parser, pc, caller, readerVars, buffer, owed, last>>

\* The application turns to the new file between two lines.
Switch ==
    /\ live # NoFile /\ writer # live /\ EndsLine(written)
    /\ writer' = live
    /\ UNCHANGED <<disk, live, written, disturbed, parser, pc, caller, readerVars, buffer, owed, last>>

Truncate ==
    /\ live # NoFile /\ disturbed < MaxRotations
    /\ disk' = [disk EXCEPT ![live] = <<>>] /\ disturbed' = disturbed + 1
    /\ owed' = owed \ (Range(disk[live]) \ Range(buffer))
    /\ UNCHANGED <<live, writer, written, parser, pc, caller, readerVars, buffer, last>>

----------------------------------------------------------------------------
(* Opening: find the file, open it, seek to the end it has then               *)

Close ==
    /\ file' = NoFile /\ eofCounter' = 0
    /\ UNCHANGED <<offset, continuousEOF>>

\* Check begins by closing what an earlier one has opened.
Check ==
    /\ pc = "new"
    /\ pc' = "find" /\ caller' = "check"
    /\ Close
    /\ UNCHANGED <<logVars, parser, buffer, owed, last>>

\* A failed Check is followed by the job's Cleanup; a Collect returns the error.
OpenFails ==
    /\ pc' = IF caller = "check" THEN "stopped" ELSE "idle"
    /\ Close
    /\ UNCHANGED <<logVars, parser, caller, buffer, owed, last>>

findFile ==
    /\ pc = "find"
    /\ \/ live = NoFile /\ OpenFails
       \/ /\ live # NoFile /\ pc' = "open"
          /\ UNCHANGED <<logVars, parser, caller, readerVars, buffer, owed, last>>

OpenFile ==
    /\ pc = "open"
    /\ \/ live = NoFile /\ OpenFails
       \/ /\ live # NoFile /\ file' = live /\ offset' = 0 /\ pc' = "seek"
          /\ UNCHANGED <<logVars, parser, caller, eofCounter, continuousEOF, buffer, owed, last>>

\* The parser takes a piece: a whole line, or what there is of one.
Malformed(piece) == Len(piece) = 1

Takes(piece) ==
    /\ buffer' = SubSeq(buffer, Len(piece) + 1, Len(buffer))
    /\ owed' = owed \ Range(piece)
    /\ last' = piece[Len(piece)]
    /\ pc' = IF parser = "json" /\ Malformed(piece) THEN "idle" ELSE "read"

\* The read has returned io.EOF: a part of a line is taken as if it were one,
\* without it the Collect is over.
EndOfFile ==
    IF buffer = <<>> THEN pc' = "idle" /\ UNCHANGED <<buffer, owed, last>> ELSE Takes(buffer)

SeekStart ==
    /\ pc = "seek"
    /\ offset' = 0
    /\ IF caller = "check" THEN pc' = "parser" /\ UNCHANGED <<buffer, owed, last>> ELSE EndOfFile
    /\ UNCHANGED <<logVars, parser, caller, file, eofCounter, continuousEOF>>

SeekEnd ==
    /\ pc = "seek"
    /\ offset' = Len(disk[file])
    /\ IF caller = "check" THEN pc' = "parser" /\ UNCHANGED <<buffer, owed, last>> ELSE EndOfFile
    /\ UNCHANGED <<logVars, parser, caller, file, eofCounter, continuousEOF>>

\* The last lines are read through the path, not through the open file.
createParser ==
    /\ pc = "parser"
    /\ \/ /\ \E unit \in Range(Contents(live)) : EndsLine(unit)
          /\ pc' = "idle" /\ UNCHANGED readerVars
       \/ /\ \A unit \in Range(Contents(live)) : ~EndsLine(unit)
          /\ pc' = "stopped" /\ Close
    /\ UNCHANGED <<logVars, parser, caller, buffer, owed, last>>

----------------------------------------------------------------------------
(* Collect: lines until io.EOF or an error that is not a parse error          *)

CollectAnew ==
    /\ pc = "idle"
    /\ pc' = "read" /\ caller' = "collect"
    /\ buffer' = <<>>
    /\ UNCHANGED <<logVars, parser, readerVars, owed, last>>

Collect ==
    /\ pc = "idle"
    /\ pc' = "read" /\ caller' = "collect"
    /\ UNCHANGED <<logVars, parser, readerVars, buffer, owed, last>>

LineEnds == {k \in DOMAIN buffer : EndsLine(buffer[k])}

ReadLine ==
    /\ pc = "read" /\ LineEnds # {}
    /\ LET end == CHOOSE k \in LineEnds : \A m \in LineEnds : k <= m
       IN  Takes(SubSeq(buffer, 1, end))
    /\ UNCHANGED <<logVars, parser, caller, readerVars>>

Reading == pc = "read" /\ LineEnds = {}

ReadData ==
    /\ Reading /\ file # NoFile
    /\ \E end \in offset + 1..Len(disk[file]) :
        /\ buffer' = buffer \o SubSeq(disk[file], offset + 1, end)
        /\ offset' = end
    /\ continuousEOF' = 0
    /\ UNCHANGED <<logVars, parser, pc, caller, file, eofCounter, owed, last>>

Least(a, b) == IF a < b THEN a ELSE b

\* Reading at the end: reopen after maxEOF such reads, the last two in a row.
handleEOFErr ==
    /\ Reading /\ file # NoFile /\ offset >= Len(disk[file])
    /\ eofCounter' = Least(eofCounter + 1, maxEOF)
    /\ continuousEOF' = Least(continuousEOF + 1, 2)
    /\ IF eofCounter' < maxEOF \/ continuousEOF' < 2
       THEN EndOfFile
       ELSE pc' = "reopen" /\ UNCHANGED <<buffer, owed, last>>
    /\ UNCHANGED <<logVars, parser, caller, file, offset>>

\* The read at the end and the Close are two steps: the application may write to
\* the open file in between.
reopen ==
    /\ pc = "reopen"
    /\ pc' = "find"
    /\ Close
    /\ UNCHANGED <<logVars, parser, caller, buffer, owed, last>>

IgnoresClosed ==
    /\ Reading /\ file = NoFile
    /\ pc' = "idle"
    /\ UNCHANGED <<logVars, parser, caller, readerVars, buffer, owed, last>>

\* Reading without a file, after a reopen that failed.
handleInvalidArgErr ==
    /\ Reading /\ file = NoFile
    /\ pc' = "find"
    /\ UNCHANGED <<logVars, parser, caller, readerVars, buffer, owed, last>>

Cleanup ==
    /\ pc = "idle"
    /\ pc' = "stopped" /\ Close
    /\ UNCHANGED <<logVars, parser, caller, buffer, owed, last>>

CollectorStep ==
    \/ findFile \/ OpenFile \/ SeekEnd \/ createParser
    \/ Collect \/ ReadLine \/ ReadData \/ handleEOFErr \/ reopen \/ handleInvalidArgErr

Next ==
    \/ Write \/ Rotate \/ Create \/ Switch \/ Truncate
    \/ Check \/ findFile \/ OpenFile \/ SeekEnd \/ createParser
    \/ Collect \/ ReadLine \/ ReadData \/ handleEOFErr \/ reopen \/ handleInvalidArgErr
    \/ Cleanup

(* A rotation is completed, and the job calls Collect at every tick.          *)
Fairness ==
    /\ WF_vars(Create) /\ WF_vars(Switch)
    /\ WF_vars(CollectorStep)

Spec == Init /\ [][Next]_vars /\ Fairness

----------------------------------------------------------------------------
(* Properties                                                                 *)

\* What the application writes while the reader has the file open and is
\* positioned in it is taken by the parser, waits in the buffer, or lies ahead
\* of the reader in the file it has open, also after a rotation, across Collects
\* that end with an error, and when the reader closes the file to open it again.
\* (What is written between the read that makes the reader reopen and its seek
\* to the end of what it then opens is skipped, if it is the same file too.)
OwedIsAhead ==
    pc # "stopped" =>
        \A unit \in owed :
            \/ unit \in Range(buffer)
            \/ \E k \in offset + 1..Len(Contents(file)) : disk[file][k] = unit

\* No part of the log is taken twice or out of order, whatever files are
\* opened, reopened, rotated or truncated in between: every unit that leaves the
\* buffer is later than all the parser has taken before.
InOrderOnce ==
    [][\A k \in 1..Len(buffer) - Len(buffer') :
           buffer[k] > IF k = 1 THEN last ELSE buffer[k - 1]]_vars

\* A job that is not stopped comes to the end of the file at the path again
\* and again: no rotation, missing file or truncation leaves it behind for
\* good.
CatchesUp ==
    []<>(\/ pc \in {"new", "stopped"}
         \/ /\ live # NoFile /\ file = live
            /\ offset = Len(disk[live]) /\ buffer = <<>>)
=============================================================================
