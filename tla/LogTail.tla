------------------------------- MODULE LogTail ------------------------------
(***************************************************************************)
(* WatchAndPrintDnsmasqLog (backend/pkg/dnsmasqwrapper): one goroutine of  *)
(* the backend reads /tmp/dnsmasq.log to its end again and again, hands    *)
(* each line to processLogLine, which prints and counts it, and truncates  *)
(* the file now and then while dnsmasq keeps appending to it.              *)
(*                                                                         *)
(* The log is what dnsmasq ever wrote, as pieces numbered 1, 2, ...: line  *)
(* n is piece 2n-1, its head, and piece 2n, its tail with the newline.     *)
(* The file holds the pieces after "start", the tail's bufio.Reader those  *)
(* after "consumed" up to "position", where its file descriptor stands.    *)
(***************************************************************************)
EXTENDS Integers

CONSTANTS
    maxLinesBeforeTruncate,
    TornLines,      \* a read may see a line that is not completely written
    MaxLines        \* bound: how many lines dnsmasq writes

ASSUME LogAssumption == /\ maxLinesBeforeTruncate \in Nat \ {0}
                        /\ TornLines \in BOOLEAN
                        /\ MaxLines \in Nat

VARIABLES
    written,        \* the last piece that dnsmasq wrote
    start,          \* the last piece that was truncated away
    position,       \* the last piece read from the file
    consumed,       \* the last piece that ReadString returned
    place,          \* where the goroutine is
    linesRead,      \* its counters
    linesNextTruncate,
    processed,      \* history: lines that processLogLine got whole
    lost            \* history: lines of which a piece was dropped

fileVars == <<written, start>>
readerVars == <<position, consumed>>
counterVars == <<linesRead, linesNextTruncate>>
historyVars == <<processed, lost>>
vars == <<fileVars, readerVars, place, counterVars, historyVars>>

IsTail(piece) == piece % 2 = 0
Line(piece) == (piece + 1) \div 2

\* The lines that have a piece after "first", up to "last".
LinesOf(first, last) == Line(first + 1)..Line(last)

Init ==
    /\ written = 0
    /\ start = 0
    /\ position = 0
    /\ consumed = 0
    /\ place = "opening"
    /\ linesRead = 0
    /\ linesNextTruncate = maxLinesBeforeTruncate
    /\ processed = {}
    /\ lost = {}

\* dnsmasq (external) appends, wherever the file ends at that moment.
AppendLog ==
    /\ written < 2 * MaxLines
    /\ written' = written + (IF TornLines THEN 1 ELSE 2)
    /\ UNCHANGED <<start, readerVars, place, counterVars, historyVars>>

\* The file is there once dnsmasq has written to it.
OpenLog ==
    /\ place = "opening"
    /\ written > 0
    /\ place' = "reading"
    /\ UNCHANGED <<fileVars, readerVars, counterVars, historyVars>>

-----------------------------------------------------------------------------
(* reader.ReadString('\n')                                                 *)

HasLine == \E piece \in consumed + 1..position : IsTail(piece)

\* The buffer holds no newline: the reader takes more from the file.
FillBuffer ==
    /\ place = "reading"
    /\ ~HasLine
    /\ position' \in position + 1..written
    /\ UNCHANGED <<fileVars, consumed, place, counterVars, historyVars>>

\* io.EOF: what ReadString returns beside it, a line without its end, is
\* dropped.
ReadEOF ==
    /\ place = "reading"
    /\ ~HasLine
    /\ position = written
    /\ consumed < position
    /\ consumed' = position
    /\ lost' = lost \cup LinesOf(consumed, position)
    /\ UNCHANGED <<fileVars, position, place, counterVars, processed>>

\* Any other error ends the goroutine.
ReadFails ==
    /\ place = "reading"
    /\ place' = "failed"
    /\ UNCHANGED <<fileVars, readerVars, counterVars, historyVars>>

\* A line, or the tail of one whose head was dropped.
ReadLine ==
    /\ place = "reading"
    /\ HasLine
    /\ LET end == 2 * Line(consumed + 1) IN
        /\ consumed' = end
        /\ processed' = IF IsTail(consumed) THEN processed \cup {Line(end)}
                                            ELSE processed
    /\ linesRead' = linesRead + 1
    /\ IF linesRead + 1 >= linesNextTruncate
       THEN /\ linesNextTruncate' = linesNextTruncate + maxLinesBeforeTruncate
            /\ place' = "truncating"
       ELSE UNCHANGED <<linesNextTruncate, place>>
    /\ UNCHANGED <<fileVars, position, lost>>

-----------------------------------------------------------------------------
(* The truncation.                                                         *)

\* Faulty variant: the goroutine returns instead of going on.
SkipTruncationForGood ==
    /\ place = "truncating"
    /\ place' = "returned"
    /\ UNCHANGED <<fileVars, readerVars, counterVars, historyVars>>

\* Faulty variant: the next attempt is due at once.
SkipTruncationRetrying ==
    /\ place = "truncating"
    /\ place' = "reading"
    /\ linesNextTruncate' = linesRead
    /\ UNCHANGED <<fileVars, readerVars, linesRead, historyVars>>

\* updateDnsmasqPIDs finds no dnsmasq in /proc.
SkipTruncation ==
    /\ place = "truncating"
    /\ place' = "reading"
    /\ UNCHANGED <<fileVars, readerVars, counterVars, historyVars>>

\* Faulty variant: the reader goes back to the start although Truncate failed.
TruncateFailsRewinding ==
    /\ place = "truncating"
    /\ place' = "reading"
    /\ position' = start
    /\ consumed' = start
    /\ UNCHANGED <<fileVars, counterVars, historyVars>>

TruncateFails ==
    /\ place = "truncating"
    /\ place' = "reading"
    /\ UNCHANGED <<fileVars, readerVars, counterVars, historyVars>>

\* updateDnsmasqPIDs finds a dnsmasq and file.Truncate(0) succeeds.  Whatever
\* is in the file or in the buffer will not be read any more.
TruncateLog ==
    /\ place = "truncating"
    /\ place' = "rewinding"
    /\ start' = written
    /\ lost' = lost \cup LinesOf(consumed, written)
    /\ UNCHANGED <<written, readerVars, counterVars, processed>>

\* Faulty variant: io.SeekEnd.
RewindToEnd ==
    /\ place = "rewinding"
    /\ place' = "reading"
    /\ position' = written
    /\ consumed' = written
    /\ linesRead' = 0
    /\ linesNextTruncate' = maxLinesBeforeTruncate
    /\ UNCHANGED <<fileVars, historyVars>>

\* Faulty variant: linesRead is not reset.
RewindKeepingCount ==
    /\ place = "rewinding"
    /\ place' = "reading"
    /\ position' = start
    /\ consumed' = start
    /\ linesNextTruncate' = maxLinesBeforeTruncate
    /\ UNCHANGED <<fileVars, linesRead, historyVars>>

\* file.Seek(0, io.SeekStart), which cannot fail on a regular file, and
\* reader.Reset.  The SIGUSR2 that follows makes dnsmasq open the same file.
Rewind ==
    /\ place = "rewinding"
    /\ place' = "reading"
    /\ position' = start
    /\ consumed' = start
    /\ linesRead' = 0
    /\ linesNextTruncate' = maxLinesBeforeTruncate
    /\ UNCHANGED <<fileVars, historyVars>>

-----------------------------------------------------------------------------
TailStep ==
    \/ OpenLog
    \/ FillBuffer \/ ReadEOF \/ ReadFails \/ ReadLine
    \/ SkipTruncation \/ TruncateFails \/ TruncateLog \/ Rewind

Next == AppendLog \/ TailStep

Spec == Init /\ [][Next]_vars

\* The goroutine runs when it can.
FairSpec == Spec /\ WF_vars(TailStep)

-----------------------------------------------------------------------------
(* What the tail promises.                                                 *)

LogTypeOK ==
    /\ written \in Nat
    /\ start \in 0..written
    /\ position \in 0..written
    /\ consumed \in 0..position
    /\ place \in {"opening", "reading", "truncating", "rewinding", "failed"}
    /\ linesNextTruncate \in Nat
    /\ linesRead \in 0..linesNextTruncate
    /\ processed \in SUBSET (1..Line(written))
    /\ lost \in SUBSET (1..Line(written))

\* The line is still in the buffer or in the file.
Ahead(line) == 2 * line > IF place = "rewinding" THEN start ELSE consumed

\* No line vanishes silently, wherever a truncation falls between the writes of
\* dnsmasq and the reads of the tail: a line that is written is processed
\* whole, or still ahead, or among those dropped with the end of the file
\* (276-280) or by a truncation (304-315), and no line is two of these.
LinesAreSettled ==
    /\ \A line \in 1..written \div 2 :
        line \in processed \/ line \in lost \/ Ahead(line)
    /\ processed \cap lost = {}
    /\ \A line \in processed : ~Ahead(line)

\* Truncations, successful or not, never make the tail see a line again or an
\* older line after a newer one: processLogLine would count it twice.
LinesInOrder ==
    [][\A line \in processed' \ processed : \A old \in processed : old < line]_vars

\* "in case we fail truncation, do no retry _immediately_" (dnsmasq.go:292-293),
\* yet again after as many lines, so that the log does not grow for good.
AttemptsAreSpaced ==
    place = "reading" =>
        linesNextTruncate - linesRead \in 1..maxLinesBeforeTruncate

\* The tail never stops following the log: every line is processed or dropped
\* in the end, unless a read fails.
LinesAreRead ==
    \A line \in 1..MaxLines :
        written >= 2 * line ~> line \in processed \cup lost \/ place = "failed"

\* "calls processLogLine for each new line" (dnsmasq.go:252)
EveryLineIsProcessed ==
    \A line \in 1..written \div 2 : line \in processed \/ Ahead(line)
=============================================================================
